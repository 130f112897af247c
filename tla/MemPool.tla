------------------------------ MODULE MemPool -------------------------------
(***************************************************************************)
(* What a caller may expect of OSMMalloc and OSMFree: a block that nobody  *)
(* else holds, inside the pool, of at least the size asked for, until it   *)
(* is given back.  How the pool finds room is not part of the promise.     *)
(***************************************************************************)
EXTENDS Integers

CONSTANTS Pool,     \* the bytes of the pool
          Sizes     \* the sizes callers ask for

VARIABLE blocks     \* the blocks held: first byte -> size

(* The bytes of a block that was handed out. *)
Bytes(a, n) == a .. a + n - 1

Init == blocks = [a \in {} |-> 0]

Malloc ==
  \E n \in Sizes, a \in Pool \ DOMAIN blocks :
    /\ Bytes(a, n) \subseteq Pool
    /\ \A b \in DOMAIN blocks : Bytes(a, n) \cap Bytes(b, blocks[b]) = {}
    /\ blocks' = [b \in DOMAIN blocks \cup {a} |->
                    IF b = a THEN n ELSE blocks[b]]

Free ==
  \E a \in DOMAIN blocks :
    blocks' = [b \in DOMAIN blocks \ {a} |-> blocks[b]]

Next == Malloc \/ Free

Spec == Init /\ [][Next]_blocks
=============================================================================
