----------------------------- MODULE SerialPipe -----------------------------
(***************************************************************************)
(* What the network-to-serial direction promises: the chunks that arrive   *)
(* from the network leave on the UART in the order of their arrival, each  *)
(* exactly once.  The contents of a chunk may be blanked on the way (the   *)
(* escape sequence does that), but no chunk is skipped or repeated.        *)
(***************************************************************************)
EXTENDS Naturals, Sequences

CONSTANTS Chunk,     \* what one recv may return
          Blank,     \* a chunk whose characters were overwritten with zeros
          Capacity   \* how many chunks may be under way

VARIABLES in,        \* the chunks that have arrived
          out        \* the chunks that have left

Init == in = <<>> /\ out = <<>>

Arrive ==
  /\ Len(in) < Len(out) + Capacity
  /\ \E c \in Chunk : in' = Append(in, c)
  /\ UNCHANGED out

Leave ==
  /\ Len(out) < Len(in)
  /\ \E c \in {in[Len(out) + 1], Blank} : out' = Append(out, c)
  /\ UNCHANGED in

Next == Arrive \/ Leave

Spec == Init /\ [][Next]_<<in, out>>
=============================================================================
