-------------------------------- MODULE Dmem --------------------------------
(***************************************************************************)
(* The dynamic memory pool of the SDK (Ports/Cortex-M3/os_dmem.c).         *)
(*                                                                         *)
(* The pool is one byte array cut into blocks.  Every block starts with a  *)
(* DM_HEADER that links it to its neighbours; the list is circular, and a  *)
(* trailer block that is never free keeps a merge from crossing the end.   *)
(* An address is a byte offset from dm_start_address.                      *)
(*                                                                         *)
(* OS_GetMem and OS_FreeMem run with interrupts masked, so a call is never *)
(* interleaved with another.  The search loop of OS_GetMem is modelled one *)
(* iteration at a time all the same: what makes it stop, and what its      *)
(* giving up means, are questions about the loop.                          *)
(***************************************************************************)
EXTENDS Integers, FiniteSets

CONSTANTS PoolSize,       \* bytes handed to OS_Create_Memory_Pool
          HeaderSize,     \* sizeof(DM_HEADER)
          MinAllocation,  \* the min_allocation argument
          Sizes,          \* the sizes the callers ask for
          UIntRange       \* 2^32: UNSIGNED arithmetic is modulo UIntRange

Word == 4                 \* sizeof(UNSIGNED)

RoundUp(n) == ((n + Word - 1) \div Word) * Word

Overhead == RoundUp(HeaderSize)                 \* DM_OVERHEAD
PoolBytes == (PoolSize \div Word) * Word        \* dm_pool_size
MinBytes == RoundUp(MinAllocation)              \* dm_min_allocation

Start == 0
Trailer == PoolBytes - Overhead

ASSUME PoolAssumption ==
  /\ PoolSize \in Nat
  /\ HeaderSize \in Nat \ {0}
  /\ MinAllocation \in Nat \ {0}
  /\ PoolBytes >= 2 * Overhead + MinBytes

(* No caller asks for a size that wraps when it is rounded up to a word.   *)
ASSUME SizesAssumption ==
  /\ UIntRange \in Nat
  /\ Sizes \subseteq Nat
  /\ \A s \in Sizes : s + Word - 1 < UIntRange

VARIABLES
  live,            \* addresses of the headers that are linked in the list
  dm_next,         \* dm_next_memory of each linked header
  dm_prev,         \* dm_previous_memory
  dm_free,         \* dm_memory_free
  dm_available,    \* bytes the control block believes to be available
  dm_search_ptr,   \* header where the next search starts
  held,            \* the callers' blocks: header -> size asked for
  pc,              \* "idle", or where OS_GetMem is
  request,         \* the size argument of the call under way
  size,            \* the same, after OS_GetMem adjusted it
  memory_ptr       \* the header its loop looks at

list == <<live, dm_next, dm_prev, dm_free>>
call == <<request, size, memory_ptr>>
vars == <<live, dm_next, dm_prev, dm_free, dm_available, dm_search_ptr, held,
          pc, request, size, memory_ptr>>

-----------------------------------------------------------------------------
(* OS_Create_Memory_Pool: one free block and the trailer. *)
Init ==
  /\ live = {Start, Trailer}
  /\ dm_next = [h \in {Start, Trailer} |-> IF h = Start THEN Trailer ELSE Start]
  /\ dm_prev = [h \in {Start, Trailer} |-> IF h = Start THEN Trailer ELSE Start]
  /\ dm_free = [h \in {Start, Trailer} |-> h = Start]
  /\ dm_available = PoolBytes - 2 * Overhead
  /\ dm_search_ptr = Start
  /\ held = [h \in {} |-> 0]
  /\ pc = "idle"
  /\ request = 0
  /\ size = 0
  /\ memory_ptr = Start

(* n + 3 in UNSIGNED arithmetic, then down to a multiple of the word. *)
Wrap(n) == IF n < UIntRange THEN n ELSE n - UIntRange
RoundedDown(n) == IF n < MinBytes THEN MinBytes ELSE (n \div Word) * Word
AdjustSize(n) ==
  IF n < MinBytes THEN MinBytes
                  ELSE (Wrap(n + Word - 1) \div Word) * Word

BlockSize(h) == dm_next[h] - h - Overhead
IgnoresFreeFlag(h) == BlockSize(h)
FreeSize(h) == IF dm_free[h] THEN BlockSize(h) ELSE 0

(* OS_GetMem is entered (OSMMalloc, OSMCalloc). *)
GetMemEnter(n) ==
  /\ pc = "idle"
  /\ pc' = "search"
  /\ request' = n
  /\ size' = AdjustSize(n)
  /\ memory_ptr' = dm_search_ptr
  /\ UNCHANGED <<list, dm_available, dm_search_ptr, held>>

(* The search gives up when it is back at the header it started from. *)
NeverOver(p) == FALSE
OverAtTrailer(p) == p = Trailer
SearchOver(p) == p = dm_search_ptr

(* One turn of the do-while loop that does not find its block. *)
GetMemSearch ==
  /\ pc = "search"
  /\ FreeSize(memory_ptr) < size
  /\ memory_ptr' = dm_next[memory_ptr]
  /\ pc' = IF SearchOver(dm_next[memory_ptr]) THEN "full" ELSE "search"
  /\ UNCHANGED <<list, dm_available, dm_search_ptr, held, request, size>>

(* OS_GetMem returns: its arguments and locals are gone. *)
Return ==
  /\ pc' = "idle"
  /\ request' = 0
  /\ size' = 0
  /\ memory_ptr' = Start

(* Nothing fits: OS_ERR_MEM_FULL, and the caller gets NULL. *)
GetMemFull ==
  /\ pc = "full"
  /\ Return
  /\ UNCHANGED <<list, dm_available, dm_search_ptr, held>>

Found ==
  /\ pc = "search"
  /\ FreeSize(memory_ptr) >= size

SplitWithoutMinimum == FreeSize(memory_ptr) >= size + Overhead
MustSplit == FreeSize(memory_ptr) >= size + Overhead + MinBytes

(* What both ways of taking a block end with: the block is not free any    *)
(* more, a search pointer on it moves on, and the caller gets it.          *)
Deliver(nextOf) ==
  /\ dm_search_ptr' = IF dm_search_ptr = memory_ptr THEN nextOf[memory_ptr]
                                                    ELSE dm_search_ptr
  /\ held' = [h \in DOMAIN held \cup {memory_ptr} |->
                IF h = memory_ptr THEN request ELSE held[h]]
  /\ Return

(* The block is cut in two: new_ptr heads the free remainder. *)
GetMemSplit ==
  LET new_ptr == memory_ptr + size + Overhead
      after == dm_next[memory_ptr]
  IN  /\ Found
      /\ MustSplit
      /\ live' = live \cup {new_ptr}
      /\ dm_next' = [h \in live' |-> CASE h = new_ptr -> after
                                       [] h = memory_ptr /\ h # new_ptr -> new_ptr
                                       [] OTHER -> dm_next[h]]
      /\ dm_prev' = [h \in live' |-> CASE h = new_ptr -> memory_ptr
                                       [] h = after /\ h # new_ptr -> new_ptr
                                       [] OTHER -> dm_prev[h]]
      /\ dm_free' = [h \in live' |-> CASE h = new_ptr -> TRUE
                                       [] h = memory_ptr /\ h # new_ptr -> FALSE
                                       [] OTHER -> dm_free[h]]
      /\ dm_available' = dm_available - size - Overhead
      /\ Deliver(dm_next')

(* The remainder would be too small for a block: all of it is handed out. *)
GetMemWhole ==
  /\ Found
  /\ ~MustSplit
  /\ dm_free' = [dm_free EXCEPT ![memory_ptr] = FALSE]
  /\ dm_available' = dm_available - FreeSize(memory_ptr)
  /\ UNCHANGED <<live, dm_next, dm_prev>>
  /\ Deliver(dm_next)

(* Which neighbours a freed block merges with, and where the merged block  *)
(* begins and ends.                                                        *)
MergesPrev(h) == dm_free[dm_prev[h]]

OnlyOneMerge(h) == ~MergesPrev(h) /\ dm_free[dm_next[h]]
MergesNext(h) == dm_free[dm_next[h]]

Merges(h) == MergesPrev(h) \/ MergesNext(h)
MergeBase(h) == IF MergesPrev(h) THEN dm_prev[h] ELSE h

EndAtMergedHeader(h) == dm_next[h]
MergeEnd(h) == IF MergesNext(h) THEN dm_next[dm_next[h]] ELSE dm_next[h]

(* The headers that a merge takes out of the list. *)
Dissolved(h) == {x \in live : \/ MergesPrev(h) /\ x = h
                              \/ MergesNext(h) /\ x = dm_next[h]}

(* The bytes that become available: the block's, and the header of every   *)
(* block that a merge dissolves.                                           *)
Regained(h) == BlockSize(h) + (IF MergesPrev(h) THEN Overhead ELSE 0)
                            + (IF MergesNext(h) THEN Overhead ELSE 0)

(* A merge moves the search pointer to the merged block. *)
SearchPtrForgotten(h) == dm_search_ptr
SearchAfterFree(h) == IF Merges(h) THEN MergeBase(h) ELSE dm_search_ptr

(* OS_FreeMem of a block a caller holds: it merges with the neighbour in   *)
(* front, then with the one behind.                                        *)
FreeMem(h) ==
  /\ pc = "idle"
  /\ live' = live \ Dissolved(h)
  /\ dm_next' = [x \in live' |-> IF Merges(h) /\ x = MergeBase(h)
                                    THEN MergeEnd(h) ELSE dm_next[x]]
  /\ dm_prev' = [x \in live' |-> IF Merges(h) /\ x = MergeEnd(h)
                                    THEN MergeBase(h) ELSE dm_prev[x]]
  /\ dm_free' = [x \in live' |-> IF x = h THEN TRUE ELSE dm_free[x]]
  /\ dm_available' = dm_available + Regained(h)
  /\ dm_search_ptr' = SearchAfterFree(h)
  /\ held' = [x \in DOMAIN held \ {h} |-> held[x]]
  /\ UNCHANGED <<pc, call>>

(* The code between OS_ENTER_CRITICAL and OS_EXIT_CRITICAL of OS_GetMem. *)
GetMemStep == GetMemSearch \/ GetMemFull \/ GetMemSplit \/ GetMemWhole

Next ==
  \/ \E n \in Sizes : GetMemEnter(n)
  \/ GetMemStep
  \/ \E h \in DOMAIN held : FreeMem(h)

Spec == Init /\ [][Next]_vars

(* A critical section that was entered runs on: nothing can preempt it. *)
FairSpec == Spec /\ WF_vars(GetMemStep)

-----------------------------------------------------------------------------
(* Every variable keeps its type; the three link fields describe exactly   *)
(* the linked headers, and a held block is a linked header.                *)
TypeOK ==
  /\ live \subseteq 0 .. Trailer
  /\ dm_next \in [live -> live]
  /\ dm_prev \in [live -> live]
  /\ dm_free \in [live -> BOOLEAN]
  /\ dm_available \in Int
  /\ DOMAIN held \subseteq live
  /\ held \in [DOMAIN held -> Sizes]
  /\ pc \in {"idle", "search", "full"}
  /\ request \in Sizes \cup {0}
  /\ size \in Nat
  /\ memory_ptr \in Int

(* The search pointer of the pool always points at a header that is still  *)
(* linked, whatever was merged away since it was set (lines 248-251, 322   *)
(* and 339): OS_GetMem would otherwise walk through freed user data.       *)
SearchPtrLive ==
  /\ dm_search_ptr \in live
  /\ pc = "search" => memory_ptr \in live

(* The list tiles the pool: the next header of a block is the first header *)
(* behind it and leaves room for at least the minimum allocation, the two  *)
(* links are inverse to each other, and the trailer closes the circle and  *)
(* is never free.                                                          *)
Tiled ==
  /\ Start \in live
  /\ Trailer \in live
  /\ dm_next[Trailer] = Start
  /\ dm_prev[Start] = Trailer
  /\ ~dm_free[Trailer]
  /\ \A h \in live \ {Trailer} :
       /\ dm_next[h] >= h + Overhead + MinBytes
       /\ dm_prev[dm_next[h]] = h
       /\ \A x \in live : ~(h < x /\ x < dm_next[h])
  /\ \A h \in live \ {Start} :
       /\ dm_prev[h] # Trailer
       /\ dm_next[dm_prev[h]] = h

(* Two neighbouring blocks are never both free: OS_FreeMem merges on both  *)
(* sides and OS_GetMem splits only in front of a block in use.             *)
Coalesced ==
  \A h \in live : ~(dm_free[h] /\ dm_free[dm_next[h]])

(* dm_available is exactly the number of bytes in the free blocks, after   *)
(* any sequence of splits and merges (lines 236, 242, 301, 310 and 330).   *)
FreeBytes == UNION {h + Overhead .. dm_next[h] - 1 : h \in {x \in live : dm_free[x]}}
AvailableExact == dm_available = Cardinality(FreeBytes)

(* What OS_GetMem and OS_FreeMem keep up between them over any history:    *)
(* the search pointer is on a linked header, no two neighbours are both    *)
(* free, and dm_available counts the free bytes.                           *)
PoolSound == SearchPtrLive /\ Coalesced /\ AvailableExact

(* The blocks in use are exactly the ones the callers hold, and each is    *)
(* large enough for the size its caller asked for: no block is handed out  *)
(* twice, none shrinks under its owner, none is lost.                      *)
HeldExact ==
  /\ DOMAIN held = {h \in live \ {Trailer} : ~dm_free[h]}
  /\ \A h \in DOMAIN held : held[h] <= BlockSize(h)

(* OS_GetMem reports OS_ERR_MEM_FULL only when no free block anywhere in   *)
(* the pool is large enough, wherever the search began.                    *)
FullMeansFull ==
  pc = "full" => \A h \in live : FreeSize(h) < size

(* While OS_GetMem searches, the headers from the search pointer up to     *)
(* memory_ptr, in the order of the circle, are known not to fit.           *)
Passed(h) ==
  IF dm_search_ptr <= memory_ptr
    THEN dm_search_ptr <= h /\ h < memory_ptr
    ELSE dm_search_ptr <= h \/ h < memory_ptr

(* What the search loop of OS_GetMem knows: the adjusted size covers the   *)
(* request, and no block that it has passed would have served.             *)
SearchInv ==
  /\ pc # "idle" => /\ request \in Sizes
                    /\ size >= request
                    /\ size >= MinBytes
  /\ pc = "search" => \A h \in live : Passed(h) => FreeSize(h) < size

(* When the callers have returned everything, the pool is again the one    *)
(* free block it was created with: no sequence of calls fragments it.      *)
AllFreedRestored ==
  DOMAIN held = {} =>
    /\ live = {Start, Trailer}
    /\ dm_free[Start]

(* A caller sees the address behind the header of its block. *)
Blocks == [a \in {h + Overhead : h \in DOMAIN held} |-> held[a - Overhead]]
Promise == INSTANCE MemPool WITH Pool <- Overhead .. Trailer - 1, blocks <- Blocks

(* The pool implements the promise of MemPool: what it hands out is inside *)
(* the array and overlaps nothing that another caller still holds.         *)
ImplementsMemPool == Promise!Spec

(* Every call of OS_GetMem comes to an end: the circular search meets a    *)
(* fitting block or comes back to the search pointer.                      *)
SearchTerminates == (pc = "search") ~> (pc = "idle")
=============================================================================
