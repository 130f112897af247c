----------------------------- MODULE DmemProofs -----------------------------
(***************************************************************************)
(* Proofs about the memory pool for every pool size, header size, minimum  *)
(* allocation and set of request sizes.  The invariants of Dmem are        *)
(* inductive together: IInv is their conjunction.                          *)
(***************************************************************************)
EXTENDS Dmem, FiniteSetTheorems, TLAPS

(* The constants of the pool are positive and leave room for one block.    *)
LEMMA ConstFacts ==
  /\ Overhead \in Nat /\ Overhead > 0
  /\ MinBytes \in Nat /\ MinBytes > 0
  /\ Trailer \in Nat
  /\ Trailer >= Overhead + MinBytes
BY PoolAssumption DEF Overhead, MinBytes, Trailer, PoolBytes, RoundUp, Word

(* The adjusted size of a request that does not wrap covers the request    *)
(* and the minimum allocation (lines 170-178).                             *)
LEMMA AdjustFacts ==
  ASSUME NEW n \in Sizes
  PROVE  /\ AdjustSize(n) \in Nat
         /\ AdjustSize(n) >= n
         /\ AdjustSize(n) >= MinBytes
<1>1. n \in Nat /\ n + 3 < UIntRange /\ UIntRange \in Nat
  BY SizesAssumption DEF Word
<1>2. Wrap(n + Word - 1) = n + 3
  BY <1>1 DEF Wrap, Word
<1>3. CASE n < MinBytes
  BY <1>1, <1>3, ConstFacts DEF AdjustSize
<1>4. CASE ~(n < MinBytes)
  <2>1. AdjustSize(n) = ((n + 3) \div 4) * 4
    BY <1>2, <1>4 DEF AdjustSize, Word
  <2> QED
    BY <2>1, <1>1, <1>4, ConstFacts
<1> QED
  BY <1>3, <1>4

ListInv == TypeOK /\ SearchPtrLive /\ Tiled

IInv == ListInv /\ Coalesced /\ HeldExact /\ FullMeansFull /\ SearchInv /\ AvailableExact

(* The freshly created pool satisfies the invariant.                       *)
LEMMA InitIInv == Init => IInv
<1> SUFFICES ASSUME Init PROVE IInv
  OBVIOUS
<1> USE ConstFacts DEF Init, Start
<1>1. TypeOK
  BY DEF TypeOK
<1>2. SearchPtrLive
  BY DEF SearchPtrLive
<1>0. Trailer # Start
  OBVIOUS
<1>7. dm_next[Start] = Trailer /\ dm_next[Trailer] = Start
  BY <1>0
<1>8. ~dm_free[Trailer]
  BY <1>0, Zenon
<1>3. Tiled
  <2>1. dm_prev[Start] = Trailer /\ dm_prev[Trailer] = Start
    BY <1>0
  <2>2. \A x \in live : ~(Start < x /\ x < Trailer)
    OBVIOUS
  <2>3. live \ {Trailer} = {Start} /\ live \ {Start} = {Trailer}
    OBVIOUS
  <2> QED
    BY <1>7, <1>8, <2>1, <2>2, <2>3 DEF Tiled
<1>4. Coalesced
  BY <1>7, <1>8 DEF Coalesced
<1>5. HeldExact
  BY DEF HeldExact
<1>6. FullMeansFull /\ SearchInv
  BY DEF FullMeansFull, SearchInv
<1>9. AvailableExact
  <2>1. FreeBytes = Overhead .. Trailer - 1
    <3>1. dm_free[Start]
      BY <1>0, Zenon
    <3>2. {x \in live : dm_free[x]} = {Start}
      BY <1>0, <1>8, <3>1
    <3>3. FreeBytes = UNION {h + Overhead .. dm_next[h] - 1 : h \in {Start}}
      BY <3>2 DEF FreeBytes
    <3>4. FreeBytes = Start + Overhead .. dm_next[Start] - 1
      BY <3>3
    <3> QED
      BY <1>7, <3>4
  <2>2. Cardinality(FreeBytes) = Trailer - Overhead
    BY <2>1, FS_Interval
  <2>3. dm_available = Trailer - Overhead
    BY PoolAssumption DEF Trailer, PoolBytes, Word
  <2> QED
    BY <2>2, <2>3 DEF AvailableExact
<1> QED
  BY <1>1, <1>2, <1>3, <1>4, <1>5, <1>6, <1>9 DEF IInv, ListInv

(* Entering OS_GetMem starts a search that has passed nothing yet.         *)
LEMMA EnterIInv ==
  ASSUME IInv, NEW n \in Sizes, GetMemEnter(n)
  PROVE  IInv'
<1> USE ConstFacts, AdjustFacts
<1> USE DEF GetMemEnter, list
<1>1. TypeOK'
  <2>1. memory_ptr' \in Int
    BY DEF IInv, ListInv, TypeOK, SearchPtrLive
  <2>2. n \in Nat
    BY SizesAssumption
  <2> QED
    BY <2>1, <2>2 DEF IInv, ListInv, TypeOK
<1>2. SearchPtrLive'
  BY DEF IInv, ListInv, SearchPtrLive
<1>3. Tiled'
  BY DEF IInv, ListInv, Tiled
<1>4. Coalesced'
  BY DEF IInv, Coalesced
<1>5. HeldExact'
  BY DEF IInv, HeldExact, BlockSize
<1>6. FullMeansFull'
  BY DEF FullMeansFull
<1>7. SearchInv'
  <2>1. dm_search_ptr \in Int /\ live \subseteq Int
    BY DEF IInv, ListInv, TypeOK, SearchPtrLive
  <2>2. \A h \in live' : ~Passed(h)'
    BY <2>1 DEF Passed
  <2> QED
    BY <2>2 DEF SearchInv
<1>8. AvailableExact'
  BY DEF IInv, AvailableExact, FreeBytes
<1> QED
  BY <1>1, <1>2, <1>3, <1>4, <1>5, <1>6, <1>7, <1>8 DEF IInv, ListInv

(* The links lead from header to header, and addresses are integers.       *)
LEMMA LinkFacts ==
  ASSUME ListInv
  PROVE  /\ live \subseteq Int
         /\ \A h \in live : /\ h \in Int /\ 0 <= h /\ h <= Trailer
                            /\ dm_next[h] \in live
                            /\ dm_prev[h] \in live
                            /\ dm_free[h] \in BOOLEAN
         /\ \A h \in live \ {Trailer} : dm_next[h] > h
         /\ dm_search_ptr \in live
BY ConstFacts DEF ListInv, TypeOK, SearchPtrLive, Tiled

(* The accounting of OS_GetMem and OS_FreeMem.  Each step moves one        *)
(* interval of bytes into or out of the free blocks, and dm_available by   *)
(* its length.                                                             *)
LEMMA AddInterval ==
  ASSUME NEW S \in SUBSET (0 .. Trailer), NEW T, NEW a \in Int, NEW b \in Int, a <= b + 1,
         \A x \in a .. b : x \notin S,
         \A x : x \in T <=> x \in S \/ x \in a .. b
  PROVE  /\ Cardinality(T) = Cardinality(S) + (b - a + 1)
         /\ Cardinality(S) \in Nat
<1>1. IsFiniteSet(S)
  <2>1. IsFiniteSet(0 .. Trailer)
    BY FS_Interval, ConstFacts
  <2> QED
    BY <2>1, FS_Subset
<1>2. IsFiniteSet(a .. b) /\ Cardinality(a .. b) = b - a + 1
  BY FS_Interval
<1>3. T = S \cup (a .. b) /\ S \cap (a .. b) = {}
  OBVIOUS
<1>4. Cardinality(S \cap (a .. b)) = 0
  BY <1>3, FS_EmptySet
<1>5. Cardinality(S) \in Nat
  BY <1>1, FS_CardinalityType
<1>6. Cardinality(S \cup (a .. b)) = Cardinality(S) + Cardinality(a .. b) - Cardinality(S \cap (a .. b))
  BY <1>1, <1>2, FS_Union
<1> QED
  BY <1>2, <1>3, <1>4, <1>5, <1>6

(* The bytes of the free blocks, and where two blocks can meet.            *)
LEMMA FreeByteFacts ==
  ASSUME ListInv
  PROVE  /\ FreeBytes \subseteq 0 .. Trailer
         /\ \A b : b \in FreeBytes <=>
              \E h \in live : dm_free[h] /\ b \in h + Overhead .. dm_next[h] - 1
         /\ \A h \in live : dm_free[h] => h # Trailer
         /\ \A h \in live \ {Trailer} : \A x \in live : h < x => dm_next[h] <= x
<1>1. \A b : b \in FreeBytes <=> \E h \in live : dm_free[h] /\ b \in h + Overhead .. dm_next[h] - 1
  BY DEF FreeBytes
<1>2. \A h \in live : dm_free[h] => h # Trailer
  BY DEF ListInv, Tiled
<1>3. \A h \in live \ {Trailer} : \A x \in live : h < x => dm_next[h] <= x
  BY LinkFacts DEF ListInv, Tiled
<1>4. \A h \in live : h + Overhead .. dm_next[h] - 1 \subseteq 0 .. Trailer
  BY LinkFacts, ConstFacts
<1> QED
  BY <1>1, <1>2, <1>3, <1>4

(* A turn of the loop passes exactly one more header; when the next one is *)
(* the search pointer, every header has been passed.                       *)
LEMMA SearchIInv ==
  ASSUME IInv, GetMemSearch
  PROVE  IInv'
<1> USE DEF GetMemSearch, list
<1>0. ListInv /\ memory_ptr \in live
  BY DEF IInv, ListInv, SearchPtrLive
<1>1. TypeOK'
  BY <1>0, LinkFacts, ConstFacts DEF ListInv, TypeOK
<1>2. SearchPtrLive'
  BY <1>0, LinkFacts DEF ListInv, SearchPtrLive
<1>3. Tiled'
  BY DEF IInv, ListInv, Tiled
<1>4. Coalesced'
  BY DEF IInv, Coalesced
<1>5. HeldExact'
  BY DEF IInv, HeldExact, BlockSize
<1>6. \A h \in live : Passed(h) \/ h = memory_ptr => FreeSize(h) < size
  BY DEF IInv, SearchInv
<1>7. \A h \in live : h \in Int
  BY <1>0, LinkFacts
<1>8. /\ dm_search_ptr \in live
      /\ dm_next[memory_ptr] \in live
      /\ \A h \in live : 0 <= h /\ h <= Trailer
      /\ memory_ptr # Trailer => /\ dm_next[memory_ptr] > memory_ptr
                                 /\ \A x \in live : ~(memory_ptr < x /\ x < dm_next[memory_ptr])
      /\ memory_ptr = Trailer => dm_next[memory_ptr] = 0
  BY <1>0, LinkFacts DEF ListInv, Tiled, Start
<1>9. FullMeansFull'
  <2> SUFFICES ASSUME dm_next[memory_ptr] = dm_search_ptr, NEW h \in live
               PROVE  Passed(h) \/ h = memory_ptr
    BY <1>6 DEF FullMeansFull, FreeSize, BlockSize, SearchOver
  <2> QED
    BY <1>0, <1>7, <1>8 DEF Passed
<1>10. SearchInv'
  <2>1. SUFFICES ASSUME dm_next[memory_ptr] # dm_search_ptr, NEW h \in live, Passed(h)'
               PROVE  Passed(h) \/ h = memory_ptr
    BY <1>6 DEF IInv, SearchInv, FreeSize, BlockSize, SearchOver
  <2> QED
    BY <1>0, <1>7, <1>8, <2>1 DEF Passed
<1>11. AvailableExact'
  BY DEF IInv, AvailableExact, FreeBytes
<1> QED
  BY <1>1, <1>2, <1>3, <1>4, <1>5, <1>9, <1>10, <1>11 DEF IInv, ListInv

(* Returning NULL changes nothing in the pool.                             *)
LEMMA FullIInv ==
  ASSUME IInv, GetMemFull
  PROVE  IInv'
<1> USE DEF GetMemFull, Return, list, Start
<1>1. TypeOK'
  BY DEF IInv, ListInv, TypeOK
<1>2. SearchPtrLive'
  BY DEF IInv, ListInv, SearchPtrLive
<1>3. Tiled'
  BY DEF IInv, ListInv, Tiled
<1>4. Coalesced'
  BY DEF IInv, Coalesced
<1>5. HeldExact'
  BY DEF IInv, HeldExact, BlockSize
<1>6. FullMeansFull' /\ SearchInv'
  BY DEF FullMeansFull, SearchInv
<1>7. AvailableExact'
  BY DEF IInv, AvailableExact, FreeBytes
<1> QED
  BY <1>1, <1>2, <1>3, <1>4, <1>5, <1>6, <1>7 DEF IInv, ListInv

(* The block that the search found is free, large enough and no trailer.   *)
LEMMA FoundFacts ==
  ASSUME IInv, Found
  PROVE  /\ memory_ptr \in live \ {Trailer}
         /\ memory_ptr \notin DOMAIN held
         /\ dm_free[memory_ptr]
         /\ FreeSize(memory_ptr) = BlockSize(memory_ptr)
         /\ BlockSize(memory_ptr) >= size
         /\ size \in Nat /\ size >= request /\ size >= MinBytes
         /\ request \in Sizes /\ request \in Nat
<1>1. memory_ptr \in live
  BY DEF IInv, ListInv, SearchPtrLive, Found
<1>2. size \in Nat /\ size >= request /\ size >= MinBytes
      /\ request \in Sizes /\ request \in Nat
  BY SizesAssumption DEF IInv, SearchInv, Found, ListInv, TypeOK
<1>3. dm_free[memory_ptr]
  BY <1>1, <1>2, ConstFacts DEF Found, FreeSize
<1>4. FreeSize(memory_ptr) = BlockSize(memory_ptr)
  BY <1>3 DEF FreeSize
<1>5. memory_ptr # Trailer /\ memory_ptr \notin DOMAIN held
  BY <1>1, <1>3 DEF IInv, ListInv, Tiled, HeldExact
<1> QED
  BY <1>1, <1>2, <1>3, <1>4, <1>5 DEF Found

(* Handing out a whole block only clears its free flag.                    *)
LEMMA WholeIInv ==
  ASSUME IInv, GetMemWhole
  PROVE  IInv'
<1> USE DEF GetMemWhole, Deliver, Return
<1>0. ListInv /\ Found
  BY DEF IInv
<1>1. TypeOK'
  <2>1. /\ dm_free' \in [live' -> BOOLEAN]
        /\ dm_available' \in Int
    BY <1>0, LinkFacts, FoundFacts, ConstFacts DEF ListInv, TypeOK, BlockSize
  <2>2. DOMAIN held' \subseteq live' /\ held' \in [DOMAIN held' -> Sizes]
    BY <1>0, FoundFacts DEF ListInv, TypeOK
  <2> QED
    BY <2>1, <2>2, <1>0 DEF ListInv, TypeOK, Start
<1>2. SearchPtrLive'
  BY <1>0, LinkFacts, FoundFacts DEF SearchPtrLive
<1>3. \A h \in live : dm_free'[h] = IF h = memory_ptr THEN FALSE ELSE dm_free[h]
  BY <1>0 DEF ListInv, TypeOK
<1>4. Tiled'
  BY <1>0, <1>3 DEF ListInv, Tiled
<1>5. Coalesced'
  BY <1>0, <1>3, LinkFacts DEF IInv, Coalesced
<1>6. HeldExact'
  <2>1. DOMAIN held' = {h \in live \ {Trailer} : ~dm_free'[h]}
    BY <1>0, <1>3, FoundFacts, LinkFacts DEF IInv, HeldExact
  <2>2. \A h \in DOMAIN held' : held'[h] <= BlockSize(h)'
    BY <1>0, FoundFacts, LinkFacts, ConstFacts DEF IInv, HeldExact, BlockSize
  <2> QED
    BY <2>1, <2>2 DEF HeldExact
<1>7. FullMeansFull' /\ SearchInv'
  BY DEF FullMeansFull, SearchInv
<1>8. AvailableExact'
  <2> DEFINE a == memory_ptr + Overhead
             b == dm_next[memory_ptr] - 1
  <2>1. /\ memory_ptr \in live \ {Trailer} /\ dm_free[memory_ptr]
        /\ FreeSize(memory_ptr) = dm_next[memory_ptr] - memory_ptr - Overhead
    BY <1>0, FoundFacts DEF BlockSize
  <2>2. live' = live /\ dm_next' = dm_next
        /\ \A h \in live : dm_free'[h] <=> dm_free[h] /\ h # memory_ptr
    BY <1>0, <1>3, <2>1, LinkFacts
  <2>3. a \in Int /\ b \in Int /\ a <= b + 1 /\ b - a + 1 = FreeSize(memory_ptr)
        /\ memory_ptr \in Int /\ dm_next[memory_ptr] \in Int
    <3>1. memory_ptr \in Int /\ dm_next[memory_ptr] \in Int
      BY <1>0, <2>1, LinkFacts
    <3>2. dm_next[memory_ptr] >= memory_ptr + Overhead + MinBytes
      BY <1>0, <2>1 DEF ListInv, Tiled
    <3> QED
      BY <2>1, <3>1, <3>2, ConstFacts
  <2>4. /\ \A x : x \in FreeBytes' <=>
              \E h \in live : dm_free'[h] /\ x \in h + Overhead .. dm_next[h] - 1
        /\ \A x : x \in FreeBytes <=>
              \E h \in live : dm_free[h] /\ x \in h + Overhead .. dm_next[h] - 1
    BY <2>2 DEF FreeBytes
  <2>5. ASSUME NEW x \in a .. b PROVE x \notin FreeBytes'
    <3> SUFFICES ASSUME NEW h \in live, dm_free'[h], x \in h + Overhead .. dm_next[h] - 1
                 PROVE  FALSE
      BY <2>4
    <3>1. h # memory_ptr /\ dm_free[h] /\ h # Trailer /\ h \in Int /\ dm_next[h] \in Int
      BY <1>0, <2>2, FreeByteFacts, LinkFacts
    <3>2. /\ h < memory_ptr => dm_next[h] <= memory_ptr
          /\ memory_ptr < h => dm_next[memory_ptr] <= h
      BY <1>0, <2>1, <3>1, FreeByteFacts
    <3> QED
      BY <2>3, <3>1, <3>2, ConstFacts
  <2>6. \A x : x \in FreeBytes <=> x \in FreeBytes' \/ x \in a .. b
    BY <2>1, <2>2, <2>4
  <2>7. FreeBytes' \subseteq 0 .. Trailer
    BY <1>0, <2>6, FreeByteFacts
  <2> HIDE DEF a, b
  <2>8. Cardinality(FreeBytes) = Cardinality(FreeBytes') + (b - a + 1) /\ Cardinality(FreeBytes') \in Nat
    BY <2>3, <2>5, <2>6, <2>7, AddInterval
  <2>9. dm_available' = dm_available - FreeSize(memory_ptr) /\ AvailableExact
    BY DEF IInv
  <2> QED
    BY <2>3, <2>8, <2>9 DEF AvailableExact
<1> QED
  BY <1>1, <1>2, <1>4, <1>5, <1>6, <1>7, <1>8 DEF IInv, ListInv

(* A split links one new header between the block and its neighbour.       *)
LEMMA SplitIInv ==
  ASSUME IInv, GetMemSplit
  PROVE  IInv'
<1> DEFINE new_ptr == memory_ptr + size + Overhead
           after == dm_next[memory_ptr]
<1>0. ListInv /\ Found
  BY DEF IInv, GetMemSplit
<1>1. /\ memory_ptr \in live \ {Trailer} /\ memory_ptr \in Int
      /\ after \in live /\ after \in Int /\ after <= Trailer
      /\ new_ptr \in Int
      /\ new_ptr >= memory_ptr + Overhead + MinBytes
      /\ after >= new_ptr + Overhead + MinBytes
      /\ memory_ptr >= 0
  BY <1>0, FoundFacts, LinkFacts, ConstFacts DEF GetMemSplit, MustSplit, BlockSize
<1>2. /\ memory_ptr < new_ptr /\ new_ptr < after
      /\ new_ptr \notin live
      /\ new_ptr # Start /\ new_ptr # Trailer
  BY <1>0, <1>1, ConstFacts DEF ListInv, Tiled, Start
<1>3. live' = live \cup {new_ptr}
  BY DEF GetMemSplit
<1>4. /\ dm_next' \in [live' -> live']
      /\ dm_next'[new_ptr] = after
      /\ dm_next'[memory_ptr] = new_ptr
      /\ \A h \in live \ {memory_ptr} : dm_next'[h] = dm_next[h]
  BY <1>0, <1>1, <1>2, <1>3, LinkFacts DEF GetMemSplit
<1>5. /\ dm_prev' \in [live' -> live']
      /\ dm_prev'[new_ptr] = memory_ptr
      /\ dm_prev'[after] = new_ptr
      /\ \A h \in live \ {after} : dm_prev'[h] = dm_prev[h]
  BY <1>0, <1>1, <1>2, <1>3, LinkFacts DEF GetMemSplit
<1>6. /\ dm_free' \in [live' -> BOOLEAN]
      /\ dm_free'[new_ptr] = TRUE
      /\ dm_free'[memory_ptr] = FALSE
      /\ \A h \in live \ {memory_ptr} : dm_free'[h] = dm_free[h]
  BY <1>0, <1>1, <1>2, <1>3, LinkFacts DEF GetMemSplit
<1>7. /\ DOMAIN held' = DOMAIN held \cup {memory_ptr}
      /\ held'[memory_ptr] = request
      /\ \A h \in DOMAIN held : held'[h] = held[h]
      /\ held' \in [DOMAIN held' -> Sizes]
  BY <1>0, FoundFacts DEF GetMemSplit, Deliver, ListInv, TypeOK
<1>8. /\ dm_search_ptr' = IF dm_search_ptr = memory_ptr THEN new_ptr ELSE dm_search_ptr
      /\ pc' = "idle" /\ request' = 0 /\ size' = 0 /\ memory_ptr' = 0
  BY <1>4 DEF GetMemSplit, Deliver, Return, Start
<1>9. TypeOK'
  <2>1. dm_available' \in Int
    BY <1>0, FoundFacts, ConstFacts DEF GetMemSplit, ListInv, TypeOK
  <2>2. live' \subseteq 0 .. Trailer
    BY <1>0, <1>1, <1>2, <1>3, ConstFacts DEF ListInv, TypeOK
  <2>3. DOMAIN held' \subseteq live'
    BY <1>0, <1>1, <1>3, <1>7 DEF ListInv, TypeOK
  <2> QED
    BY <2>1, <2>2, <2>3, <1>4, <1>5, <1>6, <1>7, <1>8 DEF TypeOK
<1>10. SearchPtrLive'
  BY <1>0, <1>3, <1>8, LinkFacts DEF SearchPtrLive
<1>11. Tiled'
  <2>1. /\ Start \in live' /\ Trailer \in live'
        /\ dm_next'[Trailer] = Start
        /\ ~dm_free'[Trailer]
    BY <1>0, <1>1, <1>3, <1>4, <1>6 DEF ListInv, Tiled
  <2>2. dm_prev'[Start] = Trailer
    BY <1>0, <1>1, <1>2, <1>5, ConstFacts DEF ListInv, Tiled, Start
  <2>3. ASSUME NEW h \in live' \ {Trailer}
        PROVE  /\ dm_next'[h] >= h + Overhead + MinBytes
               /\ dm_prev'[dm_next'[h]] = h
               /\ \A x \in live' : ~(h < x /\ x < dm_next'[h])
    <3>1. CASE h = new_ptr
      BY <3>1, <1>0, <1>1, <1>2, <1>3, <1>4, <1>5, LinkFacts DEF ListInv, Tiled
    <3>2. CASE h = memory_ptr
      BY <3>2, <1>0, <1>1, <1>2, <1>3, <1>4, <1>5, LinkFacts DEF ListInv, Tiled
    <3>3. CASE h \in live \ {memory_ptr, Trailer}
      <4>1. dm_next'[h] = dm_next[h] /\ dm_next[h] \in live
        BY <3>3, <1>0, <1>4, LinkFacts
      <4>2. dm_next[h] # after
        BY <3>3, <1>0, <1>1 DEF ListInv, Tiled
      <4>3. ~(h < new_ptr /\ new_ptr < dm_next[h])
        <5>1. /\ ~(h < memory_ptr /\ memory_ptr < dm_next[h])
              /\ ~(memory_ptr < h /\ h < after)
          BY <3>3, <1>0, <1>1 DEF ListInv, Tiled
        <5>2. h \in Int /\ dm_next[h] \in Int /\ h # memory_ptr
          BY <3>3, <4>1, <1>0, LinkFacts
        <5> HIDE DEF new_ptr, after
        <5> QED
          BY <5>1, <5>2, <1>1, <1>2
      <4>4. /\ dm_next[h] >= h + Overhead + MinBytes
            /\ dm_prev[dm_next[h]] = h
            /\ \A x \in live : ~(h < x /\ x < dm_next[h])
        BY <3>3, <1>0 DEF ListInv, Tiled
      <4>5. dm_prev'[dm_next[h]] = dm_prev[dm_next[h]]
        BY <4>1, <4>2, <1>5
      <4> QED
        BY <4>1, <4>3, <4>4, <4>5, <1>3
    <3> QED
      BY <3>1, <3>2, <3>3, <1>3
  <2>4. ASSUME NEW h \in live' \ {Start}
        PROVE  dm_prev'[h] # Trailer /\ dm_next'[dm_prev'[h]] = h
    <3>1. CASE h = new_ptr
      BY <3>1, <1>1, <1>4, <1>5
    <3>2. CASE h = after
      BY <3>2, <1>2, <1>4, <1>5
    <3>3. CASE h \in live \ {after, Start}
      <4>1. dm_prev[h] # Trailer /\ dm_next[dm_prev[h]] = h /\ dm_prev[h] \in live
        BY <3>3, <1>0, LinkFacts DEF ListInv, Tiled
      <4>2. dm_prev'[h] = dm_prev[h] /\ dm_prev[h] # memory_ptr
        BY <3>3, <4>1, <1>5
      <4> QED
        BY <4>1, <4>2, <1>4
    <3> QED
      BY <3>1, <3>2, <3>3, <1>3
  <2> QED
    BY <2>1, <2>2, <2>3, <2>4 DEF Tiled
<1>12. Coalesced'
  <2>1. dm_free[memory_ptr] /\ ~dm_free[after]
    BY <1>0, <1>1, FoundFacts DEF IInv, Coalesced
  <2>2. after # memory_ptr /\ ~dm_free'[after]
    BY <2>1, <1>1, <1>6
  <2> SUFFICES ASSUME NEW h \in live', dm_free'[h], dm_free'[dm_next'[h]]
               PROVE  FALSE
    BY DEF Coalesced
  <2>3. CASE h = new_ptr
    BY <2>2, <2>3, <1>4
  <2>4. CASE h = memory_ptr
    BY <2>4, <1>6
  <2>5. CASE h \in live \ {memory_ptr}
    BY <2>5, <1>0, <1>4, <1>6, LinkFacts DEF IInv, Coalesced
  <2> QED
    BY <2>3, <2>4, <2>5, <1>3
<1>13. HeldExact'
  <2>1. DOMAIN held' = {h \in live' \ {Trailer} : ~dm_free'[h]}
    BY <1>0, <1>1, <1>2, <1>3, <1>6, <1>7 DEF IInv, HeldExact
  <2>2. \A h \in DOMAIN held' : held'[h] <= dm_next'[h] - h - Overhead
    <3>1. request <= new_ptr - memory_ptr - Overhead
      BY <1>0, <1>1, FoundFacts, ConstFacts
    <3> QED
      BY <3>1, <1>0, <1>4, <1>7, FoundFacts DEF IInv, ListInv, TypeOK, HeldExact, BlockSize
  <2> QED
    BY <2>1, <2>2 DEF HeldExact, BlockSize
<1>14. FullMeansFull' /\ SearchInv'
  BY <1>8 DEF FullMeansFull, SearchInv
<1>15. AvailableExact'
  <2> DEFINE a == memory_ptr + Overhead
             b == new_ptr + Overhead - 1
  <2>1. /\ a \in Int /\ b \in Int /\ a <= b + 1 /\ b - a + 1 = size + Overhead
        /\ dm_free[memory_ptr] /\ size \in Nat
    BY <1>0, <1>1, FoundFacts, ConstFacts
  <2>2. /\ \A x : x \in FreeBytes' <=>
              \E h \in live' : dm_free'[h] /\ x \in h + Overhead .. dm_next'[h] - 1
        /\ \A x : x \in FreeBytes <=>
              \E h \in live : dm_free[h] /\ x \in h + Overhead .. dm_next[h] - 1
    BY DEF FreeBytes
  <2> DEFINE Other(x) == \E h \in live \ {memory_ptr} : dm_free[h] /\ x \in h + Overhead .. dm_next[h] - 1
  <2>3. \A x : x \in FreeBytes <=> Other(x) \/ x \in a .. after - 1
    BY <1>1, <2>1, <2>2
  <2>4. \A x : x \in FreeBytes' <=> Other(x) \/ x \in new_ptr + Overhead .. after - 1
    BY <1>1, <1>2, <1>3, <1>4, <1>6, <2>2
  <2>5. ASSUME NEW x \in a .. after - 1 PROVE ~Other(x)
    <3> SUFFICES ASSUME NEW h \in live \ {memory_ptr}, dm_free[h], x \in h + Overhead .. dm_next[h] - 1
                 PROVE  FALSE
      OBVIOUS
    <3>1. h # Trailer /\ h \in Int /\ dm_next[h] \in Int
      BY <1>0, FreeByteFacts, LinkFacts
    <3>2. (h < memory_ptr => dm_next[h] <= memory_ptr) /\ (memory_ptr < h => after <= h)
      BY <1>0, <1>1, <3>1, FreeByteFacts
    <3> QED
      BY <1>1, <3>1, <3>2, ConstFacts
  <2> HIDE DEF Other, new_ptr, after
  <2>6. \A x \in a .. b : x \notin FreeBytes'
    BY <1>1, <1>2, <2>1, <2>4, <2>5, ConstFacts
  <2>7. \A x : x \in FreeBytes <=> x \in FreeBytes' \/ x \in a .. b
    BY <1>1, <1>2, <2>1, <2>3, <2>4, ConstFacts
  <2>8. FreeBytes' \subseteq 0 .. Trailer
    BY <1>0, <2>7, FreeByteFacts
  <2> HIDE DEF a, b
  <2>9. Cardinality(FreeBytes) = Cardinality(FreeBytes') + (b - a + 1) /\ Cardinality(FreeBytes') \in Nat
    BY <2>1, <2>6, <2>7, <2>8, AddInterval
  <2>10. dm_available' = dm_available - size - Overhead /\ AvailableExact
    BY DEF GetMemSplit, IInv
  <2> QED
    BY <2>1, <2>9, <2>10, ConstFacts DEF AvailableExact
<1> QED
  BY <1>9, <1>10, <1>11, <1>12, <1>13, <1>14, <1>15 DEF IInv, ListInv

(* OS_FreeMem takes at most two headers out of the list: the block's own,  *)
(* when it merges with the free block in front, and that of a free block   *)
(* behind it.                                                              *)
LEMMA FreeIInv ==
  ASSUME IInv, NEW h \in DOMAIN held, FreeMem(h)
  PROVE  IInv'
<1> DEFINE p == dm_prev[h]
           n == dm_next[h]
           base == MergeBase(h)
           end == MergeEnd(h)
<1>0. ListInv
  BY DEF IInv
<1>1. h \in live \ {Trailer} /\ ~dm_free[h]
  BY DEF IInv, HeldExact
<1>2. /\ h \in Int /\ n \in live /\ n \in Int /\ p \in live /\ p \in Int
      /\ n >= h + Overhead + MinBytes /\ dm_prev[n] = h
      /\ n # Start /\ 0 <= h
  BY <1>0, <1>1, LinkFacts, ConstFacts DEF ListInv, Tiled, Start
<1>3. MergesPrev(h) => /\ h # Start /\ p # Trailer
                       /\ dm_next[p] = h
                       /\ h >= p + Overhead + MinBytes
  BY <1>0, <1>1, <1>2 DEF MergesPrev, ListInv, Tiled
<1>4. MergesNext(h) => /\ n # Trailer
                       /\ dm_next[n] \in live /\ dm_next[n] \in Int
                       /\ dm_next[n] >= n + Overhead + MinBytes
                       /\ dm_prev[dm_next[n]] = n
                       /\ dm_next[n] # Start
  <2> SUFFICES ASSUME dm_free[n]
               PROVE  /\ n # Trailer
                      /\ dm_next[n] \in live /\ dm_next[n] \in Int
                      /\ dm_next[n] >= n + Overhead + MinBytes
                      /\ dm_prev[dm_next[n]] = n
                      /\ dm_next[n] # Start
    BY DEF MergesNext
  <2>1. n # Trailer
    BY <1>0 DEF ListInv, Tiled
  <2>2. dm_next[n] \in live /\ dm_next[n] \in Int
    BY <1>0, <1>2, LinkFacts
  <2>3. dm_next[n] >= n + Overhead + MinBytes /\ dm_prev[dm_next[n]] = n
    BY <1>0, <1>2, <2>1 DEF ListInv, Tiled
  <2> QED
    BY <1>2, <2>1, <2>2, <2>3, ConstFacts DEF Start
<1>5. /\ base \in live /\ base \in Int /\ end \in live /\ end \in Int
      /\ base <= h /\ h < n /\ n <= end
      /\ base # Trailer /\ end # Start
      /\ end >= base + Overhead + MinBytes
  BY <1>1, <1>2, <1>3, <1>4, ConstFacts DEF MergeBase, MergeEnd
<1>6. /\ MergesPrev(h) => base = p
      /\ ~MergesPrev(h) => base = h
      /\ MergesNext(h) => end = dm_next[n]
      /\ ~MergesNext(h) => end = n
  BY DEF MergeBase, MergeEnd
<1>7. live' = {x \in live : ~(MergesPrev(h) /\ x = h) /\ ~(MergesNext(h) /\ x = n)}
  BY DEF FreeMem, Dissolved
<1>8. base \in live' /\ end \in live' /\ Start \in live' /\ Trailer \in live'
  BY <1>0, <1>1, <1>2, <1>3, <1>4, <1>5, <1>6, <1>7, ConstFacts DEF ListInv, Tiled
(* Between the two ends of the merged block no header is left.             *)
<1>9. \A x \in live' : ~(base < x /\ x < end)
  <2>1. \A x \in live : ~(h < x /\ x < n)
    BY <1>0, <1>1 DEF ListInv, Tiled
  <2>2. MergesPrev(h) => \A x \in live : ~(p < x /\ x < h)
    BY <1>0, <1>2, <1>3 DEF ListInv, Tiled
  <2>3. MergesNext(h) => \A x \in live : ~(n < x /\ x < dm_next[n])
    BY <1>0, <1>2, <1>4 DEF ListInv, Tiled
  <2>4. \A x \in live : x \in Int
    BY <1>0, LinkFacts
  <2> HIDE DEF base, end, p, n
  <2> QED
    BY <2>1, <2>2, <2>3, <2>4, <1>2, <1>5, <1>6, <1>7
<1>10. /\ \A x \in live' \ {base} : dm_next[x] \in live' /\ dm_next[x] # end
       /\ \A x \in live' \ {end} : dm_prev[x] \in live' /\ dm_prev[x] # base
  <2>1. ASSUME NEW x \in live', x # base
        PROVE  dm_next[x] \in live' /\ dm_next[x] # end
    <3>1. x \in live /\ dm_next[x] \in live /\ h \in live
      BY <1>0, <1>1, <1>7, LinkFacts
    <3>2. CASE x = Trailer
      BY <3>1, <3>2, <1>0, <1>3, <1>4, <1>5, <1>2, <1>7 DEF ListInv, Tiled
    <3>3. CASE x # Trailer
      <4>1. dm_prev[dm_next[x]] = x
        BY <3>1, <3>3, <1>0 DEF ListInv, Tiled
      <4> QED
        BY <2>1, <3>1, <4>1, <1>2, <1>4, <1>6, <1>7
    <3> QED
      BY <3>2, <3>3
  <2>2. ASSUME NEW x \in live', x # end
        PROVE  dm_prev[x] \in live' /\ dm_prev[x] # base
    <3>1. x \in live /\ dm_prev[x] \in live /\ h \in live
      BY <1>0, <1>1, <1>7, LinkFacts
    <3>2. CASE x = Start
      BY <3>1, <3>2, <1>0, <1>1, <1>4, <1>5, <1>7 DEF ListInv, Tiled
    <3>3. CASE x # Start
      <4>1. dm_next[dm_prev[x]] = x
        BY <3>1, <3>3, <1>0 DEF ListInv, Tiled
      <4> QED
        BY <2>2, <3>1, <4>1, <1>2, <1>3, <1>6, <1>7
    <3> QED
      BY <3>2, <3>3
  <2> QED
    BY <2>1, <2>2
<1>11. /\ dm_next' \in [live' -> live']
       /\ dm_next'[base] = end
       /\ \A x \in live' \ {base} : dm_next'[x] = dm_next[x]
  <2>1. dm_next' = [x \in live' |-> IF Merges(h) /\ x = base THEN end ELSE dm_next[x]]
    BY DEF FreeMem
  <2>2. ~Merges(h) => base = h /\ end = n
    BY <1>6 DEF Merges
  <2> HIDE DEF base, end
  <2> QED
    BY <2>1, <2>2, <1>8, <1>10
<1>12. /\ dm_prev' \in [live' -> live']
       /\ dm_prev'[end] = base
       /\ \A x \in live' \ {end} : dm_prev'[x] = dm_prev[x]
  <2>1. dm_prev' = [x \in live' |-> IF Merges(h) /\ x = end THEN base ELSE dm_prev[x]]
    BY DEF FreeMem
  <2>2. ~Merges(h) => base = h /\ end = n
    BY <1>6 DEF Merges
  <2> HIDE DEF base, end
  <2> QED
    BY <2>1, <2>2, <1>2, <1>8, <1>10
<1>13. /\ dm_free' \in [live' -> BOOLEAN]
       /\ \A x \in live' : dm_free'[x] <=> x = h \/ dm_free[x]
  BY <1>0, <1>7, LinkFacts DEF FreeMem
<1>14. /\ held' \in [DOMAIN held' -> Sizes]
       /\ DOMAIN held' = DOMAIN held \ {h}
       /\ \A x \in DOMAIN held' : held'[x] = held[x]
  BY <1>0 DEF FreeMem, ListInv, TypeOK
<1>15. /\ pc = "idle" /\ pc' = "idle" /\ request' = request /\ size' = size
       /\ memory_ptr' = memory_ptr
  BY DEF FreeMem, call
<1>16. HeldExact'
  <2>1. \A x \in DOMAIN held' : x \in live' /\ x # Trailer /\ ~dm_free'[x] /\ x # base
    BY <1>1, <1>6, <1>7, <1>13, <1>14 DEF IInv, HeldExact, MergesPrev, MergesNext
  <2>2. \A x \in live' \ {Trailer} : ~dm_free'[x] => x \in DOMAIN held'
    BY <1>7, <1>13, <1>14 DEF IInv, HeldExact
  <2>3. \A x \in DOMAIN held' : held'[x] <= dm_next'[x] - x - Overhead
    BY <2>1, <1>11, <1>14 DEF IInv, HeldExact, BlockSize
  <2> QED
    BY <2>1, <2>2, <2>3 DEF HeldExact, BlockSize
<1>17. TypeOK'
  <2>1. dm_available' \in Int
    <3>1. Regained(h) \in Int
      BY <1>2, ConstFacts DEF Regained, BlockSize
    <3> QED
      BY <3>1, <1>0 DEF FreeMem, ListInv, TypeOK
  <2>2. live' \subseteq 0 .. Trailer
    BY <1>0, <1>7 DEF ListInv, TypeOK
  <2>3. DOMAIN held' \subseteq live'
    BY <1>16 DEF HeldExact
  <2> QED
    BY <2>1, <2>2, <2>3, <1>0, <1>11, <1>12, <1>13, <1>14, <1>15 DEF ListInv, TypeOK
<1>18. SearchPtrLive'
  <2>1. dm_search_ptr' = IF Merges(h) THEN base ELSE dm_search_ptr
    BY DEF FreeMem, SearchAfterFree
  <2>2. ~Merges(h) => live' = live
    BY <1>7 DEF Merges
  <2> QED
    BY <2>1, <2>2, <1>0, <1>8, <1>15, LinkFacts DEF SearchPtrLive
<1>19. Tiled'
  <2>1. dm_next'[Trailer] = Start /\ dm_prev'[Start] = Trailer
    BY <1>0, <1>5, <1>8, <1>11, <1>12 DEF ListInv, Tiled
  <2>2. ~dm_free'[Trailer]
    BY <1>0, <1>1, <1>8, <1>13 DEF ListInv, Tiled
  <2>3. ASSUME NEW x \in live' \ {Trailer}
        PROVE  /\ dm_next'[x] >= x + Overhead + MinBytes
               /\ dm_prev'[dm_next'[x]] = x
               /\ \A y \in live' : ~(x < y /\ y < dm_next'[x])
    <3>1. CASE x = base
      BY <3>1, <1>5, <1>9, <1>11, <1>12
    <3>2. CASE x # base
      <4>1. /\ dm_next[x] >= x + Overhead + MinBytes
            /\ dm_prev[dm_next[x]] = x
            /\ \A y \in live : ~(x < y /\ y < dm_next[x])
        BY <1>0, <1>7 DEF ListInv, Tiled
      <4>2. /\ dm_next'[x] = dm_next[x]
            /\ dm_prev'[dm_next[x]] = dm_prev[dm_next[x]]
        BY <3>2, <1>10, <1>11, <1>12
      <4> QED
        BY <4>1, <4>2, <1>7
    <3> QED
      BY <3>1, <3>2
  <2>4. ASSUME NEW x \in live' \ {Start}
        PROVE  dm_prev'[x] # Trailer /\ dm_next'[dm_prev'[x]] = x
    <3>1. CASE x = end
      BY <3>1, <1>5, <1>11, <1>12
    <3>2. CASE x # end
      <4>1. dm_prev[x] # Trailer /\ dm_next[dm_prev[x]] = x
        BY <1>0, <1>7 DEF ListInv, Tiled
      <4> QED
        BY <3>2, <4>1, <1>10, <1>11, <1>12
    <3> QED
      BY <3>1, <3>2
  <2> QED
    BY <2>1, <2>2, <2>3, <2>4, <1>8 DEF Tiled
<1>20. Coalesced'
  <2> SUFFICES ASSUME NEW x \in live', dm_free'[x], dm_free'[dm_next'[x]]
               PROVE  FALSE
    BY DEF Coalesced
  <2>1. \A y \in live : dm_free[y] => ~dm_free[dm_next[y]]
    BY DEF IInv, Coalesced
  <2>2. ~dm_free'[end]
    <3>1. end # h
      BY <1>2, <1>5
    <3>2. ~dm_free[end]
      <4>1. CASE dm_free[n]
        BY <4>1, <2>1, <1>2, <1>6 DEF MergesNext
      <4>2. CASE ~dm_free[n]
        BY <4>2, <1>6 DEF MergesNext
      <4> QED
        BY <4>1, <4>2
    <3> QED
      BY <3>1, <3>2, <1>8, <1>13
  <2>3. CASE x = base
    BY <2>2, <2>3, <1>11
  <2>4. CASE x # base
    <3>1. /\ dm_next'[x] = dm_next[x] /\ dm_next[x] \in live' /\ x \in live
          /\ x # h
      BY <2>4, <1>6, <1>7, <1>10, <1>11
    <3>2. dm_free[x] /\ dm_next[x] = h
      BY <3>1, <2>1, <1>13
    <3>3. dm_prev[h] = x
      BY <3>1, <3>2, <1>0 DEF ListInv, Tiled
    <3> QED
      BY <3>1, <3>2, <3>3, <1>7 DEF MergesPrev
  <2> QED
    BY <2>3, <2>4
<1>21. FullMeansFull' /\ SearchInv'
  BY <1>15 DEF FullMeansFull, SearchInv
<1>22. AvailableExact'
  <2> DEFINE a == IF MergesPrev(h) THEN h ELSE h + Overhead
             b == IF MergesNext(h) THEN n + Overhead - 1 ELSE n - 1
             Other(x) == \E y \in live \ {h, p, n} : dm_free[y] /\ x \in y + Overhead .. dm_next[y] - 1
  <2>1. /\ a \in Int /\ b \in Int /\ a <= b + 1 /\ b - a + 1 = Regained(h)
        /\ base + Overhead <= a /\ b <= end - 1
    BY <1>2, <1>3, <1>4, <1>5, <1>6, ConstFacts DEF Regained, BlockSize
  <2>2. /\ \A x : x \in FreeBytes' <=>
              \E y \in live' : dm_free'[y] /\ x \in y + Overhead .. dm_next'[y] - 1
        /\ \A x : x \in FreeBytes <=>
              \E y \in live : dm_free[y] /\ x \in y + Overhead .. dm_next[y] - 1
    BY DEF FreeBytes
  <2>3. \A x : x \in FreeBytes
                <=> \/ Other(x)
                    \/ MergesPrev(h) /\ x \in p + Overhead .. h - 1
                    \/ MergesNext(h) /\ x \in n + Overhead .. dm_next[n] - 1
    <3> DEFINE In(y, x) == dm_free[y] /\ x \in y + Overhead .. dm_next[y] - 1
    <3>1. \A x : ~In(h, x)
      BY <1>1
    <3>2. \A x : In(p, x) <=> MergesPrev(h) /\ x \in p + Overhead .. h - 1
      BY <1>3 DEF MergesPrev
    <3>3. \A x : In(n, x) <=> MergesNext(h) /\ x \in n + Overhead .. dm_next[n] - 1
      BY DEF MergesNext
    <3>4. \A x : Other(x) <=> \E y \in live \ {h, p, n} : In(y, x)
      OBVIOUS
    <3>5. \A x : x \in FreeBytes <=> \E y \in live : In(y, x)
      BY <2>2
    <3>6. h \in live /\ p \in live /\ n \in live
      BY <1>1, <1>2
    <3> HIDE DEF In, Other, p, n
    <3>7. ASSUME NEW x, NEW y \in live, In(y, x) PROVE Other(x) \/ In(p, x) \/ In(n, x)
      <4>1. CASE y \in {h, p, n}
        BY <3>1, <3>7, <4>1
      <4>2. CASE y \notin {h, p, n}
        BY <3>4, <3>7, <4>2
      <4> QED
        BY <4>1, <4>2
    <3>8. ASSUME NEW x, Other(x) PROVE \E y \in live : In(y, x)
      BY <3>4, <3>8
    <3>9. \A x : (\E y \in live : In(y, x)) <=> Other(x) \/ In(p, x) \/ In(n, x)
      BY <3>6, <3>7, <3>8
    <3> QED
      BY <3>2, <3>3, <3>5, <3>9
  <2>4. \A x : x \in FreeBytes' <=> Other(x) \/ x \in base + Overhead .. end - 1
    <3>1. \A y \in live \ {h, p, n} : y \in live' /\ y # base /\ dm_next'[y] = dm_next[y]
                                      /\ (dm_free'[y] <=> dm_free[y])
      BY <1>6, <1>7, <1>11, <1>13
    <3>2. \A y \in live' : dm_free'[y] /\ y # base => y \in live \ {h, p, n}
      BY <1>1, <1>6, <1>7, <1>13 DEF MergesPrev, MergesNext
    <3>3. dm_free'[base] /\ base \in live'
      BY <1>6, <1>8, <1>13 DEF MergesPrev
    <3> HIDE DEF base, end, p, n
    <3> QED
      BY <1>11, <2>2, <3>1, <3>2, <3>3
  <2>5. ASSUME NEW x \in base .. end - 1 PROVE ~Other(x)
    <3> SUFFICES ASSUME NEW y \in live \ {h, p, n}, dm_free[y], x \in y + Overhead .. dm_next[y] - 1
                 PROVE  FALSE
      OBVIOUS
    <3>1. y # Trailer /\ y \in Int /\ dm_next[y] \in Int
      BY <1>0, FreeByteFacts, LinkFacts
    <3>2. y \in live' /\ y # base
      BY <1>6, <1>7
    <3>3. (y < base => dm_next[y] <= base) /\ ~(base < y /\ y < end)
      BY <1>0, <1>5, <1>9, <3>1, <3>2, FreeByteFacts
    <3> HIDE DEF base, end
    <3> QED
      BY <1>5, <3>1, <3>2, <3>3, ConstFacts
  <2>6. \A x \in a .. b : x \notin FreeBytes
    <3>1. \A x \in a .. b : x \in base .. end - 1
      BY <1>5, <2>1, ConstFacts
    <3>2. \A x \in a .. b : ~Other(x)
      BY <2>5, <3>1
    <3> HIDE DEF Other, base, end, p, n
    <3> QED
      BY <1>2, <1>3, <1>4, <2>3, <3>2, ConstFacts
  <2>7. \A x : x \in FreeBytes' <=> x \in FreeBytes \/ x \in a .. b
    <3> HIDE DEF Other, base, end, p, n
    <3> TAKE x
    <3>1. x \in FreeBytes
            <=> \/ Other(x)
                \/ MergesPrev(h) /\ x \in p + Overhead .. h - 1
                \/ MergesNext(h) /\ x \in n + Overhead .. dm_next[n] - 1
      BY <2>3
    <3>2. x \in FreeBytes' <=> Other(x) \/ x \in base + Overhead .. end - 1
      BY <2>4
    <3>3. x \in base + Overhead .. end - 1
            <=> \/ MergesPrev(h) /\ x \in p + Overhead .. h - 1
                \/ MergesNext(h) /\ x \in n + Overhead .. dm_next[n] - 1
                \/ x \in a .. b
      <4>1. CASE MergesPrev(h) /\ MergesNext(h)
        <5>1. a = h /\ b = n + Overhead - 1 /\ base = p /\ end = dm_next[n]
          BY <1>6, <4>1
        <5> QED
          BY <1>2, <1>3, <1>4, <4>1, <5>1, ConstFacts
      <4>2. CASE MergesPrev(h) /\ ~MergesNext(h)
        <5>1. a = h /\ b = n - 1 /\ base = p /\ end = n
          BY <1>6, <4>2
        <5> QED
          BY <1>2, <1>3, <4>2, <5>1, ConstFacts
      <4>3. CASE ~MergesPrev(h) /\ MergesNext(h)
        <5>1. a = h + Overhead /\ b = n + Overhead - 1 /\ base = h /\ end = dm_next[n]
          BY <1>6, <4>3
        <5> QED
          BY <1>2, <1>4, <4>3, <5>1, ConstFacts
      <4>4. CASE ~MergesPrev(h) /\ ~MergesNext(h)
        <5>1. a = h + Overhead /\ b = n - 1 /\ base = h /\ end = n
          BY <1>6, <4>4
        <5> QED
          BY <1>2, <4>4, <5>1, ConstFacts
      <4> QED
        BY <4>1, <4>2, <4>3, <4>4
    <3> HIDE DEF a, b
    <3> QED
      BY <3>1, <3>2, <3>3
  <2>8. FreeBytes \subseteq 0 .. Trailer
    BY <1>0, FreeByteFacts
  <2> HIDE DEF a, b
  <2>9. Cardinality(FreeBytes') = Cardinality(FreeBytes) + (b - a + 1) /\ Cardinality(FreeBytes) \in Nat
    BY <2>1, <2>6, <2>7, <2>8, AddInterval
  <2>10. dm_available' = dm_available + Regained(h) /\ AvailableExact
    BY DEF FreeMem, IInv
  <2> QED
    BY <2>1, <2>9, <2>10 DEF AvailableExact
<1> QED
  BY <1>16, <1>17, <1>18, <1>19, <1>20, <1>21, <1>22 DEF IInv, ListInv

(* Every step of the pool preserves the inductive invariant.               *)
LEMMA StepIInv == IInv /\ [Next]_vars => IInv'
<1> SUFFICES ASSUME IInv, [Next]_vars PROVE IInv'
  OBVIOUS
<1>1. ASSUME NEW n \in Sizes, GetMemEnter(n) PROVE IInv'
  BY <1>1, EnterIInv
<1>2. CASE GetMemSearch
  BY <1>2, SearchIInv
<1>3. CASE GetMemFull
  BY <1>3, FullIInv
<1>4. CASE GetMemSplit
  BY <1>4, SplitIInv
<1>5. CASE GetMemWhole
  BY <1>5, WholeIInv
<1>6. ASSUME NEW h \in DOMAIN held, FreeMem(h) PROVE IInv'
  BY <1>6, FreeIInv
<1>7. CASE UNCHANGED vars
  BY <1>7 DEF vars, IInv, ListInv, TypeOK, SearchPtrLive, Tiled, Coalesced,
              HeldExact, FullMeansFull, SearchInv, Passed, FreeSize, BlockSize,
              AvailableExact, FreeBytes
<1> QED
  BY <1>1, <1>2, <1>3, <1>4, <1>5, <1>6, <1>7 DEF Next, GetMemStep

(* The inductive invariant holds in every reachable state.                 *)
THEOREM Invariance == Spec => []IInv
<1>1. Init => IInv
  BY InitIInv
<1>2. IInv /\ [Next]_vars => IInv'
  BY StepIInv
<1> QED
  BY <1>1, <1>2, PTL DEF Spec

(* The header list keeps its type whatever is allocated and freed.         *)
THEOREM TypeCorrect == Spec => []TypeOK
<1>1. IInv => TypeOK
  BY DEF IInv, ListInv
<1> QED
  BY <1>1, Invariance, PTL

(* The search pointer is on the list, no two neighbours are both free, and *)
(* dm_available is the number of free bytes, after any sequence of calls   *)
(* of OS_GetMem and OS_FreeMem.                                            *)
THEOREM PoolCorrect == Spec => []PoolSound
<1>1. IInv => PoolSound
  BY DEF IInv, ListInv, PoolSound
<1> QED
  BY <1>1, Invariance, PTL

(* The blocks tile the pool and both links agree, after any sequence of    *)
(* splits and merges; neither the pool's search pointer nor the loop's     *)
(* pointer is ever left on a header that was merged away.                  *)
THEOREM ListIntact == Spec => [](Tiled /\ SearchPtrLive)
<1>1. IInv => Tiled /\ SearchPtrLive
  BY DEF IInv, ListInv
<1> QED
  BY <1>1, Invariance, PTL

(* Callers hold exactly the blocks in use, each as large as they asked.    *)
THEOREM HeldCorrect == Spec => []HeldExact
<1>1. IInv => HeldExact
  BY DEF IInv
<1> QED
  BY <1>1, Invariance, PTL

(* OS_ERR_MEM_FULL is reported only when no free block fits.               *)
THEOREM FullCorrect == Spec => []FullMeansFull
<1>1. IInv => FullMeansFull
  BY DEF IInv
<1> QED
  BY <1>1, Invariance, PTL

(* A pool whose blocks were all returned is one free block again: the      *)
(* block at the start is free, so by Coalesced its successor is not, and   *)
(* the only header that is neither free nor held is the trailer.           *)
THEOREM FreedCorrect == Spec => []AllFreedRestored
<1>1. IInv => AllFreedRestored
  <2> SUFFICES ASSUME IInv, DOMAIN held = {}
               PROVE  live = {Start, Trailer} /\ dm_free[Start]
    BY DEF AllFreedRestored
  <2>1. ListInv
    BY DEF IInv
  <2>2. Start \in live \ {Trailer} /\ Trailer \in live
    BY <2>1, ConstFacts DEF ListInv, Tiled, Start
  <2>3. dm_free[Start]
    BY <2>2 DEF IInv, HeldExact
  <2>4. dm_next[Start] \in live /\ ~dm_free[dm_next[Start]]
    BY <2>1, <2>2, <2>3, LinkFacts DEF IInv, Coalesced
  <2>5. dm_next[Start] = Trailer
    BY <2>4 DEF IInv, HeldExact
  <2>6. \A x \in live : ~(Start < x /\ x < Trailer)
    BY <2>1, <2>2, <2>5 DEF ListInv, Tiled
  <2>7. \A x \in live : x \in Int /\ 0 <= x /\ x <= Trailer
    BY <2>1, LinkFacts
  <2>8. \A x \in live : x = Start \/ x = Trailer
    BY <2>6, <2>7, ConstFacts DEF Start
  <2>9. live = {Start, Trailer}
    BY <2>2, <2>8
  <2> QED
    BY <2>3, <2>9
<1> QED
  BY <1>1, Invariance, PTL
-----------------------------------------------------------------------------
(* The pool implements MemPool.  A caller's block begins behind its        *)
(* header.                                                                 *)
LEMMA BlocksFacts ==
  ASSUME \A h \in DOMAIN held : h \in Int
  PROVE  /\ DOMAIN Blocks = {h + Overhead : h \in DOMAIN held}
         /\ \A h \in DOMAIN held : Blocks[h + Overhead] = held[h]
<1> DEFINE D == {h + Overhead : h \in DOMAIN held}
<1>1. Blocks = [a \in D |-> held[a - Overhead]]
  BY DEF Blocks
<1>2. \A h \in DOMAIN held : h + Overhead \in D /\ (h + Overhead) - Overhead = h
  BY ConstFacts
<1> HIDE DEF D
<1>3. DOMAIN Blocks = D /\ \A a \in D : Blocks[a] = held[a - Overhead]
  BY <1>1
<1>4. \A h \in DOMAIN held : Blocks[h + Overhead] = held[h]
  BY <1>2, <1>3
<1> QED
  BY <1>3, <1>4 DEF D

(* Both ways of taking a block hand out memory_ptr for the size that was   *)
(* asked for.                                                              *)
LEMMA DeliverMalloc ==
  ASSUME IInv, Found,
         held' = [h \in DOMAIN held \cup {memory_ptr} |-> IF h = memory_ptr THEN request ELSE held[h]]
  PROVE  Promise!Next
<1> USE ConstFacts
<1> DEFINE m == memory_ptr
           a == m + Overhead
<1>0. ListInv /\ HeldExact /\ DOMAIN held \subseteq live
  BY DEF IInv, ListInv, TypeOK
<1>1. /\ m \in live \ {Trailer} /\ m \in Int /\ m \notin DOMAIN held /\ dm_next[m] \in Int
      /\ request \in Sizes /\ request \in Nat
      /\ 0 <= m /\ dm_next[m] <= Trailer
      /\ dm_next[m] >= m + Overhead + MinBytes
      /\ dm_next[m] - m - Overhead >= request
  <2>1. /\ m \in live \ {Trailer} /\ m \notin DOMAIN held
        /\ request \in Sizes /\ request \in Nat /\ BlockSize(m) >= size /\ size >= request /\ size \in Nat
    BY FoundFacts
  <2>2. m \in Int /\ dm_next[m] \in Int /\ 0 <= m /\ dm_next[m] <= Trailer
    BY <1>0, <2>1, LinkFacts
  <2>3. dm_next[m] >= m + Overhead + MinBytes
    BY <1>0, <2>1 DEF ListInv, Tiled
  <2> QED
    BY <2>1, <2>2, <2>3 DEF BlockSize
<1>2. ASSUME NEW h \in DOMAIN held
      PROVE  /\ h \in live \ {Trailer} /\ h \in Int /\ dm_next[h] \in Int /\ h # m
             /\ held[h] <= dm_next[h] - h - Overhead /\ held[h] \in Nat
             /\ h < m => dm_next[h] <= m
             /\ m < h => dm_next[m] <= h
  <2>1. h \in live \ {Trailer} /\ h # m /\ held[h] <= BlockSize(h)
    BY <1>0, <1>1 DEF HeldExact
  <2>2. held[h] \in Nat
    BY SizesAssumption DEF IInv, ListInv, TypeOK
  <2>3. h \in Int /\ dm_next[h] \in Int
    BY <1>0, <2>1, LinkFacts
  <2>4. (h < m => dm_next[h] <= m) /\ (m < h => dm_next[m] <= h)
    BY <1>0, <1>1, <2>1, FreeByteFacts
  <2> QED
    BY <2>1, <2>2, <2>3, <2>4 DEF BlockSize
<1> HIDE DEF m
<1>3. /\ DOMAIN Blocks = {h + Overhead : h \in DOMAIN held}
      /\ \A h \in DOMAIN held : Blocks[h + Overhead] = held[h]
  BY <1>2, BlocksFacts
<1>4. a \in Overhead .. Trailer - 1 /\ a \notin DOMAIN Blocks
  <2>1. a \in Overhead .. Trailer - 1
    BY <1>1
  <2>2. \A h \in DOMAIN held : h + Overhead # a
    BY <1>1, <1>2
  <2> QED
    BY <1>3, <2>1, <2>2
<1>5. Promise!Bytes(a, request) \subseteq Overhead .. Trailer - 1
  BY <1>1 DEF Promise!Bytes
<1>6. ASSUME NEW b \in DOMAIN Blocks
      PROVE  Promise!Bytes(a, request) \cap Promise!Bytes(b, Blocks[b]) = {}
  <2>1. PICK h \in DOMAIN held : b = h + Overhead
    BY <1>3
  <2>2. Blocks[b] = held[h]
    BY <1>3, <2>1
  <2> QED
    BY <1>1, <1>2, <2>1, <2>2 DEF Promise!Bytes
<1>7. Blocks' = [b \in DOMAIN Blocks \cup {a} |-> IF b = a THEN request ELSE Blocks[b]]
  <2>1. DOMAIN held' = DOMAIN held \cup {m}
    BY DEF m
  <2>2. {h + Overhead : h \in DOMAIN held'} = DOMAIN Blocks \cup {a}
    BY <1>3, <2>1
  <2>3. ASSUME NEW b \in DOMAIN Blocks \cup {a}
        PROVE  held'[b - Overhead] = IF b = a THEN request ELSE Blocks[b]
    <3>1. CASE b = a
      <4>1. b - Overhead = m
        BY <1>1, <3>1
      <4>2. held'[m] = request
        BY DEF m
      <4> QED
        BY <3>1, <4>1, <4>2
    <3>2. CASE b # a
      <4>1. PICK h \in DOMAIN held : b = h + Overhead
        BY <1>3, <3>2
      <4>2. b - Overhead = h /\ h # m
        BY <1>2, <4>1
      <4>3. held'[h] = held[h]
        BY <4>2 DEF m
      <4> QED
        BY <1>3, <3>2, <4>1, <4>2, <4>3
    <3> QED
      BY <3>1, <3>2
  <2>4. Blocks' = [b \in {h + Overhead : h \in DOMAIN held'} |-> held'[b - Overhead]]
    BY DEF Blocks
  <2> QED
    BY <2>2, <2>3, <2>4
<1> HIDE DEF a
<1>8. Promise!Malloc
  BY <1>1, <1>4, <1>5, <1>6, <1>7 DEF Promise!Malloc
<1> QED
  BY <1>8 DEF Promise!Next

LEMMA FreePromise ==
  ASSUME IInv, NEW h \in DOMAIN held, FreeMem(h) PROVE Promise!Next
<1> USE ConstFacts
<1> DEFINE a == h + Overhead
<1>1. \A x \in DOMAIN held : x \in Int
  BY LinkFacts DEF IInv, ListInv, TypeOK
<1>2. /\ DOMAIN Blocks = {x + Overhead : x \in DOMAIN held}
      /\ \A x \in DOMAIN held : Blocks[x + Overhead] = held[x]
  BY <1>1, BlocksFacts
<1>3. held' = [x \in DOMAIN held \ {h} |-> held[x]]
  BY DEF FreeMem
<1>4. {x + Overhead : x \in DOMAIN held'} = DOMAIN Blocks \ {a}
  <2>1. DOMAIN held' = DOMAIN held \ {h}
    BY <1>3
  <2>2. \A x \in DOMAIN held : x + Overhead = a => x = h
    BY <1>1
  <2> QED
    BY <1>2, <2>1, <2>2
<1>5. ASSUME NEW b \in DOMAIN Blocks \ {a} PROVE held'[b - Overhead] = Blocks[b]
  <2>1. PICK x \in DOMAIN held : b = x + Overhead
    BY <1>2
  <2>2. b - Overhead = x /\ x # h
    BY <1>1, <2>1
  <2> QED
    BY <1>2, <1>3, <2>1, <2>2
<1>6. Blocks' = [b \in {x + Overhead : x \in DOMAIN held'} |-> held'[b - Overhead]]
  BY DEF Blocks
<1>7. Blocks' = [b \in DOMAIN Blocks \ {a} |-> Blocks[b]]
  BY <1>4, <1>5, <1>6
<1>8. a \in DOMAIN Blocks
  BY <1>2
<1> HIDE DEF a
<1> QED
  BY <1>7, <1>8 DEF Promise!Next, Promise!Free

(* OSMMalloc and OSMFree keep the promise of MemPool: a block that is      *)
(* handed out lies in the pool, has the size that was asked for, and       *)
(* overlaps no block that a caller still holds; every other step of        *)
(* OS_GetMem is invisible to the callers.                                  *)
THEOREM MemPoolRefinement == Spec => ImplementsMemPool
<1>1. Init => Promise!Init
  BY DEF Init, Promise!Init, Blocks
<1>2. IInv /\ [Next]_vars => [Promise!Next]_Blocks
  <2> SUFFICES ASSUME IInv, [Next]_vars PROVE Promise!Next \/ UNCHANGED Blocks
    OBVIOUS
  <2>1. CASE UNCHANGED held
    BY <2>1 DEF Blocks
  <2>2. CASE GetMemSplit \/ GetMemWhole
    BY <2>2, DeliverMalloc DEF GetMemSplit, GetMemWhole, Deliver
  <2>3. ASSUME NEW h \in DOMAIN held, FreeMem(h) PROVE Promise!Next
    BY <2>3, FreePromise
  <2> QED
    BY <2>1, <2>2, <2>3 DEF Next, GetMemStep, GetMemEnter, GetMemSearch, GetMemFull, vars
<1> QED
  BY <1>1, <1>2, Invariance, PTL DEF Spec, ImplementsMemPool, Promise!Spec
=============================================================================
