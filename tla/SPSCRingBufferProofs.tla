------------------------ MODULE SPSCRingBufferProofs ------------------------
(***************************************************************************)
(* Theorems about SPSCRingBuffer, for every ring size and every delay of    *)
(* the stores.  All rest on one fact of arithmetic: two store numbers less  *)
(* than RingSize apart with the same index are the same store.              *)
(***************************************************************************)
EXTENDS SPSCRingBuffer, SequenceTheorems, TLAPS

-----------------------------------------------------------------------------
(* Arithmetic of the indices.                                              *)

LEMMA Division ==
  ASSUME NEW n \in Nat
  PROVE  /\ n = RingSize * (n \div RingSize) + Index(n)
         /\ n \div RingSize \in Nat
         /\ Index(n) \in Slots
BY RingAssumption DEF Index, Slots

LEMMA UniqueRemainder ==
  ASSUME NEW q \in Int, NEW p \in Int, NEW r \in Slots, NEW s \in Slots,
         RingSize * q + r = RingSize * p + s
  PROVE  r = s
BY RingAssumption DEF Slots

\* The index is the remainder, however the number is split.
LEMMA IndexIs ==
  ASSUME NEW n \in Nat, NEW q \in Int, NEW r \in Slots, n = RingSize * q + r
  PROVE  Index(n) = r
BY Division, UniqueRemainder

\* next() gives the index of the next store.
LEMMA NextIndex ==
  ASSUME NEW n \in Nat
  PROVE  /\ next(Index(n)) = Index(n + 1)
         /\ Index(n + 1) = IF Index(n) = RingSize - 1 THEN 0 ELSE Index(n) + 1
<1> DEFINE q == n \div RingSize
<1>1. n = RingSize * q + Index(n) /\ q \in Nat /\ Index(n) \in Slots /\ n + 1 \in Nat
  BY Division
<1> HIDE DEF q
<1>2. RingSize \in Nat /\ RingSize > 1
  BY RingAssumption
<1>3. Index(n + 1) = IF Index(n) = RingSize - 1 THEN 0 ELSE Index(n) + 1
  <2>1. CASE Index(n) = RingSize - 1
    <3>1. n + 1 = RingSize * (q + 1) + 0 /\ 0 \in Slots
      BY <1>1, <1>2, <2>1 DEF Slots
    <3> QED
      BY <1>1, <2>1, <3>1, IndexIs
  <2>2. CASE Index(n) # RingSize - 1
    <3>1. n + 1 = RingSize * q + (Index(n) + 1) /\ Index(n) + 1 \in Slots
      BY <1>1, <1>2, <2>2 DEF Slots
    <3> QED
      BY <1>1, <2>2, <3>1, IndexIs
  <2> QED
    BY <2>1, <2>2
<1>4. next(Index(n)) = IF Index(n) = RingSize - 1 THEN 0 ELSE Index(n) + 1
  BY <1>1, <1>2 DEF next, Slots
<1> QED
  BY <1>3, <1>4

\* Stores less than a lap apart are told apart by their indices.
LEMMA SameIndex ==
  ASSUME NEW n \in Nat, NEW m \in Nat, n <= m, m < n + RingSize,
         Index(n) = Index(m)
  PROVE  n = m
<1> DEFINE q == n \div RingSize
           p == m \div RingSize
<1>1. n = RingSize * q + Index(n) /\ q \in Nat /\ Index(n) \in Slots
  BY Division
<1>2. m = RingSize * p + Index(m) /\ p \in Nat
  BY Division
<1> HIDE DEF q, p
<1>3. m - n \in Slots /\ 0 \in Slots
  BY RingAssumption DEF Slots
<1>4. RingSize * p + 0 = RingSize * q + (m - n)
  BY <1>1, <1>2, RingAssumption DEF Slots
<1>5. m - n = 0
  BY <1>1, <1>2, <1>3, <1>4, UniqueRemainder
<1> QED
  BY <1>5

\* size() is exact for the stores it looks at.
LEMMA SizeIs ==
  ASSUME NEW n \in Nat, NEW m \in Nat, n <= m, m < n + RingSize
  PROVE  SizeOf(Index(m), Index(n)) = m - n
<1> DEFINE q == n \div RingSize
           p == m \div RingSize
           h == Index(m)
           t == Index(n)
<1>1. n = RingSize * q + t /\ m = RingSize * p + h /\ q \in Int /\ p \in Int
  BY Division
<1>2. h \in 0..RingSize - 1 /\ t \in 0..RingSize - 1
  BY Division DEF Slots
<1>3. RingSize \in Nat /\ m - n \in Slots
  BY RingAssumption DEF Slots
<1> HIDE DEF q, p, h, t
<1>6. q \in Int /\ p \in Int /\ p - 1 \in Int
  BY <1>1
<1>4. CASE h >= t
  <2>1. PICK size \in Slots : size = h - t
    BY <1>2, <1>3, <1>4 DEF Slots
  <2>2. PICK distance \in Slots : distance = m - n
    BY <1>3
  <2>3. RingSize * p + size = RingSize * q + distance
    BY <1>1, <1>2, <1>3, <2>1, <2>2
  <2>4. size = distance
    BY <1>6, <2>3, UniqueRemainder
  <2> QED
    BY <1>4, <2>1, <2>2, <2>4 DEF SizeOf, h, t
<1>5. CASE ~(h >= t)
  <2>1. PICK size \in Slots : size = RingSize - t + h
    BY <1>2, <1>3, <1>5 DEF Slots
  <2>2. PICK distance \in Slots : distance = m - n
    BY <1>3
  <2>3. RingSize * (p - 1) + size = RingSize * q + distance
    BY <1>1, <1>2, <1>3, <2>1, <2>2
  <2>4. size = distance
    BY <1>6, <2>3, UniqueRemainder
  <2> QED
    BY <1>5, <2>1, <2>2, <2>4 DEF SizeOf, h, t
<1> QED
  BY <1>4, <1>5

\* A lap later the index is the same.
LEMMA Lap ==
  ASSUME NEW n \in Nat
  PROVE  Index(n + RingSize) = Index(n)
<1> DEFINE q == n \div RingSize
<1>1. n = RingSize * q + Index(n) /\ q \in Nat /\ Index(n) \in Slots
  BY Division
<1> HIDE DEF q
<1>2. n + RingSize = RingSize * (q + 1) + Index(n) /\ n + RingSize \in Nat
  BY <1>1, RingAssumption DEF Slots
<1> QED
  BY <1>1, <1>2, IndexIs

-----------------------------------------------------------------------------
(* The invariant.  What either side has acquired of the other's index is    *)
(* what its own can be trusted with; the last accesses to a slot are those  *)
(* of stores with the slot's index, not later than the current one.         *)

ViewsInOrder ==
  /\ tailAcquired <= tailVisible /\ tailVisible <= pops
  /\ pops <= headAcquired /\ headAcquired <= headVisible /\ headVisible <= pushes
  /\ consumer # "idle" => pops < headAcquired
  /\ pushes < tailAcquired + RingSize
  /\ producer # "idle" => pushes + 1 < tailAcquired + RingSize

LastAccesses ==
  /\ \A i \in Slots : filled[i] # 0 =>
       \E n \in 0..pushes : Index(n) = i /\ filled[i] = n + 1
  /\ \A i \in Slots : taken[i] # 0 =>
       \E n \in Nat : n < First /\ Index(n) = i /\ taken[i] = n + 1

Contents ==
  /\ \A n \in Nat : First <= n /\ n < pushes => buffer[Index(n)] \in Values
  /\ producer # "idle" => item \in Values
  /\ producer = "publish" => buffer[Index(pushes)] = item

RingInv == TypeOK /\ ViewsInOrder /\ LastAccesses /\ Contents

\* What a look at tail_ and head_ tells.
LEMMA RoomSeen == RingInv /\ ~SeesFull => pushes + 1 < tailVisible + RingSize
<1> SUFFICES ASSUME RingInv, pushes + 1 >= tailVisible + RingSize PROVE SeesFull
  BY RingAssumption DEF RingInv, TypeOK
<1>1. pushes \in Nat /\ tailVisible \in Nat
  BY DEF RingInv, TypeOK
<1>2. pushes + 1 = tailVisible + RingSize
  BY RingAssumption DEF RingInv, TypeOK, ViewsInOrder
<1>3. Index(pushes + 1) = Index(tailVisible)
  BY <1>1, <1>2, Lap
<1> QED
  BY <1>1, <1>3, NextIndex DEF SeesFull

LEMMA ElementSeen == RingInv /\ ~SeesEmpty => pops < headVisible
BY DEF RingInv, TypeOK, ViewsInOrder, SeesEmpty

\* The slot to fill holds no element, and the others are not the one to take.
LEMMA OtherSlots ==
  RingInv =>
    /\ \A n \in Nat : First <= n /\ n < pushes => Index(n) # Index(pushes)
    /\ \A n \in Nat : pops < n /\ n <= pushes => Index(n) # Index(pops)
<1> SUFFICES ASSUME RingInv
             PROVE  /\ \A n \in Nat : First <= n /\ n < pushes => Index(n) # Index(pushes)
                    /\ \A n \in Nat : pops < n /\ n <= pushes => Index(n) # Index(pops)
  OBVIOUS
<1>1. /\ pops \in Nat /\ pushes \in Nat /\ First \in Nat /\ pops <= First
      /\ pushes < pops + RingSize
  BY RingAssumption DEF RingInv, TypeOK, ViewsInOrder, First
<1>2. ASSUME NEW n \in Nat, First <= n, n < pushes PROVE Index(n) # Index(pushes)
  <2>1. n <= pushes /\ pushes < n + RingSize
    BY <1>1, <1>2, RingAssumption
  <2> QED
    BY <1>1, <1>2, <2>1, SameIndex
<1>3. ASSUME NEW n \in Nat, pops < n, n <= pushes PROVE Index(n) # Index(pops)
  <2>1. pops <= n /\ n < pops + RingSize
    BY <1>1, <1>3, RingAssumption
  <2> QED
    BY <1>1, <1>3, <2>1, SameIndex
<1> QED
  BY <1>2, <1>3

LEMMA IndicesInside ==
  ASSUME NEW n \in Nat
  PROVE  Index(n) \in Slots /\ next(Index(n)) \in Slots
<1>1. n + 1 \in Nat
  OBVIOUS
<1> QED
  BY <1>1, Division, NextIndex

LEMMA InitRing == Init => RingInv
<1> SUFFICES ASSUME Init PROVE RingInv
  OBVIOUS
<1> USE DEF Init
<1>1. TypeOK
  <2>1. {Index(pushes), Index(pops), next(Index(pushes)), next(Index(pops))} \subseteq Slots
    BY IndicesInside
  <2> QED
    BY <2>1 DEF TypeOK
<1>2. ViewsInOrder
  BY RingAssumption DEF ViewsInOrder
<1>3. LastAccesses /\ Contents
  BY DEF LastAccesses, Contents, First
<1> QED
  BY <1>1, <1>2, <1>3 DEF RingInv

\* The steps that only look, and those that make a store visible.
LEMMA LookStep ==
  RingInv /\ (PushFull \/ PopEmpty \/ ProducerLooks \/ ConsumerLooks
                \/ HeadVisible \/ TailVisible \/ UNCHANGED vars) => RingInv'
<1> SUFFICES ASSUME RingInv, PushFull \/ PopEmpty \/ ProducerLooks \/ ConsumerLooks
                               \/ HeadVisible \/ TailVisible \/ UNCHANGED vars
             PROVE  RingInv'
  OBVIOUS
<1> USE DEF RingInv, TypeOK, PushFull, PopEmpty, ProducerLooks, ConsumerLooks,
            HeadVisible, TailVisible, vars, indices, slots
<1>1. UNCHANGED <<pushes, pops, slots, producer, consumer, item, out>>
  OBVIOUS
<1>2. ViewsInOrder'
  BY RingAssumption DEF ViewsInOrder
<1>3. TypeOK'
  BY <1>1 DEF Index, next
<1>4. First' = First
  BY <1>1 DEF First
<1>5. LastAccesses'
  BY <1>1, <1>4 DEF LastAccesses, Index
<1>6. Contents'
  BY <1>1, <1>4 DEF Contents, Index
<1> QED
  BY <1>2, <1>3, <1>5, <1>6

LEMMA PushStep ==
  RingInv /\ (Push \/ \E v \in Values : BeginPush(v)) => RingInv'
<1> SUFFICES ASSUME RingInv, Push \/ \E v \in Values : BeginPush(v)
             PROVE  RingInv'
  OBVIOUS
<1>0. /\ pushes \in Nat /\ pops \in Nat /\ First \in Nat /\ pushes + 1 \in Nat
      /\ Index(pushes) \in Slots /\ First <= pushes
  BY IndicesInside DEF RingInv, TypeOK, ViewsInOrder, First
<1>1. ASSUME NEW v \in Values, BeginPush(v) PROVE RingInv'
  <2> USE <1>1 DEF BeginPush, RingInv, indices, slots
  <2>1. UNCHANGED <<pushes, pops, buffer, filled, taken, consumer, First>>
    BY DEF First
  <2>2. TypeOK'
    BY <2>1 DEF TypeOK, Index, next
  <2>3. ViewsInOrder'
    BY RoomSeen, RingAssumption DEF TypeOK, ViewsInOrder
  <2>4. LastAccesses'
    BY <2>1 DEF LastAccesses, Index
  <2>5. Contents'
    BY <2>1 DEF Contents, Index
  <2> QED
    BY <2>2, <2>3, <2>4, <2>5
<1>2. CASE Fill \/ FillThrows
  <2> USE <1>2 DEF Fill, FillThrows, RingInv, indices, slots
  <2>1. UNCHANGED <<pushes, pops, taken, consumer, First, item>>
    BY DEF First
  <2>2. TypeOK'
    BY <1>0, <2>1 DEF TypeOK, Contents, Index, next
  <2>3. ViewsInOrder'
    BY <2>1 DEF TypeOK, ViewsInOrder
  <2>4. LastAccesses'
    <3>1. ASSUME NEW i \in Slots, filled'[i] # 0
          PROVE  \E n \in 0..pushes : Index(n) = i /\ filled'[i] = n + 1
      <4>1. CASE i = Index(pushes)
        BY <1>0, <4>1 DEF TypeOK
      <4>2. CASE i # Index(pushes)
        BY <1>0, <3>1, <4>2 DEF TypeOK, LastAccesses
      <4> QED
        BY <4>1, <4>2
    <3> QED
      BY <2>1, <3>1 DEF LastAccesses, Index
  <2>5. Contents'
    <3>1. ASSUME NEW n \in Nat, First <= n, n < pushes
          PROVE  buffer'[Index(n)] \in Values
      BY <1>0, <3>1, OtherSlots, IndicesInside DEF TypeOK, Contents
    <3>2. producer' = "publish" => buffer'[Index(pushes)] = item
      BY <1>0 DEF TypeOK
    <3> QED
      BY <2>1, <3>1, <3>2 DEF Contents, Index
  <2> QED
    BY <2>2, <2>3, <2>4, <2>5
<1>3. CASE Publish
  <2> USE <1>3 DEF Publish, RingInv, slots
  <2>1. UNCHANGED <<pops, buffer, filled, taken, consumer, First, item>>
    BY DEF First
  <2>2. TypeOK'
    <3>1. {Index(pushes + 1), Index(pops), next(Index(pushes + 1)), next(Index(pops))}
            \subseteq Slots
      BY <1>0, IndicesInside
    <3> QED
      BY <1>0, <2>1, <3>1 DEF TypeOK, Index, next
  <2>3. ViewsInOrder'
    BY <2>1 DEF TypeOK, ViewsInOrder
  <2>4. LastAccesses'
    BY <1>0, <2>1 DEF LastAccesses, Index
  <2>5. Contents'
    <3>1. ASSUME NEW n \in Nat, First <= n, n < pushes + 1
          PROVE  buffer[Index(n)] \in Values
      <4>1. CASE n = pushes
        BY <4>1 DEF Contents
      <4>2. CASE n # pushes
        BY <1>0, <3>1, <4>2 DEF Contents
      <4> QED
        BY <4>1, <4>2
    <3> QED
      BY <2>1, <3>1 DEF Contents, Index
  <2> QED
    BY <2>2, <2>3, <2>4, <2>5
<1> QED
  BY <1>1, <1>2, <1>3 DEF Push

LEMMA PopStep == RingInv /\ Pop => RingInv'
<1> SUFFICES ASSUME RingInv, Pop PROVE RingInv'
  OBVIOUS
<1>0. /\ pushes \in Nat /\ pops \in Nat /\ First \in Nat /\ pops + 1 \in Nat
      /\ Index(pops) \in Slots
  BY IndicesInside DEF RingInv, TypeOK, First
<1>1. CASE BeginPop
  <2> USE <1>1 DEF BeginPop, RingInv, indices, slots
  <2>1. UNCHANGED <<pushes, pops, buffer, filled, taken, producer, item>> /\ First' = First
    BY DEF First
  <2>2. TypeOK'
    BY <2>1 DEF TypeOK, Index, next
  <2>3. ViewsInOrder'
    BY ElementSeen DEF TypeOK, ViewsInOrder
  <2>4. LastAccesses'
    BY <2>1 DEF LastAccesses, Index
  <2>5. Contents'
    BY <2>1 DEF Contents, Index
  <2> QED
    BY <2>2, <2>3, <2>4, <2>5
<1>2. CASE Take
  <2> USE <1>2 DEF Take, RingInv, indices
  <2>1. /\ UNCHANGED <<pushes, pops, filled, producer, item>>
        /\ First = pops /\ First' = pops + 1
    BY DEF First
  <2>2. TypeOK'
    BY <1>0, <2>1 DEF TypeOK, Index, next
  <2>3. ViewsInOrder'
    BY <2>1 DEF TypeOK, ViewsInOrder
  <2>4. LastAccesses'
    <3>1. ASSUME NEW i \in Slots, taken'[i] # 0
          PROVE  \E n \in Nat : n < pops + 1 /\ Index(n) = i /\ taken'[i] = n + 1
      <4>1. CASE i = Index(pops)
        BY <1>0, <4>1 DEF TypeOK
      <4>2. CASE i # Index(pops)
        BY <1>0, <2>1, <3>1, <4>2 DEF TypeOK, LastAccesses
      <4> QED
        BY <4>1, <4>2
    <3> QED
      BY <2>1, <3>1 DEF LastAccesses, Index
  <2>5. Contents'
    <3>1. ASSUME NEW n \in Nat, pops < n, n <= pushes
          PROVE  buffer'[Index(n)] = buffer[Index(n)]
      BY <1>0, <3>1, OtherSlots, IndicesInside DEF TypeOK
    <3>2. ASSUME NEW n \in Nat, pops + 1 <= n, n < pushes
          PROVE  buffer'[Index(n)] \in Values
      BY <1>0, <2>1, <3>1, <3>2 DEF Contents
    <3>3. producer = "publish" => buffer'[Index(pushes)] = item
      BY <1>0, <3>1 DEF TypeOK, Contents, ViewsInOrder
    <3> QED
      BY <2>1, <3>2, <3>3 DEF Contents, Index
  <2> QED
    BY <2>2, <2>3, <2>4, <2>5
<1>3. CASE Release
  <2> USE <1>3 DEF Release, RingInv, slots
  <2>1. UNCHANGED <<pushes, buffer, filled, taken, producer, item>> /\ First' = First
    BY DEF First
  <2>2. TypeOK'
    <3>1. {Index(pushes), Index(pops + 1), next(Index(pushes)), next(Index(pops + 1))}
            \subseteq Slots
      BY <1>0, IndicesInside
    <3> QED
      BY <1>0, <2>1, <3>1 DEF TypeOK, Index, next
  <2>3. ViewsInOrder'
    BY <2>1 DEF TypeOK, ViewsInOrder
  <2>4. LastAccesses'
    BY <2>1 DEF LastAccesses, Index
  <2>5. Contents'
    BY <2>1 DEF Contents, Index
  <2> QED
    BY <2>2, <2>3, <2>4, <2>5
<1> QED
  BY <1>1, <1>2, <1>3 DEF Pop

LEMMA RingStep == RingInv /\ [Next]_vars => RingInv'
BY LookStep, PushStep, PopStep DEF Next

(* The views never get out of order or a lap apart, and the slots hold what
   they should.                                                            *)
LEMMA RingCorrect == Spec => []RingInv
BY InitRing, RingStep, PTL DEF Spec

-----------------------------------------------------------------------------
(* Every variable of the ring keeps its type, and both indices stay inside
   buffer_, for every ring size (spsc_ring_buffer.hpp:67).                 *)
THEOREM TypeCorrect == Spec => []TypeOK
<1>1. RingInv => TypeOK
  BY DEF RingInv
<1> QED
  BY <1>1, RingCorrect, PTL

(* There is no data race on a slot, however late the stores of one side are
   seen by the other (spsc_ring_buffer.hpp:37, 63).                         *)
THEOREM NoRace == Spec => []RaceFree
<1>1. RingInv => RaceFree
  <2> SUFFICES ASSUME RingInv PROVE RaceFree
    OBVIOUS
  <2>0. /\ pushes \in Nat /\ pops \in Nat /\ tailAcquired \in Nat /\ headAcquired \in Nat
        /\ Index(pushes) \in Slots /\ Index(pops) \in Slots
        /\ RingSize \in Nat /\ pushes < pops + RingSize
        /\ taken \in [Slots -> Nat] /\ filled \in [Slots -> Nat]
    BY IndicesInside, RingAssumption DEF RingInv, TypeOK, ViewsInOrder
  <2>1. ASSUME producer = "fill", taken[Index(pushes)] # 0
        PROVE  taken[Index(pushes)] <= tailAcquired
    <3>1. PICK n \in Nat : /\ n < First /\ Index(n) = Index(pushes)
                           /\ taken[Index(pushes)] = n + 1
      BY <2>0, <2>1 DEF RingInv, LastAccesses
    <3>2. n < pushes
      BY <2>0, <3>1 DEF RingInv, TypeOK, ViewsInOrder, First
    <3>3. ~(pushes < n + RingSize)
      BY <2>0, <3>1, <3>2, SameIndex
    <3>4. pushes + 1 < tailAcquired + RingSize
      BY <2>1 DEF RingInv, ViewsInOrder
    <3> QED
      BY <2>0, <3>1, <3>3, <3>4
  <2>2. ASSUME consumer = "take", filled[Index(pops)] # 0
        PROVE  filled[Index(pops)] <= headAcquired
    <3>1. PICK n \in 0..pushes : Index(n) = Index(pops) /\ filled[Index(pops)] = n + 1
      BY <2>0, <2>2 DEF RingInv, LastAccesses
    <3>2. ~(pops < n)
      BY <2>0, <3>1, OtherSlots
    <3>3. pops < headAcquired
      BY <2>2 DEF RingInv, ViewsInOrder
    <3> QED
      BY <2>0, <3>1, <3>2, <3>3
  <2> QED
    BY <2>0, <2>1, <2>2 DEF RaceFree
<1> QED
  BY <1>1, RingCorrect, PTL

(* Neither side's size() errs to the dangerous side
   (spsc_ring_buffer.hpp:49-53).                                           *)
THEOREM SizeCorrect == Spec => []SizeIsSafe
<1>1. RingInv => SizeIsSafe
  <2> SUFFICES ASSUME RingInv PROVE SizeIsSafe
    OBVIOUS
  <2>1. /\ pushes \in Nat /\ pops \in Nat /\ tailVisible \in Nat /\ headVisible \in Nat
        /\ tailVisible <= pops /\ pops <= headVisible /\ headVisible <= pushes
        /\ pushes < tailVisible + RingSize /\ RingSize \in Nat
    BY RingAssumption DEF RingInv, TypeOK, ViewsInOrder
  <2>2. ProducerSize = pushes - tailVisible
    BY <2>1, SizeIs DEF ProducerSize
  <2>3. ConsumerSize = headVisible - pops
    BY <2>1, SizeIs DEF ConsumerSize
  <2> QED
    BY <2>1, <2>2, <2>3 DEF SizeIsSafe
<1> QED
  BY <1>1, RingCorrect, PTL

-----------------------------------------------------------------------------
(* The ring is a FIFO queue.                                               *)

ItemsShape ==
  /\ Items \in Seq(Values)
  /\ Len(Items) = pushes - First
  /\ \A k \in 1..pushes - First : Items[k] = buffer[Index(First + k - 1)]

LEMMA ItemsAre == RingInv => ItemsShape
<1> SUFFICES ASSUME RingInv PROVE ItemsShape
  OBVIOUS
<1>1. /\ pushes \in Nat /\ First \in Nat /\ First <= pushes
      /\ pushes - First \in Nat
  BY DEF RingInv, TypeOK, ViewsInOrder, First
<1>2. ASSUME NEW k \in 1..pushes - First
      PROVE  buffer[Index(First + k - 1)] \in Values
  <2>1. First + k - 1 \in Nat /\ First <= First + k - 1 /\ First + k - 1 < pushes
    BY <1>1
  <2> QED
    BY <2>1 DEF RingInv, Contents
<1>3. Items \in [1..pushes - First -> Values]
  BY <1>2 DEF Items
<1> QED
  BY <1>1, <1>3 DEF Items, ItemsShape

LEMMA ItemsStay == RingInv' => ItemsShape'
BY ItemsAre, PTL

LEMMA PublishPuts == RingInv /\ RingInv' /\ Publish => Fifo!Put(item)
<1> SUFFICES ASSUME RingInv, RingInv', Publish PROVE Fifo!Put(item)
  OBVIOUS
<1>1. /\ pushes \in Nat /\ First \in Nat /\ First <= pushes /\ RingSize \in Nat
      /\ pushes - First + 1 < RingSize
  BY RingAssumption DEF RingInv, TypeOK, ViewsInOrder, First, Publish
<1>2. /\ pushes' = pushes + 1 /\ First' = First /\ buffer' = buffer /\ out' = out
      /\ item \in Values /\ buffer[Index(pushes)] = item
  BY DEF Publish, slots, First, RingInv, Contents
<1>3. /\ Items \in Seq(Values) /\ Len(Items) = pushes - First
      /\ \A k \in 1..pushes - First : Items[k] = buffer[Index(First + k - 1)]
  BY ItemsAre DEF ItemsShape
<1>4. /\ Items' \in Seq(Values) /\ Len(Items') = pushes - First + 1
      /\ \A k \in 1..pushes - First + 1 : Items'[k] = buffer[Index(First + k - 1)]
  <2>1. /\ Items' \in Seq(Values) /\ Len(Items') = pushes' - First'
        /\ \A k \in 1..pushes' - First' : Items'[k] = buffer'[Index(First' + k - 1)]
    BY ItemsStay DEF ItemsShape, Index
  <2>2. pushes' - First' = pushes - First + 1
    BY <1>1, <1>2
  <2> QED
    BY <1>2, <2>1, <2>2
<1>5. Items' = Append(Items, item)
  <2>1. Append(Items, item) \in Seq(Values) /\ Len(Append(Items, item)) = Len(Items')
    BY <1>1, <1>2, <1>3, <1>4, AppendProperties
  <2>2. ASSUME NEW k \in 1..Len(Items') PROVE Items'[k] = Append(Items, item)[k]
    <3>1. CASE k = pushes - First + 1
      <4>1. First + k - 1 = pushes
        BY <1>1, <3>1
      <4> QED
        BY <1>1, <1>2, <1>3, <1>4, <3>1, <4>1
    <3>2. CASE k # pushes - First + 1
      BY <1>1, <1>2, <1>3, <1>4, <3>2
    <3> QED
      BY <3>1, <3>2
  <2> QED
    BY <1>4, <2>1, <2>2, SeqEqual
<1> QED
  BY <1>1, <1>2, <1>3, <1>5 DEF Fifo!Put

LEMMA TakeGets == RingInv /\ RingInv' /\ Take => Fifo!Get
<1> SUFFICES ASSUME RingInv, RingInv', Take PROVE Fifo!Get
  OBVIOUS
<1>1. /\ pushes \in Nat /\ pops \in Nat /\ First = pops /\ pops < pushes
      /\ Index(pops) \in Slots
  BY IndicesInside DEF RingInv, TypeOK, ViewsInOrder, First, Take
<1>2. /\ pushes' = pushes /\ First' = pops + 1 /\ out' = buffer[Index(pops)]
      /\ buffer' = [buffer EXCEPT ![Index(pops)] = Moved]
  BY DEF Take, indices, First
<1>3. /\ Items \in Seq(Values) /\ Len(Items) = pushes - pops
      /\ \A k \in 1..pushes - pops : Items[k] = buffer[Index(pops + k - 1)]
  BY <1>1, ItemsAre DEF ItemsShape
<1>4. /\ Items' \in Seq(Values) /\ Len(Items') = pushes - pops - 1
      /\ \A k \in 1..pushes - pops - 1 : Items'[k] = buffer'[Index(pops + k)]
  <2>1. /\ Items' \in Seq(Values) /\ Len(Items') = pushes' - First'
        /\ \A k \in 1..pushes' - First' : Items'[k] = buffer'[Index(First' + k - 1)]
    BY ItemsStay DEF ItemsShape, Index
  <2>2. \A k \in Int : (pops + 1) + k - 1 = pops + k
    BY <1>1
  <2> QED
    BY <1>1, <1>2, <2>1, <2>2
<1>5. Items # <<>> /\ out' = Head(Items)
  <2>1. 1 \in 1..pushes - pops /\ pops + 1 - 1 = pops
    BY <1>1
  <2> QED
    BY <1>1, <1>2, <1>3, <2>1
<1>6. Items' = Tail(Items)
  <2>1. Tail(Items) \in Seq(Values) /\ Len(Tail(Items)) = Len(Items')
    BY <1>1, <1>3, <1>4, <1>5
  <2>2. ASSUME NEW k \in 1..Len(Items') PROVE Items'[k] = Tail(Items)[k]
    <3>1. pops + k \in Nat /\ pops < pops + k /\ pops + k <= pushes
      BY <1>1, <1>4
    <3>2. buffer'[Index(pops + k)] = buffer[Index(pops + k)]
      BY <1>1, <1>2, <3>1, OtherSlots, IndicesInside DEF RingInv, TypeOK
    <3>3. Tail(Items)[k] = Items[k + 1] /\ pops + (k + 1) - 1 = pops + k
      BY <1>1, <1>3, <1>4, <1>5
    <3> QED
      BY <1>1, <1>3, <1>4, <3>2, <3>3
  <2> QED
    BY <1>4, <2>1, <2>2, SeqEqual
<1> QED
  BY <1>5, <1>6 DEF Fifo!Get

LEMMA FillHides == RingInv /\ RingInv' /\ (Fill \/ FillThrows) => UNCHANGED <<Items, out>>
<1> SUFFICES ASSUME RingInv, RingInv', Fill \/ FillThrows PROVE UNCHANGED <<Items, out>>
  OBVIOUS
<1>1. /\ UNCHANGED <<pushes, First, out>> /\ pushes \in Nat /\ First \in Nat
      /\ \A i \in Slots : i # Index(pushes) => buffer'[i] = buffer[i]
  <2>1. UNCHANGED <<pushes, pops, consumer, out>>
    BY DEF Fill, FillThrows, indices
  <2>2. pushes \in Nat /\ First \in Nat
    BY DEF First, RingInv, TypeOK
  <2>3. \A i \in Slots : i # Index(pushes) => buffer'[i] = buffer[i]
    BY DEF Fill, FillThrows, RingInv, TypeOK
  <2> QED
    BY <2>1, <2>2, <2>3 DEF First
<1>2. ASSUME NEW k \in 1..pushes - First
      PROVE  buffer'[Index(First + k - 1)] = buffer[Index(First + k - 1)]
  <2>1. First + k - 1 \in Nat /\ First <= First + k - 1 /\ First + k - 1 < pushes
    BY <1>1
  <2> QED
    BY <1>1, <2>1, OtherSlots, IndicesInside
<1>3. Items' = [k \in 1..pushes - First |-> buffer'[Index(First + k - 1)]]
  BY <1>1 DEF Items, Index
<1> QED
  BY <1>1, <1>2, <1>3 DEF Items

LEMMA OthersHide ==
  (~Fill /\ ~FillThrows /\ ~Publish /\ ~Take) /\ [Next]_vars => UNCHANGED <<Items, out>>
<1> SUFFICES ASSUME ~Fill, ~FillThrows, ~Publish, ~Take, [Next]_vars
             PROVE  UNCHANGED <<Items, out>>
  OBVIOUS
<1>1. UNCHANGED <<pushes, First, buffer, out>>
  BY DEF Next, Push, Pop, PushFull, BeginPush, PopEmpty, BeginPop, Release, ProducerLooks,
    ConsumerLooks, HeadVisible, TailVisible, vars, indices, slots, First
<1> QED
  BY <1>1 DEF Items, Index

(* Without a lock and for every ring size, producer and consumer have a FIFO
   queue of RingSize - 1 elements (spsc_ring_buffer.hpp:4-5).               *)
THEOREM ImplementsFifo == Spec => FifoSpec
<1>1. Init => Fifo!Init
  <2> SUFFICES ASSUME Init PROVE Fifo!Init
    OBVIOUS
  <2>1. RingInv /\ pushes = 0 /\ First = 0 /\ out = Moved
    BY InitRing DEF Init, First
  <2>2. Items \in Seq(Values) /\ Len(Items) = 0
    BY <2>1, ItemsAre DEF ItemsShape
  <2> QED
    BY <2>1, <2>2 DEF Fifo!Init
<1>2. RingInv /\ RingInv' /\ [Next]_vars => [Fifo!Next]_Fifo!vars
  <2> SUFFICES ASSUME RingInv, RingInv', [Next]_vars PROVE [Fifo!Next]_Fifo!vars
    OBVIOUS
  <2>1. CASE Publish
    <3>1. item \in Values
      BY <2>1 DEF Publish, RingInv, Contents
    <3> QED
      BY <2>1, <3>1, PublishPuts DEF Fifo!Next
  <2>2. CASE Take
    BY <2>2, TakeGets DEF Fifo!Next
  <2>3. CASE Fill \/ FillThrows
    BY <2>3, FillHides DEF Fifo!vars
  <2>4. CASE ~Fill /\ ~FillThrows /\ ~Publish /\ ~Take
    BY <2>4, OthersHide DEF Fifo!vars
  <2> QED
    BY <2>1, <2>2, <2>3, <2>4
<1> QED
  BY <1>1, <1>2, RingCorrect, PTL DEF Spec, Fifo!Spec, FifoSpec
=============================================================================
