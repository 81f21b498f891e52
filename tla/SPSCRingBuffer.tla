--------------------------- MODULE SPSCRingBuffer ---------------------------
(***************************************************************************)
(* c_log::SPSCRingBuffer (include/clogpp/spsc_ring_buffer.hpp) with one     *)
(* thread that pushes and one that pops, and no lock.                       *)
(*                                                                         *)
(* Each index is stored to by one thread only, and every store is the       *)
(* successor of the one before it, so the n-th value head_ had is n modulo  *)
(* capacity_, and the state of an index is the number of stores to it.  A   *)
(* load by the other thread returns the last store visible to it, which may *)
(* be older than the latest one.  An acquire load of the n-th store orders  *)
(* what the storing thread did before it; the accesses to a slot that are   *)
(* ordered in no such way are a data race, and RaceFree says there is none. *)
(***************************************************************************)
EXTENDS Integers, Sequences

CONSTANTS
  RingSize,   \* capacity_
  Values,     \* the elements
  Moved,      \* what is left in a slot that was moved from or half assigned
  MaxPushes   \* stores to head_ in a behaviour

ASSUME RingAssumption ==
  /\ RingSize \in Nat /\ RingSize > 1
  /\ MaxPushes \in Nat
  /\ Moved \notin Values

Slots == 0..RingSize - 1

VARIABLES
  pushes,        \* stores to head_, which is pushes modulo RingSize
  pops,          \* stores to tail_
  headVisible,   \* the stores to head_ the consumer's loads can see
  tailVisible,   \* the stores to tail_ the producer's loads can see
  headAcquired,  \* the stores to head_ the consumer's loads synchronised with
  tailAcquired,  \* the stores to tail_ the producer's loads synchronised with
  buffer,        \* buffer_
  filled,        \* for each slot, the push that last assigned to it (0: none)
  taken,         \* for each slot, the pop that last moved from it (0: none)
  producer,      \* where the producer is in push()
  consumer,      \* where the consumer is in pop()
  item,          \* push()'s argument
  out            \* what the last pop() moved out

indices == <<pushes, pops, headVisible, tailVisible>>
slots == <<buffer, filled, taken>>
vars == <<indices, headAcquired, tailAcquired, slots, producer, consumer, item, out>>

Init ==
  /\ pushes = 0 /\ pops = 0
  /\ headVisible = 0 /\ tailVisible = 0
  /\ headAcquired = 0 /\ tailAcquired = 0
  /\ buffer = [i \in Slots |-> Moved]
  /\ filled = [i \in Slots |-> 0]
  /\ taken = [i \in Slots |-> 0]
  /\ producer = "idle" /\ consumer = "idle"
  /\ item = Moved /\ out = Moved

-----------------------------------------------------------------------------
(* Mistakes the code could have had; no specification uses them.            *)

\* The number of elements is not corrected at the wrap.
SizeOfUnwrapped(h, t) == IF h >= t THEN h - t ELSE t - h

-----------------------------------------------------------------------------
(* Reading the indices.                                                    *)

\* The value of an index after n stores.
Index(n) == n % RingSize

next(i) == (i + 1) % RingSize

\* The number of elements, from head_ and tail_.
SizeOf(h, t) == IF h >= t THEN h - t ELSE RingSize - t + h

\* What size() returns to the producer and to the consumer.
ProducerSize == SizeOf(Index(pushes), Index(tailVisible))
ConsumerSize == SizeOf(Index(headVisible), Index(pops))

\* The mistake of a pop() that leaves the last element alone.
SeesOneAsEmpty ==
  Index(pops) = Index(headVisible) \/ next(Index(pops)) = Index(headVisible)

SeesFull == next(Index(pushes)) = Index(tailVisible)
SeesEmpty == Index(pops) = Index(headVisible)

-----------------------------------------------------------------------------
(* Mistakes in the order of the accesses and in error handling.            *)

\* The load of head_ in pop() is relaxed.
BeginPopRelaxed ==
  /\ consumer = "idle"
  /\ ~SeesEmpty
  /\ consumer' = "take"
  /\ UNCHANGED <<indices, headAcquired, tailAcquired, slots, producer, item, out>>

\* A slot whose assignment threw is published.
FillThrowsPublished ==
  /\ producer = "fill"
  /\ buffer' = [buffer EXCEPT ![Index(pushes)] = Moved]
  /\ filled' = [filled EXCEPT ![Index(pushes)] = pushes + 1]
  /\ producer' = "publish"
  /\ UNCHANGED <<indices, headAcquired, tailAcquired, taken, consumer, item, out>>

\* pop() does not move tail_ on from the last slot.
ReleaseButLast ==
  /\ consumer = "release"
  /\ pops' = IF next(Index(pops)) = 0 THEN pops ELSE pops + 1
  /\ consumer' = "idle"
  /\ UNCHANGED <<pushes, headVisible, tailVisible, headAcquired, tailAcquired,
                 slots, producer, item, out>>

-----------------------------------------------------------------------------
(* push().                                                                 *)

\* The acquire load of tail_ shows a full buffer: return false.
PushFull ==
  /\ producer = "idle"
  /\ SeesFull
  /\ tailAcquired' = tailVisible
  /\ UNCHANGED <<indices, headAcquired, slots, producer, consumer, item, out>>

\* It shows a free slot.
BeginPush(v) ==
  /\ producer = "idle"
  /\ pushes < MaxPushes
  /\ ~SeesFull
  /\ item' = v
  /\ tailAcquired' = tailVisible
  /\ producer' = "fill"
  /\ UNCHANGED <<indices, headAcquired, slots, consumer, out>>

Fill ==
  /\ producer = "fill"
  /\ buffer' = [buffer EXCEPT ![Index(pushes)] = item]
  /\ filled' = [filled EXCEPT ![Index(pushes)] = pushes + 1]
  /\ producer' = "publish"
  /\ UNCHANGED <<indices, headAcquired, tailAcquired, taken, consumer, item, out>>

\* The element's assignment throws out of push().
FillThrows ==
  /\ producer = "fill"
  /\ buffer' = [buffer EXCEPT ![Index(pushes)] = Moved]
  /\ filled' = [filled EXCEPT ![Index(pushes)] = pushes + 1]
  /\ producer' = "idle"
  /\ UNCHANGED <<indices, headAcquired, tailAcquired, taken, consumer, item, out>>

\* The release store of head_.
Publish ==
  /\ producer = "publish"
  /\ pushes' = pushes + 1
  /\ producer' = "idle"
  /\ UNCHANGED <<pops, headVisible, tailVisible, headAcquired, tailAcquired,
                 slots, consumer, item, out>>

-----------------------------------------------------------------------------
(* pop().                                                                  *)

\* The acquire load of head_ shows an empty buffer: return nullopt.
PopEmpty ==
  /\ consumer = "idle"
  /\ SeesEmpty
  /\ headAcquired' = headVisible
  /\ UNCHANGED <<indices, tailAcquired, slots, producer, consumer, item, out>>

BeginPop ==
  /\ consumer = "idle"
  /\ ~SeesEmpty
  /\ headAcquired' = headVisible
  /\ consumer' = "take"
  /\ UNCHANGED <<indices, tailAcquired, slots, producer, item, out>>

\* Move the element out.
Take ==
  /\ consumer = "take"
  /\ out' = buffer[Index(pops)]
  /\ buffer' = [buffer EXCEPT ![Index(pops)] = Moved]
  /\ taken' = [taken EXCEPT ![Index(pops)] = pops + 1]
  /\ consumer' = "release"
  /\ UNCHANGED <<indices, headAcquired, tailAcquired, filled, producer, item>>

\* The release store of tail_.
Release ==
  /\ consumer = "release"
  /\ pops' = pops + 1
  /\ consumer' = "idle"
  /\ UNCHANGED <<pushes, headVisible, tailVisible, headAcquired, tailAcquired,
                 slots, producer, item, out>>

-----------------------------------------------------------------------------
(* size(), empty() and full() acquire the other side's index too.           *)

ProducerLooks ==
  /\ producer = "idle"
  /\ tailAcquired' = tailVisible
  /\ UNCHANGED <<indices, headAcquired, slots, producer, consumer, item, out>>

ConsumerLooks ==
  /\ consumer = "idle"
  /\ headAcquired' = headVisible
  /\ UNCHANGED <<indices, tailAcquired, slots, producer, consumer, item, out>>

-----------------------------------------------------------------------------
(* A store becomes visible to the other thread, in order.                  *)

HeadVisible ==
  /\ headVisible < pushes
  /\ headVisible' = headVisible + 1
  /\ UNCHANGED <<pushes, pops, tailVisible, headAcquired, tailAcquired, slots,
                 producer, consumer, item, out>>

TailVisible ==
  /\ tailVisible < pops
  /\ tailVisible' = tailVisible + 1
  /\ UNCHANGED <<pushes, pops, headVisible, headAcquired, tailAcquired, slots,
                 producer, consumer, item, out>>

-----------------------------------------------------------------------------
Push == Fill \/ FillThrows \/ Publish
Pop == BeginPop \/ Take \/ Release

Next ==
  \/ PushFull \/ (\E v \in Values : BeginPush(v)) \/ Push
  \/ PopEmpty \/ Pop
  \/ ProducerLooks \/ ConsumerLooks
  \/ HeadVisible \/ TailVisible

Spec == Init /\ [][Next]_vars

\* A push that began ends, the consumer keeps popping, and a store does not
\* stay invisible for ever.  Nobody has to push.
Fairness ==
  /\ WF_vars(Push)
  /\ WF_vars(Pop)
  /\ WF_vars(HeadVisible)
  /\ WF_vars(TailVisible)

FairSpec == Spec /\ Fairness

-----------------------------------------------------------------------------
(* Every variable has its type, and the indices stay within the buffer.    *)
TypeOK ==
  /\ {Index(pushes), Index(pops), next(Index(pushes)), next(Index(pops))} \subseteq Slots
  /\ pushes \in Nat /\ pops \in Nat
  /\ headVisible \in Nat /\ tailVisible \in Nat
  /\ headAcquired \in Nat /\ tailAcquired \in Nat
  /\ buffer \in [Slots -> Values \cup {Moved}]
  /\ filled \in [Slots -> Nat]
  /\ taken \in [Slots -> Nat]
  /\ producer \in {"idle", "fill", "publish"}
  /\ consumer \in {"idle", "take", "release"}
  /\ item \in Values \cup {Moved}
  /\ out \in Values \cup {Moved}

(* No data race: when the producer assigns to a slot, the last move out of it
   happened before, and when the consumer moves out of a slot the last
   assignment to it did (spsc_ring_buffer.hpp:37, 63), although both go by
   indices that may be out of date.                                        *)
RaceFree ==
  /\ producer = "fill" => taken[Index(pushes)] <= tailAcquired
  /\ consumer = "take" => filled[Index(pops)] <= headAcquired

\* The elements in the buffer: published, and not moved out.
First == IF consumer = "release" THEN pops + 1 ELSE pops
Items == [k \in 1..pushes - First |-> buffer[Index(First + k - 1)]]

(* Each side's size() errs to the safe side however stale the other's index
   is: the producer never thinks there is more room than there is, nor the
   consumer more elements (spsc_ring_buffer.hpp:49-53).                     *)
SizeIsSafe ==
  /\ pushes - pops \in 0..RingSize - 1
  /\ ProducerSize >= pushes - pops
  /\ ConsumerSize <= pushes - pops

Fifo == INSTANCE BoundedFifo WITH
  items <- Items, Capacity <- RingSize - 1, NoValue <- Moved

(* Without a lock, producer and consumer have a FIFO queue of capacity_ - 1
   elements (spsc_ring_buffer.hpp:4-5, tests/ring_buffer.cpp:52-72).        *)
FifoSpec == Fifo!Spec

(* A consumer that keeps popping gets every element.                       *)
PublishedArrive == \A n \in 1..MaxPushes : (pushes >= n) ~> (pops >= n)

(* A producer that finds the buffer full will find room in it.             *)
RoomIsNoticed == SeesFull ~> ~SeesFull
=============================================================================
