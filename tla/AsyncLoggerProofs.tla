------------------------- MODULE AsyncLoggerProofs -------------------------
(***************************************************************************)
(* Proofs about AsyncLogger, for any number of clients, any events and     *)
(* options, and whether or not clients call late or sinks log; then about  *)
(* AsyncLoggerHistory: exactly-once delivery in order, the contract of     *)
(* flush(), shutdown without loss, and the refinement of LogDelivery.      *)
(***************************************************************************)
EXTENDS AsyncLoggerHistory, FiniteSetTheorems, SequenceTheorems, TLAPS

-----------------------------------------------------------------------------
(* The inductive invariant behind the types: pending stays a natural number *)
(* because it counts the queue and the batch, which in turn needs to know  *)
(* where the worker may be with what in its hands.                         *)

WorkerInv ==
  /\ pc[Worker] \in {"take", "wait_not_empty", "exited"} =>
       batch = <<>> /\ emitted = 0
  /\ pc[Worker] = "notify_not_full" => emitted = 0 /\ 0 < Len(batch)
  /\ pc[Worker] \in {"relock"} \cup InEmit \cup InSubmit => emitted < Len(batch)
  /\ pc[Worker] = "settle" => emitted = Len(batch)
  /\ Len(batch) <= BatchLimit

\* Each mode has its own path through submit(), and ~Logger only has one into it.
ModeInv ==
  /\ ~Async => pc[Worker] = "exited" /\ pc[Owner] \notin InSubmit
  /\ Async => \A t \in Clients : pc[t] \notin InEmit

CoreInv == TypeOK /\ WorkerInv /\ ModeInv /\ PendingExact

USE DEF Threads

\* The options a logger is constructed with give it room for one entry and a
\* batch of at least one.
LEMMA LimitsType ==
  ASSUME opts \in Options
  PROVE  /\ Slots \in Nat /\ Slots > 0
         /\ BatchLimit \in Nat /\ BatchLimit > 0
BY DEF Options, Slots, RingSize, BatchLimit

\* What the worker takes and what it leaves make up the queue.
LEMMA TakeSplits ==
  ASSUME opts \in Options, queue \in Seq(Entry), queue # <<>>
  PROVE  /\ TakeCount \in 1..Len(queue) /\ TakeCount <= BatchLimit
         /\ SubSeq(queue, 1, TakeCount) \in Seq(Entry)
         /\ Len(SubSeq(queue, 1, TakeCount)) = TakeCount
         /\ SubSeq(queue, TakeCount + 1, Len(queue)) \in Seq(Entry)
         /\ Len(SubSeq(queue, TakeCount + 1, Len(queue)))
              = Len(queue) - TakeCount
<1>1. TakeCount \in 1..Len(queue) /\ TakeCount <= BatchLimit
  BY LimitsType DEF TakeCount
<1> QED
  BY <1>1

LEMMA CoreInit == Init => CoreInv
<1> SUFFICES ASSUME Init PROVE CoreInv
  OBVIOUS
<1> USE DEF Init
<1>1. TypeOK
  <2> USE DEF ClientLabels, WorkerLabels, OwnerLabels, InSubmit, InEmit, InFlush
  <2>1. opts \in Options
    BY OptionsAssumption
  <2>2. /\ pc \in [Threads -> ClientLabels \cup WorkerLabels \cup OwnerLabels]
        /\ \A t \in Clients : pc[t] \in ClientLabels
        /\ pc[Worker] \in WorkerLabels
        /\ pc[Owner] \in OwnerLabels
    BY ThreadsAssumption
  <2>3. /\ entry \in [Threads -> Entry \cup {None}]
        /\ \A t \in Threads : /\ Holds(t) => entry[t] # None
                              /\ entry[t] # None => Holds(t) \/ pc[t] = "relock"
    BY ThreadsAssumption DEF Holds
  <2>4. dropped \in 0..CounterModulus - 1
    BY OptionsAssumption
  <2>5. queue \in Seq(Entry) /\ batch \in Seq(Entry)
    OBVIOUS
  <2>6. pending \in Nat /\ stop \in BOOLEAN /\ emitted \in Nat
    OBVIOUS
  <2>7. sink_mutex \in Threads \cup {None}
    OBVIOUS
  <2> QED
    BY <2>1, <2>2, <2>3, <2>4, <2>5, <2>6, <2>7, Zenon DEF TypeOK
<1>2. WorkerInv /\ ModeInv
  BY LimitsType, OptionsAssumption, ThreadsAssumption
  DEF WorkerInv, ModeInv, InEmit, InSubmit, Async
<1>3. PendingExact
  BY DEF PendingExact
<1> QED
  BY <1>1, <1>2, <1>3 DEF CoreInv

-----------------------------------------------------------------------------
(* The invariant survives every step.                                      *)

\* The steps of Next, thread by thread.
LEMMA StepsOfNext ==
  ASSUME Next
  PROVE  \/ \E t \in Clients :
              \/ BeginFlush(t) \/ FlushWait(t)
              \/ \E ev \in Events : Log(t, ev)
         \/ \E t \in Threads :
              \/ SubmitInline(t) \/ Push(t) \/ Discard(t) \/ AwaitRoom(t)
              \/ NotifyNotEmpty(t) \/ EmitLock(t) \/ EmitDone(t)
              \/ FlushLock(t) \/ FlushDone(t) \/ SinkBlocks(t) \/ SpuriousWakeup(t)
              \/ \E ev \in Events : SinkLog(t, ev)
         \/ AwaitEntries \/ Exit \/ TakeBatch \/ NotifyNotFull \/ Settle
         \/ Destroy \/ StopWorker \/ StopProducers \/ Join
BY DEF Next, Call, CallFromSink, ClientStep, FlusherStep, LoggerStep, Submit,
   WorkerStep, OwnerStep

LEMMA CoreStep == CoreInv /\ [Next]_vars => CoreInv'
<1> SUFFICES ASSUME CoreInv, [Next]_vars PROVE CoreInv'
  OBVIOUS
<1> USE ThreadsAssumption DEF CoreInv, ClientLabels, WorkerLabels, OwnerLabels,
        InSubmit, InEmit, InFlush
<1>1. ASSUME NEW t \in Clients, NEW ev \in Events, Log(t, ev) PROVE CoreInv'
  <2> USE <1>1 DEF Log, MayCall, BeginSubmit, Goto
  <2>0. [from |-> t, event |-> ev] \in Entry
    BY DEF Entry
  <2>1. TypeOK'
    BY <2>0 DEF TypeOK, Holds
  <2>2. WorkerInv'
    BY DEF TypeOK, WorkerInv, BatchLimit
  <2>3. ModeInv'
    BY DEF TypeOK, ModeInv, Async
  <2>4. PendingExact'
    BY DEF TypeOK, PendingExact
  <2> QED
    BY <2>1, <2>2, <2>3, <2>4
<1>2. ASSUME NEW t \in Threads, NEW ev \in Events, SinkLog(t, ev) PROVE CoreInv'
  <2> USE <1>2 DEF SinkLog, BeginSubmit, Goto
  <2>0. [from |-> t, event |-> ev] \in Entry
    BY DEF Entry
  <2>1. TypeOK'
    BY <2>0 DEF TypeOK, Holds
  <2>2. WorkerInv'
    BY DEF TypeOK, WorkerInv, BatchLimit
  <2>3. ModeInv'
    BY DEF TypeOK, ModeInv, Async
  <2>4. PendingExact'
    BY DEF TypeOK, PendingExact
  <2> QED
    BY <2>1, <2>2, <2>3, <2>4
<1>3. ASSUME NEW t \in Threads, SubmitInline(t) PROVE CoreInv'
  <2> USE <1>3 DEF SubmitInline, Goto, data
  <2>1. TypeOK'
    BY DEF TypeOK, Holds, ModeInv
  <2>2. WorkerInv'
    BY DEF TypeOK, WorkerInv, BatchLimit
  <2>3. ModeInv'
    BY DEF TypeOK, ModeInv, Async
  <2>4. PendingExact'
    BY DEF TypeOK, PendingExact
  <2> QED
    BY <2>1, <2>2, <2>3, <2>4
<1>4. ASSUME NEW t \in Threads, Push(t) PROVE CoreInv'
  <2> USE <1>4 DEF Push, Goto
  <2>1. TypeOK'
    BY DEF TypeOK, Holds
  <2>2. WorkerInv'
    BY DEF TypeOK, WorkerInv, BatchLimit
  <2>3. ModeInv'
    BY DEF TypeOK, ModeInv, Async
  <2>4. PendingExact'
    BY DEF TypeOK, PendingExact
  <2> QED
    BY <2>1, <2>2, <2>3, <2>4
<1>5. ASSUME NEW t \in Threads, Discard(t) PROVE CoreInv'
  <2> USE <1>5 DEF Discard, Goto, Resume
  <2>0. dropped' \in 0..CounterModulus - 1
    BY OptionsAssumption DEF TypeOK
  <2>1. TypeOK'
    BY <2>0 DEF TypeOK, Holds
  <2>2. WorkerInv'
    BY DEF TypeOK, WorkerInv, BatchLimit
  <2>3. ModeInv'
    BY DEF TypeOK, ModeInv, Async
  <2>4. PendingExact'
    BY DEF TypeOK, PendingExact
  <2> QED
    BY <2>1, <2>2, <2>3, <2>4
<1>6. ASSUME NEW t \in Threads, AwaitRoom(t) PROVE CoreInv'
  BY <1>6
  DEF AwaitRoom, Goto, data, TypeOK, Holds, WorkerInv,
      BatchLimit, ModeInv, Async, PendingExact
<1>7. ASSUME NEW t \in Threads, NotifyNotEmpty(t) PROVE CoreInv'
  <2> USE <1>7 DEF NotifyNotEmpty, GotoWaking, Resume, data
  <2>1. TypeOK'
    BY DEF TypeOK, Holds
  <2>2. WorkerInv'
    BY DEF TypeOK, WorkerInv, BatchLimit
  <2>3. ModeInv'
    BY DEF TypeOK, ModeInv, Async
  <2>4. PendingExact'
    BY DEF TypeOK, PendingExact
  <2> QED
    BY <2>1, <2>2, <2>3, <2>4
<1>8. ASSUME NEW t \in Threads, EmitLock(t) PROVE CoreInv'
  BY <1>8
  DEF EmitLock, Goto, TypeOK, Holds, WorkerInv,
      BatchLimit, ModeInv, Async, PendingExact
<1>9. ASSUME NEW t \in Threads, EmitDone(t) PROVE CoreInv'
  <2> USE <1>9 DEF EmitDone, Goto
  <2>0. /\ entry' \in [Threads -> Entry \cup {None}]
        /\ \A s \in Threads : /\ Holds(s)' => entry'[s] # None
                              /\ entry'[s] # None => Holds(s)' \/ pc'[s] = "relock"
    BY DEF TypeOK, Holds
  <2>1. TypeOK'
    BY <2>0 DEF TypeOK
  <2>2. WorkerInv'
    BY DEF TypeOK, WorkerInv, BatchLimit
  <2>3. ModeInv'
    BY DEF TypeOK, ModeInv, Async
  <2>4. PendingExact'
    BY DEF TypeOK, PendingExact
  <2> QED
    BY <2>1, <2>2, <2>3, <2>4
<1>10. CASE AwaitEntries
  BY <1>10
  DEF AwaitEntries, Goto, data, TypeOK, Holds, WorkerInv,
      BatchLimit, ModeInv, Async, PendingExact
<1>11. CASE Exit
  BY <1>11
  DEF Exit, Goto, data, TypeOK, Holds, WorkerInv,
      BatchLimit, ModeInv, Async, PendingExact
<1>12. CASE TakeBatch
  <2> USE <1>12 DEF TakeBatch, Goto
  <2>0. /\ batch' \in Seq(Entry) /\ queue' \in Seq(Entry)
        /\ Len(batch') > 0 /\ Len(batch') <= BatchLimit
        /\ Len(queue) = Len(batch') + Len(queue')
    BY TakeSplits, SMTT(20) DEF TypeOK
  <2>1. TypeOK'
    BY <2>0 DEF TypeOK, Holds
  <2>2. WorkerInv'
    BY <2>0 DEF TypeOK, WorkerInv, BatchLimit
  <2>3. ModeInv'
    BY DEF TypeOK, ModeInv, Async
  <2>4. PendingExact'
    BY <2>0 DEF TypeOK, WorkerInv, PendingExact
  <2> QED
    BY <2>1, <2>2, <2>3, <2>4
<1>13. CASE NotifyNotFull
  <2> USE <1>13 DEF NotifyNotFull, GotoWaking, data
  <2>1. TypeOK'
    BY DEF TypeOK, Holds
  <2>2. WorkerInv'
    BY DEF TypeOK, WorkerInv, BatchLimit
  <2>3. ModeInv'
    BY DEF TypeOK, ModeInv, Async
  <2>4. PendingExact'
    BY DEF TypeOK, PendingExact
  <2> QED
    BY <2>1, <2>2, <2>3, <2>4
<1>14. CASE Settle
  <2> USE <1>14 DEF Settle, Goto, GotoWaking
  <2>0. pending' = Len(queue) /\ batch' \in Seq(Entry) /\ Len(batch') = 0
    BY DEF TypeOK, PendingExact
  <2>1. TypeOK'
    BY <2>0 DEF TypeOK, Holds
  <2>2. WorkerInv'
    BY <2>0, LimitsType DEF TypeOK, WorkerInv, BatchLimit
  <2>3. ModeInv'
    BY DEF TypeOK, ModeInv, Async
  <2>4. PendingExact'
    BY <2>0 DEF TypeOK, PendingExact
  <2> QED
    BY <2>1, <2>2, <2>3, <2>4
<1>15. ASSUME NEW t \in Clients, BeginFlush(t) PROVE CoreInv'
  BY <1>15
  DEF BeginFlush, MayCall, Goto, data, TypeOK, Holds, WorkerInv,
      BatchLimit, ModeInv, Async, PendingExact
<1>16. ASSUME NEW t \in Clients, FlushWait(t) PROVE CoreInv'
  BY <1>16
  DEF FlushWait, Goto, data, TypeOK, Holds, WorkerInv,
      BatchLimit, ModeInv, Async, PendingExact
<1>17. ASSUME NEW t \in Threads, FlushLock(t) PROVE CoreInv'
  BY <1>17
  DEF FlushLock, Goto, TypeOK, Holds, WorkerInv,
      BatchLimit, ModeInv, Async, PendingExact
<1>18. CASE Destroy
  <2> USE <1>18 DEF Destroy, Goto
  <2>0. stop' \in BOOLEAN
    BY DEF Async
  <2>1. TypeOK'
    BY <2>0 DEF TypeOK, Holds
  <2>2. WorkerInv'
    BY DEF TypeOK, WorkerInv, BatchLimit
  <2>3. ModeInv'
    BY DEF TypeOK, ModeInv, Async
  <2>4. PendingExact'
    BY DEF TypeOK, PendingExact
  <2> QED
    BY <2>1, <2>2, <2>3, <2>4
<1>19. CASE StopWorker
  <2> USE <1>19 DEF StopWorker, GotoWaking, data
  <2>1. TypeOK'
    BY DEF TypeOK, Holds
  <2>2. WorkerInv'
    BY DEF TypeOK, WorkerInv, BatchLimit
  <2>3. ModeInv'
    BY DEF TypeOK, ModeInv, Async
  <2>4. PendingExact'
    BY DEF TypeOK, PendingExact
  <2> QED
    BY <2>1, <2>2, <2>3, <2>4
<1>20. CASE StopProducers
  <2> USE <1>20 DEF StopProducers, GotoWaking, data
  <2>1. TypeOK'
    BY DEF TypeOK, Holds
  <2>2. WorkerInv'
    BY DEF TypeOK, WorkerInv, BatchLimit
  <2>3. ModeInv'
    BY DEF TypeOK, ModeInv, Async
  <2>4. PendingExact'
    BY DEF TypeOK, PendingExact
  <2> QED
    BY <2>1, <2>2, <2>3, <2>4
<1>21. CASE Join
  BY <1>21
  DEF Join, Goto, data, TypeOK, Holds, WorkerInv,
      BatchLimit, ModeInv, Async, PendingExact
<1>22. ASSUME NEW t \in Threads, FlushDone(t) PROVE CoreInv'
  BY <1>22
  DEF FlushDone, Goto, TypeOK, Holds, WorkerInv,
      BatchLimit, ModeInv, Async, PendingExact
<1>23. ASSUME NEW t \in Threads, SinkBlocks(t) PROVE CoreInv'
  BY <1>23
  DEF SinkBlocks, Goto, data, TypeOK, Holds, WorkerInv,
      BatchLimit, ModeInv, Async, PendingExact
<1>24. ASSUME NEW t \in Threads, SpuriousWakeup(t) PROVE CoreInv'
  BY <1>24
  DEF SpuriousWakeup, LoopHead, Goto, data, TypeOK, Holds, WorkerInv,
      BatchLimit, ModeInv, Async, PendingExact
<1>25. CASE UNCHANGED vars
  BY <1>25 DEF vars, data, TypeOK, Holds, WorkerInv, BatchLimit, ModeInv, Async,
              PendingExact
<1> QED
  BY StepsOfNext, <1>1, <1>2, <1>3, <1>4, <1>5, <1>6, <1>7, <1>8, <1>9, <1>10, <1>11, <1>12, <1>13, <1>14, <1>15, <1>16, <1>17, <1>18, <1>19, <1>20, <1>21, <1>22, <1>23, <1>24, <1>25

(* The types are right and pending_ counts the entries not yet written, in
   every execution (AsyncLogger's TypeOK and PendingExact).                *)
THEOREM CoreCorrect == Spec => []CoreInv
BY CoreInit, CoreStep, PTL DEF Spec

(* Every variable of the logger keeps its type; in particular pending_ never
   goes below zero (logger.hpp:474).                                       *)
THEOREM TypeCorrect == Spec => []TypeOK
<1>1. CoreInv => TypeOK
  BY DEF CoreInv
<1> QED
  BY <1>1, CoreCorrect, PTL

(* pending_ is exactly what is queued and what the worker has in its hands,
   the number flush() waits for (logger.hpp:384).                          *)
THEOREM PendingCorrect == Spec => []PendingExact
<1>1. CoreInv => PendingExact
  BY DEF CoreInv
<1> QED
  BY <1>1, CoreCorrect, PTL

-----------------------------------------------------------------------------
(* The bound on the backlog.                                               *)

\* The constructor's settings stay, and only submit() and the worker touch
\* the queue.
LEMMA QueueChanges ==
  ASSUME [Next]_vars
  PROVE  /\ opts' = opts
         /\ \/ \E t \in Threads : Push(t)
            \/ TakeBatch
            \/ queue' = queue
BY StepsOfNext DEF Log, SinkLog, BeginSubmit, SubmitInline, Push, Discard,
   AwaitRoom, NotifyNotEmpty, EmitLock, EmitDone, AwaitEntries, Exit,
   TakeBatch, NotifyNotFull, Settle, BeginFlush, FlushWait, FlushLock,
   FlushDone, SinkBlocks, Destroy, StopWorker, StopProducers, Join, SpuriousWakeup,
   data, vars

QueueFits == Len(queue) <= Slots

LEMMA BacklogStep ==
  CoreInv /\ QueueFits /\ [Next]_vars => QueueFits'
<1> SUFFICES ASSUME CoreInv, QueueFits, [Next]_vars PROVE QueueFits'
  OBVIOUS
<1> USE DEF QueueFits
<1>1. Slots' = Slots /\ Slots \in Nat /\ Len(queue) \in Nat
  BY QueueChanges, LimitsType DEF Slots, RingSize, CoreInv, TypeOK
<1>2. CASE \E t \in Threads : Push(t)
  <2>1. PICK t \in Threads : Push(t)
    BY <1>2
  <2>2. entry[t] \in Entry /\ Len(queue') = Len(queue) + 1 /\ Len(queue) # Slots
    BY <2>1 DEF CoreInv, TypeOK, Holds, Push, Full
  <2> QED
    BY <1>1, <2>2
<1>3. CASE TakeBatch
  BY <1>1, <1>3, TakeSplits DEF TakeBatch, CoreInv, TypeOK
<1>4. CASE queue' = queue
  BY <1>1, <1>4
<1> QED
  BY <1>2, <1>3, <1>4, QueueChanges

(* The queue never holds more than its slots and the logger never more than
   that and one batch (tests/overflow_policy.cpp counts on it).            *)
THEOREM BacklogCorrect == Spec => []BacklogBounded
<1>1. Init => QueueFits
  BY LimitsType, OptionsAssumption DEF Init, QueueFits
<1>2. CoreInv /\ QueueFits => BacklogBounded
  BY LimitsType DEF QueueFits, CoreInv, TypeOK, WorkerInv, PendingExact, BacklogBounded
<1> QED
  BY <1>1, <1>2, BacklogStep, CoreCorrect, PTL DEF Spec

-----------------------------------------------------------------------------
(* Mutual exclusion in the sinks.                                          *)

LEMMA SinksStep == CoreInv /\ OneThreadInSinks /\ [Next]_vars => OneThreadInSinks'
<1> SUFFICES ASSUME CoreInv, OneThreadInSinks, [Next]_vars PROVE OneThreadInSinks'
  OBVIOUS
<1> USE ThreadsAssumption
    DEF CoreInv, TypeOK, WorkerInv, ModeInv, OneThreadInSinks, InSinks, Async,
        InSubmit, InEmit, InFlush, ClientLabels, WorkerLabels, OwnerLabels
<1>1. ASSUME NEW t \in Clients, NEW ev \in Events, Log(t, ev) PROVE OneThreadInSinks'
  BY <1>1 DEF Log, MayCall, BeginSubmit, Goto
<1>2. ASSUME NEW t \in Threads, NEW ev \in Events, SinkLog(t, ev) PROVE OneThreadInSinks'
  BY <1>2 DEF SinkLog, BeginSubmit, Goto
<1>3. ASSUME NEW t \in Threads, SubmitInline(t) PROVE OneThreadInSinks'
  BY <1>3 DEF SubmitInline, Goto, data
<1>4. ASSUME NEW t \in Threads, Push(t) PROVE OneThreadInSinks'
  BY <1>4 DEF Push, Goto
<1>5. ASSUME NEW t \in Threads, Discard(t) PROVE OneThreadInSinks'
  BY <1>5 DEF Discard, Goto, Resume
<1>6. ASSUME NEW t \in Threads, AwaitRoom(t) PROVE OneThreadInSinks'
  BY <1>6 DEF AwaitRoom, Goto, data
<1>7. ASSUME NEW t \in Threads, NotifyNotEmpty(t) PROVE OneThreadInSinks'
  BY <1>7 DEF NotifyNotEmpty, GotoWaking, Resume, data
<1>8. ASSUME NEW t \in Threads, EmitLock(t) PROVE OneThreadInSinks'
  BY <1>8 DEF EmitLock, Goto
<1>9. ASSUME NEW t \in Threads, EmitDone(t) PROVE OneThreadInSinks'
  BY <1>9 DEF EmitDone, Goto
<1>10. CASE AwaitEntries
  BY <1>10 DEF AwaitEntries, Goto, data
<1>11. CASE Exit
  BY <1>11 DEF Exit, Goto, data
<1>12. CASE TakeBatch
  BY <1>12 DEF TakeBatch, Goto
<1>13. CASE NotifyNotFull
  BY <1>13 DEF NotifyNotFull, GotoWaking, data
<1>14. CASE Settle
  BY <1>14 DEF Settle, Goto, GotoWaking
<1>15. ASSUME NEW t \in Clients, BeginFlush(t) PROVE OneThreadInSinks'
  BY <1>15 DEF BeginFlush, MayCall, Goto, data
<1>16. ASSUME NEW t \in Clients, FlushWait(t) PROVE OneThreadInSinks'
  BY <1>16 DEF FlushWait, Goto, data
<1>17. ASSUME NEW t \in Threads, FlushLock(t) PROVE OneThreadInSinks'
  BY <1>17 DEF FlushLock, Goto
<1>18. CASE Destroy
  BY <1>18 DEF Destroy, Goto
<1>19. CASE StopWorker
  BY <1>19 DEF StopWorker, GotoWaking, data
<1>20. CASE StopProducers
  BY <1>20 DEF StopProducers, GotoWaking, data
<1>21. CASE Join
  BY <1>21 DEF Join, Goto, data
<1>22. ASSUME NEW t \in Threads, FlushDone(t) PROVE OneThreadInSinks'
  BY <1>22 DEF FlushDone, Goto
<1>23. ASSUME NEW t \in Threads, SinkBlocks(t) PROVE OneThreadInSinks'
  BY <1>23 DEF SinkBlocks, Goto, data
<1>24. ASSUME NEW t \in Threads, SpuriousWakeup(t) PROVE OneThreadInSinks'
  BY <1>24 DEF SpuriousWakeup, LoopHead, Goto, data
<1>25. CASE UNCHANGED vars
  BY <1>25 DEF vars, data
<1> QED
    BY StepsOfNext, <1>1, <1>2, <1>3, <1>4, <1>5, <1>6, <1>7, <1>8, <1>9,
     <1>10, <1>11, <1>12, <1>13, <1>14, <1>15, <1>16, <1>17, <1>18, <1>19,
     <1>20, <1>21, <1>22, <1>23, <1>24, <1>25

(* sink_mutex_ keeps two threads from being in the sinks at once, whether
   they emit, flush, log again from there or are stuck there (logger.hpp:230,
   386, 485).                                                              *)
THEOREM SinksCorrect == Spec => []OneThreadInSinks
<1>1. Init => OneThreadInSinks
  BY ThreadsAssumption DEF Init, OneThreadInSinks, InSinks, InSubmit
<1> QED
  BY <1>1, SinksStep, CoreCorrect, PTL DEF Spec

-----------------------------------------------------------------------------
(* Waiting and waking.                                                     *)

\* ~Logger is what sets stop_.
StopInv == stop <=> Async /\ pc[Owner] # "idle"

WakeInv == StopInv /\ NoLostWakeup

LEMMA WakeStep == CoreInv /\ OneThreadInSinks /\ WakeInv /\ [Next]_vars => WakeInv'
<1> SUFFICES ASSUME CoreInv, OneThreadInSinks, WakeInv, [Next]_vars PROVE WakeInv'
  OBVIOUS
<1> USE ThreadsAssumption
    DEF CoreInv, TypeOK, ModeInv, PendingExact, OneThreadInSinks, InSinks, WakeInv,
        StopInv, NoLostWakeup, Async, Full, Slots, RingSize, InSubmit, InEmit, InFlush, ClientLabels, WorkerLabels, OwnerLabels
<1>1. ASSUME NEW t \in Clients, NEW ev \in Events, Log(t, ev) PROVE WakeInv'
  BY <1>1 DEF Log, MayCall, BeginSubmit, Goto
<1>2. ASSUME NEW t \in Threads, NEW ev \in Events, SinkLog(t, ev) PROVE WakeInv'
  BY <1>2 DEF SinkLog, BeginSubmit, Goto
<1>3. ASSUME NEW t \in Threads, SubmitInline(t) PROVE WakeInv'
  BY <1>3 DEF SubmitInline, Goto, data
<1>4. ASSUME NEW t \in Threads, Push(t) PROVE WakeInv'
  BY <1>4 DEF Push, Goto
<1>5. ASSUME NEW t \in Threads, Discard(t) PROVE WakeInv'
  BY <1>5 DEF Discard, Goto, Resume
<1>6. ASSUME NEW t \in Threads, AwaitRoom(t) PROVE WakeInv'
  BY <1>6 DEF AwaitRoom, Goto, data
<1>7. ASSUME NEW t \in Threads, NotifyNotEmpty(t) PROVE WakeInv'
  BY <1>7 DEF NotifyNotEmpty, GotoWaking, Resume, data
<1>8. ASSUME NEW t \in Threads, EmitLock(t) PROVE WakeInv'
  BY <1>8 DEF EmitLock, Goto
<1>9. ASSUME NEW t \in Threads, EmitDone(t) PROVE WakeInv'
  BY <1>9 DEF EmitDone, Goto
<1>10. CASE AwaitEntries
  BY <1>10 DEF AwaitEntries, Goto, data
<1>11. CASE Exit
  BY <1>11 DEF Exit, Goto, data
<1>12. CASE TakeBatch
  BY <1>12 DEF TakeBatch, Goto
<1>13. CASE NotifyNotFull
  BY <1>13 DEF NotifyNotFull, GotoWaking, data
<1>14. CASE Settle
  BY <1>14, SMTT(20) DEF Settle, Goto, GotoWaking
<1>15. ASSUME NEW t \in Clients, BeginFlush(t) PROVE WakeInv'
  BY <1>15 DEF BeginFlush, MayCall, Goto, data
<1>16. ASSUME NEW t \in Clients, FlushWait(t) PROVE WakeInv'
  BY <1>16 DEF FlushWait, Goto, data
<1>17. ASSUME NEW t \in Threads, FlushLock(t) PROVE WakeInv'
  BY <1>17 DEF FlushLock, Goto
<1>18. CASE Destroy
  BY <1>18 DEF Destroy, Goto
<1>19. CASE StopWorker
  BY <1>19 DEF StopWorker, GotoWaking, data
<1>20. CASE StopProducers
  BY <1>20 DEF StopProducers, GotoWaking, data
<1>21. CASE Join
  BY <1>21 DEF Join, Goto, data
<1>22. ASSUME NEW t \in Threads, FlushDone(t) PROVE WakeInv'
  BY <1>22 DEF FlushDone, Goto
<1>23. ASSUME NEW t \in Threads, SinkBlocks(t) PROVE WakeInv'
  BY <1>23 DEF SinkBlocks, Goto, data
<1>24. ASSUME NEW t \in Threads, SpuriousWakeup(t) PROVE WakeInv'
  BY <1>24 DEF SpuriousWakeup, LoopHead, Goto, data
<1>25. CASE UNCHANGED vars
  BY <1>25 DEF vars, data
<1> QED
    BY StepsOfNext, <1>1, <1>2, <1>3, <1>4, <1>5, <1>6, <1>7, <1>8, <1>9,
     <1>10, <1>11, <1>12, <1>13, <1>14, <1>15, <1>16, <1>17, <1>18, <1>19,
     <1>20, <1>21, <1>22, <1>23, <1>24, <1>25

(* Nobody sleeps on a condition variable through the event it waits for:
   the worker, blocked producers and flush() alike (logger.hpp:226-227, 384,
   449, 453, 462, 470, 475).                                               *)
THEOREM WakeupsCorrect == Spec => []NoLostWakeup
<1>1. Init => WakeInv
  BY ThreadsAssumption DEF Init, WakeInv, StopInv, NoLostWakeup
<1>2. WakeInv => NoLostWakeup
  BY DEF WakeInv
<1> QED
  BY <1>1, <1>2, WakeStep, CoreCorrect, SinksCorrect, PTL DEF Spec

-----------------------------------------------------------------------------
(* Who waits for whom.                                                     *)

\* ~Logger and a worker that has left have set and seen stop_; in sync mode
\* nobody waits on a condition variable.
StoppedInv ==
  /\ pc[Owner] \in {"notify_worker", "notify_producers", "join"} => stop
  /\ Async /\ pc[Worker] = "exited" => stop
  /\ ~Async => \A t \in Clients :
       pc[t] \notin {"notify_not_empty", "wait_not_full", "flush", "wait_drained"}

LEMMA StoppedStep == CoreInv /\ StoppedInv /\ [Next]_vars => StoppedInv'
<1> SUFFICES ASSUME CoreInv, StoppedInv, [Next]_vars PROVE StoppedInv'
  OBVIOUS
<1> USE ThreadsAssumption
    DEF CoreInv, ModeInv, TypeOK, StoppedInv, Async, InSubmit, InEmit, InFlush, ClientLabels,
        WorkerLabels, OwnerLabels
<1>1. ASSUME NEW t \in Clients, NEW ev \in Events, Log(t, ev) PROVE StoppedInv'
  BY <1>1 DEF Log, MayCall, BeginSubmit, Goto
<1>2. ASSUME NEW t \in Threads, NEW ev \in Events, SinkLog(t, ev) PROVE StoppedInv'
  BY <1>2 DEF SinkLog, BeginSubmit, Goto
<1>3. ASSUME NEW t \in Threads, SubmitInline(t) PROVE StoppedInv'
  BY <1>3 DEF SubmitInline, Goto, data
<1>4. ASSUME NEW t \in Threads, Push(t) PROVE StoppedInv'
  BY <1>4 DEF Push, Goto
<1>5. ASSUME NEW t \in Threads, Discard(t) PROVE StoppedInv'
  BY <1>5 DEF Discard, Goto, Resume
<1>6. ASSUME NEW t \in Threads, AwaitRoom(t) PROVE StoppedInv'
  BY <1>6 DEF AwaitRoom, Goto, data
<1>7. ASSUME NEW t \in Threads, NotifyNotEmpty(t) PROVE StoppedInv'
  BY <1>7 DEF NotifyNotEmpty, GotoWaking, Resume, data
<1>8. ASSUME NEW t \in Threads, EmitLock(t) PROVE StoppedInv'
  BY <1>8 DEF EmitLock, Goto
<1>9. ASSUME NEW t \in Threads, EmitDone(t) PROVE StoppedInv'
  BY <1>9 DEF EmitDone, Goto
<1>10. CASE AwaitEntries
  BY <1>10 DEF AwaitEntries, Goto, data
<1>11. CASE Exit
  BY <1>11 DEF Exit, Goto, data
<1>12. CASE TakeBatch
  BY <1>12 DEF TakeBatch, Goto
<1>13. CASE NotifyNotFull
  BY <1>13 DEF NotifyNotFull, GotoWaking, data
<1>14. CASE Settle
  BY <1>14 DEF Settle, Goto, GotoWaking
<1>15. ASSUME NEW t \in Clients, BeginFlush(t) PROVE StoppedInv'
  BY <1>15 DEF BeginFlush, MayCall, Goto, data
<1>16. ASSUME NEW t \in Clients, FlushWait(t) PROVE StoppedInv'
  BY <1>16 DEF FlushWait, Goto, data
<1>17. ASSUME NEW t \in Threads, FlushLock(t) PROVE StoppedInv'
  BY <1>17 DEF FlushLock, Goto
<1>18. CASE Destroy
  BY <1>18 DEF Destroy, Goto
<1>19. CASE StopWorker
  BY <1>19 DEF StopWorker, GotoWaking, data
<1>20. CASE StopProducers
  BY <1>20 DEF StopProducers, GotoWaking, data
<1>21. CASE Join
  BY <1>21 DEF Join, Goto, data
<1>22. ASSUME NEW t \in Threads, FlushDone(t) PROVE StoppedInv'
  BY <1>22 DEF FlushDone, Goto
<1>23. ASSUME NEW t \in Threads, SinkBlocks(t) PROVE StoppedInv'
  BY <1>23 DEF SinkBlocks, Goto, data
<1>24. ASSUME NEW t \in Threads, SpuriousWakeup(t) PROVE StoppedInv'
  BY <1>24 DEF SpuriousWakeup, LoopHead, Goto, data
<1>25. CASE UNCHANGED vars
  BY <1>25 DEF vars, data
<1> QED
  BY StepsOfNext, <1>1, <1>2, <1>3, <1>4, <1>5, <1>6, <1>7, <1>8, <1>9, <1>10, <1>11, <1>12,
     <1>13, <1>14, <1>15, <1>16, <1>17, <1>18, <1>19, <1>20, <1>21, <1>22, <1>23, <1>24, <1>25

LEMMA StoppedCorrect == Spec => []StoppedInv
<1>1. Init => StoppedInv
  BY ThreadsAssumption DEF Init, StoppedInv
<1> QED
  BY <1>1, StoppedStep, CoreCorrect, PTL DEF Spec

\* Nobody is in the sinks, and yet everyone waits: that cannot be.
LEMMA FreeSinksMove ==
  ASSUME CoreInv, OneThreadInSinks, WakeInv, StoppedInv, EveryoneWaits,
         sink_mutex = None
  PROVE  FALSE
<1> USE ThreadsAssumption DEF CoreInv, TypeOK
<1>1. \A t \in Threads : Waits(t) \/ pc[t] \in {"idle", "exited"}
  BY DEF EveryoneWaits
<1>2. \A t \in Threads : ~InSinks(t)
  BY DEF OneThreadInSinks
<1>3. \A t \in Threads : pc[t] \notin {"emit", "flush_sinks", "relock"}
  BY <1>1, <1>2 DEF Waits, InSinks
<1>4. pc[Worker] \in {"wait_not_empty", "exited"}
  BY <1>1, <1>2, <1>3 DEF Waits, InSinks, WorkerLabels, InSubmit, InEmit
<1>5. batch = <<>>
  BY <1>4 DEF WorkerInv
<1>6. pc[Owner] \in {"idle", "join"} /\ (pc[Owner] = "join" => pc[Worker] # "exited")
  BY <1>1, <1>2, <1>3 DEF Waits, InSinks, OwnerLabels, InSubmit
<1>7. pc[Owner] = "idle" /\ ~stop
  <2>1. pc[Owner] = "join" => stop /\ pc[Worker] = "wait_not_empty"
    BY <1>4, <1>6 DEF StoppedInv
  <2> QED
    BY <1>6, <2>1 DEF WakeInv, StopInv, NoLostWakeup
<1>8. \A t \in Clients : pc[t] \in {"idle", "wait_not_full", "wait_drained"}
  BY <1>1, <1>3 DEF Waits, ClientLabels, InSubmit, InEmit, InFlush
<1>9. PICK t \in Clients : pc[t] \in {"wait_not_full", "wait_drained"}
  BY <1>7, <1>8 DEF EveryoneWaits, Flushers, Waits
<1>10. CASE pc[Worker] = "wait_not_empty"
  <2>1. queue = <<>>
    BY <1>8, <1>10 DEF WakeInv, NoLostWakeup
  <2>2. pending = 0 /\ ~Full
    BY <1>5, <2>1, LimitsType DEF PendingExact, Full
  <2> QED
    BY <1>9, <1>10, <2>2 DEF WakeInv, NoLostWakeup
<1>11. CASE pc[Worker] = "exited"
  <2>1. ~Async
    BY <1>7, <1>11 DEF StoppedInv
  <2> QED
    BY <1>9, <1>11, <2>1 DEF StoppedInv
<1> QED
  BY <1>4, <1>10, <1>11

\* Else the one in the sinks is the one that waits there.
LEMMA WaitingIsExplained ==
  ASSUME CoreInv, OneThreadInSinks, WakeInv, StoppedInv, EveryoneWaits
  PROVE  \E t \in Threads : sink_mutex = t /\ pc[t] \in {"wait_not_full", "relock"}
<1>1. PICK t \in Threads : sink_mutex = t
  BY FreeSinksMove DEF CoreInv, TypeOK
<1>2. InSinks(t) \/ pc[t] \in InSubmit
  BY <1>1 DEF OneThreadInSinks
<1>3. Waits(t) \/ pc[t] \in {"idle", "exited"}
  BY DEF EveryoneWaits
<1>4. pc[t] \in {"wait_not_full", "relock"}
  BY <1>2, <1>3 DEF InSinks, InSubmit, Waits
<1> QED
  BY <1>1, <1>4

(* Calls of the logger deadlock only if user code called under sink_mutex_
   waits there for room in the queue or comes to lock the mutex again, with
   any number of clients and whatever the options (logger.hpp:226-231, 384,
   386, 449, 462, 485).                                                    *)
THEOREM DeadlocksExplained == Spec => []OnlyASinkDeadlocks
<1>1. Init => WakeInv
  BY ThreadsAssumption DEF Init, WakeInv, StopInv, NoLostWakeup
<1>2. CoreInv /\ OneThreadInSinks /\ WakeInv /\ StoppedInv => OnlyASinkDeadlocks
  BY WaitingIsExplained DEF OnlyASinkDeadlocks
<1> QED
  BY <1>1, <1>2, WakeStep, StoppedCorrect, SinksCorrect, CoreCorrect, PTL DEF Spec

-----------------------------------------------------------------------------
(* The history variables change no step: what holds of AsyncLogger holds.  *)

LEMMA HistoryStep == [HNext]_hvars => [Next]_vars
<1> SUFFICES ASSUME [HNext]_hvars PROVE [Next]_vars
  OBVIOUS
<1> USE DEF Next, Call, CallFromSink, ClientStep, FlusherStep, LoggerStep, Submit,
        WorkerStep, OwnerStep, Flushers
<1>1. ASSUME HNext PROVE Next
  <2>0. pc[Owner] # "destroyed"
    BY <1>1 DEF HNext
  <2>1. ASSUME NEW t \in Threads, Issue(t) PROVE Next
    BY <2>0, <2>1 DEF Issue, Log, MayCall
  <2>2. ASSUME NEW t \in Threads, Accept(t) PROVE Next
    BY <2>0, <2>2 DEF Accept
  <2>3. ASSUME NEW t \in Threads, Write(t) PROVE Next
    BY <2>0, <2>3 DEF Write
  <2>4. ASSUME NEW t \in Clients, CallFlush(t) \/ ReturnFlush(t) PROVE Next
    BY <2>0, <2>4 DEF CallFlush, ReturnFlush
  <2>5. ASSUME BeginDestroy \/ EndDestroy PROVE Next
    BY <2>0, <2>5 DEF BeginDestroy, EndDestroy
  <2>6. ASSUME Internal PROVE Next
    BY <2>0, <2>6 DEF Internal
  <2> QED
    BY <1>1, <2>1, <2>2, <2>3, <2>4, <2>5, <2>6 DEF HNext
<1>2. CASE UNCHANGED hvars
  BY <1>2 DEF hvars
<1> QED
  BY <1>1, <1>2

LEMMA HistorySpec == HSpec => Spec
<1>1. HInit => Init
  BY DEF HInit
<1> QED
  BY <1>1, HistoryStep, PTL DEF HSpec, Spec

LEMMA HistoryCore == HSpec => [](CoreInv /\ OneThreadInSinks /\ StoppedInv)
BY HistorySpec, CoreCorrect, SinksCorrect, StoppedCorrect, PTL

-----------------------------------------------------------------------------
(* Three facts about sequences that the order of delivery rests on.        *)

\* An entry pushed at the tail is the last one accepted.
LEMMA AppendBehind ==
  ASSUME NEW w \in Seq(Entry), NEW r \in Seq(Entry), NEW q \in Seq(Entry),
         NEW e \in Entry
  PROVE  Append(w \o r \o q, e) = w \o r \o Append(q, e)
<1>1. w \o r \in Seq(Entry) /\ w \o r \o q \in Seq(Entry)
  BY ConcatProperties
<1>2. Append(w \o r \o q, e) = (w \o r \o q) \o <<e>> /\ Append(q, e) = q \o <<e>>
  BY <1>1, AppendIsConcat
<1>3. ((w \o r) \o q) \o <<e>> = (w \o r) \o (q \o <<e>>)
  BY <1>1, ConcatAssociative, SMTT(30)
<1> QED
  BY <1>2, <1>3

\* Concatenation associates, stated for three variables.
LEMMA Regroup ==
  ASSUME NEW w \in Seq(Entry), NEW f \in Seq(Entry), NEW r \in Seq(Entry)
  PROVE  (w \o f) \o r = w \o (f \o r)
BY ConcatAssociative

\* What is cut off the front of the queue keeps its place behind w.
LEMMA CutFront ==
  ASSUME NEW w \in Seq(Entry), NEW q \in Seq(Entry), NEW k \in 1..Len(q)
  PROVE  w \o <<>> \o q = w \o SubSeq(q, 1, k) \o SubSeq(q, k + 1, Len(q))
<1> DEFINE front == SubSeq(q, 1, k)
           rest == SubSeq(q, k + 1, Len(q))
<1>1. front \o rest = q
  BY ConcatAdjacentSubSeq, SubSeqFull
<1>2. front \in Seq(Entry) /\ rest \in Seq(Entry)
  OBVIOUS
<1> HIDE DEF front, rest
<1>3. w \o <<>> = w
  BY ConcatEmptySeq
<1>4. (w \o front) \o rest = w \o (front \o rest)
  BY <1>2, Regroup
<1>5. w \o <<>> \o q = w \o front \o rest
  BY <1>1, <1>3, <1>4
<1> QED
  BY <1>5 DEF front, rest

\* Element i + 1 moves from the front of the rest of b to the end of w.
LEMMA MoveOne ==
  ASSUME NEW w \in Seq(Entry), NEW b \in Seq(Entry),
         NEW i \in 0..Len(b) - 1
  PROVE  /\ b[i + 1] \in Entry
         /\ Append(w, b[i + 1]) \o SubSeq(b, i + 2, Len(b))
              = w \o SubSeq(b, i + 1, Len(b))
<1> DEFINE one == SubSeq(b, i + 1, i + 1)
           rest == SubSeq(b, i + 2, Len(b))
<1>1. b[i + 1] \in Entry
  BY ElementOfSeq
<1>2. one = <<b[i + 1]>>
  <2>1. /\ one \in Seq(Entry) /\ Len(one) = 1 /\ one[1] = b[i + 1]
    BY ElementOfSeq, SubSeqProperties
  <2>2. <<b[i + 1]>> \in Seq(Entry) /\ Len(<<b[i + 1]>>) = 1
    BY <1>1
  <2> HIDE DEF one
  <2> QED
    BY <2>1, <2>2, SeqEqual
<1>3. one \in Seq(Entry) /\ rest \in Seq(Entry)
  <2>1. rest \in Seq(Entry)
    OBVIOUS
  <2> QED
    BY <1>1, <1>2, <2>1
<1>4. one \o rest = SubSeq(b, i + 1, Len(b))
  <2>1. SubSeq(b, i + 1, i + 1) \o SubSeq(b, (i + 1) + 1, Len(b))
          = SubSeq(b, i + 1, Len(b))
    BY ConcatAdjacentSubSeq
  <2>2. (i + 1) + 1 = i + 2
    OBVIOUS
  <2> QED
    BY <2>1, <2>2
<1>5. Append(w, b[i + 1]) = w \o one
  BY <1>1, <1>2, AppendIsConcat
<1>6. (w \o one) \o rest = w \o (one \o rest)
  <2> HIDE DEF one, rest
  <2> QED
    BY <1>3, ConcatAssociative, SMTT(20)
<1> QED
  BY <1>1, <1>4, <1>5, <1>6

-----------------------------------------------------------------------------
(* Order: every accepted entry is written, in the batch or in the queue.   *)

OrderInv ==
  /\ accepted \in Seq(Entry)
  /\ written \in Seq(Entry)
  /\ ~Async => queue = <<>>
  /\ InOrderExactlyOnce

\* Only a push, a batch taken, a line written and a batch settled move entries.
LEMMA EntryMoves ==
  ASSUME [HNext]_hvars
  PROVE  \/ \E t \in Threads : Accept(t)
         \/ \E t \in Threads : Write(t)
         \/ TakeBatch /\ UNCHANGED <<accepted, written>>
         \/ Settle /\ UNCHANGED <<accepted, written>>
         \/ UNCHANGED <<opts, queue, batch, emitted, accepted, written>>
<1>1. ASSUME NEW t \in Threads, Issue(t)
      PROVE  UNCHANGED <<opts, queue, batch, emitted, accepted, written>>
  BY <1>1 DEF Issue, Log, SinkLog, BeginSubmit
<1>2. ASSUME NEW t \in Clients, CallFlush(t) \/ ReturnFlush(t)
      PROVE  UNCHANGED <<opts, queue, batch, emitted, accepted, written>>
  BY <1>2 DEF CallFlush, ReturnFlush, BeginFlush, FlushDone, data
<1>3. ASSUME BeginDestroy \/ EndDestroy
      PROVE  UNCHANGED <<opts, queue, batch, emitted, accepted, written>>
  BY <1>3 DEF BeginDestroy, EndDestroy, Destroy, FlushDone, data
<1>4. ASSUME Internal, ~TakeBatch, ~Settle
      PROVE  UNCHANGED <<opts, queue, batch, emitted, accepted, written>>
  BY <1>4 DEF Internal, history, SubmitInline, Discard, AwaitRoom, NotifyNotEmpty,
    EmitLock, FlushLock, SinkBlocks, SpuriousWakeup, FlushWait, AwaitEntries, Exit, NotifyNotFull,
    StopWorker, StopProducers, Join, data
<1>5. Internal => UNCHANGED <<accepted, written>>
  BY DEF Internal, history
<1>6. CASE UNCHANGED hvars
  BY <1>6 DEF hvars, vars, data, history
<1> QED
  BY <1>1, <1>2, <1>3, <1>4, <1>5, <1>6 DEF HNext

\* ~Logger flushes the sinks and emits nothing itself.
LEMMA OwnerDoesNotEmit == CoreInv => pc[Owner] \notin InEmit
BY DEF CoreInv, TypeOK, OwnerLabels, InSubmit, InEmit

LEMMA OrderStep == CoreInv /\ OrderInv /\ [HNext]_hvars => OrderInv'
<1> SUFFICES ASSUME CoreInv, OrderInv, [HNext]_hvars PROVE OrderInv'
  OBVIOUS
<1> USE DEF OrderInv, InOrderExactlyOnce, Async
<1>0. /\ queue \in Seq(Entry) /\ batch \in Seq(Entry) /\ emitted \in Nat
      /\ emitted <= Len(batch)
      /\ Remaining \in Seq(Entry)
  BY ThreadsAssumption DEF CoreInv, TypeOK, WorkerInv, WorkerLabels, InSubmit,
    InEmit, Remaining
<1>1. ASSUME NEW t \in Threads, Accept(t) PROVE OrderInv'
  <2>1. /\ entry[t] \in Entry /\ Async /\ UNCHANGED <<opts, batch, emitted, written>>
        /\ queue' = Append(queue, entry[t]) /\ accepted' = Append(accepted, entry[t])
    BY <1>1 DEF Accept, Push, CoreInv, TypeOK, Holds
  <2>2. Remaining' = Remaining
    BY <2>1 DEF Remaining
  <2>3. Append(written \o Remaining \o queue, entry[t])
          = written \o Remaining \o Append(queue, entry[t])
    <3>1. /\ written \in Seq(Entry) /\ Remaining \in Seq(Entry)
          /\ queue \in Seq(Entry) /\ entry[t] \in Entry
      BY <1>0, <2>1
    <3> HIDE DEF OrderInv
    <3> QED
      BY <3>1, AppendBehind, ZenonT(30)
  <2>4. accepted' = written' \o Remaining' \o queue'
    BY <2>1, <2>2, <2>3
  <2>5. accepted' \in Seq(Entry) /\ written' \in Seq(Entry)
    BY <2>1, AppendProperties
  <2> QED
    BY <2>1, <2>4, <2>5
<1>2. ASSUME NEW t \in Threads, Write(t) PROVE OrderInv'
  <2> USE <1>2 DEF Write, EmitDone
  <2>1. CASE t = Worker
    <3>1. Async /\ emitted \in 0..Len(batch) - 1
      BY <1>0, <2>1 DEF CoreInv, WorkerInv, ModeInv, InEmit
    <3>2. /\ written' = Append(written, batch[emitted + 1])
          /\ UNCHANGED <<opts, queue, batch, accepted>> /\ emitted' = emitted + 1
      BY <2>1, <3>1 DEF Line
    <3>3. Remaining' = SubSeq(batch, emitted + 2, Len(batch))
      BY <1>0, <3>2 DEF Remaining
    <3>4. /\ batch[emitted + 1] \in Entry
          /\ Append(written, batch[emitted + 1]) \o SubSeq(batch, emitted + 2, Len(batch))
               = written \o SubSeq(batch, emitted + 1, Len(batch))
      <4> HIDE <1>2 DEF Write, EmitDone
      <4> QED
        BY <1>0, <3>1, MoveOne
    <3>5. written' \o Remaining' = written \o Remaining
      BY <3>2, <3>3, <3>4 DEF Remaining
    <3> QED
      BY <3>1, <3>2, <3>4, <3>5
  <2>2. CASE t # Worker
    BY <2>2, OwnerDoesNotEmit DEF CoreInv, TypeOK, ModeInv, Holds, Line, InEmit
  <2> QED
    BY <2>1, <2>2
<1>3. CASE TakeBatch /\ UNCHANGED <<accepted, written>>
  <2> USE <1>3 DEF TakeBatch
  <2>1. Async /\ batch = <<>> /\ emitted = 0
    BY DEF CoreInv, ModeInv, WorkerInv
  <2>2. Remaining = <<>> /\ Remaining' = batch'
    <3>1. batch' \in Seq(Entry) /\ emitted' = 0
      BY <2>1, TakeSplits DEF CoreInv, TypeOK
    <3> QED
      BY <2>1, <3>1, SubSeqFull DEF Remaining
  <2>3. TakeCount \in 1..Len(queue)
    BY TakeSplits DEF CoreInv, TypeOK
  <2>4. written \o <<>> \o queue = written \o batch' \o queue'
    BY <1>0, <2>3, CutFront
  <2> QED
    BY <2>1, <2>2, <2>4
<1>4. CASE Settle /\ UNCHANGED <<accepted, written>>
  <2>1. UNCHANGED <<opts, queue>> /\ emitted = Len(batch) /\ batch' = <<>> /\ emitted' = 0
    BY <1>4 DEF Settle, CoreInv, WorkerInv
  <2>2. Remaining = <<>> /\ Remaining' = <<>>
    BY <1>0, <2>1 DEF Remaining
  <2> QED
    BY <1>4, <2>1, <2>2
<1>5. CASE UNCHANGED <<opts, queue, batch, emitted, accepted, written>>
  BY <1>5 DEF Remaining
<1> QED
  BY <1>1, <1>2, <1>3, <1>4, <1>5, EntryMoves

LEMMA OrderCorrect == HSpec => []OrderInv
<1>1. HInit => OrderInv
  BY DEF HInit, Init, OrderInv, InOrderExactlyOnce, Remaining
<1> QED
  BY <1>1, OrderStep, HistoryCore, PTL DEF HSpec

(* Whatever the interleaving of producers, flushers, re-entrant sinks and
   shutdown, what the sinks got is what was accepted, in that order, without
   loss or repetition, but for what is in the batch and the queue
   (logger.hpp:444, 464-471).                                              *)
THEOREM InOrderCorrect == HSpec => []InOrderExactlyOnce
<1>1. OrderInv => InOrderExactlyOnce
  BY DEF OrderInv
<1> QED
  BY <1>1, OrderCorrect, PTL

-----------------------------------------------------------------------------
(* flush() returns no earlier than it should.                              *)

\* Nothing owed, nothing missing.
LEMMA DrainedIsWritten ==
  ASSUME CoreInv, OrderInv, ~Async \/ pending = 0
  PROVE  accepted = written
<1>1. CASE ~Async
  BY <1>1 DEF OrderInv, InOrderExactlyOnce
<1>2. CASE Async /\ pending = 0
  <2>1. queue = <<>> /\ batch = <<>> /\ emitted \in Nat
    BY <1>2 DEF CoreInv, TypeOK, PendingExact
  <2>2. Remaining = <<>>
    BY <2>1 DEF Remaining
  <2>3. written \o <<>> = written
    BY ConcatEmptySeq DEF OrderInv
  <2> QED
    BY <1>2, <2>1, <2>2, <2>3 DEF OrderInv, InOrderExactlyOnce
<1> QED
  BY <1>1, <1>2

\* What is accepted or written stays so.
LEMMA HistoryGrows ==
  ASSUME CoreInv, OrderInv, OrderInv', [HNext]_hvars
  PROVE  /\ Len(accepted) \in Nat /\ Len(accepted') \in Nat
         /\ Len(written) \in Nat /\ Len(written') \in Nat
         /\ Len(accepted) <= Len(accepted') /\ Len(written) <= Len(written')
<1>1. /\ Len(accepted) \in Nat /\ Len(accepted') \in Nat
      /\ Len(written) \in Nat /\ Len(written') \in Nat
  BY DEF OrderInv
<1>2. ASSUME NEW t \in Threads, Accept(t)
      PROVE  Len(accepted') = Len(accepted) + 1 /\ written' = written
  BY <1>2 DEF Accept, OrderInv
<1>3. ASSUME NEW t \in Threads, Write(t)
      PROVE  /\ Len(written') = Len(written) + 1
             /\ accepted' = accepted \/ Len(accepted') = Len(accepted) + 1
  BY <1>3 DEF Write, OrderInv
<1> QED
  BY <1>1, <1>2, <1>3, EntryMoves

\* A client is in flush() as long as it holds sink_mutex_ in async mode, also
\* when it is submitting what a sink logs; in sync mode it may hold it to write.
FlushInv ==
  /\ durable \in 0..Len(written)
  /\ due \in [Clients -> Nat \cup {NotFlushing}]
  /\ \A t \in Clients :
       /\ pc[t] \in InFlush => due[t] # NotFlushing
       /\ due[t] # NotFlushing => pc[t] \in InFlush \/ sink_mutex = t
       /\ Async /\ sink_mutex = t => due[t] # NotFlushing
       /\ pc[t] \in InEmit \/ (~Async /\ pc[t] = "submit") => due[t] = NotFlushing
       /\ due[t] <= Len(accepted)
       /\ pc[t] = "flush_sinks" \/ sink_mutex = t => due[t] <= Len(written)

LEMMA FlushStep ==
  /\ CoreInv /\ OneThreadInSinks /\ StoppedInv /\ OrderInv /\ OrderInv' /\ FlushInv
  /\ [HNext]_hvars
  => FlushInv'
<1> SUFFICES ASSUME CoreInv, OneThreadInSinks, StoppedInv, OrderInv, OrderInv', FlushInv,
                    [HNext]_hvars
             PROVE  FlushInv'
  OBVIOUS
<1>0. /\ Len(accepted) \in Nat /\ Len(accepted') \in Nat
      /\ Len(written) \in Nat /\ Len(written') \in Nat
      /\ Len(accepted) <= Len(accepted') /\ Len(written) <= Len(written')
  BY HistoryGrows
<1>1. ~Async \/ pending = 0 => Len(accepted) = Len(written)
  BY DrainedIsWritten
<1> USE <1>0, ThreadsAssumption
    DEF CoreInv, TypeOK, ModeInv, OneThreadInSinks, InSinks, StoppedInv, FlushInv,
        NotFlushing, Async, ClientLabels, WorkerLabels, OwnerLabels, InSubmit, InEmit,
        InFlush
<1>2. ASSUME NEW t \in Threads, Issue(t) PROVE FlushInv'
  BY <1>2 DEF Issue, Log, MayCall, SinkLog, BeginSubmit, Goto
<1>3. ASSUME NEW t \in Threads, Accept(t) PROVE FlushInv'
  BY <1>3 DEF Accept, Push, Goto
<1>4. ASSUME NEW t \in Threads, Write(t) PROVE FlushInv'
  <2>1. durable' \in 0..Len(written')
    BY <1>4 DEF Write
  <2>2. sink_mutex' = None /\ UNCHANGED <<opts, due>>
    BY <1>4 DEF Write, EmitDone
  <2>3. \A c \in Clients : c # t => pc'[c] = pc[c] /\ sink_mutex # c
    BY <1>4 DEF Write, EmitDone, Goto
  <2>4. t \in Clients => pc'[t] = "idle" /\ due[t] = NotFlushing
    BY <1>4 DEF Write, EmitDone, Goto
  <2> QED
    BY <2>1, <2>2, <2>3, <2>4
<1>5. ASSUME NEW t \in Clients, CallFlush(t) PROVE FlushInv'
  BY <1>1, <1>5 DEF CallFlush, BeginFlush, MayCall, Goto, data
<1>6. ASSUME NEW t \in Clients, ReturnFlush(t) PROVE FlushInv'
  BY <1>6 DEF ReturnFlush, FlushDone, Goto
<1>7. CASE BeginDestroy
  BY <1>7 DEF BeginDestroy, Destroy, Goto
<1>8. CASE EndDestroy
  BY <1>8 DEF EndDestroy, FlushDone, Goto
<1>9. ASSUME NEW t \in Threads, UNCHANGED history,
             SubmitInline(t) \/ Discard(t) \/ AwaitRoom(t)
      PROVE  FlushInv'
  <2>1. CASE SubmitInline(t)
    BY <1>9, <2>1 DEF SubmitInline, Goto, data, history
  <2>2. CASE Discard(t)
    BY <1>9, <2>2 DEF Discard, Goto, Resume, history
  <2>3. CASE AwaitRoom(t)
    BY <1>9, <2>3 DEF AwaitRoom, Goto, data, history
  <2> QED
    BY <1>9, <2>1, <2>2, <2>3
<1>10. ASSUME NEW t \in Threads, UNCHANGED history, NotifyNotEmpty(t) PROVE FlushInv'
  BY <1>10 DEF NotifyNotEmpty, GotoWaking, Resume, data, history
<1>11. ASSUME NEW t \in Threads, UNCHANGED history, EmitLock(t) \/ FlushLock(t)
       PROVE  FlushInv'
  BY <1>11 DEF EmitLock, FlushLock, Goto, history
<1>12. ASSUME NEW t \in Threads, UNCHANGED history, SinkBlocks(t) \/ SpuriousWakeup(t)
       PROVE  FlushInv'
  <2>1. CASE SinkBlocks(t)
    BY <1>12, <2>1 DEF SinkBlocks, Goto, data, history
  <2>2. CASE SpuriousWakeup(t)
    BY <1>12, <2>2 DEF SpuriousWakeup, LoopHead, Goto, data, history
  <2> QED
    BY <1>12, <2>1, <2>2
<1>13. ASSUME NEW t \in Clients, UNCHANGED history, FlushWait(t) PROVE FlushInv'
  BY <1>1, <1>13 DEF FlushWait, Goto, data, history
<1>14. ASSUME UNCHANGED history, AwaitEntries \/ Exit \/ TakeBatch PROVE FlushInv'
  BY <1>14 DEF AwaitEntries, Exit, TakeBatch, Goto, data, history
<1>15. ASSUME UNCHANGED history, NotifyNotFull \/ Settle PROVE FlushInv'
  BY <1>15 DEF NotifyNotFull, Settle, Goto, GotoWaking, data, history
<1>16. ASSUME UNCHANGED history, StopWorker \/ StopProducers \/ Join PROVE FlushInv'
  <2>1. CASE StopWorker
    BY <1>16, <2>1 DEF StopWorker, GotoWaking, data, history
  <2>2. CASE StopProducers
    BY <1>16, <2>2 DEF StopProducers, GotoWaking, data, history
  <2>3. CASE Join
    BY <1>16, <2>3 DEF Join, Goto, data, history
  <2> QED
    BY <1>16, <2>1, <2>2, <2>3
<1>17. CASE UNCHANGED hvars
  BY <1>17 DEF hvars, vars, data, history
<1> QED
  BY <1>2, <1>3, <1>4, <1>5, <1>6, <1>7, <1>8, <1>9, <1>10, <1>11, <1>12, <1>13, <1>14,
     <1>15, <1>16, <1>17 DEF HNext, Internal, Flushers

LEMMA FlushCorrect == HSpec => []FlushInv
<1>1. HInit => FlushInv
  BY ThreadsAssumption
  DEF HInit, Init, FlushInv, NotFlushing, InFlush, InEmit
<1> QED
  BY <1>1, FlushStep, OrderCorrect, HistoryCore, PTL DEF HSpec

(* Everything accepted before flush() was called is written when it goes on
   to flush the sinks, for any number of threads that log and flush meanwhile
   (logger.hpp:379-388).                                                   *)
THEOREM FlushContractCorrect == HSpec => []FlushContract
<1>1. OneThreadInSinks /\ FlushInv => FlushContract
  BY DEF OneThreadInSinks, InSinks, FlushInv, FlushContract
<1> QED
  BY <1>1, FlushCorrect, HistoryCore, PTL

-----------------------------------------------------------------------------
(* What ~Logger loses.                                                      *)

\* ~Logger is in its flush of the sinks, or done.
Closing == pc[Owner] \in {"flushing", "relock", "destroyed"} \cup InSubmit

\* Every entry in the queue is ~Logger's own.
OwnEntries == \A i \in 1..Len(queue) : queue[i].from = Owner

ShutdownInv ==
  /\ late \in [Threads -> BOOLEAN]
  /\ stop <=> (Async /\ Destroying)
  /\ Destroying =>
       \A t \in Clients : late[t] \/ pc[t] \in {"idle", "relock"} \cup InFlush
  /\ ~LateCalls /\ Destroying => \A t \in Clients : pc[t] = "idle"
  /\ ~LateCalls => NoLateClient
  /\ entry[Owner] # None => entry[Owner].from = Owner
  /\ Async /\ (pc[Owner] = "flush_sinks" \/ Closing) => pc[Worker] = "exited"
  /\ Async /\ pc[Worker] = "exited" => stop /\ (NoLateClient => OwnEntries)
  /\ Async /\ pc[Worker] = "exited" /\ NoLateClient /\ ~Closing => queue = <<>>
  /\ pc[Owner] = "destroyed" => durable = Len(written)

LEMMA ShutdownInit == HInit => ShutdownInv
BY ThreadsAssumption
DEF HInit, Init, ShutdownInv, NoLateClient, Destroying, Closing, InSubmit, Async

LEMMA ShutdownStep ==
  CoreInv /\ OneThreadInSinks /\ ShutdownInv /\ [HNext]_hvars => ShutdownInv'
<1> SUFFICES ASSUME CoreInv, OneThreadInSinks, ShutdownInv, [HNext]_hvars
             PROVE  ShutdownInv'
  OBVIOUS
<1> USE ThreadsAssumption, OptionsAssumption
    DEF CoreInv, TypeOK, ModeInv, OneThreadInSinks, InSinks, ShutdownInv, NoLateClient,
        Destroying, Closing, OwnEntries, Async, ClientLabels, WorkerLabels, OwnerLabels,
        InSubmit, InEmit, InFlush
<1>1. CASE UNCHANGED hvars
  BY <1>1 DEF hvars, vars, data, history
<1>2. ASSUME HNext PROVE ShutdownInv'
  <2>0. pc[Owner] # "destroyed"
    BY <1>2 DEF HNext
  <2>1. ASSUME NEW t \in Threads, Issue(t) PROVE ShutdownInv'
    BY <2>0, <2>1 DEF Issue, Log, MayCall, SinkLog, BeginSubmit, Goto
  <2>2. ASSUME NEW t \in Threads, Accept(t) PROVE ShutdownInv'
    <3>1. Destroying /\ t \in Clients => late[t]
      BY <2>2 DEF Accept, Push
    <3>2. OwnEntries /\ t = Owner => OwnEntries'
      BY <2>2 DEF Accept, Push, Holds
    <3> HIDE DEF OwnEntries
    <3> QED
      BY <2>0, <2>2, <3>1, <3>2 DEF Accept, Push, Goto
  <2>3. ASSUME NEW t \in Threads, Write(t) PROVE ShutdownInv'
    BY <2>0, <2>3 DEF Write, EmitDone, Goto
  <2>4. ASSUME NEW t \in Clients, CallFlush(t) PROVE ShutdownInv'
    BY <2>0, <2>4 DEF CallFlush, BeginFlush, MayCall, Goto, data
  <2>5. ASSUME NEW t \in Clients, ReturnFlush(t) PROVE ShutdownInv'
    BY <2>0, <2>5 DEF ReturnFlush, FlushDone, Goto
  <2>6. CASE BeginDestroy
    BY <2>0, <2>6 DEF BeginDestroy, Destroy, Goto
  <2>7. CASE EndDestroy
    BY <2>0, <2>7 DEF EndDestroy, FlushDone, Goto
  <2>8. ASSUME NEW t \in Threads, UNCHANGED history, Discard(t) PROVE ShutdownInv'
    BY <2>0, <2>8 DEF Discard, Goto, Resume, history
  <2>9. ASSUME NEW t \in Threads, UNCHANGED history, SubmitInline(t) \/ AwaitRoom(t)
         PROVE  ShutdownInv'
    BY <2>0, <2>9 DEF SubmitInline, AwaitRoom, Goto, data, history
  <2>10. ASSUME NEW t \in Threads, UNCHANGED history, NotifyNotEmpty(t)
        PROVE  ShutdownInv'
    BY <2>0, <2>10 DEF NotifyNotEmpty, GotoWaking, Resume, data, history
  <2>11. ASSUME NEW t \in Threads, UNCHANGED history, EmitLock(t) \/ FlushLock(t)
         PROVE  ShutdownInv'
    BY <2>0, <2>11 DEF EmitLock, FlushLock, Goto, history
  <2>12. ASSUME NEW t \in Threads, UNCHANGED history, SinkBlocks(t) \/ SpuriousWakeup(t)
         PROVE  ShutdownInv'
    <3>1. CASE SinkBlocks(t)
      BY <2>0, <2>12, <3>1 DEF SinkBlocks, Goto, data, history
    <3>2. CASE SpuriousWakeup(t)
      BY <2>0, <2>12, <3>2 DEF SpuriousWakeup, LoopHead, Goto, data, history
    <3> QED
      BY <2>12, <3>1, <3>2
  <2>13. ASSUME NEW t \in Clients, UNCHANGED history, FlushWait(t)
         PROVE  ShutdownInv'
    BY <2>0, <2>13 DEF FlushWait, Goto, data, history
  <2>14. ASSUME UNCHANGED history, AwaitEntries \/ Exit \/ TakeBatch
         PROVE  ShutdownInv'
    BY <2>0, <2>14 DEF AwaitEntries, Exit, TakeBatch, Goto, data, history
  <2>15. ASSUME UNCHANGED history, NotifyNotFull \/ Settle PROVE ShutdownInv'
    BY <2>0, <2>15 DEF NotifyNotFull, Settle, Goto, GotoWaking, data, history
  <2>16. ASSUME UNCHANGED history, StopWorker PROVE ShutdownInv'
    BY <2>0, <2>16 DEF StopWorker, GotoWaking, data, history
  <2>17. ASSUME UNCHANGED history, StopProducers PROVE ShutdownInv'
    BY <2>0, <2>17 DEF StopProducers, GotoWaking, data, history
  <2>18. ASSUME UNCHANGED history, Join PROVE ShutdownInv'
    BY <2>0, <2>18 DEF Join, Goto, data, history
  <2> QED
    BY <1>2, <2>1, <2>2, <2>3, <2>4, <2>5, <2>6, <2>7, <2>8, <2>9, <2>10, <2>11, <2>12,
       <2>13, <2>14, <2>15, <2>16, <2>17, <2>18 DEF HNext, Internal, Flushers
<1> QED
  BY <1>1, <1>2

LEMMA ShutdownCorrect == HSpec => []ShutdownInv
BY ShutdownInit, ShutdownStep, HistoryCore, PTL DEF HSpec

\* With no late client, ~Logger's flush of the sinks begins with everything written.
LEMMA FlushBeginsWritten ==
  ASSUME CoreInv, OrderInv, ShutdownInv, NoLateClient, pc[Owner] = "flush_sinks"
  PROVE  accepted = written
<1>1. CASE ~Async
  BY <1>1, DrainedIsWritten
<1>2. CASE Async
  <2>1. queue = <<>> /\ batch = <<>>
    BY <1>2 DEF ShutdownInv, Closing, InSubmit, CoreInv, WorkerInv
  <2>2. pending = 0
    BY <2>1 DEF CoreInv, PendingExact
  <2> QED
    BY <2>2, DrainedIsWritten
<1> QED
  BY <1>1, <1>2

\* It ends with everything written but what was logged since.
LEMMA EndIsWritten ==
  ASSUME CoreInv, OrderInv, ShutdownInv, NoLateClient, pc[Owner] = "destroyed"
  PROVE  accepted = written \o queue /\ OwnEntries
<1>1. CASE ~Async
  BY <1>1, ConcatEmptySeq DEF OrderInv, InOrderExactlyOnce, OwnEntries
<1>2. CASE Async
  <2>1. batch = <<>> /\ OwnEntries
    BY <1>2 DEF ShutdownInv, Closing, CoreInv, WorkerInv
  <2>2. Remaining = <<>>
    BY <2>1 DEF Remaining, CoreInv, TypeOK
  <2>3. written \o <<>> = written
    BY ConcatEmptySeq DEF OrderInv
  <2> QED
    BY <1>2, <2>1, <2>2, <2>3 DEF OrderInv, InOrderExactlyOnce
<1> QED
  BY <1>1, <1>2

(* Provided no client is in a call when ~Logger starts or calls later, the
   destructor returns with every accepted entry written and flushed, those
   that sinks logged during the drain included, but for what is logged in its
   own final flush of the sinks (docs/design.md:39-41, logger.hpp:220-232).  *)
THEOREM ShutdownLosslessCorrect == HSpec => []ShutdownLossless
<1>1. CoreInv /\ OrderInv /\ ShutdownInv => ShutdownLossless
  BY EndIsWritten DEF ShutdownInv, ShutdownLossless, OwnEntries
<1> QED
  BY <1>1, ShutdownCorrect, OrderCorrect, HistoryCore, PTL

-----------------------------------------------------------------------------
(* The ledger.  Counting modulo CounterModulus, a statement that is issued
   adds one to both sides of NothingVanishes, and an entry that is accepted
   or dropped goes from one term of its right side to another.             *)

LEMMA Division ==
  ASSUME NEW x \in Nat, NEW m \in Nat \ {0}
  PROVE  \E q \in Int, r \in 0..m - 1 : x = m * q + r /\ (x % m) = r
<1>1. (x % m) \in 0..m - 1 /\ (x \div m) \in Int /\ x = m * (x \div m) + (x % m)
  OBVIOUS
<1> QED
  BY <1>1

LEMMA Remainder ==
  ASSUME NEW q \in Int, NEW m \in Nat \ {0}, NEW r \in 0..m - 1
  PROVE  ((m * q + r) % m) = r
OBVIOUS

LEMMA TurnIsNothing ==
  ASSUME NEW x \in Nat, NEW m \in Nat \ {0}
  PROVE  ((x + m) % m) = (x % m)
<1>1. PICK q \in Int, r \in 0..m - 1 : x = m * q + r /\ (x % m) = r
  BY Division
<1>2. PICK p \in Int : p = q + 1
  OBVIOUS
<1>3. m * p = m * q + m
  BY <1>2
<1>4. x + m = m * p + r
  BY <1>1, <1>3
<1> QED
  BY <1>1, <1>4, Remainder

LEMMA OneMore ==
  ASSUME NEW x \in Nat, NEW y \in Nat, NEW m \in Nat \ {0}, (x % m) = (y % m)
  PROVE  ((x + 1) % m) = ((y + 1) % m)
<1>1. ASSUME NEW z \in Nat, NEW r \in 0..m - 1, (z % m) = r
      PROVE  ((z + 1) % m) = IF r + 1 = m THEN 0 ELSE r + 1
  <2>1. PICK q \in Int : z = m * q + r
    BY <1>1, Division
  <2>2. CASE r + 1 = m
    <3>1. PICK p \in Int : p = q + 1
      OBVIOUS
    <3>2. m * p = m * q + m
      BY <3>1
    <3>3. z + 1 = m * p + 0 /\ 0 \in 0..m - 1
      BY <2>1, <2>2, <3>2
    <3>4. ((m * p + 0) % m) = 0
      BY <3>3, Remainder
    <3> QED
      BY <2>2, <3>3, <3>4
  <2>3. CASE r + 1 # m
    <3>1. PICK s : s = r + 1
      OBVIOUS
    <3>2. s \in 0..m - 1 /\ z + 1 = m * q + s
      BY <2>1, <2>3, <3>1
    <3>3. ((m * q + s) % m) = s
      BY <3>2, Remainder
    <3> QED
      BY <2>3, <3>1, <3>2, <3>3
  <2> QED
    BY <2>2, <2>3
<1>2. PICK r \in 0..m - 1 : (x % m) = r
  BY Division
<1> QED
  BY <1>1, <1>2

Submitting == {t \in Threads : entry[t] # None}

LedgerInv ==
  /\ issued \in Nat
  /\ accepted \in Seq(Entry)
  /\ IsFiniteSet(Submitting)
  /\ NothingVanishes

\* A counter that wraps counts on.
LEMMA DropCounts ==
  ASSUME NEW a \in Nat, NEW d \in 0..CounterModulus - 1, NEW c \in Nat, c # 0
  PROVE  ((a + ((d + 1) % CounterModulus) + (c - 1)) % CounterModulus)
           = ((a + d + c) % CounterModulus)
<1>1. CounterModulus \in Nat \ {0}
  BY OptionsAssumption
<1>2. CASE d + 1 < CounterModulus
  <2>1. PICK q, s : q = 0 /\ s = d + 1
    OBVIOUS
  <2>2. q \in Int /\ s \in 0..CounterModulus - 1 /\ CounterModulus * q + s = d + 1
    BY <1>1, <1>2, <2>1
  <2>3. ((d + 1) % CounterModulus) = d + 1
    BY <1>1, <2>1, <2>2, Remainder
  <2>4. a + (d + 1) + (c - 1) = a + d + c
    OBVIOUS
  <2> QED
    BY <2>3, <2>4
<1>3. CASE d + 1 = CounterModulus
  <2>1. ((d + 1) % CounterModulus) = 0
    <3>1. PICK q, s : q = 1 /\ s = 0
      OBVIOUS
    <3>2. q \in Int /\ s \in 0..CounterModulus - 1 /\ CounterModulus * q + s = d + 1
      BY <1>1, <1>3, <3>1
    <3> QED
      BY <1>1, <3>1, <3>2, Remainder
  <2>2. PICK x : x = a + 0 + (c - 1)
    OBVIOUS
  <2>3. x \in Nat /\ x + CounterModulus = a + d + c
    BY <1>1, <1>3, <2>2
  <2>4. ((x + CounterModulus) % CounterModulus) = (x % CounterModulus)
    BY <1>1, <2>3, TurnIsNothing
  <2> QED
    BY <2>1, <2>2, <2>3, <2>4
<1> QED
  BY <1>1, <1>2, <1>3

\* One thread begins to submit an entry, or hands it over.
LEMMA SubmittingChanges ==
  ASSUME entry \in [Threads -> Entry \cup {None}], NEW t \in Threads, NEW e,
         entry' = [entry EXCEPT ![t] = e], IsFiniteSet(Submitting)
  PROVE  /\ IsFiniteSet(Submitting') /\ Cardinality(Submitting) \in Nat
         /\ entry[t] = None /\ e # None => Cardinality(Submitting') = Cardinality(Submitting) + 1
         /\ entry[t] # None /\ e = None =>
              Cardinality(Submitting) # 0 /\ Cardinality(Submitting') = Cardinality(Submitting) - 1
<1>1. entry'[t] = e /\ \A s \in Threads : s # t => entry'[s] = entry[s]
  OBVIOUS
<1>2. PICK S : S = Submitting
  OBVIOUS
<1>3. Submitting' = IF e = None THEN S \ {t} ELSE S \cup {t}
  BY <1>1, <1>2 DEF Submitting
<1>4. t \in S <=> entry[t] # None
  BY <1>2 DEF Submitting
<1>5. /\ IsFiniteSet(S) /\ Cardinality(S) \in Nat
      /\ IsFiniteSet(S \ {t}) /\ IsFiniteSet(S \cup {t})
      /\ t \in S => Cardinality(S) # 0 /\ Cardinality(S \ {t}) = Cardinality(S) - 1
      /\ t \notin S => Cardinality(S \cup {t}) = Cardinality(S) + 1
  <2>1. IsFiniteSet(S) /\ Cardinality(S) \in Nat
    BY <1>2, FS_CardinalityType
  <2>2. /\ IsFiniteSet(S \cup {t})
        /\ Cardinality(S \cup {t}) = IF t \in S THEN Cardinality(S) ELSE Cardinality(S) + 1
    BY <2>1, FS_AddElement
  <2>3. /\ IsFiniteSet(S \ {t})
        /\ Cardinality(S \ {t}) = IF t \in S THEN Cardinality(S) - 1 ELSE Cardinality(S)
    BY <2>1, FS_RemoveElement
  <2>4. t \in S => Cardinality(S) # 0
    BY <2>1, FS_EmptySet
  <2> QED
    BY <2>1, <2>2, <2>3, <2>4
<1> QED
  BY <1>2, <1>3, <1>4, <1>5

\* What moves an entry from one account to another.
LEMMA LedgerMoves ==
  ASSUME [HNext]_hvars
  PROVE  \/ \E t \in Threads : Issue(t) \/ Accept(t) \/ Write(t)
         \/ \E t \in Threads : Discard(t) /\ UNCHANGED history
         \/ UNCHANGED <<issued, accepted, dropped, entry>>
<1>1. ASSUME NEW t \in Clients, CallFlush(t) \/ ReturnFlush(t)
      PROVE  UNCHANGED <<issued, accepted, dropped, entry>>
  BY <1>1 DEF CallFlush, ReturnFlush, BeginFlush, FlushDone, data
<1>2. ASSUME BeginDestroy \/ EndDestroy
      PROVE  UNCHANGED <<issued, accepted, dropped, entry>>
  BY <1>2 DEF BeginDestroy, EndDestroy, Destroy, FlushDone, data
<1>3. ASSUME Internal, ~\E t \in Threads : Discard(t)
      PROVE  UNCHANGED <<issued, accepted, dropped, entry>>
  BY <1>3 DEF Internal, history, SubmitInline, AwaitRoom, NotifyNotEmpty,
    EmitLock, FlushLock, SinkBlocks, SpuriousWakeup, FlushWait, AwaitEntries, Exit, TakeBatch, NotifyNotFull,
    Settle, StopWorker, StopProducers, Join, data
<1>4. CASE UNCHANGED hvars
  BY <1>4 DEF hvars, vars, data, history
<1> QED
  BY <1>1, <1>2, <1>3, <1>4 DEF HNext, Internal

LEMMA LedgerStep == CoreInv /\ LedgerInv /\ [HNext]_hvars => LedgerInv'
<1> SUFFICES ASSUME CoreInv, LedgerInv, [HNext]_hvars PROVE LedgerInv'
  OBVIOUS
<1>1. /\ issued \in Nat /\ accepted \in Seq(Entry) /\ Len(accepted) \in Nat /\ IsFiniteSet(Submitting)
      /\ CounterModulus \in Nat \ {0} /\ dropped \in 0..CounterModulus - 1
      /\ entry \in [Threads -> Entry \cup {None}]
  BY OptionsAssumption DEF LedgerInv, CoreInv, TypeOK
<1>2. PICK n, a, d, c, m : n = issued /\ a = Len(accepted) /\ d = dropped /\ c = Cardinality(Submitting)
                           /\ m = CounterModulus
  OBVIOUS
<1>3. /\ n \in Nat /\ a \in Nat /\ d \in 0..m - 1 /\ c \in Nat /\ m \in Nat \ {0}
      /\ (n % m) = ((a + d + c) % m)
  BY <1>1, <1>2, FS_CardinalityType DEF LedgerInv, NothingVanishes, Submitting
<1>4. \A t \in Threads : /\ Holds(t) => entry[t] # None
                         /\ entry[t] # None => Holds(t) \/ pc[t] = "relock"
  BY DEF CoreInv, TypeOK
<1>5. CASE UNCHANGED <<issued, accepted, dropped, entry>>
  BY <1>5 DEF LedgerInv, NothingVanishes, Submitting
<1>6. ASSUME NEW t \in Threads, Issue(t) PROVE LedgerInv'
  <2>1. PICK ev \in Events : Log(t, ev) \/ SinkLog(t, ev)
    BY <1>6 DEF Issue
  <2>2. PICK e : e = [from |-> t, event |-> ev]
    OBVIOUS
  <2>3. /\ entry' = [entry EXCEPT ![t] = e] /\ dropped' = dropped
        /\ pc[t] = "idle" \/ (Async /\ pc[t] \in {"sink", "flushing"})
    <3>1. CASE Log(t, ev)
      BY <2>2, <3>1 DEF Log, MayCall, BeginSubmit, data
    <3>2. CASE SinkLog(t, ev)
      BY <2>2, <3>2 DEF SinkLog, BeginSubmit, data
    <3> QED
      BY <2>1, <3>1, <3>2
  <2>4. issued' = issued + 1 /\ accepted' = accepted
    BY <1>6 DEF Issue
  <2>5. ~Holds(t) /\ pc[t] # "relock"
    BY <2>3, ThreadsAssumption DEF CoreInv, ModeInv, Holds, InEmit
  <2>6. entry[t] = None
    BY <1>4, <2>5
  <2>7. e # None
    <3>1. e \in Entry
      BY <2>2 DEF Entry
    <3> QED
      BY <3>1, ThreadsAssumption
  <2>8. IsFiniteSet(Submitting') /\ Cardinality(Submitting') = c + 1
    BY <1>1, <1>2, <2>3, <2>6, <2>7, SubmittingChanges
  <2>9. ((n + 1) % m) = (((a + d + c) + 1) % m)
    <3>1. a + d + c \in Nat
      BY <1>3
    <3> QED
      BY <1>3, <3>1, OneMore
  <2>10. (a + d + c) + 1 = a + d + (c + 1)
    BY <1>3
  <2>11. NothingVanishes'
    BY <1>2, <2>3, <2>4, <2>8, <2>9, <2>10 DEF NothingVanishes, Submitting
  <2> QED
    BY <1>1, <2>4, <2>8, <2>11 DEF LedgerInv
<1>7. ASSUME NEW t \in Threads, entry[t] # None, entry' = [entry EXCEPT ![t] = None],
             accepted' = Append(accepted, entry[t]), UNCHANGED <<issued, dropped>>
      PROVE  LedgerInv'
  <2>1. entry[t] \in Entry
    BY <1>1, <1>7
  <2>2. accepted' \in Seq(Entry) /\ Len(accepted') = a + 1
    BY <1>1, <1>2, <1>7, <2>1, AppendProperties
  <2>3. IsFiniteSet(Submitting') /\ c # 0 /\ Cardinality(Submitting') = c - 1
    BY <1>1, <1>2, <1>7, SubmittingChanges
  <2>4. (a + 1) + d + (c - 1) = a + d + c
    BY <1>3
  <2>5. NothingVanishes'
    BY <1>2, <1>3, <1>7, <2>2, <2>3, <2>4 DEF NothingVanishes, Submitting
  <2> QED
    BY <1>1, <1>7, <2>2, <2>3, <2>5 DEF LedgerInv
<1>8. ASSUME NEW t \in Threads, Accept(t) PROVE LedgerInv'
  <2>1. Holds(t)
    BY <1>8 DEF Accept, Push, Holds
  <2>2. entry[t] # None
    BY <1>4, <2>1
  <2> QED
    BY <1>7, <1>8, <2>2 DEF Accept, Push
<1>9. ASSUME NEW t \in Threads, Write(t) PROVE LedgerInv'
  <2>1. CASE t = Worker
    <3>1. Async
      BY <1>9, <2>1 DEF Write, EmitDone, CoreInv, ModeInv
    <3> QED
      BY <1>5, <1>9, <2>1, <3>1 DEF Write, EmitDone
  <2>2. CASE t # Worker
    <3>1. t \in Clients /\ pc[t] \in InEmit
      BY <1>9, <2>2, OwnerDoesNotEmit DEF Write, EmitDone, InEmit
    <3>2. ~Async /\ Holds(t)
      BY <3>1 DEF CoreInv, ModeInv, Holds
    <3>3. entry[t] # None
      BY <1>4, <3>2
    <3> QED
      BY <1>7, <1>9, <2>2, <3>2, <3>3 DEF Write, EmitDone, Line
  <2> QED
    BY <2>1, <2>2
<1>10. ASSUME NEW t \in Threads, Discard(t), UNCHANGED history PROVE LedgerInv'
  <2>1. Holds(t) /\ entry' = [entry EXCEPT ![t] = None] /\ dropped' = (dropped + 1) % CounterModulus
        /\ UNCHANGED <<issued, accepted>>
    BY <1>10 DEF Discard, Holds, history
  <2>2. entry[t] # None
    BY <1>4, <2>1
  <2>3. IsFiniteSet(Submitting') /\ c # 0 /\ Cardinality(Submitting') = c - 1
    BY <1>1, <1>2, <2>1, <2>2, SubmittingChanges
  <2>4. ((a + ((d + 1) % m) + (c - 1)) % m) = ((a + d + c) % m)
    BY <1>2, <1>3, <2>3, DropCounts
  <2>5. NothingVanishes'
    BY <1>2, <1>3, <2>1, <2>3, <2>4 DEF NothingVanishes, Submitting
  <2> QED
    BY <1>1, <2>1, <2>3, <2>5 DEF LedgerInv
<1> QED
  BY <1>5, <1>6, <1>8, <1>9, <1>10, LedgerMoves

LEMMA LedgerInit == HInit => LedgerInv
<1> SUFFICES ASSUME HInit PROVE LedgerInv
  OBVIOUS
<1>1. issued = 0 /\ accepted = <<>> /\ dropped = 0 /\ Submitting = {}
  BY DEF HInit, Init, Submitting
<1>2. Len(accepted) = 0 /\ accepted \in Seq(Entry)
  BY <1>1
<1>3. IsFiniteSet(Submitting) /\ Cardinality(Submitting) = 0
  BY <1>1, FS_EmptySet
<1>4. NothingVanishes
  BY <1>1, <1>2, <1>3 DEF NothingVanishes, Submitting
<1> QED
  BY <1>1, <1>2, <1>3, <1>4 DEF LedgerInv

(* Every statement's entry is accepted, counted in dropped(), or still being
   submitted, for any number of threads and however often the counter wraps
   (logger.hpp:437-454, docs/api.md on dropped()).                         *)
THEOREM NothingVanishesCorrect == HSpec => []NothingVanishes
<1>1. HSpec => []LedgerInv
  BY LedgerInit, LedgerStep, HistoryCore, PTL DEF HSpec
<1>2. LedgerInv => NothingVanishes
  BY DEF LedgerInv
<1> QED
  BY <1>1, <1>2, PTL

-----------------------------------------------------------------------------
(* The logger implements LogDelivery.                                       *)

\* The next line the worker writes is the first accepted one not written.
LEMMA WriteIsNext ==
  ASSUME CoreInv, OrderInv, Write(Worker), Async
  PROVE  /\ Len(written) < Len(accepted)
         /\ Line(Worker) = accepted[Len(written) + 1]
<1>1. /\ emitted \in Nat /\ emitted < Len(batch) /\ batch \in Seq(Entry)
      /\ queue \in Seq(Entry) /\ written \in Seq(Entry)
  BY DEF CoreInv, TypeOK, WorkerInv, Write, EmitDone, InEmit, OrderInv
<1>2. /\ Remaining \in Seq(Entry) /\ Len(Remaining) >= 1
      /\ Remaining[1] = batch[emitted + 1]
  BY <1>1 DEF Remaining
<1>3. /\ written \o Remaining \in Seq(Entry)
      /\ Len(written \o Remaining) = Len(written) + Len(Remaining)
      /\ (written \o Remaining)[Len(written) + 1] = Remaining[1]
  BY <1>1, <1>2, ConcatProperties
<1>4. accepted = (written \o Remaining) \o queue
  BY DEF OrderInv, InOrderExactlyOnce
<1>5. /\ Len(accepted) = Len(written) + Len(Remaining) + Len(queue)
      /\ accepted[Len(written) + 1] = (written \o Remaining)[Len(written) + 1]
  <2> HIDE DEF Remaining
  <2> QED
    BY <1>1, <1>2, <1>3, <1>4, ConcatProperties
<1> QED
  BY <1>1, <1>2, <1>3, <1>5 DEF Line

LEMMA DeliveryInit == HInit => Delivery!Init
BY ThreadsAssumption, Zenon
DEF HInit, Init, phase, InSubmit, Delivery!Init, NotFlushing, Delivery!NotFlushing

\* Only ~Logger's flush of the sinks changes the phase.
LEMMA PhaseStays ==
  ASSUME CoreInv, OneThreadInSinks, HNext, ~EndDestroy, ~FlushLock(Owner)
  PROVE  phase' = phase
<1> USE ThreadsAssumption
    DEF CoreInv, TypeOK, ModeInv, OneThreadInSinks, InSinks, Async, phase, ClientLabels,
        WorkerLabels, OwnerLabels, InSubmit, InEmit, InFlush
<1>0. pc[Owner] # "destroyed"
  BY DEF HNext
<1>1. ASSUME NEW t \in Threads, Issue(t) \/ Accept(t) \/ Write(t)
      PROVE  phase' = phase
  BY <1>0, <1>1 DEF Issue, Log, MayCall, SinkLog, BeginSubmit, Accept, Push, Write,
    EmitDone, Goto
<1>2. ASSUME NEW t \in Clients, CallFlush(t) \/ ReturnFlush(t)
      PROVE  phase' = phase
  BY <1>0, <1>2 DEF CallFlush, BeginFlush, ReturnFlush, FlushDone, Goto
<1>3. CASE BeginDestroy
  BY <1>3 DEF BeginDestroy, Destroy, Goto
<1>4. ASSUME NEW t \in Threads,
             SubmitInline(t) \/ Discard(t) \/ AwaitRoom(t) \/ NotifyNotEmpty(t)
      PROVE  phase' = phase
  BY <1>0, <1>4 DEF SubmitInline, Discard, AwaitRoom, NotifyNotEmpty, Goto, GotoWaking,
    Resume, data
<1>5. ASSUME NEW t \in Threads, EmitLock(t) \/ FlushLock(t) PROVE phase' = phase
  BY <1>0, <1>5 DEF EmitLock, FlushLock, Goto
<1>6. ASSUME NEW t \in Threads, SinkBlocks(t) \/ SpuriousWakeup(t) PROVE phase' = phase
  BY <1>0, <1>6 DEF SinkBlocks, SpuriousWakeup, LoopHead, Goto
<1>7. ASSUME NEW t \in Clients, FlushWait(t) PROVE phase' = phase
  BY <1>0, <1>7 DEF FlushWait, Goto
<1>8. CASE AwaitEntries \/ Exit \/ TakeBatch \/ NotifyNotFull \/ Settle
  BY <1>0, <1>8 DEF AwaitEntries, Exit, TakeBatch, NotifyNotFull, Settle, Goto,
    GotoWaking
<1>9. CASE StopWorker \/ StopProducers \/ Join
  BY <1>9 DEF StopWorker, StopProducers, Join, Goto, GotoWaking
<1> QED
  BY <1>0, <1>1, <1>2, <1>3, <1>4, <1>5, <1>6, <1>7, <1>8, <1>9 DEF HNext, Internal, Flushers

\* Every step of the logger is one of LogDelivery, or one it does not see.
LEMMA DeliveryStep ==
  /\ CoreInv /\ OneThreadInSinks /\ OrderInv /\ FlushInv /\ FlushContract /\ ShutdownInv
  /\ [HNext]_hvars
  => [Delivery!Next]_Delivery!vars
<1> SUFFICES ASSUME CoreInv, OneThreadInSinks, OrderInv, FlushInv, FlushContract,
                    ShutdownInv, HNext
             PROVE  Delivery!Next \/ UNCHANGED Delivery!vars
  BY DEF hvars, vars, data, history, phase, Delivery!vars
<1> DEFINE stays == phase # "closed" /\ phase' = phase
<1>0. EndDestroy \/ FlushLock(Owner) \/ stays
  BY PhaseStays DEF HNext, phase
<1>1. ASSUME NEW t \in Threads, Issue(t), stays PROVE UNCHANGED Delivery!vars
  BY <1>1 DEF Issue, Log, SinkLog, BeginSubmit, Delivery!vars
<1>2. ASSUME NEW t \in Threads, Accept(t), stays PROVE Delivery!Next
  <2>1. entry[t] \in Entry
    BY <1>2 DEF CoreInv, TypeOK, Holds, Accept, Push
  <2>2. Delivery!Accept(entry[t])
    BY <1>2 DEF Accept, Push, Delivery!Accept
  <2> QED
    BY <1>2, <2>1, <2>2 DEF Delivery!Next
<1>3. ASSUME NEW t \in Threads, Write(t), stays PROVE Delivery!Next
  <2>1. CASE Async
    <3>1. t = Worker
      BY <1>3, <2>1, OwnerDoesNotEmit DEF Write, EmitDone, CoreInv, ModeInv, InEmit
    <3>2. Delivery!Write
      BY <1>3, <2>1, <3>1, WriteIsNext DEF Write, EmitDone, Delivery!Write
    <3> QED
      BY <1>3, <3>2 DEF Delivery!Next
  <2>2. CASE ~Async
    <3>1. t # Worker /\ entry[t] \in Entry
      BY <1>3, <2>2, OwnerDoesNotEmit
      DEF Write, EmitDone, CoreInv, TypeOK, ModeInv, Holds, InEmit
    <3>2. Delivery!Deliver(entry[t])
      BY <1>3, <2>2, <3>1, DrainedIsWritten
      DEF Write, EmitDone, Line, Delivery!Deliver
    <3> QED
      BY <1>3, <3>1, <3>2 DEF Delivery!Next
  <2> QED
    BY <2>1, <2>2
<1>4. ASSUME NEW t \in Clients, CallFlush(t), stays PROVE Delivery!Next
  <2>1. due[t] = NotFlushing
    BY <1>4 DEF FlushInv, OneThreadInSinks, InSinks, InFlush, InSubmit, CallFlush,
      BeginFlush, MayCall
  <2>2. Delivery!BeginFlush(t)
    BY <1>4, <2>1 DEF CallFlush, BeginFlush, data, NotFlushing, Delivery!NotFlushing,
      Delivery!BeginFlush
  <2> QED
    BY <1>4, <2>2 DEF Delivery!Next
<1>5. ASSUME NEW t \in Clients, ReturnFlush(t), stays PROVE Delivery!Next
  <2>1. due[t] # NotFlushing /\ due[t] <= Len(written)
    BY <1>5 DEF FlushInv, FlushContract, InFlush, ReturnFlush, FlushDone
  <2>2. Delivery!EndFlush(t)
    BY <1>5, <2>1 DEF ReturnFlush, FlushDone, NotFlushing,
      Delivery!NotFlushing, Delivery!EndFlush
  <2> QED
    BY <1>5, <2>2 DEF Delivery!Next
<1>6. ASSUME BeginDestroy, stays PROVE UNCHANGED Delivery!vars
  BY <1>6 DEF BeginDestroy, Destroy, Delivery!vars
<1>7. CASE EndDestroy
  <2>1. pc[Owner] = "flushing" /\ pc'[Owner] = "destroyed"
    BY <1>7 DEF EndDestroy, FlushDone, Goto, CoreInv, TypeOK
  <2>2. phase = "closing" /\ phase' = "closed"
    BY <2>1 DEF phase, InSubmit
  <2>3. Delivery!Close
    BY <1>7, <2>2 DEF EndDestroy, FlushDone, Delivery!Close
  <2> QED
    BY <2>2, <2>3 DEF Delivery!Next
<1>8. ASSUME FlushLock(Owner), UNCHANGED history PROVE Delivery!Next
  <2>1. pc[Owner] = "flush_sinks" /\ pc'[Owner] = "flushing"
    BY <1>8 DEF FlushLock, Goto, CoreInv, TypeOK
  <2>2. phase = "open" /\ phase' = "closing"
    BY <2>1 DEF phase, InSubmit
  <2>3. ~LateCalls => written = accepted
    BY <2>1, FlushBeginsWritten DEF ShutdownInv
  <2>4. Delivery!BeginClose
    BY <1>8, <2>2, <2>3 DEF FlushLock, history, Delivery!BeginClose
  <2> QED
    BY <2>2, <2>4 DEF Delivery!Next
<1>9. ASSUME NEW t \in Threads, Discard(t), UNCHANGED history, stays
      PROVE  Delivery!Next
  <2>1. Delivery!Drop
    BY <1>9 DEF Discard, history, Delivery!Drop
  <2> QED
    BY <1>9, <2>1 DEF Delivery!Next
<1>10. ASSUME Internal, ~\E t \in Threads : Discard(t), stays
      PROVE  UNCHANGED Delivery!vars
  BY <1>10 DEF Internal, history, SubmitInline, AwaitRoom, NotifyNotEmpty,
    EmitLock, FlushLock, SinkBlocks, SpuriousWakeup, FlushWait, AwaitEntries, Exit, TakeBatch,
    NotifyNotFull, Settle, StopWorker, StopProducers, Join, data, Delivery!vars
<1>11. Internal => UNCHANGED history
  BY DEF Internal
<1>12. FlushLock(Owner) => UNCHANGED history
  BY <1>11, ThreadsAssumption
  DEF HNext, FlushLock, Issue, Log, SinkLog, BeginSubmit, Accept, Push, Write, EmitDone,
    CallFlush, BeginFlush, ReturnFlush, FlushDone, BeginDestroy, Destroy, EndDestroy, data
<1> QED
  BY <1>0, <1>1, <1>2, <1>3, <1>4, <1>5, <1>6, <1>7, <1>8, <1>9, <1>10, <1>11, <1>12
  DEF HNext

(* The logger, with its threads, locks, queue, batches and shutdown, keeps
   the promises of LogDelivery: accepted entries are written once and in
   order, flush() and ~Logger return when they may.                        *)
THEOREM ImplementsLogDelivery == HSpec => DeliverySpec
BY DeliveryInit, DeliveryStep, HistoryCore, OrderCorrect, FlushCorrect,
   FlushContractCorrect, ShutdownCorrect, PTL
DEF HSpec, DeliverySpec, Delivery!Spec
=============================================================================
