---------------------------- MODULE AsyncLogger ----------------------------
(***************************************************************************)
(* The machinery of c_log::Logger (include/clogpp/logger.hpp) between the  *)
(* end of a log statement and the sinks: submit(), the worker loop         *)
(* run_async(), emit_entry(), flush() and the destructor, for both modes   *)
(* and both overflow policies.                                             *)
(*                                                                         *)
(* A critical section under qmutex_ touches only what that mutex guards    *)
(* (queue_, stop_, pending_), so it is one action; a notify issued after   *)
(* the unlock is an action of its own, and so is every wait.  sink_mutex_  *)
(* is held across calls into user code and is therefore a variable.  A     *)
(* thread waiting on a condition variable has the program counter          *)
(* "wait_<name>"; waking it moves it back to the head of its wait loop,    *)
(* where it takes the mutex and tests its condition again.                 *)
(***************************************************************************)
EXTENDS Integers, Sequences

CONSTANTS
  Clients,         \* the threads that call the logger
  Worker,          \* the thread Logger starts in async mode
  Owner,           \* the thread that runs ~Logger
  None,            \* no thread, no entry
  Events,          \* the event names of log statements
  Configurations,  \* the Options a program may construct the logger with
  CounterModulus,  \* dropped_ counts modulo this, 2^64 in the code
  LateCalls,       \* may clients call the logger while ~Logger runs?
  SinkLogs         \* does user code that the logger calls under sink_mutex_,
                   \* a sink or the error handler, call the logger?

Threads == Clients \cup {Worker, Owner}
Flushers == Clients \cup {Owner}

Entry == [from : Threads, event : Events]

ASSUME ThreadsAssumption ==
  /\ Worker \notin Clients
  /\ Owner \notin Clients
  /\ Worker # Owner
  /\ None \notin Threads \cup Entry

Options == [mode : {"Async", "Sync"}, overflow : {"Block", "DropNewest"},
            capacity : Nat, batch_size : Nat]

ASSUME OptionsAssumption ==
  /\ Configurations \subseteq Options
  /\ CounterModulus \in Nat \ {0}
  /\ LateCalls \in BOOLEAN
  /\ SinkLogs \in BOOLEAN

VARIABLES
  opts,        \* what the constructor fixes: mode_, overflow_, batch_size_
               \* and the size of queue_
  pc,          \* where each thread is
  entry,       \* the Entry a thread is submitting, None outside submit()
  queue,       \* queue_, oldest first
  pending,     \* pending_
  stop,        \* stop_
  dropped,     \* dropped_
  batch,       \* run_async's local batch
  emitted,     \* how many entries of batch emit_entry has finished
  sink_mutex   \* the thread holding sink_mutex_ across calls to user code

\* Most steps only move a thread.
data == <<opts, entry, queue, pending, stop, dropped, batch, emitted, sink_mutex>>
vars == <<pc, data>>

-----------------------------------------------------------------------------
(* Options as the constructor normalises them.                             *)

\* (A mistake: the ring is built with what was asked, even if that is none.)
RingSizeAsAsked == opts.capacity + 1

\* The ring reserves one slot, so it is built with one slot more than asked.
RingSize == IF opts.capacity < 2 THEN 2 ELSE opts.capacity + 1
Slots == RingSize - 1
BatchLimit == IF opts.batch_size = 0 THEN 1 ELSE opts.batch_size
Async == opts.mode = "Async"

Full == Len(queue) = Slots

-----------------------------------------------------------------------------
(* Control.                                                                *)

Goto(t, label) == pc' = [pc EXCEPT ![t] = label]

\* t goes to label and every thread waiting at cv to head, its loop's head.
GotoWaking(t, label, cv, head) ==
  pc' = [s \in Threads |-> IF s = t THEN label
                           ELSE IF pc[s] = cv THEN head ELSE pc[s]]

\* Where a logging thread continues after submit(): in the sinks' log() or
\* flush() if it logged from there, and else its statement is over.
Resume(t) == IF t = Worker THEN "sink" ELSE IF sink_mutex = t THEN "flushing" ELSE "idle"

\* A client may begin a call.
MayCall(t) == /\ t \in Clients
              /\ pc[t] = "idle"
              /\ LateCalls \/ pc[Owner] = "idle"

Init ==
  /\ opts \in Configurations
  /\ pc = [t \in Threads |-> IF t # Worker THEN "idle"
                             ELSE IF Async THEN "take" ELSE "exited"]
  /\ entry = [t \in Threads |-> None]
  /\ queue = <<>>
  /\ pending = 0
  /\ stop = FALSE
  /\ dropped = 0
  /\ batch = <<>>
  /\ emitted = 0
  /\ sink_mutex = None

-----------------------------------------------------------------------------
(* Mistakes the code could have had, each in place of the action or         *)
(* operator it is named after.  No specification uses them; they show that *)
(* the properties below notice.                                            *)

\* An entry given up is not counted.
DiscardUncounted(t) ==
  /\ Async /\ pc[t] = "submit" /\ Full
  /\ stop \/ opts.overflow = "DropNewest"
  /\ entry' = [entry EXCEPT ![t] = None]
  /\ Goto(t, Resume(t))
  /\ UNCHANGED <<opts, queue, pending, stop, dropped, batch, emitted, sink_mutex>>

\* The queue is used as a stack.
PushInFront(t) ==
  /\ Async /\ pc[t] = "submit" /\ ~Full
  /\ queue' = <<entry[t]>> \o queue
  /\ pending' = pending + 1
  /\ entry' = [entry EXCEPT ![t] = None]
  /\ Goto(t, "notify_not_empty")
  /\ UNCHANGED <<opts, stop, dropped, batch, emitted, sink_mutex>>

\* The notify is only issued for the first entry of a queue, as it now stands.
NotifyFirstOnly(t) ==
  /\ pc[t] = "notify_not_empty"
  /\ IF Len(queue) = 1
       THEN GotoWaking(t, Resume(t), "wait_not_empty", "take")
       ELSE Goto(t, Resume(t))
  /\ UNCHANGED data

\* The sinks are called without sink_mutex_ being free.
EmitUnlocked(t) ==
  /\ pc[t] = "emit"
  /\ sink_mutex' = t
  /\ Goto(t, "sink")
  /\ UNCHANGED <<opts, entry, queue, pending, stop, dropped, batch, emitted>>

\* The worker leaves on stop_ without draining the queue.
ExitAtOnce ==
  /\ pc[Worker] = "take"
  /\ stop
  /\ Goto(Worker, "exited")
  /\ UNCHANGED data

\* Producers are not told of the room a batch made.
NotifyNobody ==
  /\ pc[Worker] = "notify_not_full"
  /\ Goto(Worker, "emit")
  /\ UNCHANGED data

\* pending_ counts a batch as one entry.
SettleByOne ==
  /\ pc[Worker] = "settle"
  /\ pending' = pending - 1
  /\ IF pending' = 0
       THEN GotoWaking(Worker, "take", "wait_drained", "flush")
       ELSE Goto(Worker, "take")
  /\ batch' = <<>>
  /\ emitted' = 0
  /\ UNCHANGED <<opts, entry, queue, stop, dropped, sink_mutex>>

\* flush() is not woken.
SettleSilently ==
  /\ pc[Worker] = "settle"
  /\ pending' = pending - Len(batch)
  /\ Goto(Worker, "take")
  /\ batch' = <<>>
  /\ emitted' = 0
  /\ UNCHANGED <<opts, entry, queue, stop, dropped, sink_mutex>>

\* flush() waits for an empty queue and forgets the batch.
FlushWaitForQueue(t) ==
  /\ pc[t] = "flush"
  /\ Goto(t, IF queue = <<>> THEN "flush_sinks" ELSE "wait_drained")
  /\ UNCHANGED data

\* The worker is not told of stop_.
StopNobody ==
  /\ pc[Owner] = "notify_worker"
  /\ Goto(Owner, "notify_producers")
  /\ UNCHANGED data

\* flush() waits once, without testing its condition again.
LoopHeadOnce(label) ==
  CASE label = "wait_not_empty" -> "take"
    [] label = "wait_not_full"  -> "submit"
    [] label = "wait_drained"   -> "flush_sinks"

-----------------------------------------------------------------------------
(* submit(), reached from ~LogRecord of an active record.                  *)

BeginSubmit(t, ev) ==
  /\ entry' = [entry EXCEPT ![t] = [from |-> t, event |-> ev]]
  /\ Goto(t, "submit")
  /\ UNCHANGED <<opts, queue, pending, stop, dropped, batch, emitted, sink_mutex>>

\* A log statement of a client ends.
Log(t, ev) == MayCall(t) /\ BeginSubmit(t, ev)

\* User code called under sink_mutex_ logs through the logger that calls it.
SinkLog(t, ev) ==
  /\ SinkLogs
  /\ Async
  /\ pc[t] \in {"sink", "flushing"}
  /\ BeginSubmit(t, ev)

\* It comes to lock sink_mutex_ again, by logging in sync mode or by flush(),
\* or waits in flush() for the batch it is part of: it never returns.
SinkBlocks(t) ==
  /\ SinkLogs
  /\ pc[t] \in {"sink", "flushing"}
  /\ Goto(t, "relock")
  /\ UNCHANGED data

\* Sync mode: emit_entry on the calling thread.
SubmitInline(t) ==
  /\ ~Async
  /\ pc[t] = "submit"
  /\ Goto(t, "emit")
  /\ UNCHANGED data

\* queue_.push succeeds; the notify comes after the unlock.
Push(t) ==
  /\ Async
  /\ pc[t] = "submit"
  /\ ~Full
  /\ queue' = Append(queue, entry[t])
  /\ pending' = pending + 1
  /\ entry' = [entry EXCEPT ![t] = None]
  /\ Goto(t, "notify_not_empty")
  /\ UNCHANGED <<opts, stop, dropped, batch, emitted, sink_mutex>>

\* The queue is full and submit() gives the entry up.
Discard(t) ==
  /\ Async
  /\ pc[t] = "submit"
  /\ Full
  /\ stop \/ opts.overflow = "DropNewest"
  /\ dropped' = (dropped + 1) % CounterModulus
  /\ entry' = [entry EXCEPT ![t] = None]
  /\ Goto(t, Resume(t))
  /\ UNCHANGED <<opts, queue, pending, stop, batch, emitted, sink_mutex>>

\* The queue is full and submit() waits for the worker.
AwaitRoom(t) ==
  /\ Async
  /\ pc[t] = "submit"
  /\ Full
  /\ ~stop /\ opts.overflow = "Block"
  /\ Goto(t, "wait_not_full")
  /\ UNCHANGED data

\* not_empty_.notify_one(): only the worker ever waits on it.
NotifyNotEmpty(t) ==
  /\ pc[t] = "notify_not_empty"
  /\ GotoWaking(t, Resume(t), "wait_not_empty", "take")
  /\ UNCHANGED data

-----------------------------------------------------------------------------
(* emit_entry(), on the worker (async) or the calling client (sync).       *)

\* Lock sink_mutex_ and call into the sinks.
EmitLock(t) ==
  /\ pc[t] = "emit"
  /\ sink_mutex = None
  /\ sink_mutex' = t
  /\ Goto(t, "sink")
  /\ UNCHANGED <<opts, entry, queue, pending, stop, dropped, batch, emitted>>

\* The sinks have the line; unlock.  The worker goes on with its batch.
EmitDone(t) ==
  /\ pc[t] = "sink"
  /\ sink_mutex' = None
  /\ IF t = Worker
       THEN /\ emitted' = emitted + 1
            /\ Goto(t, IF emitted' < Len(batch) THEN "emit" ELSE "settle")
            /\ UNCHANGED entry
       ELSE /\ entry' = [entry EXCEPT ![t] = None]
            /\ Goto(t, "idle")
            /\ UNCHANGED emitted
  /\ UNCHANGED <<opts, queue, pending, stop, dropped, batch>>

-----------------------------------------------------------------------------
(* run_async().                                                            *)

\* The wait's condition is false.
AwaitEntries ==
  /\ pc[Worker] = "take"
  /\ queue = <<>> /\ ~stop
  /\ Goto(Worker, "wait_not_empty")
  /\ UNCHANGED data

\* Stopped and drained: leave the loop.
Exit ==
  /\ pc[Worker] = "take"
  /\ queue = <<>> /\ stop
  /\ Goto(Worker, "exited")
  /\ UNCHANGED data

\* Pop until the batch is full or the queue is empty.
TakeCount == IF Len(queue) < BatchLimit THEN Len(queue) ELSE BatchLimit

TakeBatch ==
  /\ pc[Worker] = "take"
  /\ queue # <<>>
  /\ batch' = SubSeq(queue, 1, TakeCount)
  /\ queue' = SubSeq(queue, TakeCount + 1, Len(queue))
  /\ Goto(Worker, "notify_not_full")
  /\ UNCHANGED <<opts, entry, pending, stop, dropped, emitted, sink_mutex>>

NotifyNotFull ==
  /\ pc[Worker] = "notify_not_full"
  /\ GotoWaking(Worker, "emit", "wait_not_full", "submit")
  /\ UNCHANGED data

\* The batch is written: account for it and wake flush() at zero.
Settle ==
  /\ pc[Worker] = "settle"
  /\ pending' = pending - Len(batch)
  /\ IF pending' = 0
       THEN GotoWaking(Worker, "take", "wait_drained", "flush")
       ELSE Goto(Worker, "take")
  /\ batch' = <<>>
  /\ emitted' = 0
  /\ UNCHANGED <<opts, entry, queue, stop, dropped, sink_mutex>>

-----------------------------------------------------------------------------
(* flush().                                                                *)

BeginFlush(t) ==
  /\ MayCall(t)
  /\ Goto(t, IF Async THEN "flush" ELSE "flush_sinks")
  /\ UNCHANGED data

\* drained_.wait: pass, or wait for the worker.
FlushWait(t) ==
  /\ pc[t] = "flush"
  /\ Goto(t, IF pending = 0 THEN "flush_sinks" ELSE "wait_drained")
  /\ UNCHANGED data

\* flush() and ~Logger lock sink_mutex_ and call into the sinks.
FlushLock(t) ==
  /\ pc[t] = "flush_sinks"
  /\ sink_mutex = None
  /\ sink_mutex' = t
  /\ Goto(t, "flushing")
  /\ UNCHANGED <<opts, entry, queue, pending, stop, dropped, batch, emitted>>

\* Every sink is flushed; unlock and return.
FlushDone(t) ==
  /\ pc[t] = "flushing"
  /\ sink_mutex' = None
  /\ Goto(t, IF t = Owner THEN "destroyed" ELSE "idle")
  /\ UNCHANGED <<opts, entry, queue, pending, stop, dropped, batch, emitted>>

-----------------------------------------------------------------------------
(* ~Logger().  Unless LateCalls, it starts once every call has returned    *)
(* and none starts after it ("Keep the Logger alive for as long as you log *)
(* through it").                                                           *)

Destroy ==
  /\ pc[Owner] = "idle"
  /\ LateCalls \/ \A t \in Clients : pc[t] = "idle"
  /\ stop' = Async
  /\ Goto(Owner, IF Async THEN "notify_worker" ELSE "flush_sinks")
  /\ UNCHANGED <<opts, entry, queue, pending, dropped, batch, emitted, sink_mutex>>

StopWorker ==
  /\ pc[Owner] = "notify_worker"
  /\ GotoWaking(Owner, "notify_producers", "wait_not_empty", "take")
  /\ UNCHANGED data

StopProducers ==
  /\ pc[Owner] = "notify_producers"
  /\ GotoWaking(Owner, "join", "wait_not_full", "submit")
  /\ UNCHANGED data

Join ==
  /\ pc[Owner] = "join"
  /\ pc[Worker] = "exited"
  /\ Goto(Owner, "flush_sinks")
  /\ UNCHANGED data

-----------------------------------------------------------------------------
(* The C++ condition variable may wake a waiter for no reason.             *)

LoopHead(label) ==
  CASE label = "wait_not_empty" -> "take"
    [] label = "wait_not_full"  -> "submit"
    [] label = "wait_drained"   -> "flush"

SpuriousWakeup(t) ==
  /\ pc[t] \in {"wait_not_empty", "wait_not_full", "wait_drained"}
  /\ Goto(t, LoopHead(pc[t]))
  /\ UNCHANGED data

-----------------------------------------------------------------------------
Submit(t) == SubmitInline(t) \/ Push(t) \/ Discard(t) \/ AwaitRoom(t)

\* The steps a thread takes by itself once it is inside a call.
LoggerStep(t) == Submit(t) \/ NotifyNotEmpty(t) \/ EmitLock(t) \/ EmitDone(t)
FlusherStep(t) == LoggerStep(t) \/ FlushLock(t) \/ FlushDone(t)
ClientStep(t) == FlusherStep(t) \/ FlushWait(t)
WorkerStep == LoggerStep(Worker) \/ AwaitEntries \/ Exit \/ TakeBatch
                \/ NotifyNotFull \/ Settle
OwnerStep == FlusherStep(Owner) \/ StopWorker \/ StopProducers \/ Join

\* Steps nobody has to take.
Call(t) == BeginFlush(t) \/ \E ev \in Events : Log(t, ev)
CallFromSink(t) == SinkBlocks(t) \/ \E ev \in Events : SinkLog(t, ev)

\* After ~Logger there is no logger left to take a step of.
Next ==
  /\ pc[Owner] # "destroyed"
  /\ \/ \E t \in Clients : Call(t) \/ ClientStep(t)
     \/ WorkerStep
     \/ Destroy
     \/ OwnerStep
     \/ \E t \in Threads : CallFromSink(t) \/ SpuriousWakeup(t)

Spec == Init /\ [][Next]_vars

\* The scheduler runs every thread that can run.
Fairness ==
  /\ \A t \in Clients : WF_vars(ClientStep(t) /\ pc[Owner] # "destroyed")
  /\ WF_vars(WorkerStep /\ pc[Owner] # "destroyed")
  /\ WF_vars(OwnerStep)

FairSpec == Spec /\ Fairness

\* A mutex that is released again and again is in the end acquired by each of
\* its waiters: more than C++ guarantees, and more than the properties need.
MutexFairness ==
  \A t \in Threads : /\ SF_vars(EmitLock(t) /\ pc[Owner] # "destroyed")
                     /\ SF_vars(FlushLock(t) /\ pc[Owner] # "destroyed")

FairMutexSpec == FairSpec /\ MutexFairness

-----------------------------------------------------------------------------
(* Safety.                                                                 *)

InSubmit == {"submit", "wait_not_full", "notify_not_empty"}
InEmit == {"emit", "sink"}
InFlush == {"flush", "wait_drained", "flush_sinks", "flushing"}

ClientLabels == {"idle", "relock"} \cup InSubmit \cup InEmit \cup InFlush
WorkerLabels == {"take", "wait_not_empty", "notify_not_full", "settle", "relock",
                 "exited"} \cup InSubmit \cup InEmit
OwnerLabels == {"idle", "notify_worker", "notify_producers", "join",
                "flush_sinks", "flushing", "relock", "destroyed"} \cup InSubmit

\* The thread has an entry that it has neither handed over nor given up.
Holds(t) == \/ pc[t] \in {"submit", "wait_not_full"}
            \/ t \in Clients /\ pc[t] \in InEmit

(* Every variable has the type of the member it stands for, and a thread has
   an Entry while it is submitting it, or stuck in a sink that was given it. *)
TypeOK ==
  /\ opts \in Options
  /\ pc \in [Threads -> ClientLabels \cup WorkerLabels \cup OwnerLabels]
  /\ \A t \in Clients : pc[t] \in ClientLabels
  /\ pc[Worker] \in WorkerLabels
  /\ pc[Owner] \in OwnerLabels
  /\ entry \in [Threads -> Entry \cup {None}]
  /\ \A t \in Threads : /\ Holds(t) => entry[t] # None
                        /\ entry[t] # None => Holds(t) \/ pc[t] = "relock"
  /\ queue \in Seq(Entry)
  /\ pending \in Nat
  /\ stop \in BOOLEAN
  /\ dropped \in 0..CounterModulus - 1
  /\ batch \in Seq(Entry)
  /\ emitted \in Nat
  /\ sink_mutex \in Threads \cup {None}

(* pending_ is exactly the accepted entries that are not written yet: those
   in the queue and those of the batch in the worker's hands.  An error of
   one makes flush() return early or never, and an error the other way wraps
   the unsigned counter (logger.hpp:451, 474).                             *)
PendingExact == pending = Len(queue) + Len(batch)

(* The logger never holds more than the queue's capacity and one batch, the
   bound tests/overflow_policy.cpp:46 counts on; the queue is never overfull
   although producers push in an order nobody controls (logger.hpp:444).   *)
BacklogBounded == Len(queue) <= Slots /\ pending <= Slots + BatchLimit

(* No wakeup is lost although every notify but drained_'s is issued after
   the unlock: a thread that waits does so for a condition that is still
   false, or the thread that made it true has yet to notify.  Holds for the
   worker (logger.hpp:453, 462), for producers (449, 470), for flush() (384,
   475) and for everyone the destructor has to wake (226-227).             *)
NoLostWakeup ==
  /\ pc[Worker] = "wait_not_empty" =>
       /\ queue = <<>> \/ \E t \in Clients : pc[t] = "notify_not_empty"
       /\ stop => pc[Owner] = "notify_worker"
  /\ \A t \in Threads : pc[t] = "wait_not_full" =>
       /\ Full \/ pc[Worker] = "notify_not_full"
       /\ stop => pc[Owner] \in {"notify_worker", "notify_producers"}
  /\ \A t \in Clients : pc[t] = "wait_drained" => pending # 0

\* The thread is between the lock and the unlock of sink_mutex_; what the
\* worker and ~Logger submit, they submit from there.
InSinks(t) == \/ pc[t] \in {"sink", "flushing", "relock"}
              \/ t \in {Worker, Owner} /\ pc[t] \in InSubmit

(* Two threads are never inside the sinks at once, be it in log() or in
   flush(), and sink_mutex_ names the one that is, also while that one is in a
   submit() of its own or stuck there (logger.hpp:230, 386, 485).          *)
OneThreadInSinks ==
  \A t \in Threads : /\ InSinks(t) => sink_mutex = t
                     /\ sink_mutex = t => InSinks(t) \/ (Async /\ pc[t] \in InSubmit)

\* t is in a call, or is the worker, and somebody else has to act first.
Waits(t) ==
  \/ pc[t] \in {"wait_not_empty", "wait_not_full", "wait_drained", "relock"}
  \/ pc[t] \in {"emit", "flush_sinks"} /\ sink_mutex # None
  \/ t = Owner /\ pc[t] = "join" /\ pc[Worker] # "exited"

EveryoneWaits ==
  /\ \A t \in Threads : Waits(t) \/ pc[t] \in {"idle", "exited"}
  /\ \E t \in Flushers : Waits(t)

(* If calls of the logger wait and nobody is left to end their waiting, then
   user code called under sink_mutex_ is to blame: the thread in the sinks, be
   it the worker, a client in flush() or ~Logger, waits there for room in the
   queue or has come to lock the mutex again.  Neither full queues, flushes,
   two mutexes, nor the destructor and the join can deadlock otherwise
   (logger.hpp:226-231, 384-387, 449, 462, 485).                           *)
OnlyASinkDeadlocks ==
  EveryoneWaits =>
    \E t \in Threads : sink_mutex = t /\ pc[t] \in {"wait_not_full", "relock"}

-----------------------------------------------------------------------------
(* Liveness, under Fairness.                                               *)

\* No client flushes for ever: one that does may take sink_mutex_, which need
\* not be fair, whenever another thread could have had it.
FlushesEnd == \A t \in Clients : <>[](pc[t] # "flushing")

(* A backlog is always worked off batch by batch, however many producers keep
   the worker company and flushers wait for it (logger.hpp:459-478).       *)
BacklogDrains == FlushesEnd => ((pending > 0) ~> (pc[Worker] = "settle"))

(* A producer blocked on a full queue is woken, be the queue of a single slot
   (logger.hpp:449, 470).                                                  *)
BlockedProducerWakes ==
  FlushesEnd =>
    \A t \in Clients : (pc[t] = "wait_not_full") ~> (pc[t] # "wait_not_full")

(* flush() returns if the other threads stop submitting entries and flushing
   meanwhile (logger.hpp:381-388).                                         *)
FlushReturnsOnceQuiet ==
  \A t \in Clients :
    (\A c \in Clients \ {t} : <>[](pc[c] \notin InSubmit \cup {"flushing"})) =>
      ((pc[t] \in InFlush) ~> (pc[t] = "idle"))

(* flush() returns (docs/api.md: "wait for every submitted entry, then flush
   sinks").                                                                *)
FlushReturns == \A t \in Clients : (pc[t] \in InFlush) ~> (pc[t] = "idle")

(* ~Logger returns: the worker hears of stop_, drains and exits
   (logger.hpp:220-232).                                                   *)
DestructorReturns == (pc[Owner] # "idle") ~> (pc[Owner] = "destroyed")
=============================================================================
