------------------------- MODULE AsyncLoggerHistory -------------------------
(***************************************************************************)
(* AsyncLogger with history variables that observe what becomes of every   *)
(* entry: what the logger accepted, what the sinks were given and flushed, *)
(* and what each flush() has to wait for.  They change no step of it.      *)
(***************************************************************************)
EXTENDS AsyncLogger, FiniteSets

CONSTANT MaxStatements  \* log statements in a behaviour

ASSUME StatementsAssumption == MaxStatements \in Nat

VARIABLES
  accepted,  \* the entries queue_.push took (sync: that were written), in order
  written,   \* the entries emit_entry has handed to the sinks, in order
  durable,   \* how many of them the sinks were flushed after
  due,       \* what was accepted when the flush() a client is in was called
  issued,    \* how many log statements ended
  late       \* which threads ended a statement, or were in a call, while
             \* ~Logger was running

history == <<accepted, written, durable, due, issued, late>>
hvars == <<vars, history>>

NotFlushing == -1

HInit ==
  /\ Init
  /\ accepted = <<>>
  /\ written = <<>>
  /\ durable = 0
  /\ due = [t \in Clients |-> NotFlushing]
  /\ issued = 0
  /\ late = [t \in Threads |-> FALSE]

Destroying == pc[Owner] # "idle"

\* The entry emit_entry is working on in thread t.
Line(t) == IF t = Worker THEN batch[emitted + 1] ELSE entry[t]

-----------------------------------------------------------------------------
(* The steps with something to observe.                                    *)

Issue(t) ==
  /\ issued < MaxStatements
  /\ \E ev \in Events : Log(t, ev) \/ SinkLog(t, ev)
  /\ issued' = issued + 1
  /\ late' = [late EXCEPT ![t] = @ \/ Destroying]
  /\ UNCHANGED <<accepted, written, durable, due>>

Accept(t) ==
  /\ Push(t)
  /\ accepted' = Append(accepted, entry[t])
  /\ UNCHANGED <<written, durable, due, issued, late>>

\* Sync mode accepts and writes an entry at once.
Write(t) ==
  /\ EmitDone(t)
  /\ written' = Append(written, Line(t))
  /\ accepted' = IF Async THEN accepted ELSE Append(accepted, Line(t))
  /\ UNCHANGED <<durable, due, issued, late>>

CallFlush(t) ==
  /\ BeginFlush(t)
  /\ due' = [due EXCEPT ![t] = Len(accepted)]
  /\ UNCHANGED <<accepted, written, durable, issued, late>>

\* sink_mutex_ was held since the first sink was flushed: written is as then.
ReturnFlush(t) ==
  /\ FlushDone(t)
  /\ durable' = Len(written)
  /\ due' = [due EXCEPT ![t] = NotFlushing]
  /\ UNCHANGED <<accepted, written, issued, late>>

BeginDestroy ==
  /\ Destroy
  /\ late' = [t \in Threads |-> t \in Clients /\ pc[t] # "idle"]
  /\ UNCHANGED <<accepted, written, durable, due, issued>>

EndDestroy ==
  /\ FlushDone(Owner)
  /\ durable' = Len(written)
  /\ UNCHANGED <<accepted, written, due, issued, late>>

\* The steps that say nothing of what an entry's fate is, a discard but for
\* the counter the code itself keeps.
Internal ==
  /\ \/ \E t \in Threads : \/ SubmitInline(t) \/ Discard(t) \/ AwaitRoom(t)
                           \/ NotifyNotEmpty(t) \/ EmitLock(t) \/ SinkBlocks(t)
                           \/ SpuriousWakeup(t)
     \/ \E t \in Flushers : FlushLock(t)
     \/ \E t \in Clients : FlushWait(t)
     \/ AwaitEntries \/ Exit \/ TakeBatch \/ NotifyNotFull \/ Settle
     \/ StopWorker \/ StopProducers \/ Join
  /\ UNCHANGED history

HNext ==
  /\ pc[Owner] # "destroyed"
  /\ \/ \E t \in Threads : Issue(t) \/ Accept(t) \/ Write(t)
     \/ \E t \in Clients : CallFlush(t) \/ ReturnFlush(t)
     \/ BeginDestroy
     \/ EndDestroy
     \/ Internal

HSpec == HInit /\ [][HNext]_hvars

-----------------------------------------------------------------------------
(* The accepted entries the worker has in its hands, the one in the sinks   *)
(* first.                                                                  *)
Remaining == SubSeq(batch, emitted + 1, Len(batch))

(* Every accepted entry is written exactly once and in the order of
   acceptance, whatever the interleaving of producers, batches, re-entrant
   sinks and shutdown: at every moment it is in the sinks, in the rest of the
   worker's batch or in the queue (logger.hpp:444, 464-471).                *)
InOrderExactlyOnce ==
  accepted = IF Async THEN written \o Remaining \o queue ELSE written

(* No statement vanishes: its entry is accepted, counted in dropped(), or
   still being submitted (logger.hpp:437-454, docs/api.md on dropped()).    *)
NothingVanishes ==
  issued % CounterModulus =
    (Len(accepted) + dropped + Cardinality({t \in Threads : entry[t] # None}))
      % CounterModulus

(* When flush() comes to flushing the sinks, everything accepted before it
   was called is written, no matter what was accepted since and how often
   the wait was cut short by spurious wakeups (logger.hpp:379-388).         *)
FlushContract ==
  \A t \in Clients : pc[t] \in {"flush_sinks", "flushing"} => due[t] <= Len(written)

NoLateClient == \A t \in Clients : ~late[t]

(* If no client was in a call of the logger when or after ~Logger started, it
   leaves everything flushed that was accepted before its final flush, also
   what sinks log while the queue is drained; what is lost is what user code
   logs in the final flush, after the worker is gone, and nothing else
   (docs/design.md:39-41, logger.hpp:220-232, 463).                         *)
ShutdownLossless ==
  pc[Owner] = "destroyed" /\ NoLateClient =>
    /\ accepted = written \o queue
    /\ \A i \in 1..Len(queue) : queue[i].from = Owner
    /\ durable = Len(written)


-----------------------------------------------------------------------------
(* The logger keeps the promises of LogDelivery.                           *)

\* ~Logger is flushing the sinks, or done.
phase == CASE pc[Owner] = "destroyed" -> "closed"
           [] pc[Owner] \in {"flushing", "relock"} \cup InSubmit -> "closing"
           [] OTHER -> "open"

Delivery == INSTANCE LogDelivery WITH
  Callers <- Clients, Entries <- Entry, Orderly <- ~LateCalls

DeliverySpec == Delivery!Spec
=============================================================================
