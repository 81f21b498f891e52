---------------------------- MODULE LogDelivery ----------------------------
(***************************************************************************)
(* What a c_log::Logger promises of the entries it is given: each is       *)
(* accepted or counted as dropped, the accepted ones are written exactly   *)
(* once in the order they were accepted in, flush() returns when all that  *)
(* was accepted before its call is written and flushed, and ~Logger        *)
(* flushes the sinks when everything is written.  Nothing is said of       *)
(* threads, the queue, batches or locks.                                   *)
(***************************************************************************)
EXTENDS Integers, Sequences

CONSTANTS
  Callers,         \* the threads that call the logger
  Entries,         \* the entries they log
  CounterModulus,  \* the drop counter counts modulo this
  Orderly          \* does the program keep the logger alive while it uses it?

NotFlushing == -1

VARIABLES
  accepted,  \* the entries the logger took responsibility for, in order
  written,   \* the entries the sinks have, in order
  durable,   \* how many of them the sinks were flushed after
  dropped,   \* the entries it counted as discarded
  due,       \* for a thread in flush(): how many entries its call must await
  phase      \* "open", "closing" in ~Logger's flush of the sinks, "closed" after it

vars == <<accepted, written, durable, dropped, due, phase>>

TypeOK ==
  /\ accepted \in Seq(Entries) /\ written \in Seq(Entries)
  /\ durable \in Nat /\ dropped \in Nat
  /\ due \in [Callers -> Nat \cup {NotFlushing}]
  /\ phase \in {"open", "closing", "closed"}

Init ==
  /\ accepted = <<>> /\ written = <<>>
  /\ durable = 0 /\ dropped = 0
  /\ due = [t \in Callers |-> NotFlushing]
  /\ phase = "open"

Accept(e) ==
  /\ accepted' = Append(accepted, e)
  /\ UNCHANGED <<written, durable, dropped, due, phase>>

\* The sinks get the oldest accepted entry they do not have.
Write ==
  /\ Len(written) < Len(accepted)
  /\ written' = Append(written, accepted[Len(written) + 1])
  /\ UNCHANGED <<accepted, durable, dropped, due, phase>>

\* An entry accepted and written in one step, when none is owed.
Deliver(e) ==
  /\ written = accepted
  /\ accepted' = Append(accepted, e)
  /\ written' = Append(written, e)
  /\ UNCHANGED <<durable, dropped, due, phase>>

Drop ==
  /\ dropped' = (dropped + 1) % CounterModulus
  /\ UNCHANGED <<accepted, written, durable, due, phase>>

BeginFlush(t) ==
  /\ due[t] = NotFlushing
  /\ due' = [due EXCEPT ![t] = Len(accepted)]
  /\ UNCHANGED <<accepted, written, durable, dropped, phase>>

EndFlush(t) ==
  /\ due[t] # NotFlushing
  /\ due[t] <= Len(written)
  /\ durable' = Len(written)
  /\ due' = [due EXCEPT ![t] = NotFlushing]
  /\ UNCHANGED <<accepted, written, dropped, phase>>

\* What is accepted from now on may be lost.
BeginClose ==
  /\ phase = "open"
  /\ Orderly => written = accepted
  /\ phase' = "closing"
  /\ UNCHANGED <<accepted, written, durable, dropped, due>>

Close ==
  /\ phase = "closing"
  /\ durable' = Len(written)
  /\ phase' = "closed"
  /\ UNCHANGED <<accepted, written, dropped, due>>

Next ==
  /\ phase # "closed"
  /\ \/ \E e \in Entries : Accept(e) \/ Deliver(e)
     \/ Write
     \/ Drop
     \/ \E t \in Callers : BeginFlush(t) \/ EndFlush(t)
     \/ BeginClose \/ Close

Spec == Init /\ [][Next]_vars
=============================================================================
