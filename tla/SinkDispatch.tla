---------------------------- MODULE SinkDispatch ----------------------------
(***************************************************************************)
(* What a logger does with an entry under sink_mutex_ (emit_entry() of      *)
(* include/clogpp/logger.hpp): a line per formatter, handed to every sink   *)
(* that accepts the level, with the sinks' exceptions caught; flush() and   *)
(* the calls that change sinks_, formatter_ and error_handler_.  The level  *)
(* of a sink is atomic and changes without the mutex.  A line is the        *)
(* sequence of what formatters have appended to it.                        *)
(***************************************************************************)
EXTENDS SequencesExt, FiniteSetsExt

CONSTANTS
  Callers,     \* threads: the worker, or clients of a logger in sync mode
  Sinks,       \* Sink objects
  OwnSinks,    \* those with a formatter of their own
  Throwing,    \* those whose log() and flush() may throw
  None,        \* nobody
  Formatters,  \* values of formatter_
  Levels,      \* of entries and of sinks
  MaxEntries,  \* entries in a behaviour
  MaxFlushes,  \* calls of flush() in a behaviour
  MaxChanges   \* calls of set_level, set_formatter, clear_sinks and the like

ASSUME SinksAssumption ==
  /\ OwnSinks \subseteq Sinks
  /\ Throwing \subseteq Sinks
  /\ None \notin Callers
  /\ Formatters \cap OwnSinks = {}
  /\ Levels \subseteq Nat /\ Levels # {}
  /\ {MaxEntries, MaxFlushes, MaxChanges} \subseteq Nat

VARIABLES
  sinks_,         \* the sinks of the logger, in order
  gone,           \* sinks destroyed by clear_sinks()
  level_,         \* the level of a sink
  formatter_,     \* the logger's formatter
  error_handler_, \* is there one?
  sink_mutex_,    \* who holds it
  job,            \* emit_entry()'s entry, loop and locals, or None
  default_line_,
  sink_line_,
  sink_errors_,
  entries,        \* entries whose emission has begun; their order is that of the lock
  flushes,        \* calls of flush()
  flushing,       \* where a caller's flush() is in its loop; 0 if it is in none
  changes,        \* calls that change what is configured
  reports,        \* calls of the error handler
  handed,         \* every line a sink's log() was called with
  flushed         \* how many of them before its flush() was last called

config == <<sinks_, gone, formatter_, error_handler_>>
scratch == <<default_line_, sink_line_>>
errors == <<sink_errors_, reports>>
flusher == <<flushes, flushing, flushed>>
vars == <<config, level_, sink_mutex_, job, scratch, errors, entries, flusher, changes, handed>>

Init ==
  /\ sinks_ = <<>>
  /\ gone = {}
  /\ level_ = [s \in Sinks |-> Min(Levels)]
  /\ formatter_ \in Formatters
  /\ error_handler_ = FALSE
  /\ sink_mutex_ = None
  /\ job = [c \in Callers |-> None]
  /\ default_line_ = <<>>
  /\ sink_line_ = <<>>
  /\ sink_errors_ = 0
  /\ entries = 0
  /\ flushes = 0
  /\ flushing = [c \in Callers |-> 0]
  /\ changes = 0
  /\ reports = 0
  /\ handed = [s \in Sinks |-> <<>>]
  /\ flushed = [s \in Sinks |-> 0]

Attached == ToSet(sinks_)
Text(e, formatter) == [entry |-> e, formatter |-> formatter]
accepts(s, level) == level >= level_[s]

Change == changes < MaxChanges /\ changes' = changes + 1

-----------------------------------------------------------------------------
(* Mistakes the code could have had; no specification uses them.            *)

\* The first sink that throws ends the flush().
FlushSinkOrStop(c) ==
  /\ flushing[c] \in 1..Len(sinks_)
  /\ flushed' = [flushed EXCEPT ![sinks_[flushing[c]]] = Len(handed[sinks_[flushing[c]]])]
  /\ \/ flushing' = [flushing EXCEPT ![c] = @ + 1] /\ UNCHANGED errors
     \/ /\ sinks_[flushing[c]] \in Throwing
        /\ flushing' = [flushing EXCEPT ![c] = Len(sinks_) + 1]
        /\ sink_errors_' = sink_errors_ + 1
        /\ reports' = IF error_handler_ THEN reports + 1 ELSE reports
  /\ UNCHANGED <<changes, config, level_, sink_mutex_, job, scratch, entries, flushes, handed>>

\* clear_sinks() without the mutex.
ClearSinksUnlocked ==
  /\ Change
  /\ sinks_' = <<>>
  /\ gone' = gone \cup Attached
  /\ UNCHANGED <<formatter_, error_handler_, level_, sink_mutex_, job, scratch, errors,
                 entries, flusher, handed>>

\* The mutex is not held for the whole loop.
EmitUnlocked(c, level) ==
  /\ job[c] = None
  /\ entries < MaxEntries
  /\ sink_mutex_ = None
  /\ entries' = entries + 1
  /\ job' = [job EXCEPT ![c] = [entry |-> entries', level |-> level, at |-> 1,
                                have_default |-> FALSE, sure |-> Sinks]]
  /\ UNCHANGED <<changes, config, level_, sink_mutex_, scratch, errors, flusher, handed>>

\* The default line is reused as long as there is one.
EmitWithOldLine(c, level) ==
  /\ job[c] = None
  /\ entries < MaxEntries
  /\ sink_mutex_ = None
  /\ sink_mutex_' = c
  /\ entries' = entries + 1
  /\ job' = [job EXCEPT ![c] = [entry |-> entries', level |-> level, at |-> 1,
                                have_default |-> default_line_ # <<>>, sure |-> Sinks]]
  /\ UNCHANGED <<changes, config, level_, scratch, errors, flusher, handed>>

-----------------------------------------------------------------------------
\* report_error(), when a sink has thrown.
Report ==
  /\ sink_errors_' = sink_errors_ + 1
  /\ reports' = IF error_handler_ THEN reports + 1 ELSE reports

-----------------------------------------------------------------------------
(* Configuration.                                                          *)

add_sink(s) ==
  /\ s \notin Attached \cup gone
  /\ sink_mutex_ = None
  /\ sinks_' = Append(sinks_, s)
  /\ UNCHANGED <<changes, gone, formatter_, error_handler_, level_, sink_mutex_, job, scratch, errors,
                 entries, flusher, handed>>

clear_sinks ==
  /\ Change
  /\ sink_mutex_ = None
  /\ sinks_' = <<>>
  /\ gone' = gone \cup Attached
  /\ UNCHANGED <<formatter_, error_handler_, level_, sink_mutex_, job, scratch, errors,
                 entries, flusher, handed>>

set_formatter(f) ==
  /\ Change
  /\ sink_mutex_ = None
  /\ formatter_' = f
  /\ UNCHANGED <<sinks_, gone, error_handler_, level_, sink_mutex_, job, scratch, errors,
                 entries, flusher, handed>>

set_error_handler(on) ==
  /\ Change
  /\ sink_mutex_ = None
  /\ error_handler_' = on
  /\ UNCHANGED <<sinks_, gone, formatter_, level_, sink_mutex_, job, scratch, errors,
                 entries, flusher, handed>>

\* Sink::set_level() takes no lock; an emission under way may see it or not.
set_level(s, level) ==
  /\ Change
  /\ s \notin gone
  /\ level_' = [level_ EXCEPT ![s] = level]
  /\ job' = [c \in Callers |-> IF job[c] = None THEN None
                               ELSE [job[c] EXCEPT !.sure = @ \ {s}]]
  /\ UNCHANGED <<config, sink_mutex_, scratch, errors, entries, flusher, handed>>

-----------------------------------------------------------------------------
(* emit_entry().                                                           *)

\* sure: the sinks whose level has not changed since the emission began.
EmitEntry(c, level) ==
  /\ job[c] = None
  /\ entries < MaxEntries
  /\ sink_mutex_ = None
  /\ sink_mutex_' = c
  /\ entries' = entries + 1
  /\ job' = [job EXCEPT ![c] = [entry |-> entries', level |-> level, at |-> 1,
                                have_default |-> FALSE, sure |-> Sinks]]
  /\ UNCHANGED <<changes, config, level_, scratch, errors, flusher, handed>>

\* The sink of an iteration.
Here(c) == sinks_[job[c].at]

InLoop(c) == job[c] # None /\ job[c].at <= Len(sinks_)

SkipSink(c) ==
  /\ InLoop(c)
  /\ ~accepts(Here(c), job[c].level)
  /\ job' = [job EXCEPT ![c].at = @ + 1]
  /\ UNCHANGED <<changes, config, level_, sink_mutex_, scratch, errors, entries, flusher, handed>>

\* The line for this sink: cleared and formatted, or the default line, which
\* is formatted for the first sink that needs it.
Prepare(c) ==
  IF Here(c) \in OwnSinks
    THEN /\ sink_line_' = <<Text(job[c].entry, Here(c))>>
         /\ job' = [job EXCEPT ![c].at = @ + 1]
         /\ UNCHANGED default_line_
    ELSE /\ default_line_' = IF job[c].have_default THEN default_line_
                             ELSE <<Text(job[c].entry, formatter_)>>
         /\ job' = [job EXCEPT ![c].at = @ + 1, ![c].have_default = TRUE]
         /\ UNCHANGED sink_line_

\* The sink's log() returns or throws.
Deliver(s, line) ==
  /\ handed' = [handed EXCEPT ![s] = Append(@, line)]
  /\ \/ UNCHANGED errors
     \/ s \in Throwing /\ Report

WriteSink(c) ==
  /\ InLoop(c)
  /\ accepts(Here(c), job[c].level)
  /\ Prepare(c)
  /\ Deliver(Here(c), IF Here(c) \in OwnSinks THEN sink_line_' ELSE default_line_')
  /\ UNCHANGED <<changes, config, level_, sink_mutex_, entries, flusher>>

EndEmit(c) ==
  /\ job[c] # None
  /\ job[c].at > Len(sinks_)
  /\ job' = [job EXCEPT ![c] = None]
  /\ sink_mutex_' = None
  /\ UNCHANGED <<changes, config, level_, scratch, errors, entries, flusher, handed>>

-----------------------------------------------------------------------------
(* flush(), once it has waited for the queue.                              *)

BeginFlush(c) ==
  /\ job[c] = None
  /\ flushes < MaxFlushes
  /\ sink_mutex_ = None
  /\ sink_mutex_' = c
  /\ flushes' = flushes + 1
  /\ flushing' = [flushing EXCEPT ![c] = 1]
  /\ UNCHANGED <<changes, config, level_, job, scratch, errors, entries, flushed, handed>>

\* flush_sink(): the sink's flush() returns or throws.
FlushSink(c) ==
  /\ flushing[c] \in 1..Len(sinks_)
  /\ LET s == sinks_[flushing[c]] IN
       /\ flushed' = [flushed EXCEPT ![s] = Len(handed[s])]
       /\ \/ UNCHANGED errors
          \/ s \in Throwing /\ Report
  /\ flushing' = [flushing EXCEPT ![c] = @ + 1]
  /\ UNCHANGED <<changes, config, level_, sink_mutex_, job, scratch, entries, flushes, handed>>

EndFlush(c) ==
  /\ flushing[c] > Len(sinks_)
  /\ flushing' = [flushing EXCEPT ![c] = 0]
  /\ sink_mutex_' = None
  /\ UNCHANGED <<changes, config, level_, job, scratch, errors, entries, flushes, flushed, handed>>

Next ==
  \/ \E s \in Sinks : \/ add_sink(s)
                      \/ \E level \in Levels : set_level(s, level)
  \/ clear_sinks
  \/ \E f \in Formatters : set_formatter(f)
  \/ \E on \in BOOLEAN : set_error_handler(on)
  \/ \E c \in Callers : \/ SkipSink(c) \/ WriteSink(c) \/ EndEmit(c)
                        \/ BeginFlush(c) \/ FlushSink(c) \/ EndFlush(c)
                        \/ \E level \in Levels : EmitEntry(c, level)

Spec == Init /\ [][Next]_vars

-----------------------------------------------------------------------------
\* The formatter of a sink's lines.
FormatterOf(s) == IF s \in OwnSinks THEN s ELSE formatter_

Line == Seq([entry : 1..MaxEntries, formatter : Formatters \cup OwnSinks])
Job == [entry : 1..MaxEntries, level : Levels, at : 1..Len(sinks_) + 1,
        have_default : BOOLEAN, sure : SUBSET Sinks]

(* Every variable has its type; no loop over sinks_ runs off its end.       *)
TypeOK ==
  /\ sinks_ \in Seq(Sinks \ gone) /\ IsInjective(sinks_)
  /\ gone \subseteq Sinks
  /\ level_ \in [Sinks -> Levels]
  /\ formatter_ \in Formatters
  /\ error_handler_ \in BOOLEAN
  /\ sink_mutex_ \in Callers \cup {None}
  /\ job \in [Callers -> Job \cup {None}]
  /\ default_line_ \in Line /\ sink_line_ \in Line
  /\ sink_errors_ \in Nat /\ reports \in Nat
  /\ entries \in 0..MaxEntries /\ flushes \in 0..MaxFlushes /\ changes \in 0..MaxChanges
  /\ flushing \in [Callers -> 0..Len(sinks_) + 1]
  /\ handed \in [Sinks -> Seq(Line)]
  /\ flushed \in [Sinks -> Nat]

Mentions(line, e) == \E i \in 1..Len(line) : line[i].entry = e

(* "A misbehaving sink cannot ... starve the other sinks"
   (docs/design.md:84-86): when the loop has ended, every sink whose level
   admits the entry was handed its line once, formatted for it from this
   entry alone, and no other sink was, whatever threw on the way
   (logger.hpp:484-508).                                                   *)
EverySinkItsLine ==
  \A c \in Callers : job[c] # None /\ job[c].at > Len(sinks_) =>
    \A s \in Sinks :
      LET e == job[c].entry
          mine == {i \in 1..Len(handed[s]) : Mentions(handed[s][i], e)}
      IN  /\ \A i \in mine : handed[s][i] = <<Text(e, FormatterOf(s))>> /\ mine = {i}
          /\ s \notin Attached => mine = {}
          /\ s \in Attached \cap job[c].sure => (mine # {} <=> accepts(s, job[c].level))

(* The entries of all threads reach every sink in one order, that in which
   they took the mutex (docs/design.md:77-82).                             *)
SameOrderEverywhere ==
  \A s \in Sinks : \A i, j \in 1..Len(handed[s]) :
    i < j => \A a \in ToSet(handed[s][i]), b \in ToSet(handed[s][j]) : a.entry < b.entry

(* "A misbehaving sink cannot ... starve the other sinks" (docs/design.md:84-86)
   of a flush() either: when its loop has ended, every sink has been flushed
   behind its last line, whichever of them threw and whatever other threads
   did meanwhile (logger.hpp:386-388, 510-516).                            *)
EverySinkIsFlushed ==
  \A c \in Callers : flushing[c] > Len(sinks_) => \A s \in Attached : flushed[s] = Len(handed[s])
=============================================================================
