----------------------------- MODULE PlainSinks ----------------------------
(***************************************************************************)
(* FileSink (include/clogpp/file_sink.hpp), ConsoleSink and MemorySink      *)
(* (include/clogpp/sinks.hpp): where a line goes when nothing rotates.      *)
(* Streams are buffered, writing may fail, the process may be killed and    *)
(* start again.  Lines are numbered from 1; a stream is a sequence of       *)
(* numbers, a line without its newline, and of newlines, 0.                 *)
(***************************************************************************)
EXTENDS SequencesExt, FiniteSetsExt

CONSTANTS
  Capacities,  \* arguments of MemorySink's constructor
  Loggers,     \* loggers with a ConsoleSink on the same stream
  MaxLines, MaxCrashes, MaxFaults  \* lines, kills, failed writes in a behaviour

\* What every use of this module assumes of its constants.
PlainAssumption == Capacities \subseteq Nat /\ {MaxLines, MaxCrashes, MaxFaults} \subseteq Nat

VARIABLES
  sink,       \* "file", "console" or "memory"
  capacity_,  \* of the MemorySink
  running,    \* is there a process, with a sink?
  stream,     \* "good", "bad" after a failed write, or "closed"
  buffer,     \* what the stream has not written yet
  kept,       \* the file, what the console has shown, or the deque
  ending,     \* each logger's line between ConsoleSink's fwrite() and fputc(), or 0
  shared,     \* those lines behind which another logger has written
  lines,      \* lines given to the sink
  starts,     \* the first lines of the processes
  resumes,    \* the first lines after a failed write to the console
  cleared,    \* the lines when MemorySink was cleared or created
  crashes, faults

vars == <<sink, capacity_, running, stream, buffer, kept, ending, shared, lines, starts, resumes,
          cleared, crashes, faults>>

NotEnding == [l \in Loggers |-> 0]

Init ==
  /\ sink \in {"file", "console", "memory"}
  /\ capacity_ = 1
  /\ running = FALSE
  /\ stream = "closed"
  /\ buffer = <<>>
  /\ kept = <<>>
  /\ ending = NotEnding
  /\ shared = {}
  /\ lines = 0
  /\ starts = {}
  /\ resumes = {}
  /\ cleared = 0
  /\ crashes = 0
  /\ faults = 0

Fault == faults < MaxFaults /\ faults' = faults + 1

-----------------------------------------------------------------------------
(* Mistakes the code could have had; no specification uses them.            *)

\* The stream's error is cleared before each line.
PutOnStreamAfterClear(line) ==
  \/ stream # "closed" /\ stream' = "good" /\ buffer' = buffer \o <<line, 0>> /\ UNCHANGED faults
  \/ stream = "good" /\ Fault /\ stream' = "bad" /\ UNCHANGED buffer
  \/ stream = "closed" /\ UNCHANGED <<stream, buffer, faults>>

\* The bound is looked at before it is exceeded by one.
RetainedLate(deque, line) ==
  Append(IF Len(deque) > capacity_ THEN Tail(deque) ELSE deque, line)

-----------------------------------------------------------------------------
\* The constructors; a file is opened for appending or truncated.
Construct(truncate, capacity) ==
  /\ ~running
  /\ running' = TRUE
  /\ \/ stream' = "good" /\ UNCHANGED faults
        /\ kept' = IF sink = "memory" \/ (sink = "file" /\ truncate) THEN <<>> ELSE kept
     \/ sink = "file" /\ Fault /\ UNCHANGED <<stream, kept>>
  /\ capacity_' = IF capacity = 0 THEN 1 ELSE capacity
  /\ starts' = starts \cup {lines + 1}
  /\ cleared' = lines
  /\ UNCHANGED <<sink, buffer, ending, shared, lines, resumes, crashes>>

\* log() is called.
NextLine ==
  /\ running
  /\ lines < MaxLines
  /\ lines' = lines + 1
  /\ UNCHANGED <<sink, capacity_, running, starts, cleared, crashes>>

\* if (file_) file_ << line << '\n'
PutOnStream(line) ==
  \/ stream = "good" /\ buffer' = buffer \o <<line, 0>> /\ UNCHANGED <<stream, faults>>
  \/ stream = "good" /\ Fault /\ stream' = "bad" /\ buffer' \in {buffer, Append(buffer, line)}
  \/ stream # "good" /\ UNCHANGED <<stream, buffer, faults>>

LogFile ==
  /\ sink = "file"
  /\ NextLine
  /\ PutOnStream(lines')
  /\ UNCHANGED <<kept, ending, shared, resumes>>

\* A failed write to the console loses what it was to write, perhaps with the
\* end of what was buffered.  Nobody looks at the result, and the next goes on.
LoseEnd ==
  /\ Fault
  /\ \E n \in 0..Len(buffer) : buffer' = SubSeq(buffer, 1, n)
  /\ resumes' = resumes \cup {lines' + 1}

PutOnConsole(piece) ==
  \/ buffer' = Append(buffer, piece) /\ UNCHANGED <<resumes, faults>>
  \/ LoseEnd

\* A logger holds its sink_mutex_ from one to the other, but not the stream.
Fwrite(l) ==
  /\ sink = "console" /\ ending[l] = 0
  /\ NextLine
  /\ PutOnConsole(lines')
  /\ ending' = [ending EXCEPT ![l] = lines']
  /\ shared' = shared \cup (Range(ending) \ {0})
  /\ UNCHANGED <<stream, kept>>

Fputc(l) ==
  /\ ending[l] # 0
  /\ UNCHANGED lines
  /\ PutOnConsole(0)
  /\ ending' = [ending EXCEPT ![l] = 0]
  /\ UNCHANGED <<sink, capacity_, running, stream, kept, shared, starts, cleared, crashes>>

Retained(deque, line) ==
  Append(IF Len(deque) = capacity_ THEN Tail(deque) ELSE deque, line)

LogMemory ==
  /\ sink = "memory"
  /\ NextLine
  /\ kept' = Retained(kept, lines')
  /\ UNCHANGED <<stream, buffer, ending, shared, resumes, faults>>

clear ==
  /\ running /\ sink = "memory"
  /\ kept' = <<>>
  /\ cleared' = lines
  /\ UNCHANGED <<sink, capacity_, running, stream, buffer, ending, shared, lines, starts, resumes,
                 crashes, faults>>

\* The first n pieces of the buffer are written.
Written(n) == kept' = kept \o SubSeq(buffer, 1, n)

\* A failed flush() leaves the file's stream bad; the console's goes on.
flush ==
  /\ running /\ stream = "good" /\ sink # "memory"
  /\ UNCHANGED <<sink, capacity_, running, ending, shared, lines, starts, cleared, crashes>>
  /\ \/ Written(Len(buffer)) /\ buffer' = <<>> /\ UNCHANGED <<stream, resumes, faults>>
     \/ sink = "file" /\ Fault /\ stream' = "bad" /\ UNCHANGED <<kept, buffer, resumes>>
     \/ sink = "console" /\ LoseEnd /\ UNCHANGED <<kept, stream>>

Ended ==
  /\ running' = FALSE
  /\ stream' = "closed"
  /\ buffer' = <<>>
  /\ ending' = NotEnding
  /\ UNCHANGED <<sink, capacity_, shared, lines, starts, resumes, cleared, faults>>

\* Closing a stream writes what it has, unless a write has failed.
Destroy ==
  /\ running /\ ending = NotEnding
  /\ \E n \in IF stream = "good" THEN {Len(buffer)} ELSE 0..Len(buffer) : Written(n)
  /\ Ended
  /\ UNCHANGED crashes

Kill ==
  /\ running
  /\ crashes < MaxCrashes
  /\ crashes' = crashes + 1
  /\ \E n \in 0..Len(buffer) : Written(n)
  /\ Ended

Next ==
  \/ \E truncate \in BOOLEAN, capacity \in Capacities : Construct(truncate, capacity)
  \/ LogFile \/ LogMemory \/ clear \/ flush \/ Destroy \/ Kill
  \/ \E l \in Loggers : Fwrite(l) \/ Fputc(l)

Spec == Init /\ [][Next]_vars

-----------------------------------------------------------------------------
Pieces == kept \o buffer

\* Two lines with none between them.
Consecutive(i, j) ==
  i < j /\ Pieces[i] # 0 /\ Pieces[j] # 0 /\ \A k \in i + 1..j - 1 : Pieces[k] = 0

(* A file and a console show lines in the order of log(), and none is missing
   between two of them, but where a process began or, on a console, where a
   write had failed: what a failed write to a file or a kill loses is the end
   of a process's lines.  Every line but such a last one has its newline right
   behind it, unless another logger wrote to the console between the two
   (file_sink.hpp:22-24, sinks.hpp:66-70).                                  *)
NoHoles ==
  sink # "memory" =>
    /\ \A i, j \in 1..Len(Pieces) :
         Consecutive(i, j) =>
           Pieces[j] \in {Pieces[i] + 1} \cup {s \in starts \cup resumes : s > Pieces[i]}
    /\ \A i \in 1..Len(Pieces) - 1 :
         Pieces[i] \notin {0} \cup shared => Pieces[i + 1] \in {0} \cup starts \cup resumes

(* "Keeps the most recent `capacity` lines in memory" (sinks.hpp:99-100), at
   least one, in order and since clear(), whatever its capacity was.        *)
MemoryIsNewest ==
  sink = "memory" /\ running =>
    kept = LET n == Min({capacity_, lines - cleared}) IN [i \in 1..n |-> lines - n + i]
=============================================================================
