--------------------------- MODULE DailyFileSink ---------------------------
(***************************************************************************)
(* DailyFileSink (include/clogpp/daily_file_sink.hpp): one file per day,    *)
(* switched by a clock that may be set back, old files removed one by one;  *)
(* opening, writing and removing may fail, the process may end at any       *)
(* point, and there may be files from before, of any day.  Time is local    *)
(* and counted in ticks; mktime() finds the next midnight, or fails.  A     *)
(* line is its number and the day it was logged on.                        *)
(***************************************************************************)
EXTENDS SequencesExt, FiniteSetsExt

CONSTANTS
  Limits,    \* the values of max_files to try
  DayTicks,  \* the length of a day
  Days,      \* days in a behaviour
  Absent,    \* no such file
  NoLine,    \* log() is not running
  MaxLines,  \* lines in a behaviour
  MaxFaults  \* failures of an operation in a behaviour

\* What every use of this module assumes of its constants.
DailyAssumption ==
  /\ Limits \subseteq Nat
  /\ {DayTicks, Days} \subseteq Nat \ {0}
  /\ {MaxLines, MaxFaults} \subseteq Nat
  /\ Absent \notin Nat /\ Absent \notin Seq([id : Nat, day : Nat])

VARIABLES
  max_files_,
  time,            \* what clock_() says
  running,         \* is there a sink?
  file_,           \* the day of the file it has open, Absent if it has none
  bad,             \* has a write failed since it was opened?
  buffer,          \* what it has not written yet
  next_rotation_,
  rotations_,
  doomed,          \* the days whose file prune() has yet to remove
  line,            \* the line of log()
  file,            \* the dated files
  unlinked,        \* has the open file been removed?
  lines,           \* lines given to log()
  faults,          \* failed operations
  misled,          \* has the clock been set back, or mktime() failed?
  logged,          \* lines that have reached the open file
  pruned           \* days whose file prune() has removed

object == <<file_, bad, buffer, next_rotation_, rotations_, unlinked>>
ghosts == <<misled, logged, pruned>>
vars == <<max_files_, time, running, object, doomed, line, file, lines, faults, ghosts>>

AllDays == 0..Days - 1
DayOf(t) == t \div DayTicks
Midnight(t) == (DayOf(t) + 1) * DayTicks

Dated == {d \in AllDays : file[d] # Absent}

Init ==
  /\ max_files_ \in Limits
  /\ time \in 0..DayTicks - 1
  /\ running = FALSE
  /\ file_ = Absent
  /\ bad = FALSE
  /\ buffer = <<>>
  /\ next_rotation_ = 0
  /\ rotations_ = 0
  /\ doomed = {}
  /\ line = NoLine
  /\ \E before \in SUBSET AllDays : file = [d \in AllDays |-> IF d \in before THEN <<>> ELSE Absent]
  /\ unlinked = FALSE
  /\ lines = 0
  /\ faults = 0
  /\ misled = FALSE
  /\ logged = {}
  /\ pruned = {}

Fault == faults < MaxFaults /\ faults' = faults + 1

-----------------------------------------------------------------------------
(* Mistakes the code could have had; no specification uses them.            *)

\* A day after the rotation, not midnight.
DayLater(t) == t + DayTicks

\* The names are sorted the other way.
DoomedNewest(dated) ==
  {d \in dated : Cardinality({other \in dated : other < d}) >= max_files_}

-----------------------------------------------------------------------------
next_midnight(t) == Midnight(t)

\* The files prune() is going to remove: all but the newest max_files_.
ToPrune(dated) ==
  {d \in dated : Cardinality({other \in dated : other > d}) >= max_files_}

\* The files, and the lines in them, when the first n lines of the buffer
\* have reached the open file; a removed one takes them, and nobody sees it.
Flushed(n) ==
  IF n = 0 \/ unlinked THEN file ELSE [file EXCEPT ![file_] = @ \o SubSeq(buffer, 1, n)]
Reached(n) == logged \cup ToSet(SubSeq(buffer, 1, n))

\* What close() gets out of the buffer: everything, if no write has failed.
Closed == IF bad THEN 0..Len(buffer) ELSE {Len(buffer)}

\* reopen(), up to prune().
reopen(now) ==
  /\ rotations_' = IF file_ # Absent THEN rotations_ + 1 ELSE rotations_
  /\ \E n \in Closed :
       /\ logged' = Reached(n)
       /\ \/ /\ file_' = DayOf(now)
             /\ file' = LET f == Flushed(n)
                        IN  [f EXCEPT ![DayOf(now)] = IF @ = Absent THEN <<>> ELSE @]
             /\ pruned' = pruned \ {DayOf(now)}
             /\ UNCHANGED faults
          \/ Fault /\ file_' = Absent /\ file' = Flushed(n) /\ UNCHANGED pruned
  /\ bad' = FALSE
  /\ buffer' = <<>>
  /\ unlinked' = FALSE
  /\ \/ next_rotation_' = next_midnight(now) /\ UNCHANGED misled
     \/ next_rotation_' = now + DayTicks /\ misled' = TRUE
  /\ doomed' = IF max_files_ > 0 THEN ToPrune({d \in AllDays : file'[d] # Absent}) ELSE {}

Construct ==
  /\ ~running
  /\ running' = TRUE
  /\ reopen(time)
  /\ UNCHANGED <<max_files_, time, line, lines>>

Log ==
  /\ running /\ line = NoLine /\ doomed = {}
  /\ lines < MaxLines
  /\ lines' = lines + 1
  /\ line' = [id |-> lines', day |-> DayOf(time)]
  /\ IF time >= next_rotation_
       THEN reopen(time)
       ELSE UNCHANGED <<object, doomed, file, faults, ghosts>>
  /\ UNCHANGED <<max_files_, time, running>>

\* One round of the loop of prune(), which goes from the oldest on.
Prune ==
  /\ running /\ doomed # {}
  /\ LET oldest == Min(doomed)
     IN  /\ \/ /\ file' = [file EXCEPT ![oldest] = Absent]
               /\ pruned' = pruned \cup {oldest}
               /\ unlinked' = (unlinked \/ file_ = oldest)
               /\ UNCHANGED faults
            \/ Fault /\ UNCHANGED <<file, pruned, unlinked>>
         /\ doomed' = doomed \ {oldest}
  /\ UNCHANGED <<max_files_, time, running, file_, bad, buffer, next_rotation_, rotations_, line,
                 lines, misled, logged>>

\* if (file_) file_ << line << '\n'
Write ==
  /\ running /\ line # NoLine /\ doomed = {}
  /\ LET good == file_ # Absent /\ ~bad
     IN  \/ good /\ buffer' = Append(buffer, line) /\ UNCHANGED <<bad, faults>>
         \/ good /\ Fault /\ bad' = TRUE /\ UNCHANGED buffer
         \/ ~good /\ UNCHANGED <<bad, buffer, faults>>
  /\ line' = NoLine
  /\ UNCHANGED <<max_files_, time, running, file_, next_rotation_, rotations_, unlinked, doomed,
                 file, lines, ghosts>>

flush ==
  /\ running /\ line = NoLine /\ doomed = {}
  /\ file_ # Absent /\ ~bad
  /\ file' = Flushed(Len(buffer))
  /\ logged' = Reached(Len(buffer))
  /\ buffer' = <<>>
  /\ UNCHANGED <<max_files_, time, running, file_, bad, next_rotation_, rotations_, unlinked, doomed,
                 line, lines, faults, misled, pruned>>

\* The sink or the process ends, between any two operations on files, and
\* some of what the stream has buffered is in the file.
End ==
  /\ running
  /\ running' = FALSE
  /\ \E n \in 0..Len(buffer) : file' = Flushed(n) /\ logged' = Reached(n)
  /\ file_' = Absent
  /\ bad' = FALSE
  /\ buffer' = <<>>
  /\ next_rotation_' = 0
  /\ rotations_' = 0
  /\ unlinked' = FALSE
  /\ doomed' = {}
  /\ line' = NoLine
  /\ UNCHANGED <<max_files_, time, lines, faults, misled, pruned>>

Tick ==
  /\ time < Days * DayTicks - 1
  /\ time' = time + 1
  /\ UNCHANGED <<max_files_, running, object, doomed, line, file, lines, faults, ghosts>>

SetClockBack(t) ==
  /\ t < time
  /\ time' = t
  /\ misled' = TRUE
  /\ UNCHANGED <<max_files_, running, object, doomed, line, file, lines, faults, logged, pruned>>

Next ==
  \/ Construct \/ Log \/ Prune \/ Write \/ flush \/ End
  \/ Tick \/ \E t \in 0..Days * DayTicks - 1 : SetClockBack(t)

Spec == Init /\ [][Next]_vars

-----------------------------------------------------------------------------
Newer(day) == {d \in Dated : d > day}

(* If the clock is never set back, a line that has reached a file is in the
   file of the day it was logged on, or that file has been removed for
   max_files newer ones, also when the sink was idle over midnights or was
   restarted (daily_file_sink.hpp:18-19, 40-44).                           *)
LinesReachTheirDay ==
  ~misled => \A l \in logged :
    \/ file[l.day] # Absent /\ l \in ToSet(file[l.day])
    \/ max_files_ > 0 /\ Cardinality(Newer(l.day)) >= max_files_

(* "the sink keeps only the newest max_files dated files"
   (daily_file_sink.hpp:21-23): every file that was removed has max_files
   newer ones, whatever the clock says and wherever the process ends; and
   while log() is not running there are no more than max_files, unless a
   removal failed or the sink has not been there yet.                      *)
NewestDaysAreKept ==
  /\ \A d \in pruned : Cardinality(Newer(d)) >= max_files_
  /\ running /\ doomed = {} /\ max_files_ > 0 /\ faults = 0 => Cardinality(Dated) <= max_files_
=============================================================================
