-------------------------- MODULE RotatingFileSink -------------------------
(***************************************************************************)
(* RotatingFileSink (include/clogpp/rotating_file_sink.hpp), with the files *)
(* it leaves behind.  The process may be killed between any two operations  *)
(* on files and start again with the same options; opening, renaming and    *)
(* writing may fail.  Calls of one sink are sequential: the logger makes    *)
(* them under sink_mutex_.  A line is its number and its length, with the   *)
(* newline; what a kill leaves of a line is not told apart from nothing.    *)
(***************************************************************************)
EXTENDS SequencesExt, FiniteSetsExt

CONSTANTS
  Backups,     \* the values of max_files to try
  Limits,      \* the values of max_bytes to try
  Lengths,     \* lengths of lines
  Absent,      \* no such file
  MaxLines,    \* lines in a behaviour
  MaxCrashes,  \* kills in a behaviour
  MaxFaults    \* failures of an operation in a behaviour

ASSUME RotatingAssumption ==
  /\ Backups \subseteq Nat /\ Limits \subseteq Nat
  /\ Lengths \subseteq Nat \ {0}
  /\ Absent \notin Seq([id : Nat, len : Nat])

VARIABLES
  max_files_,
  max_bytes_,
  running,        \* is there a process, with a sink?
  stream,         \* file_: "good", "bad" after a failed write, or "closed"
  buffer,         \* what file_ has not written yet
  current_size_,
  rotations_,
  at,             \* idle, or the next file operation of rotate()
  shift,          \* the loop variable of rotate()
  line,           \* the line log() was called with
  file,           \* file[0] is base_path, file[i] is base_path.i
  lines,          \* how many lines log() was given
  crashes,
  faults,         \* failed operations
  unrenamed,      \* has a file that exists not been renamed?
  reached         \* lines that have reached a file

options == <<max_files_, max_bytes_>>
object == <<stream, buffer, current_size_, rotations_>>
control == <<running, at, shift, line>>
bounds == <<lines, crashes, faults>>
vars == <<options, object, control, file, bounds, unrenamed, reached>>

NoLine == [id |-> 0, len |-> 0]
Bytes(pieces) ==
  LET sum[n \in 0..Len(pieces)] == IF n = 0 THEN 0 ELSE sum[n - 1] + pieces[n].len
  IN  sum[Len(pieces)]
Content(i) == IF file[i] = Absent THEN <<>> ELSE file[i]
Ids(pieces) == {piece.id : piece \in ToSet(pieces)}

Init ==
  /\ max_files_ \in Backups
  /\ max_bytes_ \in Limits
  /\ running = FALSE
  /\ stream = "closed"
  /\ buffer = <<>>
  /\ current_size_ = 0
  /\ rotations_ = 0
  /\ at = "idle"
  /\ shift = 0
  /\ line = NoLine
  /\ file = [i \in 0..max_files_ |-> Absent]
  /\ lines = 0
  /\ crashes = 0
  /\ faults = 0
  /\ unrenamed = FALSE
  /\ reached = {}

\* The first n lines of the buffer reach base_path.
Write(n) ==
  /\ file' = IF n = 0 THEN file ELSE [file EXCEPT ![0] = Content(0) \o SubSeq(buffer, 1, n)]
  /\ reached' = reached \cup Ids(SubSeq(buffer, 1, n))

Fault == faults < MaxFaults /\ faults' = faults + 1

-----------------------------------------------------------------------------
(* Mistakes the code could have had; no specification uses them.            *)

\* The size of a file opened for appending is not asked for.
SizeOnOpenZero(truncate) == 0

\* The loop of rotate() runs upwards.
RenameUpwards ==
  /\ running /\ at = "rename"
  /\ LET src == max_files_ - 1 - shift
     IN  /\ file' = IF file[src] = Absent THEN file
                    ELSE [file EXCEPT ![src + 1] = file[src], ![src] = Absent]
         /\ IF src = max_files_ - 1 THEN at' = "open" /\ UNCHANGED shift
                                    ELSE shift' = shift - 1 /\ UNCHANGED at
  /\ UNCHANGED <<options, object, running, line, bounds, unrenamed, reached>>

-----------------------------------------------------------------------------
(* open().                                                                 *)

\* What tellp() says after the file has been opened.
SizeOnOpen(truncate) == IF truncate THEN 0 ELSE Bytes(Content(0))

Open(truncate) ==
  /\ stream' = "good"
  /\ file' = [file EXCEPT ![0] = IF truncate THEN <<>> ELSE Content(0)]
  /\ current_size_' = SizeOnOpen(truncate)
  /\ UNCHANGED faults

OpenFails ==
  /\ Fault
  /\ stream' = "closed"
  /\ current_size_' = 0
  /\ UNCHANGED file

\* A mistake: the base file is truncated by the constructor too.
ConstructAfresh ==
  /\ ~running
  /\ running' = TRUE
  /\ Open(TRUE) \/ OpenFails
  /\ rotations_' = 0
  /\ UNCHANGED <<options, buffer, at, shift, line, lines, crashes, unrenamed, reached>>

Construct ==
  /\ ~running
  /\ running' = TRUE
  /\ Open(FALSE) \/ OpenFails
  /\ rotations_' = 0
  /\ UNCHANGED <<options, buffer, at, shift, line, lines, crashes, unrenamed, reached>>

-----------------------------------------------------------------------------
(* log().                                                                  *)

MustRotate(len) ==
  max_bytes_ # 0 /\ current_size_ > 0 /\ current_size_ + len > max_bytes_

Log(len) ==
  /\ running /\ at = "idle"
  /\ lines < MaxLines
  /\ lines' = lines + 1
  /\ line' = [id |-> lines', len |-> len]
  /\ at' = IF MustRotate(len) THEN "close" ELSE "put"
  /\ UNCHANGED <<options, object, running, shift, file, crashes, faults, unrenamed, reached>>

\* What close() gets out of the buffer: everything, if no write has failed.
Closed == IF stream = "good" THEN {Len(buffer)} ELSE 0..Len(buffer)

CloseFile ==
  /\ running /\ at = "close"
  /\ \E n \in Closed : Write(n)
  /\ buffer' = <<>>
  /\ rotations_' = rotations_ + 1
  /\ at' = IF max_files_ = 0 THEN "open" ELSE "remove"
  /\ UNCHANGED <<options, stream, current_size_, running, shift, line, bounds, unrenamed>>

RemoveOldest ==
  /\ running /\ at = "remove"
  /\ file' = [file EXCEPT ![max_files_] = Absent]
  /\ shift' = max_files_ - 1
  /\ at' = "rename"
  /\ UNCHANGED <<options, object, running, line, bounds, unrenamed, reached>>

\* The loop, and the base file after it.
Rename ==
  /\ running /\ at = "rename"
  /\ \/ /\ file' = IF file[shift] = Absent THEN file
                   ELSE [file EXCEPT ![shift + 1] = file[shift], ![shift] = Absent]
        /\ UNCHANGED <<faults, unrenamed>>
     \/ /\ file[shift] # Absent
        /\ Fault
        /\ unrenamed' = TRUE
        /\ UNCHANGED file
  /\ IF shift = 0 THEN at' = "open" /\ UNCHANGED shift
                  ELSE shift' = shift - 1 /\ UNCHANGED at
  /\ UNCHANGED <<options, object, running, line, lines, crashes, reached>>

Reopen ==
  /\ running /\ at = "open"
  /\ Open(TRUE) \/ OpenFails
  /\ at' = "put"
  /\ UNCHANGED <<options, buffer, rotations_, running, shift, line, lines, crashes, unrenamed, reached>>

\* file_ << line: to the buffer, or to nowhere.  It is counted all the same.
Put ==
  /\ running /\ at = "put"
  /\ \/ stream = "good" /\ buffer' = Append(buffer, line) /\ UNCHANGED <<stream, faults>>
     \/ stream = "good" /\ Fault /\ stream' = "bad" /\ UNCHANGED buffer
     \/ stream # "good" /\ UNCHANGED <<stream, buffer, faults>>
  /\ current_size_' = current_size_ + line.len
  /\ at' = "idle"
  /\ line' = NoLine
  /\ UNCHANGED <<options, rotations_, running, shift, file, lines, crashes, unrenamed, reached>>

-----------------------------------------------------------------------------
flush ==
  /\ running /\ at = "idle"
  /\ stream = "good"
  /\ Write(Len(buffer))
  /\ buffer' = <<>>
  /\ UNCHANGED <<options, stream, current_size_, rotations_, control, bounds, unrenamed>>

\* The end of the sink: what it has not written is, or is lost, and so is the
\* line it was in the middle of.
Ended ==
  /\ running' = FALSE
  /\ stream' = "closed"
  /\ buffer' = <<>>
  /\ current_size_' = 0
  /\ rotations_' = 0
  /\ at' = "idle"
  /\ shift' = 0
  /\ line' = NoLine
  /\ UNCHANGED <<options, lines, faults, unrenamed>>

Destroy ==
  /\ running /\ at = "idle"
  /\ \E n \in Closed : Write(n)
  /\ Ended
  /\ UNCHANGED crashes

\* The process is killed; the system has some of the buffer already.
Kill ==
  /\ running
  /\ crashes < MaxCrashes
  /\ crashes' = crashes + 1
  /\ \E n \in 0..Len(buffer) : Write(n)
  /\ Ended

Next ==
  \/ Construct \/ \E len \in Lengths : Log(len)
  \/ CloseFile \/ RemoveOldest \/ Rename \/ Reopen \/ Put
  \/ flush \/ Destroy \/ Kill

Spec == Init /\ [][Next]_vars

-----------------------------------------------------------------------------
KeptIds == UNION {Ids(Content(i)) : i \in DOMAIN file}

\* What is in a file, or will be when the buffer is written.
Pending(i) == IF i = 0 THEN Content(0) \o buffer ELSE Content(i)

Increasing(pieces) == \A j, k \in 1..Len(pieces) : j < k => pieces[j].id < pieces[k].id

(* The backups from the oldest to base_path and then the buffer hold lines
   in the order of log(), none twice, whenever the process is killed and
   whatever fails; and unless a file that exists could not be renamed, they
   are the newest of the lines that have reached a file: "the oldest is
   discarded" (rotating_file_sink.hpp:13-16, 50-65).                       *)
KeptIsNewest ==
  /\ \A i \in DOMAIN file : Increasing(Pending(i))
  /\ \A i, j \in DOMAIN file :
       j < i => \A older \in Ids(Pending(i)), newer \in Ids(Pending(j)) : older < newer
  /\ ~unrenamed => \A gone \in reached \ KeptIds : \A id \in KeptIds : gone < id

(* "When writing the next line would push the file past max_bytes, the sink
   rotates" (rotating_file_sink.hpp:13-14): no file is larger than max_bytes
   but with a single line, across restarts and failures, and counting what
   is still in the buffer.                                                 *)
SizeBounded ==
  max_bytes_ # 0 =>
    \A i \in DOMAIN file : Bytes(Pending(i)) <= max_bytes_ \/ Len(Pending(i)) = 1

(* Lines are discarded only to make room: if one has gone from the files,
   every one of the max_files backups is there between two calls of log(),
   unless the process was killed or an operation failed
   (rotating_file_sink.hpp:15).                                            *)
DiscardsWhenFull ==
  reached \subseteq KeptIds \/ crashes + faults > 0 \/ at # "idle"
    \/ \A i \in 1..max_files_ : file[i] # Absent

\* The last line that can be anywhere.
Past == IF at = "idle" THEN lines ELSE lines - 1

Rolling == INSTANCE RollingLog WITH
  given <- Past, written <- KeptIds, waiting <- Ids(buffer),
  calm <- crashes + faults = 0, whole <- ~unrenamed

(* The files, their names, sizes and renamings, kills and restarts are a log
   that is cut at its old end (rotating_file_sink.hpp:13-16, 26-65).        *)
RollingSpec == Rolling!Spec
=============================================================================
