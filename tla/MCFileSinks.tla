---------------------------- MODULE MCFileSinks ----------------------------
(* The sinks for TLC: a behaviour is that of one sink, and the variables     *)
(* that the specifications name alike are the same.                        *)
EXTENDS RotatingFileSink

CONSTANTS
  DailyLimits, DayTicks, Days, DailyLines,
  Capacities, Loggers, PlainLines, PlainFaults

VARIABLES
  sink,
  time, file_, bad, next_rotation_, doomed, unlinked, misled, logged, pruned,
  capacity_, kept, ending, shared, starts, resumes, cleared

Daily == INSTANCE DailyFileSink WITH Limits <- DailyLimits, MaxLines <- DailyLines
Plain == INSTANCE PlainSinks WITH MaxLines <- PlainLines, MaxFaults <- PlainFaults

ASSUME SinksAssumption == Daily!DailyAssumption /\ Plain!PlainAssumption

rotatingOnly == <<max_bytes_, stream, current_size_, at, shift, crashes, unrenamed, reached>>
dailyOnly == <<time, file_, bad, next_rotation_, doomed, unlinked, misled, logged, pruned>>
plainOnly == <<capacity_, kept, ending, shared, starts, resumes, cleared>>
common == <<max_files_, running, buffer, rotations_, line, file, lines, faults>>
all == <<sink, rotatingOnly, dailyOnly, plainOnly, common>>

NoRotating ==
  max_bytes_ = 0 /\ current_size_ = 0 /\ at = "idle" /\ shift = 0 /\ unrenamed = FALSE /\ reached = {}
NoDaily ==
  /\ time = 0 /\ file_ = Absent /\ bad = FALSE /\ next_rotation_ = 0 /\ doomed = {}
  /\ unlinked = FALSE /\ misled = FALSE /\ logged = {} /\ pruned = {}
NoPlain ==
  /\ capacity_ = 0 /\ kept = <<>> /\ ending = [l \in Loggers |-> 0] /\ shared = {}
  /\ starts = {} /\ resumes = {} /\ cleared = 0

MCInit ==
  \/ sink = "rotating" /\ Init /\ NoDaily /\ NoPlain
  \/ sink = "daily" /\ Daily!Init /\ NoRotating /\ NoPlain /\ stream = "closed" /\ crashes = 0
  \/ /\ Plain!Init /\ NoRotating /\ NoDaily
     /\ max_files_ = 0 /\ rotations_ = 0 /\ line = NoLine /\ file = <<>>

MCNext ==
  \/ sink = "rotating" /\ Next /\ UNCHANGED <<sink, dailyOnly, plainOnly>>
  \/ sink = "daily" /\ Daily!Next /\ UNCHANGED <<sink, rotatingOnly, plainOnly>>
  \/ /\ sink \in {"file", "console", "memory"} /\ Plain!Next
     /\ UNCHANGED <<dailyOnly, max_bytes_, current_size_, at, shift, unrenamed, reached,
                    max_files_, rotations_, line, file>>

MCSpec == MCInit /\ [][MCNext]_all

-----------------------------------------------------------------------------
(* The rotating sink's files hold the newest lines in order
   (rotating_file_sink.hpp:50-65).                                         *)
RotatingKeepsNewest == sink = "rotating" => KeptIsNewest

(* Its files stay within max_bytes, but for a line that is longer
   (rotating_file_sink.hpp:28).                                            *)
RotatingBoundsSize == sink = "rotating" => SizeBounded

(* It discards no line that there was room for
   (rotating_file_sink.hpp:57-63).                                         *)
RotatingDiscardsWhenFull == sink = "rotating" => DiscardsWhenFull

(* The daily sink's lines are in the file of their day, if the clock can be
   trusted (daily_file_sink.hpp:40-44).                                    *)
LinesReachTheirDay == sink = "daily" => Daily!LinesReachTheirDay

(* What it prunes has max_files newer files (daily_file_sink.hpp:21-23).   *)
NewestDaysAreKept == sink = "daily" => Daily!NewestDaysAreKept

(* A file lacks lines only where a process ended, a console also where a
   write failed (file_sink.hpp:22-24, sinks.hpp:66-70).                    *)
StreamsHaveNoHoles == sink \in {"file", "console"} => Plain!NoHoles

(* The memory sink holds the newest lines (sinks.hpp:99-109).              *)
MemoryIsNewest == sink = "memory" => Plain!MemoryIsNewest
=============================================================================
