---------------------------- MODULE RollingLog ----------------------------
(***************************************************************************)
(* What a log that is cut at its old end promises of the lines it is given: *)
(* new lines go behind all others, the oldest are discarded, and what has   *)
(* been written goes in no other way.  A line that waits to be written is   *)
(* lost only if the process is killed or an operation fails, and then with  *)
(* all that are newer.  Nothing is said of files, their names and sizes, or *)
(* of restarts.  A line is its number.                                      *)
(***************************************************************************)
EXTENDS Integers

VARIABLES
  given,    \* the lines there have been
  written,  \* those that are kept and would outlive the process
  waiting,  \* those that are yet to be written
  calm,     \* has the process never been killed, nor any operation failed?
  whole     \* has no name been lost to a renaming that failed?

vars == <<given, written, waiting, calm, whole>>

Older(S, T) == \A old \in S, new \in T : old < new

Init == given = 0 /\ written = {} /\ waiting = {} /\ calm = TRUE /\ whole = TRUE

Take ==
  /\ given' = given + 1
  /\ waiting' = waiting \cup {given'}
  /\ UNCHANGED written

Miss ==
  /\ ~calm'
  /\ given' = given + 1
  /\ UNCHANGED <<written, waiting>>

Write ==
  /\ written' = written \cup waiting
  /\ waiting' = {}
  /\ UNCHANGED given

\* Some of the lines that wait are written, the newer ones lost, and so is a
\* line that was about to be taken.
Break ==
  /\ ~calm'
  /\ \E part \in SUBSET waiting :
       Older(part, waiting \ part) /\ written' = written \cup part
  /\ waiting' = {}
  /\ given' \in {given, given + 1}

Discard ==
  /\ waiting = {}
  /\ \E old \in SUBSET written :
       /\ whole' => Older(old, written \ old)
       /\ written' = written \ old
  /\ UNCHANGED <<given, waiting>>

Next ==
  /\ calm' => calm
  /\ whole' => whole
  /\ Take \/ Miss \/ Write \/ Break \/ Discard

Spec == Init /\ [][Next]_vars
=============================================================================
