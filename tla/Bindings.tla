----------------------------- MODULE Bindings -----------------------------
(***************************************************************************)
(* What a logger promises of the fields bound to it: they are a value.  A   *)
(* bind statement replaces them all at once, when it ends, with those it    *)
(* found when it began and its own behind them, and a record has those of   *)
(* its creation.  Nothing is said of sets that are shared, of references to *)
(* them or of locks.                                                       *)
(***************************************************************************)
EXTENDS Sequences

CONSTANTS
  Binders, Records,
  Statements,  \* the fields that a bind statement can have, in order
  None         \* no statement, no record

VARIABLES
  bindings,  \* the fields bound now
  found,     \* those that a statement found, which has not ended
  carried    \* those of a record

vars == <<bindings, found, carried>>

Init ==
  /\ bindings = <<>>
  /\ found = [b \in Binders |-> None]
  /\ carried = [r \in Records |-> None]

Begin(b) ==
  /\ found[b] = None
  /\ found' = [found EXCEPT ![b] = bindings]
  /\ UNCHANGED <<bindings, carried>>

End(b) ==
  /\ found[b] # None
  /\ \E own \in Statements : bindings' = found[b] \o own
  /\ found' = [found EXCEPT ![b] = None]
  /\ UNCHANGED carried

Unbind ==
  /\ bindings' = <<>>
  /\ UNCHANGED <<found, carried>>

Create(r) ==
  /\ carried[r] = None
  /\ carried' = [carried EXCEPT ![r] = bindings]
  /\ UNCHANGED <<bindings, found>>

Format(r) ==
  /\ carried[r] # None
  /\ carried' = [carried EXCEPT ![r] = None]
  /\ UNCHANGED <<bindings, found>>

Next ==
  \/ \E b \in Binders : Begin(b) \/ End(b)
  \/ Unbind
  \/ \E r \in Records : Create(r) \/ Format(r)

Spec == Init /\ [][Next]_vars
=============================================================================
