---------------------------- MODULE BoundFields ----------------------------
(***************************************************************************)
(* The fields bound to a logger (include/clogpp/logger.hpp): Binder takes a *)
(* copy of them, adds to its copy and swaps it in when the statement ends;  *)
(* a record takes a reference when it is created and is formatted later.    *)
(* Every critical section of bound_mutex_ is one action.                    *)
(***************************************************************************)
EXTENDS SequencesExt, FiniteSetsExt

CONSTANTS
  Binders,        \* Binder objects
  Records,        \* log records, in a statement or in the queue
  None,           \* no binder, no record
  MaxStatements,  \* bind statements in a behaviour
  MaxKv           \* calls of kv() in a bind statement

ASSUME BindersAssumption == MaxStatements \in Nat /\ MaxKv \in Nat

VARIABLES
  sets,        \* the const FieldSets that bound_ has pointed to
  bound,       \* bound_: a position in sets, Null for a null pointer
  binder,      \* the statement, snapshot and fields_ of a Binder
  entry,       \* e.bound of a record
  statements,  \* bind statements begun
  width,       \* the fields of the statements that have ended
  history,     \* the statements that have ended since unbind_all()
  overlapped,  \* has one of them replaced bindings it had not seen?
  atCreation   \* the bindings when the record was created

vars == <<sets, bound, binder, entry, statements, width, history, overlapped, atCreation>>

Null == 0

\* The k-th field of a bind statement.
Field == [stmt : 1..MaxStatements, nth : 1..MaxKv]

ASSUME NoneAssumption ==
  /\ None \notin Nat \cup Seq(Field)
  /\ None \notin [stmt : Nat, fields : Seq(Field), had : Nat, seen : Nat]

Pointee(p) == IF p = Null THEN <<>> ELSE sets[p]

Init ==
  /\ sets = <<>>
  /\ bound = Null
  /\ binder = [b \in Binders |-> None]
  /\ entry = [r \in Records |-> None]
  /\ statements = 0
  /\ width = <<>>
  /\ history = <<>>
  /\ overlapped = FALSE
  /\ atCreation = [r \in Records |-> <<>>]

-----------------------------------------------------------------------------
(* Mistakes the code could have had; no specification uses them.            *)

\* replace_bound()
ReplaceBound(fields) ==
  IF fields = <<>>
    THEN bound' = Null /\ UNCHANGED sets
    ELSE sets' = Append(sets, fields) /\ bound' = Len(sets')

\* ~Binder changes the bindings where they are, under the mutex.
EndBindInPlace(b) ==
  /\ binder[b] # None
  /\ IF bound = Null THEN ReplaceBound(binder[b].fields)
     ELSE sets' = [sets EXCEPT ![bound] = binder[b].fields] /\ UNCHANGED bound
  /\ binder' = [binder EXCEPT ![b] = None]
  /\ UNCHANGED <<entry, statements, width, history, overlapped, atCreation>>

\* A Binder starts from nothing.
SnapshotOfNothing == <<>>

\* kv() of a Binder takes effect at once.
BinderKvAtOnce(b) ==
  /\ binder[b] # None
  /\ Len(binder[b].fields) - binder[b].had < MaxKv
  /\ LET f == [stmt |-> binder[b].stmt, nth |-> Len(binder[b].fields) - binder[b].had + 1]
     IN  /\ binder' = [binder EXCEPT ![b].fields = Append(@, f)]
         /\ ReplaceBound(binder'[b].fields)
  /\ UNCHANGED <<entry, statements, width, history, overlapped, atCreation>>

-----------------------------------------------------------------------------
\* bound_snapshot()
Snapshot == Pointee(bound)

\* had, seen: the number of bound fields at the snapshot, and where they were.
BeginBind(b) ==
  /\ binder[b] = None
  /\ statements < MaxStatements
  /\ statements' = statements + 1
  /\ binder' = [binder EXCEPT ![b] =
       [stmt |-> statements', fields |-> Snapshot, had |-> Len(Snapshot), seen |-> bound]]
  /\ UNCHANGED <<sets, bound, entry, width, history, overlapped, atCreation>>

BinderKv(b) ==
  /\ binder[b] # None
  /\ Len(binder[b].fields) - binder[b].had < MaxKv
  /\ LET f == [stmt |-> binder[b].stmt, nth |-> Len(binder[b].fields) - binder[b].had + 1]
     IN  binder' = [binder EXCEPT ![b].fields = Append(@, f)]
  /\ UNCHANGED <<sets, bound, entry, statements, width, history, overlapped, atCreation>>

\* ~Binder
EndBind(b) ==
  /\ binder[b] # None
  /\ LET own == Len(binder[b].fields) - binder[b].had
     IN  /\ width' = Append(width, [stmt |-> binder[b].stmt, fields |-> own])
         /\ history' = history \o
              [k \in 1..own |-> [stmt |-> binder[b].stmt, nth |-> k]]
  /\ ReplaceBound(binder[b].fields)
  /\ overlapped' = (overlapped \/ bound # binder[b].seen)
  /\ binder' = [binder EXCEPT ![b] = None]
  /\ UNCHANGED <<entry, statements, atCreation>>

UnbindAll ==
  /\ ReplaceBound(<<>>)
  /\ history' = <<>>
  /\ overlapped' = FALSE
  /\ UNCHANGED <<binder, entry, statements, width, atCreation>>

\* prepare() of an active record: e.bound = bound_.
CreateRecord(r) ==
  /\ entry[r] = None
  /\ entry' = [entry EXCEPT ![r] = bound]
  /\ atCreation' = [atCreation EXCEPT ![r] = Pointee(bound)]
  /\ UNCHANGED <<sets, bound, binder, statements, width, history, overlapped>>

\* The record is formatted and released.
FormatRecord(r) ==
  /\ entry[r] # None
  /\ entry' = [entry EXCEPT ![r] = None]
  /\ atCreation' = [atCreation EXCEPT ![r] = <<>>]
  /\ UNCHANGED <<sets, bound, binder, statements, width, history, overlapped>>

Next ==
  \/ \E b \in Binders : BeginBind(b) \/ BinderKv(b) \/ EndBind(b)
  \/ UnbindAll
  \/ \E r \in Records : CreateRecord(r) \/ FormatRecord(r)

Spec == Init /\ [][Next]_vars

-----------------------------------------------------------------------------
Fields == Seq(Field)
Ref == 0..Len(sets)

(* Every variable has its type: bound_ is null or points to a set with
   fields in it, and so does a record's reference.                         *)
TypeOK ==
  /\ sets \in Seq(Fields \ {<<>>})
  /\ bound \in Ref
  /\ binder \in [Binders -> [stmt : 1..MaxStatements, fields : Fields, had : Nat, seen : Ref]
                            \cup {None}]
  /\ entry \in [Records -> Ref \cup {None}]
  /\ statements \in 0..MaxStatements
  /\ width \in Seq([stmt : 1..MaxStatements, fields : 0..MaxKv])
  /\ history \in Fields
  /\ overlapped \in BOOLEAN
  /\ atCreation \in [Records -> Fields]

(* A record is formatted with the bindings of its creation, however often
   they are replaced while it waits (logger.hpp:313-315, 429).             *)
RecordsKeepBindings ==
  \A r \in Records : entry[r] # None => Pointee(entry[r]) = atCreation[r]

\* The fields of a statement in a set, where they stand.
Places(fields, n) == {i \in 1..Len(fields) : fields[i].stmt = n}

Whole(fields, n, count) ==
  LET places == Places(fields, n)
  IN  places = {} \/ /\ Cardinality(places) = count
                     /\ \A i \in places : i = Min(places) + fields[i].nth - 1

(* A record has all fields of a bind statement, once, together and in order,
   or none of them, and none of a statement that has not ended
   (logger.hpp:317-331).                                                   *)
WholeStatements ==
  \A r \in Records : entry[r] # None =>
    \A n \in 1..statements :
      LET ended == {i \in 1..Len(width) : width[i].stmt = n}
      IN  IF ended = {} THEN Places(Pointee(entry[r]), n) = {}
          ELSE \A i \in ended : Whole(Pointee(entry[r]), n, width[i].fields)

(* The bindings are the fields of the bind statements since unbind_all(), in
   binding order (README.md:161), if no two statements overlapped.          *)
BindingsAccumulate == ~overlapped => Pointee(bound) = history

(* "binding is safe from any thread at any time" (docs/design.md:96-97): a
   field whose bind statement has ended is attached to the entries to come,
   until unbind_all().                                                     *)
NoBindingIsLost == ToSet(history) \subseteq ToSet(Pointee(bound))

\* All that bind statements can say.
Statements ==
  {[k \in 1..n |-> [stmt |-> stmt, nth |-> k]] : stmt \in 1..MaxStatements, n \in 0..MaxKv}

\* What a statement has found, and what a record has.
Found(b) == IF binder[b] = None THEN None ELSE Pointee(binder[b].seen)
Carried(r) == IF entry[r] = None THEN None ELSE Pointee(entry[r])

Value == INSTANCE Bindings WITH
  bindings <- Pointee(bound),
  found <- [b \in Binders |-> Found(b)],
  carried <- [r \in Records |-> Carried(r)]

(* Sets that are shared by reference and replaced under a mutex are as good
   as a value that everyone has a copy of (logger.hpp:313-331, 429, 527-536). *)
BindingsSpec == Value!Spec
=============================================================================
