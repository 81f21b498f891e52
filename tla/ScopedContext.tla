--------------------------- MODULE ScopedContext ---------------------------
(***************************************************************************)
(* Where the fields of a log record come from on the logging thread:        *)
(* ScopedContext objects, which share the storage of the outermost of them, *)
(* and LogRecord (include/clogpp/logger.hpp).  A ScopedContext can be       *)
(* created with new, so a thread may destroy its scopes in any order, and   *)
(* add fields through any of them.                                         *)
(***************************************************************************)
EXTENDS FieldSets

CONSTANTS
  Threads,
  Scopes,     \* ScopedContext objects
  None,       \* no scope, no storage, no record
  Fields,     \* arguments of kv()
  Levels,     \* the levels of log statements and of the logger
  LevelNone,  \* Level::None: switches the logger off
  EnvTexts,   \* what CLOG_LEVEL may be set to: [word, length], in any case
  MaxFields   \* calls of kv() in a behaviour

LogRecord == [active : BOOLEAN, fields : FieldSet]

\* What every use of this module assumes of its constants.
ScopesAssumption ==
  /\ None \notin Scopes /\ None \notin FieldSet /\ None \notin LogRecord
  /\ Fields \subseteq [key : Seq(STRING), val : Seq(STRING)]
  /\ LevelNone = 6 /\ Levels \subseteq 0..LevelNone
  /\ EnvTexts \subseteq [word : STRING, length : Nat]
  /\ MaxFields \in Nat

VARIABLES
  slot,       \* the thread-local pointer: the scope whose storage it points to
  storage,    \* storage_ of each scope
  mark,       \* fields_mark_ and bytes_mark_
  alive,      \* the scopes a thread has, in the order of their construction
  record,     \* the LogRecord a thread is building
  min_level,  \* min_level_ of the logger
  calls,      \* how often kv() was called
  said,       \* what its living scopes were told, in order
  meant,      \* what the record's fields should be, if its context was right
  nested,     \* has the thread destroyed its scopes innermost first ...
  orderly     \* ... and called kv() on the innermost only?

context == <<slot, storage, mark, alive>>
history == <<said, nested, orderly>>
vars == <<context, record, min_level, calls, meant, history>>

NoMark == [fields |-> 0, bytes |-> 0]
Nothing == [fields |-> <<>>, trusted |-> FALSE]

Init ==
  /\ slot = [t \in Threads |-> None]
  /\ storage = [s \in Scopes |-> None]
  /\ mark = [s \in Scopes |-> NoMark]
  /\ alive = [t \in Threads |-> <<>>]
  /\ record = [t \in Threads |-> None]
  /\ min_level \in Levels
  /\ calls = 0
  /\ said = [t \in Threads |-> <<>>]
  /\ meant = [t \in Threads |-> Nothing]
  /\ nested = [t \in Threads |-> TRUE]
  /\ orderly = [t \in Threads |-> TRUE]

Alive(t) == {alive[t][i] : i \in 1..Len(alive[t])}
Innermost(t) == alive[t][Len(alive[t])]

\* detail::thread_context()
thread_context(t) == storage[slot[t]]

Context(t) == IF slot[t] = None THEN EmptyFields ELSE thread_context(t)

\* A sequence without the members of a set.
Without(seq, out) ==
  LET left[n \in 0..Len(seq)] ==
        IF n = 0 THEN <<>>
        ELSE IF seq[n] \in out THEN left[n - 1] ELSE Append(left[n - 1], seq[n])
  IN  left[Len(seq)]

\* The fields a thread's living scopes were told.
Told(t) == [i \in 1..Len(said[t]) |-> said[t][i].field]

-----------------------------------------------------------------------------
(* Mistakes the code could have had; no specification uses them.            *)

\* Every scope that ends resets the pointer, not only the outermost.
PopFieldsAlways(t, s) ==
  /\ slot' = [slot EXCEPT ![t] = None]
  /\ UNCHANGED storage

\* Only the number of fields is remembered.
MarkOfFields(fs) == [fields |-> size(fs), bytes |-> 0]

\* The pointer is static, not thread_local.
PreparedAnywhere(t) ==
  IF \A other \in Threads : slot[other] = None THEN EmptyFields
  ELSE append(EmptyFields, thread_context(CHOOSE other \in Threads : slot[other] # None))

-----------------------------------------------------------------------------
(* ScopedContext.                                                          *)

MarkOf(fs) == [fields |-> size(fs), bytes |-> byte_size(fs)]

Construct(t, s) ==
  /\ \A other \in Threads : s \notin Alive(other)
  /\ IF slot[t] = None
       THEN /\ storage' = [storage EXCEPT ![s] = EmptyFields]
            /\ slot' = [slot EXCEPT ![t] = s]
            /\ mark' = [mark EXCEPT ![s] = NoMark]
       ELSE /\ storage' = [storage EXCEPT ![s] = None]
            /\ mark' = [mark EXCEPT ![s] = MarkOf(thread_context(t))]
            /\ UNCHANGED slot
  /\ alive' = [alive EXCEPT ![t] = Append(@, s)]
  /\ UNCHANGED <<record, min_level, calls, meant, history>>

\* The thread's context, whichever scope is asked.
target(t) == slot[t]

\* FieldBuilder::kv()
ScopeKv(t, s, f) ==
  /\ s \in Alive(t)
  /\ calls < MaxFields
  /\ calls' = calls + 1
  /\ IF target(t) # None
       THEN storage' = [storage EXCEPT ![target(t)] = add(@, f)]
       ELSE UNCHANGED storage
  /\ said' = [said EXCEPT ![t] = Append(@, [scope |-> s, field |-> f])]
  /\ orderly' = [orderly EXCEPT ![t] = @ /\ s = Innermost(t)]
  /\ UNCHANGED <<slot, mark, alive, record, min_level, meant, nested>>

\* What ~ScopedContext does to the context.
PopFields(t, s) ==
  IF storage[s] # None
    THEN /\ slot' = [slot EXCEPT ![t] = None]
         /\ storage' = [storage EXCEPT ![s] = None]
    ELSE /\ IF slot[t] # None
              THEN storage' = [storage EXCEPT ![slot[t]] =
                                 truncate(@, mark[s].fields, mark[s].bytes)]
              ELSE UNCHANGED storage
         /\ UNCHANGED slot

\* A thread without scopes starts afresh.
Destruct(t, s) ==
  /\ s \in Alive(t)
  /\ PopFields(t, s)
  /\ alive' = [alive EXCEPT ![t] = Without(@, {s})]
  /\ mark' = [mark EXCEPT ![s] = NoMark]
  /\ said' = [said EXCEPT ![t] = Without(@, [scope : {s}, field : Fields])]
  /\ nested' = [nested EXCEPT ![t] = Len(alive[t]) = 1 \/ (@ /\ s = Innermost(t))]
  /\ orderly' = [orderly EXCEPT ![t] = Len(alive[t]) = 1 \/ @]
  /\ UNCHANGED <<record, min_level, calls, meant>>

-----------------------------------------------------------------------------
(* LogRecord.                                                              *)

SetLevel(lvl) ==
  /\ min_level' = lvl
  /\ UNCHANGED <<context, record, calls, meant, history>>

\* The names and aliases of levels; words are compared in lower case.
LevelNamed ==
  [trace |-> 0, debug |-> 1, info |-> 2, warning |-> 3, warn |-> 3, error |-> 4, err |-> 4,
   critical |-> 5, fatal |-> 5, none |-> 6, off |-> 6]

parse_level(text) ==
  IF text.length \in 1..15 /\ text.word \in DOMAIN LevelNamed THEN LevelNamed[text.word] ELSE None

\* set_level_from_env(), with the variable set; a text that names no level
\* changes nothing.
SetLevelFromEnv(text) == parse_level(text) # None /\ SetLevel(parse_level(text))

enabled(lvl) == lvl # LevelNone /\ lvl >= min_level

\* prepare(): the fields a record starts with.
Prepared(t) ==
  IF slot[t] = None \/ size(Context(t)) = 0 THEN EmptyFields
  ELSE append(EmptyFields, Context(t))

\* A statement begins: make_record and LogRecord's constructor.
MakeRecord(t, lvl) ==
  /\ record[t] = None
  /\ record' = [record EXCEPT ![t] =
       [active |-> enabled(lvl), fields |-> IF enabled(lvl) THEN Prepared(t) ELSE EmptyFields]]
  /\ meant' = [meant EXCEPT ![t] =
       [fields |-> IF enabled(lvl) THEN Told(t) ELSE <<>>, trusted |-> nested[t] /\ orderly[t]]]
  /\ UNCHANGED <<context, min_level, calls, history>>

RecordKv(t, f) ==
  /\ record[t] # None
  /\ calls < MaxFields
  /\ calls' = calls + 1
  /\ IF record[t].active
       THEN /\ record' = [record EXCEPT ![t].fields = add(@, f)]
            /\ meant' = [meant EXCEPT ![t].fields = Append(@, f)]
       ELSE UNCHANGED <<record, meant>>
  /\ UNCHANGED <<context, min_level, history>>

\* LogRecord's move constructor: another object, on any thread, ends the
\* statement, and the one moved from ends without effect.
MoveRecord(t, other) ==
  /\ record[t] # None /\ record[other] = None
  /\ record' = [record EXCEPT ![other] = record[t], ![t] = [active |-> FALSE, fields |-> EmptyFields]]
  /\ meant' = [meant EXCEPT ![other] = meant[t], ![t] = Nothing]
  /\ UNCHANGED <<context, min_level, calls, history>>

\* The statement ends: submit() if the record is active.
EndRecord(t) ==
  /\ record[t] # None
  /\ record' = [record EXCEPT ![t] = None]
  /\ meant' = [meant EXCEPT ![t] = Nothing]
  /\ UNCHANGED <<context, min_level, calls, history>>

-----------------------------------------------------------------------------
Next ==
  \/ \E t \in Threads :
       \/ \E s \in Scopes : \/ Construct(t, s) \/ Destruct(t, s)
                            \/ \E f \in Fields : ScopeKv(t, s, f)
       \/ \E lvl \in Levels : MakeRecord(t, lvl)
       \/ \E f \in Fields : RecordKv(t, f)
       \/ EndRecord(t)
       \/ \E other \in Threads : MoveRecord(t, other)
  \/ \E lvl \in Levels : SetLevel(lvl)
  \/ \E text \in EnvTexts : SetLevelFromEnv(text)

Spec == Init /\ [][Next]_vars

-----------------------------------------------------------------------------
(* The thread-local pointer never dangles, and no storage is forgotten, in
   whatever order the scopes are destroyed: it points to the storage of a
   living scope, and that is the only one (logger.hpp:111-127).             *)
PointerIsLive ==
  /\ \A t \in Threads : slot[t] # None => slot[t] \in Alive(t)
  /\ \A s \in Scopes : storage[s] # None <=> \E t \in Threads : slot[t] = s

(* If a thread destroys its scopes innermost first and adds fields to the
   innermost only, its context is at any time exactly what its living scopes
   were told, outermost scope first, to both formatters (README.md:162,
   logger.hpp:116-126).                                                    *)
ContextIsItsScopes ==
  \A t \in Threads : nested[t] /\ orderly[t] => Says(Context(t), Told(t))

(* A record has the context of its thread at its creation, no matter what
   becomes of the scopes and of other threads' before it ends, then the
   fields of its own statement; a record below the level at its creation has
   none and gets none (logger.hpp:417-433, core.hpp:244-254).               *)
RecordIsWhole ==
  \A t \in Threads : record[t] # None =>
    /\ meant[t].trusted => Says(record[t].fields, meant[t].fields)
    /\ ~record[t].active => record[t].fields = EmptyFields

(* "Nest freely; each scope pops its own fields" (logger.hpp:92): as long as
   scopes are destroyed innermost first, what a living scope was told stays
   in the context.                                                         *)
EachScopePopsItsOwn == \A t \in Threads : nested[t] => Says(Context(t), Told(t))
=============================================================================
