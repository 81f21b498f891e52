--------------------------- MODULE MCRecordFields --------------------------
(* BoundFields and ScopedContext for TLC: the fields of a record that come  *)
(* from its logger and those that come from its thread.  They meet in a     *)
(* record only one after the other, so a behaviour is one of either.        *)
EXTENDS BoundFields, TLC

CONSTANTS Threads, Scopes, KvFields, Levels, LevelNone, EnvTexts, MaxFields, OffsetModulus

VARIABLES slot, storage, mark, alive, record, min_level, calls, said, meant, nested, orderly,
          part  \* "bound" or "scoped"

Scoped == INSTANCE ScopedContext WITH Fields <- KvFields

ASSUME ContextAssumption ==
  Scoped!ScopesAssumption /\ Scoped!OffsetAssumption /\ Scoped!CharactersAssumption

scoped == <<slot, storage, mark, alive, record, min_level, calls, said, meant, nested, orderly>>

MCInit == Init /\ Scoped!Init /\ part \in {"bound", "scoped"}

MCNext ==
  \/ part = "bound" /\ Next /\ UNCHANGED <<scoped, part>>
  \/ part = "scoped" /\ Scoped!Next /\ UNCHANGED <<vars, part>>

MCSpec == MCInit /\ [][MCNext]_<<vars, scoped, part>>

-----------------------------------------------------------------------------
(* The thread-local pointer never dangles, in whatever order scopes end
   (logger.hpp:111-127).                                                   *)
PointerIsLive == Scoped!PointerIsLive

(* A well-nested context is exactly its living scopes' fields
   (logger.hpp:116-126).                                                   *)
ContextIsItsScopes == Scoped!ContextIsItsScopes

(* A record has its thread's context at its creation and its own fields, or
   none below the level (logger.hpp:417-433).                              *)
RecordIsWhole == Scoped!RecordIsWhole
-----------------------------------------------------------------------------

ShortField == [key |-> <<"k">>, val |-> <<"1">>]
LongField == [key |-> <<"l">>, val |-> <<"\"", "x", "\"">>]
ShortAndLong == {ShortField, LongField}

SomeTexts == {[word |-> "off", length |-> 3], [word |-> "debug", length |-> 5],
              [word |-> "verbose", length |-> 7], [word |-> "debug", length |-> 16]}

Symmetry == Permutations(Threads) \cup Permutations(Scopes)
=============================================================================
