------------------------ MODULE MCAsyncLoggerHistory ------------------------
(* AsyncLoggerHistory for TLC: a queue of one slot, which three statements  *)
(* fill while the worker has one and a thread in the sinks logs another, a  *)
(* batch that takes two of a queue of two, and sync mode.                   *)
EXTENDS AsyncLoggerHistory, TLC

Blocking == [mode |-> "Async", overflow |-> "Block", capacity |-> 1, batch_size |-> 1]
Dropping == [mode |-> "Async", overflow |-> "DropNewest", capacity |-> 2, batch_size |-> 2]
Inline == [mode |-> "Sync", overflow |-> "Block", capacity |-> 2, batch_size |-> 0]

AllModes == {Blocking, Dropping, Inline}
AsyncModes == {Blocking, Dropping}
Symmetry == Permutations(Clients)
=============================================================================
