--------------------------- MODULE MCAsyncLogger ---------------------------
(* AsyncLogger for TLC: the programs never end, so that liveness is not a   *)
(* consequence of running out of statements.                                *)
EXTENDS AsyncLogger

\* Two slots and a batch of one: the queue fills while the worker is writing.
Blocking == [mode |-> "Async", overflow |-> "Block", capacity |-> 2, batch_size |-> 1]
\* Capacity 0 becomes one slot, and batch size 0 a batch of one.
Narrow == [mode |-> "Async", overflow |-> "Block", capacity |-> 0, batch_size |-> 0]
\* A batch may hold more than the queue.
Dropping == [mode |-> "Async", overflow |-> "DropNewest", capacity |-> 0, batch_size |-> 2]
Inline == [mode |-> "Sync", overflow |-> "Block", capacity |-> 2, batch_size |-> 0]

AllModes == {Blocking, Narrow, Dropping, Inline}
AsyncModes == {Blocking, Dropping}
=============================================================================
