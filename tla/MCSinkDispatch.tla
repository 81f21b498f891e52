--------------------------- MODULE MCSinkDispatch --------------------------
(* SinkDispatch for TLC.                                                   *)
EXTENDS SinkDispatch

Symmetry == Permutations(Callers)
=============================================================================
