-------------------------- MODULE MCScopedContext --------------------------
(* ScopedContext for TLC: a short and a long field.                        *)
EXTENDS ScopedContext

ShortField == [key |-> <<"k">>, val |-> <<"1">>]
LongField == [key |-> <<"l">>, val |-> <<"\"", "x", "\"">>]

ShortAndLong == {ShortField, LongField}
=============================================================================
