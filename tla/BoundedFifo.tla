---------------------------- MODULE BoundedFifo ----------------------------
(***************************************************************************)
(* What a bounded queue promises its producer and its consumer: values come *)
(* out in the order they went in, each once, and at most Capacity wait.     *)
(***************************************************************************)
EXTENDS Integers, Sequences

CONSTANTS Values, Capacity, NoValue

VARIABLES
  items,  \* what was put and not yet got, oldest first
  out     \* what the last Get delivered

vars == <<items, out>>

Init == items = <<>> /\ out = NoValue

Put(v) ==
  /\ Len(items) < Capacity
  /\ items' = Append(items, v)
  /\ out' = out

Get ==
  /\ items # <<>>
  /\ out' = Head(items)
  /\ items' = Tail(items)

Next == Get \/ \E v \in Values : Put(v)

Spec == Init /\ [][Next]_vars
=============================================================================
