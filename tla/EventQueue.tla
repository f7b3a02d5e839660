----------------------------- MODULE EventQueue -----------------------------
(***************************************************************************)
(* What the hotplug queue of src/src/wp11_pkcs11.c promises: a FIFO of     *)
(* slot events of bounded length that never loses an event in silence.  An *)
(* event that finds the queue full is counted.                             *)
(***************************************************************************)
EXTENDS Naturals, Sequences

CONSTANTS Events, Capacity

VARIABLES queue, dropped

Init == queue = <<>> /\ dropped = 0

Push(e) ==
  IF Len(queue) < Capacity
  THEN queue' = Append(queue, e) /\ UNCHANGED dropped
  ELSE dropped' = dropped + 1 /\ UNCHANGED queue

Take == queue # <<>> /\ queue' = Tail(queue) /\ UNCHANGED dropped

(* C_Initialize starts with an empty queue. *)
Reset == queue' = <<>> /\ dropped' = 0

Next == (\E e \in Events : Push(e)) \/ Take \/ Reset

Spec == Init /\ [][Next]_<<queue, dropped>>
=============================================================================
