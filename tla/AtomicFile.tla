----------------------------- MODULE AtomicFile -----------------------------
(* What the comments of wp11_keystore_create promise of the file at a path: *)
(* a reader finds the old keystore or the new one, and so does a reader     *)
(* after a power failure, which may bring back an older one.                *)
CONSTANTS Values, NoFile

VARIABLES
  now,      \* what opening the path finds
  stable    \* what opening the path finds after a power failure

Init == now = NoFile /\ stable = NoFile

Replace == now' \in Values /\ UNCHANGED stable

Reach == stable' = now /\ UNCHANGED now

PowerLoss == now' = stable /\ UNCHANGED stable

Next == Replace \/ Reach \/ PowerLoss

Spec == Init /\ [][Next]_<<now, stable>>
=============================================================================
