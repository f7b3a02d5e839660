----------------------------- MODULE MCCryptoki -----------------------------
(* Instances of Cryptoki for TLC.  A slot is named by the protocol of its   *)
(* token, so that the set Slots of a configuration says which tokens there  *)
(* are.                                                                     *)
EXTENDS Cryptoki

ProtoByName == [t \in Slots |-> t]
=============================================================================
