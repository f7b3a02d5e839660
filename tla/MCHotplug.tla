----------------------------- MODULE MCHotplug ------------------------------
(* Instances of Hotplug for TLC: every token and file has its own slot.     *)
EXTENDS Hotplug

(* What else can be there is reached by changes before C_Initialize.        *)
NothingOrDrive == {{}, Files \cup {Drive}}
NothingOrToken == {{}, Tokens}

OneOfAKind == [d \in Tokens \cup Files |-> d]
=============================================================================
