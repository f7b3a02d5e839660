--------------------------- MODULE MCKeystoreFile ---------------------------
(* An instance of KeystoreFile for TLC.  Keys are interchangeable, and PINs *)
(* are.                                                                     *)
EXTENDS KeystoreFile, TLC

Symmetry == Permutations(Keys) \cup Permutations(Pins)
=============================================================================
