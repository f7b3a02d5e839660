------------------------ MODULE ObjectSearch_proofs -------------------------
(***************************************************************************)
(* A search in pages is complete and returns no handle twice, for object   *)
(* tables of any size and any calls between the pages.                     *)
(*                                                                         *)
(* The invariant says where the search stands: the handles up to the       *)
(* position have been dealt with, those after it have not.                 *)
(***************************************************************************)
EXTENDS ObjectSearch, TLAPS

(* The position the scan stops at is in the table, not before the old one,  *)
(* and is the end of the table if the page is not full.                     *)
LEMMA NextPosition ==
  ASSUME TypeOK, NEW max \in 0..MaxKeys
  PROVE  /\ NextPos(max) \in pos..MaxKeys
         /\ Cardinality(Visited(NextPos(max))) < max => NextPos(max) = MaxKeys
<1>. DEFINE F == Filled(max)
<1>1. MaxKeys \in Nat /\ max \in Nat /\ pos \in Nat /\ F \subseteq pos..MaxKeys
  BY ObjectSearchAssumption DEF TypeOK, Filled
<1>2. CASE F = {}
  BY <1>1, <1>2 DEF NextPos, TypeOK
<1>3. CASE F # {}
  <2>1. NextPos(max) \in F
    BY <1>3 DEF NextPos
  <2>. QED
    BY <2>1, <1>1 DEF Filled
<1>. QED
  BY <1>2, <1>3

-----------------------------------------------------------------------------
(* Types: the position stays within the table, whatever page sizes are      *)
(* asked for (C_FindObjects).                                               *)
THEOREM TypeCorrect == Spec => []TypeOK
<1>1. Init => TypeOK
  <2>. SUFFICES ASSUME Init PROVE TypeOK
    OBVIOUS
  <2>1. pos \in 0..MaxKeys
    BY ObjectSearchAssumption DEF Init
  <2>2. active \in BOOLEAN /\ twice \in BOOLEAN /\ ended \in BOOLEAN
    BY Zenon DEF Init
  <2>. QED
    BY <2>1, <2>2 DEF Init, TypeOK
<1>2. TypeOK /\ [Next]_vars => TypeOK'
  <2>. SUFFICES ASSUME TypeOK, [Next]_vars PROVE TypeOK'
    OBVIOUS
  <2>. USE ObjectSearchAssumption DEF TypeOK
  <2>1. CASE UNCHANGED vars
    BY <2>1 DEF vars
  <2>2. CASE FindInit
    <3>1. pos' \in 0..MaxKeys
      BY <2>2 DEF FindInit
    <3>2. active' \in BOOLEAN /\ twice' \in BOOLEAN /\ ended' \in BOOLEAN
      BY <2>2, Zenon DEF FindInit
    <3>. QED
      BY <2>2, <3>1, <3>2 DEF FindInit
  <2>3. CASE FindFinal
    <3>1. active' \in BOOLEAN /\ twice' \in BOOLEAN /\ ended' \in BOOLEAN
      BY <2>3, Zenon DEF FindFinal, Forgotten
    <3>. QED
      BY <2>3, <3>1 DEF FindFinal, Forgotten
  <2>4. CASE LogOut
    <3>1. pos' \in 0..MaxKeys
      BY <2>4 DEF LogOut
    <3>2. active' \in BOOLEAN /\ twice' \in BOOLEAN /\ ended' \in BOOLEAN
      BY <2>4, Zenon DEF LogOut, Forgotten
    <3>. QED
      BY <2>4, <3>1, <3>2 DEF LogOut, Forgotten
  <2>5. ASSUME NEW max \in 0..MaxKeys, FindObjects(max) PROVE TypeOK'
    <3>1. pos' \in pos..MaxKeys /\ found' \subseteq Handles
      BY <2>5, NextPosition DEF FindObjects, Page, Visited
    <3>2. UNCHANGED <<matching, active, steady>> /\ twice' \in BOOLEAN /\ ended' \in BOOLEAN
      BY <2>5 DEF FindObjects, Page
    <3>. QED
      BY <3>1, <3>2
  <2>6. ASSUME NEW M \in SUBSET Handles, Change(M) PROVE TypeOK'
    BY <2>6 DEF Change
  <2>. QED
    BY <2>1, <2>2, <2>3, <2>4, <2>5, <2>6 DEF Next
<1>. QED
  BY <1>1, <1>2, PTL DEF Spec

-----------------------------------------------------------------------------
(* Where an active search stands.                                           *)
SearchInv ==
  active =>
    /\ steady \subseteq matching
    /\ \A h \in found : h <= pos
    /\ \A h \in steady : h <= pos => h \in found
    /\ ended => pos = MaxKeys
    /\ ~twice

(* A page moves the position, and with it the border between the handles    *)
(* dealt with and the others.                                               *)
LEMMA SearchPage ==
  ASSUME TypeOK, SearchInv, NEW max \in 0..MaxKeys, FindObjects(max)
  PROVE  SearchInv'
<1>. DEFINE q == NextPos(max)
<1>1. /\ active /\ active' = active /\ matching' = matching /\ steady' = steady
      /\ pos' = q /\ found' = found \cup Visited(q)
      /\ twice' = (twice \/ Visited(q) \cap found # {})
      /\ ended' = (Cardinality(Visited(q)) < max)
  BY DEF FindObjects, Page
<1>2. pos \in Nat /\ q \in Nat /\ pos <= q /\ Handles \subseteq Nat
  BY NextPosition, ObjectSearchAssumption DEF TypeOK, Handles
<1>3. Visited(q) \subseteq Handles /\ \A h \in Visited(q) : pos < h /\ h <= q
  BY DEF Visited, TypeOK
<1>4. \A h \in found : h <= pos /\ h \in Nat
  BY <1>1, <1>2 DEF SearchInv, TypeOK
<1>5. Visited(q) \cap found = {}
  <2>. SUFFICES ASSUME NEW h \in Visited(q), h \in found PROVE FALSE
    OBVIOUS
  <2>1. pos < h /\ h <= pos /\ h \in Nat
    BY <1>3, <1>4
  <2>. QED
    BY <2>1, <1>2
<1>6. \A h \in found' : h <= pos'
  <2>. SUFFICES ASSUME NEW h \in found \cup Visited(q) PROVE h <= q
    BY <1>1
  <2>. QED
    BY <1>2, <1>3, <1>4
<1>7. \A h \in steady' : h <= pos' => h \in found'
  <2>. SUFFICES ASSUME NEW h \in steady, h <= q PROVE h \in found \cup Visited(q)
    BY <1>1
  <2>1. h \in matching /\ h \in Nat
    BY <1>1, <1>2 DEF SearchInv, TypeOK
  <2>2. CASE h <= pos
    BY <2>2, <1>1 DEF SearchInv
  <2>3. CASE pos < h
    BY <2>1, <2>3 DEF Visited
  <2>. QED
    BY <2>1, <2>2, <2>3, <1>2
<1>8. ended' => pos' = MaxKeys
  BY <1>1, NextPosition
<1>9. ~twice'
  BY <1>1, <1>5 DEF SearchInv
<1>. QED
  BY <1>1, <1>6, <1>7, <1>8, <1>9 DEF SearchInv

(* The calls between the pages leave the border where it is.                *)
LEMMA SearchInvariant == Spec => []SearchInv
<1>1. Init => SearchInv
  BY DEF Init, SearchInv
<1>2. TypeOK /\ SearchInv /\ [Next]_vars => SearchInv'
  <2>. SUFFICES ASSUME TypeOK, SearchInv, [Next]_vars PROVE SearchInv'
    OBVIOUS
  <2>1. CASE UNCHANGED vars
    BY <2>1 DEF vars, SearchInv
  <2>2. CASE FindInit
    <3>1. \A h \in steady' : h \in Nat \ {0}
      BY <2>2, ObjectSearchAssumption DEF FindInit, TypeOK, Handles
    <3>. QED
      BY <2>2, <3>1 DEF FindInit, SearchInv
  <2>3. CASE FindFinal \/ LogOut
    BY <2>3 DEF FindFinal, LogOut, SearchInv
  <2>4. ASSUME NEW max \in 0..MaxKeys, FindObjects(max) PROVE SearchInv'
    BY <2>4, SearchPage
  <2>5. ASSUME NEW M \in SUBSET Handles, Change(M) PROVE SearchInv'
    BY <2>5 DEF Change, SearchInv
  <2>. QED
    BY <2>1, <2>2, <2>3, <2>4, <2>5 DEF Next
<1>. QED
  BY <1>1, <1>2, TypeCorrect, PTL DEF Spec

(* When a page of C_FindObjects is not full, every object that was there,   *)
(* and matched, since C_FindObjectsInit has been returned.                  *)
THEOREM SearchIsComplete == Spec => []FoundAll
<1>1. TypeOK /\ SearchInv => FoundAll
  BY ObjectSearchAssumption DEF TypeOK, SearchInv, FoundAll, Handles
<1>. QED
  BY <1>1, TypeCorrect, SearchInvariant, PTL

(* One search returns no handle twice (C_FindObjects never goes back).      *)
THEOREM SearchIsWithoutRepeats == Spec => []FoundOnce
<1>1. SearchInv => FoundOnce
  BY DEF SearchInv, FoundOnce
<1>. QED
  BY <1>1, SearchInvariant, PTL
=============================================================================
