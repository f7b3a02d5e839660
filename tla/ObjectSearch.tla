---------------------------- MODULE ObjectSearch ----------------------------
(***************************************************************************)
(* C_FindObjectsInit, C_FindObjects and C_FindObjectsFinal of              *)
(* src/src/wp11_pkcs11.c: one session walks the object table page by page  *)
(* while other calls add, change and destroy objects.                      *)
(*                                                                         *)
(* The template is abstracted to the set of handles whose object is on the *)
(* session's token and matches; every call runs under g_lock.              *)
(*                                                                         *)
(* A definition named X_Bad is X with a plausible programming error; no    *)
(* action uses it.  The README says which property each of them breaks.    *)
(***************************************************************************)
EXTENDS Naturals, FiniteSets

CONSTANT MaxKeys  \* MAX_KEYS

ASSUME ObjectSearchAssumption == MaxKeys \in Nat

Handles == 1..MaxKeys

VARIABLES
  matching,  \* handles whose object is in use, on the slot, and matches
  active,    \* find_active
  pos,       \* find_pos: table entries visited so far
  found,     \* handles returned since C_FindObjectsInit
  steady,    \* handles that have matched ever since C_FindObjectsInit
  twice,     \* a handle has been returned a second time
  ended      \* the last C_FindObjects returned fewer handles than asked for

vars == <<matching, active, pos, found, steady, twice, ended>>

Init ==
  /\ matching \in SUBSET Handles
  /\ active = FALSE /\ pos = 0
  /\ found = {} /\ steady = {} /\ twice = FALSE /\ ended = FALSE

FindInit_Bad ==
  /\ active' = TRUE
  /\ found' = {} /\ steady' = matching /\ twice' = FALSE /\ ended' = FALSE
  /\ UNCHANGED <<matching, pos>>

(* A second C_FindObjectsInit is refused; the template is copied. *)
FindInit ==
  /\ ~active
  /\ active' = TRUE /\ pos' = 0
  /\ found' = {} /\ steady' = matching /\ twice' = FALSE /\ ended' = FALSE
  /\ UNCHANGED matching

Visited(q) == {h \in matching : pos < h /\ h <= q}

(* Where a page of max handles is full: at the entry that fills it.         *)
Filled(max) ==
  {q \in pos..MaxKeys : (q = pos \/ q \in matching) /\ Cardinality(Visited(q)) = max}

NextPos(max) ==
  IF Filled(max) = {} THEN MaxKeys ELSE CHOOSE q \in Filled(max) : TRUE

Page_Bad(max) ==
  LET q == NextPos(max)
  IN  /\ pos' = IF q > pos THEN q - 1 ELSE q
      /\ found' = found \cup Visited(q)
      /\ twice' = (twice \/ Visited(q) \cap found # {})
      /\ ended' = (Cardinality(Visited(q)) < max)

Page(max) ==
  LET q == NextPos(max)
  IN  /\ pos' = q
      /\ found' = found \cup Visited(q)
      /\ twice' = (twice \/ Visited(q) \cap found # {})
      /\ ended' = (Cardinality(Visited(q)) < max)

FindObjects(max) ==
  /\ active
  /\ Page(max)
  /\ UNCHANGED <<matching, active, steady>>

(* The history of a search ends with it. *)
Forgotten == found' = {} /\ steady' = {} /\ twice' = FALSE /\ ended' = FALSE

FindFinal ==
  /\ active
  /\ active' = FALSE /\ Forgotten
  /\ UNCHANGED <<matching, pos>>

(* C_Logout ends the search, and the keys of the token go. *)
LogOut ==
  /\ active' = FALSE /\ pos' = 0
  /\ matching' \in SUBSET matching
  /\ Forgotten

(* Another call adds, relabels or destroys objects. *)
Change(M) ==
  /\ matching' = M
  /\ steady' = steady \cap M
  /\ UNCHANGED <<active, pos, found, twice, ended>>

Next ==
  \/ FindInit \/ FindFinal \/ LogOut
  \/ \E max \in 0..MaxKeys : FindObjects(max)
  \/ \E M \in SUBSET Handles : Change(M)

Spec == Init /\ [][Next]_vars

-----------------------------------------------------------------------------
(* The position stays in the table, the handles are handles. *)
TypeOK ==
  /\ matching \subseteq Handles /\ found \subseteq Handles /\ steady \subseteq Handles
  /\ pos \in 0..MaxKeys
  /\ active \in BOOLEAN /\ twice \in BOOLEAN /\ ended \in BOOLEAN

(* An application that reads page after page until a page is not full has   *)
(* then seen every object that was there, and matched, all the time: the    *)
(* pages leave no gap, whatever is created and destroyed in between.        *)
FoundAll == active /\ ended => steady \subseteq found

(* No handle is returned twice in one search, also when the object behind   *)
(* it is destroyed and the handle is given to another.                      *)
FoundOnce == active => ~twice
=============================================================================
