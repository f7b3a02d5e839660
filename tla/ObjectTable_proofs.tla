------------------------- MODULE ObjectTable_proofs -------------------------
(***************************************************************************)
(* CKA_LOCAL and CKA_ALWAYS_SENSITIVE of a secret key tell its history and *)
(* a hidden value is not returned, for object tables of any size; and the  *)
(* table is one that ObjectSearch describes, so that a search of it is     *)
(* complete.                                                               *)
(*                                                                         *)
(* Every call but a logout and C_GenerateKeyPair changes one entry; the    *)
(* invariant is a condition on each entry with its place in told and       *)
(* hidden, so a step has to establish it for the entry it changes.         *)
(***************************************************************************)
EXTENDS ObjectTable, ObjectSearch_proofs, TLAPS

(* AttributesTell is not inductive: that only a generated key is always     *)
(* sensitive keeps an imported one, whose value can be had, from being so.  *)
(* What holds of an entry, t: its value was returned, d: it is hidden.      *)
Good(e, t, d) ==
  /\ e \in Entry
  /\ t \/ d => e.used
  /\ d => /\ ~t /\ e.class = "secret" /\ e.local
          /\ e.sensitive \/ ~e.extractable
  /\ e.used /\ e.class = "secret" =>
       /\ e.local <=> e.origin = "generated"
       /\ e.always => e.local /\ e.sensitive /\ ~t

(* What is not a secret key has nothing to tell. *)
LEMMA GoodOther ==
  ASSUME NEW e \in Entry, ~e.used \/ e.class # "secret"
  PROVE  Good(e, FALSE, FALSE)
BY Zenon DEF Good

(* A secret key that does not have what the attributes could tell. *)
LEMMA GoodSilent ==
  ASSUME NEW e \in Entry, e.used, ~e.local, e.origin # "generated", ~e.always
  PROVE  Good(e, FALSE, FALSE)
BY Zenon DEF Good

(* The entry of an object that the constructors make. *)
LEMMA GoodGenerated ==
  ASSUME NEW e \in Entry, NEW w \in BOOLEAN, NEW s \in BOOLEAN, NEW x \in BOOLEAN,
         NEW d \in BOOLEAN, d => s \/ ~x
  PROVE  Good(Generated(e, w, s, x), FALSE, d)
<1>. DEFINE g == Generated(e, w, s, x)
<1>1. PICK n \in BOOLEAN : n = ~x
  OBVIOUS
<1>2. g = [e EXCEPT !.used = TRUE, !.class = "secret", !.wanted = w,
                    !.origin = "generated", !.sensitive = s, !.extractable = x,
                    !.always = s, !.never = n, !.local = TRUE]
  BY <1>1, Zenon DEF Generated
<1>. HIDE DEF g
<1>3. g = [used |-> TRUE, class |-> "secret", wanted |-> w, origin |-> "generated",
           local |-> TRUE, sensitive |-> s, extractable |-> x, always |-> s,
           never |-> n]
  BY <1>2 DEF Entry
<1>4. g \in Entry
  BY <1>3 DEF Entry
<1>5. /\ g.used /\ g.class = "secret" /\ g.local /\ g.origin = "generated"
      /\ g.always = s /\ g.sensitive = s /\ g.extractable = x
  BY <1>1, <1>3
<1>6. Good(g, FALSE, d)
  BY <1>4, <1>5, Zenon DEF Good
<1>. QED
  BY <1>6 DEF g

LEMMA GoodImport ==
  ASSUME NEW e \in Entry, NEW w \in BOOLEAN, NEW s \in BOOLEAN, NEW x \in BOOLEAN,
         NEW class \in {"data", "secret"}
  PROVE  Good(Import(e, class, w, s, x), FALSE, FALSE)
<1>1. CASE class = "data"
  <2>. DEFINE g == Import(e, class, w, s, x)
  <2>1. g = [e EXCEPT !.used = TRUE, !.class = class, !.wanted = w,
                      !.origin = "imported"]
    BY <1>1 DEF Import
  <2>. HIDE DEF g
  <2>2. g \in Entry /\ g.class # "secret"
    BY <1>1, <2>1 DEF Entry
  <2>. QED
    BY <2>2, GoodOther, Zenon DEF g
<1>2. CASE class = "secret"
  <2>. DEFINE g == Import(e, class, w, s, x)
  <2>1. g = [used |-> TRUE, class |-> "secret", wanted |-> w, origin |-> "imported",
             local |-> FALSE, sensitive |-> s, extractable |-> x, always |-> FALSE,
             never |-> FALSE]
    BY <1>2 DEF Import, Entry
  <2>. HIDE DEF g
  <2>2. g \in Entry
    BY <2>1 DEF Entry
  <2>3. g.used /\ ~g.local /\ g.origin # "generated" /\ ~g.always
    BY <2>1
  <2>. QED
    BY <2>2, <2>3, GoodSilent, Zenon DEF g
<1>. QED
  BY <1>1, <1>2

LEMMA GoodBackendKey ==
  ASSUME NEW e \in Entry, NEW w \in BOOLEAN
  PROVE  Good(BackendKey(e, w), FALSE, FALSE) /\ Good(Half(e, w), FALSE, FALSE)
<1>1. BackendKey(e, w) \in Entry /\ BackendKey(e, w).class # "secret"
  BY DEF Entry, BackendKey
<1>2. Half(e, w) \in Entry /\ Half(e, w).class # "secret"
  BY <1>1 DEF Entry, Half
<1>. QED
  BY <1>1, <1>2, GoodOther, Zenon

(* An entry whose attributes C_SetAttributeValue changes. *)
LEMMA GoodSet ==
  ASSUME NEW e, NEW t, NEW d, Good(e, t, d), e.used,
         NEW a \in Settings, ~Refuses(e, a)
  PROVE  Good(Set(e, a), t, d)
<1>. DEFINE g == Set(e, a)
<1>1. CASE a.attr = "sensitive"
  BY <1>1 DEF Good, Entry, Set, Refuses, Settings
<1>2. CASE a.attr = "extractable"
  <2>1. PICK n \in BOOLEAN : n = (e.never \/ ~a.to)
    OBVIOUS
  <2>2. g = [e EXCEPT !.extractable = a.to, !.never = n]
    <3>1. g = [e EXCEPT !.extractable = a.to, !.never = @ \/ ~a.to]
      BY <1>2 DEF Set
    <3>. QED
      BY <2>1, <3>1 DEF Good, Entry
  <2>. HIDE DEF g
  <2>3. /\ g \in Entry /\ g.used = e.used /\ g.class = e.class /\ g.local = e.local
        /\ g.sensitive = e.sensitive /\ g.origin = e.origin /\ g.always = e.always
        /\ g.extractable = a.to
    BY <2>2 DEF Good, Entry, Settings
  <2>4. e.extractable \/ ~a.to
    BY <1>2 DEF Refuses
  <2>5. a.to \in BOOLEAN /\ e.extractable \in BOOLEAN
    BY DEF Good, Entry, Settings
  <2>6. Good(g, t, d)
    BY <2>1, <2>3, <2>4, <2>5, Zenon DEF Good
  <2>. QED
    BY <2>6 DEF g
<1>3. CASE a.attr = "wanted"
  BY <1>3 DEF Good, Entry, Set, Refuses, Settings
<1>. QED
  BY <1>1, <1>2, <1>3 DEF Settings

(* An entry whose value is told for the first time. *)
LEMMA GoodTold ==
  ASSUME NEW e, NEW t, NEW d, Good(e, t, d), e.used,
         ~(e.local /\ e.class = "secret" /\ (e.sensitive \/ ~e.extractable))
  PROVE  Good(e, TRUE, d)
BY Zenon DEF Good

TableInv ==
  /\ told \subseteq Handles /\ hidden \subseteq Handles
  /\ DOMAIN entries = Handles /\ entries = [h \in Handles |-> entries[h]]
  /\ \A h \in Handles : Good(entries[h], h \in told, h \in hidden)
  /\ matching = Matches(entries)

LEMMA InvImplies ==
  /\ TableInv => ValueStaysInside /\ AttributesTell
  /\ TableInv /\ TypeOK => TableTypeOK
<1>1. TableInv => entries \in [Handles -> Entry]
  BY DEF TableInv, Good
<1>2. TableInv /\ TypeOK => TableTypeOK
  BY <1>1 DEF TableInv, Good, TableTypeOK
<1>3. TableInv => ValueStaysInside
  BY DEF TableInv, Good, ValueStaysInside
<1>4. TableInv => AttributesTell
  BY DEF TableInv, Good, AttributesTell
<1>. QED
  BY <1>2, <1>3, <1>4

(* A call that changes the entry of h, and at most its place in the         *)
(* histories.                                                               *)
LEMMA OneEntry ==
  ASSUME TableInv, NEW h \in Handles, NEW e,
         Becomes([entries EXCEPT ![h] = e]),
         told' \subseteq Handles, hidden' \subseteq Handles,
         \A k \in Handles \ {h} : (k \in told' <=> k \in told)
                                  /\ (k \in hidden' <=> k \in hidden),
         Good(e, h \in told', h \in hidden')
  PROVE  TableInv'
<1>1. entries' = [entries EXCEPT ![h] = e] /\ matching' = Matches(entries')
  BY DEF Becomes, Change
<1>2. /\ DOMAIN entries' = Handles /\ entries' = [k \in Handles |-> entries'[k]]
      /\ entries'[h] = e /\ \A k \in Handles \ {h} : entries'[k] = entries[k]
  BY <1>1 DEF TableInv
<1>3. ASSUME NEW k \in Handles PROVE Good(entries'[k], k \in told', k \in hidden')
  <2>1. CASE k = h
    BY <2>1, <1>2
  <2>2. CASE k # h
    <3>1. Good(entries[k], k \in told, k \in hidden) /\ entries'[k] = entries[k]
      BY <2>2, <1>2 DEF TableInv
    <3>2. (k \in told' <=> k \in told) /\ (k \in hidden' <=> k \in hidden)
      BY <2>2
    <3>. QED
      BY <3>1, <3>2 DEF Good
  <2>. QED
    BY <2>1, <2>2
<1>. QED
  BY <1>1, <1>2, <1>3 DEF TableInv

(* A call that adds an object in the entry of h, which is not hidden. *)
LEMMA OneAdded ==
  ASSUME TableInv, NEW h \in Handles, NEW e, Adds(h, e),
         hidden' = hidden \ {h}, Good(e, FALSE, FALSE)
  PROVE  TableInv'
<1>1. /\ Becomes([entries EXCEPT ![h] = e]) /\ told' = told \ {h}
  BY DEF Adds
<1>2. Good(e, h \in told', h \in hidden')
  BY <1>1 DEF Good
<1>. QED
  BY <1>1, <1>2, OneEntry DEF TableInv

-----------------------------------------------------------------------------
LEMMA TableInvariant == ObjSpec => []TableInv
<1>1. ObjInit => TableInv
  BY DEF ObjInit, TableInv, Good, Entry, Zero, Matches
<1>2. TableInv /\ [ObjNext]_objVars => TableInv'
  <2>. SUFFICES ASSUME TableInv, [ObjNext]_objVars PROVE TableInv'
    OBVIOUS
  <2>. USE DEF TableInv
  <2>1. CASE UNCHANGED objVars
    BY <2>1 DEF objVars, searchVars, tableVars
  <2>2. CASE Search
    <3>1. UNCHANGED <<matching, entries, told, hidden>>
      BY <2>2 DEF Search, FindInit, FindFinal, FindObjects, tableVars
    <3>. QED
      BY <3>1
  <2>3. CASE ClearKeys
    <3>1. /\ entries' = Cleared /\ matching' = Matches(entries')
          /\ told' = {h \in told : entries'[h].used} /\ hidden' = hidden
      BY <2>3 DEF ClearKeys
    <3>2. ASSUME NEW h \in Handles
          PROVE  Good(entries'[h], h \in told', h \in hidden')
      <4>1. CASE entries[h].used /\ entries[h].origin = "backend"
        <5>1. entries'[h] = Zero /\ h \notin told'
          BY <3>1, <4>1 DEF Cleared, Zero
        <5>2. h \notin hidden'
          BY <3>1, <4>1 DEF Good
        <5>. QED
          BY <5>1, <5>2 DEF Good, Zero, Entry
      <4>2. CASE ~(entries[h].used /\ entries[h].origin = "backend")
        <5>1. entries'[h] = entries[h]
          BY <3>1, <4>2 DEF Cleared
        <5>. QED
          BY <3>1, <5>1 DEF Good
      <4>. QED
        BY <4>1, <4>2
    <3>3. DOMAIN entries' = Handles /\ entries' = [h \in Handles |-> entries'[h]]
      BY <3>1 DEF Cleared
    <3>. QED
      BY <3>1, <3>2, <3>3
  <2>4. ASSUME NEW h \in Handles, GetValue(h) PROVE TableInv'
    <3>1. /\ UNCHANGED <<matching, entries, hidden>> /\ told' = told \cup {h}
          /\ entries[h].used
          /\ ~(entries[h].local /\ entries[h].class = "secret"
               /\ (entries[h].sensitive \/ ~entries[h].extractable))
      BY <2>4 DEF GetValue, searchVars
    <3>2. Good(entries[h], h \in told, h \in hidden) /\ entries[h] \in Entry
      BY DEF Good
    <3>3. Good(entries[h], TRUE, h \in hidden)
      BY <3>1, <3>2, GoodTold
    <3>4. ASSUME NEW k \in Handles PROVE Good(entries'[k], k \in told', k \in hidden')
      <4>1. CASE k = h
        <5>1. (k \in told') = TRUE /\ entries'[k] = entries[h] /\ (k \in hidden') = (h \in hidden)
          BY <3>1, <4>1
        <5>. QED
          BY <5>1, <3>3
      <4>2. CASE k # h
        <5>1. (k \in told') = (k \in told) /\ entries'[k] = entries[k] /\ hidden' = hidden
          BY <3>1, <4>2
        <5>. QED
          BY <5>1
      <4>. QED
        BY <4>1, <4>2
    <3>. QED
      BY <3>1, <3>4
  <2>5. ASSUME NEW h \in Handles, DestroyObject(h) PROVE TableInv'
    <3>1. Good(Freed(entries[h]), FALSE, FALSE)
      <4>1. entries[h] \in Entry
        BY DEF Good
      <4>2. Freed(entries[h]) \in Entry /\ ~Freed(entries[h]).used
        BY <4>1 DEF Freed, Entry, Zero
      <4>. QED
        BY <4>2, GoodOther
    <3>2. /\ Becomes([entries EXCEPT ![h] = Freed(entries[h])])
          /\ told' = told \ {h} /\ hidden' = hidden \ {h}
      BY <2>5 DEF DestroyObject
    <3>. QED
      BY <3>1, <3>2, OneEntry DEF Good
  <2>6. ASSUME NEW h \in Handles, DeriveKey(h) PROVE TableInv'
    <3>. DEFINE e == [Zero EXCEPT !.used = TRUE, !.class = "secret",
                                  !.origin = "backend"]
    <3>1. Good(e, FALSE, FALSE)
      <4>1. /\ e \in Entry /\ e.used /\ ~e.local /\ e.origin # "generated"
            /\ ~e.always
        BY DEF Entry, Zero
      <4>. HIDE DEF e
      <4>. QED
        BY <4>1, GoodSilent
    <3>. QED
      BY <2>6, <3>1, OneAdded DEF DeriveKey
  <2>7. ASSUME NEW h \in Handles, NEW a \in Settings, SetAttribute(h, a)
        PROVE  TableInv'
    <3>1. Good(Set(entries[h], a), h \in told, h \in hidden)
      <4>1. Good(entries[h], h \in told, h \in hidden)
            /\ ~Refuses(entries[h], a) /\ entries[h].used
        BY <2>7 DEF SetAttribute
      <4>. QED
        BY <4>1, GoodSet, Zenon
    <3>2. /\ Becomes([entries EXCEPT ![h] = Set(entries[h], a)])
          /\ told' = told /\ hidden' = hidden
      BY <2>7 DEF SetAttribute
    <3>. QED
      BY <3>1, <3>2, OneEntry
  <2>8. ASSUME NEW h \in Handles, NEW k \in Handles, NEW w \in BOOLEAN,
               GenerateKeyPair(h, k, w)
        PROVE  TableInv'
    <3>1. /\ entries' = [entries EXCEPT ![h] = Half(@, w), ![k] = Half(@, w)]
          /\ matching' = Matches(entries') /\ h # k
          /\ told' = told \ {h, k} /\ hidden' = hidden \ {h, k}
      BY <2>8, ObjectSearchAssumption DEF GenerateKeyPair, Becomes, Change, Handles
    <3>2. DOMAIN entries' = Handles /\ entries' = [j \in Handles |-> entries'[j]]
      BY <3>1
    <3>3. ASSUME NEW j \in Handles
          PROVE  Good(entries'[j], j \in told', j \in hidden')
      <4>1. CASE j \in {h, k}
        <5>1. entries'[j] = Half(entries[j], w) /\ entries[j] \in Entry
          BY <3>1, <4>1 DEF Good
        <5>2. j \notin told' /\ j \notin hidden'
          BY <3>1, <4>1
        <5>3. Good(entries'[j], FALSE, FALSE)
          BY <5>1, GoodBackendKey, Zenon
        <5>. QED
          BY <5>2, <5>3 DEF Good
      <4>2. CASE j \notin {h, k}
        BY <3>1, <4>2 DEF Good
      <4>. QED
        BY <4>1, <4>2
    <3>. QED
      BY <3>1, <3>2, <3>3
  <2>9. ASSUME NEW h \in Handles, NEW k \in Handles, NEW w \in BOOLEAN,
               CopyObject(k, h, w)
        PROVE  TableInv'
    <3>1. Good([entries[k] EXCEPT !.wanted = w], FALSE, FALSE)
      BY <2>9 DEF CopyObject, Good, Entry
    <3>. QED
      BY <2>9, <3>1, OneAdded DEF CopyObject
  <2>10. ASSUME NEW h \in Handles, NEW w \in BOOLEAN, LoginAdds(h, w)
         PROVE  TableInv'
    <3>1. entries[h] \in Entry
      BY DEF Good
    <3>2. Good(BackendKey(entries[h], w), FALSE, FALSE)
      BY <3>1, GoodBackendKey, Zenon
    <3>. QED
      BY <2>10, <3>2, OneAdded DEF LoginAdds
  <2>11. ASSUME NEW h \in Handles, NEW w \in BOOLEAN, NEW s \in BOOLEAN,
                NEW x \in BOOLEAN, GenerateKey(h, w, s, x)
         PROVE  TableInv'
    <3>. DEFINE e == Generated(entries[h], w, s, x)
    <3>1. /\ Becomes([entries EXCEPT ![h] = e]) /\ told' = told \ {h}
          /\ hidden' = IF s \/ ~x THEN hidden \cup {h} ELSE hidden \ {h}
      BY <2>11 DEF GenerateKey, Adds
    <3>2. Good(e, h \in told', h \in hidden')
      <4>1. entries[h] \in Entry
        BY DEF Good
      <4>2. h \notin told' /\ (h \in hidden' => s \/ ~x)
        BY <3>1
      <4>3. ASSUME NEW d \in BOOLEAN, d => s \/ ~x PROVE Good(e, FALSE, d)
        BY <4>1, <4>3, GoodGenerated, Zenon
      <4>. HIDE DEF e
      <4>. QED
        BY <4>2, <4>3 DEF Good
    <3>. HIDE DEF e
    <3>. QED
      BY <3>1, <3>2, OneEntry
  <2>12. ASSUME NEW h \in Handles, NEW w \in BOOLEAN, NEW s \in BOOLEAN,
                NEW x \in BOOLEAN, NEW class \in {"data", "secret"},
                CreateObject(h, class, w, s, x)
         PROVE  TableInv'
    <3>1. Good(Import(entries[h], class, w, s, x), FALSE, FALSE)
      <4>1. entries[h] \in Entry
        BY DEF Good
      <4>. QED
        BY <4>1, GoodImport, Zenon
    <3>. QED
      BY <2>12, <3>1, OneAdded DEF CreateObject
  <2>. QED
    BY <2>1, <2>2, <2>3, <2>4, <2>5, <2>6, <2>7, <2>8, <2>9, <2>10, <2>11, <2>12
       DEF ObjNext
<1>. QED
  BY <1>1, <1>2, PTL DEF ObjSpec

(* C_GetAttributeValue does not return the value of a key that was          *)
(* generated sensitive or not extractable, whatever C_SetAttributeValue,    *)
(* C_CopyObject and the reuse of its entry do to it.                        *)
THEOREM HiddenValuesStay == ObjSpec => []ValueStaysInside
BY TableInvariant, InvImplies, PTL

(* CKA_LOCAL and CKA_ALWAYS_SENSITIVE of a secret key say what has happened *)
(* to it, whatever was in its entry before.                                 *)
THEOREM AttributesAreTrue == ObjSpec => []AttributesTell
BY TableInvariant, InvImplies, PTL

-----------------------------------------------------------------------------
(* Whatever a call does to the table, the search sees objects come and go   *)
(* as ObjectSearch lets them.                                               *)
LEMMA CallsChangeMatching ==
  ASSUME NEW h \in Handles,
         \/ DestroyObject(h) \/ DeriveKey(h)
         \/ \E a \in Settings : SetAttribute(h, a)
         \/ \E w \in BOOLEAN :
              \/ \E k \in Handles : GenerateKeyPair(h, k, w) \/ CopyObject(k, h, w)
              \/ LoginAdds(h, w)
              \/ \E s, x \in BOOLEAN :
                   \/ GenerateKey(h, w, s, x)
                   \/ \E class \in {"data", "secret"} :
                        CreateObject(h, class, w, s, x)
  PROVE  \E M \in SUBSET Handles : Change(M)
<1>1. \E E : Becomes(E)
  BY DEF DestroyObject, DeriveKey, SetAttribute, GenerateKeyPair, CopyObject,
         LoginAdds, GenerateKey, CreateObject, Adds
<1>2. ASSUME NEW E, Becomes(E)
      PROVE  \E M \in SUBSET Handles : Change(M)
  BY <1>2 DEF Becomes, Matches
<1>. QED
  BY <1>1, <1>2

(* The object table implements the abstract search: each call on objects    *)
(* and attributes is a change of the matching handles, C_Logout the end of  *)
(* the search, C_GetAttributeValue a stutter.                               *)
THEOREM TableImplementsSearch == ObjSpec => Spec
<1>1. ObjInit => Init
  BY DEF ObjInit
<1>2. [ObjNext]_objVars => [Next]_vars
  <2>. SUFFICES ASSUME [ObjNext]_objVars PROVE [Next]_vars
    OBVIOUS
  <2>1. CASE UNCHANGED objVars \/ \E h \in Handles : GetValue(h)
    BY <2>1 DEF objVars, GetValue, searchVars, vars
  <2>2. CASE Search
    BY <2>2 DEF Search, Next
  <2>3. CASE ClearKeys
    BY <2>3 DEF ClearKeys, Next
  <2>. QED
    BY <2>1, <2>2, <2>3, CallsChangeMatching DEF ObjNext, Next
<1>. QED
  BY <1>1, <1>2, PTL DEF ObjSpec, Spec

(* Types of the object table (wp11_key_obj_t) and of the search: the cursor *)
(* of C_FindObjects does not leave the table.                               *)
THEOREM TableTypeCorrect == ObjSpec => []TableTypeOK
BY TableInvariant, InvImplies, TableImplementsSearch, TypeCorrect, PTL

(* So a search of the table itself is complete and without repeats, with    *)
(* handles that are freed and given to other objects between the pages.     *)
THEOREM TableSearchIsComplete == ObjSpec => []FoundAll /\ []FoundOnce
BY TableImplementsSearch, SearchIsComplete, SearchIsWithoutRepeats, PTL
=============================================================================
