---------------------------- MODULE ObjectTable -----------------------------
(***************************************************************************)
(* The objects of one token in g_keys[] of src/src/wp11_pkcs11.c, their    *)
(* boolean attributes and their values, under a search of ObjectSearch:    *)
(* the search looks for one label.                                         *)
(*                                                                         *)
(* An entry of the table is not cleared when its object is destroyed, and  *)
(* a constructor does not assign every field: what an entry of the model   *)
(* keeps from object to object is what it keeps in the code.  Values are   *)
(* abstracted to who has been told them.  Every call runs under g_lock;    *)
(* the import of a private key into an HSM is left out.                    *)
(*                                                                         *)
(* A definition named X_Bad is X with a plausible programming error; no    *)
(* action uses it.  The README says which property each of them breaks.    *)
(***************************************************************************)
EXTENDS ObjectSearch

VARIABLES
  entries,  \* g_keys[]
  told,     \* handles whose present value C_GetAttributeValue has returned
  hidden    \* handles of keys generated sensitive or not extractable

tableVars == <<entries, told, hidden>>
searchVars == <<matching, active, pos, found, steady, twice, ended>>
objVars == <<searchVars, tableVars>>

(* CKO_DATA and CKO_SECRET_KEY objects have a value in the entry's secret,  *)
(* a "key" is half of a key pair, of a token or of this library.  The       *)
(* origin is what the entry's backend_ops tell, and the model's own:        *)
(* "imported" and "generated" objects have none.                            *)
Zero == [used |-> FALSE, class |-> "data", wanted |-> FALSE, origin |-> "imported",
         local |-> FALSE, sensitive |-> FALSE, extractable |-> FALSE,
         always |-> FALSE, never |-> FALSE]

Entry == [used : BOOLEAN, class : {"data", "secret", "key"},
          wanted : BOOLEAN, origin : {"imported", "generated", "backend"},
          local : BOOLEAN, sensitive : BOOLEAN, extractable : BOOLEAN,
          always : BOOLEAN, never : BOOLEAN]

(* key_matches_template, for a template of one label. *)
Matches(E) == {h \in Handles : E[h].used /\ E[h].wanted}

ObjInit ==
  /\ Init
  /\ entries = [h \in Handles |-> Zero]
  /\ matching = {}
  /\ told = {} /\ hidden = {}

-----------------------------------------------------------------------------
(* The first entry that is not in use. *)
IsFree(h) == ~entries[h].used /\ \A k \in 1..h - 1 : entries[k].used

(* What a call does to the table the search sees. *)
Becomes(E) ==
  /\ entries' = E
  /\ Change(Matches(E))

Adds(h, e) ==
  /\ IsFree(h)
  /\ Becomes([entries EXCEPT ![h] = e])
  /\ told' = told \ {h}

Import_Bad(e, class, w, s, x) ==
  [e EXCEPT !.used = TRUE, !.class = class, !.wanted = w, !.origin = "imported",
            !.sensitive = s, !.extractable = x]

(* C_CreateObject: an object of class CKO_DATA takes the key attributes of  *)
(* the entry's last object over.                                            *)
Import(e, class, w, s, x) ==
  LET o == [e EXCEPT !.used = TRUE, !.class = class, !.wanted = w,
                     !.origin = "imported"]
  IN  IF class = "data" THEN o
      ELSE [o EXCEPT !.sensitive = s, !.extractable = x, !.always = FALSE,
                     !.never = FALSE, !.local = FALSE]

CreateObject(h, class, w, s, x) ==
  /\ class = "data" => ~s /\ x
  /\ Adds(h, Import(entries[h], class, w, s, x))
  /\ hidden' = hidden \ {h}

Generated(e, w, s, x) ==
  [e EXCEPT !.used = TRUE, !.class = "secret", !.wanted = w, !.origin = "generated",
            !.sensitive = s, !.extractable = x, !.always = s, !.never = ~x,
            !.local = TRUE]

GenerateKey(h, w, s, x) ==
  /\ Adds(h, Generated(entries[h], w, s, x))
  /\ hidden' = IF s \/ ~x THEN hidden \cup {h} ELSE hidden \ {h}

(* A key of a keystore or of a PIV token, which a login adds. *)
BackendKey(e, w) ==
  [e EXCEPT !.used = TRUE, !.class = "key", !.wanted = w, !.origin = "backend"]

LoginAdds(h, w) ==
  /\ Adds(h, BackendKey(entries[h], w))
  /\ hidden' = hidden \ {h}

(* C_GenerateKeyPair: two entries. *)
Half(e, w) == [BackendKey(e, w) EXCEPT !.local = TRUE]

GenerateKeyPair(h, k, w) ==
  /\ h < k /\ IsFree(h) /\ ~entries[k].used
  /\ \A j \in h + 1..k - 1 : entries[j].used
  /\ Becomes([entries EXCEPT ![h] = Half(@, w), ![k] = Half(@, w)])
  /\ told' = told \ {h, k} /\ hidden' = hidden \ {h, k}

(* C_DeriveKey: the only constructor that clears the entry first; a key     *)
(* without a label.                                                         *)
DeriveKey(h) ==
  /\ \E b \in Handles : entries[b].used /\ entries[b].class = "key"
                        /\ entries[b].origin = "backend"
  /\ Adds(h, [Zero EXCEPT !.used = TRUE, !.class = "secret", !.origin = "backend"])
  /\ hidden' = hidden \ {h}

(* C_CopyObject: the whole entry, with another label if the template has    *)
(* one.                                                                     *)
CopyObject(src, h, w) ==
  /\ entries[src].used /\ entries[src].class = "data"
  /\ Adds(h, [entries[src] EXCEPT !.wanted = w])
  /\ hidden' = hidden \ {h}

-----------------------------------------------------------------------------
(* C_SetAttributeValue takes the attributes of its template in order, and   *)
(* what it has changed stays changed when it refuses a later one: a call is *)
(* a sequence of these steps.                                               *)
Settings == [attr : {"sensitive", "extractable", "wanted"}, to : BOOLEAN]

Refuses_Bad(e, a) == a.attr = "extractable" /\ ~e.extractable /\ a.to

Refuses(e, a) ==
  \/ a.attr = "sensitive" /\ e.sensitive /\ ~a.to
  \/ a.attr = "extractable" /\ ~e.extractable /\ a.to

Set(e, a) ==
  CASE a.attr = "sensitive"   -> [e EXCEPT !.sensitive = a.to]
    [] a.attr = "extractable" -> [e EXCEPT !.extractable = a.to,
                                           !.never = @ \/ ~a.to]
    [] a.attr = "wanted"      -> [e EXCEPT !.wanted = a.to]

SetAttribute(h, a) ==
  /\ entries[h].used /\ ~Refuses(entries[h], a)
  /\ Becomes([entries EXCEPT ![h] = Set(@, a)])
  /\ UNCHANGED <<told, hidden>>

(* C_GetAttributeValue, CKA_VALUE. *)
GetValue(h) ==
  LET e == entries[h]
  IN  /\ e.used /\ e.class \in {"data", "secret"}
      /\ ~(e.local /\ e.class = "secret" /\ (e.sensitive \/ ~e.extractable))
      /\ told' = told \cup {h}
      /\ UNCHANGED <<searchVars, entries, hidden>>

(* C_DestroyObject.  The entry keeps its fields; those that every           *)
(* constructor assigns are blank to the model.                              *)
Freed(e) == [e EXCEPT !.used = FALSE, !.class = Zero.class,
                      !.wanted = FALSE, !.origin = Zero.origin]

DestroyObject(h) ==
  /\ entries[h].used
  /\ Becomes([entries EXCEPT ![h] = Freed(@)])
  /\ told' = told \ {h} /\ hidden' = hidden \ {h}

Cleared_Bad == [h \in Handles |-> Zero]

(* The objects of a backend are cleared when the user logs out. *)
Cleared ==
  [h \in Handles |-> IF entries[h].used /\ entries[h].origin = "backend"
                     THEN Zero ELSE entries[h]]

ClearKeys ==
  /\ entries' = Cleared
  /\ LogOut /\ matching' = Matches(Cleared)
  /\ told' = {h \in told : entries'[h].used} /\ UNCHANGED hidden

-----------------------------------------------------------------------------
Search ==
  /\ \/ FindInit \/ FindFinal
     \/ \E max \in 0..MaxKeys : FindObjects(max)
  /\ UNCHANGED tableVars

ObjNext ==
  \/ Search \/ ClearKeys
  \/ \E h \in Handles :
       \/ GetValue(h) \/ DestroyObject(h) \/ DeriveKey(h)
       \/ \E a \in Settings : SetAttribute(h, a)
       \/ \E w \in BOOLEAN :
            \/ \E k \in Handles : GenerateKeyPair(h, k, w) \/ CopyObject(k, h, w)
            \/ LoginAdds(h, w)
            \/ \E s, x \in BOOLEAN :
                 \/ GenerateKey(h, w, s, x)
                 \/ \E class \in {"data", "secret"} :
                      CreateObject(h, class, w, s, x)

ObjSpec == ObjInit /\ [][ObjNext]_objVars

-----------------------------------------------------------------------------
(* The search and the entries have their types, the cursor stays in the     *)
(* table, histories are about objects in use.                               *)
TableTypeOK ==
  /\ TypeOK
  /\ entries \in [Handles -> Entry]
  /\ told \subseteq Handles /\ hidden \subseteq Handles
  /\ \A h \in told \cup hidden : entries[h].used
  /\ matching = Matches(entries)

(* The value of a key that was generated sensitive or not extractable does  *)
(* not leave the token by C_GetAttributeValue, whatever is set, refused     *)
(* half-way, copied, destroyed and created again in the same entry.         *)
ValueStaysInside == hidden \cap told = {}

(* The attributes say what has happened to the secret key that has them:    *)
(* CKA_LOCAL that it was generated here, CKA_ALWAYS_SENSITIVE that it is    *)
(* sensitive and its value was never returned (comment at line 359).        *)
(* CKA_NEVER_EXTRACTABLE says no more than CKA_EXTRACTABLE; see README.     *)
AttributesTell ==
  \A h \in Handles :
    entries[h].used /\ entries[h].class = "secret" =>
      /\ entries[h].local <=> entries[h].origin = "generated"
      /\ entries[h].always => entries[h].sensitive /\ h \notin told
=============================================================================
