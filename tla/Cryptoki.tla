------------------------------ MODULE Cryptoki ------------------------------
(***************************************************************************)
(* The token, session, login and object state of src/src/wp11_pkcs11.c.    *)
(*                                                                         *)
(* Every C_* call below runs from its first to its last line under g_lock, *)
(* and so do the handlers of the hotplug threads that touch the slot       *)
(* table, so one call is one action.  A call that returns an error and     *)
(* changes nothing is a stuttering step and has no action.                 *)
(*                                                                         *)
(* What is abstracted: attributes, mechanisms and key bytes (an object is  *)
(* its slot, its backend, its class, its CKA_PRIVATE flag and the memory   *)
(* its key_priv points into); the protocol behind a backend (its outcome   *)
(* is chosen); failing allocations.  C_Finalize directly followed by       *)
(* C_Initialize is one action, Restart: in between every call returns      *)
(* CKR_CRYPTOKI_NOT_INITIALIZED.                                           *)
(*                                                                         *)
(* A definition named X_Bad is X with a plausible programming error; no    *)
(* action uses it.  The README says which property each of them breaks.    *)
(***************************************************************************)
EXTENDS Integers, FiniteSets

CONSTANTS
  Slots,        \* the slots in use: tokens get their slot at first insertion
  NoSlot,       \* "in_use == 0" of a session or an object
  Proto,        \* g_slots[].proto
  MaxSessions,  \* WOLFP11_CFG_MAX_SESSIONS
  MaxKeys,      \* MAX_KEYS
  MaxRes,       \* bound: contexts and keystores ever allocated at one time
  OpKinds,      \* the keyed operations of a session
  PivKeys,      \* entries of piv_slot_tab (four in the code)
  KeyCounts,    \* how many keys a keystore file or an HSM may offer
  NewClasses,   \* classes of the objects that callers create
  Foreign       \* callers use objects of other tokens than the session's

Protos == {"soft", "piv", "flash", "fsdir", "hsm"}

ASSUME CryptokiAssumption ==
  /\ NoSlot \notin Slots
  /\ Proto \in [Slots -> Protos]
  /\ \A s, t \in Slots : Proto[s] = "soft" /\ Proto[t] = "soft" => s = t
  /\ MaxSessions \in Nat /\ MaxKeys \in Nat /\ MaxRes \in Nat
  /\ OpKinds \subseteq {"sign", "verify", "encrypt", "decrypt"}
  /\ PivKeys \in Nat /\ KeyCounts \subseteq Nat
  /\ NewClasses \subseteq {"key", "data"} /\ Foreign \in BOOLEAN

Sessions == 1..MaxSessions
Handles  == 1..MaxKeys
NoKey    == 0
Res      == 1..MaxRes
NoRes    == 0
Users    == {"none", "user", "so"}
Backends == {"none", "soft", "usb", "ks", "hsm"}
Classes  == {"none", "key", "secret", "data", "cert"}

(* Without a keystore path, which is also how a build without the flash     *)
(* backend behaves, the soft token keeps its keys in memory only.           *)
Files == {"no path", "absent", "present"}

VARIABLES
  sess,     \* g_sessions[]: slot, read-write, logged_in, active operations
  keys,     \* g_keys[]: slot, backend, class, is_private, key_priv
  present,  \* g_slots[].token_present
  held,     \* g_slots[].ccid, .keystore or .hsm_client, whichever Proto uses
  res,      \* the heap: the slot a context or keystore was allocated for
  pin,      \* g_slots[].soft_pin_len > 0
  low,      \* g_slots[].pin_fail_count > 0
  file      \* the soft token's keystore file

vars == <<sess, keys, present, held, res, pin, low, file>>

-----------------------------------------------------------------------------
NoOps     == [k \in OpKinds |-> NoKey]
NoSession == [slot |-> NoSlot, rw |-> FALSE, user |-> "none", op |-> NoOps]

Session == [slot : Slots \cup {NoSlot}, rw : BOOLEAN, user : Users,
            op : [OpKinds -> Handles \cup {NoKey}]]

Object == [slot : Slots \cup {NoSlot}, backend : Backends, class : Classes,
           private : BOOLEAN, back : Res \cup {NoRes}, renewed : BOOLEAN]

(* renewed flips when the key on the card behind a PIV object is replaced.  *)
NewObject(t, b, c, p, r) ==
  [slot |-> t, backend |-> b, class |-> c, private |-> p, back |-> r,
   renewed |-> FALSE]

(* A free table entry.  in_use == 0 frees an entry; the fields a later      *)
(* allocation always assigns are dropped here, is_private is not one.       *)
FreeEntry(p) == NewObject(NoSlot, "none", "none", p, NoRes)

Open(i)  == sess[i].slot # NoSlot
InUse(h) == keys[h].slot # NoSlot

IsFirst(i, S) == i \in S /\ \A j \in S : i <= j

FreeHandles == {h \in Handles : ~InUse(h)}
FreeRes     == {r \in Res : res[r] = NoSlot}
HasRoom(n)  == n <= Cardinality(FreeHandles)

(* The handles that n successive "first free entry" scans return. *)
Claim(n) ==
  {h \in FreeHandles : Cardinality({g \in FreeHandles : g < h}) < n}

BackendOf(p) == CASE p = "soft" -> "soft"
                  [] p = "piv" -> "usb"
                  [] p = "hsm" -> "hsm"
                  [] OTHER -> "ks"

OwnBackend(t) == BackendOf(Proto[t])

Swept_Bad(t) == keys

(* piv_, soft_, ks_ and wolfhsm_slot_clear_keys: zero the slot's entries    *)
(* that belong to its backend.                                              *)
Swept(t) ==
  [h \in Handles |-> IF keys[h].slot = t /\ keys[h].backend = OwnBackend(t)
                     THEN FreeEntry(FALSE) ELSE keys[h]]

(* The same after a populate of n keys that failed: the entries it had      *)
(* filled, all free ones if it ran out of them, are zeroed with the others. *)
SweptAfter(t, n) ==
  [h \in Handles |->
     IF h \in Claim(n) \/ (keys[h].slot = t /\ keys[h].backend = OwnBackend(t))
     THEN FreeEntry(FALSE) ELSE keys[h]]

(* n entries of slot t filled by a populate.  Keystore and HSM keys are     *)
(* marked private; the soft and the PIV path leave is_private as it was.    *)
Populated(t, n, r) ==
  [h \in Handles |->
     IF h \in Claim(n)
     THEN NewObject(t, OwnBackend(t), "key",
                    IF Proto[t] \in {"soft", "piv"} THEN keys[h].private
                                                    ELSE TRUE, r)
     ELSE keys[h]]

SlotSessions(t) == {i \in Sessions : sess[i].slot = t}
Nobody(t)       == \A i \in SlotSessions(t) : sess[i].user = "none"

AsUser_Bad(t, u) == [i \in Sessions |-> [sess[i] EXCEPT !.user = u]]

AsUser(t, u) ==
  [i \in Sessions |-> IF sess[i].slot = t THEN [sess[i] EXCEPT !.user = u]
                                          ELSE sess[i]]

Closed_Bad(t) == sess

Closed(t) ==
  [i \in Sessions |-> IF sess[i].slot = t THEN NoSession ELSE sess[i]]

LoggedOut_Bad(t) == AsUser(t, "none")

(* C_Logout makes every session of the slot public and ends its operations. *)
LoggedOut(t) ==
  [i \in Sessions |-> IF sess[i].slot = t
                      THEN [sess[i] EXCEPT !.user = "none", !.op = NoOps]
                      ELSE sess[i]]

WithoutOpsOn_Bad(h) == sess

(* C_DestroyObject ends the operations that use the object, on all slots.   *)
WithoutOpsOn(h) ==
  [i \in Sessions |->
     [sess[i] EXCEPT !.op = [k \in OpKinds |-> IF @[k] = h THEN NoKey
                                                          ELSE @[k]]]]

Inherits_Bad(t, u) == u = "none"

(* Sessions opened on t start in the state of the first logged-in one.      *)
Inherits(t, u) ==
  LET L == {i \in SlotSessions(t) : sess[i].user # "none"}
  IN  IF L = {} THEN u = "none"
                ELSE \E i \in L : IsFirst(i, L) /\ u = sess[i].user

-----------------------------------------------------------------------------
(* C_Initialize: the soft token and the configured HSM are there at once,   *)
(* the other tokens arrive by hotplug.                                      *)
Fixed(t) == Proto[t] \in {"soft", "hsm"}

InitialSlots ==
  /\ present = [t \in Slots |-> Fixed(t)]
  /\ held = [t \in Slots |-> NoRes]
  /\ pin = [t \in Slots |-> FALSE]
  /\ low = [t \in Slots |-> FALSE]

Init ==
  /\ InitialSlots
  /\ sess = [i \in Sessions |-> NoSession]
  /\ keys = [h \in Handles |-> FreeEntry(FALSE)]
  /\ res = [r \in Res |-> NoSlot]
  /\ file \in IF \E t \in Slots : Proto[t] = "soft" THEN Files ELSE {"no path"}

(* C_Finalize frees the keys, the keystores and the HSM clients and zeroes  *)
(* the slots; a PIV slot's CCID context is not closed.                      *)
Restart ==
  /\ sess' = [i \in Sessions |-> NoSession]
  /\ keys' = [h \in Handles |-> FreeEntry(FALSE)]
  /\ res' = [r \in Res |->
               IF \E t \in Slots : held[t] = r /\ Proto[t] # "piv"
               THEN NoSlot ELSE res[r]]
  /\ present' = [t \in Slots |-> Fixed(t)]
  /\ held' = [t \in Slots |-> NoRes]
  /\ pin' = [t \in Slots |-> FALSE]
  /\ low' = [t \in Slots |-> FALSE]
  /\ UNCHANGED file

-----------------------------------------------------------------------------
(* Hotplug: slot_add and slot_add_keystore, slot_remove and                 *)
(* slot_remove_keystore (slot_remove_flash_dir is a loop of the latter).    *)
(* A PIV token that leaves takes the claims of leaked contexts with it.     *)
TokenArrives(t) ==
  /\ ~present[t]
  /\ present' = [present EXCEPT ![t] = TRUE]
  /\ UNCHANGED <<sess, keys, held, res, pin, low, file>>

TokenDeparts(t) ==
  /\ present[t] /\ ~Fixed(t)
  /\ present' = [present EXCEPT ![t] = FALSE]
  /\ sess' = Closed(t)
  /\ keys' = IF Proto[t] = "piv" /\ held[t] = NoRes THEN keys ELSE Swept(t)
  /\ res' = [r \in Res |->
               IF r = held[t] \/ (Proto[t] = "piv" /\ res[r] = t)
               THEN NoSlot ELSE res[r]]
  /\ held' = [held EXCEPT ![t] = NoRes]
  /\ UNCHANGED <<pin, low, file>>

-----------------------------------------------------------------------------
OpenSession(t, rw) ==
  /\ present[t]
  /\ \E i \in Sessions, u \in Users :
       /\ IsFirst(i, {j \in Sessions : ~Open(j)})
       /\ Inherits(t, u)
       /\ u = "so" => rw
       /\ sess' = [sess EXCEPT ![i] =
                     [slot |-> t, rw |-> rw, user |-> u, op |-> NoOps]]
  /\ UNCHANGED <<keys, present, held, res, pin, low, file>>

CloseSession(i) ==
  /\ Open(i)
  /\ sess' = [sess EXCEPT ![i] = NoSession]
  /\ UNCHANGED <<keys, present, held, res, pin, low, file>>

CloseAllSessions(t) ==
  /\ sess' = Closed(t)
  /\ UNCHANGED <<keys, present, held, res, pin, low, file>>

-----------------------------------------------------------------------------
(* C_Login.  The calling session's slot has nobody logged in.               *)
MayLogin(i, t) == Open(i) /\ sess[i].slot = t /\ Nobody(t)

(* The login takes effect: all sessions of the slot, and the PIN counter.   *)
LoggedIn(t, u) ==
  /\ sess' = AsUser(t, u)
  /\ low' = [low EXCEPT ![t] = FALSE]

(* The CCID interface of a token can be claimed by one context at a time.   *)
Claimed(t) == \E r \in Res : res[r] = t

(* The backend answers that the PIN is wrong: nothing but the counter moves.*)
LoginWrongPin(i, t) ==
  /\ MayLogin(i, t)
  /\ CASE Proto[t] = "soft" -> file = "present"
       [] Proto[t] = "piv"  -> ~Claimed(t)
       [] Proto[t] = "hsm"  -> held[t] = NoRes
       [] OTHER -> TRUE
  /\ low' = [low EXCEPT ![t] = TRUE]
  /\ UNCHANGED <<sess, keys, present, held, res, pin, file>>

LoginSO_Bad(i, t) ==
  /\ MayLogin(i, t)
  /\ LoggedIn(t, "so")
  /\ UNCHANGED <<keys, present, held, res, pin, file>>

LoginSO(i, t) ==
  /\ MayLogin(i, t)
  /\ \A j \in SlotSessions(t) : sess[j].rw
  /\ LoggedIn(t, "so")
  /\ UNCHANGED <<keys, present, held, res, pin, file>>

(* PIV: one object per table entry, then the certificates that can be read  *)
(* and still fit.                                                           *)
LoginPiv(i, t) ==
  /\ MayLogin(i, t) /\ Proto[t] = "piv" /\ ~Claimed(t)
  /\ \E r \in Res, c \in 0..PivKeys :
       /\ IsFirst(r, FreeRes)
       /\ HasRoom(PivKeys + c)
       /\ keys' = [h \in Handles |->
                     IF h \in Claim(PivKeys + c) \ Claim(PivKeys)
                     THEN NewObject(t, "usb", "cert", keys[h].private, NoRes)
                     ELSE Populated(t, PivKeys, r)[h]]
       /\ res' = [res EXCEPT ![r] = t]
       /\ held' = [held EXCEPT ![t] = r]
  /\ LoggedIn(t, "user")
  /\ UNCHANGED <<present, pin, file>>

(* No room for the table's keys: piv_slot_clear_keys, the context closed.   *)
LoginPivNoRoom(i, t) ==
  /\ MayLogin(i, t) /\ Proto[t] = "piv" /\ ~Claimed(t)
  /\ FreeRes # {}
  /\ ~HasRoom(PivKeys)
  /\ keys' = SweptAfter(t, PivKeys)
  /\ UNCHANGED <<sess, present, held, res, pin, low, file>>

(* wolfHSM: wolfhsm_slot_connect keeps an existing connection as it is.     *)
LoginHsm(i, t) ==
  /\ MayLogin(i, t) /\ Proto[t] = "hsm"
  /\ \/ /\ held[t] # NoRes
        /\ UNCHANGED <<keys, res, held>>
     \/ /\ held[t] = NoRes
        /\ \E r \in Res, n \in KeyCounts :
             /\ IsFirst(r, FreeRes)
             /\ HasRoom(n)
             /\ keys' = Populated(t, n, r)
             /\ res' = [res EXCEPT ![r] = t]
             /\ held' = [held EXCEPT ![t] = r]
  /\ LoggedIn(t, "user")
  /\ UNCHANGED <<present, pin, file>>

LoginHsmNoRoom(i, t) ==
  /\ MayLogin(i, t) /\ Proto[t] = "hsm" /\ held[t] = NoRes
  /\ FreeRes # {}
  /\ \E n \in KeyCounts : ~HasRoom(n) /\ keys' = SweptAfter(t, n)
  /\ UNCHANGED <<sess, present, held, res, pin, low, file>>

(* Soft token: the PIN is cached, the file's keys become soft keys.         *)
(* Without a path there is no PIN to check and nothing to load.             *)
LoginSoft(i, t) ==
  /\ MayLogin(i, t) /\ Proto[t] = "soft"
  /\ \/ /\ file = "present"
        /\ \E n \in KeyCounts : HasRoom(n) /\ keys' = Populated(t, n, NoRes)
        /\ pin' = [pin EXCEPT ![t] = TRUE]
     \/ /\ file = "no path"
        /\ UNCHANGED <<keys, pin>>
  /\ LoggedIn(t, "user")
  /\ UNCHANGED <<present, held, res, file>>

(* One of the file's keys finds no free entry or does not decode: m of the  *)
(* n keys had become objects.                                               *)
LoginSoftDrops(i, t) ==
  /\ MayLogin(i, t) /\ Proto[t] = "soft" /\ file = "present"
  /\ \E n \in KeyCounts : \E m \in 0..n - 1 : keys' = SweptAfter(t, m)
  /\ pin' = [pin EXCEPT ![t] = FALSE]
  /\ UNCHANGED <<sess, present, held, res, low, file>>

(* Keystore on a flash drive, or in a directory when the flash backend is   *)
(* not built in: the slot's keystore pointer is assigned and the keys point *)
(* into the new keystore.                                                   *)
LoginKeystore(i, t) ==
  /\ MayLogin(i, t) /\ Proto[t] \in {"flash", "fsdir"}
  /\ \E r \in Res, n \in KeyCounts :
       /\ IsFirst(r, FreeRes)
       /\ HasRoom(n)
       /\ keys' = Populated(t, n, r)
       /\ res' = [res EXCEPT ![r] = t]
       /\ held' = [held EXCEPT ![t] = r]
  /\ LoggedIn(t, "user")
  /\ UNCHANGED <<present, pin, file>>

LoginKeystoreNoRoom_Bad(i, t) ==
  /\ MayLogin(i, t) /\ Proto[t] \in {"flash", "fsdir"}
  /\ FreeRes # {}
  /\ \E n \in KeyCounts : ~HasRoom(n) /\ keys' = SweptAfter(t, n)
  /\ held' = [held EXCEPT ![t] = NoRes]
  /\ LoggedIn(t, "user")
  /\ UNCHANGED <<present, res, pin, file>>

LoginKeystoreNoRoom(i, t) ==
  /\ MayLogin(i, t) /\ Proto[t] \in {"flash", "fsdir"}
  /\ FreeRes # {}
  /\ \E n \in KeyCounts : ~HasRoom(n) /\ keys' = SweptAfter(t, n)
  /\ held' = [held EXCEPT ![t] = NoRes]
  /\ UNCHANGED <<sess, present, res, pin, low, file>>

(* Built with both keystore backends, an FSDIR slot takes the flash branch  *)
(* (its path is not empty) and then its own: the file is loaded twice.  The *)
(* second load may fail, or find the table full.                            *)
SecondLoadFails(t, r, n) ==
  /\ keys' = Populated(t, n, r)
  /\ res' = [res EXCEPT ![r] = t]
  /\ held' = [held EXCEPT ![t] = r]
  /\ UNCHANGED <<sess, low>>

SecondLoad(t, r, q, n) ==
  /\ HasRoom(2 * n)
  /\ keys' = [h \in Handles |->
                IF h \in Claim(2 * n) \ Claim(n)
                THEN NewObject(t, "ks", "key", TRUE, q)
                ELSE Populated(t, n, r)[h]]
  /\ res' = [res EXCEPT ![r] = t, ![q] = t]
  /\ held' = [held EXCEPT ![t] = q]
  /\ LoggedIn(t, "user")

SecondLoadNoRoom(t, r, n) ==
  /\ ~HasRoom(2 * n)
  /\ keys' = SweptAfter(t, 2 * n)
  /\ res' = [res EXCEPT ![r] = t]
  /\ held' = [held EXCEPT ![t] = NoRes]
  /\ UNCHANGED <<sess, low>>

LoginFsdir(i, t) ==
  /\ MayLogin(i, t) /\ Proto[t] = "fsdir"
  /\ \E r, q \in Res, n \in KeyCounts :
       /\ IsFirst(r, FreeRes) /\ IsFirst(q, FreeRes \ {r})
       /\ HasRoom(n)
       /\ \/ SecondLoadFails(t, r, n)
          \/ SecondLoad(t, r, q, n)
          \/ SecondLoadNoRoom(t, r, n)
  /\ UNCHANGED <<present, pin, file>>

(* C_Logout: the slot's resource and the keys of its backend go; those of a *)
(* soft token without a path stay.                                          *)
Logout(i, t) ==
  /\ Open(i) /\ sess[i].slot = t /\ sess[i].user # "none"
  /\ keys' = IF held[t] # NoRes \/ (Proto[t] = "soft" /\ file # "no path")
             THEN Swept(t) ELSE keys
  /\ res' = [r \in Res |-> IF r = held[t] THEN NoSlot ELSE res[r]]
  /\ held' = [held EXCEPT ![t] = NoRes]
  /\ pin' = [pin EXCEPT ![t] = FALSE]
  /\ sess' = LoggedOut(t)
  /\ UNCHANGED <<present, low, file>>

(* C_InitPIN: on a soft token without a keystore file, an empty one. *)
InitPIN(i, t) ==
  /\ Open(i) /\ sess[i].slot = t /\ Proto[t] = "soft"
  /\ file = "absent"
  /\ file' = "present"
  /\ UNCHANGED <<sess, keys, present, held, res, pin, low>>

-----------------------------------------------------------------------------
(* Objects.  None of these calls asks for a login, except where shown.      *)
AddObject(o) ==
  /\ \E h \in Handles :
       /\ IsFirst(h, FreeHandles)
       /\ keys' = [keys EXCEPT ![h] = o]
  /\ UNCHANGED <<sess, present, held, res, pin, low, file>>

(* C_CreateObject; also a private key import that the HSM refuses, which    *)
(* returns an error and leaves the entry it had filled.                     *)
CreateObject(i, t, c, p) ==
  /\ Open(i) /\ sess[i].slot = t
  /\ AddObject(NewObject(t, "none", c, p, NoRes))

ImportToHsm(i, t, p) ==
  /\ Open(i) /\ sess[i].slot = t /\ sess[i].user # "none"
  /\ Proto[t] = "hsm" /\ held[t] # NoRes
  /\ AddObject(NewObject(t, "hsm", "key", p, held[t]))

GenerateKey(i, t, p) ==
  /\ Open(i) /\ sess[i].slot = t
  /\ AddObject(NewObject(t, "none", "secret", p, NoRes))

(* Two entries: the public key, then the private key. *)
GeneratePair(i, t, p) ==
  /\ Open(i) /\ sess[i].slot = t
  /\ \/ Proto[t] = "soft" /\ (p => sess[i].user # "none" \/ file = "no path")
     \/ Proto[t] = "hsm" /\ sess[i].user # "none" /\ held[t] # NoRes
  /\ HasRoom(2)
  /\ keys' = [h \in Handles |->
                IF h \in Claim(2)
                THEN NewObject(t, OwnBackend(t), "key", p /\ h \notin Claim(1),
                               held[t])
                ELSE keys[h]]
  /\ UNCHANGED <<sess, present, held, res, pin, low, file>>

(* PIV: the key is made on the token.  A target PIV slot that no object     *)
(* stands for, while there is one, gets a new object; an object that stands *)
(* for the target keeps its handle and stands for the new key (RenewOnPiv). *)
PivObjects(t) ==
  {h \in Handles : keys[h].slot = t /\ keys[h].backend = "usb"
                     /\ keys[h].class = "key"}

GenerateOnPiv(i, t) ==
  /\ Open(i) /\ sess[i].slot = t /\ Proto[t] = "piv"
  /\ held[t] # NoRes
  /\ Cardinality(PivObjects(t)) < PivKeys
  /\ AddObject(NewObject(t, "usb", "key", TRUE, held[t]))

(* The key of the object is replaced on the card, also when the answer does *)
(* not come back and the call fails.                                        *)
RenewOnPiv(i, t, h) ==
  /\ Open(i) /\ sess[i].slot = t /\ Proto[t] = "piv"
  /\ held[t] # NoRes
  /\ h \in PivObjects(t)
  /\ keys' = [keys EXCEPT ![h].renewed = ~@]
  /\ UNCHANGED <<sess, present, held, res, pin, low, file>>

(* Neither C_DeriveKey nor the calls that start an operation compare the    *)
(* slot of the key with the session's.                                      *)
MayUse(i, h) == Foreign \/ keys[h].slot = sess[i].slot

(* C_DeriveKey: the secret belongs to the caller's slot and to the backend  *)
(* of the base key.                                                         *)
DeriveKey(i, t, b) ==
  /\ Open(i) /\ sess[i].slot = t /\ MayUse(i, b)
  /\ keys[b].class = "key" /\ keys[b].backend \in {"soft", "usb", "hsm"}
  /\ AddObject(NewObject(t, keys[b].backend, "secret", FALSE, NoRes))

CopyObject(i, b) ==
  /\ Open(i) /\ keys[b].class = "data"
  /\ AddObject(keys[b])

DestroyObject(i, h) ==
  /\ Open(i) /\ InUse(h) /\ keys[h].slot = sess[i].slot
  /\ keys' = [keys EXCEPT ![h] = FreeEntry(keys[h].private)]
  /\ sess' = WithoutOpsOn(h)
  /\ UNCHANGED <<present, held, res, pin, low, file>>

-----------------------------------------------------------------------------
OpInit_Bad(i, k, h) ==
  /\ Open(i) /\ sess[i].op[k] = NoKey
  /\ InUse(h)
  /\ sess' = [sess EXCEPT ![i].op[k] = h + 1]
  /\ UNCHANGED <<keys, present, held, res, pin, low, file>>

(* C_SignInit, C_VerifyInit, C_EncryptInit, C_DecryptInit; C_EncryptInit    *)
(* does not look at the object's class.                                     *)
OpInit(i, k, h) ==
  /\ Open(i) /\ sess[i].op[k] = NoKey
  /\ InUse(h) /\ MayUse(i, h)
  /\ k # "encrypt" => keys[h].class # "cert"
  /\ keys[h].private => sess[i].user # "none"
  /\ sess' = [sess EXCEPT ![i].op[k] = h]
  /\ UNCHANGED <<keys, present, held, res, pin, low, file>>

(* The call that completes the operation or gives it up. *)
OpEnd(i, k) ==
  /\ Open(i) /\ sess[i].op[k] # NoKey
  /\ sess' = [sess EXCEPT ![i].op[k] = NoKey]
  /\ UNCHANGED <<keys, present, held, res, pin, low, file>>

-----------------------------------------------------------------------------
Login(i, t) ==
  \/ LoginWrongPin(i, t) \/ LoginSO(i, t)
  \/ LoginPiv(i, t)      \/ LoginPivNoRoom(i, t)
  \/ LoginHsm(i, t)      \/ LoginHsmNoRoom(i, t)
  \/ LoginSoft(i, t)     \/ LoginSoftDrops(i, t)
  \/ LoginKeystore(i, t) \/ LoginKeystoreNoRoom(i, t)
  \/ LoginFsdir(i, t)

SlotStep(t) ==
  \/ TokenArrives(t) \/ TokenDeparts(t) \/ CloseAllSessions(t)
  \/ \E rw \in BOOLEAN : OpenSession(t, rw)

CallStep(i, t) ==
  \/ Login(i, t) \/ Logout(i, t) \/ InitPIN(i, t)
  \/ \E p \in BOOLEAN :
       \/ \E c \in NewClasses : CreateObject(i, t, c, p)
       \/ ImportToHsm(i, t, p) \/ GenerateKey(i, t, p)
       \/ GeneratePair(i, t, p)
  \/ GenerateOnPiv(i, t)
  \/ \E h \in Handles : RenewOnPiv(i, t, h) \/ DeriveKey(i, t, h)

SessionStep(i) ==
  \/ CloseSession(i)
  \/ \E h \in Handles : CopyObject(i, h) \/ DestroyObject(i, h)
  \/ \E k \in OpKinds : OpEnd(i, k) \/ \E h \in Handles : OpInit(i, k, h)

Next ==
  \/ Restart
  \/ \E t \in Slots : SlotStep(t)
  \/ \E i \in Sessions : SessionStep(i)
  \/ \E i \in Sessions, t \in Slots : CallStep(i, t)

Spec == Init /\ [][Next]_vars

-----------------------------------------------------------------------------
(* The tables hold what their C types and limits allow; a resource id is    *)
(* never left outside the heap.                                             *)
TypeOK ==
  /\ sess \in [Sessions -> Session]
  /\ keys \in [Handles -> Object]
  /\ present \in [Slots -> BOOLEAN]
  /\ held \in [Slots -> Res \cup {NoRes}]
  /\ res \in [Res -> Slots \cup {NoSlot}]
  /\ pin \in [Slots -> BOOLEAN]
  /\ low \in [Slots -> BOOLEAN]
  /\ file \in Files

(* Login state belongs to the token: however sessions were opened, closed   *)
(* and logged in, all open sessions of a slot have the same user            *)
(* (C_OpenSession copies the state of one session, C_Login sets them all).  *)
LoginUniform ==
  \A i, j \in Sessions :
    Open(i) /\ sess[i].slot = sess[j].slot => sess[i].user = sess[j].user

(* No read-only session exists on a token while the SO is logged in:        *)
(* C_Login refuses when one is open, C_OpenSession refuses to open one.     *)
SOSessionsReadWrite ==
  \A i \in Sessions : sess[i].user = "so" => sess[i].rw

(* A session never outlives its token: a departure invalidates every        *)
(* session of the slot in the same critical section.                        *)
SessionsNeedToken ==
  \A i \in Sessions : Open(i) => present[sess[i].slot]

(* While a user is logged in on a token the slot has what its keys need:    *)
(* the reader, the keystore, the HSM connection, or the cached PIN; a soft  *)
(* token without a keystore path needs none of them.                        *)
UserHasResources ==
  \A i \in Sessions :
    sess[i].user = "user" =>
      IF Proto[sess[i].slot] = "soft" THEN pin[sess[i].slot] \/ file = "no path"
                                      ELSE held[sess[i].slot] # NoRes

(* No use after free: what a slot or an object points to is allocated, and  *)
(* for that same slot, across logouts, departures, failed logins, restarts. *)
NoDangling ==
  /\ \A t \in Slots : held[t] # NoRes => res[held[t]] = t
  /\ \A h \in Handles :
       InUse(h) /\ keys[h].back # NoRes => res[keys[h].back] = keys[h].slot

(* Keys that live on a token or a server are visible only while the slot    *)
(* has its connection, a connection only while the token is there, and a    *)
(* PIV or HSM key always speaks through the slot's current connection: no   *)
(* key of an earlier login survives into a later one.                       *)
KeysFollowConnection ==
  /\ \A t \in Slots : held[t] # NoRes => present[t]
  /\ \A h \in Handles :
       keys[h].class = "key" =>
         /\ keys[h].backend \in {"usb", "ks", "hsm"} =>
              held[keys[h].slot] # NoRes
         /\ keys[h].backend \in {"usb", "hsm"} =>
              keys[h].back = held[keys[h].slot]

(* With a user logged in, no wrong PIN is pending: C_Login refuses a second *)
(* login before it can count, so CKF_USER_PIN_COUNT_LOW is off.             *)
NoFailuresWhileLoggedIn ==
  \A i \in Sessions : Open(i) /\ sess[i].user # "none" => ~low[sess[i].slot]

(* An operation that is active on a session refers to an existing object.   *)
(* C_Logout and C_DestroyObject clear the operations for that reason.       *)
OpsHaveKeys ==
  \A i \in Sessions, k \in OpKinds :
    sess[i].op[k] # NoKey => InUse(sess[i].op[k])

(* The key of an active operation is, until the operation ends, the object  *)
(* the operation was started with: it neither vanishes nor changes, and its *)
(* handle is not given to another object.                                   *)
OpKeyStable ==
  [][\A i \in Sessions, k \in OpKinds :
       sess[i].op[k] # NoKey /\ sess'[i].op[k] = sess[i].op[k] =>
         keys'[sess[i].op[k]] = keys[sess[i].op[k]]]_vars

(* A CKA_PRIVATE key is under an operation only in a session that is logged *)
(* in.  The login is tested when the operation starts; it must still hold   *)
(* when it runs.                                                            *)
PrivateOpsLoggedIn ==
  \A i \in Sessions, k \in OpKinds :
    sess[i].op[k] # NoKey /\ keys[sess[i].op[k]].private =>
      sess[i].user # "none"

(* C_Logout leaves nothing of the login behind: no connection, no PIN, no   *)
(* operation, and no key of the token's backend unless the token keeps its  *)
(* keys in memory only, where a login brings none.                          *)
KeepsKeys(t) == Proto[t] = "soft" /\ file = "no path"

LogoutWipes ==
  [][\A i \in Sessions :
       /\ Open(i) /\ sess[i].user # "none"
       /\ sess'[i].slot = sess[i].slot /\ sess'[i].user = "none"
       => LET t == sess[i].slot
          IN  /\ held'[t] = NoRes /\ ~pin'[t]
              /\ \A j \in SlotSessions(t) : sess'[j].op = NoOps
              /\ \A h \in Handles :
                   /\ keys'[h].slot = t /\ keys'[h].class = "key"
                   /\ keys'[h].backend = OwnBackend(t)
                   => KeepsKeys(t)]_vars

(* A call or an event concerns one token: the objects, the login state, the *)
(* connection and the PIN state of every other token stay what they were.   *)
View(t) ==
  <<present[t], held[t], pin[t], low[t], {r \in Res : res[r] = t},
    {h \in Handles : keys[h].slot = t}, [i \in SlotSessions(t) |-> sess[i].user]>>

OneTokenPerStep ==
  [][Restart \/ \E t \in Slots : \A u \in Slots \ {t} : View(u)' = View(u)]_vars

(* What the session table says of a token: the code keeps who is logged in  *)
(* with every session, PKCS#11 with the token.                              *)
UserOf(t) ==
  IF \E i \in SlotSessions(t) : sess[i].user = "so" THEN "so"
  ELSE IF \E i \in SlotSessions(t) : sess[i].user = "user" THEN "user"
  ELSE "none"

ReadOnly  == [t \in Slots |-> {i \in SlotSessions(t) : ~sess[i].rw}]
ReadWrite == [t \in Slots |-> {i \in SlotSessions(t) : sess[i].rw}]
LoggedOn  == [t \in Slots |-> UserOf(t)]

PKCS11 == INSTANCE TokenLogin
            WITH Tokens <- Slots, Ids <- Sessions, readOnly <- ReadOnly,
                 readWrite <- ReadWrite, user <- LoggedOn

(* The table implements the sessions and login of PKCS#11: whatever call or *)
(* event changes it, in whatever order, is for one token a step of its      *)
(* sessions and its login; a login ends by a logout or with the last        *)
(* session, never by one session of several.                                *)
LoginSpec == PKCS11!Spec
=============================================================================
