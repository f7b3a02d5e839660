----------------------------- MODULE Operations -----------------------------
(***************************************************************************)
(* The cryptographic operations of a session in src/src/wp11_pkcs11.c:     *)
(* sign, verify, encrypt, decrypt and digest, from the C_*Init call to the *)
(* call that completes or gives up.  Every call runs under g_lock and is   *)
(* one action.                                                             *)
(*                                                                         *)
(* Operations of different kinds share nothing but the objects, so there   *)
(* is one operation and its kind is chosen in Init.  Data is counted in    *)
(* blocks: what matters of a cipher or hash context is how much went       *)
(* through it since the Init call.  An object is what the calls look at:   *)
(*   rsa, ec   a key with a backend and key_priv                           *)
(*   bare      no backend, no value: data, imported public or private keys *)
(*   aes, mac  a value and no backend: imported and generated secrets      *)
(*   derived   a value and a backend, without key_priv: C_DeriveKey        *)
(*   cert      a certificate, of a PIV token                               *)
(* A call that returns an error and changes nothing is a stuttering step,  *)
(* unless a property speaks of it.                                         *)
(*                                                                         *)
(* A definition named X_Bad is X with a plausible programming error; no    *)
(* action uses it.  The README says which property each of them breaks.    *)
(***************************************************************************)
EXTENDS Naturals

CONSTANTS
  Kinds,    \* the kinds of operation considered
  Handles,  \* object handles
  Types,    \* the types of object considered
  MaxPart,  \* bound: blocks handed to one call
  MaxData   \* bound: blocks handed to one operation

AllKinds == {"sign", "verify", "encrypt", "decrypt", "digest"}
AllTypes == {"rsa", "ec", "bare", "aes", "mac", "derived", "cert"}
NoHandle == "no handle"

ASSUME OperationsAssumption ==
  /\ Kinds \subseteq AllKinds
  /\ Types \subseteq AllTypes
  /\ NoHandle \notin Handles
  /\ MaxPart \in Nat /\ MaxData \in Nat

Mechs == {"rsa", "oaep", "pss", "ecdsa", "hmac", "block", "gcm", "hash"}

VARIABLES
  kind,   \* the kind of operation
  op,     \* its fields in wp11_session_t: *_active, *_oneshot, *_multipart, ...
  ctx,    \* blocks through enc_ctx, dec_ctx or dig_ctx since the Init call
  told,   \* blocks of the calls that reported success since the Init call
  obj,    \* the objects behind the handles, "free" for none
  user,   \* the session is logged in
  ret     \* the last call and what it returned

vars == <<kind, op, ctx, told, obj, user, ret>>

Parts == 0..MaxPart

Idle == [active |-> FALSE, oneshot |-> FALSE, multi |-> FALSE,
         mech |-> "hash", key |-> NoHandle]

Object(t, p) == [type |-> t, private |-> p]
Free    == Object("free", FALSE)
Objects == [type : Types, private : BOOLEAN]
Results == {"ok", "size", "small", "active", "error"}

Init ==
  /\ kind \in Kinds
  /\ op = Idle /\ ctx = 0 /\ told = 0
  /\ obj \in [Handles -> Objects \cup {Free}]
  /\ user \in BOOLEAN
  /\ ret = [call |-> "none", rv |-> "ok"]

-----------------------------------------------------------------------------
InUse(h)      == h \in Handles /\ obj[h].type # "free"
IsA(h, T)     == InUse(h) /\ obj[h].type \in T
HasBackend(h) == IsA(h, {"rsa", "ec", "derived", "cert"})
HasValue(h)   == IsA(h, {"aes", "mac", "derived"})

(* Encrypt and decrypt take a key for its key_type; CKK_RSA is 0, which is  *)
(* also the key_type of what is no key.                                     *)
Accepts(m, h) ==
  CASE kind \in {"sign", "verify"} ->
         \/ m \in {"rsa", "ecdsa"}
         \/ m = "pss" /\ IsA(h, {"rsa", "bare"})
         \/ m = "hmac" /\ HasValue(h)
    [] kind \in {"encrypt", "decrypt"} ->
         \/ m \in {"rsa", "oaep"} /\ IsA(h, {"rsa", "bare", "cert"})
         \/ m \in {"block", "gcm"} /\ IsA(h, {"aes"})
    [] OTHER -> m = "hash"

(* The object is there, may be used by this session, and is a key (which    *)
(* C_EncryptInit does not ask); C_DigestInit takes none.                    *)
Usable(h) ==
  \/ kind = "digest"
  \/ /\ InUse(h)
     /\ obj[h].private => user
     /\ obj[h].type = "cert" => kind = "encrypt"

Returns(c, r) == ret' = [call |-> c, rv |-> r]
Frame         == UNCHANGED <<kind, obj, user>>
NoData        == UNCHANGED <<ctx, told>>
Keep          == UNCHANGED op
Terminate     == op' = [op EXCEPT !.active = FALSE]
Complete      == op' = [op EXCEPT !.active = FALSE, !.oneshot = FALSE,
                                  !.multi = FALSE]

Feed_Bad(n) ==
  /\ told <= MaxData
  /\ ctx' = ctx + n
  /\ told' = told + n

(* n blocks go through the context and the call reports success. *)
Feed(n) ==
  /\ told + n <= MaxData
  /\ ctx' = ctx + n
  /\ told' = told + n

-----------------------------------------------------------------------------
(* C_SignInit, C_VerifyInit, C_EncryptInit, C_DecryptInit, C_DigestInit.    *)
(* C_DecryptInit looks for an active operation after it has looked at the   *)
(* key.                                                                     *)
InitStarts(m, h) ==
  /\ ~op.active
  /\ Usable(h) /\ Accepts(m, h)
  /\ op' = [active |-> TRUE, oneshot |-> FALSE, multi |-> FALSE,
            mech |-> m, key |-> h]
  /\ ctx' = 0 /\ told' = 0
  /\ Returns("Init", "ok") /\ Frame

InitRefused(h) ==
  /\ op.active
  /\ kind = "decrypt" => Usable(h)
  /\ Keep /\ NoData
  /\ Returns("Init", "active") /\ Frame

(* No such key, not allowed, or a mechanism or parameters that do not fit.  *)
InitFails(h) ==
  /\ \/ ~op.active
     \/ kind = "decrypt" /\ ~Usable(h)
  /\ Terminate /\ NoData
  /\ Returns("Init", "error") /\ Frame

-----------------------------------------------------------------------------
(* C_Sign and C_Verify.                                                     *)
Signing   == kind \in {"sign", "verify"} /\ op.active
ByBackend == op.mech \in {"rsa", "ecdsa"}

SignDone ==
  /\ Signing
  /\ \/ ByBackend /\ IsA(op.key, {"rsa", "ec"})
     \/ op.mech = "pss" /\ IsA(op.key, {"rsa"})
     \/ op.mech = "hmac" /\ HasValue(op.key)
  /\ Terminate /\ NoData
  /\ Returns("Single", "ok") /\ Frame

(* A NULL pointer is refused before the session is looked up.               *)
SignLacksArgument ==
  /\ Signing
  /\ Keep /\ NoData
  /\ Returns("Single", "error") /\ Frame

(* The key is gone, or the backend, the padding or the HMAC fails; or the   *)
(* signature to verify is empty. *)
SignFails ==
  /\ Signing
  /\ ~InUse(op.key) \/ ~ByBackend \/ HasBackend(op.key) \/ kind = "verify"
  /\ Terminate /\ NoData
  /\ Returns("Single", "error") /\ Frame

(* A key without a backend: CKR_FUNCTION_FAILED, and *_active stays.        *)
SignNoBackend ==
  /\ Signing
  /\ ByBackend /\ InUse(op.key) /\ ~HasBackend(op.key)
  /\ Keep /\ NoData
  /\ Returns("Single", "error") /\ Frame

SignQuery ==
  /\ Signing /\ kind = "sign" /\ InUse(op.key)
  /\ \/ Returns("Single", "size")
     \/ /\ op.mech = "hmac" \/ IsA(op.key, {"rsa", "ec"})
        /\ Returns("Single", "small")
  /\ Keep /\ NoData /\ Frame

-----------------------------------------------------------------------------
(* C_Encrypt, C_Decrypt and C_Digest.  A multi-part operation refuses them  *)
(* and ends.                                                                *)
Streaming == kind \in {"encrypt", "decrypt", "digest"} /\ op.active
NeedsKey  == kind = "decrypt" \/ op.mech \in {"rsa", "oaep"}

SinglePoliced ==
  /\ Streaming /\ op.multi
  /\ IF kind = "digest" THEN Complete ELSE Terminate
  /\ NoData
  /\ Returns("Single", "active") /\ Frame

(* Missing arguments, a length that is no multiple of the block size, a key *)
(* that is gone or of the wrong sort, a cipher or a backend that fails.     *)
SingleFails ==
  /\ Streaming
  /\ Terminate /\ NoData
  /\ Returns("Single", "error") /\ Frame

(* No output buffer: the length is returned and the mode is now one-shot.   *)
SingleQuery ==
  /\ Streaming /\ ~op.multi
  /\ CASE op.mech = "oaep" -> IsA(op.key, {"rsa"})
       [] op.mech = "rsa" /\ kind = "encrypt" -> IsA(op.key, {"rsa"})
       [] OTHER -> kind = "decrypt" => InUse(op.key)
  /\ op' = [op EXCEPT !.oneshot = TRUE]
  /\ NoData
  /\ Returns("Single", "size") /\ Frame

SingleTooSmall ==
  /\ Streaming /\ ~op.multi
  /\ op.mech # "oaep"
  /\ NeedsKey => kind = "decrypt" /\ InUse(op.key)
  /\ Keep /\ NoData
  /\ Returns("Single", "small") /\ Frame

SingleDone_Bad(n) ==
  /\ Streaming
  /\ NeedsKey => IsA(op.key, {"rsa", "aes"})
  /\ Feed(n) /\ Complete
  /\ Returns("Single", "ok") /\ Frame

(* The RSA mechanisms work on the object, the others on the context that    *)
(* the Init call keyed; C_Decrypt wants the object in any case, and one     *)
(* without a backend for a block cipher.                                    *)
SingleDone(n) ==
  /\ Streaming /\ ~op.multi
  /\ CASE op.mech \in {"rsa", "oaep"} -> IsA(op.key, {"rsa"})
       [] kind = "decrypt" /\ op.mech = "block" ->
            InUse(op.key) /\ ~HasBackend(op.key)
       [] OTHER -> kind = "decrypt" => InUse(op.key)
  /\ IF op.mech \in {"rsa", "oaep"} THEN NoData ELSE Feed(n)
  /\ IF op.mech = "rsa" /\ kind = "decrypt" THEN Terminate ELSE Complete
  /\ Returns("Single", "ok") /\ Frame

-----------------------------------------------------------------------------
(* C_EncryptUpdate, C_DecryptUpdate, C_DigestUpdate, C_DigestKey.  The      *)
(* digest calls do not look at the one-shot mode.                           *)
Ciphering == kind \in {"encrypt", "decrypt"} /\ op.active

UpdatePoliced ==
  /\ Ciphering /\ op.oneshot
  /\ Terminate /\ NoData
  /\ Returns("Update", "active") /\ Frame

(* As for SingleFails; also every mechanism that has no multi-part form.    *)
UpdateFails ==
  /\ Ciphering
  /\ Terminate /\ NoData
  /\ Returns("Update", "error") /\ Frame

UpdateTooSmall_Bad ==
  /\ Ciphering /\ ~op.oneshot
  /\ Keep
  /\ ctx' = ctx + 1 /\ ctx < MaxData
  /\ UNCHANGED told
  /\ Returns("Update", "small") /\ Frame

UpdateTooSmall ==
  /\ Ciphering /\ ~op.oneshot
  /\ Keep /\ NoData
  /\ Returns("Update", "small") /\ Frame

UpdateDone(n) ==
  /\ op.active
  /\ \/ kind = "digest"
     \/ Ciphering /\ ~op.oneshot /\ op.mech = "block"
  /\ Feed(n)
  /\ op' = [op EXCEPT !.multi = TRUE]
  /\ Returns("Update", "ok") /\ Frame

Digesting == kind = "digest" /\ op.active

(* C_DigestUpdate looks at its pointer before it looks at the session.      *)
DigestLacksArgument ==
  /\ Digesting
  /\ Keep /\ NoData
  /\ Returns("Update", "error") /\ Frame

DigestKey(h) ==
  /\ Digesting
  /\ HasValue(h)
  /\ Feed(1)
  /\ op' = [op EXCEPT !.multi = TRUE]
  /\ Returns("Update", "ok") /\ Frame

(* No such object, or one without a value: the digest goes on without it.   *)
DigestKeyFails(h) ==
  /\ Digesting
  /\ ~HasValue(h)
  /\ Keep /\ NoData
  /\ Returns("Update", "error") /\ Frame

-----------------------------------------------------------------------------
(* C_EncryptFinal, C_DecryptFinal: with its arguments complete the call     *)
(* ends the operation in any mode; there is no last part.                   *)
CipherFinal ==
  /\ Ciphering
  /\ Complete /\ NoData
  /\ Returns("Final", "ok") /\ Frame

(* With a NULL pointer it never gets to the session, and cannot end it.     *)
CipherFinalLacksArgument ==
  /\ Ciphering
  /\ Keep /\ NoData
  /\ Returns("Final", "error") /\ Frame

DigestFinalPoliced ==
  /\ Digesting /\ op.oneshot
  /\ Complete /\ NoData
  /\ Returns("Final", "active") /\ Frame

DigestFinalFails ==
  /\ Digesting /\ ~op.oneshot
  /\ Terminate /\ NoData
  /\ Returns("Final", "error") /\ Frame

DigestFinalQuery_Bad ==
  /\ Digesting /\ ~op.oneshot
  /\ op' = [op EXCEPT !.oneshot = TRUE] /\ NoData
  /\ Returns("Final", "size") /\ Frame

DigestFinalQuery ==
  /\ Digesting /\ ~op.oneshot
  /\ Keep /\ NoData
  /\ \/ Returns("Final", "size")
     \/ Returns("Final", "small")
  /\ Frame

DigestFinalDone_Bad ==
  /\ Digesting
  /\ Complete /\ NoData
  /\ Returns("Final", "ok") /\ Frame

DigestFinalDone ==
  /\ Digesting /\ ~op.oneshot
  /\ Complete /\ NoData
  /\ Returns("Final", "ok") /\ Frame

-----------------------------------------------------------------------------
(* Calls on other sessions, other calls on this one, and tokens that leave. *)
Quiet == ret' = [call |-> "other", rv |-> "ok"] /\ UNCHANGED <<kind, ctx, told>>

WithoutKey == [op EXCEPT !.active = FALSE, !.key = NoHandle]

ObjectAdded(h, o) ==
  /\ ~InUse(h)
  /\ obj' = [obj EXCEPT ![h] = o]
  /\ UNCHANGED <<op, user>> /\ Quiet

(* C_DestroyObject ends the operations that use the object. *)
ObjectDestroyed(h) ==
  /\ InUse(h)
  /\ obj' = [obj EXCEPT ![h] = Free]
  /\ op' = IF op.key = h THEN WithoutKey ELSE op
  /\ UNCHANGED user /\ Quiet

(* The object is on another token, which leaves or is logged out. *)
ObjectGone(h) ==
  /\ InUse(h)
  /\ obj' = [obj EXCEPT ![h] = Free]
  /\ UNCHANGED <<op, user>> /\ Quiet

LogIn ==
  /\ ~user /\ user' = TRUE
  /\ UNCHANGED <<op, obj>> /\ Quiet

LogOut ==
  /\ user /\ user' = FALSE
  /\ op' = IF kind = "digest" THEN [op EXCEPT !.active = FALSE] ELSE WithoutKey
  /\ UNCHANGED obj /\ Quiet

-----------------------------------------------------------------------------
InitCall ==
  \E h \in Handles :
    \/ InitRefused(h) \/ InitFails(h)
    \/ \E m \in Mechs : InitStarts(m, h)

SingleCall ==
  \/ SignLacksArgument \/ SignDone \/ SignFails \/ SignNoBackend \/ SignQuery
  \/ SinglePoliced \/ SingleFails \/ SingleQuery \/ SingleTooSmall
  \/ \E n \in Parts : SingleDone(n)

MultiCall ==
  \/ UpdatePoliced \/ UpdateFails \/ UpdateTooSmall
  \/ \E n \in Parts : UpdateDone(n)
  \/ DigestLacksArgument
  \/ \E h \in Handles : DigestKey(h) \/ DigestKeyFails(h)
  \/ CipherFinal \/ CipherFinalLacksArgument
  \/ DigestFinalPoliced \/ DigestFinalFails \/ DigestFinalQuery \/ DigestFinalDone

OtherCall ==
  \/ LogIn \/ LogOut
  \/ \E h \in Handles :
       \/ ObjectDestroyed(h) \/ ObjectGone(h)
       \/ \E o \in Objects : ObjectAdded(h, o)

Next == InitCall \/ SingleCall \/ MultiCall \/ OtherCall

Spec == Init /\ [][Next]_vars

-----------------------------------------------------------------------------
(* The fields hold what their types and the bounds allow. *)
TypeOK ==
  /\ kind \in Kinds
  /\ op \in [active : BOOLEAN, oneshot : BOOLEAN, multi : BOOLEAN,
             mech : Mechs, key : Handles \cup {NoHandle}]
  /\ ctx \in 0..MaxData /\ told \in 0..MaxData
  /\ obj \in [Handles -> Objects \cup {Free}]
  /\ user \in BOOLEAN
  /\ ret \in [call : {"none", "Init", "Single", "Update", "Final", "other"},
              rv : Results]

(* What has gone through the cipher or hash context is what the calls that  *)
(* reported success were given: a call that asks for a size, finds its      *)
(* buffer too small or fails, and is then repeated, feeds its data once.    *)
DataOnce == op.active => ctx = told

(* A single-part call produces the result for its own data alone: it never  *)
(* runs on a context that parts have gone through, whatever was called, was *)
(* refused or failed since the Init call.                                   *)
OneShotIsFresh ==
  [][ret'.call = "Single" /\ ret'.rv = "ok" /\ op.mech \in {"block", "gcm", "hash"}
       => ctx = 0]_vars

(* No call completes an operation whose Init call was followed both by a    *)
(* part and by a size query of a single-part call.  (C_DigestUpdate accepts *)
(* data after a size query of C_Digest; such a digest is never finished.    *)
(* C_EncryptFinal and C_DecryptFinal do end, with CKR_OK and no data, an    *)
(* operation that had the size query alone: no part is lost by it.)         *)
ModesNeverMix ==
  [][ret'.call \in {"Single", "Final"} /\ ret'.rv = "ok" =>
       ~(op.oneshot /\ op.multi)]_vars

(* The operation is in a mode in which it would be ended by the call.       *)
Refuses(call) ==
  \/ call = "Single" /\ Streaming /\ op.multi
  \/ call = "Update" /\ Ciphering /\ op.oneshot
  \/ call = "Final" /\ Digesting /\ op.oneshot

(* A call that neither completed nor ended its operation can be made again: *)
(* after a size query or a buffer that was too small the operation is there *)
(* for it, and no such call, nor one that returned an error and left the    *)
(* operation active, has put it in a mode that refuses the repetition.      *)
RetryIsAccepted ==
  /\ ret.rv \in {"size", "small"} => op.active
  /\ ret.rv \in {"size", "small", "error"} => ~Refuses(ret.call)
=============================================================================
