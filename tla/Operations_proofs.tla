-------------------------- MODULE Operations_proofs --------------------------
(***************************************************************************)
(* Calls that are repeated, refused or fail keep an operation's data and   *)
(* mode straight: for all kinds and types of object, any handles, and data *)
(* of any length.                                                          *)
(***************************************************************************)
EXTENDS Operations, TLAPS

OpFields == [active : BOOLEAN, oneshot : BOOLEAN, multi : BOOLEAN,
             mech : Mechs, key : Handles \cup {NoHandle}]

Returned == [call : {"none", "Init", "Single", "Update", "Final", "other"},
             rv : Results]

(* No data has gone through the context of an operation that is not in the  *)
(* multi-part mode. *)
Fresh == op.active /\ ~op.multi => ctx = 0

(* The modes of what is left of an operation, active or not: only a digest  *)
(* was ever used in both ways. *)
Modes ==
  /\ kind \in {"sign", "verify"} => ~op.multi
  /\ kind # "digest" => ~(op.oneshot /\ op.multi)

(* OneShotIsFresh needs Fresh, ModesNeverMix needs Modes; the other parts   *)
(* follow from the last call alone.                                         *)
OpInv == TypeOK /\ DataOnce /\ Fresh /\ Modes /\ RetryIsAccepted

-----------------------------------------------------------------------------
LEMMA TerminateOp ==
  ASSUME op \in OpFields, Terminate
  PROVE  /\ op' \in OpFields /\ ~op'.active
         /\ op'.oneshot = op.oneshot /\ op'.multi = op.multi
BY DEF Terminate, OpFields

LEMMA CompleteOp ==
  ASSUME op \in OpFields, Complete
  PROVE  op' \in OpFields /\ ~op'.active /\ ~op'.oneshot /\ ~op'.multi
BY DEF Complete, OpFields

LEMMA ReturnedType ==
  ASSUME NEW c \in {"none", "Init", "Single", "Update", "Final", "other"},
         NEW r \in Results, Returns(c, r)
  PROVE  ret' \in Returned /\ ret'.call = c /\ ret'.rv = r
BY DEF Returns, Returned

(* A call that ends the operation. *)
LEMMA Ended ==
  ASSUME OpInv, Terminate \/ Complete, Frame,
         ctx' \in 0..MaxData, told' \in 0..MaxData,
         NEW c \in {"Init", "Single", "Update", "Final"},
         NEW r \in {"ok", "active", "error"}, Returns(c, r)
  PROVE  OpInv'
<1>1. op' \in OpFields /\ ~op'.active /\ (op'.oneshot => op.oneshot)
      /\ (op'.multi => op.multi)
  BY TerminateOp, CompleteOp DEF OpInv, TypeOK, OpFields
<1>2. ret' \in Returned /\ ret'.call = c /\ ret'.rv = r
  BY ReturnedType DEF Results
<1>3. TypeOK'
  BY <1>1, <1>2 DEF OpInv, TypeOK, Frame, OpFields, Returned
<1>4. Modes'
  BY <1>1 DEF OpInv, Modes, Frame
<1>5. DataOnce' /\ Fresh'
  BY <1>1 DEF DataOnce, Fresh
<1>6. RetryIsAccepted'
  BY <1>1, <1>2 DEF RetryIsAccepted, Refuses, Streaming, Ciphering, Digesting
<1>. QED
  BY <1>3, <1>4, <1>5, <1>6 DEF OpInv

(* A call that leaves the operation and its data alone. *)
LEMMA Kept ==
  ASSUME OpInv, Keep, NoData, Frame,
         NEW c \in {"Init", "Single", "Update", "Final"},
         NEW r \in {"ok", "size", "small", "active", "error"}, Returns(c, r),
         r \in {"size", "small"} => op.active,
         r \in {"size", "small", "error"} => ~Refuses(c)
  PROVE  OpInv'
<1>1. ret' \in Returned /\ ret'.call = c /\ ret'.rv = r
  BY ReturnedType DEF Results
<1>2. UNCHANGED <<kind, op, ctx, told, obj, user>>
  BY DEF Keep, NoData, Frame
<1>3. TypeOK'
  BY <1>1, <1>2 DEF OpInv, TypeOK, Returned
<1>4. DataOnce' /\ Fresh' /\ Modes'
  BY <1>2 DEF OpInv, DataOnce, Fresh, Modes
<1>5. RetryIsAccepted'
  BY <1>1, <1>2 DEF RetryIsAccepted, Refuses, Streaming, Ciphering, Digesting
<1>. QED
  BY <1>3, <1>4, <1>5 DEF OpInv

LEMMA Fed ==
  ASSUME OpInv, NEW n \in Nat, Feed(n), op.active
  PROVE  ctx' \in 0..MaxData /\ told' \in 0..MaxData /\ ctx' = told'
BY OperationsAssumption DEF OpInv, TypeOK, DataOnce, Feed

(* Data goes through the context in the multi-part mode. *)
LEMMA Multi ==
  ASSUME OpInv, NEW n \in Nat, Feed(n), op.active,
         kind = "digest" \/ (Ciphering /\ ~op.oneshot),
         op' = [op EXCEPT !.multi = TRUE], Returns("Update", "ok"), Frame
  PROVE  OpInv'
<1>1. /\ op' \in OpFields /\ op'.active = op.active /\ op'.multi
      /\ op'.oneshot = op.oneshot
  BY DEF OpInv, TypeOK, OpFields
<1>2. ret' \in Returned /\ ret'.call = "Update" /\ ret'.rv = "ok"
  BY ReturnedType DEF Results
<1>3. ctx' \in 0..MaxData /\ told' \in 0..MaxData /\ ctx' = told'
  BY Fed
<1>4. TypeOK'
  BY <1>1, <1>2, <1>3 DEF OpInv, TypeOK, Frame, OpFields, Returned
<1>5. DataOnce' /\ Fresh' /\ Modes'
  BY <1>1, <1>3 DEF DataOnce, Fresh, Modes, Frame, Ciphering
<1>6. RetryIsAccepted'
  BY <1>2 DEF RetryIsAccepted
<1>. QED
  BY <1>4, <1>5, <1>6 DEF OpInv

LEMMA InitPreserves == OpInv /\ InitCall => OpInv'
<1>. SUFFICES ASSUME OpInv, NEW h \in Handles,
                     \/ InitRefused(h) \/ InitFails(h)
                     \/ \E m \in Mechs : InitStarts(m, h)
              PROVE  OpInv'
  BY DEF InitCall
<1>1. CASE InitRefused(h)
  BY <1>1, Kept DEF InitRefused
<1>2. CASE InitFails(h)
  <2>1. ctx' \in 0..MaxData /\ told' \in 0..MaxData
    BY <1>2 DEF InitFails, NoData, OpInv, TypeOK
  <2>. QED
    BY <1>2, <2>1, Ended DEF InitFails
<1>3. ASSUME NEW m \in Mechs, InitStarts(m, h) PROVE OpInv'
  <2>1. /\ op' = [active |-> TRUE, oneshot |-> FALSE, multi |-> FALSE,
                  mech |-> m, key |-> h]
        /\ ctx' = 0 /\ told' = 0
    BY <1>3 DEF InitStarts
  <2>2. op' \in OpFields /\ ~op'.oneshot /\ ~op'.multi
    BY <2>1 DEF OpFields
  <2>3. ret' \in Returned /\ ret'.call = "Init" /\ ret'.rv = "ok"
    BY <1>3, ReturnedType DEF InitStarts, Results
  <2>4. TypeOK'
    BY <1>3, <2>1, <2>2, <2>3, OperationsAssumption
    DEF InitStarts, OpInv, TypeOK, Frame, OpFields, Returned
  <2>5. DataOnce' /\ Fresh' /\ Modes'
    BY <2>1, <2>2 DEF DataOnce, Fresh, Modes
  <2>6. RetryIsAccepted'
    BY <2>3 DEF RetryIsAccepted
  <2>. QED
    BY <2>4, <2>5, <2>6 DEF OpInv
<1>. QED
  BY <1>1, <1>2, <1>3

LEMMA SinglePreserves == OpInv /\ SingleCall => OpInv'
<1>. SUFFICES ASSUME OpInv, SingleCall PROVE OpInv'
  OBVIOUS
<1>. DEFINE Typed == ctx' \in 0..MaxData /\ told' \in 0..MaxData
<1>0. ASSUME NoData PROVE Typed
  BY <1>0 DEF NoData, OpInv, TypeOK
<1>1. CASE SignDone
  BY <1>0, <1>1, Ended DEF SignDone
<1>2. CASE SignFails
  BY <1>0, <1>2, Ended DEF SignFails
<1>3. CASE SignNoBackend \/ SignLacksArgument
  BY <1>3, Kept DEF SignNoBackend, SignLacksArgument, Signing, Refuses, Streaming
<1>4. CASE SignQuery
  BY <1>4, Kept DEF SignQuery, Signing, Refuses, Streaming
<1>5. CASE SinglePoliced
  BY <1>0, <1>5, Ended DEF SinglePoliced
<1>6. CASE SingleFails
  BY <1>0, <1>6, Ended DEF SingleFails
<1>7. CASE SingleQuery
  <2>1. /\ Streaming /\ ~op.multi /\ op' = [op EXCEPT !.oneshot = TRUE]
        /\ NoData /\ Returns("Single", "size") /\ Frame
    BY <1>7 DEF SingleQuery
  <2>2. op' \in OpFields /\ op'.active = op.active /\ op'.oneshot /\ ~op'.multi
    BY <2>1 DEF OpInv, TypeOK, OpFields
  <2>3. ret' \in Returned /\ ret'.call = "Single" /\ ret'.rv = "size"
    BY <2>1, ReturnedType DEF Results
  <2>4. TypeOK'
    BY <2>1, <2>2, <2>3 DEF OpInv, TypeOK, Frame, NoData, OpFields, Returned
  <2>5. DataOnce' /\ Fresh' /\ Modes'
    BY <2>1, <2>2 DEF OpInv, DataOnce, Fresh, Modes, NoData, Frame
  <2>6. RetryIsAccepted'
    BY <2>1, <2>2, <2>3 DEF RetryIsAccepted, Refuses, Streaming, Ciphering, Digesting
  <2>. QED
    BY <2>4, <2>5, <2>6 DEF OpInv
<1>8. CASE SingleTooSmall
  BY <1>8, Kept DEF SingleTooSmall, Refuses, Streaming
<1>9. ASSUME NEW n \in Parts, SingleDone(n) PROVE OpInv'
  <2>1. Streaming /\ (NoData \/ Feed(n)) /\ (Terminate \/ Complete)
    BY <1>9 DEF SingleDone
  <2>2. Returns("Single", "ok") /\ Frame
    BY <1>9 DEF SingleDone
  <2>3. Typed
    BY <1>0, <2>1, Fed, OperationsAssumption DEF Streaming, Parts
  <2>. QED
    BY <2>1, <2>2, <2>3, Ended
<1>. QED
  BY <1>1, <1>2, <1>3, <1>4, <1>5, <1>6, <1>7, <1>8, <1>9 DEF SingleCall

LEMMA MultiPreserves == OpInv /\ MultiCall => OpInv'
<1>. SUFFICES ASSUME OpInv, MultiCall PROVE OpInv'
  OBVIOUS
<1>0. ASSUME NoData PROVE ctx' \in 0..MaxData /\ told' \in 0..MaxData
  BY <1>0 DEF NoData, OpInv, TypeOK
<1>1. CASE UpdatePoliced
  BY <1>0, <1>1, Ended DEF UpdatePoliced
<1>2. CASE UpdateFails
  BY <1>0, <1>2, Ended DEF UpdateFails
<1>3. CASE UpdateTooSmall
  BY <1>3, Kept DEF UpdateTooSmall, Refuses, Ciphering
<1>4. ASSUME NEW n \in Parts, UpdateDone(n) PROVE OpInv'
  <2>1. /\ op.active /\ (kind = "digest" \/ (Ciphering /\ ~op.oneshot))
        /\ Feed(n) /\ op' = [op EXCEPT !.multi = TRUE]
        /\ Returns("Update", "ok") /\ Frame
    BY <1>4, Zenon DEF UpdateDone
  <2>. QED
    BY <2>1, Multi, OperationsAssumption DEF Parts
<1>5. ASSUME NEW h \in Handles, DigestKey(h) PROVE OpInv'
  <2>1. /\ op.active /\ kind = "digest"
        /\ Feed(1) /\ op' = [op EXCEPT !.multi = TRUE]
        /\ Returns("Update", "ok") /\ Frame
    BY <1>5, Zenon DEF DigestKey, Digesting
  <2>2. 1 \in Nat
    OBVIOUS
  <2>. QED
    BY <2>1, <2>2, Multi, Zenon
<1>6. CASE CipherFinal
  BY <1>0, <1>6, Ended DEF CipherFinal
<1>7. CASE DigestFinalPoliced
  BY <1>0, <1>7, Ended DEF DigestFinalPoliced
<1>8. CASE DigestFinalFails
  BY <1>0, <1>8, Ended DEF DigestFinalFails
<1>9. CASE DigestFinalQuery
  BY <1>9, Kept DEF DigestFinalQuery, Refuses, Digesting
<1>10. CASE DigestFinalDone
  BY <1>0, <1>10, Ended DEF DigestFinalDone
<1>11. CASE DigestLacksArgument
  BY <1>11, Kept DEF DigestLacksArgument, Refuses, Ciphering, Digesting
<1>12. ASSUME NEW h \in Handles, DigestKeyFails(h) PROVE OpInv'
  BY <1>12, Kept DEF DigestKeyFails, Refuses, Ciphering, Digesting
<1>13. CASE CipherFinalLacksArgument
  BY <1>13, Kept DEF CipherFinalLacksArgument, Refuses, Ciphering, Digesting
<1>. QED
  BY <1>1, <1>2, <1>3, <1>4, <1>5, <1>6, <1>7, <1>8, <1>9, <1>10, <1>11, <1>12, <1>13
  DEF MultiCall

(* A call that is not about the operation can end it. *)
LEMMA OtherPreserves == OpInv /\ OtherCall => OpInv'
<1>. SUFFICES ASSUME OpInv, OtherCall PROVE OpInv'
  OBVIOUS
<1>1. Quiet /\ obj' \in [Handles -> Objects \cup {Free}] /\ user' \in BOOLEAN
  <2>1. CASE LogIn \/ LogOut
    BY <2>1 DEF LogIn, LogOut, OpInv, TypeOK
  <2>2. ASSUME NEW h \in Handles, ObjectDestroyed(h) \/ ObjectGone(h)
        PROVE  Quiet /\ user' = user /\ obj' = [obj EXCEPT ![h] = Free]
    BY <2>2 DEF ObjectDestroyed, ObjectGone
  <2>3. ASSUME NEW h \in Handles, NEW o \in Objects, ObjectAdded(h, o)
        PROVE  Quiet /\ user' = user /\ obj' = [obj EXCEPT ![h] = o]
    BY <2>3 DEF ObjectAdded
  <2>. QED
    BY <2>1, <2>2, <2>3 DEF OtherCall, OpInv, TypeOK
<1>2. /\ op' \in OpFields /\ (op'.active => op.active)
      /\ op'.oneshot = op.oneshot /\ op'.multi = op.multi
  <2>1. op' \in {op, WithoutKey, [op EXCEPT !.active = FALSE]}
    BY DEF OtherCall, ObjectAdded, ObjectDestroyed, ObjectGone, LogIn, LogOut
  <2>. QED
    BY <2>1 DEF WithoutKey, OpInv, TypeOK, OpFields
<1>3. ret' \in Returned /\ ret'.call = "other" /\ ret'.rv = "ok"
  BY <1>1 DEF Quiet, Returned, Results
<1>4. UNCHANGED <<kind, ctx, told>>
  BY <1>1 DEF Quiet
<1>5. TypeOK'
  BY <1>1, <1>2, <1>3, <1>4 DEF OpInv, TypeOK, OpFields, Returned
<1>6. DataOnce' /\ Fresh' /\ Modes'
  BY <1>2, <1>4 DEF OpInv, DataOnce, Fresh, Modes
<1>7. RetryIsAccepted'
  BY <1>3 DEF RetryIsAccepted
<1>. QED
  BY <1>5, <1>6, <1>7 DEF OpInv

(* The calls that complete an operation. *)
LEMMA SingleSucceeds ==
  ASSUME Next, ret'.call = "Single", ret'.rv = "ok"
  PROVE  SignDone \/ \E n \in Parts : SingleDone(n)
<1>1. ~InitCall
  BY DEF InitCall, InitRefused, InitFails, InitStarts, Returns
<1>2. ~MultiCall
  BY DEF MultiCall, UpdatePoliced, UpdateFails, UpdateTooSmall, UpdateDone, DigestKey,
         CipherFinal, DigestFinalPoliced, DigestFinalFails, DigestFinalQuery,
         DigestFinalDone, DigestLacksArgument, DigestKeyFails,
         CipherFinalLacksArgument, Returns
<1>3. ~OtherCall
  BY DEF OtherCall, LogIn, LogOut, ObjectDestroyed, ObjectGone, ObjectAdded, Quiet
<1>. QED
  BY <1>1, <1>2, <1>3 DEF Next, SingleCall, SignLacksArgument, SignFails, SignNoBackend, SignQuery,
     SinglePoliced, SingleFails, SingleQuery, SingleTooSmall, Returns

LEMMA FinalSucceeds ==
  ASSUME Next, ret'.call = "Final", ret'.rv = "ok"
  PROVE  CipherFinal \/ DigestFinalDone
<1>1. ~InitCall
  BY DEF InitCall, InitRefused, InitFails, InitStarts, Returns
<1>2. ~SingleCall
  BY DEF SingleCall, SignLacksArgument, SignDone, SignFails, SignNoBackend, SignQuery, SinglePoliced,
         SingleFails, SingleQuery, SingleTooSmall, SingleDone, Returns
<1>3. ~OtherCall
  BY DEF OtherCall, LogIn, LogOut, ObjectDestroyed, ObjectGone, ObjectAdded, Quiet
<1>. QED
  BY <1>1, <1>2, <1>3 DEF Next, MultiCall, UpdatePoliced, UpdateFails, UpdateTooSmall,
     UpdateDone, DigestKey, DigestKeyFails, DigestLacksArgument,
     CipherFinalLacksArgument, DigestFinalPoliced, DigestFinalFails, DigestFinalQuery,
     Returns

-----------------------------------------------------------------------------
LEMMA OpInvariant == Spec => []OpInv
<1>1. Init => OpInv
  <2>. SUFFICES ASSUME Init PROVE OpInv
    OBVIOUS
  <2>1. TypeOK
    BY OperationsAssumption DEF Init, TypeOK, Idle, Mechs, Results
  <2>2. DataOnce /\ Fresh /\ Modes /\ RetryIsAccepted
    BY DEF Init, Idle, DataOnce, Fresh, Modes, RetryIsAccepted
  <2>. QED
    BY <2>1, <2>2 DEF OpInv
<1>2. OpInv /\ [Next]_vars => OpInv'
  <2>. SUFFICES ASSUME OpInv, [Next]_vars PROVE OpInv'
    OBVIOUS
  <2>1. CASE UNCHANGED vars
    BY <2>1 DEF vars, OpInv, TypeOK, DataOnce, Fresh, Modes, RetryIsAccepted,
                Refuses, Streaming, Ciphering, Digesting
  <2>. QED
    BY <2>1, InitPreserves, SinglePreserves, MultiPreserves, OtherPreserves DEF Next
<1>. QED
  BY <1>1, <1>2, PTL DEF Spec

(* Types of the operation fields of wp11_session_t. *)
THEOREM TypeCorrect == Spec => []TypeOK
BY OpInvariant, PTL DEF OpInv

(* The cipher and hash contexts see each part of the data once, however     *)
(* calls are refused, ask for a size, or fail and are repeated.             *)
THEOREM EachPartOnce == Spec => []DataOnce
BY OpInvariant, PTL DEF OpInv

(* C_Encrypt, C_Decrypt and C_Digest never work on a context that parts     *)
(* have gone through.                                                       *)
THEOREM SinglePartIsFresh == Spec => OneShotIsFresh
<1>1. OpInv /\ [Next]_vars =>
        [ret'.call = "Single" /\ ret'.rv = "ok" /\ op.mech \in {"block", "gcm", "hash"}
           => ctx = 0]_vars
  <2>. SUFFICES ASSUME OpInv, Next, ret'.call = "Single", ret'.rv = "ok",
                       op.mech \in {"block", "gcm", "hash"}
                PROVE  ctx = 0
    BY DEF vars
  <2>. QED
    BY SingleSucceeds DEF OpInv, Fresh, Modes, SignDone, Signing, SingleDone, Streaming
<1>. QED
  BY <1>1, OpInvariant, PTL DEF Spec, OneShotIsFresh

(* No call completes an operation that was used in both ways.               *)
THEOREM ModesStayApart == Spec => ModesNeverMix
<1>1. OpInv /\ [Next]_vars =>
        [ret'.call \in {"Single", "Final"} /\ ret'.rv = "ok" =>
           ~(op.oneshot /\ op.multi)]_vars
  <2>. SUFFICES ASSUME OpInv, Next, ret'.call \in {"Single", "Final"},
                       ret'.rv = "ok"
                PROVE  ~(op.oneshot /\ op.multi)
    BY DEF vars
  <2>1. CASE ret'.call = "Single"
    BY <2>1, SingleSucceeds DEF OpInv, Modes, SignDone, Signing, SingleDone
  <2>2. CASE ret'.call = "Final"
    BY <2>2, FinalSucceeds DEF OpInv, Modes, CipherFinal, Ciphering, DigestFinalDone
  <2>. QED
    BY <2>1, <2>2
<1>. QED
  BY <1>1, OpInvariant, PTL DEF Spec, ModesNeverMix

(* A call that returned a size, found its buffer too small, or failed       *)
(* without ending its operation, can be made again.                         *)
THEOREM RetriesAccepted == Spec => []RetryIsAccepted
BY OpInvariant, PTL DEF OpInv
=============================================================================
