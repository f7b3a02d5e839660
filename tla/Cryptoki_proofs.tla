--------------------------- MODULE Cryptoki_proofs ---------------------------
(***************************************************************************)
(* What TLC checks of Cryptoki on small instances, proved for any slots,   *)
(* table sizes and keystores.                                              *)
(*                                                                         *)
(* TypeCorrect comes first.  LoginInv, the login state of the sessions and *)
(* the slots' resources, is inductive with it; that the session table      *)
(* implements TokenLogin follows.  HeapInv, what slots and objects point   *)
(* to, is inductive with both.  The other action properties follow from    *)
(* the types and HeapInv.  OpsInv, what active operations rest on, is      *)
(* inductive with the types and HeapInv for applications that use keys of  *)
(* the session's own slot.  ClaimScans is about an operator of the model.  *)
(***************************************************************************)
EXTENDS Cryptoki, FiniteSetTheorems, NaturalsInduction, WellFoundedInduction,
        TLAPS

-----------------------------------------------------------------------------
(* The values the actions build out of well-typed tables are well typed.    *)

LEMMA ConstantTypes ==
  /\ NoOps \in [OpKinds -> Handles \cup {NoKey}]
  /\ NoSession \in Session
  /\ \A p \in BOOLEAN : FreeEntry(p) \in Object
  /\ \A t \in Slots : OwnBackend(t) \in Backends
BY DEF NoOps, NoSession, Session, Users, FreeEntry, NewObject, Object,
       Backends, Classes, OwnBackend, BackendOf

LEMMA ObjectType ==
  ASSUME NEW t \in Slots, NEW b \in Backends, NEW c \in Classes,
         NEW p \in BOOLEAN, NEW r \in Res \cup {NoRes}
  PROVE  NewObject(t, b, c, p, r) \in Object
BY DEF NewObject, Object

LEMMA SweptType ==
  ASSUME TypeOK, NEW t \in Slots
  PROVE  /\ Swept(t) \in [Handles -> Object]
         /\ \A n : SweptAfter(t, n) \in [Handles -> Object]
BY ConstantTypes DEF TypeOK, Swept, SweptAfter

(* A failing C_Login sweeps what its populate had filled with the rest.     *)
SweepsAfter(t) == \E n \in Int : keys' = SweptAfter(t, n)

Sweeps(t) == keys' = Swept(t) \/ SweepsAfter(t)

LEMMA FailedLoginSweeps ==
  ASSUME NEW i \in Sessions, NEW t \in Slots,
         \/ LoginPivNoRoom(i, t) \/ LoginHsmNoRoom(i, t) \/ LoginSoftDrops(i, t)
         \/ LoginKeystoreNoRoom(i, t)
         \/ \E r \in Res, n \in KeyCounts : SecondLoadNoRoom(t, r, n)
  PROVE  SweepsAfter(t)
<1>. PivKeys \in Int /\ \A n \in KeyCounts : n \in Int /\ 2 * n \in Int
  BY CryptokiAssumption
<1>1. CASE LoginPivNoRoom(i, t)
  BY <1>1 DEF LoginPivNoRoom, SweepsAfter
<1>2. CASE LoginHsmNoRoom(i, t) \/ LoginKeystoreNoRoom(i, t)
  BY <1>2 DEF LoginHsmNoRoom, LoginKeystoreNoRoom, SweepsAfter
<1>3. CASE LoginSoftDrops(i, t)
  BY <1>3 DEF LoginSoftDrops, SweepsAfter
<1>4. ASSUME NEW r \in Res, NEW n \in KeyCounts, SecondLoadNoRoom(t, r, n)
      PROVE  SweepsAfter(t)
  BY <1>4 DEF SecondLoadNoRoom, SweepsAfter
<1>. QED
  BY <1>1, <1>2, <1>3, <1>4

LEMMA PopulatedType ==
  ASSUME TypeOK, NEW t \in Slots, NEW n, NEW r \in Res \cup {NoRes}
  PROVE  Populated(t, n, r) \in [Handles -> Object]
<1>1. ASSUME NEW h \in Handles
      PROVE  (IF Proto[t] \in {"soft", "piv"} THEN keys[h].private ELSE TRUE)
               \in BOOLEAN
  BY DEF TypeOK, Object
<1>2. "key" \in Classes
  BY DEF Classes
<1>. QED
  BY <1>1, <1>2, ConstantTypes, ObjectType DEF TypeOK, Populated

LEMMA SessionTypes ==
  ASSUME TypeOK, NEW t \in Slots, NEW u \in Users
  PROVE  /\ AsUser(t, u) \in [Sessions -> Session]
         /\ Closed(t) \in [Sessions -> Session]
         /\ LoggedOut(t) \in [Sessions -> Session]
         /\ \A h \in Handles : WithoutOpsOn(h) \in [Sessions -> Session]
<1>1. AsUser(t, u) \in [Sessions -> Session]
  BY DEF TypeOK, AsUser, Session
<1>2. Closed(t) \in [Sessions -> Session]
  BY ConstantTypes DEF TypeOK, Closed
<1>3. LoggedOut(t) \in [Sessions -> Session]
  BY ConstantTypes DEF TypeOK, LoggedOut, Session, Users
<1>4. ASSUME NEW h \in Handles
      PROVE  WithoutOpsOn(h) \in [Sessions -> Session]
  BY DEF TypeOK, WithoutOpsOn, Session
<1>. QED
  BY <1>1, <1>2, <1>3, <1>4

-----------------------------------------------------------------------------
(* Every step is one of the calls or events; the proofs below take them one *)
(* by one.                                                                  *)

LEMMA FixedType == \A t \in Slots : Fixed(t) \in BOOLEAN
<1>. SUFFICES ASSUME NEW t \in Slots PROVE Fixed(t) \in BOOLEAN
  OBVIOUS
<1>1. CASE Proto[t] \in {"soft", "hsm"}
  BY <1>1 DEF Fixed
<1>2. CASE Proto[t] \notin {"soft", "hsm"}
  BY <1>2 DEF Fixed
<1>. QED
  BY <1>1, <1>2

LEMMA TypeInit == Init => TypeOK
BY ConstantTypes, FixedType DEF Init, InitialSlots, Files, TypeOK

LEMMA TypeSlotStep ==
  ASSUME TypeOK, NEW t \in Slots, SlotStep(t)
  PROVE  TypeOK'
<1>1. CASE TokenArrives(t)
  BY <1>1 DEF TokenArrives, TypeOK
<1>2. CASE TokenDeparts(t)
  <2>1. sess' \in [Sessions -> Session] /\ keys' \in [Handles -> Object]
    BY <1>2, SessionTypes, SweptType DEF TokenDeparts, TypeOK, Users
  <2>2. res' \in [Res -> Slots \cup {NoSlot}]
    BY <1>2 DEF TokenDeparts, TypeOK
  <2>. QED
    BY <1>2, <2>1, <2>2 DEF TokenDeparts, TypeOK
<1>3. CASE CloseAllSessions(t)
  <2>1. sess' \in [Sessions -> Session]
    BY <1>3, SessionTypes DEF CloseAllSessions, Users
  <2>. QED
    BY <1>3, <2>1 DEF CloseAllSessions, TypeOK
<1>4. ASSUME NEW rw \in BOOLEAN, OpenSession(t, rw)
      PROVE  TypeOK'
  <2>1. PICK i \in Sessions, u \in Users :
          sess' = [sess EXCEPT ![i] =
                     [slot |-> t, rw |-> rw, user |-> u, op |-> NoOps]]
    BY <1>4 DEF OpenSession
  <2>2. sess' \in [Sessions -> Session]
    BY <2>1, ConstantTypes DEF TypeOK, Session
  <2>. QED
    BY <1>4, <2>2 DEF OpenSession, TypeOK
<1>. QED
  BY <1>1, <1>2, <1>3, <1>4 DEF SlotStep

LEMMA TypeSessionStep ==
  ASSUME TypeOK, NEW i \in Sessions, SessionStep(i)
  PROVE  TypeOK'
<1>1. CASE CloseSession(i)
  BY <1>1, ConstantTypes DEF CloseSession, TypeOK
<1>2. ASSUME NEW h \in Handles, CopyObject(i, h)
      PROVE  TypeOK'
  BY <1>2 DEF CopyObject, AddObject, TypeOK
<1>3. ASSUME NEW h \in Handles, DestroyObject(i, h)
      PROVE  TypeOK'
  <2>1. keys[h].private \in BOOLEAN /\ keys[h].slot \in Slots \cup {NoSlot}
    BY DEF TypeOK, Object
  <2>2. FreeEntry(keys[h].private) \in Object
    BY <2>1, ConstantTypes
  <2>3. sess[i].slot \in Slots
    BY <1>3 DEF DestroyObject, Open, TypeOK, Session
  <2>4. WithoutOpsOn(h) \in [Sessions -> Session]
    BY <2>3, SessionTypes DEF Users
  <2>. QED
    BY <1>3, <2>2, <2>4 DEF DestroyObject, TypeOK
<1>4. ASSUME NEW k \in OpKinds, OpEnd(i, k)
      PROVE  TypeOK'
  <2>1. [sess[i] EXCEPT !.op[k] = NoKey] \in Session
    BY DEF TypeOK, Session
  <2>. QED
    BY <1>4, <2>1 DEF OpEnd, TypeOK
<1>5. ASSUME NEW k \in OpKinds, NEW h \in Handles, OpInit(i, k, h)
      PROVE  TypeOK'
  <2>1. [sess[i] EXCEPT !.op[k] = h] \in Session
    BY DEF TypeOK, Session
  <2>. QED
    BY <1>5, <2>1 DEF OpInit, TypeOK
<1>. QED
  BY <1>1, <1>2, <1>3, <1>4, <1>5 DEF SessionStep

LEMMA TypeRestart == TypeOK /\ Restart => TypeOK'
BY ConstantTypes, FixedType DEF Restart, TypeOK

LEMMA TypeLogin ==
  ASSUME TypeOK, NEW i \in Sessions, NEW t \in Slots, Login(i, t)
  PROVE  TypeOK'
<1>. {"user", "so", "none"} \subseteq Users /\ "cert" \in Classes
       /\ "key" \in Classes /\ {"usb", "ks"} \subseteq Backends
  BY DEF Users, Classes, Backends
<1>1. CASE LoginWrongPin(i, t)
  BY <1>1 DEF LoginWrongPin, TypeOK
<1>2. ASSUME NEW u \in Users, LoggedIn(t, u)
      PROVE  /\ sess' \in [Sessions -> Session]
             /\ low' \in [Slots -> BOOLEAN]
  BY <1>2, SessionTypes DEF LoggedIn, TypeOK
<1>3. CASE LoginSO(i, t)
  BY <1>2, <1>3 DEF LoginSO, TypeOK
<1>4. CASE LoginPiv(i, t)
  <2>1. PICK r \in Res, c \in 0..PivKeys :
          /\ keys' = [h \in Handles |->
                       IF h \in Claim(PivKeys + c) \ Claim(PivKeys)
                       THEN NewObject(t, "usb", "cert", keys[h].private, NoRes)
                       ELSE Populated(t, PivKeys, r)[h]]
          /\ res' = [res EXCEPT ![r] = t]
          /\ held' = [held EXCEPT ![t] = r]
    BY <1>4 DEF LoginPiv
  <2>2. \A h \in Handles : keys[h].private \in BOOLEAN
    BY DEF TypeOK, Object
  <2>3. keys' \in [Handles -> Object]
    BY <2>1, <2>2, PopulatedType, ObjectType
  <2>. QED
    BY <1>2, <1>4, <2>1, <2>3 DEF LoginPiv, TypeOK
<1>5. CASE LoginPivNoRoom(i, t)
  BY <1>5, SweptType DEF LoginPivNoRoom, TypeOK
<1>6. CASE LoginHsm(i, t)
  BY <1>2, <1>6, PopulatedType DEF LoginHsm, TypeOK
<1>7. CASE LoginHsmNoRoom(i, t)
  BY <1>7, SweptType DEF LoginHsmNoRoom, TypeOK
<1>8. CASE LoginSoft(i, t)
  <2>1. keys' \in [Handles -> Object]
    <3>1. ASSUME NEW n PROVE Populated(t, n, NoRes) \in [Handles -> Object]
      BY PopulatedType
    <3>. QED
      BY <1>8, <3>1 DEF LoginSoft, TypeOK
  <2>2. pin' \in [Slots -> BOOLEAN]
    BY <1>8 DEF LoginSoft, TypeOK
  <2>. QED
    BY <1>2, <1>8, <2>1, <2>2 DEF LoginSoft, TypeOK
<1>9. CASE LoginSoftDrops(i, t)
  BY <1>9, SweptType DEF LoginSoftDrops, TypeOK
<1>10. CASE LoginKeystore(i, t)
  BY <1>2, <1>10, PopulatedType DEF LoginKeystore, TypeOK
<1>11. CASE LoginKeystoreNoRoom(i, t)
  BY <1>11, SweptType DEF LoginKeystoreNoRoom, TypeOK
<1>12. CASE LoginFsdir(i, t)
  <2>1. PICK r, q \in Res, n \in KeyCounts :
          /\ IsFirst(r, FreeRes) /\ IsFirst(q, FreeRes \ {r})
          /\ HasRoom(n)
          /\ \/ SecondLoadFails(t, r, n)
             \/ SecondLoad(t, r, q, n)
             \/ SecondLoadNoRoom(t, r, n)
    BY <1>12 DEF LoginFsdir
  <2>2. Populated(t, n, r) \in [Handles -> Object]
    BY PopulatedType
  <2>3. res \in [Res -> Slots \cup {NoSlot}] /\ held \in [Slots -> Res \cup {NoRes}]
    BY DEF TypeOK
  <2>4. CASE SecondLoadFails(t, r, n)
    BY <1>12, <2>2, <2>3, <2>4 DEF LoginFsdir, SecondLoadFails, TypeOK
  <2>5. CASE SecondLoad(t, r, q, n)
    <3>1. NewObject(t, "ks", "key", TRUE, q) \in Object
      BY ObjectType
    <3>2. keys' \in [Handles -> Object]
      BY <2>2, <2>5, <3>1 DEF SecondLoad
    <3>3. res' \in [Res -> Slots \cup {NoSlot}]
      BY <2>3, <2>5 DEF SecondLoad
    <3>4. held' \in [Slots -> Res \cup {NoRes}]
      BY <2>3, <2>5 DEF SecondLoad
    <3>5. sess' \in [Sessions -> Session] /\ low' \in [Slots -> BOOLEAN]
      BY <1>2, <2>5 DEF SecondLoad, TypeOK
    <3>. QED
      BY <1>12, <3>2, <3>3, <3>4, <3>5 DEF LoginFsdir, TypeOK
  <2>6. CASE SecondLoadNoRoom(t, r, n)
    BY <1>12, <2>3, <2>6, SweptType DEF LoginFsdir, SecondLoadNoRoom, TypeOK
  <2>. QED
    BY <2>1, <2>4, <2>5, <2>6
<1>. QED
  BY <1>1, <1>3, <1>4, <1>5, <1>6, <1>7, <1>8, <1>9, <1>10, <1>11, <1>12
  DEF Login

LEMMA TypeObjects ==
  ASSUME TypeOK, NEW i \in Sessions, NEW t \in Slots, CallStep(i, t),
         ~Login(i, t)
  PROVE  TypeOK'
<1>. {"key", "secret", "data"} \subseteq Classes
       /\ {"none", "usb", "hsm"} \subseteq Backends
       /\ {TRUE, FALSE} = BOOLEAN
  BY DEF Classes, Backends
<1>1. ASSUME NEW o \in Object, AddObject(o)
      PROVE  TypeOK'
  BY <1>1 DEF AddObject, TypeOK
<1>2. held[t] \in Res \cup {NoRes}
  BY DEF TypeOK
<1>3. CASE Logout(i, t)
  <2>1. sess' \in [Sessions -> Session] /\ keys' \in [Handles -> Object]
    BY <1>3, SessionTypes, SweptType DEF Logout, TypeOK, Users
  <2>. QED
    BY <1>3, <2>1 DEF Logout, TypeOK
<1>4. CASE InitPIN(i, t)
  BY <1>4 DEF InitPIN, Files, TypeOK
<1>5. ASSUME NEW p \in BOOLEAN, NEW c \in NewClasses,
             CreateObject(i, t, c, p)
      PROVE  TypeOK'
  BY <1>1, <1>5, ObjectType, CryptokiAssumption DEF CreateObject
<1>6. ASSUME NEW p \in BOOLEAN, ImportToHsm(i, t, p)
      PROVE  TypeOK'
  BY <1>1, <1>2, <1>6, ObjectType DEF ImportToHsm
<1>7. ASSUME NEW p \in BOOLEAN, GenerateKey(i, t, p)
      PROVE  TypeOK'
  BY <1>1, <1>7, ObjectType DEF GenerateKey
<1>8. ASSUME NEW p \in BOOLEAN, GeneratePair(i, t, p)
      PROVE  TypeOK'
  <2>1. ASSUME NEW h \in Handles
        PROVE  NewObject(t, OwnBackend(t), "key", p /\ h \notin Claim(1),
                         held[t]) \in Object
    <3>1. (p /\ h \notin Claim(1)) \in BOOLEAN
      BY Zenon
    <3>. QED
      BY <1>2, <3>1, ConstantTypes, ObjectType
  <2>2. keys' \in [Handles -> Object]
    BY <1>8, <2>1 DEF GeneratePair, TypeOK
  <2>. QED
    BY <1>8, <2>2 DEF GeneratePair, TypeOK
<1>9. CASE GenerateOnPiv(i, t)
  BY <1>1, <1>2, <1>9, ObjectType DEF GenerateOnPiv
<1>10. ASSUME NEW b \in Handles, DeriveKey(i, t, b)
       PROVE  TypeOK'
  <2>1. keys[b].backend \in Backends
    BY DEF TypeOK, Object
  <2>. QED
    BY <1>1, <1>10, <2>1, ObjectType DEF DeriveKey
<1>11. ASSUME NEW h \in Handles, RenewOnPiv(i, t, h)
       PROVE  TypeOK'
  <2>1. [keys[h] EXCEPT !.renewed = ~@] \in Object
    BY DEF TypeOK, Object
  <2>. QED
    BY <1>11, <2>1 DEF RenewOnPiv, TypeOK
<1>. QED
  BY <1>3, <1>4, <1>5, <1>6, <1>7, <1>8, <1>9, <1>10, <1>11 DEF CallStep

(* The tables of sessions, objects, slots and resources are well typed in   *)
(* every reachable state: no entry is half filled, no handle or resource is *)
(* out of its table.                                                        *)
THEOREM TypeCorrect == Spec => []TypeOK
<1>1. TypeOK /\ [Next]_vars => TypeOK'
  <2>. SUFFICES ASSUME TypeOK, [Next]_vars PROVE TypeOK'
    OBVIOUS
  <2>1. CASE UNCHANGED vars
    BY <2>1 DEF vars, TypeOK
  <2>. QED
    BY <2>1, TypeRestart, TypeSlotStep, TypeSessionStep, TypeLogin, TypeObjects
    DEF Next
<1>. QED
  BY <1>1, TypeInit, PTL DEF Spec
-----------------------------------------------------------------------------
(* A free entry of the session table has no login state.  The invariants    *)
(* quantify over the whole table, so this is the part that makes them       *)
(* inductive.                                                               *)
ClosedIsPublic == \A i \in Sessions : ~Open(i) => sess[i].user = "none"

LoginInv ==
  /\ ClosedIsPublic
  /\ LoginUniform
  /\ SOSessionsReadWrite
  /\ SessionsNeedToken
  /\ UserHasResources
  /\ NoFailuresWhileLoggedIn

(* The keystore path is read once, in C_Initialize.                         *)
PathStays == file = "no path" => file' = "no path"

(* A step that leaves the login state alone, and the connection and PIN of  *)
(* every token somebody is logged in on, preserves the invariant.           *)
LEMMA LoginFrame ==
  ASSUME TypeOK, LoginInv,
         \A i \in Sessions : /\ sess'[i].slot = sess[i].slot
                              /\ sess'[i].user = sess[i].user
                              /\ sess'[i].rw = sess[i].rw,
         \A t \in Slots : Nobody(t) \/ (held'[t] = held[t] /\ pin'[t] = pin[t]),
         UNCHANGED <<present, low>>, PathStays
  PROVE  LoginInv'
<1>1. ClosedIsPublic' /\ LoginUniform' /\ SOSessionsReadWrite'
  BY DEF LoginInv, ClosedIsPublic, LoginUniform, SOSessionsReadWrite, Open
<1>2. SessionsNeedToken' /\ NoFailuresWhileLoggedIn'
  BY DEF LoginInv, SessionsNeedToken, NoFailuresWhileLoggedIn, Open
<1>3. UserHasResources'
  <2>. SUFFICES ASSUME NEW i \in Sessions, sess[i].user = "user"
                PROVE  IF Proto[sess[i].slot] = "soft"
                       THEN pin'[sess[i].slot] \/ file' = "no path"
                       ELSE held'[sess[i].slot] # NoRes
    BY DEF UserHasResources
  <2>1. sess[i].slot \in Slots
    BY DEF LoginInv, ClosedIsPublic, Open, TypeOK, Session
  <2>2. ~Nobody(sess[i].slot)
    BY DEF Nobody, SlotSessions
  <2>. QED
    BY <2>1, <2>2 DEF LoginInv, UserHasResources, PathStays
<1>. QED
  BY <1>1, <1>2, <1>3 DEF LoginInv

LEMMA LoginObjects ==
  ASSUME TypeOK, LoginInv, NEW i \in Sessions, NEW t \in Slots,
         CallStep(i, t), ~Login(i, t), ~Logout(i, t)
  PROVE  LoginInv'
<1>1. /\ UNCHANGED <<sess, present, held, pin, low>>
      /\ PathStays
  BY DEF PathStays, CallStep, InitPIN, CreateObject, ImportToHsm, GenerateKey,
         GeneratePair, GenerateOnPiv, RenewOnPiv, DeriveKey, AddObject
<1>. QED
  BY <1>1, LoginFrame

LEMMA LoginSessionStep ==
  ASSUME TypeOK, LoginInv, NEW i \in Sessions, SessionStep(i)
  PROVE  LoginInv'
<1>1. CASE CloseSession(i)
  <2>1. /\ \A j \in Sessions \ {i} : sess'[j] = sess[j]
        /\ sess'[i].user = "none" /\ sess'[i].slot = NoSlot
    BY <1>1 DEF CloseSession, TypeOK, NoSession
  <2>2. UNCHANGED <<present, held, pin, low, file>>
    BY <1>1 DEF CloseSession
  <2>3. ClosedIsPublic' /\ LoginUniform' /\ SOSessionsReadWrite'
    BY <2>1, CryptokiAssumption
    DEF LoginInv, ClosedIsPublic, LoginUniform, SOSessionsReadWrite, Open
  <2>4. SessionsNeedToken' /\ NoFailuresWhileLoggedIn'
    BY <2>1, <2>2, CryptokiAssumption
    DEF LoginInv, SessionsNeedToken, NoFailuresWhileLoggedIn, Open
  <2>5. UserHasResources'
    BY <2>1, <2>2 DEF LoginInv, UserHasResources
  <2>. QED
    BY <2>3, <2>4, <2>5 DEF LoginInv
<1>2. ASSUME NEW h \in Handles, CopyObject(i, h)
      PROVE  LoginInv'
  BY <1>2, LoginFrame DEF CopyObject, AddObject, PathStays
<1>3. ASSUME NEW h \in Handles, DestroyObject(i, h)
      PROVE  LoginInv'
  <2>1. \A j \in Sessions : /\ sess'[j].slot = sess[j].slot
                             /\ sess'[j].user = sess[j].user
                             /\ sess'[j].rw = sess[j].rw
    BY <1>3 DEF DestroyObject, WithoutOpsOn, TypeOK, Session
  <2>. QED
    BY <1>3, <2>1, LoginFrame DEF DestroyObject, PathStays
<1>4. ASSUME NEW k \in OpKinds, NEW h \in Handles \cup {NoKey},
             sess' = [sess EXCEPT ![i].op[k] = h],
             UNCHANGED <<present, held, pin, low, file>>
      PROVE  LoginInv'
  <2>1. \A j \in Sessions : /\ sess'[j].slot = sess[j].slot
                             /\ sess'[j].user = sess[j].user
                             /\ sess'[j].rw = sess[j].rw
    BY <1>4 DEF TypeOK, Session
  <2>. QED
    BY <1>4, <2>1, LoginFrame DEF PathStays
<1>5. ASSUME NEW k \in OpKinds, OpEnd(i, k)
      PROVE  LoginInv'
  BY <1>4, <1>5 DEF OpEnd
<1>6. ASSUME NEW k \in OpKinds, NEW h \in Handles, OpInit(i, k, h)
      PROVE  LoginInv'
  BY <1>4, <1>6 DEF OpInit
<1>. QED
  BY <1>1, <1>2, <1>3, <1>5, <1>6 DEF SessionStep
LEMMA LoginLogin ==
  ASSUME TypeOK, LoginInv, NEW i \in Sessions, NEW t \in Slots, Login(i, t)
  PROVE  LoginInv'
<1>. MayLogin(i, t) /\ Nobody(t) /\ UNCHANGED <<present, file>>
  BY DEF Login, LoginWrongPin, LoginSO, LoginPiv, LoginPivNoRoom, LoginHsm,
         LoginHsmNoRoom, LoginSoft, LoginSoftDrops, LoginKeystore,
         LoginKeystoreNoRoom, LoginFsdir, SecondLoadFails, SecondLoad,
         SecondLoadNoRoom, MayLogin
<1>1. \A s \in Slots \ {t} : held'[s] = held[s] /\ pin'[s] = pin[s]
  BY DEF Login, LoginWrongPin, LoginSO, LoginPiv, LoginPivNoRoom, LoginHsm,
         LoginHsmNoRoom, LoginSoft, LoginSoftDrops, LoginKeystore,
         LoginKeystoreNoRoom, LoginFsdir, SecondLoadFails, SecondLoad,
         SecondLoadNoRoom, TypeOK
<1>2. CASE UNCHANGED <<sess, low>>
  BY <1>1, <1>2, LoginFrame DEF PathStays
<1>3. CASE LoginWrongPin(i, t)
  <2>1. \A j \in Sessions : Open(j) /\ sess[j].user # "none" =>
          sess[j].slot \in Slots \ {t}
    BY DEF Nobody, SlotSessions, Open, TypeOK, Session
  <2>2. NoFailuresWhileLoggedIn'
    BY <1>3, <2>1
    DEF LoginWrongPin, LoginInv, NoFailuresWhileLoggedIn, Open, TypeOK
  <2>. QED
    BY <1>3, <2>2
    DEF LoginWrongPin, LoginInv, ClosedIsPublic, LoginUniform,
        SOSessionsReadWrite, SessionsNeedToken, UserHasResources, Open
<1>4. ASSUME NEW u \in {"user", "so"}, LoggedIn(t, u),
             u = "so" => \A j \in SlotSessions(t) : sess[j].rw,
             u = "user" => IF Proto[t] = "soft" THEN pin'[t] \/ file = "no path"
                                                ELSE held'[t] # NoRes
      PROVE  LoginInv'
  <2>1. \A j \in Sessions :
          /\ sess'[j].slot = sess[j].slot /\ sess'[j].rw = sess[j].rw
          /\ sess'[j].user = IF sess[j].slot = t THEN u ELSE sess[j].user
    BY <1>4 DEF LoggedIn, AsUser, TypeOK, Session
  <2>2. low'[t] = FALSE /\ \A s \in Slots \ {t} : low'[s] = low[s]
    BY <1>4 DEF LoggedIn, TypeOK
  <2>3. \A j \in Sessions : Open(j) => sess[j].slot \in Slots
    BY DEF Open, TypeOK, Session
  <2>4. \A j \in Sessions : sess[j].slot = t => Open(j)
    BY CryptokiAssumption DEF Open
  <2>5. ClosedIsPublic' /\ LoginUniform' /\ SessionsNeedToken'
    BY <2>1, <2>4
    DEF LoginInv, ClosedIsPublic, LoginUniform, SessionsNeedToken, Open
  <2>6. SOSessionsReadWrite'
    BY <1>4, <2>1 DEF LoginInv, SOSessionsReadWrite, SlotSessions
  <2>7. NoFailuresWhileLoggedIn'
    BY <2>1, <2>2, <2>3 DEF LoginInv, NoFailuresWhileLoggedIn, Open
  <2>8. UserHasResources'
    <3>. SUFFICES ASSUME NEW j \in Sessions, sess'[j].user = "user"
                  PROVE  IF Proto[sess[j].slot] = "soft"
                         THEN pin'[sess[j].slot] \/ file = "no path"
                         ELSE held'[sess[j].slot] # NoRes
      BY <2>1 DEF UserHasResources
    <3>1. CASE sess[j].slot = t
      BY <1>4, <2>1, <3>1
    <3>2. CASE sess[j].slot # t
      <4>1. sess[j].user = "user" /\ sess[j].slot \in Slots \ {t}
        BY <2>1, <2>3, <3>2 DEF LoginInv, ClosedIsPublic
      <4>. QED
        BY <1>1, <4>1 DEF LoginInv, UserHasResources
    <3>. QED
      BY <3>1, <3>2
  <2>. QED
    BY <2>5, <2>6, <2>7, <2>8 DEF LoginInv
<1>5. CASE LoginSO(i, t)
  BY <1>4, <1>5 DEF LoginSO
<1>6. \A r \in Res : r # NoRes
  BY CryptokiAssumption DEF Res, NoRes
<1>7. CASE LoginPiv(i, t) \/ LoginHsm(i, t) \/ LoginKeystore(i, t)
  <2>1. held'[t] # NoRes /\ Proto[t] # "soft" /\ LoggedIn(t, "user")
    BY <1>6, <1>7 DEF LoginPiv, LoginHsm, LoginKeystore, TypeOK
  <2>. QED
    BY <1>4, <2>1
<1>8. CASE LoginSoft(i, t)
  <2>1. /\ pin'[t] \/ file = "no path"
        /\ Proto[t] = "soft" /\ LoggedIn(t, "user")
    BY <1>8 DEF LoginSoft, TypeOK
  <2>. QED
    BY <1>4, <2>1
<1>9. CASE LoginFsdir(i, t) /\ ~UNCHANGED <<sess, low>>
  <2>1. held'[t] # NoRes /\ Proto[t] # "soft" /\ LoggedIn(t, "user")
    BY <1>6, <1>9 DEF LoginFsdir, SecondLoadFails, SecondLoad, SecondLoadNoRoom, TypeOK
  <2>. QED
    BY <1>4, <2>1
<1>. QED
  BY <1>2, <1>3, <1>5, <1>7, <1>8, <1>9
  DEF Login, LoginPivNoRoom, LoginHsmNoRoom, LoginSoftDrops,
      LoginKeystoreNoRoom

LEMMA LoginLogout ==
  ASSUME TypeOK, LoginInv, NEW i \in Sessions, NEW t \in Slots, Logout(i, t)
  PROVE  LoginInv'
<1>1. \A j \in Sessions :
        /\ sess'[j].slot = sess[j].slot /\ sess'[j].rw = sess[j].rw
        /\ sess'[j].user = IF sess[j].slot = t THEN "none" ELSE sess[j].user
  BY DEF Logout, LoggedOut, TypeOK, Session
<1>2. \A s \in Slots \ {t} : held'[s] = held[s] /\ pin'[s] = pin[s]
  BY DEF Logout, TypeOK
<1>3. UNCHANGED <<present, low, file>>
  BY DEF Logout
<1>4. ClosedIsPublic' /\ LoginUniform' /\ SOSessionsReadWrite'
  BY <1>1 DEF LoginInv, ClosedIsPublic, LoginUniform, SOSessionsReadWrite, Open
<1>5. SessionsNeedToken' /\ NoFailuresWhileLoggedIn'
  BY <1>1, <1>3
  DEF LoginInv, SessionsNeedToken, NoFailuresWhileLoggedIn, Open
<1>6. UserHasResources'
  <2>. SUFFICES ASSUME NEW j \in Sessions, sess'[j].user = "user"
                PROVE  IF Proto[sess[j].slot] = "soft"
                       THEN pin'[sess[j].slot] \/ file = "no path"
                       ELSE held'[sess[j].slot] # NoRes
    BY <1>1, <1>3 DEF UserHasResources
  <2>1. sess[j].user = "user" /\ sess[j].slot \in Slots \ {t}
    BY <1>1 DEF LoginInv, ClosedIsPublic, Open, TypeOK, Session
  <2>. QED
    BY <1>2, <2>1 DEF LoginInv, UserHasResources
<1>. QED
  BY <1>4, <1>5, <1>6 DEF LoginInv
LEMMA LoginSlotStep ==
  ASSUME TypeOK, LoginInv, NEW t \in Slots, SlotStep(t)
  PROVE  LoginInv'
<1>. \A j \in Sessions : Open(j) => sess[j].slot \in Slots
  BY DEF Open, TypeOK, Session
<1>1. CASE TokenArrives(t)
  BY <1>1
  DEF TokenArrives, LoginInv, ClosedIsPublic, LoginUniform, SOSessionsReadWrite,
      SessionsNeedToken, UserHasResources, NoFailuresWhileLoggedIn, Open, TypeOK
<1>2. ASSUME sess' = Closed(t), UNCHANGED <<pin, low, file>>,
             \A s \in Slots \ {t} : held'[s] = held[s] /\ present'[s] = present[s]
      PROVE  LoginInv'
  <2>1. \A j \in Sessions :
          sess'[j] = IF sess[j].slot = t THEN NoSession ELSE sess[j]
    BY <1>2 DEF Closed
  <2>2. ClosedIsPublic' /\ LoginUniform' /\ SOSessionsReadWrite'
    BY <2>1 DEF LoginInv, ClosedIsPublic, LoginUniform, SOSessionsReadWrite,
                Open, NoSession
  <2>3. SessionsNeedToken' /\ NoFailuresWhileLoggedIn'
    BY <1>2, <2>1 DEF LoginInv, SessionsNeedToken, NoFailuresWhileLoggedIn,
                      Open, NoSession
  <2>4. UserHasResources'
    <3>. SUFFICES ASSUME NEW j \in Sessions, sess'[j].user = "user"
                  PROVE  IF Proto[sess'[j].slot] = "soft"
                         THEN pin[sess'[j].slot] \/ file = "no path"
                         ELSE held'[sess'[j].slot] # NoRes
      BY <1>2 DEF UserHasResources
    <3>1. sess'[j] = sess[j] /\ sess[j].slot # t
      BY <2>1 DEF NoSession
    <3>2. sess[j].slot \in Slots \ {t}
      BY <3>1 DEF LoginInv, ClosedIsPublic
    <3>. QED
      BY <1>2, <3>1, <3>2 DEF LoginInv, UserHasResources
  <2>. QED
    BY <2>2, <2>3, <2>4 DEF LoginInv
<1>3. CASE TokenDeparts(t) \/ CloseAllSessions(t)
  <2>1. /\ sess' = Closed(t) /\ UNCHANGED <<pin, low, file>>
        /\ \A s \in Slots \ {t} : held'[s] = held[s] /\ present'[s] = present[s]
    BY <1>3 DEF TokenDeparts, CloseAllSessions, TypeOK
  <2>. QED
    BY <1>2, <2>1
<1>4. ASSUME NEW rw \in BOOLEAN, OpenSession(t, rw)
      PROVE  LoginInv'
  <2>. PICK i \in Sessions, u \in Users :
         /\ ~Open(i) /\ Inherits(t, u) /\ (u = "so" => rw)
         /\ sess' = [sess EXCEPT ![i] =
                       [slot |-> t, rw |-> rw, user |-> u, op |-> NoOps]]
    BY <1>4 DEF OpenSession, IsFirst
  <2>. UNCHANGED <<present, held, pin, low, file>> /\ present[t]
    BY <1>4 DEF OpenSession
  <2>1. /\ sess'[i].slot = t /\ sess'[i].rw = rw /\ sess'[i].user = u
        /\ \A j \in Sessions \ {i} : sess'[j] = sess[j]
    BY DEF TypeOK
  <2>2. \A j \in SlotSessions(t) : j # i /\ Open(j)
    BY CryptokiAssumption DEF SlotSessions, Open
  <2>3. \A j \in SlotSessions(t) : sess[j].user = u
    <3>. DEFINE L == {j \in SlotSessions(t) : sess[j].user # "none"}
    <3>1. CASE L = {}
      BY <3>1 DEF Inherits
    <3>2. CASE L # {}
      <4>1. PICK j \in L : u = sess[j].user
        BY <3>2 DEF Inherits
      <4>. QED
        BY <2>2, <4>1 DEF LoginInv, LoginUniform, SlotSessions
    <3>. QED
      BY <3>1, <3>2
  <2>4. CASE SlotSessions(t) = {}
    <3>1. u = "none"
      BY <2>4 DEF Inherits
    <3>. QED
      <4>1. ClosedIsPublic' /\ LoginUniform' /\ SOSessionsReadWrite'
        BY <2>1, <2>4, <3>1, CryptokiAssumption
        DEF LoginInv, ClosedIsPublic, LoginUniform, SOSessionsReadWrite, Open,
            SlotSessions
      <4>2. SessionsNeedToken' /\ NoFailuresWhileLoggedIn'
        BY <2>1, <2>4, <3>1, CryptokiAssumption
        DEF LoginInv, SessionsNeedToken, NoFailuresWhileLoggedIn, Open, SlotSessions
      <4>3. UserHasResources'
        BY <2>1, <3>1 DEF LoginInv, UserHasResources
      <4>. QED
        BY <4>1, <4>2, <4>3 DEF LoginInv
  <2>5. CASE SlotSessions(t) # {}
    <3>1. PICK j \in Sessions : j # i /\ sess[j].slot = t /\ sess[j].user = u
      BY <2>2, <2>3, <2>5 DEF SlotSessions
    <3>2. ClosedIsPublic' /\ LoginUniform' /\ SOSessionsReadWrite'
      BY <2>1, <2>2, <2>3, <3>1, CryptokiAssumption
      DEF LoginInv, ClosedIsPublic, LoginUniform, SOSessionsReadWrite, Open,
          SlotSessions
    <3>3. SessionsNeedToken' /\ NoFailuresWhileLoggedIn'
      BY <2>1, <2>2, <3>1, CryptokiAssumption
      DEF LoginInv, SessionsNeedToken, NoFailuresWhileLoggedIn, Open
    <3>4. UserHasResources'
      <4>. SUFFICES ASSUME NEW m \in Sessions, sess'[m].user = "user"
                    PROVE  IF Proto[sess'[m].slot] = "soft"
                           THEN pin[sess'[m].slot] \/ file = "no path"
                           ELSE held[sess'[m].slot] # NoRes
        BY DEF UserHasResources
      <4>1. PICK o \in Sessions : sess[o].user = "user" /\ sess[o].slot = sess'[m].slot
        BY <2>1, <3>1
      <4>. QED
        BY <4>1 DEF LoginInv, UserHasResources
    <3>. QED
      BY <3>2, <3>3, <3>4 DEF LoginInv
  <2>. QED
    BY <2>4, <2>5
<1>. QED
  BY <1>1, <1>3, <1>4 DEF SlotStep

LEMMA LoginEmpty ==
  ASSUME sess = [i \in Sessions |-> NoSession]
  PROVE  LoginInv
BY CryptokiAssumption
DEF LoginInv, ClosedIsPublic, LoginUniform, SOSessionsReadWrite, NoSession,
    SessionsNeedToken, UserHasResources, NoFailuresWhileLoggedIn, Open

LEMMA LoginRestart == Restart => LoginInv'
<1>. SUFFICES ASSUME Restart PROVE LoginInv'
  OBVIOUS
<1>1. \A i \in Sessions :
        sess'[i].user = "none" /\ sess'[i].slot = NoSlot /\ sess'[i].rw = FALSE
  BY DEF Restart, NoSession
<1>. QED
  BY <1>1
  DEF LoginInv, ClosedIsPublic, LoginUniform, SOSessionsReadWrite,
      SessionsNeedToken, UserHasResources, NoFailuresWhileLoggedIn, Open

(* The login state of a token and what belongs to it, in every reachable    *)
(* state: all its sessions have the same user, an SO excludes read-only     *)
(* sessions, a session has a token, a logged-in user has what the token's   *)
(* keys need and no failed PIN attempts (C_OpenSession, C_Login, C_Logout,  *)
(* the departures).                                                         *)
THEOREM LoginCorrect == Spec => []LoginInv
<1>1. Init => LoginInv
  BY LoginEmpty DEF Init
<1>2. TypeOK /\ LoginInv /\ [Next]_vars => LoginInv'
  <2>. SUFFICES ASSUME TypeOK, LoginInv, [Next]_vars PROVE LoginInv'
    OBVIOUS
  <2>1. CASE UNCHANGED vars
    BY <2>1, LoginFrame DEF vars, PathStays
  <2>2. CASE Restart
    BY <2>2, LoginRestart
  <2>3. ASSUME NEW i \in Sessions, NEW t \in Slots, CallStep(i, t)
        PROVE  LoginInv'
    BY <2>3, LoginLogin, LoginLogout, LoginObjects
  <2>. QED
    BY <2>1, <2>2, <2>3, LoginSlotStep, LoginSessionStep DEF Next
<1>. QED
  BY <1>1, <1>2, TypeCorrect, PTL DEF Spec

(* All open sessions of a token have the same user: C_OpenSession copies    *)
(* the state of one session, C_Login and C_Logout set them all.             *)
THEOREM LoginIsUniform == Spec => []LoginUniform
<1>1. LoginInv => LoginUniform
  BY DEF LoginInv
<1>. QED
  BY <1>1, LoginCorrect, PTL

(* The SO is never logged in beside a read-only session (C_Login refuses    *)
(* while one is open, C_OpenSession refuses to open one).                   *)
THEOREM SOIsReadWrite == Spec => []SOSessionsReadWrite
<1>1. LoginInv => SOSessionsReadWrite
  BY DEF LoginInv
<1>. QED
  BY <1>1, LoginCorrect, PTL

(* No session outlives its token (slot_remove, slot_remove_keystore).       *)
THEOREM SessionsHaveTokens == Spec => []SessionsNeedToken
<1>1. LoginInv => SessionsNeedToken
  BY DEF LoginInv
<1>. QED
  BY <1>1, LoginCorrect, PTL

(* With a user logged in no wrong PIN is pending: only a successful login   *)
(* makes a user, and it resets the count (C_Login, pin_fail_count).         *)
THEOREM NoFailuresPending == Spec => []NoFailuresWhileLoggedIn
<1>1. LoginInv => NoFailuresWhileLoggedIn
  BY DEF LoginInv
<1>. QED
  BY <1>1, LoginCorrect, PTL

(* While a user is logged in on a token its slot has the reader, the        *)
(* keystore, the HSM connection or the cached PIN, whatever logins failed,  *)
(* sessions were closed and tokens left in between.  A soft token without   *)
(* a keystore path, which checks and caches no PIN, needs none.             *)
THEOREM UsersHaveResources == Spec => []UserHasResources
<1>1. LoginInv => UserHasResources
  BY DEF LoginInv
<1>. QED
  BY <1>1, LoginCorrect, PTL

-----------------------------------------------------------------------------
(* The refinement of TokenLogin.  A token is kept by a step that leaves its *)
(* sessions and their login state alone.                                    *)
Kept(t) ==
  \A i \in Sessions :
    /\ sess'[i].slot = t <=> sess[i].slot = t
    /\ sess[i].slot = t => sess'[i].rw = sess[i].rw /\ sess'[i].user = sess[i].user

LEMMA TokenKept ==
  ASSUME NEW t \in Slots, Kept(t)
  PROVE  /\ ReadOnly'[t] = ReadOnly[t] /\ ReadWrite'[t] = ReadWrite[t]
         /\ LoggedOn'[t] = LoggedOn[t]
<1>1. /\ SlotSessions(t)' = SlotSessions(t)
      /\ \A i \in SlotSessions(t) : sess'[i].rw = sess[i].rw /\ sess'[i].user = sess[i].user
  BY DEF Kept, SlotSessions
<1>2. {i \in SlotSessions(t)' : ~sess'[i].rw} = {i \in SlotSessions(t) : ~sess[i].rw}
  BY <1>1
<1>3. {i \in SlotSessions(t)' : sess'[i].rw} = {i \in SlotSessions(t) : sess[i].rw}
  BY <1>1
<1>4. UserOf(t)' = UserOf(t)
  BY <1>1 DEF UserOf
<1>. QED
  BY <1>2, <1>3, <1>4 DEF ReadOnly, ReadWrite, LoggedOn

LEMMA OneTokenChanges ==
  ASSUME NEW t \in Slots, \A u \in Slots \ {t} : Kept(u)
  PROVE  /\ ReadOnly' = [ReadOnly EXCEPT ![t] = ReadOnly'[t]]
         /\ ReadWrite' = [ReadWrite EXCEPT ![t] = ReadWrite'[t]]
         /\ LoggedOn' = [LoggedOn EXCEPT ![t] = LoggedOn'[t]]
<1>1. \A u \in Slots \ {t} :
        /\ ReadOnly'[u] = ReadOnly[u] /\ ReadWrite'[u] = ReadWrite[u]
        /\ LoggedOn'[u] = LoggedOn[u]
  BY TokenKept
<1>2. ReadOnly' = [ReadOnly EXCEPT ![t] = ReadOnly'[t]]
  BY <1>1 DEF ReadOnly
<1>3. ReadWrite' = [ReadWrite EXCEPT ![t] = ReadWrite'[t]]
  BY <1>1 DEF ReadWrite
<1>4. LoggedOn' = [LoggedOn EXCEPT ![t] = LoggedOn'[t]]
  BY <1>1 DEF LoggedOn
<1>. QED
  BY <1>2, <1>3, <1>4

LEMMA NoTokenChanges ==
  ASSUME \A u \in Slots : Kept(u)
  PROVE  UNCHANGED PKCS11!vars
<1>1. \A u \in Slots :
        /\ ReadOnly'[u] = ReadOnly[u] /\ ReadWrite'[u] = ReadWrite[u]
        /\ LoggedOn'[u] = LoggedOn[u]
  BY TokenKept
<1>2. ReadOnly' = ReadOnly
  BY <1>1 DEF ReadOnly
<1>3. ReadWrite' = ReadWrite
  BY <1>1 DEF ReadWrite
<1>4. LoggedOn' = LoggedOn
  BY <1>1 DEF LoggedOn
<1>. QED
  BY <1>2, <1>3, <1>4 DEF PKCS11!vars

(* What the sessions of a token say of it, before and after a step. *)
LEMMA TokenUser ==
  ASSUME TypeOK, TypeOK', LoginUniform, LoginUniform', NEW t \in Slots
  PROVE  /\ SlotSessions(t) = {} => LoggedOn[t] = "none"
         /\ \A i \in SlotSessions(t) : LoggedOn[t] = sess[i].user
         /\ SlotSessions(t)' = {} => LoggedOn'[t] = "none"
         /\ \A i \in SlotSessions(t)' : LoggedOn'[t] = sess'[i].user
<1>1. /\ LoggedOn[t] = UserOf(t) /\ LoggedOn'[t] = UserOf(t)'
      /\ \A i \in Sessions : sess[i].user \in Users /\ sess'[i].user \in Users
  BY DEF LoggedOn, TypeOK, Session
<1>2. /\ \A i, j \in SlotSessions(t) : sess[i].user = sess[j].user
      /\ \A i, j \in SlotSessions(t)' : sess'[i].user = sess'[j].user
  BY CryptokiAssumption DEF LoginUniform, SlotSessions, Open
<1>3. /\ SlotSessions(t) = {} => UserOf(t) = "none"
      /\ SlotSessions(t)' = {} => UserOf(t)' = "none"
  BY DEF UserOf
<1>4. ASSUME NEW i \in SlotSessions(t) PROVE UserOf(t) = sess[i].user
  BY <1>1, <1>2 DEF UserOf, Users, SlotSessions
<1>5. ASSUME NEW i \in SlotSessions(t)' PROVE UserOf(t)' = sess'[i].user
  BY <1>1, <1>2 DEF UserOf, Users, SlotSessions
<1>. QED
  BY <1>1, <1>3, <1>4, <1>5

LEMMA TokenSessions ==
  /\ \A t \in Slots : PKCS11!Sessions(t) = SlotSessions(t)
  /\ \A t \in Slots : ReadOnly[t] = {i \in SlotSessions(t) : ~sess[i].rw}
  /\ \A t \in Slots : ReadWrite[t] = {i \in SlotSessions(t) : sess[i].rw}
  /\ \A t \in Slots : ReadOnly'[t] = {i \in SlotSessions(t)' : ~sess'[i].rw}
  /\ \A t \in Slots : ReadWrite'[t] = {i \in SlotSessions(t)' : sess'[i].rw}
BY DEF PKCS11!Sessions, ReadOnly, ReadWrite

(* Sessions of one token are closed: some, with the login of those that are *)
(* left, or all.                                                            *)
LEMMA ClosesSessions ==
  ASSUME TypeOK, TypeOK', LoginInv, LoginInv', NEW t \in Slots, NEW S \in SUBSET Sessions,
         \A i \in Sessions : sess'[i] = IF i \in S /\ sess[i].slot = t THEN NoSession
                                                                       ELSE sess[i]
  PROVE  PKCS11!Close(t, S)
<1>1. \A u \in Slots \ {t} : Kept(u)
  BY CryptokiAssumption DEF Kept, NoSession
<1>2. SlotSessions(t)' = SlotSessions(t) \ S /\ \A i \in SlotSessions(t)' : sess'[i] = sess[i]
  BY CryptokiAssumption DEF SlotSessions, NoSession
<1>3. ReadOnly'[t] = ReadOnly[t] \ S /\ ReadWrite'[t] = ReadWrite[t] \ S
  BY <1>2, TokenSessions
<1>4. SlotSessions(t) \subseteq S => LoggedOn'[t] = "none"
  BY <1>2, TokenUser DEF LoginInv
<1>5. ~(SlotSessions(t) \subseteq S) => LoggedOn'[t] = LoggedOn[t]
  <2>. SUFFICES ASSUME NEW i \in SlotSessions(t), i \notin S
                PROVE  LoggedOn'[t] = LoggedOn[t]
    OBVIOUS
  <2>. QED
    BY <1>2, TokenUser DEF LoginInv
<1>6. LoggedOn' = IF SlotSessions(t) \subseteq S THEN [LoggedOn EXCEPT ![t] = "none"]
                                                ELSE LoggedOn
  <2>1. LoggedOn = [LoggedOn EXCEPT ![t] = LoggedOn[t]]
    BY DEF LoggedOn
  <2>. QED
    BY <1>1, <1>4, <1>5, <2>1, OneTokenChanges
<1>. QED
  BY <1>1, <1>3, <1>6, OneTokenChanges, TokenSessions DEF PKCS11!Close

LEMMA UserChanges ==
  ASSUME TypeOK, TypeOK', LoginInv, LoginInv', NEW t \in Slots, NEW u,
         SlotSessions(t) # {},
         \A i \in Sessions :
           /\ sess'[i].slot = sess[i].slot /\ sess'[i].rw = sess[i].rw
           /\ sess'[i].user = IF sess[i].slot = t THEN u ELSE sess[i].user
  PROVE  /\ UNCHANGED <<ReadOnly, ReadWrite>>
         /\ LoggedOn' = [LoggedOn EXCEPT ![t] = u]
<1>1. \A v \in Slots :
        /\ SlotSessions(v)' = SlotSessions(v)
        /\ \A i \in SlotSessions(v) : sess'[i].rw = sess[i].rw
  BY DEF SlotSessions
<1>2. \A v \in Slots :
        /\ {i \in SlotSessions(v)' : ~sess'[i].rw} = {i \in SlotSessions(v) : ~sess[i].rw}
        /\ {i \in SlotSessions(v)' : sess'[i].rw} = {i \in SlotSessions(v) : sess[i].rw}
  BY <1>1
<1>3. UNCHANGED <<ReadOnly, ReadWrite>>
  BY <1>2 DEF ReadOnly, ReadWrite
<1>4. \A v \in Slots \ {t} : Kept(v)
  BY DEF Kept
<1>5. LoggedOn'[t] = u
  <2>1. PICK i \in SlotSessions(t) : i \in SlotSessions(t)' /\ sess'[i].user = u
    BY <1>1 DEF SlotSessions
  <2>. QED
    BY <2>1, TokenUser DEF LoginInv
<1>. QED
  BY <1>3, <1>4, <1>5, OneTokenChanges

LEMMA LogsIn ==
  ASSUME TypeOK, TypeOK', LoginInv, LoginInv', NEW t \in Slots, NEW u \in {"user", "so"},
         Nobody(t), SlotSessions(t) # {}, sess' = AsUser(t, u)
  PROVE  PKCS11!Login(t, u)
<1>1. \A i \in Sessions :
        /\ sess'[i].slot = sess[i].slot /\ sess'[i].rw = sess[i].rw
        /\ sess'[i].user = IF sess[i].slot = t THEN u ELSE sess[i].user
  BY DEF AsUser, TypeOK, Session
<1>2. LoggedOn[t] = "none"
  BY TokenUser DEF LoginInv, Nobody
<1>3. u = "so" => ReadOnly[t] = {}
  <2>1. u = "so" => \A i \in SlotSessions(t) : sess[i].rw
    BY <1>1 DEF LoginInv, SOSessionsReadWrite, SlotSessions
  <2>. QED
    BY <2>1, TokenSessions
<1>. QED
  BY <1>1, <1>2, <1>3, UserChanges, TokenSessions DEF PKCS11!Login

LEMMA LogsOutOf ==
  ASSUME TypeOK, TypeOK', LoginInv, LoginInv', NEW i \in Sessions, NEW t \in Slots,
         Logout(i, t)
  PROVE  PKCS11!Logout(t)
<1>1. sess' = LoggedOut(t) /\ i \in SlotSessions(t) /\ sess[i].user # "none"
  BY DEF Logout, SlotSessions
<1>2. \A j \in Sessions :
        /\ sess'[j].slot = sess[j].slot /\ sess'[j].rw = sess[j].rw
        /\ sess'[j].user = IF sess[j].slot = t THEN "none" ELSE sess[j].user
  BY <1>1 DEF LoggedOut, TypeOK, Session
<1>3. LoggedOn[t] # "none"
  BY <1>1, TokenUser DEF LoginInv
<1>. QED
  BY <1>1, <1>2, <1>3, UserChanges DEF PKCS11!Logout

LEMMA OpensSession ==
  ASSUME TypeOK, TypeOK', LoginInv, LoginInv', NEW t \in Slots, NEW rw \in BOOLEAN,
         OpenSession(t, rw)
  PROVE  \E i \in Sessions : PKCS11!OpenReadOnly(t, i) \/ PKCS11!OpenReadWrite(t, i)
<1>1. PICK i \in Sessions, u \in Users :
        /\ ~Open(i) /\ Inherits(t, u) /\ (u = "so" => rw)
        /\ sess' = [sess EXCEPT ![i] =
                      [slot |-> t, rw |-> rw, user |-> u, op |-> NoOps]]
  BY DEF OpenSession, IsFirst
<1>2. /\ sess'[i].slot = t /\ sess'[i].rw = rw /\ sess'[i].user = u
      /\ \A j \in Sessions \ {i} : sess'[j] = sess[j]
  BY <1>1 DEF TypeOK
<1>3. \A v \in Slots : i \notin SlotSessions(v)
  BY <1>1, CryptokiAssumption DEF SlotSessions, Open
<1>4. \A v \in Slots \ {t} : Kept(v)
  BY <1>2, <1>3 DEF Kept, SlotSessions
<1>5. /\ SlotSessions(t)' = SlotSessions(t) \cup {i}
      /\ \A j \in SlotSessions(t) : j # i /\ sess'[j] = sess[j]
  BY <1>2, <1>3 DEF SlotSessions
<1>6. PKCS11!New(i)
  BY <1>3, TokenSessions DEF PKCS11!New
<1>7. LoggedOn[t] = u /\ LoggedOn'[t] = u
  <2>1. LoggedOn'[t] = u
    BY <1>2, <1>5, TokenUser DEF LoginInv
  <2>2. CASE SlotSessions(t) = {}
    <3>1. u = "none"
      BY <1>1, <2>2 DEF Inherits
    <3>. QED
      BY <2>1, <2>2, <3>1, TokenUser DEF LoginInv
  <2>3. CASE SlotSessions(t) # {}
    <3>1. PICK j \in SlotSessions(t) : TRUE
      BY <2>3
    <3>2. LoggedOn[t] = sess[j].user /\ LoggedOn'[t] = sess'[j].user
      BY <1>5, <3>1, TokenUser DEF LoginInv
    <3>. QED
      BY <1>5, <2>1, <3>1, <3>2
  <2>. QED
    BY <2>1, <2>2, <2>3
<1>8. UNCHANGED LoggedOn
  <2>1. LoggedOn = [LoggedOn EXCEPT ![t] = LoggedOn[t]]
    BY DEF LoggedOn
  <2>. QED
    BY <1>4, <1>7, <2>1, OneTokenChanges
<1>9. CASE rw
  <2>1. ReadOnly'[t] = ReadOnly[t] /\ ReadWrite'[t] = ReadWrite[t] \cup {i}
    <3>1. /\ {j \in SlotSessions(t)' : ~sess'[j].rw} = {j \in SlotSessions(t) : ~sess[j].rw}
          /\ {j \in SlotSessions(t)' : sess'[j].rw}
               = {j \in SlotSessions(t) : sess[j].rw} \cup {i}
      BY <1>2, <1>5, <1>9
    <3>. QED
      BY <3>1, TokenSessions
  <2>2. ReadOnly = [ReadOnly EXCEPT ![t] = ReadOnly[t]]
    BY DEF ReadOnly
  <2>3. UNCHANGED ReadOnly
    BY <1>4, <2>1, <2>2, OneTokenChanges
  <2>. QED
    BY <1>4, <1>6, <1>8, <2>1, <2>3, OneTokenChanges DEF PKCS11!OpenReadWrite
<1>10. CASE ~rw
  <2>1. ReadWrite'[t] = ReadWrite[t] /\ ReadOnly'[t] = ReadOnly[t] \cup {i}
    <3>1. /\ {j \in SlotSessions(t)' : sess'[j].rw} = {j \in SlotSessions(t) : sess[j].rw}
          /\ {j \in SlotSessions(t)' : ~sess'[j].rw}
               = {j \in SlotSessions(t) : ~sess[j].rw} \cup {i}
      BY <1>2, <1>5, <1>10
    <3>. QED
      BY <3>1, TokenSessions
  <2>2. ReadWrite = [ReadWrite EXCEPT ![t] = ReadWrite[t]]
    BY DEF ReadWrite
  <2>3. UNCHANGED ReadWrite
    BY <1>4, <2>1, <2>2, OneTokenChanges
  <2>. QED
    BY <1>1, <1>4, <1>6, <1>7, <1>8, <1>10, <2>1, <2>3, OneTokenChanges
    DEF PKCS11!OpenReadOnly
<1>. QED
  BY <1>9, <1>10

LEMMA CloseAllIsStep ==
  ASSUME TypeOK, TypeOK', LoginInv, LoginInv', NEW t \in Slots, sess' = Closed(t)
  PROVE  PKCS11!Close(t, Sessions)
<1>1. \A i \in Sessions : sess'[i] = IF i \in Sessions /\ sess[i].slot = t
                                     THEN NoSession ELSE sess[i]
  BY DEF Closed
<1>. QED
  BY <1>1, ClosesSessions

LEMMA CloseOneIsStep ==
  ASSUME TypeOK, TypeOK', LoginInv, LoginInv', NEW i \in Sessions, CloseSession(i)
  PROVE  \E t \in Slots : PKCS11!Close(t, {i})
<1>1. sess[i].slot \in Slots
  BY DEF CloseSession, Open, TypeOK, Session
<1>2. \A j \in Sessions : sess'[j] = IF j \in {i} /\ sess[j].slot = sess[i].slot
                                     THEN NoSession ELSE sess[j]
  BY DEF CloseSession, TypeOK
<1>. QED
  BY <1>1, <1>2, ClosesSessions

LEMMA EmptyMapsToEmpty ==
  /\ sess = [i \in Sessions |-> NoSession] => PKCS11!Init
  /\ sess' = [i \in Sessions |-> NoSession] => PKCS11!Restart
<1>1. ASSUME sess = [i \in Sessions |-> NoSession] PROVE PKCS11!Init
  <2>1. \A t \in Slots : SlotSessions(t) = {}
    BY <1>1, CryptokiAssumption DEF SlotSessions, NoSession
  <2>2. \A t \in Slots : UserOf(t) = "none"
    BY <2>1 DEF UserOf
  <2>. QED
    BY <2>1, <2>2 DEF PKCS11!Init, ReadOnly, ReadWrite, LoggedOn
<1>2. ASSUME sess' = [i \in Sessions |-> NoSession] PROVE PKCS11!Restart
  <2>1. \A t \in Slots : SlotSessions(t)' = {}
    BY <1>2, CryptokiAssumption DEF SlotSessions, NoSession
  <2>2. \A t \in Slots : UserOf(t)' = "none"
    BY <2>1 DEF UserOf
  <2>. QED
    BY <2>1, <2>2 DEF PKCS11!Restart, ReadOnly, ReadWrite, LoggedOn
<1>. QED
  BY <1>1, <1>2

(* The sessions and the login of the code are those of PKCS#11: every call  *)
(* and event, however they are interleaved, does to the tokens' sessions    *)
(* and users what one step of TokenLogin does, or nothing (C_OpenSession,   *)
(* C_CloseSession, C_CloseAllSessions, C_Login, C_Logout, departures).      *)
THEOREM SessionsImplementLogin == Spec => LoginSpec
<1>1. Init => PKCS11!Init
  BY EmptyMapsToEmpty DEF Init
<1>2. TypeOK /\ TypeOK' /\ LoginInv /\ LoginInv' /\ [Next]_vars => [PKCS11!Next]_(PKCS11!vars)
  <2>. SUFFICES ASSUME TypeOK, TypeOK', LoginInv, LoginInv', [Next]_vars
                PROVE  PKCS11!Next \/ UNCHANGED PKCS11!vars
    OBVIOUS
  <2>1. ASSUME UNCHANGED sess PROVE UNCHANGED PKCS11!vars
    BY <2>1, NoTokenChanges DEF Kept
  <2>2. CASE Restart
    BY <2>2, EmptyMapsToEmpty DEF Restart, PKCS11!Next
  <2>3. ASSUME NEW t \in Slots, SlotStep(t) PROVE PKCS11!Next \/ UNCHANGED PKCS11!vars
    <3>1. CASE TokenArrives(t)
      BY <2>1, <3>1 DEF TokenArrives
    <3>2. CASE TokenDeparts(t) \/ CloseAllSessions(t)
      BY <3>2, CloseAllIsStep DEF TokenDeparts, CloseAllSessions, PKCS11!Next
    <3>3. ASSUME NEW rw \in BOOLEAN, OpenSession(t, rw) PROVE PKCS11!Next
      BY <3>3, OpensSession DEF PKCS11!Next
    <3>. QED
      BY <2>3, <3>1, <3>2, <3>3 DEF SlotStep
  <2>4. ASSUME NEW i \in Sessions, SessionStep(i) PROVE PKCS11!Next \/ UNCHANGED PKCS11!vars
    <3>1. CASE CloseSession(i)
      BY <3>1, CloseOneIsStep DEF PKCS11!Next
    <3>2. ASSUME \A j \in Sessions : /\ sess'[j].slot = sess[j].slot
                                     /\ sess'[j].rw = sess[j].rw
                                     /\ sess'[j].user = sess[j].user
          PROVE  UNCHANGED PKCS11!vars
      BY <3>2, NoTokenChanges DEF Kept
    <3>3. ASSUME NEW h \in Handles, CopyObject(i, h) \/ DestroyObject(i, h)
          PROVE  UNCHANGED PKCS11!vars
      <4>1. CASE CopyObject(i, h)
        BY <2>1, <4>1 DEF CopyObject, AddObject
      <4>2. CASE DestroyObject(i, h)
        BY <3>2, <4>2 DEF DestroyObject, WithoutOpsOn, TypeOK, Session
      <4>. QED
        BY <3>3, <4>1, <4>2
    <3>4. ASSUME NEW k \in OpKinds, NEW h \in Handles \cup {NoKey},
                 sess' = [sess EXCEPT ![i].op[k] = h]
          PROVE  UNCHANGED PKCS11!vars
      BY <3>2, <3>4 DEF TypeOK, Session
    <3>. QED
      BY <2>4, <3>1, <3>3, <3>4 DEF SessionStep, OpEnd, OpInit
  <2>5. ASSUME NEW i \in Sessions, NEW t \in Slots, CallStep(i, t)
        PROVE  PKCS11!Next \/ UNCHANGED PKCS11!vars
    <3>1. CASE Login(i, t)
      <4>1. Nobody(t) /\ SlotSessions(t) # {}
        BY <3>1
        DEF Login, LoginWrongPin, LoginSO, LoginPiv, LoginPivNoRoom, LoginHsm,
            LoginHsmNoRoom, LoginSoft, LoginSoftDrops, LoginKeystore,
            LoginKeystoreNoRoom, LoginFsdir, MayLogin, SlotSessions
      <4>2. \/ UNCHANGED sess
            \/ \E u \in {"user", "so"} : sess' = AsUser(t, u)
        BY <3>1
        DEF Login, LoginWrongPin, LoginSO, LoginPiv, LoginPivNoRoom, LoginHsm,
            LoginHsmNoRoom, LoginSoft, LoginSoftDrops, LoginKeystore,
            LoginKeystoreNoRoom, LoginFsdir, SecondLoadFails, SecondLoad,
            SecondLoadNoRoom, LoggedIn
      <4>. QED
        BY <2>1, <4>1, <4>2, LogsIn DEF PKCS11!Next
    <3>2. CASE Logout(i, t)
      BY <3>2, LogsOutOf DEF PKCS11!Next
    <3>3. CASE ~Login(i, t) /\ ~Logout(i, t)
      BY <2>1, <2>5, <3>3
      DEF CallStep, InitPIN, CreateObject, ImportToHsm, GenerateKey,
          GeneratePair, GenerateOnPiv, RenewOnPiv, DeriveKey, AddObject
    <3>. QED
      BY <3>1, <3>2, <3>3
  <2>. QED
    BY <2>1, <2>2, <2>3, <2>4, <2>5 DEF Next, vars
<1>. QED
  BY <1>1, <1>2, TypeCorrect, LoginCorrect, PTL DEF Spec, LoginSpec, PKCS11!Spec

-----------------------------------------------------------------------------
(* The heap.  A key of a token or server belongs to its slot's backend,     *)
(* exists while the slot has a connection, and what it points to is         *)
(* allocated for the slot; nothing else points anywhere.  Swept frees by    *)
(* backend, so that a key of another backend would escape it.               *)
Attached(o) ==
  /\ o.slot = NoSlot \/ o.class # "key" => o.back = NoRes /\ o.class # "key"
  /\ o.class = "key" /\ o.backend \in {"usb", "ks", "hsm"} =>
       o.backend = OwnBackend(o.slot) /\ held[o.slot] # NoRes
  /\ o.class = "key" /\ o.backend \in {"usb", "hsm"} => o.back = held[o.slot]
  /\ o.back # NoRes =>
       o.backend \in {"usb", "ks", "hsm"} /\ res[o.back] = o.slot

Connected(t) ==
  /\ held[t] # NoRes => res[held[t]] = t /\ present[t]
  /\ Proto[t] = "soft" => held[t] = NoRes

HeapInv ==
  /\ \A t \in Slots : Connected(t)
  /\ \A h \in Handles : Attached(keys[h])

LEMMA HeapFrame ==
  ASSUME HeapInv, UNCHANGED <<present, held, res>>,
         \A h \in Handles : keys'[h] = keys[h] \/ Attached(keys'[h])
  PROVE  HeapInv'
BY DEF HeapInv, Connected, Attached

(* A free entry, and an object that is no key, point nowhere. *)
LEMMA PlainObject ==
  ASSUME NEW t, NEW b, NEW c, NEW p, c # "key"
  PROVE  Attached(NewObject(t, b, c, p, NoRes))
BY DEF Attached, NewObject

LEMMA HeapSessionStep ==
  ASSUME TypeOK, HeapInv, NEW i \in Sessions, SessionStep(i)
  PROVE  HeapInv'
<1>1. UNCHANGED <<present, held, res>>
  BY DEF SessionStep, CloseSession, CopyObject, AddObject, DestroyObject,
         OpEnd, OpInit
<1>2. ASSUME NEW h \in Handles
      PROVE  keys'[h] = keys[h] \/ Attached(keys'[h])
  <2>1. CASE UNCHANGED keys
    BY <2>1
  <2>2. ASSUME NEW b \in Handles, CopyObject(i, b)
        PROVE  keys'[h] = keys[h] \/ keys'[h] = keys[b]
    BY <2>2 DEF CopyObject, AddObject, TypeOK
  <2>3. ASSUME NEW b \in Handles, DestroyObject(i, b)
        PROVE  keys'[h] = keys[h] \/ Attached(keys'[h])
    BY <2>3, PlainObject DEF DestroyObject, FreeEntry, TypeOK
  <2>. QED
    BY <2>1, <2>2, <2>3 DEF SessionStep, CloseSession, OpEnd, OpInit, HeapInv
<1>. QED
  BY <1>1, <1>2, HeapFrame

LEMMA HeapObjects ==
  ASSUME TypeOK, HeapInv, NEW i \in Sessions, NEW t \in Slots,
         CallStep(i, t), ~Login(i, t), ~Logout(i, t)
  PROVE  HeapInv'
<1>1. UNCHANGED <<present, held, res>>
  BY DEF CallStep, InitPIN, CreateObject, ImportToHsm, GenerateKey,
         GeneratePair, GenerateOnPiv, RenewOnPiv, DeriveKey, AddObject
<1>2. Connected(t) /\ held[t] \in Res \cup {NoRes}
  BY DEF HeapInv, TypeOK
<1>3. ASSUME NEW o, AddObject(o), Attached(o)
      PROVE  HeapInv'
  BY <1>1, <1>3, HeapFrame DEF AddObject, TypeOK
<1>4. \A p \in BOOLEAN : Attached(NewObject(t, "none", "key", p, NoRes))
  BY CryptokiAssumption DEF Attached, NewObject
<1>5. ASSUME NEW p \in BOOLEAN, held[t] # NoRes,
             NEW b \in {"usb", "hsm"}, b = OwnBackend(t)
      PROVE  Attached(NewObject(t, b, "key", p, held[t]))
  BY <1>2, <1>5, CryptokiAssumption DEF Attached, NewObject, Connected
<1>6. CASE InitPIN(i, t)
  BY <1>1, <1>6, HeapFrame DEF InitPIN
<1>7. ASSUME NEW p \in BOOLEAN, NEW c \in NewClasses,
             CreateObject(i, t, c, p)
      PROVE  HeapInv'
  BY <1>3, <1>4, <1>7, PlainObject DEF CreateObject
<1>8. ASSUME NEW p \in BOOLEAN, ImportToHsm(i, t, p)
      PROVE  HeapInv'
  BY <1>3, <1>5, <1>8 DEF ImportToHsm, OwnBackend, BackendOf
<1>9. ASSUME NEW p \in BOOLEAN, GenerateKey(i, t, p)
      PROVE  HeapInv'
  BY <1>3, <1>9, PlainObject DEF GenerateKey
<1>10. ASSUME NEW p \in BOOLEAN, GeneratePair(i, t, p)
       PROVE  HeapInv'
  <2>1. ASSUME NEW q \in BOOLEAN
        PROVE  Attached(NewObject(t, OwnBackend(t), "key", q, held[t]))
    <3>1. CASE Proto[t] = "soft"
      <4>1. held[t] = NoRes /\ OwnBackend(t) = "soft"
        BY <1>2, <3>1 DEF Connected, OwnBackend, BackendOf
      <4>. QED
        BY <4>1, CryptokiAssumption DEF Attached, NewObject
    <3>2. CASE Proto[t] = "hsm" /\ held[t] # NoRes
      BY <1>5, <3>2 DEF OwnBackend, BackendOf
    <3>. QED
      BY <1>10, <3>1, <3>2 DEF GeneratePair
  <2>2. ASSUME NEW h \in Handles
        PROVE  keys'[h] = keys[h] \/ Attached(keys'[h])
    <3>1. (p /\ h \notin Claim(1)) \in BOOLEAN
      BY Zenon
    <3>. QED
      BY <1>10, <2>1, <3>1 DEF GeneratePair
  <2>. QED
    BY <1>1, <2>2, HeapFrame
<1>11. CASE GenerateOnPiv(i, t)
  BY <1>3, <1>5, <1>11 DEF GenerateOnPiv, OwnBackend, BackendOf
<1>12. ASSUME NEW b \in Handles, DeriveKey(i, t, b)
       PROVE  HeapInv'
  BY <1>3, <1>12, PlainObject DEF DeriveKey
<1>13. ASSUME NEW h \in Handles, RenewOnPiv(i, t, h)
       PROVE  HeapInv'
  <2>1. ASSUME NEW g \in Handles
        PROVE  /\ keys'[g].slot = keys[g].slot /\ keys'[g].class = keys[g].class
               /\ keys'[g].backend = keys[g].backend /\ keys'[g].back = keys[g].back
    BY <1>13 DEF RenewOnPiv, TypeOK, Object
  <2>2. \A g \in Handles : Attached(keys'[g])
    BY <2>1 DEF HeapInv, Attached
  <2>. QED
    BY <1>1, <2>2, HeapFrame
<1>. QED
  BY <1>6, <1>7, <1>8, <1>9, <1>10, <1>11, <1>12, <1>13 DEF CallStep

(* The slot gets a connection, its keys with it; one it had is a keystore.  *)
LEMMA HeapConnect ==
  ASSUME TypeOK, HeapInv, NEW t \in Slots, NEW r \in Res,
         Proto[t] # "soft", present[t], UNCHANGED present,
         OwnBackend(t) \in {"usb", "hsm"} => held[t] = NoRes,
         held' = [held EXCEPT ![t] = r], res'[r] = t,
         \A s \in Res : res'[s] = res[s] \/ res[s] = NoSlot,
         \A h \in Handles : keys'[h] = keys[h] \/ Attached(keys[h])'
  PROVE  HeapInv'
<1>. r # NoRes
  BY CryptokiAssumption DEF Res, NoRes
<1>1. held'[t] = r /\ \A s \in Slots \ {t} : held'[s] = held[s]
  BY DEF TypeOK
<1>2. ASSUME NEW s \in Slots
      PROVE  Connected(s)'
  <2>1. held[s] \in Res \cup {NoRes} /\ Connected(s)
    BY DEF TypeOK, HeapInv
  <2>. QED
    BY <1>1, <2>1, CryptokiAssumption DEF Connected
<1>3. ASSUME NEW h \in Handles, Attached(keys[h]), keys'[h] = keys[h]
      PROVE  Attached(keys[h])'
  <2>1. keys[h].slot \in Slots \cup {NoSlot} /\ keys[h].back \in Res \cup {NoRes}
    BY DEF TypeOK, Object
  <2>2. CASE keys[h].slot = NoSlot
    BY <1>3, <2>2 DEF Attached
  <2>3. CASE keys[h].slot = t
    BY <1>1, <1>3, <2>1, <2>3, CryptokiAssumption DEF Attached
  <2>4. CASE keys[h].slot \in Slots \ {t}
    BY <1>1, <1>3, <2>1, <2>4, CryptokiAssumption DEF Attached
  <2>. QED
    BY <2>1, <2>2, <2>3, <2>4
<1>. QED
  BY <1>2, <1>3 DEF HeapInv

(* The slot's connection and the keys of its backend go; no resource of     *)
(* another slot does.                                                       *)
LEMMA HeapDisconnect ==
  ASSUME TypeOK, HeapInv, NEW t \in Slots,
         \A s \in Slots \ {t} : present'[s] = present[s],
         held' = [held EXCEPT ![t] = NoRes],
         \A s \in Res : res'[s] = res[s] \/ res[s] \in {t, NoSlot},
         \A h \in Handles :
           \/ Attached(keys[h])'
           \/ /\ keys'[h] = keys[h]
              /\ ~(keys[h].slot = t /\ keys[h].backend = OwnBackend(t))
  PROVE  HeapInv'
<1>1. held'[t] = NoRes /\ \A s \in Slots \ {t} : held'[s] = held[s]
  BY DEF TypeOK
<1>2. ASSUME NEW s \in Slots
      PROVE  Connected(s)'
  <2>1. held[s] \in Res \cup {NoRes} /\ Connected(s)
    BY DEF TypeOK, HeapInv
  <2>. QED
    BY <1>1, <2>1, CryptokiAssumption DEF Connected
<1>3. ASSUME NEW h \in Handles, Attached(keys[h]), keys'[h] = keys[h],
             ~(keys[h].slot = t /\ keys[h].backend = OwnBackend(t))
      PROVE  Attached(keys[h])'
  <2>1. keys[h].slot \in Slots \cup {NoSlot} /\ keys[h].back \in Res \cup {NoRes}
    BY DEF TypeOK, Object
  <2>2. CASE keys[h].slot = NoSlot
    BY <1>3, <2>2 DEF Attached
  <2>3. CASE keys[h].slot = t
    BY <1>1, <1>3, <2>1, <2>3, CryptokiAssumption DEF Attached
  <2>4. CASE keys[h].slot \in Slots \ {t}
    BY <1>1, <1>3, <2>1, <2>4, CryptokiAssumption DEF Attached
  <2>. QED
    BY <2>1, <2>2, <2>3, <2>4
<1>. QED
  BY <1>2, <1>3 DEF HeapInv

LEMMA SweptEntries ==
  ASSUME NEW t \in Slots, Sweeps(t), HeapInv
  PROVE  \A h \in Handles :
           \/ Attached(keys[h])'
           \/ /\ keys'[h] = keys[h]
              /\ ~(keys[h].slot = t /\ keys[h].backend = OwnBackend(t))
<1>1. Attached(FreeEntry(FALSE))'
  BY DEF Attached, FreeEntry, NewObject
<1>. QED
  BY <1>1 DEF Sweeps, SweepsAfter, Swept, SweptAfter

(* Filling entries preserves the others, and fills attached keys. *)
LEMMA PopulatedEntries ==
  ASSUME TypeOK, NEW t \in Slots, NEW n, NEW r \in Res, Proto[t] # "soft",
         res'[r] = t, held'[t] # NoRes,
         OwnBackend(t) \in {"usb", "hsm"} => r = held'[t],
         NEW h \in Handles, keys'[h] = Populated(t, n, r)[h]
  PROVE  keys'[h] = keys[h] \/ Attached(keys[h])'
<1>. DEFINE p == IF Proto[t] \in {"soft", "piv"} THEN keys[h].private ELSE TRUE
<1>1. CASE h \in Claim(n)
  <2>1. keys'[h] = NewObject(t, OwnBackend(t), "key", p, r)
    BY <1>1 DEF Populated
  <2>. QED
    BY <2>1, CryptokiAssumption DEF Attached, NewObject, OwnBackend, BackendOf
<1>2. CASE h \notin Claim(n)
  BY <1>2 DEF Populated
<1>. QED
  BY <1>1, <1>2

LEMMA HeapLogin ==
  ASSUME TypeOK, LoginInv, HeapInv, NEW i \in Sessions, NEW t \in Slots,
         Login(i, t)
  PROVE  HeapInv'
<1>. MayLogin(i, t) /\ UNCHANGED present
  BY DEF Login, LoginWrongPin, LoginSO, LoginPiv, LoginPivNoRoom, LoginHsm,
         LoginHsmNoRoom, LoginSoft, LoginSoftDrops, LoginKeystore,
         LoginKeystoreNoRoom, LoginFsdir, SecondLoadFails, SecondLoad,
         SecondLoadNoRoom
<1>. present[t]
  BY DEF MayLogin, LoginInv, SessionsNeedToken
<1>. Connected(t) /\ held[t] \in Res \cup {NoRes}
  BY DEF HeapInv, TypeOK
<1>. \A r \in Res : r # NoRes
  BY CryptokiAssumption DEF Res, NoRes
<1>. NoSlot # t
  BY CryptokiAssumption
<1>1. CASE UNCHANGED <<keys, held, res>>
  BY <1>1, HeapFrame
<1>2. CASE LoginPiv(i, t)
  <2>1. PICK r \in Res, c \in 0..PivKeys :
          /\ res[r] = NoSlot
          /\ keys' = [h \in Handles |->
                       IF h \in Claim(PivKeys + c) \ Claim(PivKeys)
                       THEN NewObject(t, "usb", "cert", keys[h].private, NoRes)
                       ELSE Populated(t, PivKeys, r)[h]]
          /\ res' = [res EXCEPT ![r] = t]
          /\ held' = [held EXCEPT ![t] = r]
    BY <1>2 DEF LoginPiv, IsFirst, FreeRes
  <2>2. held[t] = NoRes /\ Proto[t] = "piv"
    BY <1>2 DEF LoginPiv, Claimed, Connected
  <2>3. res'[r] = t /\ held'[t] = r
    BY <2>1 DEF TypeOK
  <2>4. ASSUME NEW h \in Handles
        PROVE  keys'[h] = keys[h] \/ Attached(keys[h])'
    <3>1. CASE keys'[h] = Populated(t, PivKeys, r)[h]
      BY <2>2, <2>3, <3>1, PopulatedEntries
    <3>2. CASE keys'[h] = NewObject(t, "usb", "cert", keys[h].private, NoRes)
      BY <3>2 DEF Attached, NewObject
    <3>. QED
      BY <2>1, <3>1, <3>2
  <2>5. \A s \in Res : res'[s] = res[s] \/ res[s] = NoSlot
    BY <2>1 DEF TypeOK
  <2>. QED
    BY <2>1, <2>2, <2>3, <2>4, <2>5, HeapConnect
<1>3. ASSUME NEW r \in Res, NEW n, res[r] = NoSlot, Proto[t] # "soft",
             OwnBackend(t) \in {"usb", "hsm"} => held[t] = NoRes,
             keys' = Populated(t, n, r), res' = [res EXCEPT ![r] = t],
             held' = [held EXCEPT ![t] = r]
      PROVE  HeapInv'
  <2>1. res'[r] = t /\ held'[t] = r
    BY <1>3 DEF TypeOK
  <2>2. \A h \in Handles : keys'[h] = keys[h] \/ Attached(keys[h])'
    BY <1>3, <2>1, PopulatedEntries
  <2>3. \A s \in Res : res'[s] = res[s] \/ res[s] = NoSlot
    BY <1>3 DEF TypeOK
  <2>. QED
    BY <1>3, <2>1, <2>2, <2>3, HeapConnect
<1>4. CASE LoginHsm(i, t) /\ ~UNCHANGED <<keys, held, res>>
  BY <1>3, <1>4 DEF LoginHsm, IsFirst, FreeRes
<1>5. CASE LoginKeystore(i, t)
  BY <1>3, <1>5 DEF LoginKeystore, IsFirst, FreeRes, OwnBackend, BackendOf
<1>6. CASE LoginSoft(i, t)
  <2>1. Proto[t] = "soft" /\ UNCHANGED <<held, res>>
    BY <1>6 DEF LoginSoft
  <2>2. ASSUME NEW n \in KeyCounts, keys' = Populated(t, n, NoRes)
        PROVE  \A h \in Handles : keys'[h] = keys[h] \/ Attached(keys[h])'
    <3>. SUFFICES ASSUME NEW h \in Handles, h \in Claim(n)
                  PROVE  Attached(keys[h])'
      BY <2>2 DEF Populated
    <3>1. keys'[h] = NewObject(t, OwnBackend(t), "key", keys[h].private, NoRes)
      BY <2>1, <2>2 DEF Populated
    <3>2. OwnBackend(t) = "soft"
      BY <2>1 DEF OwnBackend, BackendOf
    <3>. QED
      BY <3>1, <3>2 DEF Attached, NewObject
  <2>3. \A h \in Handles : keys'[h] = keys[h] \/ Attached(keys[h])'
    BY <1>6, <2>2 DEF LoginSoft
  <2>. QED
    BY <2>1, <2>3 DEF HeapInv, Connected, Attached
<1>7. ASSUME SweepsAfter(t), held' = [held EXCEPT ![t] = NoRes],
             \A s \in Res : res'[s] = res[s] \/ res[s] \in {t, NoSlot}
      PROVE  HeapInv'
  BY <1>7, SweptEntries, HeapDisconnect DEF Sweeps
<1>8. CASE \/ LoginPivNoRoom(i, t) \/ LoginHsmNoRoom(i, t)
           \/ LoginSoftDrops(i, t)
  <2>1. held[t] = NoRes /\ SweepsAfter(t) /\ UNCHANGED <<held, res>>
    BY <1>8, FailedLoginSweeps
    DEF LoginPivNoRoom, LoginHsmNoRoom, LoginSoftDrops, Claimed, Connected
  <2>2. held' = [held EXCEPT ![t] = NoRes]
    BY <2>1 DEF TypeOK
  <2>. QED
    BY <1>7, <2>1, <2>2
<1>9. CASE LoginKeystoreNoRoom(i, t)
  BY <1>7, <1>9, FailedLoginSweeps DEF LoginKeystoreNoRoom
<1>10. CASE LoginFsdir(i, t)
  <2>. OwnBackend(t) = "ks" /\ Proto[t] # "soft"
    BY <1>10 DEF LoginFsdir, OwnBackend, BackendOf
  <2>1. PICK r, q \in Res, n \in KeyCounts :
          /\ IsFirst(r, FreeRes) /\ IsFirst(q, FreeRes \ {r})
          /\ HasRoom(n)
          /\ \/ SecondLoadFails(t, r, n)
             \/ SecondLoad(t, r, q, n)
             \/ SecondLoadNoRoom(t, r, n)
    BY <1>10 DEF LoginFsdir
  <2>. res[r] = NoSlot /\ res[q] = NoSlot
    BY <2>1 DEF IsFirst, FreeRes
  <2>2. CASE SecondLoadFails(t, r, n)
    BY <1>3, <2>1, <2>2 DEF SecondLoadFails
  <2>3. CASE SecondLoad(t, r, q, n)
    <3>1. res'[r] = t /\ res'[q] = t /\ held'[t] = q
      BY <2>3 DEF SecondLoad, TypeOK
    <3>2. ASSUME NEW h \in Handles
          PROVE  keys'[h] = keys[h] \/ Attached(keys[h])'
      <4>1. CASE keys'[h] = Populated(t, n, r)[h]
        BY <3>1, <4>1, PopulatedEntries
      <4>2. CASE keys'[h] = NewObject(t, "ks", "key", TRUE, q)
        BY <3>1, <4>2 DEF Attached, NewObject
      <4>. QED
        BY <2>3, <4>1, <4>2 DEF SecondLoad
    <3>3. \A s \in Res : res'[s] = res[s] \/ res[s] = NoSlot
      BY <2>1, <2>3 DEF SecondLoad, TypeOK
    <3>. QED
      BY <2>3, <3>1, <3>2, <3>3, HeapConnect DEF SecondLoad
  <2>4. CASE SecondLoadNoRoom(t, r, n)
    <3>1. \A s \in Res : res'[s] = res[s] \/ res[s] \in {t, NoSlot}
      BY <2>1, <2>4 DEF SecondLoadNoRoom, TypeOK
    <3>. QED
      BY <1>7, <2>4, <3>1, FailedLoginSweeps DEF SecondLoadNoRoom
  <2>. QED
    BY <2>1, <2>2, <2>3, <2>4
<1>. QED
  BY <1>1, <1>2, <1>4, <1>5, <1>6, <1>8, <1>9, <1>10
  DEF Login, LoginWrongPin, LoginSO

LEMMA HeapLogout ==
  ASSUME TypeOK, HeapInv, NEW i \in Sessions, NEW t \in Slots, Logout(i, t)
  PROVE  HeapInv'
<1>1. Connected(t)
  BY DEF HeapInv
<1>2. ASSUME NEW h \in Handles
      PROVE  \/ Attached(keys[h])'
             \/ /\ keys'[h] = keys[h]
                /\ ~(keys[h].slot = t /\ keys[h].backend = OwnBackend(t))
  <2>1. CASE keys' = Swept(t)
    BY <2>1, SweptEntries DEF Sweeps
  <2>2. CASE UNCHANGED keys /\ held[t] = NoRes
    <3>1. CASE keys[h].slot = t /\ keys[h].backend = OwnBackend(t)
      <4>1. Attached(keys[h]) /\ OwnBackend(t) \in {"soft", "usb", "ks", "hsm"}
        BY DEF HeapInv, OwnBackend, BackendOf
      <4>2. /\ keys[h].back = NoRes
            /\ keys[h].class = "key" => OwnBackend(t) = "soft"
        BY <2>2, <3>1, <4>1 DEF Attached
      <4>. QED
        BY <2>2, <3>1, <4>1, <4>2 DEF Attached
    <3>. QED
      BY <2>2, <3>1
  <2>. QED
    BY <2>1, <2>2 DEF Logout
<1>3. \A s \in Res : res'[s] = res[s] \/ res[s] \in {t, NoSlot}
  <2>1. NoRes \notin Res
    BY CryptokiAssumption DEF Res, NoRes
  <2>2. res' = [r \in Res |-> IF r = held[t] THEN NoSlot ELSE res[r]]
    BY DEF Logout
  <2>. QED
    BY <1>1, <2>1, <2>2 DEF Connected
<1>. QED
  BY <1>2, <1>3, HeapDisconnect DEF Logout

LEMMA HeapSlotStep ==
  ASSUME TypeOK, HeapInv, NEW t \in Slots, SlotStep(t)
  PROVE  HeapInv'
<1>. Connected(t) /\ NoSlot # t
  BY CryptokiAssumption DEF HeapInv
<1>1. CASE TokenArrives(t)
  <2>1. \A s \in Slots : present[s] => present'[s]
    BY <1>1 DEF TokenArrives, TypeOK
  <2>. QED
    BY <1>1, <2>1 DEF TokenArrives, HeapInv, Connected, Attached
<1>2. ASSUME UNCHANGED <<keys, present, held, res>>
      PROVE  HeapInv'
  BY <1>2, HeapFrame
<1>3. CASE TokenDeparts(t)
  <2>1. ASSUME NEW h \in Handles
        PROVE  \/ Attached(keys[h])'
               \/ /\ keys'[h] = keys[h]
                  /\ ~(keys[h].slot = t /\ keys[h].backend = OwnBackend(t))
    <3>1. CASE keys' = Swept(t)
      BY <3>1, SweptEntries DEF Sweeps
    <3>2. CASE UNCHANGED keys /\ Proto[t] = "piv" /\ held[t] = NoRes
      <4>1. CASE keys[h].slot = t /\ keys[h].backend = OwnBackend(t)
        <5>1. Attached(keys[h]) /\ OwnBackend(t) = "usb"
          BY <3>2 DEF HeapInv, OwnBackend, BackendOf
        <5>2. keys[h].class # "key" /\ keys[h].back = NoRes
          BY <3>2, <4>1, <5>1 DEF Attached
        <5>. QED
          BY <3>2, <5>2 DEF Attached
      <4>. QED
        BY <3>2, <4>1
    <3>. QED
      BY <1>3, <3>1, <3>2 DEF TokenDeparts
  <2>2. \A s \in Res : res'[s] = res[s] \/ res[s] \in {t, NoSlot}
    BY <1>3, CryptokiAssumption
    DEF TokenDeparts, Connected, TypeOK, Res, NoRes
  <2>3. \A s \in Slots \ {t} : present'[s] = present[s]
    BY <1>3 DEF TokenDeparts, TypeOK
  <2>. QED
    BY <1>3, <2>1, <2>2, <2>3, HeapDisconnect DEF TokenDeparts
<1>. QED
  BY <1>1, <1>2, <1>3 DEF SlotStep, CloseAllSessions, OpenSession

LEMMA HeapEmpty ==
  ASSUME held = [t \in Slots |-> NoRes], keys = [h \in Handles |-> FreeEntry(FALSE)]
  PROVE  HeapInv
BY DEF HeapInv, Connected, Attached, FreeEntry, NewObject

LEMMA HeapRestart == Restart => HeapInv'
BY DEF Restart, HeapInv, Connected, Attached, FreeEntry, NewObject

(* No slot and no object points to freed memory, or to memory of another    *)
(* slot, and no key of a token, keystore or server is left without the      *)
(* connection it was found through, over every sequence of logins, failed   *)
(* logins, logouts, departures, closed sessions and generated, imported,    *)
(* copied, derived and destroyed objects.                                   *)
THEOREM HeapCorrect == Spec => []HeapInv
<1>1. Init => HeapInv
  BY HeapEmpty DEF Init, InitialSlots
<1>2. TypeOK /\ LoginInv /\ HeapInv /\ [Next]_vars => HeapInv'
  <2>. SUFFICES ASSUME TypeOK, LoginInv, HeapInv, [Next]_vars PROVE HeapInv'
    OBVIOUS
  <2>1. CASE UNCHANGED vars
    BY <2>1, HeapFrame DEF vars
  <2>2. CASE Restart
    BY <2>2, HeapRestart
  <2>3. ASSUME NEW i \in Sessions, NEW t \in Slots, CallStep(i, t)
        PROVE  HeapInv'
    BY <2>3, HeapLogin, HeapLogout, HeapObjects
  <2>. QED
    BY <2>1, <2>2, <2>3, HeapSlotStep, HeapSessionStep DEF Next
<1>. QED
  BY <1>1, <1>2, TypeCorrect, LoginCorrect, PTL DEF Spec

(* No use after free through a slot's or an object's pointer (C_Logout,     *)
(* slot_remove, C_Login's error paths, C_Finalize).                         *)
THEOREM NothingDangles == Spec => []NoDangling
<1>1. HeapInv /\ TypeOK => NoDangling
  BY DEF HeapInv, Connected, Attached, NoDangling, InUse
<1>. QED
  BY <1>1, HeapCorrect, TypeCorrect, PTL

(* The keys of a token or server are in the table only while the slot has   *)
(* its connection, and PIV and HSM keys speak through the current one.      *)
THEOREM KeysAreConnected == Spec => []KeysFollowConnection
<1>1. HeapInv /\ TypeOK => KeysFollowConnection
  BY DEF HeapInv, Connected, Attached, KeysFollowConnection
<1>. QED
  BY <1>1, HeapCorrect, TypeCorrect, PTL

-----------------------------------------------------------------------------
(* Steps.  What a step on slot t leaves to the other slots, u being one.    *)
SessionsStay(u) ==
  \A i \in Sessions : /\ sess'[i].slot = u <=> sess[i].slot = u
                      /\ sess[i].slot = u => sess'[i].user = sess[i].user

KeysStay(u) == \A h \in Handles : keys'[h].slot = u <=> keys[h].slot = u

SlotStays(u) ==
  /\ present'[u] = present[u] /\ held'[u] = held[u]
  /\ pin'[u] = pin[u] /\ low'[u] = low[u]
  /\ \A r \in Res : res'[r] = u <=> res[r] = u

Stays(u) == SessionsStay(u) /\ KeysStay(u) /\ SlotStays(u)

LEMMA StaysView ==
  ASSUME NEW u \in Slots, Stays(u)
  PROVE  View(u)' = View(u)
<1>1. SlotSessions(u)' = SlotSessions(u)
  BY DEF Stays, SessionsStay, SlotSessions
<1>2. [i \in SlotSessions(u)' |-> sess'[i].user] = [i \in SlotSessions(u) |-> sess[i].user]
  BY <1>1 DEF Stays, SessionsStay, SlotSessions
<1>3. {r \in Res : res'[r] = u} = {r \in Res : res[r] = u}
  BY DEF Stays, SlotStays
<1>4. {h \in Handles : keys'[h].slot = u} = {h \in Handles : keys[h].slot = u}
  BY DEF Stays, KeysStay
<1>5. present'[u] = present[u] /\ held'[u] = held[u] /\ pin'[u] = pin[u] /\ low'[u] = low[u]
  BY DEF Stays, SlotStays
<1>. QED
  BY <1>2, <1>3, <1>4, <1>5 DEF View

(* The tables the actions build keep the sessions and objects of u. *)
LEMMA SessionsKept ==
  ASSUME TypeOK, NEW t \in Slots, NEW u \in Slots, t # u, NEW w \in Users,
         sess' \in {sess, AsUser(t, w), Closed(t), LoggedOut(t)}
  PROVE  SessionsStay(u)
<1>. SUFFICES ASSUME NEW i \in Sessions
              PROVE  /\ sess'[i].slot = u <=> sess[i].slot = u
                     /\ sess[i].slot = u => sess'[i].user = sess[i].user
  BY DEF SessionsStay
<1>. sess[i] \in Session /\ NoSlot # u
  BY CryptokiAssumption DEF TypeOK
<1>1. CASE sess' = sess
  BY <1>1
<1>2. CASE sess' = AsUser(t, w)
  BY <1>2 DEF AsUser, Session
<1>3. CASE sess' = Closed(t)
  BY <1>3 DEF Closed, NoSession
<1>4. CASE sess' = LoggedOut(t)
  BY <1>4 DEF LoggedOut, Session
<1>. QED
  BY <1>1, <1>2, <1>3, <1>4

LEMMA KeysKept ==
  ASSUME TypeOK, NEW t \in Slots, NEW u \in Slots, t # u, NEW n, NEW r, NEW h \in Handles,
         \/ keys'[h] \in {keys[h], Populated(t, n, r)[h]}
         \/ Sweeps(t)
  PROVE  keys'[h].slot = u <=> keys[h].slot = u
<1>. NoSlot # u
  BY CryptokiAssumption
<1>1. CASE keys'[h] = keys[h]
  BY <1>1
<1>2. CASE keys' = Swept(t)
  BY <1>2 DEF Swept, FreeEntry, NewObject
<1>3. CASE SweepsAfter(t)
  BY <1>3 DEF SweepsAfter, SweptAfter, Claim, FreeHandles, InUse, FreeEntry, NewObject
<1>4. CASE keys'[h] = Populated(t, n, r)[h]
  <2>1. CASE h \in Claim(n)
    BY <1>4, <2>1 DEF Populated, Claim, FreeHandles, InUse, NewObject
  <2>2. CASE h \notin Claim(n)
    BY <1>4, <2>2 DEF Populated
  <2>. QED
    BY <2>1, <2>2
<1>. QED
  BY <1>1, <1>2, <1>3, <1>4 DEF Sweeps

(* A free entry is filled for slot t. *)
LEMMA EntryFilled ==
  ASSUME TypeOK, NEW t \in Slots, NEW u \in Slots, t # u, NEW o, o.slot = t, AddObject(o)
  PROVE  KeysStay(u)
BY CryptokiAssumption
DEF AddObject, KeysStay, IsFirst, FreeHandles, InUse, TypeOK

LEMMA StayLogin ==
  ASSUME TypeOK, HeapInv, NEW i \in Sessions, NEW t \in Slots, Login(i, t),
         NEW u \in Slots, t # u
  PROVE  Stays(u)
<1>. {"user", "so"} \subseteq Users /\ NoSlot # u
  BY CryptokiAssumption DEF Users
<1>a. ASSUME NEW w \in Users, LoggedIn(t, w)
      PROVE  SessionsStay(u) /\ low'[u] = low[u]
  BY <1>a, SessionsKept DEF LoggedIn, TypeOK
<1>b. UNCHANGED sess => SessionsStay(u)
  BY DEF SessionsStay
<1>c. UNCHANGED keys \/ SweepsAfter(t) => KeysStay(u)
  BY KeysKept DEF KeysStay, Sweeps
<1>d. ASSUME NEW r \in FreeRes, res' = [res EXCEPT ![r] = t]
      PROVE  \A s \in Res : res'[s] = u <=> res[s] = u
  BY <1>d DEF FreeRes, TypeOK
<1>e. ASSUME NEW r, held' = [held EXCEPT ![t] = r]
      PROVE  held'[u] = held[u]
  BY <1>e DEF TypeOK
<1>f. ASSUME NEW n, NEW r, keys' = Populated(t, n, r)
      PROVE  KeysStay(u)
  BY <1>f, KeysKept DEF KeysStay
<1>1. CASE LoginWrongPin(i, t)
  BY <1>1, <1>b, <1>c DEF LoginWrongPin, Stays, SlotStays, TypeOK
<1>2. CASE LoginSO(i, t)
  BY <1>2, <1>a, <1>c DEF LoginSO, Stays, SlotStays
<1>3. CASE LoginPiv(i, t)
  <2>1. PICK r \in Res, c \in 0..PivKeys :
          /\ IsFirst(r, FreeRes)
          /\ keys' = [h \in Handles |->
                       IF h \in Claim(PivKeys + c) \ Claim(PivKeys)
                       THEN NewObject(t, "usb", "cert", keys[h].private, NoRes)
                       ELSE Populated(t, PivKeys, r)[h]]
          /\ res' = [res EXCEPT ![r] = t]
          /\ held' = [held EXCEPT ![t] = r]
    BY <1>3 DEF LoginPiv
  <2>2. ASSUME NEW h \in Handles PROVE keys'[h].slot = u <=> keys[h].slot = u
    <3>1. CASE h \in Claim(PivKeys + c) \ Claim(PivKeys)
      BY <2>1, <3>1 DEF Claim, FreeHandles, InUse, NewObject
    <3>2. CASE h \notin Claim(PivKeys + c) \ Claim(PivKeys)
      BY <2>1, <3>2, KeysKept
    <3>. QED
      BY <3>1, <3>2
  <2>3. r \in FreeRes
    BY <2>1 DEF IsFirst
  <2>4. SessionsStay(u) /\ low'[u] = low[u] /\ UNCHANGED <<present, pin>>
    BY <1>3, <1>a DEF LoginPiv
  <2>. QED
    BY <1>d, <1>e, <2>1, <2>2, <2>3, <2>4 DEF Stays, KeysStay, SlotStays
<1>4. CASE LoginPivNoRoom(i, t)
  BY <1>4, <1>b, <1>c, FailedLoginSweeps DEF LoginPivNoRoom, Stays, SlotStays
<1>5. CASE LoginHsm(i, t)
  <2>1. SessionsStay(u) /\ low'[u] = low[u] /\ UNCHANGED <<present, pin>>
    BY <1>5, <1>a DEF LoginHsm
  <2>2. CASE UNCHANGED <<keys, res, held>>
    BY <1>c, <2>1, <2>2 DEF Stays, SlotStays
  <2>3. CASE \E r \in Res, n \in KeyCounts :
               /\ IsFirst(r, FreeRes)
               /\ keys' = Populated(t, n, r)
               /\ res' = [res EXCEPT ![r] = t]
               /\ held' = [held EXCEPT ![t] = r]
    BY <1>d, <1>e, <1>f, <2>1, <2>3 DEF Stays, SlotStays, IsFirst
  <2>. QED
    BY <1>5, <2>2, <2>3 DEF LoginHsm
<1>6. CASE LoginHsmNoRoom(i, t)
  BY <1>6, <1>b, <1>c, FailedLoginSweeps DEF LoginHsmNoRoom, Stays, SlotStays
<1>7. CASE LoginSoft(i, t)
  <2>1. SessionsStay(u) /\ low'[u] = low[u] /\ UNCHANGED <<present, held, res>>
    BY <1>7, <1>a DEF LoginSoft
  <2>2. KeysStay(u)
    BY <1>7, <1>c, <1>f DEF LoginSoft
  <2>3. pin'[u] = pin[u]
    BY <1>7 DEF LoginSoft, TypeOK
  <2>. QED
    BY <2>1, <2>2, <2>3 DEF Stays, SlotStays
<1>8. CASE LoginSoftDrops(i, t)
  BY <1>8, <1>b, <1>c, FailedLoginSweeps DEF LoginSoftDrops, Stays, SlotStays, TypeOK
<1>9. CASE LoginKeystore(i, t)
  <2>1. SessionsStay(u) /\ low'[u] = low[u] /\ UNCHANGED <<present, pin>>
    BY <1>9, <1>a DEF LoginKeystore
  <2>2. \E r \in Res, n \in KeyCounts :
          /\ IsFirst(r, FreeRes)
          /\ keys' = Populated(t, n, r)
          /\ res' = [res EXCEPT ![r] = t]
          /\ held' = [held EXCEPT ![t] = r]
    BY <1>9 DEF LoginKeystore
  <2>. QED
    BY <1>d, <1>e, <1>f, <2>1, <2>2 DEF Stays, SlotStays, IsFirst
<1>10. CASE LoginKeystoreNoRoom(i, t)
  BY <1>10, <1>b, <1>c, <1>e, FailedLoginSweeps DEF LoginKeystoreNoRoom, Stays, SlotStays
<1>11. CASE LoginFsdir(i, t)
  <2>1. PICK r, q \in Res, n \in KeyCounts :
          /\ IsFirst(r, FreeRes) /\ IsFirst(q, FreeRes \ {r})
          /\ \/ SecondLoadFails(t, r, n)
             \/ SecondLoad(t, r, q, n)
             \/ SecondLoadNoRoom(t, r, n)
    BY <1>11 DEF LoginFsdir
  <2>2. r \in FreeRes /\ q \in FreeRes /\ UNCHANGED <<present, pin>>
    BY <1>11, <2>1 DEF IsFirst, LoginFsdir
  <2>3. CASE SecondLoadFails(t, r, n)
    BY <1>b, <1>d, <1>e, <1>f, <2>2, <2>3 DEF SecondLoadFails, Stays, SlotStays
  <2>4. CASE SecondLoad(t, r, q, n)
    <3>1. ASSUME NEW h \in Handles PROVE keys'[h].slot = u <=> keys[h].slot = u
      <4>1. CASE h \in Claim(2 * n) \ Claim(n)
        BY <2>4, <4>1 DEF SecondLoad, Claim, FreeHandles, InUse, NewObject
      <4>2. CASE h \notin Claim(2 * n) \ Claim(n)
        <5>1. keys'[h] = Populated(t, n, r)[h]
          BY <2>4, <4>2 DEF SecondLoad
        <5>. QED
          BY <5>1, KeysKept
      <4>. QED
        BY <4>1, <4>2
    <3>2. \A s \in Res : res'[s] = u <=> res[s] = u
      BY <2>2, <2>4 DEF SecondLoad, FreeRes, TypeOK
    <3>3. held'[u] = held[u] /\ SessionsStay(u) /\ low'[u] = low[u]
      BY <1>a, <1>e, <2>4 DEF SecondLoad
    <3>. QED
      BY <2>2, <3>1, <3>2, <3>3 DEF Stays, KeysStay, SlotStays
  <2>5. CASE SecondLoadNoRoom(t, r, n)
    BY <1>b, <1>c, <1>d, <1>e, <2>2, <2>5, FailedLoginSweeps
    DEF SecondLoadNoRoom, Stays, SlotStays
  <2>. QED
    BY <2>1, <2>3, <2>4, <2>5
<1>. QED
  BY <1>1, <1>2, <1>3, <1>4, <1>5, <1>6, <1>7, <1>8, <1>9, <1>10, <1>11 DEF Login

LEMMA StayLogout ==
  ASSUME TypeOK, HeapInv, NEW i \in Sessions, NEW t \in Slots, Logout(i, t),
         NEW u \in Slots, t # u
  PROVE  Stays(u)
<1>1. SessionsStay(u)
  BY SessionsKept DEF Logout, Users
<1>2. KeysStay(u)
  BY KeysKept DEF Logout, KeysStay, Sweeps
<1>3. \A r \in Res : res'[r] = u <=> res[r] = u
  <2>1. NoRes \notin Res /\ NoSlot # u
    BY CryptokiAssumption DEF Res, NoRes
  <2>2. res' = [r \in Res |-> IF r = held[t] THEN NoSlot ELSE res[r]]
    BY DEF Logout
  <2>3. Connected(t)
    BY DEF HeapInv
  <2>. QED
    BY <2>1, <2>2, <2>3 DEF Connected
<1>. QED
  BY <1>1, <1>2, <1>3 DEF Logout, Stays, SlotStays, TypeOK

LEMMA StayCall ==
  ASSUME TypeOK, HeapInv, NEW i \in Sessions, NEW t \in Slots, CallStep(i, t),
         NEW u \in Slots, t # u
  PROVE  Stays(u)
<1>1. CASE Login(i, t)
  BY <1>1, StayLogin
<1>2. CASE Logout(i, t)
  BY <1>2, StayLogout
<1>3. CASE ~Login(i, t) /\ ~Logout(i, t)
  <2>1. UNCHANGED <<sess, present, held, res, pin, low>>
    BY <1>3 DEF CallStep, InitPIN, CreateObject, ImportToHsm, GenerateKey,
                GeneratePair, GenerateOnPiv, RenewOnPiv, DeriveKey, AddObject
  <2>2. KeysStay(u)
    <3>1. CASE UNCHANGED keys
      BY <3>1 DEF KeysStay
    <3>2. ASSUME NEW o, o.slot = t, AddObject(o) PROVE KeysStay(u)
      BY <3>2, EntryFilled
    <3>3. ASSUME NEW p \in BOOLEAN, GeneratePair(i, t, p) PROVE KeysStay(u)
      BY <3>3, CryptokiAssumption
      DEF GeneratePair, KeysStay, Claim, FreeHandles, InUse, NewObject
    <3>4. ASSUME NEW b, NEW c, NEW p, NEW r, AddObject(NewObject(t, b, c, p, r))
          PROVE  KeysStay(u)
      BY <3>2, <3>4 DEF NewObject
    <3>5. CASE InitPIN(i, t)
      BY <3>1, <3>5 DEF InitPIN
    <3>6. ASSUME NEW p \in BOOLEAN,
                 \/ \E c \in NewClasses : CreateObject(i, t, c, p)
                 \/ ImportToHsm(i, t, p) \/ GenerateKey(i, t, p)
          PROVE  KeysStay(u)
      BY <3>4, <3>6 DEF CreateObject, ImportToHsm, GenerateKey
    <3>7. CASE GenerateOnPiv(i, t)
      BY <3>4, <3>7 DEF GenerateOnPiv
    <3>8. ASSUME NEW b \in Handles, DeriveKey(i, t, b)
          PROVE  KeysStay(u)
      BY <3>4, <3>8 DEF DeriveKey
    <3>9. ASSUME NEW h \in Handles, RenewOnPiv(i, t, h)
          PROVE  KeysStay(u)
      BY <3>9 DEF RenewOnPiv, KeysStay, TypeOK, Object
    <3>. QED
      BY <1>3, <3>3, <3>5, <3>6, <3>7, <3>8, <3>9 DEF CallStep
  <2>. QED
    BY <2>1, <2>2 DEF Stays, SessionsStay, SlotStays
<1>. QED
  BY <1>1, <1>2, <1>3

LEMMA StaySlotStep ==
  ASSUME TypeOK, HeapInv, NEW t \in Slots, SlotStep(t), NEW u \in Slots, t # u
  PROVE  Stays(u)
<1>. NoSlot # u /\ NoSlot # t /\ "none" \in Users
  BY CryptokiAssumption DEF Users
<1>1. CASE TokenArrives(t)
  BY <1>1 DEF TokenArrives, Stays, SessionsStay, KeysStay, SlotStays, TypeOK
<1>2. CASE TokenDeparts(t)
  <2>1. SessionsStay(u)
    BY <1>2, SessionsKept DEF TokenDeparts
  <2>2. KeysStay(u)
    BY <1>2, KeysKept DEF TokenDeparts, KeysStay, Sweeps
  <2>3. \A r \in Res : res'[r] = u <=> res[r] = u
    BY <1>2 DEF TokenDeparts, HeapInv, Connected, TypeOK, Res, NoRes
  <2>. QED
    BY <1>2, <2>1, <2>2, <2>3 DEF TokenDeparts, Stays, SlotStays, TypeOK
<1>3. CASE CloseAllSessions(t)
  BY <1>3, SessionsKept DEF CloseAllSessions, Stays, KeysStay, SlotStays
<1>4. ASSUME NEW rw \in BOOLEAN, OpenSession(t, rw) PROVE Stays(u)
  <2>1. PICK j \in Sessions, w \in Users :
          /\ ~Open(j)
          /\ sess' = [sess EXCEPT ![j] =
                        [slot |-> t, rw |-> rw, user |-> w, op |-> NoOps]]
    BY <1>4 DEF OpenSession, IsFirst
  <2>2. SessionsStay(u)
    BY <2>1 DEF SessionsStay, Open, TypeOK
  <2>. QED
    BY <1>4, <2>2 DEF OpenSession, Stays, KeysStay, SlotStays
<1>. QED
  BY <1>1, <1>2, <1>3, <1>4 DEF SlotStep

(* A session's own calls concern its slot; C_CopyObject the slot of the     *)
(* object, which may be another.                                            *)
LEMMA StaySession ==
  ASSUME TypeOK, NEW i \in Sessions, SessionStep(i)
  PROVE  \E t \in Slots : \A u \in Slots \ {t} : Stays(u)
<1>1. UNCHANGED <<present, held, res, pin, low>>
  BY DEF SessionStep, CloseSession, CopyObject, AddObject, DestroyObject,
         OpEnd, OpInit
<1>2. Open(i) /\ sess[i].slot \in Slots
  BY DEF SessionStep, CloseSession, CopyObject, DestroyObject, OpEnd, OpInit,
         Open, TypeOK, Session
<1>3. CASE CloseSession(i)
  <2>1. \A u \in Slots \ {sess[i].slot} : SessionsStay(u)
    <3>. SUFFICES ASSUME NEW u \in Slots \ {sess[i].slot}, NEW j \in Sessions
                  PROVE  /\ sess'[j].slot = u <=> sess[j].slot = u
                         /\ sess[j].slot = u => sess'[j].user = sess[j].user
      BY DEF SessionsStay
    <3>1. sess'[j] = IF j = i THEN NoSession ELSE sess[j]
      BY <1>3 DEF CloseSession, TypeOK
    <3>. QED
      BY <3>1, CryptokiAssumption DEF NoSession
  <2>. QED
    BY <1>1, <1>2, <1>3, <2>1 DEF CloseSession, Stays, KeysStay, SlotStays
<1>4. ASSUME NEW b \in Handles, CopyObject(i, b)
      PROVE  \E t \in Slots : \A u \in Slots \ {t} : Stays(u)
  <2>1. UNCHANGED sess /\ AddObject(keys[b])
    BY <1>4 DEF CopyObject, AddObject
  <2>2. CASE keys[b].slot \in Slots
    BY <1>1, <2>1, <2>2, EntryFilled DEF Stays, SessionsStay, SlotStays
  <2>3. CASE keys[b].slot = NoSlot
    <3>1. \A u \in Slots : KeysStay(u)
      BY <2>1, <2>3, CryptokiAssumption
      DEF AddObject, KeysStay, IsFirst, FreeHandles, InUse, TypeOK
    <3>. QED
      BY <1>1, <1>2, <2>1, <3>1 DEF Stays, SessionsStay, SlotStays
  <2>. QED
    BY <2>2, <2>3 DEF TypeOK, Object
<1>5. ASSUME NEW h \in Handles, DestroyObject(i, h)
      PROVE  \E t \in Slots : \A u \in Slots \ {t} : Stays(u)
  <2>1. \A u \in Slots \ {sess[i].slot} : KeysStay(u)
    BY <1>5, CryptokiAssumption
    DEF DestroyObject, KeysStay, FreeEntry, NewObject, TypeOK
  <2>2. \A u \in Slots : SessionsStay(u)
    BY <1>5 DEF DestroyObject, WithoutOpsOn, SessionsStay, TypeOK, Session
  <2>. QED
    BY <1>1, <1>2, <2>1, <2>2 DEF Stays, SlotStays
<1>6. ASSUME UNCHANGED keys, NEW k \in OpKinds, NEW h,
             sess' = [sess EXCEPT ![i].op[k] = h]
      PROVE  \E t \in Slots : \A u \in Slots \ {t} : Stays(u)
  <2>1. \A u \in Slots : SessionsStay(u)
    BY <1>6 DEF SessionsStay, TypeOK, Session
  <2>. QED
    BY <1>1, <1>2, <1>6, <2>1 DEF Stays, KeysStay, SlotStays
<1>. QED
  BY <1>3, <1>4, <1>5, <1>6 DEF SessionStep, OpEnd, OpInit

(* A call or an event concerns one token: the objects, the login state, the *)
(* connection and the PIN state of every other token stay what they were,   *)
(* for any number of tokens of any kinds.                                   *)
THEOREM StepsConcernOneToken == Spec => OneTokenPerStep
<1>1. ASSUME TypeOK, HeapInv, Next
      PROVE  Restart \/ \E t \in Slots : \A u \in Slots \ {t} : View(u)' = View(u)
  <2>1. CASE Restart
    BY <2>1
  <2>2. ASSUME NEW t \in Slots, \A u \in Slots \ {t} : Stays(u)
        PROVE  \E s \in Slots : \A u \in Slots \ {s} : View(u)' = View(u)
    BY <2>2, StaysView
  <2>3. CASE ~Restart
    BY <1>1, <2>2, <2>3, StaySlotStep, StaySession, StayCall DEF Next
  <2>. QED
    BY <2>1, <2>3
<1>2. TypeOK /\ HeapInv /\ [Next]_vars =>
        [Restart \/ \E t \in Slots : \A u \in Slots \ {t} : View(u)' = View(u)]_vars
  BY <1>1
<1>. QED
  BY <1>2, TypeCorrect, HeapCorrect, PTL DEF Spec, OneTokenPerStep

(* Session i is logged out by a step, and what is then left of slot t.      *)
LogsOut(i) ==
  /\ Open(i) /\ sess[i].user # "none"
  /\ sess'[i].slot = sess[i].slot /\ sess'[i].user = "none"

Wiped(t) ==
  /\ held'[t] = NoRes /\ ~pin'[t]
  /\ \A j \in SlotSessions(t) : sess'[j].op = NoOps
  /\ \A h \in Handles :
       /\ keys'[h].slot = t /\ keys'[h].class = "key"
       /\ keys'[h].backend = OwnBackend(t)
       => KeepsKeys(t)

(* No other call or event turns a logged-in session into a public one.      *)
LEMMA OnlyLogoutLogsOut ==
  ASSUME TypeOK, Next, NEW i \in Sessions, LogsOut(i)
  PROVE  \E j \in Sessions : Logout(j, sess[i].slot)
<1>. NoSlot \notin Slots /\ sess[i] \in Session
  BY CryptokiAssumption DEF TypeOK
<1>1. ~UNCHANGED sess
  BY DEF LogsOut
<1>2. ASSUME NEW t \in Slots, NEW w \in {"user", "so"}, sess' = AsUser(t, w) PROVE FALSE
  BY <1>2 DEF AsUser, LogsOut
<1>3. ASSUME NEW t \in Slots, sess' = Closed(t) PROVE FALSE
  <2>1. sess'[i] = IF sess[i].slot = t THEN NoSession ELSE sess[i]
    BY <1>3 DEF Closed
  <2>. QED
    BY <2>1 DEF LogsOut, NoSession, Open
<1>4. ASSUME Restart PROVE FALSE
  <2>1. sess'[i] = NoSession
    BY <1>4 DEF Restart
  <2>. QED
    BY <2>1 DEF LogsOut, NoSession, Open
<1>5. ASSUME NEW t \in Slots, SlotStep(t) PROVE FALSE
  <2>1. ~TokenArrives(t) /\ ~TokenDeparts(t) /\ ~CloseAllSessions(t)
    BY <1>1, <1>3 DEF TokenArrives, TokenDeparts, CloseAllSessions
  <2>2. PICK rw \in BOOLEAN : OpenSession(t, rw)
    BY <1>5, <2>1 DEF SlotStep
  <2>3. PICK j \in Sessions : ~Open(j) /\ \E r : sess' = [sess EXCEPT ![j] = r]
    BY <2>2 DEF OpenSession, IsFirst
  <2>. QED
    BY <2>3 DEF LogsOut, TypeOK
<1>6. ASSUME NEW j \in Sessions, SessionStep(j) PROVE FALSE
  <2>1. ASSUME CloseSession(j) PROVE FALSE
    <3>1. sess'[i] = IF i = j THEN NoSession ELSE sess[i]
      BY <2>1 DEF CloseSession, TypeOK
    <3>. QED
      BY <3>1 DEF LogsOut, NoSession, Open
  <2>2. ASSUME NEW h \in Handles PROVE ~CopyObject(j, h) /\ ~DestroyObject(j, h)
    <3>1. ~CopyObject(j, h)
      BY <1>1 DEF CopyObject, AddObject
    <3>2. ASSUME sess' = WithoutOpsOn(h) PROVE FALSE
      <4>1. sess'[i].user = sess[i].user
        BY <3>2 DEF WithoutOpsOn, Session
      <4>. QED
        BY <4>1 DEF LogsOut
    <3>. QED
      BY <3>1, <3>2 DEF DestroyObject
  <2>3. ASSUME NEW k \in OpKinds, NEW h, sess' = [sess EXCEPT ![j].op[k] = h] PROVE FALSE
    BY <2>3 DEF LogsOut, TypeOK
  <2>. QED
    BY <1>6, <2>1, <2>2, <2>3 DEF SessionStep, OpEnd, OpInit
<1>7. ASSUME NEW j \in Sessions, NEW t \in Slots, CallStep(j, t)
      PROVE  Logout(j, t)
  <2>1. ~Login(j, t)
    BY <1>1, <1>2
    DEF Login, LoginWrongPin, LoginSO, LoginPiv, LoginPivNoRoom, LoginHsm,
        LoginHsmNoRoom, LoginSoft, LoginSoftDrops, LoginKeystore,
        LoginKeystoreNoRoom, LoginFsdir, SecondLoadFails, SecondLoad,
        SecondLoadNoRoom, LoggedIn
  <2>. QED
    BY <1>1, <1>7, <2>1
    DEF CallStep, InitPIN, CreateObject, ImportToHsm, GenerateKey,
        GeneratePair, GenerateOnPiv, RenewOnPiv, DeriveKey, AddObject
<1>8. PICK j \in Sessions, t \in Slots : Logout(j, t)
  BY <1>4, <1>5, <1>6, <1>7 DEF Next
<1>9. sess[i].slot = t
  BY <1>8 DEF Logout, LoggedOut, LogsOut
<1>. QED
  BY <1>8, <1>9

LEMMA LogoutIsWipe ==
  ASSUME TypeOK, HeapInv, NEW j \in Sessions, NEW t \in Slots, Logout(j, t)
  PROVE  Wiped(t)
<1>1. held'[t] = NoRes /\ ~pin'[t]
  BY DEF Logout, TypeOK
<1>2. \A i \in SlotSessions(t) : sess'[i].op = NoOps
  BY DEF Logout, LoggedOut, SlotSessions, TypeOK, Session
<1>3. ASSUME NEW h \in Handles, keys'[h].slot = t, keys'[h].class = "key",
             keys'[h].backend = OwnBackend(t), ~KeepsKeys(t)
      PROVE  FALSE
  <2>1. CASE keys' = Swept(t)
    BY <1>3, <2>1, CryptokiAssumption DEF Swept, FreeEntry, NewObject
  <2>2. CASE UNCHANGED keys /\ Proto[t] # "soft" /\ held[t] = NoRes
    <3>1. OwnBackend(t) \in {"usb", "ks", "hsm"}
      BY <2>2 DEF OwnBackend, BackendOf
    <3>. QED
      BY <1>3, <2>2, <3>1 DEF HeapInv, Attached
  <2>. QED
    BY <1>3, <2>1, <2>2 DEF Logout, KeepsKeys
<1>. QED
  BY <1>1, <1>2, <1>3 DEF Wiped

(* C_Logout leaves no key, connection, PIN or operation of the login behind, *)
(* whatever came before it: failed logins, sessions closed without a logout, *)
(* objects generated or imported in between.  A soft token without a        *)
(* keystore path, whose logins bring no keys, keeps those it has.           *)
THEOREM LogoutWipesAll == Spec => LogoutWipes
<1>1. ASSUME TypeOK, HeapInv, Next, NEW i \in Sessions, LogsOut(i)
      PROVE  Wiped(sess[i].slot)
  <2>1. sess[i].slot \in Slots
    BY <1>1 DEF LogsOut, Open, TypeOK, Session
  <2>. QED
    BY <1>1, <2>1, OnlyLogoutLogsOut, LogoutIsWipe
<1>2. TypeOK /\ HeapInv /\ [Next]_vars =>
        [\A i \in Sessions :
           /\ Open(i) /\ sess[i].user # "none"
           /\ sess'[i].slot = sess[i].slot /\ sess'[i].user = "none"
           => LET t == sess[i].slot
              IN  /\ held'[t] = NoRes /\ ~pin'[t]
                  /\ \A j \in SlotSessions(t) : sess'[j].op = NoOps
                  /\ \A h \in Handles :
                       /\ keys'[h].slot = t /\ keys'[h].class = "key"
                       /\ keys'[h].backend = OwnBackend(t)
                       => KeepsKeys(t)]_vars
  BY <1>1 DEF LogsOut, Wiped
<1>. QED
  BY <1>2, TypeCorrect, HeapCorrect, PTL DEF Spec, LogoutWipes

-----------------------------------------------------------------------------
(* Operations and their keys.  A session may start an operation on an       *)
(* object of another slot, or derive a key from one, and the call that      *)
(* takes that object away looks at the sessions of its own slot only        *)
(* (OpsHaveKeys fails, run stale_op).  C_GetAttributeValue states the rule  *)
(* that C_SignInit and C_DeriveKey do not check, "object handles are        *)
(* slot-scoped".  OwnKeys is an application that keeps the rule: the key of *)
(* an operation it starts is its own slot's, and so is the base of a key it *)
(* derives.                                                                 *)
OwnKeys ==
  /\ \A i \in Sessions, k \in OpKinds :
       sess'[i].op[k] \notin {NoKey, sess[i].op[k]} =>
         keys[sess'[i].op[k]].slot = sess[i].slot
  /\ \A h \in Handles :
       /\ keys'[h] # keys[h]
       /\ keys'[h].class = "secret" /\ keys'[h].backend # "none"
       => \E b \in Handles : /\ keys[b].class = "key"
                             /\ keys[b].slot = keys'[h].slot
                             /\ keys[b].backend = keys'[h].backend

(* Every key of the soft token's keystore file decodes and finds a free     *)
(* entry of the object table.  When one does not, the failing C_Login       *)
(* clears the slot's soft keys, the public ones too that sessions which are *)
(* not logged in may be using.                                              *)
KeysLoad == \A i \in Sessions, t \in Slots : ~LoginSoftDrops(i, t)

(* C_GenerateKeyPair for an occupied PIV slot replaces the key on the card  *)
(* under every operation on the object that stands for it.  The application *)
(* does so only when no operation is active on the object.                  *)
NoRenewal ==
  \A i \in Sessions, k \in OpKinds :
    \A j \in Sessions, t \in Slots : ~RenewOnPiv(j, t, sess[i].op[k])

(* An object of its slot's own backend is what a failing C_Login of that    *)
(* slot would clear.  No operation is then active on it: a keystore's       *)
(* objects need a login, those of a token or a server a connection.         *)
Backed(o) ==
  o.slot \in Slots /\ o.backend = OwnBackend(o.slot) =>
    /\ o.backend = "ks" => o.private
    /\ o.backend \in {"usb", "hsm"} => held[o.slot] # NoRes

OpsInv ==
  /\ \A i \in Sessions, k \in OpKinds :
       sess[i].op[k] # NoKey =>
         LET o == keys[sess[i].op[k]]
         IN  /\ o.slot = sess[i].slot /\ o.slot \in Slots
             /\ o.private => sess[i].user # "none"
  /\ \A h \in Handles : Backed(keys[h])

LEMMA OpUse ==
  ASSUME TypeOK, OpsInv, NEW i \in Sessions, NEW k \in OpKinds, NEW h,
         h = sess[i].op[k], h # NoKey
  PROVE  /\ h \in Handles /\ InUse(h)
         /\ keys[h].slot = sess[i].slot /\ keys[h].slot \in Slots
         /\ keys[h].private => sess[i].user # "none"
         /\ Backed(keys[h])
<1>1. h \in Handles
  BY DEF TypeOK, Session
<1>. QED
  BY <1>1, CryptokiAssumption DEF OpsInv, InUse

(* What the tables the actions build do to the operations of session i: a   *)
(* session that is closed or logged out has none left.                      *)
LEMMA OpsOfTables ==
  ASSUME TypeOK, NEW t \in Slots, NEW u, NEW i \in Sessions, NEW k \in OpKinds,
         sess' \in {sess, AsUser(t, u), Closed(t), LoggedOut(t)}
  PROVE  \/ sess'[i].op[k] = NoKey
         \/ /\ sess'[i].op[k] = sess[i].op[k] /\ sess'[i].slot = sess[i].slot
            /\ sess[i].slot = t => sess' \in {sess, AsUser(t, u)}
<1>. sess[i] \in Session
  BY DEF TypeOK
<1>1. CASE sess' = sess
  BY <1>1
<1>2. CASE sess' = AsUser(t, u)
  BY <1>2 DEF AsUser, Session
<1>3. CASE sess' = Closed(t)
  BY <1>3 DEF Closed, NoSession, NoOps
<1>4. CASE sess' = LoggedOut(t)
  BY <1>4 DEF LoggedOut, NoOps, Session
<1>. QED
  BY <1>1, <1>2, <1>3, <1>4

(* An operation that is active after a step was active before it, on the    *)
(* same slot, or is one C_*Init just started, with the login it asked for.  *)
Goes(i, k) ==
  /\ sess'[i].slot = sess[i].slot
  /\ \/ sess'[i].op[k] = sess[i].op[k]
     \/ /\ sess[i].op[k] = NoKey /\ sess'[i].user = sess[i].user /\ UNCHANGED keys
        /\ InUse(sess'[i].op[k])
        /\ keys[sess'[i].op[k]].private => sess[i].user # "none"

LEMMA OpsGoOnSlot ==
  ASSUME TypeOK, NEW t \in Slots, SlotStep(t),
         NEW i \in Sessions, NEW k \in OpKinds, sess'[i].op[k] # NoKey
  PROVE  Goes(i, k)
<1>1. CASE UNCHANGED sess \/ sess' = Closed(t)
  BY <1>1, OpsOfTables DEF Goes
<1>2. ASSUME NEW rw \in BOOLEAN, OpenSession(t, rw)
      PROVE  Goes(i, k)
  <2>1. PICK j \in Sessions, u \in Users :
          sess' = [sess EXCEPT ![j] = [slot |-> t, rw |-> rw, user |-> u, op |-> NoOps]]
    BY <1>2 DEF OpenSession
  <2>2. i # j
    BY <2>1 DEF TypeOK, NoOps
  <2>. QED
    BY <2>1, <2>2 DEF Goes, TypeOK
<1>. QED
  BY <1>1, <1>2 DEF SlotStep, TokenArrives, TokenDeparts, CloseAllSessions

LEMMA OpsGoOnSession ==
  ASSUME TypeOK, NEW j \in Sessions, SessionStep(j),
         NEW i \in Sessions, NEW k \in OpKinds, sess'[i].op[k] # NoKey
  PROVE  Goes(i, k)
<1>. sess[i] \in Session /\ sess[j] \in Session
  BY DEF TypeOK
<1>1. CASE CloseSession(j)
  <2>1. i # j
    BY <1>1 DEF CloseSession, TypeOK, NoSession, NoOps
  <2>. QED
    BY <1>1, <2>1 DEF CloseSession, TypeOK, Goes
<1>2. ASSUME NEW h \in Handles, CopyObject(j, h)
      PROVE  Goes(i, k)
  BY <1>2 DEF CopyObject, AddObject, Goes
<1>3. ASSUME NEW h \in Handles, DestroyObject(j, h)
      PROVE  Goes(i, k)
  BY <1>3 DEF DestroyObject, WithoutOpsOn, Goes, Session
<1>4. ASSUME NEW l \in OpKinds, NEW h,
             sess' = [sess EXCEPT ![j].op[l] = h],
             h = NoKey \/ (i = j /\ l = k => Goes(i, k))
      PROVE  Goes(i, k)
  <2>1. CASE i = j /\ l = k
    <3>1. sess'[i].op[k] = h
      BY <1>4, <2>1 DEF TypeOK, Session
    <3>. QED
      BY <1>4, <2>1, <3>1
  <2>2. CASE ~(i = j /\ l = k)
    BY <1>4, <2>2 DEF TypeOK, Session, Goes
  <2>. QED
    BY <2>1, <2>2
<1>5. ASSUME NEW l \in OpKinds, NEW h \in Handles, OpInit(j, l, h), i = j, l = k
      PROVE  Goes(i, k)
  <2>1. sess' = [sess EXCEPT ![i].op[k] = h]
    BY <1>5 DEF OpInit
  <2>2. /\ sess'[i].op[k] = h /\ sess'[i].slot = sess[i].slot
        /\ sess'[i].user = sess[i].user
    BY <2>1 DEF TypeOK, Session
  <2>. QED
    BY <1>5, <2>2 DEF OpInit, Goes
<1>. QED
  BY <1>1, <1>2, <1>3, <1>4, <1>5 DEF SessionStep, OpEnd, OpInit

LEMMA OpsGoOn ==
  ASSUME TypeOK, Next, NEW i \in Sessions, NEW k \in OpKinds,
         sess'[i].op[k] # NoKey
  PROVE  Goes(i, k)
<1>1. CASE Restart
  BY <1>1 DEF Restart, NoSession, NoOps
<1>2. ASSUME NEW j \in Sessions, NEW t \in Slots, CallStep(j, t)
      PROVE  Goes(i, k)
  <2>1. \/ UNCHANGED sess \/ sess' = LoggedOut(t)
        \/ \E u \in Users : sess' = AsUser(t, u)
    BY <1>2
    DEF CallStep, Login, LoginWrongPin, LoginSO, LoginPiv, LoginPivNoRoom, LoginHsm,
        LoginHsmNoRoom, LoginSoft, LoginSoftDrops, LoginKeystore,
        LoginKeystoreNoRoom, LoginFsdir, SecondLoadFails, SecondLoad,
        SecondLoadNoRoom, LoggedIn, Logout, InitPIN, CreateObject, ImportToHsm,
        GenerateKey, GeneratePair, GenerateOnPiv, RenewOnPiv, DeriveKey, AddObject,
        Users
  <2>. QED
    BY <2>1, OpsOfTables DEF Goes
<1>. QED
  BY <1>1, <1>2, OpsGoOnSlot, OpsGoOnSession DEF Next

(* A session with an operation that goes on is logged out by C_Logout only, *)
(* which would have ended the operation.                                    *)
LEMMA OpsStayLoggedIn ==
  ASSUME TypeOK, HeapInv, Next, NEW i \in Sessions, NEW k \in OpKinds,
         sess[i].slot \in Slots, sess[i].user # "none", sess'[i].op[k] # NoKey
  PROVE  sess'[i].user # "none"
<1>. SUFFICES ASSUME sess'[i].user = "none" PROVE FALSE
  OBVIOUS
<1>1. Open(i)
  BY CryptokiAssumption DEF Open
<1>2. LogsOut(i)
  BY <1>1, OpsGoOn DEF LogsOut, Goes
<1>3. sess'[i].op = NoOps
  BY <1>2, OnlyLogoutLogsOut, LogoutIsWipe DEF Wiped, SlotSessions
<1>. QED
  BY <1>3 DEF NoOps

(* The object tables the actions build keep an object in use that is not    *)
(* swept; and one with an operation is not swept by a failing C_Login,      *)
(* which finds nobody logged in and, on a token or server, no connection.   *)
LEMMA InUseKept ==
  ASSUME NEW h \in Handles, InUse(h), NEW t, NEW n, NEW r, NEW o,
         \/ keys'[h] = Populated(t, n, r)[h]
         \/ AddObject(o)
         \/ keys[h].slot # t /\ Sweeps(t)
  PROVE  keys'[h] = keys[h]
<1>1. CASE keys'[h] = Populated(t, n, r)[h]
  BY <1>1 DEF Populated, Claim, FreeHandles
<1>2. CASE AddObject(o)
  BY <1>2 DEF AddObject, IsFirst, FreeHandles
<1>3. CASE keys[h].slot # t /\ Sweeps(t)
  BY <1>3 DEF Sweeps, SweepsAfter, Swept, SweptAfter, Claim, FreeHandles
<1>. QED
  BY <1>1, <1>2, <1>3

LEMMA SweepSparesOps ==
  ASSUME TypeOK, HeapInv, OpsInv, NEW i \in Sessions, NEW k \in OpKinds,
         NEW h, h = sess[i].op[k], h # NoKey,
         NEW j \in Sessions, NEW t \in Slots, MayLogin(j, t),
         SweepsAfter(t), Proto[t] # "soft",
         OwnBackend(t) \in {"usb", "hsm"} => held[t] = NoRes
  PROVE  keys'[h] = keys[h]
<1>1. CASE keys[h].slot # t
  BY <1>1, OpUse, InUseKept DEF Sweeps
<1>2. CASE keys[h].slot = t
  <2>1. ~keys[h].private /\ h \in Handles /\ InUse(h) /\ Backed(keys[h])
    BY <1>2, OpUse DEF MayLogin, Nobody, SlotSessions
  <2>2. OwnBackend(t) \in {"usb", "ks", "hsm"}
    BY CryptokiAssumption DEF OwnBackend, BackendOf
  <2>3. keys[h].backend # OwnBackend(t)
    BY <1>2, <2>1, <2>2 DEF Backed
  <2>. QED
    BY <2>1, <2>3 DEF SweepsAfter, SweptAfter, Claim, FreeHandles
<1>. QED
  BY <1>1, <1>2

(* The step keeps the object of an operation that it does not end.          *)
LEMMA LoginKeepsKeys ==
  ASSUME TypeOK, HeapInv, OpsInv, KeysLoad,
         NEW i \in Sessions, NEW k \in OpKinds, NEW h, h = sess[i].op[k], h # NoKey,
         NEW j \in Sessions, NEW t \in Slots, Login(j, t)
  PROVE  keys'[h] = keys[h]
<1>. h \in Handles /\ InUse(h)
  BY OpUse
<1>. Connected(t)
  BY DEF HeapInv
<1>1. CASE LoginWrongPin(j, t) \/ LoginSO(j, t)
  BY <1>1 DEF LoginWrongPin, LoginSO
<1>2. CASE LoginPiv(j, t)
  <2>1. h \notin Claim(PivKeys)
    BY DEF Claim, FreeHandles
  <2>2. PICK r \in Res, c \in 0..PivKeys :
          keys'[h] = IF h \in Claim(PivKeys + c) \ Claim(PivKeys)
                     THEN NewObject(t, "usb", "cert", keys[h].private, NoRes)
                     ELSE Populated(t, PivKeys, r)[h]
    BY <1>2 DEF LoginPiv
  <2>3. h \notin Claim(PivKeys + c)
    BY DEF Claim, FreeHandles
  <2>. QED
    BY <2>2, <2>3, InUseKept
<1>3. CASE \/ LoginHsm(j, t) \/ LoginSoft(j, t) \/ LoginKeystore(j, t)
  <2>1. \/ UNCHANGED keys
        \/ \E r \in Res \cup {NoRes}, n \in KeyCounts : keys' = Populated(t, n, r)
    BY <1>3 DEF LoginHsm, LoginSoft, LoginKeystore
  <2>. QED
    BY <2>1, InUseKept
<1>4. CASE LoginPivNoRoom(j, t) \/ LoginHsmNoRoom(j, t)
  <2>1. held[t] = NoRes
    BY <1>4 DEF LoginPivNoRoom, LoginHsmNoRoom, Claimed, Connected, TypeOK
  <2>. QED
    BY <1>4, <2>1, SweepSparesOps, FailedLoginSweeps DEF LoginPivNoRoom, LoginHsmNoRoom
<1>5. CASE LoginSoftDrops(j, t)
  BY <1>5 DEF KeysLoad
<1>6. CASE LoginKeystoreNoRoom(j, t)
  BY <1>6, SweepSparesOps, FailedLoginSweeps
  DEF LoginKeystoreNoRoom, OwnBackend, BackendOf
<1>7. CASE LoginFsdir(j, t)
  <2>1. PICK r, q \in Res, n \in KeyCounts :
          \/ SecondLoadFails(t, r, n)
          \/ SecondLoad(t, r, q, n)
          \/ SecondLoadNoRoom(t, r, n)
    BY <1>7 DEF LoginFsdir
  <2>2. CASE SecondLoadFails(t, r, n)
    BY <2>2, InUseKept DEF SecondLoadFails
  <2>3. CASE SecondLoad(t, r, q, n)
    <3>1. h \notin Claim(2 * n)
      BY DEF Claim, FreeHandles
    <3>. QED
      BY <2>3, <3>1, InUseKept DEF SecondLoad
  <2>4. CASE SecondLoadNoRoom(t, r, n)
    <3>1. SweepsAfter(t) /\ MayLogin(j, t) /\ Proto[t] = "fsdir"
      BY <1>7, <2>4, FailedLoginSweeps DEF LoginFsdir
    <3>. QED
      BY <3>1, SweepSparesOps DEF OwnBackend, BackendOf
  <2>. QED
    BY <2>1, <2>2, <2>3, <2>4
<1>. QED
  BY <1>1, <1>2, <1>3, <1>4, <1>5, <1>6, <1>7 DEF Login

LEMMA StepKeepsKeys ==
  ASSUME TypeOK, HeapInv, OpsInv, KeysLoad, Next,
         NEW i \in Sessions, NEW k \in OpKinds, NEW h, h = sess[i].op[k], h # NoKey,
         sess'[i].op[k] = h
  PROVE  keys'[h] = keys[h] \/ \E j \in Sessions, t \in Slots : RenewOnPiv(j, t, h)
<1>. /\ h \in Handles /\ InUse(h)
     /\ keys[h].slot = sess[i].slot /\ keys[h].slot \in Slots
  BY OpUse
<1>1. CASE Restart
  BY <1>1 DEF Restart, NoSession, NoOps
<1>2. ASSUME NEW t \in Slots, sess' \in {Closed(t), LoggedOut(t)},
             UNCHANGED keys \/ keys' = Swept(t)
      PROVE  keys'[h] = keys[h]
  <2>1. sess[i].slot = t => sess'[i].op[k] = NoKey
    <3>. sess[i] \in Session
      BY DEF TypeOK
    <3>1. CASE sess' = Closed(t)
      BY <3>1 DEF Closed, NoSession, NoOps
    <3>2. CASE sess' = LoggedOut(t)
      BY <3>2 DEF LoggedOut, NoOps, Session
    <3>. QED
      BY <1>2, <3>1, <3>2
  <2>. QED
    BY <1>2, <2>1, InUseKept DEF Sweeps
<1>3. ASSUME NEW t \in Slots, SlotStep(t)
      PROVE  keys'[h] = keys[h]
  BY <1>2, <1>3 DEF SlotStep, TokenArrives, TokenDeparts, CloseAllSessions, OpenSession
<1>4. ASSUME NEW j \in Sessions, SessionStep(j)
      PROVE  keys'[h] = keys[h]
  <2>1. ASSUME NEW b \in Handles, DestroyObject(j, b)
        PROVE  keys'[h] = keys[h]
    <3>1. h # b
      BY <2>1 DEF DestroyObject, WithoutOpsOn, TypeOK, Session
    <3>. QED
      BY <2>1, <3>1 DEF DestroyObject, TypeOK
  <2>. QED
    BY <1>4, <2>1, InUseKept DEF SessionStep, CloseSession, CopyObject, OpEnd, OpInit
<1>5. ASSUME NEW j \in Sessions, NEW t \in Slots, CallStep(j, t), ~Login(j, t),
             ~RenewOnPiv(j, t, h)
      PROVE  keys'[h] = keys[h]
  <2>1. CASE Logout(j, t)
    BY <1>2, <2>1 DEF Logout
  <2>2. ASSUME NEW p \in BOOLEAN, GeneratePair(j, t, p)
        PROVE  keys'[h] = keys[h]
    BY <2>2 DEF GeneratePair, Claim, FreeHandles
  <2>3. ASSUME NEW g \in Handles, RenewOnPiv(j, t, g)
        PROVE  keys'[h] = keys[h]
    BY <1>5, <2>3 DEF RenewOnPiv, TypeOK
  <2>. QED
    BY <1>5, <2>1, <2>2, <2>3, InUseKept
    DEF CallStep, InitPIN, CreateObject, ImportToHsm, GenerateKey, GenerateOnPiv, DeriveKey
<1>. QED
  BY <1>1, <1>3, <1>4, <1>5, LoginKeepsKeys DEF Next

(* Objects stay backed.                                                     *)
HeldElsewhere(t) == \A u \in Slots \ {t} : held'[u] = held[u]

LEMMA OwnBackends ==
  ASSUME NEW t \in Slots
  PROVE  /\ OwnBackend(t) \in {"soft", "usb", "ks", "hsm"}
         /\ OwnBackend(t) = "soft" <=> Proto[t] = "soft"
         /\ OwnBackend(t) = "ks" => Proto[t] \notin {"soft", "piv"}
BY CryptokiAssumption DEF OwnBackend, BackendOf, Protos

LEMMA BackedFrame ==
  ASSUME OpsInv, UNCHANGED held, \A h \in Handles : keys'[h] = keys[h] \/ Backed(keys'[h])
  PROVE  \A h \in Handles : Backed(keys[h])'
BY DEF OpsInv, Backed

LEMMA FreeIsBacked == \A p : Backed(FreeEntry(p)) /\ Backed(FreeEntry(p))'
BY CryptokiAssumption DEF Backed, FreeEntry, NewObject

LEMMA SweptIsBacked ==
  ASSUME OpsInv, NEW t \in Slots, HeldElsewhere(t), Sweeps(t)
  PROVE  \A h \in Handles : Backed(keys[h])'
<1>. SUFFICES ASSUME NEW h \in Handles PROVE Backed(keys[h])'
  OBVIOUS
<1>1. CASE keys'[h] = FreeEntry(FALSE)
  BY <1>1, FreeIsBacked DEF Backed
<1>2. CASE keys'[h] = keys[h] /\ ~(keys[h].slot = t /\ keys[h].backend = OwnBackend(t))
  BY <1>2 DEF Backed, HeldElsewhere, OpsInv
<1>. QED
  BY <1>1, <1>2 DEF Sweeps, SweepsAfter, Swept, SweptAfter

LEMMA FilledIsBacked ==
  ASSUME TypeOK, OpsInv, NEW t \in Slots, HeldElsewhere(t), held'[t] # NoRes \/ Proto[t] = "soft",
         NEW h \in Handles, NEW n, NEW r,
         \/ keys'[h] = Populated(t, n, r)[h]
         \/ keys'[h] = NewObject(t, "usb", "cert", keys[h].private, r)
         \/ keys'[h] = NewObject(t, "ks", "key", TRUE, r)
  PROVE  Backed(keys[h])'
<1>1. CASE keys'[h] = keys[h]
  <2>1. CASE keys[h].slot = t
    BY <1>1, <2>1, OwnBackends DEF Backed, OpsInv
  <2>2. CASE keys[h].slot # t
    BY <1>1, <2>2 DEF Backed, OpsInv, HeldElsewhere
  <2>. QED
    BY <2>1, <2>2
<1>2. CASE keys'[h] = NewObject(t, "usb", "cert", keys[h].private, r)
  BY <1>2, OwnBackends DEF Backed, NewObject
<1>3. CASE keys'[h] = NewObject(t, "ks", "key", TRUE, r)
  BY <1>3 DEF Backed, NewObject
<1>4. CASE h \in Claim(n) /\ keys'[h] = Populated(t, n, r)[h]
  <2>1. PICK p \in BOOLEAN : /\ keys'[h] = NewObject(t, OwnBackend(t), "key", p, r)
                             /\ p \/ Proto[t] \in {"soft", "piv"}
    BY <1>4 DEF Populated, TypeOK, Object
  <2>. QED
    BY <2>1, OwnBackends DEF Backed, NewObject
<1>. QED
  BY <1>1, <1>2, <1>3, <1>4 DEF Populated

LEMMA BackedLogin ==
  ASSUME TypeOK, OpsInv, NEW j \in Sessions, NEW t \in Slots, Login(j, t)
  PROVE  \A h \in Handles : Backed(keys[h])'
<1>. \A r \in Res : r # NoRes
  BY CryptokiAssumption DEF Res, NoRes
<1>0. ASSUME NEW r, held' = [held EXCEPT ![t] = r]
      PROVE  HeldElsewhere(t) /\ held'[t] = r
  BY <1>0 DEF HeldElsewhere, TypeOK
<1>1. CASE UNCHANGED <<keys, held>>
  BY <1>1, BackedFrame
<1>2. CASE LoginPiv(j, t)
  <2>1. PICK r \in Res, c \in 0..PivKeys :
          /\ keys' = [h \in Handles |->
                       IF h \in Claim(PivKeys + c) \ Claim(PivKeys)
                       THEN NewObject(t, "usb", "cert", keys[h].private, NoRes)
                       ELSE Populated(t, PivKeys, r)[h]]
          /\ held' = [held EXCEPT ![t] = r]
    BY <1>2 DEF LoginPiv
  <2>2. HeldElsewhere(t) /\ held'[t] # NoRes
    BY <1>0, <2>1
  <2>3. ASSUME NEW h \in Handles
        PROVE  \/ keys'[h] = NewObject(t, "usb", "cert", keys[h].private, NoRes)
               \/ keys'[h] = Populated(t, PivKeys, r)[h]
    BY <2>1
  <2>. QED
    BY <2>2, <2>3, FilledIsBacked
<1>3. ASSUME NEW r \in Res, NEW n, keys' = Populated(t, n, r),
             held' = [held EXCEPT ![t] = r]
      PROVE  \A h \in Handles : Backed(keys[h])'
  BY <1>0, <1>3, FilledIsBacked
<1>4. CASE LoginHsm(j, t) \/ LoginKeystore(j, t)
  BY <1>1, <1>3, <1>4 DEF LoginHsm, LoginKeystore
<1>5. CASE LoginSoft(j, t) /\ ~UNCHANGED keys
  <2>1. PICK n \in KeyCounts : keys' = Populated(t, n, NoRes)
    BY <1>5 DEF LoginSoft
  <2>2. HeldElsewhere(t) /\ Proto[t] = "soft"
    BY <1>5 DEF LoginSoft, HeldElsewhere
  <2>. QED
    BY <2>1, <2>2, FilledIsBacked
<1>6. CASE \/ LoginPivNoRoom(j, t) \/ LoginHsmNoRoom(j, t)
           \/ LoginSoftDrops(j, t) \/ LoginKeystoreNoRoom(j, t)
  <2>1. SweepsAfter(t) /\ HeldElsewhere(t)
    BY <1>0, <1>6, FailedLoginSweeps
    DEF LoginPivNoRoom, LoginHsmNoRoom, LoginSoftDrops, LoginKeystoreNoRoom, HeldElsewhere
  <2>. QED
    BY <2>1, SweptIsBacked DEF Sweeps
<1>7. CASE LoginFsdir(j, t)
  <2>1. PICK r, q \in Res, n \in KeyCounts :
          \/ SecondLoadFails(t, r, n)
          \/ SecondLoad(t, r, q, n)
          \/ SecondLoadNoRoom(t, r, n)
    BY <1>7 DEF LoginFsdir
  <2>2. CASE SecondLoadFails(t, r, n)
    BY <1>3, <2>2 DEF SecondLoadFails
  <2>3. CASE SecondLoad(t, r, q, n)
    <3>1. HeldElsewhere(t) /\ held'[t] # NoRes
      BY <1>0, <2>3 DEF SecondLoad
    <3>2. ASSUME NEW h \in Handles
          PROVE  \/ keys'[h] = NewObject(t, "ks", "key", TRUE, q)
                 \/ keys'[h] = Populated(t, n, r)[h]
      BY <2>3 DEF SecondLoad
    <3>. QED
      BY <3>1, <3>2, FilledIsBacked
  <2>4. CASE SecondLoadNoRoom(t, r, n)
    BY <1>0, <2>4, SweptIsBacked, FailedLoginSweeps DEF SecondLoadNoRoom, Sweeps
  <2>. QED
    BY <2>1, <2>2, <2>3, <2>4
<1>. QED
  BY <1>1, <1>2, <1>4, <1>5, <1>6, <1>7 DEF Login, LoginWrongPin, LoginSO, LoginSoft

LEMMA BackedCall ==
  ASSUME TypeOK, HeapInv, OpsInv, OwnKeys,
         NEW j \in Sessions, NEW t \in Slots, CallStep(j, t), ~Login(j, t)
  PROVE  \A h \in Handles : Backed(keys[h])'
<1>. NoSlot # t
  BY CryptokiAssumption
<1>1. CASE Logout(j, t)
  <2>1. HeldElsewhere(t) /\ (held[t] = NoRes => UNCHANGED held)
    BY <1>1 DEF Logout, HeldElsewhere, TypeOK
  <2>. QED
    BY <1>1, <2>1, SweptIsBacked, BackedFrame DEF Logout, Sweeps
<1>2. CASE InitPIN(j, t)
  BY <1>2, BackedFrame DEF InitPIN
<1>3. ASSUME NEW o, AddObject(o), Backed(o)
      PROVE  \A h \in Handles : Backed(keys[h])'
  BY <1>3, BackedFrame DEF AddObject, TypeOK
<1>4. ASSUME NEW c, NEW p
      PROVE  Backed(NewObject(t, "none", c, p, NoRes))
  BY OwnBackends DEF Backed, NewObject
<1>5. ASSUME NEW b, NEW c, NEW p, NEW r, held[t] # NoRes \/ b = "soft", b # "ks"
      PROVE  Backed(NewObject(t, b, c, p, r))
  BY <1>5 DEF Backed, NewObject
<1>6. ASSUME NEW p \in BOOLEAN, GeneratePair(j, t, p)
      PROVE  \A h \in Handles : Backed(keys[h])'
  <2>1. (held[t] # NoRes \/ OwnBackend(t) = "soft") /\ OwnBackend(t) # "ks"
    BY <1>6, OwnBackends DEF GeneratePair, OwnBackend, BackendOf
  <2>2. ASSUME NEW h \in Handles PROVE keys'[h] = keys[h] \/ Backed(keys'[h])
    BY <1>5, <1>6, <2>1 DEF GeneratePair
  <2>. QED
    BY <1>6, <2>2, BackedFrame DEF GeneratePair
<1>7. ASSUME NEW b \in Handles, DeriveKey(j, t, b)
      PROVE  \A h \in Handles : Backed(keys[h])'
  <2>. DEFINE o == NewObject(t, keys[b].backend, "secret", FALSE, NoRes)
  <2>1. PICK h \in Handles : ~InUse(h) /\ keys' = [keys EXCEPT ![h] = o]
    BY <1>7 DEF DeriveKey, AddObject, IsFirst, FreeHandles
  <2>2. /\ keys'[h].slot = t /\ keys'[h].class = "secret"
        /\ keys'[h].backend = keys[b].backend /\ keys[h].slot = NoSlot
    BY <2>1 DEF NewObject, InUse, TypeOK
  <2>3. keys[b].backend \in {"soft", "usb", "hsm"} /\ AddObject(o)
    BY <1>7 DEF DeriveKey
  <2>4. PICK a \in Handles : /\ keys[a].class = "key" /\ keys[a].slot = t
                             /\ keys[a].backend = keys[b].backend
    BY <2>2, <2>3 DEF OwnKeys
  <2>5. held[t] # NoRes \/ keys[b].backend = "soft"
    BY <2>3, <2>4 DEF HeapInv, Attached
  <2>. QED
    BY <1>3, <1>5, <2>3, <2>5
<1>8. ASSUME NEW p \in BOOLEAN,
             \/ \E c \in NewClasses : CreateObject(j, t, c, p)
             \/ ImportToHsm(j, t, p) \/ GenerateKey(j, t, p)
      PROVE  \A h \in Handles : Backed(keys[h])'
  BY <1>3, <1>4, <1>5, <1>8 DEF CreateObject, ImportToHsm, GenerateKey
<1>9. CASE GenerateOnPiv(j, t)
  BY <1>3, <1>5, <1>9 DEF GenerateOnPiv
<1>10. ASSUME NEW h \in Handles, RenewOnPiv(j, t, h)
       PROVE  \A g \in Handles : Backed(keys[g])'
  <2>1. ASSUME NEW g \in Handles PROVE Backed(keys'[g])
    <3>1. /\ keys'[g].slot = keys[g].slot /\ keys'[g].backend = keys[g].backend
          /\ keys'[g].private = keys[g].private
      BY <1>10 DEF RenewOnPiv, TypeOK, Object
    <3>. QED
      BY <3>1 DEF Backed, OpsInv
  <2>. QED
    BY <1>10, <2>1, BackedFrame DEF RenewOnPiv
<1>. QED
  BY <1>1, <1>2, <1>6, <1>7, <1>8, <1>9, <1>10 DEF CallStep

LEMMA StepKeepsBacked ==
  ASSUME TypeOK, HeapInv, OpsInv, OwnKeys, Next
  PROVE  \A h \in Handles : Backed(keys[h])'
<1>1. CASE Restart
  BY <1>1, FreeIsBacked DEF Restart, Backed
<1>2. ASSUME NEW t \in Slots, SlotStep(t)
      PROVE  \A h \in Handles : Backed(keys[h])'
  <2>1. CASE TokenDeparts(t)
    <3>1. HeldElsewhere(t) /\ (held[t] = NoRes => UNCHANGED held)
      BY <2>1 DEF TokenDeparts, HeldElsewhere, TypeOK
    <3>. QED
      BY <2>1, <3>1, SweptIsBacked, BackedFrame DEF TokenDeparts, Sweeps
  <2>. QED
    BY <1>2, <2>1, BackedFrame DEF SlotStep, TokenArrives, CloseAllSessions, OpenSession
<1>3. ASSUME NEW j \in Sessions, SessionStep(j)
      PROVE  \A h \in Handles : Backed(keys[h])'
  <2>1. UNCHANGED held
    BY <1>3 DEF SessionStep, CloseSession, CopyObject, AddObject, DestroyObject, OpEnd, OpInit
  <2>2. ASSUME NEW b \in Handles, CopyObject(j, b) \/ DestroyObject(j, b)
        PROVE  \A h \in Handles : keys'[h] = keys[h] \/ Backed(keys'[h])
    BY <2>2, FreeIsBacked DEF CopyObject, AddObject, DestroyObject, OpsInv, TypeOK
  <2>. QED
    BY <1>3, <2>1, <2>2, BackedFrame DEF SessionStep, CloseSession, OpEnd, OpInit
<1>. QED
  BY <1>1, <1>2, <1>3, BackedLogin, BackedCall DEF Next

(* Every active operation is on an object of its session's slot, private    *)
(* only with a login, and every object is backed: inductive with the types, *)
(* the login state and the heap, for an application that keeps to its slot. *)
THEOREM OpsCorrect == Spec /\ [][OwnKeys /\ KeysLoad]_vars => []OpsInv
<1>1. Init => OpsInv
  <2>. SUFFICES ASSUME Init PROVE OpsInv
    OBVIOUS
  <2>1. \A i \in Sessions, k \in OpKinds : sess[i].op[k] = NoKey
    BY DEF Init, NoSession, NoOps
  <2>2. \A h \in Handles : Backed(keys[h])
    BY FreeIsBacked DEF Init
  <2>. QED
    BY <2>1, <2>2 DEF OpsInv
<1>2. ASSUME TypeOK, HeapInv, OpsInv, Next, OwnKeys, KeysLoad
      PROVE  OpsInv'
  <2>. SUFFICES ASSUME NEW i \in Sessions, NEW k \in OpKinds, sess'[i].op[k] # NoKey
                PROVE  LET o == keys'[sess'[i].op[k]]
                       IN  /\ o.slot = sess'[i].slot /\ o.slot \in Slots
                           /\ o.private => sess'[i].user # "none"
    BY <1>2, StepKeepsBacked DEF OpsInv
  <2>1. Goes(i, k)
    BY <1>2, OpsGoOn
  <2>2. CASE sess'[i].op[k] = sess[i].op[k]
    <3>1. /\ keys'[sess[i].op[k]].slot = keys[sess[i].op[k]].slot
          /\ keys'[sess[i].op[k]].private = keys[sess[i].op[k]].private
      <4>1. sess[i].op[k] \in Handles
        BY <1>2, <2>2, OpUse
      <4>. QED
        <5>1. ASSUME NEW j \in Sessions, NEW t \in Slots, RenewOnPiv(j, t, sess[i].op[k])
              PROVE  /\ keys'[sess[i].op[k]].slot = keys[sess[i].op[k]].slot
                     /\ keys'[sess[i].op[k]].private = keys[sess[i].op[k]].private
          BY <1>2, <4>1, <5>1 DEF RenewOnPiv, TypeOK, Object
        <5>2. \/ keys'[sess[i].op[k]] = keys[sess[i].op[k]]
              \/ \E j \in Sessions, t \in Slots : RenewOnPiv(j, t, sess[i].op[k])
          BY <1>2, <2>2, StepKeepsKeys
        <5>. QED
          BY <5>1, <5>2
    <3>2. /\ keys[sess[i].op[k]].slot = sess[i].slot /\ sess[i].slot \in Slots
          /\ keys[sess[i].op[k]].private => sess[i].user # "none"
      BY <1>2, <2>2 DEF OpsInv
    <3>3. sess[i].user # "none" => sess'[i].user # "none"
      BY <1>2, <3>2, OpsStayLoggedIn
    <3>. QED
      BY <2>1, <2>2, <3>1, <3>2, <3>3 DEF Goes
  <2>3. CASE sess'[i].op[k] # sess[i].op[k]
    <3>1. /\ sess'[i].user = sess[i].user /\ UNCHANGED keys /\ InUse(sess'[i].op[k])
          /\ keys[sess'[i].op[k]].private => sess[i].user # "none"
          /\ sess'[i].slot = sess[i].slot
      BY <2>1, <2>3 DEF Goes
    <3>2. keys[sess'[i].op[k]].slot = sess[i].slot
      BY <1>2, <2>3 DEF OwnKeys
    <3>3. sess[i].slot \in Slots
      BY <1>2, <3>1, <3>2 DEF InUse, TypeOK, Session
    <3>. QED
      BY <3>1, <3>2, <3>3
  <2>. QED
    BY <2>2, <2>3
<1>3. TypeOK /\ HeapInv /\ OpsInv /\ [Next]_vars /\ [OwnKeys /\ KeysLoad]_vars => OpsInv'
  <2>1. OpsInv /\ UNCHANGED vars => OpsInv'
    BY DEF OpsInv, Backed, vars
  <2>. QED
    BY <1>2, <2>1
<1>. QED
  BY <1>1, <1>3, TypeCorrect, HeapCorrect, PTL DEF Spec

(* C_Logout and C_DestroyObject, departures, failed logins and the rest     *)
(* leave no operation without its object, on any number of tokens, for      *)
(* applications that use a session's own keys and a keystore file of the    *)
(* soft token that loads.                                                   *)
THEOREM OpsHaveTheirKeys == Spec /\ [][OwnKeys /\ KeysLoad]_vars => []OpsHaveKeys
<1>1. OpsInv => OpsHaveKeys
  BY CryptokiAssumption DEF OpsInv, OpsHaveKeys, InUse
<1>. QED
  BY <1>1, OpsCorrect, PTL

(* The login C_SignInit asked for still holds when the private key is used. *)
THEOREM PrivateOpsAreLoggedIn ==
  Spec /\ [][OwnKeys /\ KeysLoad]_vars => []PrivateOpsLoggedIn
<1>1. OpsInv => PrivateOpsLoggedIn
  BY DEF OpsInv, PrivateOpsLoggedIn
<1>. QED
  BY <1>1, OpsCorrect, PTL

(* From C_*Init to the end of the operation the key neither vanishes nor    *)
(* changes, and its handle goes to no other object: the only call that      *)
(* changes it is a C_GenerateKeyPair for the PIV slot it stands for.        *)
THEOREM OpKeysAreStable ==
  Spec /\ [][OwnKeys /\ KeysLoad /\ NoRenewal]_vars => OpKeyStable
<1>1. TypeOK /\ HeapInv /\ OpsInv /\ [Next]_vars
        /\ [OwnKeys /\ KeysLoad /\ NoRenewal]_vars =>
        [\A i \in Sessions, k \in OpKinds :
           sess[i].op[k] # NoKey /\ sess'[i].op[k] = sess[i].op[k] =>
             keys'[sess[i].op[k]] = keys[sess[i].op[k]]]_vars
  BY StepKeepsKeys DEF NoRenewal
<1>2. [OwnKeys /\ KeysLoad /\ NoRenewal]_vars => [OwnKeys /\ KeysLoad]_vars
  OBVIOUS
<1>. QED
  BY <1>1, <1>2, TypeCorrect, HeapCorrect, OpsCorrect, PTL DEF Spec, OpKeyStable

-----------------------------------------------------------------------------
(* A set of table indices has a first and a last one. *)
LEMMA HasFirst ==
  ASSUME NEW S \in SUBSET Nat, S # {}
  PROVE  \E i \in S : \A j \in S : i <= j
<1>. DEFINE R == {p \in Nat \X Nat : p[1] < p[2]}
<1>1. IsWellFoundedOn(R, Nat)
  BY NatLessThanWellFounded, Zenon DEF OpToRel
<1>2. PICK i \in S : \A j \in S : ~(<<j, i>> \in R)
  BY <1>1, WFMin
<1>3. ASSUME NEW j \in S PROVE i <= j
  <2>1. i \in Nat /\ j \in Nat /\ ~(<<j, i>> \in R)
    BY <1>2
  <2>. QED
    BY <2>1
<1>. QED
  BY <1>3

LEMMA HasLast ==
  ASSUME NEW m \in Nat, NEW S \in SUBSET (0..m), S # {}
  PROVE  \E i \in S : \A j \in S : j <= i
<1>. DEFINE T == {k \in Nat : m - k \in S}
<1>1. T # {}
  <2>1. PICK i \in S : TRUE
    OBVIOUS
  <2>2. m - i \in T
    BY <2>1
  <2>. QED
    BY <2>2
<1>2. PICK k \in T : \A j \in T : k <= j
  BY <1>1, HasFirst
<1>3. ASSUME NEW j \in S PROVE j <= m - k
  <2>1. m - j \in T
    OBVIOUS
  <2>. QED
    BY <1>2, <2>1
<1>. QED
  BY <1>2, <1>3

(* The free entries before entry h. *)
Before(h) == {g \in FreeHandles : g < h}

LEMMA BeforeFields ==
  /\ FreeHandles \in SUBSET Nat /\ IsFiniteSet(FreeHandles)
  /\ Cardinality(FreeHandles) \in Nat
  /\ \A h : IsFiniteSet(Before(h)) /\ Cardinality(Before(h)) \in Nat
  /\ \A h, k \in FreeHandles :
       h < k => Cardinality(Before(h)) < Cardinality(Before(k))
  /\ \A h \in FreeHandles : Cardinality(Before(h)) < Cardinality(FreeHandles)
<1>1. /\ FreeHandles \subseteq 1..MaxKeys /\ MaxKeys \in Nat
  BY CryptokiAssumption DEF FreeHandles, Handles
<1>2. IsFiniteSet(FreeHandles) /\ Cardinality(FreeHandles) \in Nat
  <2>1. IsFiniteSet(1..MaxKeys)
    BY <1>1, FS_Interval
  <2>. QED
    BY <1>1, <2>1, FS_Subset, FS_CardinalityType
<1>3. ASSUME NEW h
      PROVE  IsFiniteSet(Before(h)) /\ Cardinality(Before(h)) \in Nat
  BY <1>2, FS_Subset, FS_CardinalityType DEF Before
<1>4. ASSUME NEW h \in FreeHandles, NEW k \in FreeHandles, h < k
      PROVE  Cardinality(Before(h)) < Cardinality(Before(k))
  <2>1. Before(h) \in SUBSET Before(k)
    <3>1. \A g \in FreeHandles : g < h => g < k
      BY <1>1, <1>4
    <3>. QED
      BY <3>1 DEF Before
  <2>2. h \in Before(k) /\ h \notin Before(h)
    BY <1>1, <1>4 DEF Before
  <2>3. /\ Cardinality(Before(h)) <= Cardinality(Before(k))
        /\ Cardinality(Before(h)) # Cardinality(Before(k))
    BY <1>3, <2>1, <2>2, FS_Subset
  <2>. QED
    BY <1>3, <2>3
<1>5. ASSUME NEW h \in FreeHandles
      PROVE  Cardinality(Before(h)) < Cardinality(FreeHandles)
  <2>1. Before(h) \in SUBSET FreeHandles /\ Before(h) # FreeHandles
    BY <1>1 DEF Before
  <2>. QED
    BY <1>2, <1>3, <2>1, FS_Subset
<1>. QED
  BY <1>1, <1>2, <1>3, <1>4, <1>5

LEMMA NextFree ==
  ASSUME NEW n \in Nat, n < Cardinality(FreeHandles)
  PROVE  \E h \in FreeHandles : /\ Cardinality(Before(h)) = n
                                /\ Before(h) = Claim(n)
                                /\ IsFirst(h, FreeHandles \ Claim(n))
<1>. DEFINE Rest == FreeHandles \ Claim(n)
<1>0. /\ FreeHandles \in SUBSET Nat /\ FreeHandles \in SUBSET (0..MaxKeys) /\ MaxKeys \in Nat
  BY CryptokiAssumption DEF FreeHandles, Handles
<1>1. Claim(n) = {h \in FreeHandles : Cardinality(Before(h)) < n}
  BY DEF Claim, Before
<1>2. Rest # {}
  <2>1. FreeHandles # {}
    BY FS_EmptySet
  <2>2. PICK m \in FreeHandles : \A j \in FreeHandles : j <= m
    BY <1>0, <2>1, HasLast
  <2>3. Before(m) = FreeHandles \ {m}
    <3>1. \A j \in FreeHandles : j < m <=> j # m
      BY <1>0, <2>2
    <3>. QED
      BY <3>1 DEF Before
  <2>4. Cardinality(Before(m)) = Cardinality(FreeHandles) - 1
    BY <2>3, BeforeFields, FS_RemoveElement
  <2>5. m \in Rest
    BY <1>1, <2>4, BeforeFields
  <2>. QED
    BY <2>5
<1>3. PICK h \in Rest : \A j \in Rest : h <= j
  BY <1>0, <1>2, HasFirst
<1>4. IsFirst(h, Rest)
  BY <1>3 DEF IsFirst
<1>5. Cardinality(Before(h)) >= n /\ Cardinality(Before(h)) \in Nat
  BY <1>1, BeforeFields
<1>6. Before(h) = Claim(n)
  <2>1. ASSUME NEW g \in Before(h) PROVE g \in Claim(n)
    BY <1>0, <1>3 DEF Before
  <2>2. ASSUME NEW g \in Claim(n) PROVE g \in Before(h)
    <3>1. g \in FreeHandles /\ Cardinality(Before(g)) < n /\ Cardinality(Before(g)) \in Nat
      BY <1>1, BeforeFields
    <3>2. g # h /\ ~(h < g)
      BY <1>5, <3>1, BeforeFields
    <3>. QED
      BY <1>0, <3>1, <3>2 DEF Before
  <2>. QED
    BY <2>1, <2>2
<1>7. Cardinality(Before(h)) <= n
  <2>1. CASE Before(h) = {}
    BY <2>1, FS_EmptySet
  <2>2. CASE Before(h) # {}
    <3>1. PICK q \in Before(h) : \A j \in Before(h) : j <= q
      <4>1. Before(h) \in SUBSET (0..MaxKeys)
        BY <1>0 DEF Before
      <4>. QED
        BY <1>0, <2>2, <4>1, HasLast
    <3>2. Before(q) = Before(h) \ {q}
      <4>1. q \in FreeHandles /\ q < h /\ h \in FreeHandles
        BY <3>1 DEF Before
      <4>2. \A j \in FreeHandles : j < q <=> j < h /\ j # q
        <5>1. \A j \in FreeHandles : j < h => j <= q
          BY <3>1 DEF Before
        <5>. QED
          BY <1>0, <4>1, <5>1
      <4>. QED
        BY <4>2 DEF Before
    <3>3. Cardinality(Before(q)) = Cardinality(Before(h)) - 1
      <4>1. IsFiniteSet(Before(h)) /\ q \in Before(h)
        BY <3>1, BeforeFields
      <4>. QED
        BY <3>2, <4>1, FS_RemoveElement
    <3>4. Cardinality(Before(q)) < n
      BY <1>1, <1>6, <3>1
    <3>. QED
      BY <1>5, <3>3, <3>4
  <2>. QED
    BY <2>1, <2>2
<1>. QED
  BY <1>4, <1>5, <1>6, <1>7

(* The functions that fill g_keys for a token (ks_slot_populate_keys and    *)
(* its like) look for the first free entry once for each key.  Claim(n) is  *)
(* what n such scans return: n entries, the next of them the first that is  *)
(* free once the others are taken; there is one as long as HasRoom holds.   *)
THEOREM ClaimScans ==
  ASSUME NEW n \in Nat
  PROVE  /\ Claim(0) = {}
         /\ HasRoom(n) => Cardinality(Claim(n)) = n
         /\ HasRoom(n + 1) =>
              \E h \in FreeHandles \ Claim(n) :
                /\ IsFirst(h, FreeHandles \ Claim(n))
                /\ Claim(n + 1) = Claim(n) \cup {h}
<1>0. \A k \in Nat : Claim(k) = {h \in FreeHandles : Cardinality(Before(h)) < k}
  BY DEF Claim, Before
<1>1. Claim(0) = {}
  BY <1>0, BeforeFields
<1>2. ASSUME HasRoom(n) PROVE Cardinality(Claim(n)) = n
  <2>1. CASE n < Cardinality(FreeHandles)
    BY <2>1, NextFree
  <2>2. CASE n = Cardinality(FreeHandles)
    <3>1. Claim(n) = FreeHandles
      BY <1>0, <2>2, BeforeFields
    <3>. QED
      BY <2>2, <3>1
  <2>. QED
    BY <1>2, <2>1, <2>2, BeforeFields DEF HasRoom
<1>3. ASSUME HasRoom(n + 1)
      PROVE  \E h \in FreeHandles \ Claim(n) :
               /\ IsFirst(h, FreeHandles \ Claim(n))
               /\ Claim(n + 1) = Claim(n) \cup {h}
  <2>1. n < Cardinality(FreeHandles)
    BY <1>3, BeforeFields DEF HasRoom
  <2>2. PICK h \in FreeHandles : /\ Cardinality(Before(h)) = n
                                 /\ IsFirst(h, FreeHandles \ Claim(n))
    BY <2>1, NextFree
  <2>3. ASSUME NEW g \in FreeHandles
        PROVE  g \in Claim(n + 1) <=> g \in Claim(n) \/ g = h
    <3>1. Cardinality(Before(g)) = n => g = h
      BY <2>2, BeforeFields
    <3>2. Cardinality(Before(g)) \in Nat
      BY BeforeFields
    <3>. QED
      BY <1>0, <2>2, <3>1, <3>2
  <2>4. Claim(n + 1) \subseteq FreeHandles /\ Claim(n) \subseteq FreeHandles
    BY <1>0
  <2>5. Claim(n + 1) = Claim(n) \cup {h}
    BY <2>3, <2>4, <2>2
  <2>. QED
    BY <2>2, <2>5 DEF IsFirst
<1>. QED
  BY <1>1, <1>2, <1>3
=============================================================================
