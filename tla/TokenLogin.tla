----------------------------- MODULE TokenLogin -----------------------------
(***************************************************************************)
(* What PKCS#11 promises an application of sessions and login: a session   *)
(* is open on one token; who is logged in is a matter of the token, not of *)
(* the session; the SO and a read-only session exclude each other; and the *)
(* login ends with the logout, or with the last session.  Each call        *)
(* concerns one token.                                                     *)
(***************************************************************************)
CONSTANTS Tokens, Ids

VARIABLES
  readOnly, readWrite,  \* the sessions open on each token
  user                  \* who is logged in on it

vars == <<readOnly, readWrite, user>>

Sessions(t) == readOnly[t] \cup readWrite[t]

Init ==
  /\ readOnly  = [t \in Tokens |-> {}]
  /\ readWrite = [t \in Tokens |-> {}]
  /\ user      = [t \in Tokens |-> "none"]

New(i) == \A t \in Tokens : i \notin Sessions(t)

OpenReadOnly(t, i) ==
  /\ New(i) /\ user[t] # "so"
  /\ readOnly' = [readOnly EXCEPT ![t] = @ \cup {i}]
  /\ UNCHANGED <<readWrite, user>>

OpenReadWrite(t, i) ==
  /\ New(i)
  /\ readWrite' = [readWrite EXCEPT ![t] = @ \cup {i}]
  /\ UNCHANGED <<readOnly, user>>

(* One session, or all of a token: by a call or because the token left. *)
Close(t, S) ==
  /\ readOnly'  = [readOnly EXCEPT ![t] = @ \ S]
  /\ readWrite' = [readWrite EXCEPT ![t] = @ \ S]
  /\ user' = IF Sessions(t) \subseteq S THEN [user EXCEPT ![t] = "none"] ELSE user

Login(t, u) ==
  /\ Sessions(t) # {} /\ user[t] = "none"
  /\ u = "so" => readOnly[t] = {}
  /\ user' = [user EXCEPT ![t] = u]
  /\ UNCHANGED <<readOnly, readWrite>>

Logout(t) ==
  /\ user[t] # "none"
  /\ user' = [user EXCEPT ![t] = "none"]
  /\ UNCHANGED <<readOnly, readWrite>>

(* The library is finalized and initialized again. *)
Restart ==
  /\ readOnly'  = [t \in Tokens |-> {}]
  /\ readWrite' = [t \in Tokens |-> {}]
  /\ user'      = [t \in Tokens |-> "none"]

Next ==
  \/ Restart
  \/ \E t \in Tokens :
       \/ \E i \in Ids : OpenReadOnly(t, i) \/ OpenReadWrite(t, i) \/ Close(t, {i})
       \/ Close(t, Ids)
       \/ Login(t, "user") \/ Login(t, "so") \/ Logout(t)

Spec == Init /\ [][Next]_vars
=============================================================================
