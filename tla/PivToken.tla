------------------------------ MODULE PivToken ------------------------------
(***************************************************************************)
(* The conversation with a PIV token: the CCID transport of                *)
(* src/src/wp11_ccid.c and the commands of src/src/wp11_proto_piv.c that   *)
(* C_Login, C_Sign, C_DeriveKey, C_GenerateKeyPair and                     *)
(* wp11_piv_attest_slot make of it.  One thread at a time talks to a       *)
(* token (g_lock); what is uncertain is the reader: a transfer fails, an   *)
(* answer is late, lost or preceded by a request for more time, the card   *)
(* breaks off a long answer or never ends it.                              *)
(*                                                                         *)
(* The card acts between the OUT and the IN transfer and nobody sees when, *)
(* so its answer is put on the wire when the command arrives; an answer    *)
(* that is late is one that is there when the IN transfer fails.  Long     *)
(* answers are numbered parts of one unit of length each.                  *)
(*                                                                         *)
(* Nothing is done to the reader when it is closed or opened: it drops     *)
(* what it holds or keeps it for the next login.  A reader is clean when   *)
(* it held nothing as it was opened.                                       *)
(*                                                                         *)
(* A definition named X_Bad is X with a plausible programming error; no    *)
(* action uses it.  The README says which property each of them breaks.    *)
(***************************************************************************)
EXTENDS Naturals, Sequences

CONSTANTS
  SeqMod,    \* sequence numbers: bSeq is one byte, 256 in the code
  Certs,     \* certificates C_Login asks for: 4 in the code
  MaxParts,  \* bound: parts of an object on the card
  MaxAccum,  \* WP11_PIV_CERT_MAX_LEN
  MaxSlips,  \* bound: times an open reader gets out of step unnoticed
  MaxLeft    \* bound: frames a reader keeps when it is closed

(* An answer could be taken for that of the 256th command after it, if the  *)
(* reader got out of step that often while it is open.                      *)
ASSUME PivAssumption ==
  /\ SeqMod \in Nat /\ MaxSlips \in Nat /\ MaxSlips < SeqMod
  /\ Certs \in Nat /\ MaxParts \in Nat \ {0} /\ MaxAccum \in Nat
  /\ MaxLeft \in Nat

Chained   == {"cert", "attest"}            \* wp11_piv_get_cert, wp11_piv_attest
Simple    == {"sign", "genkey"}            \* also wp11_piv_ecdh
Functions == {"select", "verify"} \cup Chained \cup Simple
StatusWords == {"ok", "more", "wrong length", "refused"}

Frames == [seq : 0..SeqMod - 1, kind : {"data", "wait", "bad"},
           sw : StatusWords, part : 0..MaxParts, fresh : BOOLEAN]
NoFrame == [seq |-> 0, kind |-> "bad", sw |-> "ok", part |-> 0, fresh |-> FALSE]

VARIABLES
  reader,  \* wp11_ccid_ctx: whether it is open, seq, desync; slips counts,
           \* and clean tells how it was opened
  card,    \* PIN verified; parts of the object asked for, the next to send
  wire,    \* frames of the reader that no IN transfer has taken
  todo,    \* the wp11_piv_* functions the PKCS#11 call has still to make
  pin,     \* the PIN given to C_Login is right
  phase,   \* where the function at the head of todo is
  apdu,    \* the command it is at: its first, the repetition, GET RESPONSE
  resp,    \* the answer wp11_ccid_apdu returned
  accum,   \* parts of the object so far
  ret,     \* the last function and whether it returned WP11_PIV_OK
  user     \* C_Login has succeeded

vars == <<reader, card, wire, todo, pin, phase, apdu, resp, accum, ret, user>>

Closed   == [open |-> FALSE, seq |-> 0, desync |-> FALSE, slips |-> 0,
             clean |-> TRUE]
Fresh    == [Closed EXCEPT !.open = TRUE, !.clean = (wire = <<>>)]
NoCard   == [verified |-> FALSE, total |-> 0, next |-> 1]
NoResult == [fn |-> "select", ok |-> FALSE]

Init ==
  /\ reader = Closed
  /\ card = NoCard
  /\ wire = <<>> /\ todo = <<>> /\ pin = FALSE
  /\ phase = "idle" /\ apdu = "first" /\ resp = NoFrame /\ accum = <<>>
  /\ ret = NoResult /\ user = FALSE

-----------------------------------------------------------------------------
(* What the card makes of a command: its next state and its answer.  It     *)
(* drops the rest of a long answer when another command comes.              *)
Reply(c, w, p) == [card |-> c, sw |-> w, part |-> p]
NoObject       == [card EXCEPT !.total = 0, !.next = 1]
Sends(c) ==
  Reply([c EXCEPT !.next = @ + 1], IF c.next = c.total THEN "ok" ELSE "more", c.next)
SendsNothing(c) == Reply(c, "more", 0)

Replies(f) ==
  {Reply(NoObject, "refused", 0)} \cup
  IF apdu = "more"
  THEN {SendsNothing(card)} \cup
       (IF card.next <= card.total THEN {Sends(card)} ELSE {})
  ELSE
    CASE f \in Chained ->
           LET objects == {[card EXCEPT !.total = n, !.next = 1] : n \in 1..MaxParts}
           IN  {Sends(c) : c \in objects} \cup {SendsNothing(c) : c \in objects}
      [] f = "verify" ->
           {Reply([NoObject EXCEPT !.verified = pin],
                  IF pin THEN "ok" ELSE "refused", 0)}
      [] f \in Simple ->
           {Reply(NoObject, "ok", 1), Reply(NoObject, "wrong length", 0),
            SendsNothing(NoObject)}
      [] f = "select" -> {Reply(NoObject, "ok", 0)}

NextSeq_Bad(s) == s + 1

NextSeq(s) == (s + 1) % SeqMod

Stale(w) == [i \in DOMAIN w |-> [w[i] EXCEPT !.fresh = FALSE]]

Frame(k, r) == [seq |-> reader.seq, kind |-> k, sw |-> r.sw, part |-> r.part,
                fresh |-> TRUE]

(* The command reaches the card.  before: what the reader sends first.  The *)
(* answer may be damaged or report a fault, or be lost.                     *)
Arrives(before) ==
  \E r \in Replies(Head(todo)) :
    /\ card' = r.card
    /\ \E after \in {<<>>, <<Frame("data", r)>>, <<Frame("bad", r)>>} :
         wire' = Stale(wire) \o before \o after

Wait == Frame("wait", Reply(card, "ok", 0))

-----------------------------------------------------------------------------
Fatal_Bad == {"select"}

(* The functions whose failure ends C_Login; a certificate is skipped.      *)
Fatal == {"select", "verify"}

(* The function at the head of todo returns; the call goes on with the next *)
(* one.  At the end of C_Login the user is logged in, and at the end of     *)
(* another call still is.                                                   *)
Continue(ok) ==
  /\ ret' = [fn |-> Head(todo), ok |-> ok]
  /\ todo' = Tail(todo)
  /\ apdu' = "first" /\ resp' = NoFrame
  /\ IF Tail(todo) = <<>> THEN phase' = "idle" /\ user' = TRUE
                          ELSE phase' = "send" /\ UNCHANGED user

(* wp11_ccid_close *)
Closes ==
  /\ reader' = Closed
  /\ \E left \in {<<>>, Stale(wire)} : Len(left) <= MaxLeft /\ wire' = left

(* C_Login closes the reader and fails. *)
GiveUp ==
  /\ ret' = [fn |-> Head(todo), ok |-> FALSE]
  /\ todo' = <<>> /\ phase' = "idle"
  /\ apdu' = "first" /\ resp' = NoFrame
  /\ Closes
  /\ UNCHANGED user

(* The function fails and leaves the reader r and the frames w. *)
Fails(r, w) ==
  \/ Head(todo) \in Fatal /\ GiveUp
  \/ Head(todo) \notin Fatal /\ Continue(FALSE) /\ reader' = r /\ wire' = w

-----------------------------------------------------------------------------
(* wp11_ccid_apdu, in two steps: the OUT transfer, then the IN transfer and *)
(* the checks of the frame.                                                 *)
SendRefused ==
  /\ phase = "send" /\ reader.desync
  /\ Fails(reader, wire)
  /\ UNCHANGED <<card, pin, accum>>

Numbered == [reader EXCEPT !.seq = NextSeq(@)]
Slipped  == [Numbered EXCEPT !.slips = @ + 1]

(* An OUT transfer that failed or timed out; the reader may have the        *)
(* command all the same.                                                    *)
SendFails ==
  /\ phase = "send" /\ ~reader.desync
  /\ reader.slips < MaxSlips
  /\ \/ Fails(Slipped, wire) /\ UNCHANGED card
     \/ \E r \in Replies(Head(todo)) :
          /\ card' = r.card
          /\ Fails(Slipped, Append(Stale(wire), Frame("data", r)))
  /\ UNCHANGED <<pin, accum>>

Send ==
  /\ phase = "send" /\ ~reader.desync
  /\ \/ Arrives(<<>>) /\ reader' = Numbered
     \/ /\ reader.slips < MaxSlips
        /\ Arrives(<<Wait>>) /\ reader' = Slipped
  /\ phase' = "receive"
  /\ accum' = IF apdu = "first" THEN <<>> ELSE accum
  /\ ret' = NoResult
  /\ UNCHANGED <<todo, pin, apdu, resp, user>>

ReceiveFails_Bad ==
  /\ phase = "receive"
  /\ Fails(reader, wire)
  /\ UNCHANGED <<card, pin, accum>>

(* No answer in time, a stalled endpoint, no device. *)
ReceiveFails ==
  /\ phase = "receive"
  /\ Fails([reader EXCEPT !.desync = TRUE], wire)
  /\ UNCHANGED <<card, pin, accum>>

Answers(frame) == frame.kind = "data" /\ NextSeq(frame.seq) = reader.seq

ReceiveRejects ==
  /\ phase = "receive" /\ wire # <<>>
  /\ ~Answers(Head(wire))
  /\ Fails(reader, Tail(wire))
  /\ UNCHANGED <<card, pin, accum>>

Receive ==
  /\ phase = "receive" /\ wire # <<>>
  /\ Answers(Head(wire))
  /\ resp' = Head(wire) /\ wire' = Tail(wire)
  /\ phase' = "parse"
  /\ UNCHANGED <<reader, card, todo, pin, apdu, accum, ret, user>>

-----------------------------------------------------------------------------
(* What the PIV functions do with an answer. *)
Parsing(F) == phase = "parse" /\ Head(todo) \in F

Succeeds == Continue(TRUE) /\ UNCHANGED <<reader, card, wire, pin>>

Again(a) ==
  /\ apdu' = a /\ phase' = "send"
  /\ UNCHANGED <<reader, card, wire, todo, pin, resp, ret, user>>

(* wp11_piv_select, wp11_piv_verify_pin, wp11_piv_sign, wp11_piv_ecdh and   *)
(* wp11_piv_generate_key.                                                   *)
Done ==
  /\ Parsing({"select", "verify"} \cup Simple)
  /\ resp.sw = "ok"
  /\ Succeeds /\ UNCHANGED accum

(* 6C xx: the command is sent once more, with the length the card gives. *)
Retry ==
  /\ Parsing(Simple)
  /\ resp.sw = "wrong length" /\ apdu = "first"
  /\ Again("retry") /\ UNCHANGED accum

(* Another status word, a malformed answer or a buffer that is too small. *)
Rejected ==
  /\ Parsing(Functions)
  /\ Fails(reader, wire)
  /\ UNCHANGED <<card, pin, accum>>

(* An empty part adds nothing. *)
Collected == IF resp.part = 0 THEN accum ELSE Append(accum, resp.part)

CollectMore_Bad ==
  /\ Parsing(Chained)
  /\ resp.sw = "more"
  /\ Len(Collected) <= MaxAccum
  /\ accum' = Collected
  /\ Again("more")

(* 61 xx: GET RESPONSE, unless the buffer is full or a GET RESPONSE brought *)
(* nothing; then only Rejected remains.                                     *)
CollectMore ==
  /\ Parsing(Chained)
  /\ resp.sw = "more"
  /\ apdu = "more" => resp.part # 0
  /\ Len(Collected) <= MaxAccum
  /\ accum' = Collected
  /\ Again("more")

CollectLast_Bad ==
  /\ Parsing(Chained)
  /\ resp.sw = "ok" \/ Len(Collected) = MaxAccum
  /\ accum' = Collected
  /\ Succeeds

CollectLast ==
  /\ Parsing(Chained)
  /\ resp.sw = "ok"
  /\ Len(Collected) <= MaxAccum
  /\ accum' = Collected
  /\ Succeeds

-----------------------------------------------------------------------------
(* C_Login opens the reader, selects the application, verifies the PIN and  *)
(* asks for the certificates.                                               *)
Login(right) ==
  /\ phase = "idle" /\ ~user
  /\ reader' = Fresh
  /\ pin' = right
  /\ todo' = <<"select", "verify">> \o [i \in 1..Certs |-> "cert"]
  /\ phase' = "send"
  /\ UNCHANGED <<card, wire, apdu, resp, accum, ret, user>>

Operate(f) ==
  /\ phase = "idle" /\ user
  /\ todo' = <<f>> /\ phase' = "send"
  /\ UNCHANGED <<reader, card, wire, pin, apdu, resp, accum, ret, user>>

Sign        == Operate("sign")
GenerateKey == Operate("genkey")
Attest      == Operate("attest")

(* The object table has no room for the keys of the token: C_Login closes   *)
(* the reader and fails.                                                    *)
LoginNoRoom ==
  /\ phase = "send" /\ ~user
  /\ ret = [fn |-> "verify", ok |-> TRUE]
  /\ GiveUp
  /\ UNCHANGED <<card, pin, accum>>

(* C_Logout closes the reader; the card keeps the PIN verified. *)
Logout ==
  /\ phase = "idle" /\ user
  /\ user' = FALSE /\ ret' = NoResult
  /\ Closes
  /\ UNCHANGED <<card, todo, pin, phase, apdu, resp, accum>>

(* The token is unplugged, and what it holds is lost. *)
Departs ==
  /\ phase = "idle"
  /\ user' = FALSE /\ ret' = NoResult
  /\ reader' = Closed /\ wire' = <<>>
  /\ card' = NoCard
  /\ UNCHANGED <<todo, pin, phase, apdu, resp, accum>>

Caller ==
  \/ \E right \in BOOLEAN : Login(right)
  \/ Sign \/ GenerateKey \/ Attest
  \/ Logout \/ Departs

Host ==
  \/ SendRefused \/ SendFails \/ Send
  \/ ReceiveFails \/ ReceiveRejects \/ Receive
  \/ Done \/ Retry \/ Rejected \/ CollectMore \/ CollectLast
  \/ LoginNoRoom

Next == Caller \/ Host

Spec == Init /\ [][Next]_vars

(* A call that has begun is carried on: every transfer has a timeout.  No   *)
(* fairness is asked of the card or of the caller.                          *)
FairSpec == Spec /\ WF_vars(Host)

-----------------------------------------------------------------------------
(* The fields hold what their types and the bounds allow. *)
TypeOK ==
  /\ reader \in [open : BOOLEAN, seq : 0..SeqMod - 1, desync : BOOLEAN,
                 slips : 0..MaxSlips, clean : BOOLEAN]
  /\ card \in [verified : BOOLEAN, total : 0..MaxParts, next : 1..MaxParts + 1]
  /\ wire \in Seq(Frames)
  /\ todo \in Seq(Functions)
  /\ pin \in BOOLEAN /\ user \in BOOLEAN
  /\ phase \in {"idle", "send", "receive", "parse"}
  /\ apdu \in {"first", "retry", "more"}
  /\ resp \in Frames
  /\ accum \in Seq(1..MaxParts)
  /\ ret \in [fn : Functions, ok : BOOLEAN]

(* An answer that wp11_ccid_apdu hands out is the answer to the command it  *)
(* just sent, whatever answers of this login were late, lost or doubled:    *)
(* if the reader held none of an earlier login when it was opened.          *)
OwnAnswer == phase = "parse" /\ reader.clean => resp.fresh

(* The comment at line 362 of wp11_ccid.c: "the caller must close and       *)
(* reopen the device to resynchronize", as C_Login does.  Reopening sends   *)
(* the reader nothing and starts at number 0 again.                         *)
ReopenResyncs == phase = "parse" => resp.fresh

(* A certificate that is returned is the whole object on the card, its      *)
(* parts in order: nothing is cut off, left out or taken from another.      *)
WholeObject ==
  ret.ok /\ ret.fn \in Chained /\ reader.clean =>
    accum = [i \in 1..card.total |-> i]

(* A user who is logged in has a reader, and has given the card its PIN.    *)
LoginIsVerified == user => reader.open /\ (reader.clean => card.verified)

(* Every call returns, also when the card never says that it is done.       *)
CallReturns == phase # "idle" ~> phase = "idle"
=============================================================================
