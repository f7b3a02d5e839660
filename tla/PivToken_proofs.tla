--------------------------- MODULE PivToken_proofs ---------------------------
(***************************************************************************)
(* The answers of a PIV token are matched with their commands, objects are *)
(* returned whole and a login means a verified PIN: for sequence numbers   *)
(* of any size, any number of certificates and parts, and a reader that    *)
(* held nothing when it was opened and gets out of step less often than    *)
(* there are sequence numbers.  Of a reader that was not clean only Rough  *)
(* is known, which is all that bounds the length of a call.                *)
(***************************************************************************)
EXTENDS PivToken, SequenceTheorems, TLAPS

Cards == [verified : BOOLEAN, total : 0..MaxParts, next : 1..MaxParts + 1]
Readers == [open : BOOLEAN, seq : 0..SeqMod - 1, desync : BOOLEAN,
            slips : 0..MaxSlips, clean : BOOLEAN]

(* The parts of an object up to the n-th. *)
Upto(n) == [i \in 1..n |-> i]

-----------------------------------------------------------------------------
(* Lemmas about sequence numbers and sequences.                             *)
LEMMA ModSmall ==
  \A x \in Nat : /\ x < SeqMod => x % SeqMod = x
                 /\ SeqMod <= x /\ x < SeqMod + SeqMod => x % SeqMod = x - SeqMod
BY PivAssumption

LEMMA NextSeqType ==
  ASSUME NEW s \in 0..SeqMod - 1
  PROVE  NextSeq(s) \in 0..SeqMod - 1
<1>1. SeqMod \in Nat \ {0} /\ s + 1 \in Nat /\ s + 1 <= SeqMod
  BY PivAssumption
<1>. QED
  BY <1>1, ModSmall DEF NextSeq

(* s is the number of the a-th command before that of number n. *)
Behind(s, a, n) == n = (s + a) % SeqMod

LEMMA OneMore ==
  ASSUME NEW s \in 0..SeqMod - 1, NEW a \in 0..SeqMod - 1, NEW n, Behind(s, a, n)
  PROVE  Behind(s, a + 1, NextSeq(n))
<1>1. SeqMod \in Nat \ {0} /\ s + a \in Nat /\ s + a + 1 \in Nat
  BY PivAssumption
<1>2. n = IF s + a < SeqMod THEN s + a ELSE s + a - SeqMod
  BY <1>1, ModSmall DEF Behind
<1>3. n + 1 \in Nat
  BY <1>1, <1>2
<1>4. NextSeq(n) = IF n + 1 < SeqMod THEN n + 1 ELSE n + 1 - SeqMod
  BY <1>1, <1>2, <1>3, ModSmall DEF NextSeq
<1>5. (s + (a + 1)) % SeqMod = IF s + a + 1 < SeqMod THEN s + a + 1
                                                     ELSE s + a + 1 - SeqMod
  BY <1>1, ModSmall
<1>6. NextSeq(n) = (s + (a + 1)) % SeqMod
  BY <1>1, <1>2, <1>4, <1>5
<1>. QED
  BY <1>6 DEF Behind

(* Within SeqMod commands a number comes once. *)
LEMMA OnlyOne ==
  ASSUME NEW s \in 0..SeqMod - 1, NEW a \in 1..SeqMod, Behind(s, a, NextSeq(s))
  PROVE  a = 1
<1>1. SeqMod \in Nat \ {0} /\ s + a \in Nat /\ s + 1 \in Nat
  BY PivAssumption
<1>2. (s + a) % SeqMod = IF s + a < SeqMod THEN s + a ELSE s + a - SeqMod
  BY <1>1, ModSmall
<1>3. (s + 1) % SeqMod = IF s + 1 < SeqMod THEN s + 1 ELSE s + 1 - SeqMod
  BY <1>1, ModSmall
<1>. QED
  BY <1>1, <1>2, <1>3 DEF Behind, NextSeq

LEMMA UptoMore ==
  ASSUME NEW n \in Nat \ {0}
  PROVE  Append(Upto(n - 1), n) = Upto(n)
BY DEF Upto

-----------------------------------------------------------------------------
(* The functions of a call are made in the order C_Login has them: nothing  *)
(* comes after the PIN that ends the login, and no other call verifies one. *)
Harmless(k) == \A i \in k..Len(todo) : todo[i] \notin Fatal

Shape ==
  /\ phase = "idle" <=> todo = <<>>
  /\ \/ Harmless(1)
     \/ ~user /\ Len(todo) >= 1 /\ todo[1] = "verify" /\ Harmless(2)
     \/ ~user /\ Len(todo) >= 2 /\ todo[1] = "select" /\ todo[2] = "verify" /\ Harmless(3)
  /\ apdu = "more"  => todo # <<>> /\ Head(todo) \in Chained
  /\ apdu = "retry" => todo # <<>> /\ Head(todo) \in Simple

(* A call has a reader, and only a call leaves a result of success. *)
Reading ==
  /\ user \/ phase # "idle" => reader.open
  /\ ~user /\ phase = "idle" => ~ret.ok

Rough == TypeOK /\ Shape /\ Reading

(* Past the PIN the card has verified it; so it has when it says so. *)
Says(frame) == frame.kind = "data" /\ frame.sw = "ok"

Verified ==
  /\ user \/ (phase # "idle" /\ Harmless(1)) => card.verified
  /\ phase = "receive" /\ Head(todo) = "verify" =>
       \A i \in 1..Len(wire) : wire[i].fresh /\ Says(wire[i]) => card.verified
  /\ phase = "parse" /\ Head(todo) = "verify" /\ resp.sw = "ok" => card.verified

(* Every frame on the wire answers one of the last commands, the i-th one   *)
(* of the last slips + 1 - i: a reader in step leaves no frame behind, and  *)
(* each time it slips there can be one more.                                *)
Recent(frame, n) == \E a \in 1..n : Behind(frame.seq, a, reader.seq)

Awaited(frame, n) ==
  \E a \in 1..n : Behind(frame.seq, a, reader.seq) /\ (a = 1 => frame.fresh)

InStep ==
  /\ ~reader.desync /\ phase # "receive" =>
       \A i \in 1..Len(wire) : Recent(wire[i], reader.slips + 1 - i)
  /\ phase = "receive" =>
       /\ ~reader.desync
       /\ \A i \in 1..Len(wire) : Awaited(wire[i], reader.slips + 2 - i)
  /\ phase = "parse" => resp.fresh

(* What an answer with part p and status w says of the object on the card,  *)
(* of which acc has been collected.                                         *)
Holds(c, w, p, acc) ==
  /\ w \in {"ok", "more"} =>
       IF p = 0 THEN acc = Upto(c.next - 1) ELSE c.next = p + 1 /\ acc = Upto(p - 1)
  /\ w = "ok" => p # 0 /\ p = c.total

Whole ==
  /\ ret.ok /\ ret.fn \in Chained => accum = Upto(card.total)
  /\ phase \in {"receive", "parse"} => ~ret.ok
  /\ phase = "send" /\ apdu = "more" => accum = Upto(card.next - 1)
  /\ phase = "receive" /\ Head(todo) \in Chained =>
       \A i \in 1..Len(wire) :
         wire[i].fresh /\ wire[i].kind = "data" =>
           Holds(card, wire[i].sw, wire[i].part, accum)
  /\ phase = "parse" /\ Head(todo) \in Chained =>
       Holds(card, resp.sw, resp.part, accum)

Good == Verified /\ InStep /\ Whole

PivInv == Rough /\ (reader.open /\ reader.clean => Good)

-----------------------------------------------------------------------------
(* The function at the head of todo returns and the call goes on. *)
LEMMA TodoTail ==
  ASSUME todo \in Seq(Functions), todo # <<>>
  PROVE  /\ Head(todo) \in Functions /\ Head(todo) = todo[1]
         /\ Tail(todo) \in Seq(Functions) /\ Len(Tail(todo)) = Len(todo) - 1
         /\ \A i \in 1..Len(todo) - 1 : Tail(todo)[i] = todo[i + 1]
         /\ Len(todo) \in Nat \ {0}
OBVIOUS

LEMMA NoFrameType == NoFrame \in Frames
BY PivAssumption DEF NoFrame, Frames, StatusWords

LEMMA NoResultType == NoResult \in [fn : Functions, ok : BOOLEAN]
BY DEF NoResult, Functions

LEMMA ClosedType == Closed \in Readers /\ ~Closed.open
<1>1. 0 \in 0..SeqMod - 1 /\ 0 \in 0..MaxSlips
  BY PivAssumption
<1>. QED
  BY <1>1 DEF Closed, Readers

LEMMA FreshType ==
  /\ Fresh \in Readers /\ Fresh.open /\ ~Fresh.desync /\ Fresh.slips = 0
  /\ Fresh.clean <=> wire = <<>>
BY ClosedType DEF Closed, Fresh, Readers

LEMMA StaleType ==
  ASSUME wire \in Seq(Frames)
  PROVE  Stale(wire) \in Seq(Frames)
<1>1. \A i \in 1..Len(wire) : wire[i] \in Frames /\ DOMAIN wire = 1..Len(wire)
  OBVIOUS
<1>2. ASSUME NEW g \in Frames
      PROVE  [g EXCEPT !.fresh = FALSE] \in Frames
  BY DEF Frames
<1>. QED
  BY <1>1, <1>2 DEF Stale

LEMMA ClosesType ==
  ASSUME wire \in Seq(Frames), Closes
  PROVE  reader' \in Readers /\ ~reader'.open /\ wire' \in Seq(Frames)
<1>1. wire' \in {<<>>, Stale(wire)} /\ reader' = Closed
  BY DEF Closes
<1>2. wire' \in Seq(Frames)
  <2>1. Stale(wire) \in Seq(Frames) /\ <<>> \in Seq(Frames)
    BY StaleType
  <2>. QED
    BY <1>1, <2>1
<1>. QED
  BY <1>1, <1>2, ClosedType

LEMMA GivenUp ==
  ASSUME Rough, phase # "idle", ~user, GiveUp, card' \in Cards,
         UNCHANGED <<pin, accum>>
  PROVE  Rough' /\ ~reader'.open
<1>1. /\ todo' = <<>> /\ phase' = "idle" /\ apdu' = "first" /\ resp' = NoFrame
      /\ Closes /\ ~user' /\ user' = user
      /\ ret' = [fn |-> Head(todo), ok |-> FALSE]
  BY DEF GiveUp
<1>2. Head(todo) \in Functions
  BY TodoTail DEF Rough, TypeOK, Shape
<1>3. reader' \in Readers /\ ~reader'.open /\ wire' \in Seq(Frames)
  BY <1>1, ClosesType DEF Rough, TypeOK
<1>4. TypeOK'
  BY <1>1, <1>2, <1>3, NoFrameType DEF Rough, TypeOK, Cards, Readers
<1>5. Shape' /\ Reading'
  BY <1>1 DEF Shape, Harmless, Reading
<1>. QED
  BY <1>3, <1>4, <1>5 DEF Rough

(* What the functions that are left are. *)
LEMMA NextFunction ==
  ASSUME Rough, phase # "idle", NEW ok \in BOOLEAN, Continue(ok)
  PROVE  /\ todo \in Seq(Functions) /\ todo # <<>>
         /\ Head(todo) \in Functions /\ Head(todo) = todo[1]
         /\ todo' \in Seq(Functions) /\ Len(todo') = Len(todo) - 1
         /\ Len(todo) \in Nat \ {0}
         /\ ret' = [fn |-> Head(todo), ok |-> ok] /\ apdu' = "first"
         /\ resp' = NoFrame
         /\ todo' = <<>> => phase' = "idle" /\ user'
         /\ todo' # <<>> => phase' = "send" /\ user' = user
         /\ phase' \in {"idle", "send"} /\ user' \in BOOLEAN
         /\ Head(todo) \notin Fatal => Harmless(1) /\ Harmless(1)'
         /\ Head(todo) = "verify" => Harmless(1)'
         /\ Head(todo) = "select" =>
              /\ ~user /\ ~user' /\ Len(todo') >= 1 /\ todo'[1] = "verify"
              /\ Harmless(2)' /\ ~Harmless(1)'
<1>1. /\ ret' = [fn |-> Head(todo), ok |-> ok] /\ todo' = Tail(todo)
      /\ apdu' = "first" /\ resp' = NoFrame
      /\ todo' = <<>> => phase' = "idle" /\ user'
      /\ todo' # <<>> => phase' = "send" /\ user' = user
      /\ todo' = <<>> => user' = TRUE
  BY DEF Continue
<1>2. /\ todo \in Seq(Functions) /\ todo # <<>>
      /\ Head(todo) \in Functions /\ Head(todo) = todo[1]
      /\ todo' \in Seq(Functions) /\ Len(todo') = Len(todo) - 1
      /\ \A i \in 1..Len(todo) - 1 : todo'[i] = todo[i + 1]
      /\ Len(todo) \in Nat \ {0}
  BY <1>1, TodoTail DEF Rough, TypeOK, Shape
<1>3. phase' \in {"idle", "send"} /\ user' \in BOOLEAN
  BY <1>1 DEF Rough, TypeOK
<1>4. /\ Head(todo) \notin Fatal => Harmless(1) /\ Harmless(1)'
      /\ Head(todo) = "verify" => Harmless(1)'
      /\ Head(todo) = "select" =>
           /\ ~user /\ ~user' /\ Len(todo') >= 1 /\ todo'[1] = "verify"
           /\ Harmless(2)' /\ ~Harmless(1)'
  <2>1. CASE Harmless(1)
    BY <1>2, <2>1 DEF Harmless, Fatal
  <2>2. CASE ~user /\ Len(todo) >= 1 /\ todo[1] = "verify" /\ Harmless(2)
    BY <1>2, <2>2 DEF Harmless, Fatal
  <2>3. CASE /\ ~user /\ Len(todo) >= 2 /\ todo[1] = "select" /\ todo[2] = "verify"
             /\ Harmless(3)
    <3>1. Len(todo') >= 1 /\ todo'[1] = "verify" /\ todo' # <<>>
      BY <1>2, <2>3
    <3>2. Harmless(2)'
      BY <1>2, <2>3 DEF Harmless
    <3>3. ~Harmless(1)'
      BY <1>2, <3>1 DEF Harmless, Fatal
    <3>. QED
      BY <1>1, <1>2, <2>3, <3>1, <3>2, <3>3 DEF Fatal
  <2>. QED
    BY <2>1, <2>2, <2>3 DEF Rough, Shape
<1>. QED
  BY <1>1, <1>2, <1>3, <1>4

LEMMA ProceedsRough ==
  ASSUME Rough, phase # "idle", NEW ok \in BOOLEAN, Continue(ok),
         reader' \in Readers, reader'.open, wire' \in Seq(Frames), card' \in Cards,
         pin' = pin, accum' \in Seq(1..MaxParts)
  PROVE  Rough'
<1>1. TypeOK'
  <2>1. /\ todo' \in Seq(Functions) /\ apdu' = "first" /\ resp' = NoFrame
        /\ phase' \in {"idle", "send"} /\ user' \in BOOLEAN
        /\ ret' = [fn |-> Head(todo), ok |-> ok] /\ Head(todo) \in Functions
    BY NextFunction
  <2>. QED
    BY <2>1, NoFrameType DEF Rough, TypeOK, Cards, Readers
<1>2. Shape'
  BY NextFunction DEF Shape, Fatal, Functions
<1>3. Reading'
  BY NextFunction DEF Reading
<1>. QED
  BY <1>1, <1>2, <1>3 DEF Rough

LEMMA ProceedsGood ==
  ASSUME Rough, Good, phase # "idle", NEW ok \in BOOLEAN, Continue(ok),
         card.verified => card'.verified,
         \/ Head(todo) \notin Fatal
         \/ Head(todo) = "select" /\ ok
         \/ Head(todo) = "verify" /\ ok /\ card'.verified,
         ok /\ Head(todo) \in Chained => accum' = Upto(card'.total),
         reader'.desync \/ \A i \in 1..Len(wire') : Recent(wire[i], reader.slips + 1 - i)'
  PROVE  Good'
<1>1. Verified'
  <2>1. CASE Head(todo) \notin Fatal
    BY <2>1, NextFunction DEF Good, Verified
  <2>2. CASE Head(todo) = "select"
    BY <2>2, NextFunction DEF Verified
  <2>3. CASE Head(todo) = "verify"
    BY <2>3, NextFunction DEF Verified, Fatal
  <2>. QED
    BY <2>1, <2>2, <2>3 DEF Fatal
<1>2. InStep'
  BY NextFunction DEF InStep
<1>3. Whole'
  BY NextFunction DEF Whole
<1>. QED
  BY <1>1, <1>2, <1>3 DEF Good

-----------------------------------------------------------------------------
(* The answers of the card. *)
Reply3 == [card : Cards, sw : StatusWords, part : 0..MaxParts]

LEMMA NoObjectFields ==
  ASSUME card \in Cards
  PROVE  /\ NoObject \in Cards /\ NoObject.verified = card.verified
         /\ NoObject.next = 1
<1>1. 0 \in 0..MaxParts /\ 1 \in 1..MaxParts + 1
  BY PivAssumption
<1>. QED
  BY <1>1 DEF Cards, NoObject

LEMMA ObjectFields ==
  ASSUME card \in Cards, NEW n \in 1..MaxParts, NEW c,
         c = [card EXCEPT !.total = n, !.next = 1]
  PROVE  /\ c \in Cards /\ c.verified = card.verified
         /\ c.next = 1 /\ c.total = n
<1>1. n \in 0..MaxParts /\ 1 \in 1..MaxParts + 1
  BY PivAssumption
<1>. QED
  BY <1>1 DEF Cards

LEMMA UptoNone == Upto(0) = <<>>
BY DEF Upto

LEMMA SendsFields ==
  ASSUME NEW c \in Cards, c.next <= c.total
  PROVE  /\ Sends(c) \in Reply3 /\ Sends(c).card.verified = c.verified
         /\ Sends(c).card.next = c.next + 1 /\ Sends(c).card.total = c.total
         /\ Sends(c).part = c.next /\ (Sends(c).sw = "ok" => c.next = c.total)
         /\ Sends(c).sw \in {"ok", "more"}
<1>1. [c EXCEPT !.next = @ + 1] \in Cards
  BY PivAssumption DEF Cards
<1>2. c.next \in 0..MaxParts
  BY PivAssumption DEF Cards
<1>3. (IF c.next = c.total THEN "ok" ELSE "more") \in StatusWords
  BY DEF StatusWords
<1>4. Sends(c) \in Reply3
  BY <1>1, <1>2, <1>3 DEF Sends, Reply, Reply3
<1>. QED
  BY <1>4, <1>1 DEF Sends, Reply, Cards

LEMMA SendsNothingFields ==
  ASSUME NEW c \in Cards
  PROVE  /\ SendsNothing(c) \in Reply3 /\ SendsNothing(c).card = c
         /\ SendsNothing(c).part = 0 /\ SendsNothing(c).sw = "more"
BY PivAssumption DEF SendsNothing, Reply, Reply3, StatusWords

(* What the card answers to a command, whatever state it is in. *)
LEMMA RepliesAre ==
  ASSUME TypeOK, NEW f \in Functions, NEW r \in Replies(f)
  PROVE  /\ r \in Reply3
         /\ f = "verify" /\ apdu # "more" /\ r.sw = "ok" => r.card.verified
         /\ f # "verify" \/ apdu = "more" => r.card.verified = card.verified
         /\ f \in Chained /\ apdu # "more" =>
              Holds(r.card, r.sw, r.part, <<>>)
         /\ \A acc : apdu = "more" /\ acc = Upto(card.next - 1) =>
              Holds(r.card, r.sw, r.part, acc)
<1>. DEFINE P == /\ r \in Reply3
                 /\ f = "verify" /\ apdu # "more" /\ r.sw = "ok" => r.card.verified
                 /\ f # "verify" \/ apdu = "more" => r.card.verified = card.verified
                 /\ f \in Chained /\ apdu # "more" =>
                      Holds(r.card, r.sw, r.part, <<>>)
                 /\ \A acc : apdu = "more" /\ acc = Upto(card.next - 1) =>
                      Holds(r.card, r.sw, r.part, acc)
<1>1. /\ card \in Cards /\ NoObject \in Cards
      /\ NoObject.verified = card.verified /\ NoObject.next = 1
      /\ 0 \in 0..MaxParts /\ 1 \in 0..MaxParts
  BY NoObjectFields, PivAssumption DEF TypeOK, Cards
<1>2. ASSUME NEW w \in {"refused", "ok", "wrong length"}, NEW p \in {0, 1},
             r = Reply(NoObject, w, p), w = "ok" => apdu # "more" /\ f \notin Chained,
             f = "verify" => w # "ok"
      PROVE  P
  <2>1. r.card = NoObject /\ r.sw = w /\ r.part = p /\ r \in Reply3
    BY <1>1, <1>2 DEF Reply, Reply3, StatusWords
  <2>. QED
    BY <1>1, <1>2, <2>1 DEF Holds
<1>3. CASE apdu = "more"
  <2>1. CASE r = SendsNothing(card)
    BY <1>1, <1>3, <2>1, SendsNothingFields DEF Holds
  <2>2. CASE card.next <= card.total /\ r = Sends(card)
    <3>1. card.next \in Nat \ {0}
      BY <1>1 DEF Cards
    <3>. QED
      BY <1>1, <1>3, <2>2, <3>1, SendsFields DEF Holds
  <2>. QED
    BY <1>2, <1>3, <2>1, <2>2 DEF Replies
<1>4. CASE apdu # "more" /\ f \in Chained
  <2>1. ASSUME NEW n \in 1..MaxParts, NEW c,
               c = [card EXCEPT !.total = n, !.next = 1],
               r = Sends(c) \/ r = SendsNothing(c)
        PROVE  P
    <3>1. c \in Cards /\ c.verified = card.verified /\ c.next = 1 /\ c.total = n
      BY <1>1, <2>1, ObjectFields
    <3>2. CASE r = Sends(c)
      <4>1. /\ r \in Reply3 /\ r.card.verified = card.verified
            /\ r.card.next = 2 /\ r.card.total = n
            /\ r.part = 1 /\ (r.sw = "ok" => 1 = n)
        BY <3>1, <3>2, SendsFields
      <4>2. Holds(r.card, r.sw, r.part, <<>>)
        BY <4>1, UptoNone DEF Holds
      <4>. QED
        BY <1>4, <4>1, <4>2 DEF Chained
    <3>3. CASE r = SendsNothing(c)
      <4>1. /\ r \in Reply3 /\ r.card.verified = card.verified
            /\ r.card.next = 1 /\ r.part = 0 /\ r.sw = "more"
        BY <3>1, <3>3, SendsNothingFields
      <4>2. Holds(r.card, r.sw, r.part, <<>>)
        BY <4>1, UptoNone DEF Holds
      <4>. QED
        BY <1>4, <4>1, <4>2 DEF Chained
    <3>. QED
      BY <2>1, <3>2, <3>3
  <2>2. CASE r = Reply(NoObject, "refused", 0)
    BY <1>2, <2>2
  <2>3. \/ r = Reply(NoObject, "refused", 0)
        \/ \E c \in {[card EXCEPT !.total = n, !.next = 1] : n \in 1..MaxParts} :
             r = Sends(c) \/ r = SendsNothing(c)
    BY <1>4 DEF Replies, Chained, Simple
  <2>. QED
    BY <2>1, <2>2, <2>3
<1>5. CASE apdu # "more" /\ f = "verify"
  <2>1. CASE r = Reply([NoObject EXCEPT !.verified = pin],
                       IF pin THEN "ok" ELSE "refused", 0)
    <3>1. [NoObject EXCEPT !.verified = pin] \in Cards
          /\ [NoObject EXCEPT !.verified = pin].verified = pin
      BY <1>1 DEF TypeOK, Cards
    <3>2. r \in Reply3 /\ r.card.verified = pin /\ (r.sw = "ok" => pin)
      BY <1>1, <2>1, <3>1 DEF Reply, Reply3, StatusWords, TypeOK
    <3>. QED
      BY <1>5, <3>2 DEF Chained
  <2>2. CASE r = Reply(NoObject, "refused", 0)
    BY <1>2, <2>2
  <2>3. \/ r = Reply(NoObject, "refused", 0)
        \/ r = Reply([NoObject EXCEPT !.verified = pin],
                     IF pin THEN "ok" ELSE "refused", 0)
    BY <1>5 DEF Replies, Chained, Simple
  <2>. QED
    BY <2>1, <2>2, <2>3
<1>6. CASE apdu # "more" /\ f \in Simple
  <2>1. CASE r = SendsNothing(NoObject)
    BY <1>1, <1>6, <2>1, SendsNothingFields DEF Simple, Chained
  <2>. QED
    BY <1>2, <1>6, <2>1 DEF Replies, Simple, Chained
<1>7. CASE apdu # "more" /\ f = "select"
  BY <1>2, <1>7 DEF Replies, Simple, Chained
<1>. QED
  BY <1>3, <1>4, <1>5, <1>6, <1>7 DEF Functions

-----------------------------------------------------------------------------
(* The wire. *)
LEMMA StaleFields ==
  ASSUME wire \in Seq(Frames)
  PROVE  /\ Stale(wire) \in Seq(Frames) /\ Len(Stale(wire)) = Len(wire)
         /\ \A i \in 1..Len(wire) :
              Stale(wire)[i].seq = wire[i].seq /\ ~Stale(wire)[i].fresh
<1>1. \A i \in 1..Len(wire) : wire[i] \in Frames /\ DOMAIN wire = 1..Len(wire)
  OBVIOUS
<1>2. ASSUME NEW g \in Frames
      PROVE  /\ [g EXCEPT !.fresh = FALSE] \in Frames
             /\ [g EXCEPT !.fresh = FALSE].seq = g.seq
             /\ ~[g EXCEPT !.fresh = FALSE].fresh
  BY DEF Frames
<1>. QED
  BY <1>1, <1>2 DEF Stale

LEMMA FrameFields ==
  ASSUME TypeOK, NEW k \in {"data", "wait", "bad"}, NEW r \in Reply3
  PROVE  /\ Frame(k, r) \in Frames /\ Frame(k, r).seq = reader.seq
         /\ Frame(k, r).kind = k /\ Frame(k, r).fresh
         /\ Frame(k, r).sw = r.sw /\ Frame(k, r).part = r.part
BY DEF TypeOK, Frame, Frames, Reply3

LEMMA WaitFields ==
  ASSUME TypeOK
  PROVE  /\ Wait \in Frames /\ Wait.seq = reader.seq /\ Wait.kind = "wait"
         /\ Wait.fresh
<1>1. Reply(card, "ok", 0) \in Reply3
  BY PivAssumption DEF TypeOK, Reply, Reply3, Cards, StatusWords
<1>. QED
  BY <1>1, FrameFields DEF Wait

LEMMA AtMostOne ==
  ASSUME NEW s \in Seq(Frames), NEW x \in Frames, NEW t \in {<<>>, <<x>>}
  PROVE  /\ s \o t \in Seq(Frames) /\ Len(s \o t) \in {Len(s), Len(s) + 1}
         /\ t = <<>> => Len(s \o t) = Len(s)
         /\ \A i \in 1..Len(s \o t) :
              (s \o t)[i] = IF i <= Len(s) THEN s[i] ELSE x
<1>1. CASE t = <<>>
  <2>1. s \o t = s
    BY <1>1, ConcatEmptySeq
  <2>. QED
    BY <1>1, <2>1
<1>2. CASE t = <<x>>
  <2>1. s \o t = Append(s, x)
    BY <1>2, AppendIsConcat
  <2>. QED
    BY <1>2, <2>1
<1>. QED
  BY <1>1, <1>2

LEMMA Arrived ==
  ASSUME TypeOK, todo # <<>>, NEW before \in {<<>>, <<Wait>>}, Arrives(before)
  PROVE  \E r \in Replies(Head(todo)) :
           /\ card' = r.card /\ wire' \in Seq(Frames)
           /\ Len(wire') <= Len(wire) + (IF before = <<>> THEN 1 ELSE 2)
           /\ \A i \in 1..Len(wire') :
                /\ i <= Len(wire) => wire'[i].seq = wire[i].seq /\ ~wire'[i].fresh
                /\ i > Len(wire) =>
                     /\ wire'[i].seq = reader.seq /\ wire'[i].fresh
                     /\ wire'[i].kind = "data" =>
                          wire'[i].sw = r.sw /\ wire'[i].part = r.part
<1>1. PICK r \in Replies(Head(todo)) :
        /\ card' = r.card
        /\ \E after \in {<<>>, <<Frame("data", r)>>, <<Frame("bad", r)>>} :
             wire' = Stale(wire) \o before \o after
  BY DEF Arrives
<1>2. Head(todo) \in Functions
  BY TodoTail DEF TypeOK
<1>3. r \in Reply3
  BY <1>2, RepliesAre
<1>4. PICK k \in {"data", "bad"} :
        \E after \in {<<>>, <<Frame(k, r)>>} :
          wire' = (Stale(wire) \o before) \o after
  <2>1. PICK after \in {<<>>, <<Frame("data", r)>>, <<Frame("bad", r)>>} :
          wire' = (Stale(wire) \o before) \o after
    BY <1>1
  <2>. QED
    BY <2>1
<1>. DEFINE s == Stale(wire)
            w == s \o before
            x == Frame(k, r)
<1>5. /\ s \in Seq(Frames) /\ Len(s) = Len(wire) /\ Len(wire) \in Nat
      /\ \A i \in 1..Len(wire) : s[i].seq = wire[i].seq /\ ~s[i].fresh
  <2>1. wire \in Seq(Frames)
    BY DEF TypeOK
  <2>. QED
    BY <2>1, StaleFields
<1>6. Wait \in Frames /\ Wait.seq = reader.seq /\ Wait.kind = "wait" /\ Wait.fresh
  BY WaitFields
<1>7. /\ x \in Frames /\ x.seq = reader.seq /\ x.fresh
      /\ x.sw = r.sw /\ x.part = r.part
  BY <1>3, FrameFields
<1>. HIDE DEF s, x
<1>8. /\ w \in Seq(Frames) /\ Len(w) \in {Len(s), Len(s) + 1}
      /\ before = <<>> => Len(w) = Len(s)
      /\ \A i \in 1..Len(w) : w[i] = IF i <= Len(s) THEN s[i] ELSE Wait
  BY <1>5, <1>6, AtMostOne
<1>. HIDE DEF w
<1>9. PICK after \in {<<>>, <<x>>} : wire' = w \o after
  BY <1>4 DEF s, w, x
<1>10. /\ wire' \in Seq(Frames) /\ Len(wire') \in {Len(w), Len(w) + 1}
      /\ \A i \in 1..Len(wire') : wire'[i] = IF i <= Len(w) THEN w[i] ELSE x
  <2>1. /\ w \o after \in Seq(Frames) /\ Len(w \o after) \in {Len(w), Len(w) + 1}
        /\ \A i \in 1..Len(w \o after) :
             (w \o after)[i] = IF i <= Len(w) THEN w[i] ELSE x
    BY <1>7, <1>8, AtMostOne, Zenon
  <2>. QED
    BY <1>9, <2>1
<1>11. Len(wire') <= Len(wire) + (IF before = <<>> THEN 1 ELSE 2)
  BY <1>5, <1>8, <1>10
<1>12. ASSUME NEW i \in 1..Len(wire')
       PROVE  /\ i <= Len(wire) => wire'[i].seq = wire[i].seq /\ ~wire'[i].fresh
              /\ i > Len(wire) =>
                   /\ wire'[i].seq = reader.seq /\ wire'[i].fresh
                   /\ wire'[i].kind = "data" =>
                        wire'[i].sw = r.sw /\ wire'[i].part = r.part
  <2>1. CASE i <= Len(wire)
    <3>1. wire'[i] = s[i]
      BY <1>5, <1>8, <1>10, <2>1
    <3>. QED
      BY <1>5, <2>1, <3>1
  <2>2. CASE i > Len(wire)
    <3>1. wire'[i] \in {Wait, x}
      BY <1>5, <1>8, <1>10, <2>2
    <3>. QED
      BY <1>6, <1>7, <2>2, <3>1
  <2>. QED
    BY <1>5, <2>1, <2>2
<1>. QED
  BY <1>1, <1>10, <1>11, <1>12

-----------------------------------------------------------------------------
(* The numbers of the frames on the wire when a command is numbered. *)
LEMMA Lengths ==
  ASSUME Rough, Good, phase # "receive", ~reader.desync
  PROVE  /\ reader.slips \in 0..MaxSlips /\ reader.slips \in Nat
         /\ Len(wire) \in Nat /\ Len(wire) <= reader.slips
<1>1. reader.slips \in 0..MaxSlips /\ MaxSlips \in Nat /\ Len(wire) \in Nat
  BY PivAssumption DEF Rough, TypeOK
<1>2. CASE Len(wire) > 0
  <2>1. Recent(wire[Len(wire)], reader.slips + 1 - Len(wire))
    BY <1>1, <1>2 DEF Good, InStep
  <2>. QED
    BY <1>1, <2>1 DEF Recent
<1>. QED
  BY <1>1, <1>2

LEMMA Older ==
  ASSUME Rough, Good, phase # "receive", ~reader.desync, NEW i \in 1..Len(wire)
  PROVE  \E a \in 2..reader.slips + 2 - i : Behind(wire[i].seq, a, NextSeq(reader.seq))
<1>1. PICK a \in 1..(reader.slips + 1 - i) : Behind(wire[i].seq, a, reader.seq)
  <2>1. Recent(wire[i], reader.slips + 1 - i)
    BY DEF Good, InStep
  <2>2. ASSUME NEW frame, NEW n, Recent(frame, n)
        PROVE  \E a \in 1..n : Behind(frame.seq, a, reader.seq)
    BY <2>2, Zenon DEF Recent
  <2>. HIDE DEF Recent, Behind
  <2>. QED
    BY <2>1, <2>2, Zenon
<1>2. wire[i] \in Frames /\ wire[i].seq \in 0..SeqMod - 1
  <2>1. wire \in Seq(Frames)
    BY DEF Rough, TypeOK
  <2>2. wire[i] \in Frames
    BY <2>1
  <2>. QED
    BY <2>2 DEF Frames
<1>3. i \in Nat \ {0} /\ Len(wire) \in Nat /\ reader.slips \in 0..MaxSlips
  BY Lengths
<1>4. a \in 0..SeqMod - 1 /\ a + 1 \in 2..reader.slips + 2 - i
  BY <1>3, PivAssumption
<1>5. Behind(wire[i].seq, a + 1, NextSeq(reader.seq))
  BY <1>1, <1>2, <1>4, OneMore
<1>. QED
  BY <1>4, <1>5

LEMMA Newest ==
  ASSUME NEW s
  PROVE  Behind(s, 1, NextSeq(s))
BY DEF Behind, NextSeq

LEMMA NumberedFields ==
  ASSUME TypeOK
  PROVE  /\ Numbered \in Readers /\ Numbered.seq = NextSeq(reader.seq)
         /\ Numbered.open = reader.open /\ Numbered.desync = reader.desync
         /\ Numbered.slips = reader.slips /\ Numbered.clean = reader.clean
         /\ reader.slips < MaxSlips =>
              /\ Slipped \in Readers /\ Slipped.seq = NextSeq(reader.seq)
              /\ Slipped.open = reader.open /\ Slipped.desync = reader.desync
              /\ Slipped.slips = reader.slips + 1 /\ Slipped.clean = reader.clean
<1>1. reader \in Readers /\ NextSeq(reader.seq) \in 0..SeqMod - 1
  BY NextSeqType DEF TypeOK, Readers
<1>2. /\ Numbered \in Readers /\ Numbered.seq = NextSeq(reader.seq)
      /\ Numbered.open = reader.open /\ Numbered.desync = reader.desync
      /\ Numbered.slips = reader.slips /\ Numbered.clean = reader.clean
  BY <1>1 DEF Numbered, Readers
<1>3. CASE reader.slips < MaxSlips
  <2>1. reader.slips + 1 \in 0..MaxSlips
    BY <1>1, <1>3, PivAssumption DEF Readers
  <2>. QED
    BY <1>2, <2>1 DEF Slipped, Readers
<1>. QED
  BY <1>2, <1>3

LEMMA Works ==
  ASSUME Rough, phase # "idle"
  PROVE  /\ reader \in Readers /\ reader.open /\ card \in Cards
         /\ wire \in Seq(Frames) /\ todo # <<>> /\ Head(todo) \in Functions
         /\ accum \in Seq(1..MaxParts)
BY TodoTail DEF Rough, TypeOK, Readers, Cards, Reading, Shape

(* A function that fails. *)
LEMMA FailedRough ==
  ASSUME Rough, phase # "idle", NEW r \in Readers, NEW w \in Seq(Frames),
         Fails(r, w), r.open, card' \in Cards, UNCHANGED <<pin, accum>>
  PROVE  Rough' /\ (reader'.open => reader'.clean = r.clean)
<1>1. CASE Head(todo) \in Fatal /\ GiveUp
  <2>1. ~user
    <3>1. todo # <<>> /\ Head(todo) = todo[1] /\ Len(todo) \in Nat \ {0}
      BY TodoTail DEF Rough, TypeOK, Shape
    <3>2. ~Harmless(1)
      BY <1>1, <3>1 DEF Harmless
    <3>. QED
      BY <3>2 DEF Rough, Shape
  <2>. QED
    BY <1>1, <2>1, GivenUp
<1>2. CASE Head(todo) \notin Fatal /\ Continue(FALSE) /\ reader' = r /\ wire' = w
  <2>1. accum' \in Seq(1..MaxParts)
    BY DEF Rough, TypeOK
  <2>. QED
    BY <1>2, <2>1, ProceedsRough
<1>. QED
  BY <1>1, <1>2 DEF Fails

LEMMA FailedGood ==
  ASSUME Rough, Good, phase # "idle", NEW r, NEW w, Fails(r, w), reader'.open,
         Head(todo) \notin Fatal => card'.verified = card.verified,
         \/ r.desync
         \/ \A i \in 1..Len(w) :
              \E a \in 1..r.slips + 1 - i : Behind(w[i].seq, a, r.seq)
  PROVE  Good'
<1>1. ~GiveUp
  BY ClosedType DEF GiveUp, Closes
<1>2. Head(todo) \notin Fatal /\ Continue(FALSE) /\ reader' = r /\ wire' = w
  BY <1>1 DEF Fails
<1>3. reader'.desync \/ \A i \in 1..Len(wire') : Recent(wire[i], reader.slips + 1 - i)'
  BY <1>2 DEF Recent
<1>. QED
  BY <1>2, <1>3, ProceedsGood

-----------------------------------------------------------------------------
(* Every step keeps the types and the order of the calls, whatever the      *)
(* reader held.                                                             *)
LEMMA SendFailsRough == Rough /\ SendFails => Rough'
<1>. SUFFICES ASSUME Rough, SendFails PROVE Rough'
  OBVIOUS
<1>1. /\ phase = "send" /\ reader.slips < MaxSlips /\ UNCHANGED <<pin, accum>>
  BY DEF SendFails
<1>2. /\ Slipped \in Readers /\ Slipped.open /\ wire \in Seq(Frames)
      /\ card \in Cards /\ Head(todo) \in Functions
  BY <1>1, Works, NumberedFields DEF Rough
<1>3. CASE Fails(Slipped, wire) /\ UNCHANGED card
  BY <1>1, <1>2, <1>3, FailedRough
<1>4. ASSUME NEW r \in Replies(Head(todo)), card' = r.card,
             Fails(Slipped, Append(Stale(wire), Frame("data", r)))
      PROVE  Rough'
  <2>1. r \in Reply3 /\ card' \in Cards
    BY <1>2, <1>4, RepliesAre DEF Rough, Reply3
  <2>2. Append(Stale(wire), Frame("data", r)) \in Seq(Frames)
    BY <1>2, <2>1, StaleType, FrameFields DEF Rough
  <2>. QED
    BY <1>1, <1>2, <1>4, <2>1, <2>2, FailedRough
<1>. QED
  BY <1>3, <1>4 DEF SendFails

LEMMA SendRough == Rough /\ Send => Rough'
<1>. SUFFICES ASSUME Rough, Send PROVE Rough'
  OBVIOUS
<1>1. /\ phase = "send" /\ phase' = "receive"
      /\ accum' = IF apdu = "first" THEN <<>> ELSE accum
      /\ ret' = NoResult /\ UNCHANGED <<todo, pin, apdu, resp, user>>
  BY DEF Send
<1>2. PICK before \in {<<>>, <<Wait>>} :
        Arrives(before) /\ reader' \in Readers /\ reader'.open
  <2>1. CASE Arrives(<<>>) /\ reader' = Numbered
    BY <1>1, <2>1, Works, NumberedFields DEF Rough, Readers
  <2>2. CASE reader.slips < MaxSlips /\ Arrives(<<Wait>>) /\ reader' = Slipped
    BY <1>1, <2>2, Works, NumberedFields DEF Rough
  <2>. QED
    BY <2>1, <2>2 DEF Send
<1>3. PICK r \in Replies(Head(todo)) : card' = r.card /\ wire' \in Seq(Frames)
  BY <1>1, <1>2, Works, Arrived DEF Rough
<1>4. TypeOK'
  <2>1. card' \in Cards
    BY <1>1, <1>3, Works, RepliesAre DEF Rough, Reply3
  <2>2. ret' \in [fn : Functions, ok : BOOLEAN]
    BY <1>1, NoResultType
  <2>3. accum' \in Seq(1..MaxParts)
    <3>1. accum \in Seq(1..MaxParts) /\ <<>> \in Seq(1..MaxParts)
      BY DEF Rough, TypeOK
    <3>. QED
      BY <1>1, <3>1
  <2>. QED
    BY <1>1, <1>2, <1>3, <2>1, <2>2, <2>3 DEF Rough, TypeOK, Cards, Readers
<1>5. Shape' /\ Reading'
  BY <1>1, <1>2 DEF Rough, Shape, Harmless, Reading
<1>. QED
  BY <1>4, <1>5 DEF Rough

LEMMA ReceiveFailsRough == Rough /\ ReceiveFails => Rough'
<1>. SUFFICES ASSUME Rough, ReceiveFails PROVE Rough'
  OBVIOUS
<1>. DEFINE r == [reader EXCEPT !.desync = TRUE]
<1>1. r \in Readers /\ r.open
  BY Works DEF ReceiveFails, Readers
<1>2. Fails(r, wire) /\ phase # "idle" /\ UNCHANGED <<card, pin, accum>>
  BY DEF ReceiveFails
<1>. HIDE DEF r
<1>. QED
  BY <1>1, <1>2, Works, FailedRough

LEMMA TailType ==
  ASSUME wire \in Seq(Frames), wire # <<>>
  PROVE  Head(wire) \in Frames /\ Tail(wire) \in Seq(Frames)
OBVIOUS

LEMMA OthersFailRough == Rough /\ (SendRefused \/ ReceiveRejects \/ Rejected) => Rough'
<1>1. Rough /\ SendRefused => Rough'
  BY Works, FailedRough DEF SendRefused
<1>2. Rough /\ ReceiveRejects => Rough'
  BY Works, TailType, FailedRough DEF ReceiveRejects
<1>3. Rough /\ Rejected => Rough'
  BY Works, FailedRough DEF Rejected, Parsing
<1>. QED
  BY <1>1, <1>2, <1>3

LEMMA ReceiveRough == Rough /\ Receive => Rough'
<1>. SUFFICES ASSUME Rough, Receive PROVE Rough'
  OBVIOUS
<1>1. /\ phase = "receive" /\ wire # <<>>
      /\ resp' = Head(wire) /\ wire' = Tail(wire) /\ phase' = "parse"
      /\ UNCHANGED <<reader, card, todo, pin, apdu, accum, ret, user>>
  BY DEF Receive
<1>2. wire' \in Seq(Frames) /\ resp' \in Frames
  BY <1>1, Works, TailType
<1>3. TypeOK'
  BY <1>1, <1>2 DEF Rough, TypeOK
<1>4. Shape' /\ Reading'
  BY <1>1 DEF Rough, Shape, Harmless, Reading
<1>. QED
  BY <1>3, <1>4 DEF Rough

LEMMA CollectedType == Rough => Collected \in Seq(1..MaxParts)
<1>. SUFFICES ASSUME Rough PROVE Collected \in Seq(1..MaxParts)
  OBVIOUS
<1>1. accum \in Seq(1..MaxParts) /\ resp.part \in 0..MaxParts /\ MaxParts \in Nat
  BY PivAssumption DEF Rough, TypeOK, Frames
<1>2. CASE resp.part = 0
  BY <1>1, <1>2 DEF Collected
<1>3. CASE resp.part # 0
  <2>1. resp.part \in 1..MaxParts
    BY <1>1, <1>3
  <2>. QED
    BY <1>1, <1>3, <2>1 DEF Collected
<1>. QED
  BY <1>2, <1>3

LEMMA SucceedsRough ==
  ASSUME Rough, phase = "parse", Succeeds, accum' \in {accum, Collected}
  PROVE  Rough'
<1>1. Continue(TRUE) /\ UNCHANGED <<reader, card, wire, pin>>
  BY DEF Succeeds
<1>2. accum' \in Seq(1..MaxParts)
  BY Works, CollectedType
<1>. QED
  BY <1>1, <1>2, Works, ProceedsRough

(* Another command of the same function. *)
LEMMA RepeatedRough ==
  ASSUME Rough, phase = "parse", NEW a \in {"retry", "more"}, Again(a),
         a = "retry" => Head(todo) \in Simple,
         a = "more" => Head(todo) \in Chained,
         accum' \in {accum, Collected}
  PROVE  Rough'
<1>1. /\ apdu' = a /\ phase' = "send"
      /\ UNCHANGED <<reader, card, wire, todo, pin, resp, ret, user>>
  BY DEF Again
<1>2. accum' \in Seq(1..MaxParts)
  BY Works, CollectedType
<1>3. TypeOK'
  BY <1>1, <1>2 DEF Rough, TypeOK
<1>4. Shape' /\ Reading'
  BY <1>1 DEF Rough, Shape, Harmless, Reading
<1>. QED
  BY <1>3, <1>4 DEF Rough

LEMMA ParsesRough == Rough /\ (Done \/ Retry \/ CollectMore \/ CollectLast) => Rough'
<1>1. Rough /\ Done => Rough'
  BY SucceedsRough DEF Done, Parsing
<1>2. Rough /\ Retry => Rough'
  BY RepeatedRough DEF Retry, Parsing
<1>3. Rough /\ CollectMore => Rough'
  BY RepeatedRough DEF CollectMore, Parsing
<1>4. Rough /\ CollectLast => Rough'
  BY SucceedsRough DEF CollectLast, Parsing
<1>. QED
  BY <1>1, <1>2, <1>3, <1>4

LEMMA LoginRough ==
  ASSUME Rough, NEW right \in BOOLEAN, Login(right)
  PROVE  /\ Rough' /\ reader' = Fresh /\ phase' = "send" /\ apdu' # "more"
         /\ ~user' /\ ~ret'.ok /\ ~Harmless(1)' /\ Head(todo') = "select"
<1>. DEFINE certs == [i \in 1..Certs |-> "cert"]
<1>1. /\ phase = "idle" /\ ~user /\ reader' = Fresh /\ pin' = right
      /\ todo' = <<"select", "verify">> \o certs /\ phase' = "send"
      /\ UNCHANGED <<card, wire, apdu, resp, accum, ret, user>>
  BY DEF Login
<1>2. /\ certs \in Seq(Functions) /\ Len(certs) \in Nat
      /\ \A i \in 1..Len(certs) : certs[i] = "cert"
  BY PivAssumption DEF Functions, Chained
<1>. HIDE DEF certs
<1>3. /\ <<"select", "verify">> \in Seq(Functions) /\ Len(<<"select", "verify">>) = 2
      /\ <<"select", "verify">>[1] = "select" /\ <<"select", "verify">>[2] = "verify"
  BY DEF Functions
<1>4. /\ todo' \in Seq(Functions) /\ Len(todo') = 2 + Len(certs)
      /\ \A i \in 1..Len(todo') :
           todo'[i] = IF i <= 2 THEN <<"select", "verify">>[i] ELSE certs[i - 2]
  BY <1>1, <1>2, <1>3, ConcatProperties
<1>5. /\ todo' # <<>> /\ Len(todo') >= 2 /\ Head(todo') = "select"
      /\ todo'[1] = "select" /\ todo'[2] = "verify"
      /\ \A i \in 3..Len(todo') : todo'[i] = "cert"
  BY <1>2, <1>3, <1>4
<1>6. TypeOK'
  BY <1>1, <1>4, FreshType DEF Rough, TypeOK, Readers
<1>7. apdu # "more" /\ apdu # "retry"
  BY <1>1 DEF Rough, Shape
<1>8. Shape'
  <2>1. Harmless(3)'
    BY <1>5 DEF Harmless, Fatal
  <2>. QED
    BY <1>1, <1>5, <1>7, <2>1 DEF Shape
<1>9. Reading'
  BY <1>1, FreshType DEF Reading
<1>10. ~Harmless(1)'
  BY <1>5 DEF Harmless, Fatal
<1>11. ~ret'.ok
  BY <1>1 DEF Rough, Reading
<1>. QED
  BY <1>1, <1>5, <1>6, <1>7, <1>8, <1>9, <1>10, <1>11 DEF Rough

LEMMA OperateRough ==
  ASSUME Rough, NEW f \in Simple \cup Chained, Operate(f)
  PROVE  Rough' /\ apdu' # "more"
<1>1. /\ phase = "idle" /\ user /\ todo' = <<f>> /\ phase' = "send"
      /\ UNCHANGED <<reader, card, wire, pin, apdu, resp, accum, ret, user>>
  BY DEF Operate
<1>2. /\ todo' \in Seq(Functions) /\ todo' # <<>> /\ Len(todo') = 1 /\ todo'[1] = f
      /\ f \notin Fatal
  BY <1>1 DEF Functions, Simple, Chained, Fatal
<1>3. apdu # "more" /\ apdu # "retry"
  BY <1>1 DEF Rough, Shape
<1>4. TypeOK'
  BY <1>1, <1>2 DEF Rough, TypeOK
<1>5. Shape'
  BY <1>1, <1>2, <1>3 DEF Shape, Harmless
<1>6. Reading'
  BY <1>1 DEF Rough, Reading
<1>. QED
  BY <1>1, <1>3, <1>4, <1>5, <1>6 DEF Rough

LEMMA EndsRough == Rough /\ (Logout \/ Departs) => Rough' /\ ~reader'.open
<1>. SUFFICES ASSUME Rough, Logout \/ Departs PROVE Rough' /\ ~reader'.open
  OBVIOUS
<1>1. /\ phase = "idle" /\ user' = FALSE /\ ret' = NoResult
      /\ UNCHANGED <<todo, pin, phase, apdu, resp, accum>>
  BY DEF Logout, Departs
<1>2. reader' \in Readers /\ ~reader'.open /\ wire' \in Seq(Frames)
  <2>1. CASE Logout
    BY <2>1, ClosesType DEF Logout, Rough, TypeOK
  <2>2. CASE Departs
    BY <2>2, ClosedType DEF Departs
  <2>. QED
    BY <2>1, <2>2
<1>3. card' \in Cards
  <2>1. card \in Cards /\ NoCard \in Cards
    BY PivAssumption DEF NoCard, Cards, Rough, TypeOK
  <2>. QED
    BY <2>1 DEF Logout, Departs
<1>4. TypeOK'
  BY <1>1, <1>2, <1>3, NoResultType DEF Rough, TypeOK, Readers, Cards
<1>5. Shape' /\ Reading'
  BY <1>1 DEF Rough, Shape, Harmless, Reading, NoResult
<1>. QED
  BY <1>2, <1>4, <1>5 DEF Rough

LEMMA LoginNoRoomRough == Rough /\ LoginNoRoom => Rough' /\ ~reader'.open
BY Works, GivenUp DEF LoginNoRoom

LEMMA RoughNext == Rough /\ [Next]_vars => Rough'
<1>. SUFFICES ASSUME Rough, [Next]_vars PROVE Rough'
  OBVIOUS
<1>1. CASE UNCHANGED vars
  <2>1. TypeOK'
    BY <1>1 DEF vars, Rough, TypeOK
  <2>2. Shape' /\ Reading'
    BY <1>1 DEF vars, Rough, Shape, Harmless, Reading
  <2>. QED
    BY <2>1, <2>2 DEF Rough
<1>2. CASE Caller
  BY <1>2, LoginRough, OperateRough, EndsRough
  DEF Caller, Sign, GenerateKey, Attest, Simple, Chained
<1>3. CASE Host
  BY <1>3, OthersFailRough, SendFailsRough, SendRough, ReceiveFailsRough,
     ReceiveRough, ParsesRough, LoginNoRoomRough DEF Host
<1>. QED
  BY <1>1, <1>2, <1>3 DEF Next

-----------------------------------------------------------------------------
(* A reader that held nothing when it was opened. *)
LEMMA SendFailsGood ==
  ASSUME Rough, Good, SendFails, reader'.open
  PROVE  Good'
<1>1. phase = "send" /\ ~reader.desync /\ reader.slips < MaxSlips
  BY DEF SendFails
<1>2. Slipped.seq = NextSeq(reader.seq) /\ Slipped.slips = reader.slips + 1
  BY <1>1, NumberedFields DEF Rough
<1>3. /\ reader.slips \in Nat /\ Len(wire) \in Nat /\ Len(wire) <= reader.slips
      /\ wire \in Seq(Frames) /\ card \in Cards /\ Head(todo) \in Functions
  BY <1>1, Lengths, Works
<1>4. \A i \in 1..Len(wire) :
        \E a \in 1..Slipped.slips + 1 - i : Behind(wire[i].seq, a, Slipped.seq)
  BY <1>1, <1>2, <1>3, Older
<1>5. CASE Fails(Slipped, wire) /\ UNCHANGED card
  BY <1>1, <1>4, <1>5, FailedGood
<1>6. ASSUME NEW r \in Replies(Head(todo)), card' = r.card,
             Fails(Slipped, Append(Stale(wire), Frame("data", r)))
      PROVE  Good'
  <2>. DEFINE w == Append(Stale(wire), Frame("data", r))
  <2>1. r \in Reply3
    BY <1>3, RepliesAre DEF Rough
  <2>2. Head(todo) \notin Fatal => card'.verified = card.verified
    BY <1>3, <1>6, RepliesAre DEF Rough, Fatal
  <2>3. /\ Stale(wire) \in Seq(Frames) /\ Len(Stale(wire)) = Len(wire)
        /\ \A i \in 1..Len(wire) : Stale(wire)[i].seq = wire[i].seq
        /\ Frame("data", r) \in Frames /\ Frame("data", r).seq = reader.seq
    BY <1>3, <2>1, StaleFields, FrameFields DEF Rough
  <2>4. /\ w \in Seq(Frames) /\ Len(w) = Len(wire) + 1
        /\ \A i \in 1..Len(wire) : w[i].seq = wire[i].seq
        /\ w[Len(wire) + 1].seq = reader.seq
    BY <1>3, <2>3
  <2>. HIDE DEF w
  <2>5. ASSUME NEW i \in 1..Len(w)
        PROVE  \E a \in 1..Slipped.slips + 1 - i : Behind(w[i].seq, a, Slipped.seq)
    <3>1. CASE i \in 1..Len(wire)
      BY <1>4, <2>4, <3>1
    <3>2. CASE i = Len(wire) + 1
      <4>1. 1 \in 1..Slipped.slips + 1 - i
        BY <1>2, <1>3, <3>2
      <4>. QED
        BY <1>2, <2>4, <3>2, <4>1, Newest
    <3>. QED
      BY <1>3, <2>4, <3>1, <3>2
  <2>6. Fails(Slipped, w)
    BY <1>6 DEF w
  <2>. QED
    BY <1>1, <2>2, <2>5, <2>6, FailedGood
<1>. QED
  BY <1>5, <1>6 DEF SendFails

(* After a frame has been taken the others are one place nearer. *)
LEMMA Taken ==
  ASSUME Rough, Good, phase = "receive", wire # <<>>
  PROVE  /\ Tail(wire) \in Seq(Frames) /\ Head(wire) \in Frames
         /\ ~reader.desync /\ Awaited(Head(wire), reader.slips + 1)
         /\ \A i \in 1..Len(Tail(wire)) : Recent(Tail(wire)[i], reader.slips + 1 - i)
<1>1. /\ wire \in Seq(Frames) /\ reader.slips \in Nat /\ ~reader.desync
      /\ \A i \in 1..Len(wire) : Awaited(wire[i], reader.slips + 2 - i)
  BY PivAssumption DEF Rough, Good, TypeOK, InStep
<1>2. /\ Tail(wire) \in Seq(Frames) /\ Head(wire) = wire[1] /\ Head(wire) \in Frames
      /\ Len(wire) \in Nat \ {0} /\ Len(Tail(wire)) = Len(wire) - 1
      /\ \A i \in 1..Len(Tail(wire)) : Tail(wire)[i] = wire[i + 1]
  BY <1>1
<1>3. Awaited(Head(wire), reader.slips + 1)
  <2>1. 1 \in 1..Len(wire) /\ reader.slips + 2 - 1 = reader.slips + 1
    BY <1>1, <1>2
  <2>. QED
    BY <1>1, <1>2, <2>1
<1>4. ASSUME NEW i \in 1..Len(Tail(wire))
      PROVE  Recent(Tail(wire)[i], reader.slips + 1 - i)
  <2>1. i + 1 \in 1..Len(wire) /\ reader.slips + 2 - (i + 1) = reader.slips + 1 - i
    BY <1>1, <1>2
  <2>2. Awaited(wire[i + 1], reader.slips + 1 - i)
    BY <1>1, <2>1
  <2>. QED
    BY <1>2, <2>2 DEF Awaited, Recent
<1>. QED
  BY <1>1, <1>2, <1>3, <1>4

LEMMA OthersFailGood ==
  ASSUME Rough, Good, SendRefused \/ ReceiveFails \/ ReceiveRejects \/ Rejected,
         reader'.open
  PROVE  Good'
<1>1. CASE SendRefused
  BY <1>1, FailedGood DEF SendRefused
<1>2. CASE ReceiveFails
  <2>1. [reader EXCEPT !.desync = TRUE].desync
    BY <1>2, Works DEF ReceiveFails, Readers
  <2>. QED
    BY <1>2, <2>1, FailedGood DEF ReceiveFails
<1>3. CASE ReceiveRejects
  <2>1. /\ phase = "receive" /\ wire # <<>> /\ Fails(reader, Tail(wire))
        /\ UNCHANGED card
    BY <1>3 DEF ReceiveRejects
  <2>. QED
    BY <2>1, Taken, FailedGood DEF Recent
<1>4. CASE Rejected
  <2>1. phase = "parse" /\ Fails(reader, wire) /\ UNCHANGED card
    BY <1>4 DEF Rejected, Parsing
  <2>2. reader.desync \/ \A i \in 1..Len(wire) :
          \E a \in 1..reader.slips + 1 - i : Behind(wire[i].seq, a, reader.seq)
    BY <2>1 DEF Good, InStep, Recent
  <2>. QED
    BY <2>1, <2>2, FailedGood
<1>. QED
  BY <1>1, <1>2, <1>3, <1>4

LEMMA SendGood ==
  ASSUME Rough, Good, Send
  PROVE  Good'
<1>1. /\ phase = "send" /\ ~reader.desync /\ phase' = "receive"
      /\ accum' = IF apdu = "first" THEN <<>> ELSE accum
      /\ ret' = NoResult /\ UNCHANGED <<todo, pin, apdu, resp, user>>
  BY DEF Send
<1>2. PICK before \in {<<>>, <<Wait>>} :
        /\ Arrives(before)
        /\ reader'.seq = NextSeq(reader.seq) /\ ~reader'.desync
        /\ reader'.slips = reader.slips + (IF before = <<>> THEN 0 ELSE 1)
  <2>1. CASE Arrives(<<>>) /\ reader' = Numbered
    BY <1>1, <2>1, Works, NumberedFields DEF Rough, Readers
  <2>2. CASE reader.slips < MaxSlips /\ Arrives(<<Wait>>) /\ reader' = Slipped
    BY <1>1, <2>2, Works, NumberedFields DEF Rough
  <2>. QED
    BY <2>1, <2>2 DEF Send
<1>3. /\ reader.slips \in Nat /\ Len(wire) \in Nat /\ Len(wire) <= reader.slips
      /\ todo # <<>> /\ Head(todo) \in Functions /\ card \in Cards
  BY <1>1, Lengths, Works
<1>4. PICK r \in Replies(Head(todo)) :
        /\ card' = r.card /\ wire' \in Seq(Frames)
        /\ Len(wire') <= Len(wire) + (IF before = <<>> THEN 1 ELSE 2)
        /\ \A i \in 1..Len(wire') :
             /\ i <= Len(wire) => wire'[i].seq = wire[i].seq /\ ~wire'[i].fresh
             /\ i > Len(wire) =>
                  /\ wire'[i].seq = reader.seq /\ wire'[i].fresh
                  /\ wire'[i].kind = "data" =>
                       wire'[i].sw = r.sw /\ wire'[i].part = r.part
  BY <1>2, <1>3, Arrived DEF Rough
<1>5. Verified'
  <2>1. card.verified /\ (Head(todo) # "verify" \/ apdu = "more") => card'.verified
    BY <1>3, <1>4, RepliesAre DEF Rough
  <2>2. apdu = "more" => Head(todo) # "verify"
    BY DEF Rough, Shape, Chained
  <2>3. Harmless(1)' <=> Harmless(1)
    BY <1>1 DEF Harmless
  <2>4. Harmless(1) => Head(todo) # "verify"
    BY <1>3, TodoTail DEF Harmless, Fatal, Rough, TypeOK
  <2>5. user \/ Harmless(1) => card'.verified
    BY <1>1, <2>1, <2>2, <2>4 DEF Rough, Good, Verified, Shape
  <2>6. ASSUME NEW i \in 1..Len(wire'), Head(todo) = "verify",
               wire'[i].fresh, Says(wire[i])'
        PROVE  card'.verified
    <3>1. wire'[i].sw = r.sw /\ r.sw = "ok"
      BY <1>3, <1>4, <2>6 DEF Says
    <3>. QED
      BY <1>3, <1>4, <2>2, <2>6, <3>1, RepliesAre DEF Rough
  <2>. QED
    BY <1>1, <1>2, <2>3, <2>5, <2>6 DEF Verified
<1>6. InStep'
  <2>1. ASSUME NEW i \in 1..Len(wire')
        PROVE  Awaited(wire[i], reader.slips + 2 - i)'
    <3>1. CASE i <= Len(wire)
      <4>1. i \in 1..Len(wire)
        BY <1>3, <3>1
      <4>2. PICK a \in 2..reader.slips + 2 - i :
                   Behind(wire[i].seq, a, NextSeq(reader.seq))
        BY <1>1, <4>1, Older
      <4>3. a \in 1..reader'.slips + 2 - i /\ a # 1
        BY <1>2, <1>3, <4>1
      <4>. QED
        BY <1>2, <1>4, <3>1, <4>2, <4>3 DEF Awaited
    <3>2. CASE i > Len(wire)
      <4>1. 1 \in 1..reader'.slips + 2 - i
        BY <1>2, <1>3, <1>4, <3>2
      <4>2. Behind(wire'[i].seq, 1, reader'.seq) /\ wire'[i].fresh
        BY <1>2, <1>4, <3>2, Newest
      <4>. QED
        BY <4>1, <4>2 DEF Awaited
    <3>. QED
      BY <1>3, <3>1, <3>2
  <2>. QED
    BY <1>1, <1>2, <2>1 DEF InStep
<1>7. Whole'
  <2>1. ASSUME NEW i \in 1..Len(wire'), Head(todo) \in Chained,
               wire'[i].fresh, wire'[i].kind = "data"
        PROVE  Holds(card', wire'[i].sw, wire'[i].part, accum')
    <3>1. wire'[i].sw = r.sw /\ wire'[i].part = r.part
      BY <1>3, <1>4, <2>1
    <3>2. CASE apdu = "more"
      <4>1. accum' = accum /\ accum = Upto(card.next - 1)
        BY <1>1, <3>2 DEF Good, Whole
      <4>2. Holds(r.card, r.sw, r.part, accum')
        BY <1>3, <3>2, <4>1, RepliesAre DEF Rough
      <4>. QED
        BY <1>4, <3>1, <4>2
    <3>3. CASE apdu # "more"
      <4>1. apdu = "first"
        BY <2>1, <3>3 DEF Rough, TypeOK, Shape, Chained, Simple
      <4>2. accum' = <<>> /\ Holds(r.card, r.sw, r.part, <<>>)
        BY <1>1, <1>3, <2>1, <4>1, RepliesAre DEF Rough
      <4>. QED
        BY <1>4, <3>1, <4>2
    <3>. QED
      BY <3>2, <3>3
  <2>. QED
    BY <1>1, <2>1 DEF Whole, NoResult
<1>. QED
  BY <1>5, <1>6, <1>7 DEF Good

LEMMA ReceiveGood ==
  ASSUME Rough, Good, Receive
  PROVE  Good'
<1>1. /\ phase = "receive" /\ wire # <<>> /\ Answers(Head(wire))
      /\ resp' = Head(wire) /\ wire' = Tail(wire) /\ phase' = "parse"
      /\ UNCHANGED <<reader, card, todo, pin, apdu, accum, ret, user>>
  BY DEF Receive
<1>2. /\ wire' \in Seq(Frames) /\ resp' \in Frames
      /\ ~reader.desync /\ Awaited(resp', reader.slips + 1)
      /\ \A i \in 1..Len(wire') : Recent(wire'[i], reader.slips + 1 - i)
  BY <1>1, Taken
<1>3. resp'.kind = "data" /\ NextSeq(resp'.seq) = reader.seq
  BY <1>1 DEF Answers
<1>4. resp'.fresh
  <2>1. PICK a \in 1..reader.slips + 1 :
               Behind(resp'.seq, a, reader.seq) /\ (a = 1 => resp'.fresh)
    BY <1>2 DEF Awaited
  <2>2. a \in 1..SeqMod /\ resp'.seq \in 0..SeqMod - 1
    BY <1>2, Works, <1>1, PivAssumption DEF Frames, Readers
  <2>. QED
    BY <1>3, <2>1, <2>2, OnlyOne
<1>5. 1 \in 1..Len(wire) /\ Head(wire) = wire[1]
  BY <1>1, Works
<1>6. Verified'
  <2>1. Harmless(1)' <=> Harmless(1)
    BY <1>1 DEF Harmless
  <2>2. Head(todo) = "verify" /\ resp'.sw = "ok" => card.verified
    BY <1>1, <1>3, <1>4, <1>5 DEF Good, Verified, Says
  <2>. QED
    BY <1>1, <2>1, <2>2 DEF Good, Verified
<1>7. InStep'
  BY <1>1, <1>2, <1>4 DEF InStep, Recent
<1>8. Whole'
  <2>1. Head(todo) \in Chained => Holds(card, resp'.sw, resp'.part, accum)
    BY <1>1, <1>3, <1>4, <1>5 DEF Good, Whole
  <2>. QED
    BY <1>1, <2>1 DEF Good, Whole
<1>. QED
  BY <1>6, <1>7, <1>8 DEF Good

(* The answers as the PIV functions read them. *)
LEMMA CollectedFields ==
  ASSUME Rough, Good, phase = "parse", Head(todo) \in Chained,
         resp.sw \in {"ok", "more"}
  PROVE  /\ resp.sw = "ok" => Collected = Upto(card.total)
         /\ Collected = Upto(card.next - 1)
<1>1. /\ Holds(card, resp.sw, resp.part, accum)
      /\ resp.part \in 0..MaxParts /\ card.next \in Nat /\ MaxParts \in Nat
  BY PivAssumption DEF Rough, Good, TypeOK, Whole, Frames
<1>2. CASE resp.part = 0
  BY <1>1, <1>2 DEF Collected, Holds
<1>3. CASE resp.part # 0
  <2>1. /\ resp.part \in Nat \ {0}
        /\ accum = Upto(resp.part - 1) /\ card.next - 1 = resp.part
    BY <1>1, <1>3 DEF Holds
  <2>2. Collected = Append(accum, resp.part)
    BY <1>3 DEF Collected
  <2>3. Collected = Upto(resp.part)
    BY <2>1, <2>2, UptoMore
  <2>. QED
    BY <1>1, <2>1, <2>3 DEF Holds
<1>. QED
  BY <1>2, <1>3

LEMMA SucceedsGood ==
  ASSUME Rough, Good, phase = "parse", Succeeds,
         Head(todo) \in {"select", "verify"} => resp.sw = "ok",
         Head(todo) \in Chained => accum' = Upto(card.total)
  PROVE  Good'
<1>1. Continue(TRUE) /\ UNCHANGED <<reader, card, wire, pin>>
  BY DEF Succeeds
<1>2. Head(todo) = "verify" => card.verified
  BY DEF Good, Verified
<1>3. \A i \in 1..Len(wire') : Recent(wire[i], reader.slips + 1 - i)'
      \/ reader'.desync
  BY <1>1 DEF Good, InStep, Recent
<1>. QED
  BY <1>1, <1>2, <1>3, ProceedsGood DEF Fatal

LEMMA RepeatedGood ==
  ASSUME Rough, Good, phase = "parse", NEW a \in {"retry", "more"}, Again(a),
         a = "more" => accum' = Upto(card.next - 1)
  PROVE  Good'
<1>1. /\ apdu' = a /\ phase' = "send"
      /\ UNCHANGED <<reader, card, wire, todo, pin, resp, ret, user>>
  BY DEF Again
<1>2. Verified'
  BY <1>1 DEF Good, Verified, Harmless
<1>3. InStep'
  BY <1>1 DEF Good, InStep, Recent
<1>4. Whole'
  BY <1>1 DEF Good, Whole
<1>. QED
  BY <1>2, <1>3, <1>4 DEF Good

LEMMA ParsesGood ==
  ASSUME Rough, Good, Done \/ Retry \/ CollectMore \/ CollectLast
  PROVE  Good'
<1>1. CASE Done
  <2>1. /\ phase = "parse" /\ Head(todo) \notin Chained /\ resp.sw = "ok"
        /\ Succeeds
    BY <1>1 DEF Done, Parsing, Simple, Chained
  <2>. QED
    BY <2>1, SucceedsGood
<1>2. CASE Retry
  BY <1>2, RepeatedGood DEF Retry, Parsing
<1>3. CASE CollectMore
  BY <1>3, CollectedFields, RepeatedGood DEF CollectMore, Parsing
<1>4. CASE CollectLast
  <2>1. /\ phase = "parse" /\ Head(todo) \in Chained /\ resp.sw = "ok"
        /\ accum' = Collected /\ Succeeds
    BY <1>4 DEF CollectLast, Parsing
  <2>. QED
    BY <2>1, CollectedFields, SucceedsGood DEF Chained
<1>. QED
  BY <1>1, <1>2, <1>3, <1>4

LEMMA LoginGood ==
  ASSUME Rough, NEW right \in BOOLEAN, Login(right), reader'.clean
  PROVE  Good'
<1>1. /\ phase' = "send" /\ apdu' # "more" /\ ~user' /\ ~ret'.ok
      /\ ~Harmless(1)' /\ Head(todo') = "select"
  BY LoginRough
<1>2. wire' = <<>>
  BY FreshType DEF Login
<1>3. Verified' /\ InStep' /\ Whole'
  BY <1>1, <1>2 DEF Verified, InStep, Whole
<1>. QED
  BY <1>3 DEF Good

LEMMA OperateGood ==
  ASSUME Rough, Good, NEW f \in Simple \cup Chained, Operate(f)
  PROVE  Good'
<1>1. /\ phase = "idle" /\ user /\ phase' = "send"
      /\ UNCHANGED <<reader, card, wire, apdu, resp, accum, ret, user>>
  BY DEF Operate
<1>2. apdu' # "more"
  BY OperateRough
<1>3. Verified'
  BY <1>1 DEF Good, Verified
<1>4. InStep'
  BY <1>1 DEF Good, InStep, Recent
<1>5. Whole'
  BY <1>1, <1>2 DEF Good, Whole
<1>. QED
  BY <1>3, <1>4, <1>5 DEF Good

(* A reader stays as clean as it was opened. *)
LEMMA StaysClean ==
  ASSUME Rough, Host, reader'.open
  PROVE  reader.open /\ reader'.clean = reader.clean
<1>1. CASE Send \/ SendFails
  <2>1. /\ phase = "send" /\ reader.open
        /\ Numbered.clean = reader.clean
        /\ reader.slips < MaxSlips => Slipped.clean = reader.clean
    BY <1>1, Works, NumberedFields DEF Rough, Send, SendFails
  <2>2. ~GiveUp
    BY ClosedType DEF GiveUp, Closes
  <2>. QED
    BY <1>1, <2>1, <2>2 DEF Send, SendFails, Fails
<1>2. CASE SendRefused \/ ReceiveFails \/ ReceiveRejects \/ Rejected
  <2>1. reader \in Readers /\ reader.open
    BY <1>2, Works DEF SendRefused, ReceiveFails, ReceiveRejects, Rejected, Parsing
  <2>2. [reader EXCEPT !.desync = TRUE].clean = reader.clean
    BY <2>1 DEF Readers
  <2>3. ~GiveUp
    BY ClosedType DEF GiveUp, Closes
  <2>. QED
    BY <1>2, <2>1, <2>2, <2>3
    DEF SendRefused, ReceiveFails, ReceiveRejects, Rejected, Fails
<1>3. CASE Receive \/ Done \/ Retry \/ CollectMore \/ CollectLast
  BY <1>3, Works DEF Receive, Done, Retry, CollectMore, CollectLast, Parsing,
                     Succeeds, Again
<1>4. CASE LoginNoRoom
  BY <1>4, LoginNoRoomRough
<1>. QED
  BY <1>1, <1>2, <1>3, <1>4 DEF Host

-----------------------------------------------------------------------------
LEMMA PivInvariant == Spec => []PivInv
<1>1. Init => PivInv
  <2>. SUFFICES ASSUME Init PROVE PivInv
    OBVIOUS
  <2>1. NoCard \in Cards
    BY PivAssumption DEF NoCard, Cards
  <2>2. TypeOK
    <3>1. reader \in Readers /\ card \in Cards /\ resp \in Frames
      BY <2>1, ClosedType, NoFrameType DEF Init
    <3>2. wire \in Seq(Frames) /\ todo \in Seq(Functions) /\ accum \in Seq(1..MaxParts)
      BY DEF Init
    <3>. QED
      BY <3>1, <3>2, NoResultType DEF Init, TypeOK, Readers, Cards
  <2>3. Shape /\ Reading /\ ~reader.open
    BY ClosedType DEF Init, Shape, Harmless, Reading, NoResult
  <2>. QED
    BY <2>2, <2>3 DEF PivInv, Rough
<1>2. PivInv /\ [Next]_vars => PivInv'
  <2>. SUFFICES ASSUME PivInv, [Next]_vars PROVE PivInv'
    OBVIOUS
  <2>1. Rough /\ Rough'
    BY RoughNext DEF PivInv
  <2>. SUFFICES ASSUME reader'.open, reader'.clean PROVE Good'
    BY <2>1 DEF PivInv
  <2>2. CASE UNCHANGED vars
    <3>1. Good
      BY <2>2 DEF vars, PivInv
    <3>2. Verified' /\ InStep'
      BY <2>2, <3>1 DEF vars, Good, Verified, Says, Harmless, InStep, Recent, Awaited
    <3>3. Whole'
      BY <2>2, <3>1 DEF vars, Good, Whole
    <3>. QED
      BY <3>2, <3>3 DEF Good
  <2>3. CASE \E right \in BOOLEAN : Login(right)
    BY <2>1, <2>3, LoginGood
  <2>4. CASE Sign \/ GenerateKey \/ Attest
    <3>1. PICK f \in Simple \cup Chained : Operate(f)
      BY <2>4 DEF Sign, GenerateKey, Attest, Simple, Chained
    <3>2. Good
      BY <2>1, <3>1 DEF Operate, PivInv
    <3>. QED
      BY <2>1, <3>1, <3>2, OperateGood
  <2>5. CASE Logout \/ Departs
    BY <2>1, <2>5, EndsRough
  <2>6. CASE Host
    <3>1. Good
      BY <2>1, <2>6, StaysClean DEF PivInv
    <3>. QED
      BY <2>1, <2>6, <3>1, OthersFailGood, SendFailsGood, SendGood, ReceiveGood,
         ParsesGood, LoginNoRoomRough DEF Host
  <2>. QED
    BY <2>2, <2>3, <2>4, <2>5, <2>6 DEF Next, Caller
<1>. QED
  BY <1>1, <1>2, PTL DEF Spec

LEMMA RoughInvariant == Spec => []Rough
BY PivInvariant, PTL DEF PivInv

(* Types of wp11_ccid_ctx and of what the PIV functions keep.               *)
THEOREM TypeCorrect == Spec => []TypeOK
BY PivInvariant, PTL DEF PivInv, Rough

(* wp11_ccid_apdu hands out the answer to the command it sent: for the one  *)
(* byte of bSeq, if the reader held no frame when it was opened and slips   *)
(* less than 256 times while it is open.                                    *)
THEOREM AnswersMatch == Spec => []OwnAnswer
<1>1. PivInv => OwnAnswer
  BY DEF PivInv, Rough, Reading, Good, InStep, OwnAnswer
<1>. QED
  BY <1>1, PivInvariant, PTL

(* wp11_piv_get_cert and wp11_piv_attest return the whole object or fail,   *)
(* on a reader that held no frame when it was opened.                       *)
THEOREM ObjectsAreWhole == Spec => []WholeObject
<1>1. PivInv => WholeObject
  BY DEF PivInv, Rough, TypeOK, Reading, Good, Whole, WholeObject, Upto
<1>. QED
  BY <1>1, PivInvariant, PTL

(* Nobody is logged in on a PIV token that has not verified the PIN, if the *)
(* reader held no frame when C_Login opened it.                             *)
THEOREM LoginMeansVerified == Spec => []LoginIsVerified
<1>1. PivInv => LoginIsVerified
  BY DEF PivInv, Rough, Reading, Good, Verified, LoginIsVerified
<1>. QED
  BY <1>1, PivInvariant, PTL
-----------------------------------------------------------------------------
(* A call is a bounded number of steps, whatever the card answers: each of   *)
(* its functions makes a first command and at most MaxAccum + 1 more, and    *)
(* each command is sent, received and parsed.                                *)
Width == 3 * MaxAccum + 6

(* The commands the function at the head of todo may still send after the   *)
(* one it is at: it repeats one once, and asks for more as long as there    *)
(* is room for what comes.                                                  *)
Rounds ==
  CASE apdu = "first" -> MaxAccum + 1
    [] apdu = "retry" -> 0
    [] apdu = "more"  -> MaxAccum - Len(accum)

Stage ==
  CASE phase = "send" -> 2 [] phase = "receive" -> 1 [] phase = "parse" -> 0

(* The steps of n functions. *)
ForAll(n) == n * Width

StepsLeft ==
  IF phase = "idle" THEN 0 ELSE ForAll(Len(todo) - 1) + 3 * Rounds + Stage + 1

Longest == ForAll(Certs + 2)

Within ==
  /\ Len(todo) <= Certs + 2
  /\ apdu = "more" => Len(accum) <= MaxAccum

LEMMA FunctionsFields ==
  /\ Width \in Nat
  /\ ForAll(0) = 0
  /\ \A n \in Nat : ForAll(n) \in Nat
  /\ \A n \in Nat \ {0} : ForAll(n) = ForAll(n - 1) + Width
  /\ \A m, n \in Nat : m <= n => ForAll(m) <= ForAll(n)
<1>1. Width \in Nat
  BY PivAssumption DEF Width
<1>2. ASSUME NEW m \in Nat, NEW n \in Nat, m <= n
      PROVE  m * Width <= n * Width
  <2>1. /\ n - m \in Nat /\ n * Width = m * Width + (n - m) * Width
        /\ m * Width \in Nat /\ (n - m) * Width \in Nat
    BY <1>1, <1>2
  <2>. QED
    BY <2>1
<1>3. ForAll(0) = 0 /\ \A n \in Nat : ForAll(n) \in Nat
  BY <1>1 DEF ForAll
<1>4. ASSUME NEW n \in Nat \ {0}
      PROVE  n * Width = (n - 1) * Width + Width
  BY <1>1
<1>. QED
  BY <1>1, <1>2, <1>3, <1>4 DEF ForAll

(* What is left lies in the width of the function at the head of todo. *)
LEMMA LeftBetween ==
  ASSUME Rough, Within, phase # "idle"
  PROVE  /\ Len(todo) - 1 \in Nat /\ Rounds \in 0..MaxAccum + 1 /\ Stage \in 0..2
         /\ StepsLeft \in Nat
         /\ StepsLeft > ForAll(Len(todo) - 1)
         /\ StepsLeft <= ForAll(Len(todo))
<1>1. Len(todo) - 1 \in Nat
  BY TodoTail DEF Rough, TypeOK, Shape
<1>2. Rounds \in 0..MaxAccum + 1
  <2>1. /\ MaxAccum \in Nat /\ Len(accum) \in Nat
        /\ apdu \in {"first", "retry", "more"}
    BY PivAssumption DEF Rough, TypeOK
  <2>2. CASE apdu = "first" \/ apdu = "retry"
    BY <2>1, <2>2 DEF Rounds
  <2>3. CASE apdu = "more"
    BY <2>1, <2>3 DEF Rounds, Within
  <2>. QED
    BY <2>1, <2>2, <2>3
<1>3. Stage \in 0..2
  BY DEF Rough, TypeOK, Stage
<1>4. /\ Width \in Nat /\ ForAll(Len(todo) - 1) \in Nat
      /\ ForAll(Len(todo)) = ForAll(Len(todo) - 1) + Width
  BY <1>1, FunctionsFields DEF Rough, TypeOK
<1>5. StepsLeft = ForAll(Len(todo) - 1) + 3 * Rounds + Stage + 1
  BY DEF StepsLeft
<1>6. 3 * Rounds + Stage + 1 \in 1..Width
  BY <1>2, <1>3, PivAssumption DEF Width
<1>. QED
  BY <1>1, <1>2, <1>3, <1>4, <1>5, <1>6

LEMMA LeftBounded ==
  ASSUME Rough, Within
  PROVE  StepsLeft \in 0..Longest
<1>1. Longest \in Nat
  BY FunctionsFields, PivAssumption DEF Longest
<1>2. CASE phase = "idle"
  BY <1>1, <1>2 DEF StepsLeft
<1>3. CASE phase # "idle"
  <2>1. /\ Len(todo) \in Nat /\ Len(todo) <= Certs + 2 /\ Certs + 2 \in Nat
    BY <1>3, LeftBetween, PivAssumption DEF Within
  <2>2. ForAll(Len(todo)) <= Longest /\ ForAll(Len(todo)) \in Nat
    BY <2>1, FunctionsFields DEF Longest
  <2>. QED
    BY <1>1, <1>3, <2>2, LeftBetween
<1>. QED
  BY <1>2, <1>3

(* A function that returns leaves at most the widths of those after it.     *)
LEMMA ReturnsBounded ==
  ASSUME Rough, Within, phase # "idle", NEW ok, Continue(ok)
  PROVE  Within' /\ StepsLeft' < StepsLeft
<1>1. /\ todo' = Tail(todo) /\ Len(todo') = Len(todo) - 1 /\ apdu' = "first"
      /\ Len(todo) - 1 \in Nat
      /\ todo' = <<>> => phase' = "idle"
      /\ todo' # <<>> => phase' = "send" /\ Len(todo') - 1 \in Nat
  BY TodoTail DEF Continue, Rough, TypeOK, Shape
<1>2. Within'
  BY <1>1, PivAssumption DEF Within
<1>3. StepsLeft \in Nat /\ StepsLeft > ForAll(Len(todo'))
  BY <1>1, LeftBetween
<1>4. CASE todo' = <<>>
  <2>1. Len(todo') = 0 /\ StepsLeft' = 0
    BY <1>1, <1>4 DEF StepsLeft
  <2>. QED
    BY <1>2, <1>3, <2>1, FunctionsFields
<1>5. CASE todo' # <<>>
  <2>1. Rounds' = MaxAccum + 1 /\ Stage' = 2
    BY <1>1, <1>5 DEF Rounds, Stage
  <2>2. StepsLeft' = ForAll(Len(todo') - 1) + 3 * (MaxAccum + 1) + 2 + 1
    BY <1>1, <1>5, <2>1 DEF StepsLeft, ForAll, Width
  <2>3. /\ ForAll(Len(todo')) = ForAll(Len(todo') - 1) + Width
        /\ ForAll(Len(todo') - 1) \in Nat
    BY <1>1, <1>5, FunctionsFields
  <2>4. StepsLeft' = ForAll(Len(todo') - 1) + Width
    BY <2>2, <2>3, PivAssumption DEF Width
  <2>5. StepsLeft' = ForAll(Len(todo'))
    BY <2>3, <2>4
  <2>. QED
    BY <1>2, <1>3, <2>5
<1>. QED
  BY <1>2, <1>4, <1>5

LEMMA GivesUpBounded ==
  ASSUME Rough, Within, phase # "idle", GiveUp
  PROVE  Within' /\ StepsLeft' < StepsLeft
<1>1. /\ todo' = <<>> /\ apdu' = "first" /\ StepsLeft' = 0
  BY DEF GiveUp, StepsLeft
<1>2. StepsLeft \in Nat /\ StepsLeft > 0
  BY LeftBetween, FunctionsFields
<1>. QED
  BY <1>1, <1>2, PivAssumption DEF Within

LEMMA FailsBounded ==
  ASSUME Rough, Within, phase # "idle", NEW r, NEW w, Fails(r, w)
  PROVE  Within' /\ StepsLeft' < StepsLeft
BY ReturnsBounded, GivesUpBounded DEF Fails

LEMMA SumsCompare ==
  \A b \in Nat : \A r, s, r1, s1 \in Int :
    3 * r1 + s1 < 3 * r + s => b + 3 * r1 + s1 + 1 < b + 3 * r + s + 1
OBVIOUS

LEMMA IntFields == Rough /\ phase # "idle" => Rounds \in Int /\ Stage \in Int
<1>. SUFFICES ASSUME Rough, phase # "idle" PROVE Rounds \in Int /\ Stage \in Int
  OBVIOUS
<1>1. /\ MaxAccum \in Int /\ MaxAccum + 1 \in Int /\ MaxAccum - Len(accum) \in Int
      /\ apdu \in {"first", "retry", "more"}
      /\ phase \in {"send", "receive", "parse"}
  BY PivAssumption DEF Rough, TypeOK
<1>. QED
  BY <1>1 DEF Rounds, Stage

(* The same function goes on. *)
LEMMA GoesOnBounded ==
  ASSUME Rough, Within, phase # "idle", Rough', phase' # "idle",
         todo' = todo, Within', 3 * Rounds' + Stage' < 3 * Rounds + Stage
  PROVE  StepsLeft' < StepsLeft
<1>1. Rounds \in Int /\ Stage \in Int
  BY IntFields
<1>2. Rounds' \in Int /\ Stage' \in Int
  <2>1. /\ MaxAccum \in Int /\ MaxAccum + 1 \in Int /\ MaxAccum - Len(accum') \in Int
        /\ apdu' \in {"first", "retry", "more"}
        /\ phase' \in {"send", "receive", "parse"}
    BY PivAssumption DEF Rough, TypeOK
  <2>. QED
    BY <2>1 DEF Rounds, Stage
<1>3. ForAll(Len(todo) - 1) \in Nat
  BY LeftBetween, FunctionsFields
<1>4. /\ StepsLeft = ForAll(Len(todo) - 1) + 3 * Rounds + Stage + 1
      /\ StepsLeft' = ForAll(Len(todo) - 1) + 3 * Rounds' + Stage' + 1
  BY DEF StepsLeft, ForAll, Width
<1>. QED
  BY <1>1, <1>2, <1>3, <1>4, SumsCompare

LEMMA HostBounded ==
  ASSUME Rough, Rough', Within, Host
  PROVE  Within' /\ StepsLeft' < StepsLeft
<1>0. MaxAccum \in Nat
  BY PivAssumption
<1>1. CASE SendRefused \/ SendFails \/ ReceiveFails \/ ReceiveRejects \/ Rejected
  BY <1>1, FailsBounded
  DEF SendRefused, SendFails, ReceiveFails, ReceiveRejects, Rejected, Parsing
<1>2. CASE Done \/ CollectLast
  BY <1>2, ReturnsBounded DEF Done, CollectLast, Succeeds, Parsing
<1>3. CASE LoginNoRoom
  BY <1>3, GivesUpBounded DEF LoginNoRoom
<1>4. CASE Send
  <2>1. /\ phase = "send" /\ phase' = "receive" /\ UNCHANGED <<todo, apdu>>
        /\ apdu # "first" => accum' = accum
    BY <1>4 DEF Send
  <2>2. Within'
    BY <2>1 DEF Within
  <2>3. Rounds' = Rounds /\ Stage' = 1 /\ Stage = 2
    BY <2>1 DEF Rounds, Stage, Rough, TypeOK
  <2>4. Rounds \in Nat
    BY <2>1, LeftBetween
  <2>. QED
    BY <2>1, <2>2, <2>3, <2>4, GoesOnBounded
<1>5. CASE Receive
  <2>1. /\ phase = "receive" /\ phase' = "parse" /\ UNCHANGED <<todo, apdu, accum>>
    BY <1>5 DEF Receive
  <2>2. Within'
    BY <2>1 DEF Within
  <2>3. Rounds' = Rounds /\ Stage' = 0 /\ Stage = 1
    BY <2>1 DEF Rounds, Stage, Rough, TypeOK
  <2>4. Rounds \in Nat
    BY <2>1, LeftBetween
  <2>. QED
    BY <2>1, <2>2, <2>3, <2>4, GoesOnBounded
<1>6. CASE Retry
  <2>1. /\ phase = "parse" /\ phase' = "send" /\ UNCHANGED todo
        /\ apdu = "first" /\ apdu' = "retry"
    BY <1>6 DEF Retry, Parsing, Again
  <2>2. Within'
    BY <2>1 DEF Within
  <2>3. Rounds' = 0 /\ Rounds = MaxAccum + 1 /\ Stage' = 2 /\ Stage = 0
    BY <2>1 DEF Rounds, Stage
  <2>. QED
    BY <1>0, <2>1, <2>2, <2>3, GoesOnBounded
<1>7. CASE CollectMore
  <2>1. /\ phase = "parse" /\ phase' = "send" /\ UNCHANGED todo
        /\ Head(todo) \in Chained /\ apdu' = "more"
        /\ apdu = "more" => resp.part # 0
        /\ accum' = Collected /\ Len(accum') <= MaxAccum
    BY <1>7 DEF CollectMore, Parsing, Again
  <2>2. Within'
    BY <2>1 DEF Within
  <2>3. /\ Rounds' = MaxAccum - Len(accum') /\ Stage' = 2 /\ Stage = 0
    BY <2>1 DEF Rounds, Stage
  <2>4. apdu \in {"first", "more"}
    BY <2>1 DEF Rough, TypeOK, Shape, Chained, Simple
  <2>5. CASE apdu = "first"
    <3>1. Rounds = MaxAccum + 1 /\ Len(accum') \in Nat
      BY <2>5 DEF Rounds, Rough, TypeOK
    <3>. QED
      BY <1>0, <2>1, <2>2, <2>3, <3>1, GoesOnBounded
  <2>6. CASE apdu = "more"
    <3>1. Rounds = MaxAccum - Len(accum)
      BY <2>6 DEF Rounds
    <3>2. Len(accum') = Len(accum) + 1 /\ Len(accum) \in Nat
      BY <2>1, <2>6 DEF Collected, Rough, TypeOK
    <3>. QED
      BY <1>0, <2>1, <2>2, <2>3, <3>1, <3>2, GoesOnBounded
  <2>. QED
    BY <2>4, <2>5, <2>6
<1>. QED
  BY <1>1, <1>2, <1>3, <1>4, <1>5, <1>6, <1>7 DEF Host

LEMMA CallerBounded ==
  ASSUME Rough, Within, Caller
  PROVE  Within'
<1>1. CASE \E right \in BOOLEAN : Login(right)
  <2>. DEFINE certs == [i \in 1..Certs |-> "cert"]
  <2>1. todo' = <<"select", "verify">> \o certs /\ UNCHANGED <<apdu, accum>>
    BY <1>1 DEF Login
  <2>2. certs \in Seq(Functions) /\ Len(certs) = Certs
    BY PivAssumption DEF Functions, Chained
  <2>. HIDE DEF certs
  <2>3. <<"select", "verify">> \in Seq(Functions) /\ Len(<<"select", "verify">>) = 2
    BY DEF Functions
  <2>4. Len(todo') = 2 + Certs
    BY <2>1, <2>2, <2>3, ConcatProperties
  <2>. QED
    BY <2>1, <2>4, PivAssumption DEF Within
<1>2. CASE Sign \/ GenerateKey \/ Attest
  <2>1. Len(todo') = 1 /\ UNCHANGED <<apdu, accum>>
    BY <1>2 DEF Sign, GenerateKey, Attest, Operate
  <2>. QED
    BY <2>1, PivAssumption DEF Within
<1>3. CASE Logout \/ Departs
  BY <1>3 DEF Logout, Departs, Within
<1>. QED
  BY <1>1, <1>2, <1>3 DEF Caller

(* Every step that a call makes brings its end nearer, and there are at     *)
(* most Longest of them: neither a card that always has more nor one that   *)
(* sends empty parts keeps a call, and the library's lock, for ever.  With  *)
(* the timeout of a transfer (wp11_ccid.c:218) this bounds the time that    *)
(* one call takes, and it is why CallReturns needs weak fairness only.      *)
CallIsBounded ==
  /\ [](StepsLeft \in 0..Longest)
  /\ [](phase = "idle" <=> StepsLeft = 0)
  /\ [][Host => StepsLeft' < StepsLeft]_vars

THEOREM CallsAreBounded == Spec => CallIsBounded
<1>1. Init => Within
  BY PivAssumption DEF Init, Within
<1>2. Rough /\ Rough' /\ Within /\ [Next]_vars
        => Within' /\ [Host => StepsLeft' < StepsLeft]_vars
  <2>. SUFFICES ASSUME Rough, Rough', Within, [Next]_vars
                PROVE  Within' /\ [Host => StepsLeft' < StepsLeft]_vars
    OBVIOUS
  <2>1. CASE UNCHANGED vars
    BY <2>1 DEF vars, Within
  <2>2. CASE Caller
    <3>1. phase = "idle"
      BY <2>2 DEF Caller, Login, Sign, GenerateKey, Attest, Operate, Logout,
                  Departs
    <3>2. ~Host
      BY <3>1 DEF Host, SendRefused, SendFails, Send, ReceiveFails, ReceiveRejects,
                  Receive, Done, Retry, Rejected, CollectMore, CollectLast,
                  LoginNoRoom, Parsing
    <3>. QED
      BY <2>2, <3>2, CallerBounded
  <2>3. CASE Host
    BY <2>3, HostBounded
  <2>. QED
    BY <2>1, <2>2, <2>3 DEF Next
<1>3. Rough /\ Within => StepsLeft \in 0..Longest
  BY LeftBounded
<1>4. Rough /\ Within => (phase = "idle" <=> StepsLeft = 0)
  <2>. SUFFICES ASSUME Rough, Within PROVE phase = "idle" <=> StepsLeft = 0
    OBVIOUS
  <2>1. CASE phase = "idle"
    BY <2>1 DEF StepsLeft
  <2>2. CASE phase # "idle"
    BY <2>2, LeftBetween, FunctionsFields
  <2>. QED
    BY <2>1, <2>2
<1>. QED
  BY <1>1, <1>2, <1>3, <1>4, RoughInvariant, PTL DEF Spec, CallIsBounded
=============================================================================
