----------------------- MODULE HotplugPresence_proofs -----------------------
(***************************************************************************)
(* Once the threads have handled what was reported to them, the slot table *)
(* shows what is plugged in: however tokens, a drive and its files come    *)
(* and go while the threads watch, scan and push.                          *)
(***************************************************************************)
EXTENDS Hotplug_proofs, FiniteSetTheorems

(* Otherwise two tokens share a slot, and one that goes takes the other's   *)
(* token_present along.                                                     *)
OfDifferentKinds == \A t \in Tokens, u \in Tokens : SlotOf[t] = SlotOf[u] => t = u

Has(n, c)   == \E k \in 1..Len(n) : n[k] = c
About(n, s) == \E k \in 1..Len(n) : n[k].slot = s

Arrival   == Change(Drive, TRUE)
Departure == Change(Drive, FALSE)

Handles(p, s, a) == thread[p] = "change" /\ cur[p] = Change(s, a)
Removing == thread["flash"] \in {"drive", "removing"}

(* In the table; or the table has no place for it, and will not have one.   *)
Shown(s) == s \in present \/ ~HasSlot(s)

-----------------------------------------------------------------------------
(* What holds between C_Finalize's joins and the start of the threads.      *)
Rests ==
  /\ app \in Between => /\ news["flash"] = <<>> /\ watch = "none" /\ todo = {}
  /\ app \in (Between \ {"start"}) \cup {"flash_stop", "flash_join"} => news["usb"] = <<>>
  /\ app \in {"register", "start"} => present = {}
  /\ app = "on" => \A p \in Producers : running[p] /\ thread[p] # "off"
  /\ usable <=> app \in {"register", "start", "on"}

(* No file without its drive; a scan is of a drive that was watched.        *)
Mounted ==
  /\ \A f \in Files : f \in plugged => Drive \in plugged
  /\ watch = "live" => Drive \in plugged
  /\ thread["flash"] = "scan" => todo # {}
  /\ thread["flash"] \in {"off", "start", "loop", "mount", "drive"} => todo = {}
  /\ thread["flash"] = "off" => watch = "none"
  /\ todo # {} => watch # "none"
  /\ thread["flash"] = "start" => news["flash"] = <<>> /\ watch = "none"

TokensSettle ==
  app \in {"start", "on"} =>
    \A t \in Tokens :
      /\ Says(news["usb"], SlotOf[t], t \in plugged)
      /\ ~About(news["usb"], SlotOf[t]) =>
           IF thread["usb"] = "change" /\ cur["usb"].slot = SlotOf[t]
           THEN cur["usb"].arrived = (t \in plugged)
           ELSE IF t \in plugged THEN Shown(SlotOf[t])
                                 ELSE SlotOf[t] \notin present

(* Every arrival of the drive is noticed after its last departure.          *)
DriveSettles ==
  app = "on" =>
    /\ Says(news["flash"], Drive, Drive \in plugged)
    /\ watch = "gone" => Removing \/ Has(news["flash"], Departure)
    /\ Drive \in plugged /\ (watch # "live" \/ Removing) =>
         \/ About(news["flash"], Drive)
         \/ thread["flash"] \in {"start", "mount"}

(* A drive that is not watched has no files in the table.                   *)
Unwatched ==
  app = "on" =>
    /\ watch = "none" => \A s \in FileSlots : /\ s \notin present
                                              /\ ~Handles("flash", s, TRUE)
                                              /\ ~About(news["flash"], s)
    /\ thread["flash"] = "removing" => FileSlots \cap present \subseteq todo

Settled(f) ==
  IF f \in plugged
  THEN \/ Shown(SlotOf[f]) /\ ~Handles("flash", SlotOf[f], FALSE)
       \/ Handles("flash", SlotOf[f], TRUE)
       \/ SlotOf[f] \in todo
       \/ Has(news["flash"], Arrival)
       \/ thread["flash"] = "mount"
  ELSE /\ ~Handles("flash", SlotOf[f], TRUE)
       /\ SlotOf[f] \notin present \/ Handles("flash", SlotOf[f], FALSE)

(* The files of a watched drive, unless it is about to be removed.          *)
FilesSettle ==
  app = "on" /\ watch = "live" /\ ~Removing /\ ~Has(news["flash"], Departure) =>
    \A f \in Files :
      /\ Says(news["flash"], SlotOf[f], f \in plugged)
      /\ ~About(news["flash"], SlotOf[f]) => Settled(f)

-----------------------------------------------------------------------------
(* Lists of reported changes.                                               *)
LEMMA SameChange ==
  /\ \A s, t : Change(s, TRUE) # Change(t, FALSE) /\ Change(t, FALSE) # Change(s, TRUE)
  /\ \A s, t : /\ Change(s, TRUE) = Change(t, TRUE) <=> s = t
               /\ Change(s, FALSE) = Change(t, FALSE) <=> s = t
<1>1. ASSUME NEW s, NEW t PROVE Change(s, TRUE) # Change(t, FALSE)
  <2>1. Change(s, TRUE).arrived
    BY DEF Change
  <2>2. ~Change(t, FALSE).arrived
    BY DEF Change
  <2>. QED
    BY <2>1, <2>2
<1>2. ASSUME NEW s, NEW t, Change(s, TRUE) = Change(t, TRUE) PROVE s = t
  <2>1. Change(s, TRUE).slot = s
    BY DEF Change
  <2>2. Change(t, TRUE).slot = t
    BY DEF Change
  <2>. QED
    BY <1>2, <2>1, <2>2
<1>3. ASSUME NEW s, NEW t, Change(s, FALSE) = Change(t, FALSE) PROVE s = t
  <2>1. Change(s, FALSE).slot = s
    BY DEF Change
  <2>2. Change(t, FALSE).slot = t
    BY DEF Change
  <2>. QED
    BY <1>3, <2>1, <2>2
<1>. QED
  BY <1>1, <1>2, <1>3, Zenon

LEMMA Silent ==
  ASSUME NEW n, NEW s, NEW b, ~About(n, s)
  PROVE  Says(n, s, b) /\ \A a : ~Has(n, Change(s, a))
BY DEF About, Says, Has, Change

LEMMA Longer ==
  ASSUME NEW S, NEW n \in Seq(S), NEW e \in S
  PROVE  /\ \A c : Has(Append(n, e), c) <=> Has(n, c) \/ e = c
         /\ \A s : About(Append(n, e), s) <=> About(n, s) \/ e.slot = s
<1>. DEFINE a == Append(n, e)
<1>1. /\ Len(n) \in Nat /\ Len(a) = Len(n) + 1 /\ a[Len(n) + 1] = e
      /\ \A k \in 1..Len(n) : a[k] = n[k]
  BY AppendProperties
<1>. HIDE DEF a
<1>2. \A k \in 1..Len(a) : k \in 1..Len(n) \/ k = Len(n) + 1
  BY <1>1
<1>3. \A k \in 1..Len(n) : k \in 1..Len(a)
  BY <1>1
<1>4. Len(n) + 1 \in 1..Len(a)
  BY <1>1
<1>5. \A c : Has(a, c) <=> Has(n, c) \/ e = c
  BY <1>1, <1>2, <1>3, <1>4 DEF Has
<1>6. \A s : About(a, s) <=> About(n, s) \/ e.slot = s
  BY <1>1, <1>2, <1>3, <1>4 DEF About
<1>. QED
  BY <1>5, <1>6 DEF a

LEMMA OneMore ==
  ASSUME NEW n \in Seq(News), NEW e \in News
  PROVE  /\ Says(Append(n, e), e.slot, e.arrived)
         /\ About(Append(n, e), e.slot) /\ Has(Append(n, e), e)
         /\ \A s : s # e.slot => (About(Append(n, e), s) <=> About(n, s))
         /\ \A s, b : s # e.slot /\ Says(n, s, b) => Says(Append(n, e), s, b)
         /\ \A c : Has(n, c) => Has(Append(n, e), c)
         /\ \A c : Has(Append(n, e), c) => Has(n, c) \/ e = c
BY Longer, SaysAppend

LEMMA Shorter ==
  ASSUME NEW S, NEW n \in Seq(S), n # <<>>
  PROVE  /\ \A c : Has(n, c) <=> Head(n) = c \/ Has(Tail(n), c)
         /\ \A s : About(n, s) <=> Head(n).slot = s \/ About(Tail(n), s)
         /\ \A s, b : Says(n, s, b) => /\ Says(Tail(n), s, b)
                                       /\ Head(n).slot = s /\ ~About(Tail(n), s)
                                            => Head(n).arrived = b
<1>. DEFINE t == Tail(n)
<1>1. /\ Len(n) \in Nat \ {0} /\ Len(t) = Len(n) - 1
      /\ \A k \in 1..Len(t) : t[k] = n[k + 1] /\ k + 1 \in 1..Len(n)
  BY HeadTailProperties
<1>2. Head(n) = n[1] /\ 1 \in 1..Len(n)
  BY <1>1
<1>. HIDE DEF t
<1>3. \A k \in 1..Len(n) : k = 1 \/ (k - 1 \in 1..Len(t) /\ t[k - 1] = n[k])
  BY <1>1
<1>4. \A c : Has(n, c) <=> Head(n) = c \/ Has(t, c)
  BY <1>1, <1>2, <1>3 DEF Has
<1>5. \A s : About(n, s) <=> Head(n).slot = s \/ About(t, s)
  BY <1>1, <1>2, <1>3 DEF About
<1>6. ASSUME NEW s, NEW b, Says(n, s, b), Head(n).slot = s, ~About(t, s)
      PROVE  Head(n).arrived = b
  <2>1. PICK k \in 1..Len(n) : n[k].slot = s /\ n[k].arrived = b
    BY <1>2, <1>6 DEF Says
  <2>2. k = 1
    BY <1>3, <1>6, <2>1 DEF About
  <2>. QED
    BY <1>2, <2>1, <2>2
<1>7. \A s, b : Says(n, s, b) => Says(t, s, b)
  BY SaysTail DEF t
<1>. QED
  BY <1>4, <1>5, <1>6, <1>7 DEF t

LEMMA Forgetting ==
  ASSUME TypeOK, Unwatch
  PROVE  /\ Has(news'["flash"], Departure) <=> Has(news["flash"], Departure)
         /\ About(news'["flash"], Drive) <=> About(news["flash"], Drive)
         /\ \A b : Says(news["flash"], Drive, b) => Says(news'["flash"], Drive, b)
         /\ \A s \in Slots : ~About(news'["flash"], s)
         /\ news'["usb"] = news["usb"] /\ watch' = "none"
<1>. DEFINE n == news["flash"]
            m == [k \in DOMAIN n |-> Forgotten(n[k])]
<1>1. n \in Seq(News) /\ Len(n) \in Nat /\ DOMAIN n = 1..Len(n)
  BY DEF TypeOK, Producers
<1>2. \A k \in 1..Len(n) : m[k] = Forgotten(n[k]) /\ Forgotten(n[k]) \in News
  BY <1>1, ChangeType DEF Forgotten
<1>3. m \in [1..Len(n) -> News]
  BY <1>1, <1>2
<1>4. Len(m) = Len(n)
  BY <1>1, <1>3
<1>5. /\ \A c \in News : c.slot = Drive => Forgotten(c) = c
      /\ \A c \in News : c.slot # Drive => Forgotten(c).slot = Unknown
      /\ Unknown # Drive /\ Departure.slot = Drive /\ Departure \in News
  BY ChangeType DEF Forgotten, Unknown, Drive, Departure, Change
<1>6. news["usb"] = news'["usb"] /\ news'["flash"] = m /\ watch' = "none"
  BY DEF Unwatch, TypeOK, Producers
<1>7. \A k \in 1..Len(n) : n[k] \in News
  BY <1>1
<1>. HIDE DEF m, n
<1>8. \A k \in 1..Len(n) : /\ m[k].slot = Drive <=> n[k].slot = Drive
                           /\ n[k].slot = Drive => m[k] = n[k]
                           /\ m[k].slot \in {Drive, Unknown}
  BY <1>2, <1>5, <1>7
<1>9. Has(m, Departure) <=> Has(n, Departure)
  BY <1>4, <1>5, <1>8 DEF Has
<1>10. About(m, Drive) <=> About(n, Drive)
  BY <1>4, <1>8 DEF About
<1>11. ASSUME NEW b, Says(n, Drive, b) PROVE Says(m, Drive, b)
  BY <1>4, <1>8, <1>11 DEF Says
<1>12. \A s \in Slots : ~About(m, s)
  BY <1>4, <1>8, Disjoint DEF About
<1>. QED
  BY <1>6, <1>9, <1>10, <1>11, <1>12 DEF n

-----------------------------------------------------------------------------
(* The slot table.                                                          *)
LEMMA SameSlots ==
  ASSUME UNCHANGED <<inuse, present>>
  PROVE  \A s : Shown(s) <=> Shown(s)'
BY DEF Shown, HasSlot

LEMMA FiniteTable == IsFiniteSet(Slots \cup Others)
<1>1. IsFiniteSet(Slots)
  <2>. DEFINE f == [d \in Tokens \cup Files |-> SlotOf[d]]
  <2>1. f \in [Tokens \cup Files -> Slots]
    BY DEF Slots
  <2>2. \A s \in Slots : \E d \in Tokens \cup Files : f[d] = s
    BY DEF Slots
  <2>3. f \in Surjection(Tokens \cup Files, Slots)
    BY <2>1, <2>2 DEF Surjection
  <2>. QED
    BY <2>3, FS_Surjection, HotplugAssumption
<1>. QED
  BY <1>1, FS_Union, HotplugAssumption

(* A place that is taken is not free again. *)
LEMMA TableFills ==
  ASSUME inuse \subseteq Slots \cup Others, inuse' \subseteq Slots \cup Others,
         inuse \subseteq inuse', NEW s, s \in inuse' => HasSlot(s), ~HasSlot(s)
  PROVE  ~HasSlot(s)'
<1>1. IsFiniteSet(inuse')
  BY FiniteTable, FS_Subset
<1>2. IsFiniteSet(inuse) /\ Cardinality(inuse) <= Cardinality(inuse')
  BY <1>1, FS_Subset
<1>3. Cardinality(inuse) \in Nat /\ Cardinality(inuse') \in Nat
  BY <1>1, <1>2, FS_CardinalityType
<1>. QED
  BY <1>2, <1>3, HotplugAssumption DEF HasSlot

LEMMA UpdateFacts ==
  ASSUME TypeOK, TypeOK', NEW p \in Producers, ThreadUpdates(p),
         cur[p].arrived \in BOOLEAN
  PROVE  /\ \A s : s # cur[p].slot => /\ Shown(s) => Shown(s)'
                                      /\ s \in present' <=> s \in present
         /\ \A s : s = cur[p].slot /\ cur[p].arrived => Shown(s)'
         /\ ~cur[p].arrived => cur[p].slot \notin present'
<1>. DEFINE s0 == cur[p].slot
            a0 == cur[p].arrived
<1>1. \/ /\ a0 /\ HasSlot(s0)
         /\ inuse' = inuse \cup {s0} /\ present' = present \cup {s0}
      \/ ~a0 /\ present' = present \ {s0} /\ UNCHANGED inuse
      \/ /\ IF a0 THEN ~HasSlot(s0) ELSE s0 \notin present
         /\ UNCHANGED <<inuse, present>>
  BY DEF ThreadUpdates
<1>. HIDE DEF s0, a0
<1>2. inuse \subseteq inuse' /\ \A s : s \in inuse' => s \in inuse \/ HasSlot(s)
  BY <1>1
<1>3. \A s : ~HasSlot(s) => ~HasSlot(s)'
  <2>1. inuse \subseteq Slots \cup Others /\ inuse' \subseteq Slots \cup Others
    BY DEF TypeOK
  <2>2. \A s : s \in inuse' => HasSlot(s)
    BY <1>2 DEF HasSlot
  <2>. QED
    BY <1>2, <2>1, <2>2, TableFills
<1>4. \A s : s # s0 => (s \in present' <=> s \in present)
  BY <1>1
<1>5. \A s : s # s0 /\ Shown(s) => Shown(s)'
  BY <1>3, <1>4 DEF Shown
<1>6. ASSUME NEW s, s = s0, a0 PROVE Shown(s)'
  <2>1. s \in present' \/ ~HasSlot(s)
    BY <1>1, <1>6
  <2>. QED
    BY <1>3, <2>1 DEF Shown
<1>7. ~a0 => s0 \notin present'
  BY <1>1
<1>. QED
  BY <1>4, <1>5, <1>6, <1>7 DEF s0, a0

-----------------------------------------------------------------------------
(* What a step of one thread leaves alone.                                  *)
LEMMA ThreadFacts ==
  ASSUME TypeOK, TypeOK', Handled, Own, NEW p \in Producers, ThreadStep(p)
  PROVE  /\ UNCHANGED <<appVars, running, plugged, changes>>
         /\ thread[p] # "off" /\ (thread'[p] = "off" => ~running[p])
         /\ \A q \in Producers \ {p} : /\ thread'[q] = thread[q] /\ cur'[q] = cur[q]
                                       /\ news'[q] = news[q]
         /\ p = "usb" => /\ UNCHANGED <<todo, watch>>
                         /\ \A s \in FileSlots : /\ s \in present' <=> s \in present
                                                 /\ Shown(s) => Shown(s)'
                         /\ \/ ThreadExits(p) \/ ThreadReads(p)
                            \/ ThreadUpdates(p) \/ ThreadPushes(p)
         /\ p = "flash" => \A s \in TokenSlots : /\ s \in present' <=> s \in present
                                                 /\ Shown(s) => Shown(s)'
<1>0. /\ thread \in [Producers -> Steps] /\ cur \in [Producers -> News]
      /\ news \in [Producers -> Seq(News)] /\ Producers = {"usb", "flash"}
      /\ todo \subseteq FileSlots
  BY DEF TypeOK, Steps, Producers
<1>1. CASE ThreadExits(p)
  BY <1>0, <1>1, ThreadAlone, SameSlots DEF ThreadExits, worldVars
<1>2. CASE ThreadReads(p)
  <2>1. Handler(Head(news[p])) # "off"
    BY DEF Handler
  <2>. QED
    BY <1>0, <1>2, <2>1, ThreadAlone, SameSlots DEF ThreadReads
<1>3. Resume(p) => thread'[p] # "off"
  BY <1>0 DEF Resume
<1>4. CASE ThreadUpdates(p)
  <2>1. cur[p].slot \in OwnSlots(p)
    BY <1>4 DEF ThreadUpdates, Own
  <2>2. /\ p = "usb" => \A s \in FileSlots : s # cur[p].slot
        /\ p = "flash" => \A s \in TokenSlots : s # cur[p].slot
    BY <2>1, Disjoint DEF OwnSlots
  <2>3. thread'[p] # "off" /\ UNCHANGED <<news, running, plugged, changes, todo, watch>>
    BY <1>0, <1>3, <1>4 DEF ThreadUpdates, worldVars
  <2>4. cur[p].arrived \in BOOLEAN
    BY <1>0 DEF News
  <2>5. \A s : s # cur[p].slot => /\ s \in present' <=> s \in present
                                  /\ Shown(s) => Shown(s)'
    BY <1>4, <2>4, UpdateFacts
  <2>. QED
    BY <1>0, <1>4, <2>2, <2>3, <2>5, ThreadAlone DEF ThreadStep
<1>5. CASE ThreadPushes(p)
  BY <1>0, <1>3, <1>5, ThreadAlone, SameSlots DEF ThreadPushes, worldVars
<1>6. p = "usb" => ~(RootWatch(p) \/ WatchDrive(p) \/ ScanFile(p))
                   /\ ~(DriveBegin(p) \/ DriveSlot(p) \/ DriveEnd(p))
  BY <1>0 DEF RootWatch, WatchDrive, ScanFile, DriveBegin, DriveSlot, DriveEnd, Own
<1>7. CASE RootWatch(p) \/ WatchDrive(p) \/ ScanFile(p)
  <2>1. /\ thread'[p] # "off"
        /\ UNCHANGED <<news, running, plugged, changes, inuse, present>>
    BY <1>0, <1>3, <1>7 DEF RootWatch, WatchDrive, ScanFile, worldVars
  <2>. QED
    BY <1>0, <1>6, <1>7, <2>1, ThreadAlone, SameSlots DEF ThreadStep
<1>8. CASE DriveBegin(p) \/ DriveEnd(p)
  <2>1. /\ thread'[p] # "off" /\ UNCHANGED <<running, plugged, changes, inuse, present>>
        /\ news'["usb"] = news["usb"]
    BY <1>0, <1>8, Forgetting DEF DriveBegin, DriveEnd
  <2>. QED
    BY <1>0, <1>6, <1>8, <2>1, ThreadAlone, SameSlots DEF ThreadStep
<1>9. CASE DriveSlot(p)
  <2>1. /\ UNCHANGED <<news, running, plugged, changes, thread, inuse>>
        /\ \A s \in TokenSlots : s \in present' <=> s \in present
    BY <1>0, <1>9, Disjoint DEF DriveSlot, worldVars
  <2>2. \A s \in TokenSlots : Shown(s) => Shown(s)'
    BY <2>1 DEF Shown, HasSlot
  <2>. QED
    BY <1>0, <1>6, <1>9, <2>1, <2>2, ThreadAlone DEF ThreadStep
<1>. QED
  BY <1>1, <1>2, <1>4, <1>5, <1>7, <1>8, <1>9 DEF ThreadStep

LEMMA WaiterFacts ==
  ASSUME Asked
  PROVE  UNCHANGED <<appVars, inuse, present, threadVars, worldVars>>
BY DEF Asked, WaiterStep, TestReady, Poll, Lock, Test, Sleep, Call

-----------------------------------------------------------------------------
LEMMA RestsStep ==
  ASSUME TypeOK, TypeOK', Handled, Own, Joined, Rests, Mounted, Next
  PROVE  Rests'
<1>0. /\ thread \in [Producers -> Steps] /\ news \in [Producers -> Seq(News)]
      /\ Producers = {"usb", "flash"} /\ running \in [Producers -> BOOLEAN]
  BY DEF TypeOK, Steps, Producers
<1>. USE DEF Rests, Between
<1>1. CASE WorldStep
  <2>1. UNCHANGED <<appVars, present, running, thread, todo>>
    BY <1>1 DEF WorldStep, PlugDrive, UnplugDrive, PlugOrUnplug, Changing
  <2>2. watch = "none" => watch' = "none"
    BY <1>1 DEF WorldStep, PlugDrive, UnplugDrive, PlugOrUnplug
  <2>3. ASSUME NEW c, Tell("flash", c), app \in Between
        PROVE  UNCHANGED news
    BY <2>3 DEF Tell, Told, Joined
  <2>4. ASSUME NEW c, NEW q \in Producers, Tell(q, c),
               app \in (Between \ {"start"}) \cup {"flash_stop", "flash_join"}
        PROVE  news'["usb"] = news["usb"]
    <3>1. app \notin {"start", "on", "usb_stop", "usb_join"}
      BY <2>4
    <3>2. CASE q = "usb"
      BY <2>4, <3>1, <3>2 DEF Tell, Told
    <3>3. CASE q = "flash"
      BY <1>0, <2>4, <3>3 DEF Tell
    <3>. QED
      BY <1>0, <3>2, <3>3
  <2>5. ASSUME NEW c, Tell("usb", c) PROVE news'["flash"] = news["flash"]
    BY <1>0, <2>5 DEF Tell
  <2>6. /\ app \in Between => news'["flash"] = news["flash"]
        /\ app \in (Between \ {"start"}) \cup {"flash_stop", "flash_join"} =>
             news'["usb"] = news["usb"]
    <3>1. \E c : Tell("flash", c) \/ Tell("usb", c)
      BY <1>1 DEF WorldStep, PlugDrive, UnplugDrive, PlugOrUnplug
    <3>. QED
      BY <1>0, <2>3, <2>4, <2>5, <3>1
  <2>. QED
    BY <2>1, <2>2, <2>6 DEF appVars
<1>2. CASE InitializeBegin
  BY <1>2 DEF InitializeBegin, threadVars, worldVars
<1>3. CASE Register
  BY <1>3 DEF Register, threadVars, worldVars
<1>4. CASE InitializeEnd
  BY <1>0, <1>4 DEF InitializeEnd, worldVars
<1>5. CASE FinalizeBegin
  BY <1>5 DEF FinalizeBegin, threadVars, worldVars
<1>6. ASSUME NEW p \in Producers, StopThread(p) PROVE Rests'
  BY <1>0, <1>6 DEF StopThread, Stopping, Joining, worldVars
<1>7. ASSUME NEW p \in Producers, JoinThread(p) PROVE Rests'
  <2>1. CASE p = "usb"
    BY <1>0, <1>7, <2>1 DEF JoinThread, Joining, After, threadVars
  <2>2. CASE p = "flash"
    <3>1. app = "flash_join" /\ app' = "wake" /\ thread["flash"] = "off"
      BY <1>7, <2>2 DEF JoinThread, Joining, After
    <3>. QED
      BY <1>0, <1>7, <2>2, <3>1 DEF JoinThread, threadVars, Mounted
  <2>. QED
    BY <1>0, <2>1, <2>2
<1>8. CASE ClearReady \/ Broadcast \/ Destroy
  BY <1>8 DEF ClearReady, Broadcast, Destroy, threadVars, worldVars
<1>9. ASSUME NEW p \in Producers, ThreadStep(p) PROVE Rests'
  <2>1. /\ UNCHANGED <<appVars, running>> /\ thread[p] # "off"
        /\ thread'[p] = "off" => ~running[p]
        /\ \A q \in Producers \ {p} : thread'[q] = thread[q] /\ news'[q] = news[q]
    BY <1>9, ThreadFacts
  <2>2. app \notin Between /\ (p = "usb" => app \notin {"flash_stop", "flash_join"})
    BY <1>0, <2>1 DEF Joined
  <2>. QED
    BY <1>0, <2>1, <2>2 DEF appVars
<1>10. CASE Asked
  BY <1>10, WaiterFacts DEF appVars, threadVars, worldVars
<1>. QED
  BY <1>1, <1>2, <1>3, <1>4, <1>5, <1>6, <1>7, <1>8, <1>9, <1>10
  DEF Next, AppStep, Asked

-----------------------------------------------------------------------------
LEMMA MountedWorld ==
  ASSUME TypeOK, Mounted, WorldStep
  PROVE  Mounted'
<1>0. Drive \notin Tokens \cup Files
  BY HotplugAssumption DEF Drive
<1>1. UNCHANGED <<thread, todo>>
  BY DEF WorldStep, PlugDrive, UnplugDrive, PlugOrUnplug, Changing
<1>2. /\ watch' = watch \/ (watch = "live" /\ watch' = "gone")
      /\ watch' = "live" => watch = "live"
  BY DEF WorldStep, PlugDrive, UnplugDrive, PlugOrUnplug
<1>3. \A f \in Files : f \in plugged' => Drive \in plugged'
  BY <1>0 DEF WorldStep, PlugDrive, UnplugDrive, PlugOrUnplug, Mounted
<1>4. watch' = "live" => Drive \in plugged'
  BY <1>0 DEF WorldStep, PlugDrive, UnplugDrive, PlugOrUnplug, Mounted
<1>5. thread["flash"] = "start" => news'["flash"] = news["flash"]
  <2>1. ASSUME NEW c, Tell("flash", c), thread["flash"] = "start"
        PROVE  news' = news
    BY <2>1 DEF Tell, Told, Mounted
  <2>2. ASSUME NEW c, Tell("usb", c) PROVE news'["flash"] = news["flash"]
    BY <2>2 DEF Tell, TypeOK, Producers
  <2>3. \E c : Tell("flash", c) \/ Tell("usb", c)
    BY DEF WorldStep, PlugDrive, UnplugDrive, PlugOrUnplug
  <2>. QED
    BY <2>1, <2>2, <2>3
<1>. QED
  BY <1>1, <1>2, <1>3, <1>4, <1>5 DEF Mounted

-----------------------------------------------------------------------------
FlashInv == Mounted /\ DriveSettles /\ Unwatched /\ FilesSettle

LEMMA FlashFrame ==
  ASSUME FlashInv, UNCHANGED <<plugged, watch, todo, thread["flash"]>>,
         news'["flash"] \in {news["flash"], <<>>},
         app' = "on" => /\ app = "on" /\ UNCHANGED <<cur["flash"], news["flash"]>>
                        /\ \A s \in FileSlots : /\ s \in present' <=> s \in present
                                                /\ Shown(s) => Shown(s)'
  PROVE  FlashInv'
<1>1. Mounted'
  BY DEF FlashInv, Mounted
<1>2. DriveSettles'
  BY DEF FlashInv, DriveSettles, Says, About, Has, Removing
<1>3. Unwatched'
  BY DEF FlashInv, Unwatched, Handles, About
<1>4. FilesSettle'
  <2>. SUFFICES ASSUME app' = "on", watch = "live", ~Removing,
                       ~Has(news["flash"], Departure), NEW f \in Files
                PROVE  /\ Says(news["flash"], SlotOf[f], f \in plugged)
                       /\ ~About(news["flash"], SlotOf[f]) => Settled(f)'
    BY DEF FilesSettle, Removing, Says, About, Has
  <2>1. Settled(f) => Settled(f)'
    BY Disjoint DEF Settled, Handles, Has
  <2>. QED
    BY <2>1 DEF FlashInv, FilesSettle
<1>. QED
  BY <1>1, <1>2, <1>3, <1>4 DEF FlashInv

LEMMA FlashStarts ==
  ASSUME TypeOK, Rests, FlashInv, InitializeEnd
  PROVE  FlashInv'
<1>1. /\ thread'["flash"] = "start" /\ UNCHANGED <<plugged, watch, todo, news, present>>
      /\ watch = "none" /\ todo = {} /\ news["flash"] = <<>> /\ present = {}
  BY DEF InitializeEnd, worldVars, Rests, Between, Producers
<1>2. \A s : ~About(news'["flash"], s)
  BY <1>1 DEF About
<1>3. Mounted'
  BY <1>1 DEF Mounted, FlashInv
<1>4. DriveSettles'
  BY <1>1, <1>2, Silent DEF DriveSettles
<1>5. Unwatched' /\ FilesSettle'
  BY <1>1, <1>2 DEF Unwatched, FilesSettle, Handles
<1>. QED
  BY <1>3, <1>4, <1>5 DEF FlashInv

-----------------------------------------------------------------------------
LEMMA FlashWorld ==
  ASSUME TypeOK, Own, Rests, FlashInv, WorldStep
  PROVE  FlashInv'
<1>. DEFINE n == news["flash"]
<1>0. /\ Drive \notin Tokens \cup Files /\ Tokens \cap Files = {}
      /\ news \in [Producers -> Seq(News)] /\ n \in Seq(News) /\ Producers = {"usb", "flash"}
  BY HotplugAssumption DEF Drive, TypeOK, Producers
<1>1. UNCHANGED <<app, thread, todo, cur, present>> /\ \A s : Shown(s) <=> Shown(s)'
  BY SameSlots DEF WorldStep, PlugDrive, UnplugDrive, PlugOrUnplug, Changing, appVars
<1>2. Mounted'
  BY MountedWorld DEF FlashInv
<1>3. /\ Arrival \in News /\ Departure \in News /\ Arrival.slot = Drive
      /\ Departure.slot = Drive /\ Arrival.arrived = TRUE /\ Departure.arrived = FALSE
  BY ChangeType DEF Arrival, Departure, Change, News
<1>4. CASE PlugDrive
  <2>1. /\ Drive \notin plugged /\ Drive \in plugged' /\ UNCHANGED watch /\ watch # "live"
        /\ thread["flash"] \notin {"off", "start"} => n' = Append(n, Arrival)
        /\ thread["flash"] = "start" => n' = n /\ n = <<>> /\ watch = "none"
    BY <1>0, <1>3, <1>4 DEF PlugDrive, Tell, Told, FlashInv, Mounted, Arrival
  <2>. HIDE DEF n
  <2>2. app = "on" => thread["flash"] # "off"
    BY DEF Rests, Producers
  <2>3. CASE app = "on" /\ thread["flash"] # "start"
    <3>1. /\ Says(n', Drive, TRUE) /\ About(n', Drive)
          /\ \A s \in FileSlots : About(n', s) => About(n, s)
          /\ Has(n, Departure) => Has(n', Departure)
      <4>1. n' = Append(n, Arrival)
        BY <2>1, <2>2, <2>3
      <4>2. \A s \in FileSlots : s # Drive
        BY Disjoint
      <4>3. /\ Says(n', Drive, TRUE) /\ About(n', Drive)
            /\ \A s : s # Drive => (About(n', s) <=> About(n, s))
        <5>1. /\ Says(Append(n, Arrival), Arrival.slot, Arrival.arrived)
              /\ About(Append(n, Arrival), Arrival.slot)
              /\ \A s : s # Arrival.slot => (About(Append(n, Arrival), s) <=> About(n, s))
          BY <1>0, <1>3, OneMore
        <5>. QED
          BY <1>3, <4>1, <5>1
      <4>4. Has(n, Departure) => Has(n', Departure)
        BY <1>0, <1>3, <4>1, OneMore
      <4>. QED
        BY <4>2, <4>3, <4>4
    <3>2. DriveSettles'
      <4>1. (Drive \in plugged') = TRUE
        BY <2>1
      <4>. QED
        BY <1>1, <2>1, <2>3, <3>1, <4>1 DEF n, DriveSettles, FlashInv, Removing
    <3>3. Unwatched'
      BY <1>1, <2>1, <2>3, <3>1 DEF n, Unwatched, FlashInv, Handles
    <3>. QED
      BY <1>2, <2>1, <3>2, <3>3 DEF FlashInv, FilesSettle
  <2>4. CASE app = "on" /\ thread["flash"] = "start"
    <3>1. \A s : ~About(n', s)
      BY <2>1, <2>4 DEF About
    <3>2. DriveSettles'
      BY <1>1, <2>1, <2>4, <3>1, Silent DEF n, DriveSettles
    <3>3. Unwatched'
      BY <1>1, <2>1, <2>4, <3>1 DEF n, Unwatched, FlashInv, Handles
    <3>. QED
      BY <1>2, <2>1, <3>2, <3>3 DEF FlashInv, FilesSettle
  <2>5. CASE app # "on"
    BY <1>1, <1>2, <2>5 DEF FlashInv, DriveSettles, Unwatched, FilesSettle
  <2>. QED
    BY <2>3, <2>4, <2>5
<1>5. CASE UnplugDrive
  <2>1. /\ Drive \notin plugged' /\ watch' # "live" /\ (watch' = "none" => watch = "none")
        /\ thread["flash"] \notin {"off", "start"} => n' = Append(n, Departure)
        /\ thread["flash"] = "start" => n' = n /\ n = <<>> /\ watch' = "none"
    BY <1>0, <1>3, <1>5 DEF UnplugDrive, Tell, Told, FlashInv, Mounted, Departure
  <2>. HIDE DEF n
  <2>2. app = "on" => thread["flash"] # "off"
    BY DEF Rests, Producers
  <2>3. CASE app = "on" /\ thread["flash"] # "start"
    <3>1. /\ Says(n', Drive, FALSE) /\ Has(n', Departure)
          /\ \A s \in FileSlots : About(n', s) => About(n, s)
      <4>1. n' = Append(n, Departure)
        BY <2>1, <2>2, <2>3
      <4>. QED
        BY <1>0, <1>3, <4>1, OneMore, Disjoint
    <3>2. DriveSettles'
      <4>1. (Drive \in plugged') = FALSE
        BY <2>1
      <4>. QED
        BY <1>1, <2>1, <2>3, <3>1, <4>1 DEF n, DriveSettles
    <3>3. Unwatched'
      BY <1>1, <2>1, <2>3, <3>1 DEF n, Unwatched, FlashInv, Handles
    <3>. QED
      BY <1>2, <2>1, <3>2, <3>3 DEF FlashInv, FilesSettle
  <2>4. CASE app = "on" /\ thread["flash"] = "start"
    <3>1. \A s : ~About(n', s)
      BY <2>1, <2>4 DEF About
    <3>2. DriveSettles'
      BY <1>1, <2>1, <2>4, <3>1, Silent DEF n, DriveSettles
    <3>3. Unwatched'
      BY <1>1, <2>1, <2>4, <3>1 DEF n, Unwatched, FlashInv, Handles
    <3>. QED
      BY <1>2, <2>1, <3>2, <3>3 DEF FlashInv, FilesSettle
  <2>5. CASE app # "on"
    BY <1>1, <1>2, <2>5 DEF FlashInv, DriveSettles, Unwatched, FilesSettle
  <2>. QED
    BY <2>3, <2>4, <2>5
<1>6. ASSUME NEW d \in Tokens, PlugOrUnplug(d) PROVE FlashInv'
  <2>1. /\ UNCHANGED watch /\ n' = n /\ (Drive \in plugged' <=> Drive \in plugged)
        /\ \A f \in Files : f \in plugged' <=> f \in plugged
    BY <1>0, <1>6 DEF PlugOrUnplug, Tell
  <2>. HIDE DEF n
  <2>2. DriveSettles' /\ Unwatched'
    <3>1. DriveSettles'
      <4>1. (Drive \in plugged') = (Drive \in plugged)
        BY <2>1
      <4>. QED
        BY <1>1, <2>1, <4>1 DEF n, FlashInv, DriveSettles, Removing
    <3>2. Unwatched'
      BY <1>1, <2>1 DEF n, FlashInv, Unwatched, Handles
    <3>. QED
      BY <3>1, <3>2
  <2>3. \A f \in Files : Settled(f) => Settled(f)'
    BY <1>1, <2>1 DEF n, Settled, Handles
  <2>4. FilesSettle'
    <3>1. \A f \in Files : (f \in plugged') = (f \in plugged)
      BY <2>1
    <3>. QED
      BY <1>1, <2>1, <2>3, <3>1 DEF n, FlashInv, FilesSettle, Removing
  <2>. QED
    BY <1>2, <2>2, <2>4 DEF FlashInv
<1>7. ASSUME NEW d \in Files, PlugOrUnplug(d) PROVE FlashInv'
  <2>. DEFINE e == Change(SlotOf[d], d \notin plugged)
  <2>1. /\ UNCHANGED watch /\ Drive \in plugged /\ Drive \in plugged'
        /\ \A f \in Files : f # d => (f \in plugged' <=> f \in plugged)
        /\ (d \in plugged') = (d \notin plugged)
        /\ n' = IF watch = "live" THEN Append(n, e) ELSE n
    <3>1. d \notin Tokens /\ d # Drive /\ SlotOf[d] # Drive
      BY <1>0, Disjoint
    <3>. QED
      BY <1>0, <1>7, <3>1 DEF PlugOrUnplug, Tell, Told, Change
  <2>2. /\ e \in News /\ e.slot = SlotOf[d] /\ e.slot \in FileSlots
        /\ e.arrived = (d \in plugged') /\ e # Arrival /\ e # Departure
    BY <1>3, <2>1, ChangeType, Disjoint DEF Change
  <2>. HIDE DEF n, e
  <2>3. CASE watch = "live"
    <3>1. /\ Says(n', SlotOf[d], d \in plugged') /\ About(n', SlotOf[d])
          /\ \A f \in Files : f # d => SlotOf[f] # SlotOf[d]
          /\ \A s, b : s # SlotOf[d] /\ Says(n, s, b) => Says(n', s, b)
          /\ \A s : s # SlotOf[d] => (About(n', s) <=> About(n, s))
          /\ Has(n', Departure) <=> Has(n, Departure)
          /\ Has(n', Arrival) <=> Has(n, Arrival)
      <4>1. n' = Append(n, e)
        BY <2>1, <2>3
      <4>2. \A f \in Files : f # d => SlotOf[f] # SlotOf[d]
        BY HotplugAssumption
      <4>. QED
        BY <1>0, <2>2, <4>1, <4>2, OneMore
    <3>2. Drive # SlotOf[d]
      BY Disjoint
    <3>3. DriveSettles'
      BY <1>1, <2>1, <2>3, <3>1, <3>2 DEF n, DriveSettles, FlashInv, Removing
    <3>4. Unwatched'
      BY <1>1, <2>1, <2>3 DEF Unwatched, FlashInv
    <3>5. \A f \in Files : f # d /\ Settled(f) => Settled(f)'
      BY <1>1, <2>1, <3>1 DEF n, Settled, Handles
    <3>6. FilesSettle'
      BY <1>1, <2>1, <2>3, <3>1, <3>5 DEF n, FilesSettle, FlashInv, Removing
    <3>. QED
      BY <1>2, <3>3, <3>4, <3>6 DEF FlashInv
  <2>4. CASE watch # "live"
    BY <1>1, <1>2, <2>1, <2>4
    DEF n, FlashInv, DriveSettles, Unwatched, FilesSettle, Removing, Handles
  <2>. QED
    BY <2>3, <2>4
<1>. QED
  BY <1>4, <1>5, <1>6, <1>7 DEF WorldStep

-----------------------------------------------------------------------------
LEMMA FlashExits ==
  ASSUME TypeOK, Rests, FlashInv, ThreadExits("flash")
  PROVE  FlashInv'
<1>0. thread \in [Producers -> Steps] /\ Producers = {"usb", "flash"}
  BY DEF TypeOK, Steps, Producers
<1>1. /\ thread["flash"] = "loop" /\ thread'["flash"] = "off" /\ watch' = "none"
      /\ UNCHANGED <<todo, plugged, app>> /\ app # "on"
  BY <1>0 DEF ThreadExits, Rests, appVars, worldVars
<1>. QED
  BY <1>1 DEF FlashInv, Mounted, DriveSettles, Unwatched, FilesSettle

LEMMA FlashRootWatch ==
  ASSUME TypeOK, FlashInv, RootWatch("flash")
  PROVE  FlashInv'
<1>0. thread \in [Producers -> Steps] /\ Producers = {"usb", "flash"}
  BY DEF TypeOK, Steps, Producers
<1>1. /\ thread["flash"] = "start" /\ thread'["flash"] = "mount" /\ watch = "none"
      /\ UNCHANGED <<todo, watch, plugged, news, app, present>>
  BY <1>0 DEF RootWatch, FlashInv, Mounted, appVars, worldVars
<1>. QED
  BY <1>1 DEF FlashInv, Mounted, DriveSettles, Unwatched, FilesSettle, Removing, Handles

LEMMA FlashReads ==
  ASSUME TypeOK, Own, FlashInv, ThreadReads("flash")
  PROVE  FlashInv'
<1>. DEFINE n == news["flash"]
            c == Head(n)
<1>0. /\ thread \in [Producers -> Steps] /\ Producers = {"usb", "flash"}
      /\ cur \in [Producers -> News] /\ news \in [Producers -> Seq(News)]
      /\ n \in Seq(News) /\ n # <<>>
  BY DEF TypeOK, Steps, Producers, ThreadReads
<1>1. /\ thread["flash"] = "loop" /\ thread'["flash"] = Handler(c) /\ n' = Tail(n)
      /\ UNCHANGED <<todo, watch, plugged, app, present>> /\ \A s : Shown(s) <=> Shown(s)'
      /\ cur'["flash"] = IF Handler(c) = "change" THEN c ELSE cur["flash"]
  BY <1>0, SameSlots DEF ThreadReads, appVars
<1>2. c \in News /\ c.slot \in FileSlots \cup {Drive, Unknown}
  <2>1. Len(n) \in Nat \ {0} /\ c = n[1]
    BY <1>0
  <2>. QED
    BY <1>0, <2>1 DEF Own
<1>3. /\ \A e : Has(n, e) <=> c = e \/ Has(n', e)
      /\ \A s : About(n, s) <=> c.slot = s \/ About(n', s)
      /\ \A s, b : Says(n, s, b) => Says(n', s, b)
      /\ \A s, b : Says(n, s, b) /\ c.slot = s /\ ~About(n', s) => c.arrived = b
  BY <1>0, <1>1, Shorter
<1>4. \A s \in FileSlots : s # Drive /\ s # Unknown
  BY Disjoint
<1>5. Handler(c) \in {"loop", "mount", "drive", "change"}
  BY DEF Handler
<1>6. /\ Departure.slot = Drive /\ Arrival.slot = Drive /\ Drive # Unknown
      /\ c.arrived \in BOOLEAN /\ (c.slot = Drive /\ c.arrived => c # Departure)
  BY <1>2 DEF Departure, Arrival, Change, Drive, Unknown, News
<1>. HIDE DEF n, c
<1>7. Mounted'
  BY <1>1, <1>5 DEF FlashInv, Mounted, n
<1>8. c.slot \notin FileSlots => Unwatched'
  <2>1. c.slot \notin FileSlots => Handler(c) \in {"loop", "mount", "drive"}
    BY <1>2 DEF Handler
  <2>2. \A s \in FileSlots : About(n', s) => About(n, s)
    BY <1>3
  <2>. QED
    BY <1>1, <2>1, <2>2 DEF FlashInv, Unwatched, Handles, n
<1>9. c.slot \in FileSlots => Unwatched'
  BY <1>1, <1>3, <1>4 DEF FlashInv, Unwatched, Handler, n
<1>10. Handler(c) \in {"loop", "mount", "change"} => DriveSettles'
  BY <1>1, <1>3, <1>4, <1>6 DEF FlashInv, DriveSettles, Removing, Handler, n
<1>11. Handler(c) = "drive" => DriveSettles'
  <2>. SUFFICES ASSUME Handler(c) = "drive", app = "on" PROVE DriveSettles'
    BY <1>1 DEF DriveSettles
  <2>1. c.slot = Drive /\ ~c.arrived
    BY DEF Handler
  <2>2. Says(n, Drive, Drive \in plugged)
    BY DEF FlashInv, DriveSettles, n
  <2>3. Drive \in plugged => About(n', Drive)
    BY <1>3, <2>1, <2>2
  <2>. QED
    BY <1>1, <1>3, <2>2, <2>3 DEF DriveSettles, Removing, n
<1>12. FilesSettle'
  <2>. SUFFICES ASSUME app = "on", watch = "live", Handler(c) # "drive",
                       ~Has(n', Departure), NEW f \in Files
                PROVE  /\ Says(n', SlotOf[f], f \in plugged)
                       /\ ~About(n', SlotOf[f]) => Settled(f)'
    BY <1>1 DEF FilesSettle, Removing, n
  <2>1. ~Removing /\ ~Has(n, Departure) /\ SlotOf[f] \in FileSlots
    BY <1>1, <1>3, <1>4, <1>6, Disjoint DEF Handler, Removing
  <2>2. /\ Says(n, SlotOf[f], f \in plugged)
        /\ ~About(n, SlotOf[f]) => Settled(f)
    BY <2>1 DEF FlashInv, FilesSettle, n
  <2>3. ASSUME ~About(n', SlotOf[f]), c.slot # SlotOf[f] PROVE Settled(f)'
    <3>1. Settled(f) /\ (Has(n, Arrival) => Has(n', Arrival) \/ Handler(c) = "mount")
      BY <1>3, <1>6, <2>2, <2>3 DEF Handler, Arrival, Change
    <3>2. \A a : ~Handles("flash", SlotOf[f], a)' /\ ~Handles("flash", SlotOf[f], a)
      BY <1>1, <2>3 DEF Handles, Change
    <3>. QED
      BY <1>1, <3>1, <3>2 DEF Settled, n
  <2>4. ASSUME ~About(n', SlotOf[f]), c.slot = SlotOf[f] PROVE Settled(f)'
    <3>1. c.arrived = (f \in plugged)
      BY <1>3, <2>2, <2>4
    <3>2. Handler(c) = "change"
      BY <1>4, <2>1, <2>4 DEF Handler
    <3>3. c = Change(SlotOf[f], f \in plugged)
      BY <1>2, <2>4, <3>1 DEF Change, News
    <3>4. Handles("flash", SlotOf[f], f \in plugged)'
      BY <1>1, <3>2, <3>3 DEF Handles
    <3>5. f \in plugged => Handles("flash", SlotOf[f], TRUE)'
      BY <1>1, <3>4
    <3>6. f \notin plugged => Handles("flash", SlotOf[f], FALSE)'
      <4>1. f \notin plugged => (f \in plugged) = FALSE
        OBVIOUS
      <4>. QED
        BY <1>1, <3>4, <4>1
    <3>7. Handles("flash", SlotOf[f], FALSE)' => ~Handles("flash", SlotOf[f], TRUE)'
      BY DEF Handles, Change
    <3>. QED
      BY <1>1, <3>5, <3>6, <3>7 DEF Settled
  <2>. QED
    BY <1>3, <2>2, <2>3, <2>4
<1>. QED
  BY <1>5, <1>7, <1>8, <1>9, <1>10, <1>11, <1>12 DEF FlashInv

-----------------------------------------------------------------------------
(* A step of the flash thread that changes neither the drive's watch nor    *)
(* what is plugged in and reported: what it owes the invariant.             *)
LEMMA FlashHandles ==
  ASSUME FlashInv, UNCHANGED <<app, watch, plugged, news>>, todo' \subseteq todo,
         thread["flash"] \in {"change", "push", "scan", "removing"},
         thread'["flash"] \in {"change", "push", "scan", "loop", "removing"},
         thread["flash"] = "removing" <=> thread'["flash"] = "removing",
         thread'["flash"] = "scan" => todo' # {},
         thread'["flash"] = "loop" => todo' = {},
         app = "on" /\ watch = "none" => \A s \in FileSlots : /\ s \notin present'
                                                 /\ ~Handles("flash", s, TRUE)',
         app = "on" /\ thread["flash"] = "removing" => FileSlots \cap present' \subseteq todo',
         \A f \in Files : ~Removing /\ ~About(news["flash"], SlotOf[f]) /\ Settled(f)
                            => Settled(f)'
  PROVE  FlashInv'
<1>1. Mounted'
  BY DEF FlashInv, Mounted
<1>2. DriveSettles'
  BY DEF FlashInv, DriveSettles, Removing
<1>3. Unwatched'
  BY DEF FlashInv, Unwatched
<1>4. FilesSettle'
  BY DEF FlashInv, FilesSettle, Removing
<1>. QED
  BY <1>1, <1>2, <1>3, <1>4 DEF FlashInv

LEMMA FlashUpdates ==
  ASSUME TypeOK, TypeOK', Own, FlashInv, ThreadUpdates("flash")
  PROVE  FlashInv'
<1>. DEFINE s0 == cur["flash"].slot
            a0 == cur["flash"].arrived
<1>0. /\ thread \in [Producers -> Steps] /\ Producers = {"usb", "flash"}
      /\ cur \in [Producers -> News] /\ cur["flash"] \in News
  BY DEF TypeOK, Steps, Producers
<1>1. /\ thread["flash"] = "change" /\ UNCHANGED <<app, watch, plugged, news, todo>>
      /\ \/ thread'["flash"] = "push"
         \/ thread'["flash"] = IF todo # {} THEN "scan" ELSE "loop"
  BY <1>0 DEF ThreadUpdates, Resume, appVars, worldVars
<1>2. cur["flash"] = Change(s0, a0) /\ a0 \in BOOLEAN
  BY <1>0 DEF Change, News
<1>u. /\ \A s : s # s0 => (Shown(s) => Shown(s)') /\ (s \in present' <=> s \in present)
      /\ \A s : s = s0 /\ a0 => Shown(s)'
      /\ ~a0 => s0 \notin present'
  BY <1>0, <1>2, UpdateFacts
<1>3. \A s : /\ Handles("flash", s, TRUE) <=> s = s0 /\ a0
             /\ Handles("flash", s, FALSE) <=> s = s0 /\ ~a0
  <2>1. CASE a0 = TRUE
    <3>1. cur["flash"] = Change(s0, TRUE)
      BY <1>2, <2>1
    <3>2. \A s : Handles("flash", s, TRUE) <=> Change(s0, TRUE) = Change(s, TRUE)
      BY <1>1, <3>1 DEF Handles
    <3>3. \A s : Handles("flash", s, FALSE) <=> Change(s0, TRUE) = Change(s, FALSE)
      BY <1>1, <3>1 DEF Handles
    <3>. HIDE DEF s0, a0
    <3>. QED
      BY <2>1, <3>2, <3>3, SameChange
  <2>2. CASE a0 = FALSE
    <3>1. cur["flash"] = Change(s0, FALSE)
      BY <1>2, <2>2
    <3>2. \A s : Handles("flash", s, TRUE) <=> Change(s0, FALSE) = Change(s, TRUE)
      BY <1>1, <3>1 DEF Handles
    <3>3. \A s : Handles("flash", s, FALSE) <=> Change(s0, FALSE) = Change(s, FALSE)
      BY <1>1, <3>1 DEF Handles
    <3>. HIDE DEF s0, a0
    <3>. QED
      <4>1. ~a0
        BY <2>2
      <4>2. ASSUME NEW s, Handles("flash", s, TRUE) PROVE FALSE
        <5>1. Change(s0, FALSE) = Change(s, TRUE)
          BY <3>2, <4>2
        <5>. QED
          BY <5>1, SameChange
      <4>3. \A s : Handles("flash", s, FALSE) <=> s = s0
        BY <3>3, SameChange
      <4>. QED
        BY <4>1, <4>2, <4>3
  <2>. QED
    BY <1>2, <2>1, <2>2
<1>. HIDE DEF s0, a0
<1>4. \A s, a : ~Handles("flash", s, a)'
  BY <1>1 DEF Handles
<1>5. app = "on" /\ watch = "none" => \A s \in FileSlots : s \notin present'
  BY <1>1, <1>2, <1>3, <1>u DEF FlashInv, Unwatched
<1>6. ASSUME NEW f \in Files, Settled(f) PROVE Settled(f)'
  <2>1. CASE f \in plugged
    <3>1. CASE \/ Shown(SlotOf[f]) /\ ~Handles("flash", SlotOf[f], FALSE)
               \/ Handles("flash", SlotOf[f], TRUE)
      <4>1. SlotOf[f] = s0 => a0
        BY <1>3, <3>1
      <4>2. Shown(SlotOf[f])'
        BY <1>3, <1>u, <3>1, <4>1
      <4>. QED
        BY <1>1, <1>4, <2>1, <4>2 DEF Settled
    <3>2. CASE \/ SlotOf[f] \in todo \/ Has(news["flash"], Arrival)
      BY <1>1, <2>1, <3>2 DEF Settled
    <3>. QED
      BY <1>1, <1>6, <2>1, <3>1, <3>2 DEF Settled
  <2>2. CASE f \notin plugged
    <3>1. /\ SlotOf[f] = s0 => ~a0
          /\ SlotOf[f] # s0 => SlotOf[f] \notin present
      BY <1>3, <1>6, <2>2 DEF Settled
    <3>2. SlotOf[f] \notin present'
      BY <1>u, <3>1
    <3>. QED
      BY <1>1, <1>4, <2>2, <3>2 DEF Settled
  <2>. QED
    BY <2>1, <2>2
<1>. QED
  BY <1>1, <1>4, <1>5, <1>6, FlashHandles

LEMMA FlashPushes ==
  ASSUME TypeOK, FlashInv, ThreadPushes("flash")
  PROVE  FlashInv'
<1>0. /\ thread \in [Producers -> Steps] /\ Producers = {"usb", "flash"}
  BY DEF TypeOK, Steps, Producers
<1>1. /\ thread["flash"] = "push" /\ UNCHANGED <<app, watch, plugged, news, todo, present>>
      /\ \A s : Shown(s) <=> Shown(s)'
      /\ thread'["flash"] = IF todo # {} THEN "scan" ELSE "loop"
  BY <1>0, SameSlots DEF ThreadPushes, Resume, appVars, worldVars
<1>2. \A s, a : ~Handles("flash", s, a) /\ ~Handles("flash", s, a)'
  BY <1>1 DEF Handles
<1>3. app = "on" /\ watch = "none" => \A s \in FileSlots : s \notin present'
  BY <1>1 DEF FlashInv, Unwatched
<1>4. \A f \in Files : Settled(f) => Settled(f)'
  BY <1>1, <1>2 DEF Settled
<1>. QED
  BY <1>1, <1>2, <1>3, <1>4, FlashHandles

LEMMA FlashScans ==
  ASSUME TypeOK, FlashInv, ScanFile("flash")
  PROVE  FlashInv'
<1>0. /\ thread \in [Producers -> Steps] /\ Producers = {"usb", "flash"}
      /\ cur \in [Producers -> News] /\ news["flash"] \in Seq(News)
      /\ DOMAIN news["flash"] = 1..Len(news["flash"])
  BY DEF TypeOK, Steps, Producers
<1>1. PICK g \in Files :
        /\ SlotOf[g] \in todo /\ todo' = todo \ {SlotOf[g]}
        /\ \/ /\ g \in plugged
              /\ cur'["flash"] = Change(SlotOf[g], TRUE) /\ thread'["flash"] = "change"
           \/ /\ \/ g \notin plugged
                 \/ \E k \in DOMAIN news["flash"] :
                      news["flash"][k] \in {Change(SlotOf[g], TRUE), Change(Drive, TRUE)}
              /\ thread'["flash"] = IF todo' # {} THEN "scan" ELSE "loop"
  BY <1>0 DEF ScanFile, Resume
<1>2. /\ thread["flash"] = "scan" /\ UNCHANGED <<app, watch, plugged, news, present>>
      /\ \A s : Shown(s) <=> Shown(s)'
  BY SameSlots DEF ScanFile, appVars, worldVars
<1>3. \A s, a : ~Handles("flash", s, a)
  BY <1>2 DEF Handles
<1>4. \A f \in Files : f # g => SlotOf[f] # SlotOf[g] /\ \A a : ~Handles("flash", SlotOf[f], a)'
  <2>1. \A f \in Files : f # g => SlotOf[f] # SlotOf[g]
    BY HotplugAssumption
  <2>2. \A s, a : Handles("flash", s, a)' => s = SlotOf[g]
    BY <1>1 DEF Handles, Change
  <2>. QED
    BY <2>1, <2>2
<1>5. watch # "none"
  BY <1>1 DEF FlashInv, Mounted
<1>6. ASSUME NEW f \in Files, Settled(f), f # g PROVE Settled(f)'
  <2>1. SlotOf[f] \in todo' <=> SlotOf[f] \in todo
    BY <1>1, <1>4, <1>6
  <2>. QED
    BY <1>2, <1>3, <1>4, <1>6, <2>1 DEF Settled
<1>7. ASSUME Settled(g), ~About(news["flash"], SlotOf[g]) PROVE Settled(g)'
  <2>1. CASE g \in plugged
    <3>1. CASE thread'["flash"] = "change" /\ cur'["flash"] = Change(SlotOf[g], TRUE)
      BY <1>2, <2>1, <3>1 DEF Settled, Handles
    <3>2. CASE \E k \in DOMAIN news["flash"] :
                 news["flash"][k] \in {Change(SlotOf[g], TRUE), Change(Drive, TRUE)}
      <4>1. PICK k \in 1..Len(news["flash"]) :
              news["flash"][k] \in {Change(SlotOf[g], TRUE), Change(Drive, TRUE)}
        BY <1>0, <3>2
      <4>2. news["flash"][k] # Change(SlotOf[g], TRUE)
        BY <1>7 DEF About, Change
      <4>3. Has(news["flash"], Arrival)
        BY <4>1, <4>2 DEF Has, Arrival
      <4>. QED
        BY <1>2, <2>1, <4>3 DEF Settled
    <3>. QED
      BY <1>1, <2>1, <3>1, <3>2
  <2>2. CASE g \notin plugged
    <3>1. SlotOf[g] \notin present
      BY <1>3, <1>7, <2>2 DEF Settled
    <3>2. thread'["flash"] # "change"
      BY <1>1, <2>2
    <3>. QED
      BY <1>2, <2>2, <3>1, <3>2 DEF Settled, Handles
  <2>. QED
    BY <2>1, <2>2
<1>8. \A f \in Files : ~About(news["flash"], SlotOf[f]) /\ Settled(f) => Settled(f)'
  BY <1>6, <1>7
<1>. QED
  BY <1>1, <1>2, <1>5, <1>8, FlashHandles

LEMMA FlashWatches ==
  ASSUME TypeOK, FlashInv, WatchDrive("flash")
  PROVE  FlashInv'
<1>. DEFINE n == news["flash"]
<1>0. /\ thread \in [Producers -> Steps] /\ Producers = {"usb", "flash"}
      /\ watch \in {"none", "live", "gone"}
  BY DEF TypeOK, Steps, Producers
<1>1. /\ thread["flash"] = "mount" /\ UNCHANGED <<app, plugged, news, present>>
      /\ \A s : Shown(s) <=> Shown(s)'
      /\ thread'["flash"] = IF todo' # {} THEN "scan" ELSE "loop"
      /\ IF Drive \in plugged
         THEN watch' = (IF watch = "none" THEN "live" ELSE watch) /\ todo' = FileSlots
         ELSE UNCHANGED <<watch, todo>>
  BY <1>0, SameSlots DEF WatchDrive, Resume, appVars, worldVars
<1>2. \A s, a : ~Handles("flash", s, a) /\ ~Handles("flash", s, a)'
  BY <1>1 DEF Handles
<1>3. todo = {} /\ ~Removing /\ ~Removing'
  BY <1>1 DEF FlashInv, Mounted, Removing
<1>. HIDE DEF n
<1>4. Mounted'
  BY <1>0, <1>1, <1>3 DEF FlashInv, Mounted
<1>5. DriveSettles'
  <2>. SUFFICES ASSUME app = "on" PROVE DriveSettles'
    BY <1>1 DEF DriveSettles
  <2>1. watch' = "gone" => Has(n, Departure)
    BY <1>0, <1>1, <1>3 DEF FlashInv, DriveSettles, n
  <2>2. Has(n, Departure) => About(n, Drive)
    BY DEF Has, About, Departure, Change
  <2>3. Drive \in plugged => watch' \in {"live", "gone"}
    BY <1>0, <1>1
  <2>. QED
    BY <1>1, <1>3, <2>1, <2>2, <2>3 DEF FlashInv, DriveSettles, n
<1>6. Unwatched'
  BY <1>0, <1>1, <1>2 DEF FlashInv, Unwatched
<1>7. FilesSettle'
  <2>. SUFFICES ASSUME app = "on", watch' = "live", ~Has(n, Departure), NEW f \in Files
                PROVE  /\ Says(n, SlotOf[f], f \in plugged)
                       /\ ~About(n, SlotOf[f]) => Settled(f)'
    BY <1>1 DEF FilesSettle, n
  <2>1. Drive \in plugged /\ SlotOf[f] \in todo' /\ SlotOf[f] \in FileSlots
    BY <1>1, Disjoint DEF FlashInv, Mounted
  <2>2. CASE watch = "none"
    <3>1. SlotOf[f] \notin present /\ ~About(n, SlotOf[f])
      BY <2>1, <2>2 DEF FlashInv, Unwatched, n
    <3>. QED
      BY <1>1, <1>2, <2>1, <3>1, Silent DEF Settled
  <2>3. CASE watch = "live"
    <3>1. /\ Says(n, SlotOf[f], f \in plugged)
          /\ ~About(n, SlotOf[f]) => Settled(f)
      BY <1>3, <2>3 DEF FlashInv, FilesSettle, n
    <3>. QED
      BY <1>1, <1>2, <2>1, <3>1 DEF Settled
  <2>. QED
    BY <1>0, <1>1, <2>1, <2>2, <2>3
<1>. QED
  BY <1>4, <1>5, <1>6, <1>7 DEF FlashInv

LEMMA FlashDriveBegins ==
  ASSUME TypeOK, Joined, Rests, FlashInv, DriveBegin("flash")
  PROVE  FlashInv'
<1>0. /\ thread \in [Producers -> Steps] /\ Producers = {"usb", "flash"}
  BY DEF TypeOK, Steps, Producers
<1>1. thread["flash"] = "drive" /\ UNCHANGED <<app, plugged, present>>
  BY DEF DriveBegin, appVars
<1>2. todo = {} /\ Removing
  BY <1>1 DEF FlashInv, Mounted, Removing
<1>3. CASE usable
  <2>1. /\ thread'["flash"] = "removing" /\ todo' = FileSlots \cap present
        /\ UNCHANGED <<watch, news>>
    BY <1>0, <1>3 DEF DriveBegin
  <2>2. app = "on"
    BY <1>1, <1>3 DEF Rests, Joined, Between
  <2>3. watch = "none" => todo' = {}
    BY <2>1, <2>2 DEF FlashInv, Unwatched
  <2>4. Removing'
    BY <2>1 DEF Removing
  <2>5. Mounted'
    BY <1>1, <2>1, <2>3 DEF FlashInv, Mounted
  <2>6. DriveSettles'
    BY <1>1, <1>2, <2>1, <2>4 DEF FlashInv, DriveSettles
  <2>7. Unwatched'
    BY <1>1, <2>1 DEF FlashInv, Unwatched, Handles
  <2>. QED
    BY <2>4, <2>5, <2>6, <2>7 DEF FlashInv, FilesSettle
<1>4. CASE ~usable
  <2>1. thread'["flash"] = "loop" /\ watch' = "none" /\ todo' = todo
    BY <1>0, <1>4 DEF DriveBegin, Unwatch
  <2>2. app # "on"
    BY <1>4 DEF Rests
  <2>3. Mounted'
    BY <1>1, <1>2, <2>1 DEF FlashInv, Mounted
  <2>. QED
    BY <1>1, <2>2, <2>3 DEF FlashInv, DriveSettles, Unwatched, FilesSettle
<1>. QED
  BY <1>3, <1>4

LEMMA FlashDriveSlot ==
  ASSUME TypeOK, FlashInv, DriveSlot("flash")
  PROVE  FlashInv'
<1>1. PICK s \in todo : present' = present \ {s} /\ todo' = todo \ {s}
  BY DEF DriveSlot
<1>2. thread["flash"] = "removing" /\ UNCHANGED <<app, thread, watch, plugged, news>>
  BY DEF DriveSlot, appVars, worldVars
<1>3. \A t, a : ~Handles("flash", t, a)'
  BY <1>2 DEF Handles
<1>4. app = "on" /\ watch = "none" => \A t \in FileSlots : t \notin present'
  BY <1>1 DEF FlashInv, Unwatched
<1>5. app = "on" => FileSlots \cap present' \subseteq todo'
  BY <1>1, <1>2 DEF FlashInv, Unwatched
<1>6. Removing
  BY <1>2 DEF Removing
<1>. QED
  BY <1>1, <1>2, <1>3, <1>4, <1>5, <1>6, FlashHandles

LEMMA FlashDriveEnds ==
  ASSUME TypeOK, FlashInv, DriveEnd("flash")
  PROVE  FlashInv'
<1>. DEFINE n == news["flash"]
<1>0. /\ thread \in [Producers -> Steps] /\ Producers = {"usb", "flash"}
  BY DEF TypeOK, Steps, Producers
<1>1. /\ thread["flash"] = "removing" /\ thread'["flash"] = "loop" /\ todo = {}
      /\ UNCHANGED <<app, plugged, present, todo>> /\ Unwatch
  BY <1>0 DEF DriveEnd, appVars
<1>2. /\ About(n', Drive) <=> About(n, Drive)
      /\ \A b : Says(n, Drive, b) => Says(n', Drive, b)
      /\ \A s \in Slots : ~About(n', s)
      /\ watch' = "none"
  BY <1>1, Forgetting
<1>3. Removing /\ ~Removing'
  BY <1>1 DEF Removing
<1>4. \A s \in FileSlots : s \in Slots
  BY Disjoint
<1>. HIDE DEF n
<1>5. Mounted'
  BY <1>1, <1>2 DEF FlashInv, Mounted
<1>6. DriveSettles'
  BY <1>1, <1>2, <1>3 DEF FlashInv, DriveSettles, n
<1>7. Unwatched'
  BY <1>1, <1>2, <1>4 DEF FlashInv, Unwatched, Handles, n
<1>. QED
  BY <1>2, <1>5, <1>6, <1>7 DEF FlashInv, FilesSettle

-----------------------------------------------------------------------------
LEMMA FlashStep ==
  ASSUME TypeOK, TypeOK', Handled, Own, Joined, Rests, FlashInv, Next
  PROVE  FlashInv'
<1>0. /\ thread \in [Producers -> Steps] /\ news \in [Producers -> Seq(News)]
      /\ Producers = {"usb", "flash"}
  BY DEF TypeOK, Steps, Producers
<1>1. CASE InitializeBegin
  BY <1>1, SameSlots, FlashFrame DEF InitializeBegin, threadVars, worldVars
<1>2. CASE FinalizeBegin
  BY <1>2, SameSlots, FlashFrame DEF FinalizeBegin, threadVars, worldVars
<1>3. CASE Register
  BY <1>3, SameSlots, FlashFrame DEF Register, threadVars, worldVars
<1>4. ASSUME NEW p \in Producers, StopThread(p) PROVE FlashInv'
  BY <1>0, <1>4, SameSlots, FlashFrame DEF StopThread, Joining, worldVars
<1>5. ASSUME NEW p \in Producers, JoinThread(p) PROVE FlashInv'
  BY <1>0, <1>5, SameSlots, FlashFrame DEF JoinThread, After, threadVars
<1>6. CASE ClearReady \/ Broadcast \/ Destroy
  BY <1>6, SameSlots, FlashFrame DEF ClearReady, Broadcast, Destroy, threadVars, worldVars
<1>7. CASE Asked
  BY <1>7, WaiterFacts, SameSlots, FlashFrame DEF appVars, threadVars, worldVars
<1>8. CASE ThreadStep("usb")
  BY <1>0, <1>8, ThreadFacts, FlashFrame DEF appVars
<1>9. CASE ThreadStep("flash")
  BY <1>9, FlashExits, FlashReads, FlashUpdates, FlashPushes, FlashRootWatch, FlashWatches,
     FlashScans, FlashDriveBegins, FlashDriveSlot, FlashDriveEnds DEF ThreadStep
<1>. QED
  BY <1>0, <1>1, <1>2, <1>3, <1>4, <1>5, <1>6, <1>7, <1>8, <1>9, FlashStarts, FlashWorld
  DEF Next, AppStep, Asked

-----------------------------------------------------------------------------
(* A token, once libusb's reports of it have been read.                     *)
Counted(t) ==
  IF thread["usb"] = "change" /\ cur["usb"].slot = SlotOf[t]
  THEN cur["usb"].arrived = (t \in plugged)
  ELSE IF t \in plugged THEN Shown(SlotOf[t]) ELSE SlotOf[t] \notin present

LEMMA TokensFrame ==
  ASSUME TokensSettle,
         app' \in {"start", "on"} =>
           /\ app \in {"start", "on"} /\ UNCHANGED news["usb"]
           /\ \A t \in Tokens : t \in plugged' <=> t \in plugged
           /\ \A t \in Tokens : Counted(t) => Counted(t)'
  PROVE  TokensSettle'
<1>. SUFFICES ASSUME app' \in {"start", "on"}, NEW t \in Tokens
              PROVE  /\ Says(news'["usb"], SlotOf[t], t \in plugged')
                     /\ ~About(news'["usb"], SlotOf[t]) => Counted(t)'
  BY DEF TokensSettle, Counted
<1>1. /\ Says(news["usb"], SlotOf[t], t \in plugged)
      /\ ~About(news["usb"], SlotOf[t]) => Counted(t)
  BY DEF TokensSettle, Counted
<1>2. (t \in plugged') = (t \in plugged)
  OBVIOUS
<1>. QED
  BY <1>1, <1>2

LEMMA TokensWorld ==
  ASSUME OfDifferentKinds, TypeOK, TokensSettle, WorldStep
  PROVE  TokensSettle'
<1>. DEFINE n == news["usb"]
<1>0. /\ Drive \notin Tokens \cup Files /\ Tokens \cap Files = {}
      /\ news \in [Producers -> Seq(News)] /\ n \in Seq(News) /\ Producers = {"usb", "flash"}
  BY HotplugAssumption DEF Drive, TypeOK, Producers
<1>1. UNCHANGED <<app, thread, cur, present>> /\ \A s : Shown(s) <=> Shown(s)'
  BY SameSlots DEF WorldStep, PlugDrive, UnplugDrive, PlugOrUnplug, Changing, appVars
<1>2. ASSUME n' = n, \A t \in Tokens : t \in plugged' <=> t \in plugged
      PROVE  TokensSettle'
  BY <1>1, <1>2, TokensFrame DEF Counted
<1>3. CASE PlugDrive \/ UnplugDrive \/ \E d \in Files : PlugOrUnplug(d)
  <2>1. \A t \in Tokens : t \in plugged' <=> t \in plugged
    BY <1>0, <1>3 DEF PlugDrive, UnplugDrive, PlugOrUnplug
  <2>2. \E c : Tell("flash", c)
    BY <1>0, <1>3 DEF PlugDrive, UnplugDrive, PlugOrUnplug
  <2>3. n' = n
    BY <1>0, <2>2 DEF Tell
  <2>. QED
    BY <1>2, <2>1, <2>3
<1>4. ASSUME NEW d \in Tokens, PlugOrUnplug(d), app \in {"start", "on"}, NEW t \in Tokens
      PROVE  /\ Says(n', SlotOf[t], t \in plugged')
             /\ ~About(n', SlotOf[t]) => Counted(t)'
  <2>. DEFINE e == Change(SlotOf[d], d \notin plugged)
  <2>1. n' = Append(n, e) /\ (d \in plugged') = (d \notin plugged)
    BY <1>0, <1>4 DEF PlugOrUnplug, Tell, Told
  <2>2. e \in News /\ e.slot = SlotOf[d] /\ e.arrived = (d \in plugged')
    BY <2>1, ChangeType, Disjoint DEF Change
  <2>3. /\ Says(n, SlotOf[t], t \in plugged)
        /\ ~About(n, SlotOf[t]) => Counted(t)
    BY <1>4 DEF TokensSettle, Counted, n
  <2>. HIDE DEF n, e
  <2>4. CASE t = d
    BY <1>0, <2>1, <2>2, <2>4, OneMore
  <2>5. CASE t # d
    <3>1. SlotOf[t] # SlotOf[d]
      BY <2>5 DEF OfDifferentKinds
    <3>2. (t \in plugged') = (t \in plugged)
      BY <1>4, <2>5 DEF PlugOrUnplug
    <3>3. Says(n', SlotOf[t], t \in plugged)
      BY <1>0, <2>1, <2>2, <2>3, <3>1, OneMore
    <3>4. About(n', SlotOf[t]) <=> About(n, SlotOf[t])
      BY <1>0, <2>1, <2>2, <3>1, OneMore
    <3>5. Counted(t) => Counted(t)'
      BY <1>1, <3>2 DEF Counted
    <3>. QED
      BY <2>3, <3>2, <3>3, <3>4, <3>5
  <2>. QED
    BY <2>4, <2>5
<1>5. ASSUME NEW d \in Tokens, PlugOrUnplug(d) PROVE TokensSettle'
  BY <1>1, <1>4, <1>5 DEF TokensSettle, Counted
<1>. QED
  BY <1>3, <1>5 DEF WorldStep

LEMMA TokensThread ==
  ASSUME TypeOK, TypeOK', Handled, Own, Joined, TokensSettle, ThreadStep("usb")
  PROVE  TokensSettle'
<1>. DEFINE n == news["usb"]
<1>0. /\ thread \in [Producers -> Steps] /\ Producers = {"usb", "flash"}
      /\ cur \in [Producers -> News] /\ news \in [Producers -> Seq(News)]
      /\ n \in Seq(News)
  BY DEF TypeOK, Steps, Producers
<1>1. UNCHANGED <<app, plugged>>
  BY <1>0, ThreadFacts DEF appVars
<1>2. CASE ThreadExits("usb") \/ ThreadPushes("usb")
  <2>1. /\ thread["usb"] # "change" /\ thread'["usb"] # "change"
        /\ UNCHANGED <<news, present>> /\ \A s : Shown(s) <=> Shown(s)'
    BY <1>0, <1>2, SameSlots DEF ThreadExits, ThreadPushes, Resume, worldVars
  <2>. QED
    BY <1>1, <2>1, TokensFrame DEF Counted
<1>3. CASE ThreadUpdates("usb")
  <2>. DEFINE s0 == cur["usb"].slot
              a0 == cur["usb"].arrived
  <2>1. /\ thread["usb"] = "change" /\ thread'["usb"] # "change"
        /\ UNCHANGED news /\ a0 \in BOOLEAN
    BY <1>0, <1>3 DEF ThreadUpdates, Resume, worldVars, News
  <2>2. /\ \A s : s # s0 => (Shown(s) => Shown(s)') /\ (s \in present' <=> s \in present)
        /\ \A s : s = s0 /\ a0 => Shown(s)'
        /\ ~a0 => s0 \notin present'
    BY <1>0, <1>3, <2>1, UpdateFacts
  <2>3. \A t \in Tokens : Counted(t) => Counted(t)'
    BY <1>1, <2>1, <2>2 DEF Counted
  <2>. QED
    BY <1>1, <2>1, <2>3, TokensFrame
<1>4. CASE ThreadReads("usb")
  <2>. DEFINE c == Head(n)
  <2>1. /\ n # <<>> /\ n' = Tail(n) /\ thread["usb"] = "loop" /\ UNCHANGED present
        /\ \A s : Shown(s) <=> Shown(s)'
    BY <1>0, <1>4, SameSlots DEF ThreadReads
  <2>2. c.slot \in TokenSlots
    <3>1. Len(n) \in Nat \ {0} /\ c = n[1]
      BY <1>0, <2>1
    <3>. QED
      BY <3>1 DEF Own
  <2>3. Handler(c) = "change"
    BY <2>2, Disjoint DEF Handler
  <2>4. thread'["usb"] = "change" /\ cur'["usb"] = c
    BY <1>0, <1>4, <2>3 DEF ThreadReads
  <2>. HIDE DEF n, c
  <2>5. /\ \A s : About(n, s) <=> c.slot = s \/ About(n', s)
        /\ \A s, b : Says(n, s, b) => /\ Says(n', s, b)
                                      /\ c.slot = s /\ ~About(n', s) => c.arrived = b
    BY <1>0, <2>1, Shorter DEF c
  <2>6. ASSUME app \in {"start", "on"}, NEW t \in Tokens
        PROVE  /\ Says(n', SlotOf[t], t \in plugged)
               /\ ~About(n', SlotOf[t]) => Counted(t)'
    <3>1. /\ Says(n, SlotOf[t], t \in plugged)
          /\ ~About(n, SlotOf[t]) => Counted(t)
      BY <2>6 DEF TokensSettle, Counted, n
    <3>2. CASE c.slot = SlotOf[t]
      BY <1>1, <2>4, <2>5, <3>1, <3>2 DEF Counted
    <3>3. CASE c.slot # SlotOf[t]
      BY <1>1, <2>1, <2>4, <2>5, <3>1, <3>3 DEF Counted
    <3>. QED
      BY <3>2, <3>3
  <2>. QED
    BY <1>1, <2>6 DEF TokensSettle, Counted, n
<1>. QED
  BY <1>0, <1>2, <1>3, <1>4, ThreadFacts

LEMMA TokensStep ==
  ASSUME OfDifferentKinds, TypeOK, TypeOK', Handled, Own, Joined, Rests, TokensSettle, Next
  PROVE  TokensSettle'
<1>0. /\ thread \in [Producers -> Steps] /\ news \in [Producers -> Seq(News)]
      /\ Producers = {"usb", "flash"}
  BY DEF TypeOK, Steps, Producers
<1>1. CASE InitializeBegin \/ FinalizeBegin \/ ClearReady \/ Broadcast \/ Destroy
  <2>1. app' \notin {"start", "on"}
    BY <1>1 DEF InitializeBegin, FinalizeBegin, ClearReady, Broadcast, Destroy
  <2>. QED
    BY <2>1 DEF TokensSettle
<1>2. ASSUME NEW p \in Producers, StopThread(p) \/ JoinThread(p) PROVE TokensSettle'
  <2>1. app' \notin {"start", "on"}
    BY <1>2 DEF StopThread, JoinThread, Joining, After
  <2>. QED
    BY <2>1 DEF TokensSettle
<1>3. CASE Register
  <2>1. /\ Tokens \cap plugged = {} /\ news["usb"] = <<>> /\ present = {}
        /\ UNCHANGED <<news, plugged, present, thread>> /\ thread["usb"] = "off"
    BY <1>3 DEF Register, Rests, Between, Joined, threadVars, worldVars
  <2>2. \A s : ~About(news["usb"], s)
    BY <2>1 DEF About
  <2>3. \A t \in Tokens : t \notin plugged
    BY <2>1
  <2>. QED
    BY <2>1, <2>2, <2>3, Silent DEF TokensSettle
<1>4. CASE InitializeEnd
  <2>1. /\ UNCHANGED <<news, plugged, present, cur>> /\ app = "start"
        /\ thread["usb"] = "off" /\ thread'["usb"] = "loop"
        /\ \A s : Shown(s) <=> Shown(s)'
    BY <1>0, <1>4, SameSlots DEF InitializeEnd, Joined, Between, worldVars
  <2>. QED
    BY <2>1, TokensFrame DEF Counted
<1>5. CASE ThreadStep("flash")
  <2>1. /\ UNCHANGED <<app, plugged, thread["usb"], cur["usb"], news["usb"]>>
        /\ \A s \in TokenSlots : /\ s \in present' <=> s \in present
                                 /\ Shown(s) => Shown(s)'
    BY <1>0, <1>5, ThreadFacts DEF appVars
  <2>2. ASSUME NEW t \in Tokens
        PROVE  /\ SlotOf[t] \in present' <=> SlotOf[t] \in present
               /\ Shown(SlotOf[t]) => Shown(SlotOf[t])'
    <3>1. SlotOf[t] \in TokenSlots
      BY DEF TokenSlots
    <3>. QED
      BY <2>1, <3>1
  <2>. QED
    BY <2>1, <2>2, TokensFrame DEF Counted
<1>6. CASE Asked
  <2>1. /\ UNCHANGED <<app, present, thread, cur, news, plugged>>
        /\ \A s : Shown(s) <=> Shown(s)'
    BY <1>6, WaiterFacts, SameSlots DEF appVars, threadVars, worldVars
  <2>. QED
    BY <2>1, TokensFrame DEF Counted
<1>. QED
  BY <1>0, <1>1, <1>2, <1>3, <1>4, <1>5, <1>6, TokensWorld, TokensThread
  DEF Next, AppStep, Asked

-----------------------------------------------------------------------------
Presence == Rests /\ FlashInv /\ TokensSettle

LEMMA PresenceInvariant == OfDifferentKinds => (Spec => []Presence)
<1>. SUFFICES ASSUME OfDifferentKinds PROVE Spec => []Presence
  OBVIOUS
<1>1. Init => Presence
  <2>. SUFFICES ASSUME Init PROVE Presence
    OBVIOUS
  <2>1. /\ app = "off" /\ thread["flash"] = "off" /\ watch = "none" /\ todo = {}
        /\ news["flash"] = <<>> /\ news["usb"] = <<>> /\ ~usable
    BY DEF Init, Producers
  <2>2. \A f \in Files : f \in plugged => Drive \in plugged
    BY HotplugAssumption DEF Init, Drive
  <2>3. Rests
    BY <2>1 DEF Rests, Between
  <2>4. FlashInv
    BY <2>1, <2>2 DEF FlashInv, Mounted, DriveSettles, Unwatched, FilesSettle
  <2>. QED
    BY <2>1, <2>3, <2>4 DEF Presence, TokensSettle
<1>2. HotInv /\ HotInv' /\ Presence /\ [Next]_vars => Presence'
  <2>. SUFFICES ASSUME HotInv, HotInv', Presence, [Next]_vars PROVE Presence'
    OBVIOUS
  <2>1. CASE Next
    BY <2>1, RestsStep, FlashStep, TokensStep DEF HotInv, Presence, FlashInv
  <2>2. CASE UNCHANGED vars
    <3>1. /\ UNCHANGED <<app, usable, running, present, thread, cur>>
          /\ UNCHANGED <<todo, watch, plugged, news>>
          /\ \A s : Shown(s) <=> Shown(s)'
      BY <2>2, SameSlots DEF vars, appVars, threadVars, worldVars
    <3>2. FlashInv'
      BY <3>1, FlashFrame DEF Presence
    <3>3. TokensSettle'
      BY <3>1, TokensFrame DEF Presence, Counted
    <3>4. Rests'
      BY <3>1 DEF Presence, Rests
    <3>. QED
      BY <3>2, <3>3, <3>4 DEF Presence
  <2>. QED
    BY <2>1, <2>2
<1>. QED
  BY <1>1, <1>2, HotInvariant, PTL DEF Spec

(* Once the threads have handled what was reported to them, token_present   *)
(* is of what is plugged in (comment at line 381), and of all of it for     *)
(* which the slot table has a place, if no two tokens are of one vid and    *)
(* pid.                                                                     *)
THEOREM TableShowsTokens == OfDifferentKinds => (Spec => []PresentIsPlugged)
<1>1. HotInv /\ Presence => PresentIsPlugged
  <2>. SUFFICES ASSUME HotInv, Presence, up, \A p \in Producers : thread[p] = "loop",
                       \A p \in Producers : news[p] = <<>>
                PROVE  /\ present \subseteq {SlotOf[d] : d \in plugged \ {Drive}}
                       /\ \A d \in plugged \ {Drive} : Shown(SlotOf[d])
    BY DEF PresentIsPlugged, Shown
  <2>1. /\ app = "on" /\ thread["usb"] = "loop" /\ thread["flash"] = "loop"
        /\ todo = {} /\ watch \in {"none", "live", "gone"}
        /\ present \subseteq Slots /\ plugged \subseteq Tokens \cup Files \cup {Drive}
    BY DEF HotInv, Joined, TypeOK, Presence, FlashInv, Mounted, Producers
  <2>2. /\ \A p \in Producers : \A s : ~About(news[p], s)
        /\ \A p \in Producers : \A c : ~Has(news[p], c)
    BY DEF About, Has
  <2>3. /\ ~Removing /\ \A s, a : ~Handles("flash", s, a)
        /\ \A s : ~About(news["usb"], s) /\ ~About(news["flash"], s)
        /\ \A c : ~Has(news["flash"], c)
    BY <2>1, <2>2 DEF Removing, Handles, Producers
  <2>4. \A t \in Tokens : IF t \in plugged THEN Shown(SlotOf[t])
                                         ELSE SlotOf[t] \notin present
    BY <2>1, <2>3 DEF Presence, TokensSettle
  <2>5. \A f \in Files : IF f \in plugged THEN Shown(SlotOf[f])
                                        ELSE SlotOf[f] \notin present
    <3>1. CASE watch = "live"
      BY <2>1, <2>3, <3>1 DEF Presence, FlashInv, FilesSettle, Settled
    <3>2. CASE watch = "none"
      <4>1. \A f \in Files : SlotOf[f] \notin present
        BY <2>1, <3>2, Disjoint DEF Presence, FlashInv, Unwatched
      <4>2. Drive \notin plugged
        BY <2>1, <2>3, <3>2 DEF Presence, FlashInv, DriveSettles
      <4>. QED
        BY <4>1, <4>2 DEF Presence, FlashInv, Mounted
    <3>3. watch # "gone"
      BY <2>1, <2>3 DEF Presence, FlashInv, DriveSettles
    <3>. QED
      BY <2>1, <3>1, <3>2, <3>3
  <2>6. Drive \notin Tokens \cup Files
    BY HotplugAssumption DEF Drive
  <2>7. ASSUME NEW s \in present PROVE s \in {SlotOf[d] : d \in plugged \ {Drive}}
    <3>1. PICK d \in Tokens \cup Files : s = SlotOf[d]
      BY <2>1 DEF Slots
    <3>2. d \in plugged \ {Drive}
      BY <2>4, <2>5, <2>6, <3>1
    <3>. QED
      BY <3>1, <3>2
  <2>8. ASSUME NEW d \in plugged \ {Drive} PROVE Shown(SlotOf[d])
    BY <2>1, <2>4, <2>5
  <2>. QED
    BY <2>7, <2>8
<1>. QED
  BY <1>1, HotInvariant, PresenceInvariant, PTL
=============================================================================
