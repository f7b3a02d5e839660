--------------------------- MODULE Hotplug_proofs ---------------------------
(***************************************************************************)
(* The ring buffer of the hotplug events is a bounded queue, no wakeup of  *)
(* a caller of C_WaitForSlotEvent is lost, and the queued events agree     *)
(* with the slot table: for any tokens, files, callers and size of queue.  *)
(***************************************************************************)
EXTENDS Hotplug, SequenceTheorems, TLAPS

Indices == 0..QueueSize - 1

-----------------------------------------------------------------------------
(* The ring buffer.                                                         *)
LEMMA ModSmall ==
  \A x \in Nat : /\ x < QueueSize => x % QueueSize = x
                 /\ QueueSize <= x /\ x < QueueSize + QueueSize
                      => x % QueueSize = x - QueueSize
BY HotplugAssumption

LEMMA Next1Is ==
  ASSUME NEW i \in Indices
  PROVE  /\ Next1(i) \in Indices
         /\ Next1(i) = IF i + 1 < QueueSize THEN i + 1 ELSE 0
<1>1. QueueSize \in Nat \ {0, 1} /\ i + 1 \in Nat /\ i + 1 <= QueueSize
  BY HotplugAssumption DEF Indices
<1>. QED
  BY <1>1, ModSmall DEF Next1, Indices

(* How many events there are from index h to index t, and where the k-th is. *)
Cnt(h, t) == IF h <= t THEN t - h ELSE t + QueueSize - h
Idx(h, k) == IF h + k - 1 < QueueSize THEN h + k - 1 ELSE h + k - 1 - QueueSize

LEMMA CntIs ==
  ASSUME NEW h \in Indices, NEW t \in Indices
  PROVE  /\ (t + QueueSize - h) % QueueSize = Cnt(h, t)
         /\ Cnt(h, t) \in 0..QueueSize - 1
         /\ \A k \in 1..QueueSize : /\ (h + k - 1) % QueueSize = Idx(h, k)
                                    /\ Idx(h, k) \in Indices
<1>1. QueueSize \in Nat \ {0, 1} /\ h \in Nat /\ t \in Nat /\ h < QueueSize /\ t < QueueSize
  BY HotplugAssumption DEF Indices
<1>2. t + QueueSize - h \in Nat /\ t + QueueSize - h < QueueSize + QueueSize
  BY <1>1
<1>3. (t + QueueSize - h) % QueueSize = Cnt(h, t)
  BY <1>1, <1>2, ModSmall DEF Cnt
<1>4. Cnt(h, t) \in 0..QueueSize - 1
  BY <1>1 DEF Cnt
<1>5. ASSUME NEW k \in 1..QueueSize
      PROVE  (h + k - 1) % QueueSize = Idx(h, k) /\ Idx(h, k) \in Indices
  <2>1. h + k - 1 \in Nat /\ h + k - 1 < QueueSize + QueueSize
    BY <1>1
  <2>. QED
    BY <1>1, <2>1, ModSmall DEF Idx, Indices
<1>. QED
  BY <1>3, <1>4, <1>5

(* The events from index h to index t of the array r. *)
Con(r, h, t) == [k \in 1..Cnt(h, t) |-> r[Idx(h, k)]]

LEMMA ConIs ==
  ASSUME NEW r, NEW h \in Indices, NEW t \in Indices
  PROVE  [k \in 1..((t + QueueSize - h) % QueueSize) |-> r[(h + k - 1) % QueueSize]]
           = Con(r, h, t)
<1>1. (t + QueueSize - h) % QueueSize = Cnt(h, t) /\ Cnt(h, t) \in 0..QueueSize - 1
  BY CntIs
<1>2. \A k \in 1..Cnt(h, t) : k \in 1..QueueSize
  BY <1>1, HotplugAssumption
<1>3. \A k \in 1..Cnt(h, t) : (h + k - 1) % QueueSize = Idx(h, k)
  BY <1>2, CntIs
<1>. QED
  BY <1>1, <1>3 DEF Con

LEMMA ConType ==
  ASSUME NEW r \in [Indices -> Events], NEW h \in Indices, NEW t \in Indices
  PROVE  /\ Con(r, h, t) \in Seq(Events) /\ Len(Con(r, h, t)) = Cnt(h, t)
         /\ Cnt(h, t) \in Nat
         /\ \A k \in 1..Cnt(h, t) : Idx(h, k) \in Indices /\ Con(r, h, t)[k] = r[Idx(h, k)]
<1>1. Cnt(h, t) \in 0..QueueSize - 1 /\ QueueSize \in Nat /\ Cnt(h, t) \in Nat
  BY CntIs, HotplugAssumption
<1>2. \A k \in 1..Cnt(h, t) : Idx(h, k) \in Indices
  <2>1. \A k \in 1..Cnt(h, t) : k \in 1..QueueSize
    BY <1>1
  <2>. QED
    BY <2>1, CntIs
<1>3. Con(r, h, t) \in [1..Cnt(h, t) -> Events]
  BY <1>2 DEF Con
<1>4. Con(r, h, t) \in Seq(Events) /\ Len(Con(r, h, t)) = Cnt(h, t)
  BY <1>1, <1>3
<1>. QED
  BY <1>1, <1>2, <1>4 DEF Con

LEMMA Bounds ==
  ASSUME NEW h \in Indices
  PROVE  QueueSize \in Nat \ {0, 1} /\ h \in Nat /\ h < QueueSize
BY HotplugAssumption DEF Indices

LEMMA Pushed ==
  ASSUME NEW r \in [Indices -> Events], NEW h \in Indices, NEW t \in Indices,
         NEW e \in Events, Next1(t) # h
  PROVE  Con([r EXCEPT ![t] = e], h, Next1(t)) = Append(Con(r, h, t), e)
<1>. DEFINE n == Cnt(h, t)
            q == [r EXCEPT ![t] = e]
<1>1. Next1(t) = IF t + 1 < QueueSize THEN t + 1 ELSE 0
  BY Next1Is
<1>2. n \in Nat /\ Cnt(h, Next1(t)) = n + 1
  BY <1>1, Bounds, ConType DEF Cnt
<1>3. Idx(h, n + 1) = t
  BY Bounds DEF Cnt, Idx
<1>4. \A k \in 1..n : Idx(h, k) # t /\ Idx(h, k) \in Indices
  <2>1. \A k \in 1..n : Idx(h, k) # t
    BY Bounds DEF Cnt, Idx
  <2>. QED
    BY <2>1, ConType
<1>5. Con(q, h, Next1(t)) = [k \in 1..n + 1 |-> q[Idx(h, k)]]
  BY <1>2 DEF Con
<1>. HIDE DEF n
<1>6. \A k \in 1..n : q[Idx(h, k)] = Con(r, h, t)[k]
  BY <1>4, ConType DEF n
<1>7. q[Idx(h, n + 1)] = e
  BY <1>3
<1>8. q \in [Indices -> Events] /\ Next1(t) \in Indices
  BY Next1Is
<1>9. /\ Con(r, h, t) \in Seq(Events) /\ Len(Con(r, h, t)) = n
      /\ Con(q, h, Next1(t)) \in Seq(Events) /\ Len(Con(q, h, Next1(t))) = n + 1
  BY <1>2, <1>8, ConType DEF n
<1>. HIDE DEF q
<1>10. \A k \in 1..n + 1 : k = n + 1 \/ k \in 1..n
  BY <1>2
<1>. DEFINE a == Append(Con(r, h, t), e)
<1>11. a \in Seq(Events) /\ Len(a) = n + 1 /\ a[n + 1] = e
       /\ \A k \in 1..n : a[k] = Con(r, h, t)[k]
  BY <1>9, AppendProperties
<1>. HIDE DEF a
<1>12. \A k \in 1..n + 1 : Con(q, h, Next1(t))[k] = a[k]
  BY <1>5, <1>6, <1>7, <1>10, <1>11
<1>13. Con(q, h, Next1(t)) = a
  BY <1>9, <1>11, <1>12, SeqEqual
<1>. QED
  BY <1>13 DEF q, a

LEMMA Taken ==
  ASSUME NEW r \in [Indices -> Events], NEW h \in Indices, NEW t \in Indices,
         NEW e \in Events, h # t
  PROVE  /\ Con(r, h, t) # <<>>
         /\ Con([r EXCEPT ![h] = e], Next1(h), t) = Tail(Con(r, h, t))
<1>. DEFINE n == Cnt(h, t)
            q == [r EXCEPT ![h] = e]
<1>1. Next1(h) = IF h + 1 < QueueSize THEN h + 1 ELSE 0
  BY Next1Is
<1>2. n \in Nat \ {0} /\ Cnt(Next1(h), t) = n - 1
  BY <1>1, Bounds, ConType DEF Cnt
<1>3. \A k \in 1..n - 1 : Idx(Next1(h), k) = Idx(h, k + 1) /\ Idx(h, k + 1) # h
  BY <1>1, <1>2, Bounds DEF Cnt, Idx
<1>4. Con(q, Next1(h), t) = [k \in 1..n - 1 |-> q[Idx(h, k + 1)]]
  BY <1>2, <1>3 DEF Con
<1>. HIDE DEF n
<1>5. \A k \in 1..n - 1 : k + 1 \in 1..n
  BY <1>2
<1>6. \A k \in 1..n - 1 : q[Idx(h, k + 1)] = Con(r, h, t)[k + 1]
  BY <1>3, <1>5, ConType DEF n
<1>7. Con(r, h, t) \in Seq(Events) /\ Len(Con(r, h, t)) = n
  BY ConType DEF n
<1>8. q \in [Indices -> Events] /\ Next1(h) \in Indices
  BY Next1Is
<1>9. Con(q, Next1(h), t) \in Seq(Events) /\ Len(Con(q, Next1(h), t)) = n - 1
  <2>. HIDE DEF q
  <2>. QED
    BY <1>2, <1>8, ConType
<1>10. Con(r, h, t) # <<>>
  BY <1>2, <1>7
<1>. DEFINE a == Tail(Con(r, h, t))
<1>11. /\ a \in Seq(Events) /\ Len(a) = n - 1
       /\ \A k \in 1..n - 1 : a[k] = Con(r, h, t)[k + 1]
  BY <1>7, <1>10, HeadTailProperties
<1>. HIDE DEF a, q
<1>12. \A k \in 1..n - 1 : Con(q, Next1(h), t)[k] = a[k]
  BY <1>4, <1>6, <1>11
<1>13. Con(q, Next1(h), t) = a
  BY <1>9, <1>11, <1>12, SeqEqual
<1>. QED
  BY <1>10, <1>13 DEF q, a

LEMMA Sizes ==
  ASSUME NEW h \in Indices, NEW t \in Indices
  PROVE  /\ Cnt(h, t) \in 0..QueueSize - 1
         /\ Cnt(h, t) = 0 <=> h = t
         /\ Cnt(h, t) < QueueSize - 1 <=> Next1(t) # h
<1>1. Next1(t) = IF t + 1 < QueueSize THEN t + 1 ELSE 0
  BY Next1Is
<1>2. /\ QueueSize \in Nat \ {0, 1} /\ h \in Nat /\ h < QueueSize
      /\ t \in Nat /\ t < QueueSize
  BY Bounds
<1>. QED
  BY <1>1, <1>2 DEF Cnt

-----------------------------------------------------------------------------
RingOK == ring \in [Indices -> Events] /\ head \in Indices /\ tail \in Indices

LEMMA TheContents ==
  /\ RingOK => Contents = Con(ring, head, tail) /\ Count = Cnt(head, tail)
  /\ RingOK' => Contents' = Con(ring', head', tail') /\ Count' = Cnt(head', tail')
<1>1. RingOK => Contents = Con(ring, head, tail) /\ Count = Cnt(head, tail)
  BY ConIs, CntIs DEF RingOK, Contents, Count
<1>2. RingOK' => Contents' = Con(ring', head', tail') /\ Count' = Cnt(head', tail')
  BY ConIs, CntIs DEF RingOK, Contents, Count
<1>. QED
  BY <1>1, <1>2

-----------------------------------------------------------------------------
(* A thread that handles the change of a slot has one. *)
Handled == \A p \in Producers : thread[p] \in {"change", "push"} => cur[p] \in Events

LEMMA ChangeType ==
  /\ \A s \in Slots, a \in BOOLEAN : Change(s, a) \in Events /\ Change(s, a) \in News
  /\ \A a \in BOOLEAN : Change(Drive, a) \in News /\ Change(Unknown, a) \in News
  /\ Events \subseteq News
  /\ FileSlots \subseteq Slots /\ \A d \in Tokens \cup Files : SlotOf[d] \in Slots
  /\ \A f \in Files : SlotOf[f] \in FileSlots
  /\ \A c \in News : c.arrived \in BOOLEAN
BY DEF Change, Events, News, Slots, FileSlots, Drive, Unknown

LEMMA BlankType == Blank \in [Indices -> Events]
<1>1. \E s \in Slots : TRUE
  BY HotplugAssumption DEF Slots
<1>2. Change(CHOOSE s \in Slots : TRUE, FALSE) \in Events
  BY <1>1, ChangeType
<1>. QED
  BY <1>2 DEF Blank, Indices

Waits == {"idle", "poll", "block", "polling", "entering", "testing", "sleeping",
          "waiting", "woken"}

LEMMA WakeAllType ==
  ASSUME TypeOK
  PROVE  WakeAll \in [Waiters -> Waits]
BY DEF WakeAll, TypeOK, Waits

LEMMA HandlerType ==
  ASSUME NEW c \in News
  PROVE  /\ Handler(c) \in {"loop", "mount", "drive", "change"}
         /\ Handler(c) = "change" => c \in Events
BY HotplugAssumption DEF Handler, News, Events, Drive, Unknown

LEMMA PushEventType ==
  ASSUME TypeOK, NEW s \in Slots, NEW a \in BOOLEAN, PushEvent(s, a)
  PROVE  /\ ring' \in [Indices -> Events] /\ head' \in Indices /\ tail' \in Indices
         /\ dropped' \in Nat
         /\ waiter' \in [Waiters -> Waits]
<1>1. ring \in [Indices -> Events] /\ head \in Indices /\ tail \in Indices /\ dropped \in Nat
  BY DEF TypeOK, Indices
<1>2. Change(s, a) \in Events /\ Next1(tail) \in Indices
  BY <1>1, ChangeType, Next1Is
<1>3. waiter' = WakeAll
  BY DEF PushEvent
<1>4. CASE Full
  BY <1>1, <1>3, <1>4, WakeAllType DEF PushEvent
<1>5. CASE ~Full
  BY <1>1, <1>2, <1>3, <1>5, WakeAllType DEF PushEvent
<1>. QED
  BY <1>4, <1>5

LEMMA TakeEventType ==
  ASSUME TypeOK, TakeEvent
  PROVE  /\ ring' \in [Indices -> Events] /\ head' \in Indices /\ tail' \in Indices
         /\ dropped' \in Nat
<1>1. ring \in [Indices -> Events] /\ head \in Indices /\ tail \in Indices /\ dropped \in Nat
  BY DEF TypeOK, Indices
<1>2. Blank[head] \in Events /\ Next1(head) \in Indices
  BY <1>1, BlankType, Next1Is
<1>. QED
  BY <1>1, <1>2 DEF TakeEvent

LEMMA TellType ==
  ASSUME TypeOK, NEW p, NEW c \in News, Tell(p, c)
  PROVE  news' \in [Producers -> Seq(News)]
<1>1. news \in [Producers -> Seq(News)]
  BY DEF TypeOK
<1>2. p \in Producers => Append(news[p], c) \in Seq(News)
  BY <1>1
<1>. QED
  BY <1>1, <1>2 DEF Tell

Steps == {"off", "start", "loop", "mount", "scan", "change", "push", "drive", "removing"}

LEMMA ResumeType ==
  ASSUME TypeOK, Handled, NEW p \in Producers, Resume(p)
  PROVE  /\ thread' \in [Producers -> Steps] /\ cur' \in [Producers -> News]
         /\ Handled'
<1>1. thread \in [Producers -> Steps] /\ cur \in [Producers -> News] /\ NoChange \in News
  BY ChangeType DEF TypeOK, Steps, NoChange
<1>2. PICK a \in {"scan", "loop"} : thread' = [thread EXCEPT ![p] = a]
  BY DEF Resume
<1>3. cur' = [cur EXCEPT ![p] = NoChange]
  BY DEF Resume
<1>. QED
  BY <1>1, <1>2, <1>3 DEF Steps, Handled

LEMMA UnwatchType ==
  ASSUME TypeOK, Unwatch
  PROVE  news' \in [Producers -> Seq(News)] /\ watch' = "none"
<1>1. news["flash"] \in Seq(News)
  BY DEF TypeOK, Producers
<1>. DEFINE m == [k \in DOMAIN news["flash"] |-> Forgotten(news["flash"][k])]
<1>2. ASSUME NEW c \in News PROVE Forgotten(c) \in News
  BY ChangeType DEF Forgotten
<1>3. Len(news["flash"]) \in Nat /\ DOMAIN news["flash"] = 1..Len(news["flash"])
  BY <1>1
<1>4. m \in [1..Len(news["flash"]) -> News]
  BY <1>1, <1>2, <1>3
<1>5. m \in Seq(News)
  BY <1>3, <1>4
<1>. HIDE DEF m
<1>6. news' = [news EXCEPT !["flash"] = m] /\ watch' = "none"
  BY DEF Unwatch, m
<1>. QED
  BY <1>5, <1>6 DEF TypeOK

LEMMA TypeStep == TypeOK /\ Handled /\ Next => TypeOK' /\ Handled'
<1>. SUFFICES ASSUME TypeOK, Handled, Next PROVE TypeOK' /\ Handled'
  OBVIOUS
<1>. USE DEF TypeOK, Handled, Indices, Waits
<1>1. CASE InitializeBegin
  BY <1>1, BlankType, HotplugAssumption
  DEF InitializeBegin, Owners, appVars, queueVars, threadVars, worldVars
<1>2. CASE Register
  BY <1>2
  DEF Register, Owners, appVars, queueVars, threadVars, worldVars
<1>3. CASE InitializeEnd
  <2>1. thread' \in [Producers -> Steps] /\ running' \in [Producers -> BOOLEAN]
    BY <1>3 DEF InitializeEnd, Steps
  <2>2. Handled'
    BY <1>3 DEF InitializeEnd
  <2>. QED
    BY <1>3, <2>1, <2>2 DEF InitializeEnd, Steps, Owners, appVars, queueVars, threadVars, worldVars
<1>4. CASE FinalizeBegin
  BY <1>4
  DEF FinalizeBegin, Owners, appVars, queueVars, threadVars, worldVars
<1>5. CASE ClearReady
  BY <1>5
  DEF ClearReady, Owners, appVars, queueVars, threadVars, worldVars
<1>6. CASE Broadcast
  BY <1>6, WakeAllType
  DEF Broadcast, Owners, appVars, queueVars, threadVars, worldVars
<1>7. CASE Destroy
  BY <1>7
  DEF Destroy, Owners, appVars, queueVars, threadVars, worldVars
<1>8. CASE PlugDrive
  <2>1. news' \in [Producers -> Seq(News)]
    BY <1>8, ChangeType, TellType DEF PlugDrive
  <2>2. plugged' \subseteq Tokens \cup Files \cup {Drive} /\ changes' \in 0..MaxChanges
    BY <1>8, HotplugAssumption DEF PlugDrive, Changing
  <2>. QED
    BY <1>8, <2>1, <2>2 DEF PlugDrive, Changing, appVars, queueVars, threadVars, worldVars
<1>9. CASE UnplugDrive
  <2>1. news' \in [Producers -> Seq(News)]
    BY <1>9, ChangeType, TellType DEF UnplugDrive
  <2>2. plugged' \subseteq Tokens \cup Files \cup {Drive} /\ changes' \in 0..MaxChanges
    BY <1>9, HotplugAssumption DEF UnplugDrive, Changing
  <2>. QED
    BY <1>9, <2>1, <2>2 DEF UnplugDrive, Changing, appVars, queueVars, threadVars, worldVars
<1>10. ASSUME NEW d \in Tokens \cup Files, PlugOrUnplug(d) PROVE TypeOK' /\ Handled'
  <2>1. news' \in [Producers -> Seq(News)]
    <3>1. Change(SlotOf[d], d \notin plugged) \in News
      BY ChangeType
    <3>. QED
      BY <1>10, <3>1, TellType DEF PlugOrUnplug
  <2>2. plugged' \subseteq Tokens \cup Files \cup {Drive} /\ changes' \in 0..MaxChanges
    BY <1>10, HotplugAssumption DEF PlugOrUnplug, Changing
  <2>. QED
    BY <1>10, <2>1, <2>2 DEF PlugOrUnplug, Changing, appVars, queueVars, threadVars, worldVars
<1>11. ASSUME NEW p \in Producers, StopThread(p) PROVE TypeOK' /\ Handled'
  BY <1>11
  DEF StopThread, Stopping, Joining, appVars, queueVars, threadVars, worldVars
<1>12. ASSUME NEW p \in Producers, JoinThread(p) PROVE TypeOK' /\ Handled'
  BY <1>12
  DEF JoinThread, Joining, After, appVars, queueVars, threadVars, worldVars
<1>13. ASSUME NEW p \in Producers, ThreadExits(p) PROVE TypeOK' /\ Handled'
  BY <1>13
  DEF ThreadExits, appVars, queueVars, threadVars, worldVars
<1>14. ASSUME NEW p \in Producers, ThreadReads(p) PROVE TypeOK' /\ Handled'
  <2>. DEFINE c == Head(news[p])
  <2>1. c \in News /\ Tail(news[p]) \in Seq(News)
    BY <1>14 DEF ThreadReads
  <2>2. /\ thread' = [thread EXCEPT ![p] = Handler(c)]
        /\ cur' = IF Handler(c) = "change" THEN [cur EXCEPT ![p] = c] ELSE cur
        /\ news' = [news EXCEPT ![p] = Tail(news[p])]
        /\ Handler(c) \in {"loop", "mount", "drive", "change"}
        /\ Handler(c) = "change" => c \in Events
    BY <1>14, <2>1, HandlerType DEF ThreadReads
  <2>. HIDE DEF c
  <2>3. /\ thread' \in [Producers -> Steps] /\ cur' \in [Producers -> News]
        /\ news' \in [Producers -> Seq(News)]
    BY <2>1, <2>2 DEF Steps
  <2>4. Handled'
    BY <2>1, <2>2
  <2>5. TypeOK'
    BY <1>14, <2>3
    DEF ThreadReads, appVars, queueVars, threadVars, worldVars, Steps
  <2>. QED
    BY <2>5, <2>4
<1>15. ASSUME NEW p \in Producers, ThreadUpdates(p) PROVE TypeOK' /\ Handled'
  <2>1. cur[p] \in Events /\ cur[p].slot \in Slots
    BY <1>15 DEF ThreadUpdates, Events
  <2>2. present' \subseteq Slots
    BY <1>15, <2>1 DEF ThreadUpdates
  <2>3. thread' \in [Producers -> Steps] /\ cur' \in [Producers -> News] /\ Handled'
    <3>1. CASE Resume(p)
      BY <3>1, ResumeType
    <3>2. CASE thread' = [thread EXCEPT ![p] = "push"] /\ UNCHANGED cur
      BY <2>1, <3>2 DEF Steps
    <3>. QED
      BY <1>15, <3>1, <3>2 DEF ThreadUpdates
  <2>. QED
    BY <1>15, <2>2, <2>3 DEF ThreadUpdates, Steps, appVars, queueVars, threadVars, worldVars
<1>16. ASSUME NEW p \in Producers, ThreadPushes(p) PROVE TypeOK' /\ Handled'
  <2>1. cur[p].slot \in Slots /\ cur[p].arrived \in BOOLEAN
    BY <1>16 DEF ThreadPushes, Events
  <2>2. PushEvent(cur[p].slot, cur[p].arrived) /\ Resume(p)
    BY <1>16 DEF ThreadPushes
  <2>3. /\ ring' \in [Indices -> Events] /\ head' \in Indices /\ tail' \in Indices
        /\ dropped' \in Nat
        /\ waiter' \in [Waiters -> Waits]
    BY <2>1, <2>2, PushEventType
  <2>4. thread' \in [Producers -> Steps] /\ cur' \in [Producers -> News] /\ Handled'
    BY <2>2, ResumeType
  <2>. QED
    BY <1>16, <2>3, <2>4 DEF ThreadPushes, Steps, appVars, queueVars, threadVars, worldVars
<1>17. ASSUME NEW p \in Producers, RootWatch(p) PROVE TypeOK' /\ Handled'
  BY <1>17
  DEF RootWatch, appVars, queueVars, threadVars, worldVars
<1>18. ASSUME NEW p \in Producers, WatchDrive(p) PROVE TypeOK' /\ Handled'
  <2>1. thread' \in [Producers -> Steps] /\ cur' \in [Producers -> News] /\ Handled'
    BY <1>18, ResumeType DEF WatchDrive
  <2>2. watch' \in {"none", "live", "gone"} /\ todo' \subseteq FileSlots
    BY <1>18 DEF WatchDrive
  <2>. QED
    BY <1>18, <2>1, <2>2 DEF WatchDrive, Steps, appVars, queueVars, threadVars, worldVars
<1>19. ASSUME NEW p \in Producers, ScanFile(p) PROVE TypeOK' /\ Handled'
  <2>1. PICK f \in Files :
          \/ /\ cur' = [cur EXCEPT ![p] = Change(SlotOf[f], TRUE)]
             /\ thread' = [thread EXCEPT ![p] = "change"]
          \/ Resume(p)
    BY <1>19 DEF ScanFile
  <2>2. Change(SlotOf[f], TRUE) \in Events /\ Change(SlotOf[f], TRUE) \in News
    BY ChangeType
  <2>3. thread' \in [Producers -> Steps] /\ cur' \in [Producers -> News] /\ Handled'
    <3>1. CASE Resume(p)
      BY <3>1, ResumeType
    <3>2. CASE /\ cur' = [cur EXCEPT ![p] = Change(SlotOf[f], TRUE)]
               /\ thread' = [thread EXCEPT ![p] = "change"]
      BY <2>2, <3>2 DEF Steps
    <3>. QED
      BY <2>1, <3>1, <3>2
  <2>4. todo' \subseteq FileSlots
    BY <1>19 DEF ScanFile
  <2>. QED
    BY <1>19, <2>3, <2>4 DEF ScanFile, Steps, appVars, queueVars, threadVars, worldVars
<1>20. ASSUME NEW p \in Producers, DriveBegin(p) PROVE TypeOK' /\ Handled'
  <2>1. news' \in [Producers -> Seq(News)] /\ watch' \in {"none", "live", "gone"}
    BY <1>20, UnwatchType DEF DriveBegin
  <2>2. thread' \in [Producers -> Steps] /\ glock' \in Owners /\ todo' \subseteq FileSlots
    BY <1>20 DEF DriveBegin, Steps, Owners
  <2>3. Handled'
    BY <1>20 DEF DriveBegin, appVars, queueVars, threadVars, worldVars
  <2>. QED
    BY <1>20, <2>1, <2>2, <2>3 DEF DriveBegin, Steps, appVars, queueVars, threadVars, worldVars
<1>21. ASSUME NEW p \in Producers, DriveSlot(p) PROVE TypeOK' /\ Handled'
  BY <1>21, PushEventType, ChangeType
  DEF DriveSlot, appVars, queueVars, threadVars, worldVars
<1>22. ASSUME NEW p \in Producers, DriveEnd(p) PROVE TypeOK' /\ Handled'
  <2>1. news' \in [Producers -> Seq(News)] /\ watch' \in {"none", "live", "gone"}
    BY <1>22, UnwatchType DEF DriveEnd
  <2>2. thread' \in [Producers -> Steps] /\ glock' \in Owners /\ Handled'
    BY <1>22 DEF DriveEnd, Steps, Owners, appVars, queueVars, threadVars, worldVars
  <2>. QED
    BY <1>22, <2>1, <2>2 DEF DriveEnd, Steps, appVars, queueVars, threadVars, worldVars
<1>23. ASSUME NEW w \in Waiters, TestReady(w) PROVE TypeOK' /\ Handled'
  BY <1>23
  DEF TestReady, Goes, appVars, queueVars, threadVars, worldVars
<1>24. ASSUME NEW w \in Waiters, Poll(w) PROVE TypeOK' /\ Handled'
  BY <1>24, TakeEventType
  DEF Poll, Goes, appVars, queueVars, threadVars, worldVars
<1>25. ASSUME NEW w \in Waiters, Lock(w) PROVE TypeOK' /\ Handled'
  <2>1. waiter' \in [Waiters -> Waits]
    BY <1>25 DEF Lock, Goes
  <2>2. mutex' \in Owners
    BY <1>25 DEF Lock, Owners
  <2>. QED
    BY <1>25, <2>1, <2>2 DEF Lock, appVars, queueVars, threadVars, worldVars
<1>26. ASSUME NEW w \in Waiters, Test(w) PROVE TypeOK' /\ Handled'
  <2>1. waiter' \in [Waiters -> Waits]
    BY <1>26 DEF Test, Goes
  <2>2. mutex' \in Owners
    BY <1>26 DEF Test, Owners
  <2>3. /\ ring' \in [Indices -> Events] /\ head' \in Indices /\ tail' \in Indices
        /\ dropped' \in Nat
    BY <1>26, TakeEventType DEF Test, queueVars
  <2>. QED
    BY <1>26, <2>1, <2>2, <2>3 DEF Test, appVars, queueVars, threadVars, worldVars
<1>27. ASSUME NEW w \in Waiters, Sleep(w) PROVE TypeOK' /\ Handled'
  BY <1>27
  DEF Sleep, Goes, Owners, appVars, queueVars, threadVars, worldVars
<1>40. ASSUME NEW w \in Waiters, NEW b \in BOOLEAN, Call(w, b) PROVE TypeOK' /\ Handled'
  BY <1>40 DEF Call, Goes, appVars, queueVars, threadVars, worldVars
<1>. QED
  BY <1>1, <1>2, <1>3, <1>4, <1>5, <1>6, <1>7, <1>8, <1>9, <1>10, <1>11, <1>12, <1>13, <1>14, <1>15, <1>16, <1>17, <1>18, <1>19, <1>20, <1>21, <1>22, <1>23, <1>24, <1>25, <1>26, <1>27, <1>40
  DEF Next, WorldStep, AppStep, ThreadStep, WaiterStep

-----------------------------------------------------------------------------
(* What a step does to the queue, its mutex and the callers that wait.      *)
Starts ==
  /\ \A w \in Waiters : waiter[w] = "idle"
  /\ head' = 0 /\ tail' = 0 /\ dropped' = 0 /\ ring' = Blank
  /\ UNCHANGED <<mutex, waiter>>

Asked == \E w \in Waiters : WaiterStep(w) \/ \E b \in BOOLEAN : Call(w, b)

LEMMA StepOfQueue ==
  ASSUME TypeOK, Handled, Next
  PROVE  \/ UNCHANGED <<queueVars, mutex, waiter>>
         \/ Starts
         \/ Broadcast
         \/ \E s \in Slots, a \in BOOLEAN : PushEvent(s, a) /\ UNCHANGED mutex
         \/ Asked
<1>1. CASE InitializeBegin
  BY <1>1 DEF InitializeBegin, Starts
<1>2. CASE WorldStep \/ FinalizeBegin
  BY <1>2 DEF WorldStep, PlugDrive, UnplugDrive, PlugOrUnplug, Changing, FinalizeBegin
<1>3. CASE AppStep
  BY <1>3 DEF AppStep, Register, InitializeEnd, StopThread, JoinThread, ClearReady, Destroy
<1>4. ASSUME NEW p \in Producers, ThreadStep(p)
      PROVE  \/ UNCHANGED <<queueVars, mutex, waiter>>
             \/ \E s \in Slots, a \in BOOLEAN : PushEvent(s, a) /\ UNCHANGED mutex
  <2>1. CASE ThreadPushes(p)
    <3>1. cur[p].slot \in Slots /\ cur[p].arrived \in BOOLEAN
      BY <2>1 DEF ThreadPushes, Handled, Events
    <3>. QED
      BY <2>1, <3>1 DEF ThreadPushes
  <2>2. CASE DriveSlot(p)
    <3>1. PICK s \in todo : PushEvent(s, FALSE)
      BY <2>2 DEF DriveSlot
    <3>2. s \in Slots
      BY ChangeType DEF TypeOK
    <3>. QED
      BY <2>2, <3>1, <3>2 DEF DriveSlot
  <2>3. CASE ThreadExits(p) \/ ThreadReads(p) \/ ThreadUpdates(p) \/ RootWatch(p)
    BY <2>3 DEF ThreadExits, ThreadReads, ThreadUpdates, RootWatch
  <2>4. CASE WatchDrive(p) \/ ScanFile(p) \/ DriveBegin(p) \/ DriveEnd(p)
    BY <2>4 DEF WatchDrive, ScanFile, DriveBegin, DriveEnd
  <2>. QED
    BY <1>4, <2>1, <2>2, <2>3, <2>4 DEF ThreadStep
<1>. QED
  BY <1>1, <1>2, <1>3, <1>4 DEF Next, Asked

-----------------------------------------------------------------------------
(* A caller between its test of the queue and its wait holds the mutex, and *)
(* the queue is empty.                                                      *)
Guarded ==
  /\ \A w \in Waiters : waiter[w] \in {"testing", "sleeping"} => mutex = w
  /\ (\E w \in Waiters : waiter[w] \in {"sleeping", "waiting"}) => Empty

LEMMA GuardedStep ==
  ASSUME TypeOK, Handled, Guarded, Next
  PROVE  Guarded'
<1>. USE DEF Guarded
<1>0. /\ Free \notin Waiters /\ waiter \in [Waiters -> Waits]
      /\ \A w \in Waiters : WakeAll[w] = IF waiter[w] = "waiting" THEN "woken" ELSE waiter[w]
  BY HotplugAssumption DEF Free, WakeAll, TypeOK, Waits
<1>1. CASE UNCHANGED <<queueVars, mutex, waiter>>
  BY <1>1 DEF queueVars, Empty
<1>2. CASE Starts
  BY <1>2 DEF Starts
<1>3. CASE Broadcast
  BY <1>0, <1>3 DEF Broadcast, queueVars, Empty
<1>4. ASSUME NEW s \in Slots, NEW a \in BOOLEAN, PushEvent(s, a), UNCHANGED mutex
      PROVE  Guarded'
  <2>1. \A w \in Waiters : waiter[w] \notin {"testing", "sleeping"}
    BY <1>0, <1>4 DEF PushEvent
  <2>. QED
    BY <1>0, <1>4, <2>1 DEF PushEvent
<1>5. ASSUME NEW w \in Waiters, NEW b \in BOOLEAN, Call(w, b) PROVE Guarded'
  BY <1>0, <1>5 DEF Call, Goes, queueVars, Empty
<1>6. ASSUME NEW w \in Waiters, TestReady(w) PROVE Guarded'
  BY <1>0, <1>6 DEF TestReady, Goes, queueVars, Empty
<1>7. ASSUME NEW w \in Waiters, Poll(w) PROVE Guarded'
  <2>1. mutex = Free /\ mutex' = mutex /\ waiter' = [waiter EXCEPT ![w] = "idle"]
    BY <1>7 DEF Poll, Goes
  <2>2. CASE UNCHANGED queueVars
    BY <1>0, <2>1, <2>2 DEF queueVars, Empty
  <2>3. CASE ~Empty
    BY <1>0, <2>1, <2>3
  <2>. QED
    BY <1>7, <2>2, <2>3 DEF Poll
<1>8. ASSUME NEW w \in Waiters, Lock(w) PROVE Guarded'
  BY <1>0, <1>8 DEF Lock, Goes, queueVars, Empty
<1>9. ASSUME NEW w \in Waiters, Test(w) PROVE Guarded'
  <2>1. CASE Empty /\ ready /\ Goes(w, "testing", "sleeping") /\ UNCHANGED <<mutex, queueVars>>
    BY <1>0, <2>1 DEF Goes, queueVars, Empty
  <2>2. CASE Empty /\ Goes(w, "testing", "idle") /\ mutex' = Free /\ UNCHANGED queueVars
    BY <1>0, <2>2 DEF Goes, queueVars, Empty
  <2>3. CASE ~Empty /\ Goes(w, "testing", "idle") /\ mutex' = Free
    BY <1>0, <2>3 DEF Goes
  <2>. QED
    BY <1>9, <2>1, <2>2, <2>3 DEF Test
<1>10. ASSUME NEW w \in Waiters, Sleep(w) PROVE Guarded'
  BY <1>0, <1>10 DEF Sleep, Goes, queueVars, Empty
<1>. QED
  BY <1>1, <1>2, <1>3, <1>4, <1>5, <1>6, <1>7, <1>8, <1>9, <1>10, StepOfQueue
  DEF Asked, WaiterStep

-----------------------------------------------------------------------------
(* The ring is the queue of EventQueue.                                     *)
QueueStep == [Queue!Next]_<<Contents, dropped>>

LEMMA RingSteps ==
  ASSUME RingOK
  PROVE  /\ \A s \in Slots, a \in BOOLEAN : PushEvent(s, a) /\ RingOK' =>
              IF Full THEN Contents' = Contents /\ dropped' = dropped + 1
                      ELSE Contents' = Append(Contents, Change(s, a)) /\ dropped' = dropped
         /\ TakeEvent /\ ~Empty /\ RingOK' =>
              Contents # <<>> /\ Contents' = Tail(Contents) /\ dropped' = dropped
         /\ UNCHANGED queueVars /\ RingOK' => Contents' = Contents /\ dropped' = dropped
         /\ Starts /\ RingOK' => Contents' = <<>> /\ dropped' = 0
         /\ Contents \in Seq(Events)
         /\ Full <=> Len(Contents) = QueueSize - 1
         /\ Len(Contents) \in 0..QueueSize - 1
<1>0. /\ Contents = Con(ring, head, tail)
      /\ RingOK' => Contents' = Con(ring', head', tail')
  BY TheContents
<1>1. ASSUME NEW s \in Slots, NEW a \in BOOLEAN, PushEvent(s, a), RingOK'
      PROVE  IF Full THEN Contents' = Contents /\ dropped' = dropped + 1
                     ELSE Contents' = Append(Contents, Change(s, a)) /\ dropped' = dropped
  <2>1. CASE Full
    BY <1>0, <1>1, <2>1 DEF PushEvent
  <2>2. CASE ~Full
    <3>1. Change(s, a) \in Events /\ Next1(tail) # head
      BY <2>2, ChangeType DEF Full
    <3>2. Contents' = Con([ring EXCEPT ![tail] = Change(s, a)], head, Next1(tail))
      BY <1>0, <1>1, <2>2 DEF PushEvent
    <3>3. Contents' = Append(Con(ring, head, tail), Change(s, a))
      BY <3>1, <3>2, Pushed DEF RingOK
    <3>. QED
      BY <1>0, <1>1, <2>2, <3>3 DEF PushEvent
  <2>. QED
    BY <2>1, <2>2
<1>2. ASSUME TakeEvent, ~Empty, RingOK'
      PROVE  Contents # <<>> /\ Contents' = Tail(Contents) /\ dropped' = dropped
  <2>1. Blank[head] \in Events /\ head # tail
    BY <1>2, BlankType DEF Empty, RingOK
  <2>2. Contents' = Con([ring EXCEPT ![head] = Blank[head]], Next1(head), tail)
    BY <1>0, <1>2 DEF TakeEvent
  <2>3. Contents # <<>> /\ Contents' = Tail(Contents)
    BY <1>0, <2>1, <2>2, Taken DEF RingOK
  <2>. QED
    BY <1>2, <2>3 DEF TakeEvent
<1>3. UNCHANGED queueVars /\ RingOK' => Contents' = Contents /\ dropped' = dropped
  BY <1>0 DEF queueVars
<1>4. ASSUME Starts, RingOK' PROVE Contents' = <<>> /\ dropped' = 0
  BY <1>0, <1>4 DEF Starts, Con, Cnt
<1>5. Contents \in Seq(Events) /\ Len(Contents) = Cnt(head, tail)
  BY <1>0, ConType DEF RingOK
<1>6. (Full <=> Len(Contents) = QueueSize - 1) /\ Len(Contents) \in 0..QueueSize - 1
  BY <1>5, Sizes, HotplugAssumption DEF RingOK, Full
<1>. QED
  BY <1>1, <1>2, <1>3, <1>4, <1>5, <1>6

LEMMA TypedRing ==
  /\ TypeOK => RingOK
  /\ TypeOK' => RingOK'
BY DEF TypeOK, RingOK, Indices

LEMMA StepsOfQueue ==
  ASSUME TypeOK, Handled, Next, TypeOK'
  PROVE  QueueStep
<1>0. RingOK /\ RingOK'
  BY TypedRing
<1>1. CASE UNCHANGED <<queueVars, mutex, waiter>> \/ Broadcast
  BY <1>0, <1>1, RingSteps DEF QueueStep, Broadcast
<1>2. CASE Starts
  BY <1>0, <1>2, RingSteps DEF QueueStep, Queue!Next, Queue!Reset
<1>3. ASSUME NEW s \in Slots, NEW a \in BOOLEAN, PushEvent(s, a)
      PROVE  QueueStep
  <2>1. Change(s, a) \in Events
    BY ChangeType
  <2>2. Queue!Push(Change(s, a))
    BY <1>0, <1>3, RingSteps, HotplugAssumption DEF Queue!Push
  <2>. QED
    BY <2>1, <2>2 DEF QueueStep, Queue!Next
<1>4. CASE Asked
  <2>1. UNCHANGED queueVars \/ (TakeEvent /\ ~Empty)
    BY <1>4 DEF Asked, WaiterStep, TestReady, Poll, Lock, Test, Sleep, Call
  <2>. QED
    BY <1>0, <2>1, RingSteps DEF QueueStep, Queue!Next, Queue!Take
<1>. QED
  BY <1>1, <1>2, <1>3, <1>4, StepOfQueue

-----------------------------------------------------------------------------
(* The two threads never touch each other's slots, and C_Initialize finds   *)
(* neither thread running and starts with an empty queue.                   *)
TokenSlots == {SlotOf[t] : t \in Tokens}
OwnSlots(p) == IF p = "usb" THEN TokenSlots ELSE FileSlots

Own ==
  /\ \A k \in 1..Len(news["usb"]) : news["usb"][k].slot \in TokenSlots
  /\ \A k \in 1..Len(news["flash"]) :
       news["flash"][k].slot \in FileSlots \cup {Drive, Unknown}
  /\ thread["usb"] \in {"off", "loop", "change", "push"}
  /\ \A p \in Producers : thread[p] \in {"change", "push"} => cur[p].slot \in OwnSlots(p)

Between == {"wake", "broadcast", "destroy", "off", "register", "start"}

Joined ==
  /\ app \in Between \cup {"flash_stop", "flash_join"} => thread["usb"] = "off"
  /\ app \in Between => thread["flash"] = "off"
  /\ app \in {"register", "start"} => Empty
  /\ up => app = "on"

(* What the last event of slot s in the queue q says. *)
Says(q, s, b) ==
  (\E k \in 1..Len(q) : q[k].slot = s) =>
    \E k \in 1..Len(q) : /\ q[k].slot = s /\ q[k].arrived = b
                         /\ \A j \in 1..Len(q) : q[j].slot = s => j <= k

Pushing(p, s) == thread[p] = "push" /\ cur[p].slot = s

(* It is what the slot table says, or a thread is about to push that.       *)
Agree ==
  up /\ dropped = 0 =>
    \A s \in Slots :
      /\ (\A p \in Producers : ~Pushing(p, s)) => Says(Contents, s, s \in present)
      /\ \A p \in Producers : Pushing(p, s) => cur[p].arrived = (s \in present)

LEMMA Disjoint ==
  /\ \A s \in TokenSlots : s \notin FileSlots
  /\ TokenSlots \subseteq Slots /\ FileSlots \subseteq Slots
  /\ \A s \in Slots : s # Drive /\ s # Unknown
  /\ \A t \in Tokens : SlotOf[t] \in TokenSlots
  /\ \A f \in Files : SlotOf[f] \in FileSlots
BY HotplugAssumption DEF TokenSlots, FileSlots, Slots, Drive, Unknown

(* What is told to a thread is of its own slots. *)
OwnNews(n) ==
  /\ \A k \in 1..Len(n["usb"]) : n["usb"][k].slot \in TokenSlots
  /\ \A k \in 1..Len(n["flash"]) : n["flash"][k].slot \in FileSlots \cup {Drive, Unknown}

LEMMA TellOwn ==
  ASSUME TypeOK, OwnNews(news), NEW p \in Producers, NEW c \in News, Tell(p, c),
         c.slot \in IF p = "usb" THEN TokenSlots ELSE FileSlots \cup {Drive, Unknown}
  PROVE  OwnNews(news')
<1>1. /\ news["usb"] \in Seq(News) /\ news["flash"] \in Seq(News)
      /\ news \in [Producers -> Seq(News)]
  BY DEF TypeOK, Producers
<1>2. CASE UNCHANGED news
  BY <1>2
<1>3. CASE news' = [news EXCEPT ![p] = Append(news[p], c)]
  <2>1. CASE p = "usb"
    <3>1. news'["flash"] = news["flash"] /\ news'["usb"] = Append(news["usb"], c)
      BY <1>1, <1>3, <2>1 DEF Producers
    <3>2. \A k \in 1..Len(Append(news["usb"], c)) : Append(news["usb"], c)[k].slot \in TokenSlots
      BY <1>1, <2>1 DEF OwnNews
    <3>. QED
      BY <3>1, <3>2 DEF OwnNews
  <2>2. CASE p = "flash"
    <3>1. news'["usb"] = news["usb"] /\ news'["flash"] = Append(news["flash"], c)
      BY <1>1, <1>3, <2>2 DEF Producers
    <3>2. \A k \in 1..Len(Append(news["flash"], c)) :
            Append(news["flash"], c)[k].slot \in FileSlots \cup {Drive, Unknown}
      BY <1>1, <2>2 DEF OwnNews
    <3>. QED
      BY <3>1, <3>2 DEF OwnNews
  <2>. QED
    BY <2>1, <2>2 DEF Producers
<1>. QED
  BY <1>2, <1>3 DEF Tell

LEMMA OwnWorld ==
  ASSUME TypeOK, Own, WorldStep
  PROVE  Own'
<1>1. OwnNews(news')
  <2>1. CASE PlugDrive
    BY <2>1, TellOwn, ChangeType DEF PlugDrive, Own, OwnNews, Producers, Change
  <2>2. CASE UnplugDrive
    BY <2>2, TellOwn, ChangeType DEF UnplugDrive, Own, OwnNews, Producers, Change
  <2>3. ASSUME NEW d \in Tokens \cup Files, PlugOrUnplug(d) PROVE OwnNews(news')
    <3>. DEFINE c == Change(SlotOf[d], d \notin plugged)
    <3>1. c \in News /\ c.slot = SlotOf[d]
      BY ChangeType DEF Change
    <3>2. CASE d \in Tokens
      BY <2>3, <3>1, <3>2, TellOwn, Disjoint DEF PlugOrUnplug, Own, OwnNews, Producers
    <3>3. CASE d \notin Tokens
      BY <2>3, <3>1, <3>3, TellOwn, Disjoint DEF PlugOrUnplug, Own, OwnNews, Producers
    <3>. QED
      BY <3>2, <3>3
  <2>. QED
    BY <2>1, <2>2, <2>3 DEF WorldStep
<1>2. UNCHANGED <<thread, cur>>
  BY DEF WorldStep, PlugDrive, UnplugDrive, PlugOrUnplug, Changing
<1>. QED
  BY <1>1, <1>2 DEF Own, OwnNews

LEMMA OwnThread ==
  ASSUME TypeOK, TypeOK', Handled, Own, NEW p \in Producers, ThreadStep(p)
  PROVE  Own'
<1>0. /\ news \in [Producers -> Seq(News)] /\ thread \in [Producers -> Steps]
      /\ cur \in [Producers -> News] /\ Producers = {"usb", "flash"}
  BY DEF TypeOK, Steps, Producers
<1>1. CASE ThreadExits(p)
  BY <1>0, <1>1 DEF Own, ThreadExits, worldVars, threadVars
<1>2. CASE ThreadReads(p)
  <2>. DEFINE c == Head(news[p])
  <2>1. news[p] \in Seq(News) /\ news[p] # <<>> /\ c = news[p][1] /\ Len(news[p]) \in Nat \ {0}
    BY <1>0, <1>2 DEF ThreadReads
  <2>2. OwnNews(news')
    <3>1. news' = [news EXCEPT ![p] = Tail(news[p])]
      BY <1>2 DEF ThreadReads
    <3>2. /\ Len(Tail(news[p])) = Len(news[p]) - 1
          /\ \A k \in 1..Len(news[p]) - 1 : Tail(news[p])[k] = news[p][k + 1]
                                            /\ k + 1 \in 1..Len(news[p])
      BY <2>1, HeadTailProperties
    <3>. QED
      BY <1>0, <3>1, <3>2 DEF Own, OwnNews
  <2>3. c \in News /\ 1 \in 1..Len(news[p])
    BY <1>0, <2>1
  <2>4. p = "usb" => c.slot \in TokenSlots
    BY <2>1, <2>3 DEF Own
  <2>5. p = "flash" => c.slot \in FileSlots \cup {Drive, Unknown}
    BY <2>1, <2>3 DEF Own
  <2>6. Handler(c) = "change" => c.slot \in OwnSlots(p)
    BY <1>0, <2>4, <2>5, Disjoint DEF Handler, OwnSlots, Drive, Unknown
  <2>7. p = "usb" => Handler(c) = "change"
    BY <2>4, Disjoint DEF Handler
  <2>8. /\ thread' = [thread EXCEPT ![p] = Handler(c)]
        /\ cur' = IF Handler(c) = "change" THEN [cur EXCEPT ![p] = c] ELSE cur
    BY <1>2 DEF ThreadReads
  <2>9. Handler(c) \in {"loop", "mount", "drive", "change"}
    BY <2>3, HandlerType
  <2>. HIDE DEF c
  <2>10. thread'["usb"] \in {"off", "loop", "change", "push"}
    BY <1>0, <2>7, <2>8 DEF Own
  <2>11. ASSUME NEW q \in Producers, thread'[q] \in {"change", "push"}
         PROVE  cur'[q].slot \in OwnSlots(q)
    BY <1>0, <2>6, <2>8, <2>9, <2>11 DEF Own
  <2>. QED
    BY <2>2, <2>10, <2>11 DEF Own, OwnNews
<1>3. ASSUME Resume(p), UNCHANGED news PROVE Own'
  <2>1. PICK a \in {"scan", "loop"} : thread' = [thread EXCEPT ![p] = a] /\ (p = "usb" => a = "loop")
    BY <1>3 DEF Resume
  <2>2. cur' = [cur EXCEPT ![p] = NoChange]
    BY <1>3 DEF Resume
  <2>. QED
    BY <1>0, <1>3, <2>1, <2>2 DEF Own
<1>4. CASE ThreadUpdates(p)
  <2>1. CASE thread' = [thread EXCEPT ![p] = "push"] /\ UNCHANGED cur
    BY <1>0, <1>4, <2>1 DEF ThreadUpdates, Own, worldVars
  <2>. QED
    BY <1>3, <1>4, <2>1 DEF ThreadUpdates, worldVars
<1>5. CASE ThreadPushes(p) \/ WatchDrive(p)
  BY <1>3, <1>5 DEF ThreadPushes, WatchDrive, worldVars
<1>6. CASE RootWatch(p)
  BY <1>0, <1>6 DEF RootWatch, Own, worldVars
<1>7. CASE ScanFile(p)
  <2>1. p = "flash" /\ UNCHANGED news
    BY <1>0, <1>7 DEF ScanFile, Own, worldVars
  <2>2. ASSUME NEW f \in Files, cur' = [cur EXCEPT ![p] = Change(SlotOf[f], TRUE)],
               thread' = [thread EXCEPT ![p] = "change"]
        PROVE  Own'
    <3>1. cur'[p].slot \in FileSlots
      BY <1>0, <2>2, Disjoint DEF Change
    <3>. QED
      BY <1>0, <2>1, <2>2, <3>1 DEF Own, OwnSlots
  <2>. QED
    BY <1>3, <1>7, <2>1, <2>2 DEF ScanFile
<1>8. ASSUME p = "flash", Unwatch PROVE OwnNews(news')
  <2>1. news["flash"] \in Seq(News) /\ Len(news["flash"]) \in Nat
    BY <1>0
  <2>. DEFINE m == [k \in DOMAIN news["flash"] |-> Forgotten(news["flash"][k])]
  <2>2. m = [k \in 1..Len(news["flash"]) |-> Forgotten(news["flash"][k])]
    BY <2>1
  <2>3. \A k \in 1..Len(news["flash"]) : m[k].slot \in {Drive, Unknown}
    BY <2>2 DEF Forgotten, Change
  <2>4. m \in [1..Len(news["flash"]) -> News]
    <3>1. \A k \in 1..Len(news["flash"]) : Forgotten(news["flash"][k]) \in News
      BY <2>1, ChangeType DEF Forgotten
    <3>. QED
      BY <2>2, <3>1
  <2>5. Len(m) = Len(news["flash"])
    BY <2>1, <2>4
  <2>. HIDE DEF m
  <2>6. news' = [news EXCEPT !["flash"] = m]
    BY <1>8 DEF Unwatch, m
  <2>. QED
    BY <1>0, <2>3, <2>5, <2>6 DEF Own, OwnNews
<1>9. CASE DriveBegin(p) \/ DriveEnd(p)
  <2>1. p = "flash"
    BY <1>0, <1>9 DEF DriveBegin, DriveEnd, Own
  <2>2. OwnNews(news')
    BY <1>8, <1>9, <2>1 DEF DriveBegin, DriveEnd, Own, OwnNews
  <2>3. PICK a \in {"removing", "loop"} : thread' = [thread EXCEPT ![p] = a]
    BY <1>9 DEF DriveBegin, DriveEnd
  <2>4. UNCHANGED cur
    BY <1>9 DEF DriveBegin, DriveEnd
  <2>. QED
    BY <1>0, <2>1, <2>2, <2>3, <2>4 DEF Own, OwnNews
<1>10. CASE DriveSlot(p)
  BY <1>10 DEF DriveSlot, Own, worldVars
<1>. QED
  BY <1>1, <1>2, <1>4, <1>5, <1>6, <1>7, <1>9, <1>10 DEF ThreadStep

LEMMA OwnStep ==
  ASSUME TypeOK, TypeOK', Handled, Own, Next
  PROVE  Own'
<1>1. CASE UNCHANGED <<thread, cur, news>>
  BY <1>1 DEF Own
<1>2. CASE InitializeEnd
  BY <1>2 DEF InitializeEnd, Own, worldVars, Producers
<1>3. ASSUME NEW p \in Producers, JoinThread(p) PROVE Own'
  BY <1>3 DEF JoinThread, Own, threadVars, Producers, TypeOK
<1>4. ASSUME NEW p \in Producers, StopThread(p) PROVE Own'
  BY <1>4 DEF StopThread, Own, worldVars
<1>5. CASE AppStep
  BY <1>1, <1>2, <1>3, <1>4, <1>5
  DEF AppStep, Register, ClearReady, Broadcast, Destroy, threadVars, worldVars
<1>6. CASE InitializeBegin \/ FinalizeBegin
  BY <1>1, <1>6 DEF InitializeBegin, FinalizeBegin, threadVars, worldVars
<1>7. CASE Asked
  BY <1>1, <1>7 DEF Asked, WaiterStep, TestReady, Poll, Lock, Test, Sleep, Call,
                    threadVars, worldVars
<1>. QED
  BY <1>5, <1>6, <1>7, OwnWorld, OwnThread DEF Next, Asked

-----------------------------------------------------------------------------
LEMMA ThreadAlone ==
  ASSUME TypeOK, NEW p \in Producers, ThreadStep(p)
  PROVE  /\ thread[p] # "off" /\ UNCHANGED appVars
         /\ \A q \in Producers \ {p} : thread'[q] = thread[q] /\ cur'[q] = cur[q]
<1>0. thread \in [Producers -> Steps] /\ cur \in [Producers -> News]
  BY DEF TypeOK, Steps
<1>1. CASE ThreadExits(p) \/ ThreadReads(p) \/ RootWatch(p)
  BY <1>0, <1>1 DEF ThreadExits, ThreadReads, RootWatch
<1>2. CASE ThreadUpdates(p) \/ ThreadPushes(p) \/ WatchDrive(p) \/ ScanFile(p)
  BY <1>0, <1>2 DEF ThreadUpdates, ThreadPushes, WatchDrive, ScanFile, Resume
<1>3. CASE DriveBegin(p) \/ DriveSlot(p) \/ DriveEnd(p)
  BY <1>0, <1>3 DEF DriveBegin, DriveSlot, DriveEnd
<1>. QED
  BY <1>1, <1>2, <1>3 DEF ThreadStep

LEMMA JoinedStep ==
  ASSUME TypeOK, TypeOK', Handled, Joined, Next
  PROVE  Joined'
<1>. USE DEF Joined, Between
<1>0. thread \in [Producers -> Steps] /\ Producers = {"usb", "flash"}
  BY DEF TypeOK, Steps, Producers
<1>1. CASE UNCHANGED <<app, up, thread, head, tail>>
  BY <1>1 DEF Empty
<1>2. CASE InitializeBegin
  BY <1>2 DEF InitializeBegin, Empty, threadVars
<1>3. CASE Register
  BY <1>3 DEF Register, Empty, threadVars, queueVars
<1>4. CASE InitializeEnd
  BY <1>4 DEF InitializeEnd
<1>5. CASE FinalizeBegin
  BY <1>5 DEF FinalizeBegin
<1>6. ASSUME NEW p \in Producers, StopThread(p) PROVE Joined'
  BY <1>0, <1>6 DEF StopThread, Stopping, Joining
<1>7. ASSUME NEW p \in Producers, JoinThread(p) PROVE Joined'
  BY <1>0, <1>7 DEF JoinThread, Joining, After, threadVars
<1>8. CASE ClearReady \/ Broadcast \/ Destroy
  BY <1>8 DEF ClearReady, Broadcast, Destroy, threadVars
<1>9. ASSUME NEW p \in Producers, ThreadStep(p) PROVE Joined'
  <2>1. /\ thread[p] # "off" /\ UNCHANGED <<app, up>>
        /\ \A q \in Producers \ {p} : thread'[q] = thread[q]
    BY <1>9, ThreadAlone DEF appVars
  <2>2. app \notin Between
    BY <1>0, <2>1
  <2>. QED
    BY <1>0, <2>1, <2>2
<1>10. CASE WorldStep
  BY <1>1, <1>10
  DEF WorldStep, PlugDrive, UnplugDrive, PlugOrUnplug, Changing, appVars, queueVars
<1>11. CASE Asked
  <2>1. UNCHANGED <<app, up, thread>>
    BY <1>11 DEF Asked, WaiterStep, TestReady, Poll, Lock, Test, Sleep, Call,
                 appVars, threadVars
  <2>2. UNCHANGED <<head, tail>> \/ ~Empty
    BY <1>11 DEF Asked, WaiterStep, TestReady, Poll, Lock, Test, Sleep, Call, queueVars
  <2>. QED
    BY <1>1, <2>1, <2>2
<1>. QED
  BY <1>2, <1>3, <1>4, <1>5, <1>6, <1>7, <1>8, <1>9, <1>10, <1>11
  DEF Next, AppStep, Asked

-----------------------------------------------------------------------------
(* What is said of a slot when events come and go.                          *)
LEMMA SaysAppend ==
  ASSUME NEW S, NEW q \in Seq(S), NEW e \in S
  PROVE  /\ Says(Append(q, e), e.slot, e.arrived)
         /\ \A s, b : s # e.slot /\ Says(q, s, b) => Says(Append(q, e), s, b)
<1>. DEFINE a == Append(q, e)
<1>1. /\ Len(q) \in Nat /\ Len(a) = Len(q) + 1 /\ a[Len(q) + 1] = e
      /\ \A k \in 1..Len(q) : a[k] = q[k]
  BY AppendProperties
<1>. HIDE DEF a
<1>2. Says(a, e.slot, e.arrived)
  <2>1. Len(q) + 1 \in 1..Len(a) /\ \A j \in 1..Len(a) : j <= Len(q) + 1
    BY <1>1
  <2>. QED
    BY <1>1, <2>1 DEF Says
<1>3. ASSUME NEW s, NEW b, s # e.slot, Says(q, s, b) PROVE Says(a, s, b)
  <2>1. \A k \in 1..Len(a) : a[k].slot = s => k \in 1..Len(q) /\ q[k].slot = s
    BY <1>1, <1>3
  <2>2. \A k \in 1..Len(q) : k \in 1..Len(a) /\ a[k] = q[k]
    BY <1>1
  <2>. QED
    BY <1>3, <2>1, <2>2 DEF Says
<1>. QED
  BY <1>2, <1>3 DEF a

LEMMA SaysTail ==
  ASSUME NEW S, NEW q \in Seq(S), q # <<>>, NEW s, NEW b, Says(q, s, b)
  PROVE  Says(Tail(q), s, b)
<1>. DEFINE t == Tail(q)
<1>1. /\ Len(q) \in Nat \ {0} /\ Len(t) = Len(q) - 1
      /\ \A k \in 1..Len(t) : t[k] = q[k + 1] /\ k + 1 \in 1..Len(q)
  BY HeadTailProperties
<1>. HIDE DEF t
<1>2. ASSUME NEW i \in 1..Len(t), t[i].slot = s
      PROVE  \E k \in 1..Len(t) : /\ t[k].slot = s /\ t[k].arrived = b
                                  /\ \A j \in 1..Len(t) : t[j].slot = s => j <= k
  <2>1. q[i + 1].slot = s /\ i + 1 \in 1..Len(q)
    BY <1>1, <1>2
  <2>2. PICK k \in 1..Len(q) : /\ q[k].slot = s /\ q[k].arrived = b
                               /\ \A j \in 1..Len(q) : q[j].slot = s => j <= k
    BY <2>1 DEF Says
  <2>3. i + 1 <= k
    BY <2>1, <2>2
  <2>4. k - 1 \in 1..Len(t) /\ t[k - 1] = q[k]
    BY <1>1, <2>3
  <2>5. ASSUME NEW j \in 1..Len(t), t[j].slot = s PROVE j <= k - 1
    BY <1>1, <2>2, <2>5
  <2>. QED
    BY <2>2, <2>4, <2>5
<1>. QED
  BY <1>2 DEF Says, t

LEMMA SaysEmpty ==
  ASSUME NEW s, NEW b
  PROVE  Says(<<>>, s, b)
BY DEF Says

(* Steps that leave the slot table and the threads that push alone.         *)
LEMMA AgreeKept ==
  ASSUME Agree, Contents \in Seq(Events), UNCHANGED <<up, dropped, present>>,
         Contents' = Contents \/ (Contents # <<>> /\ Contents' = Tail(Contents)),
         \A q \in Producers : thread'[q] = "push" => thread[q] = "push",
         \A q \in Producers : thread[q] = "push" => thread'[q] = "push" /\ cur'[q] = cur[q]
  PROVE  Agree'
<1>. SUFFICES ASSUME up, dropped = 0, NEW s \in Slots
              PROVE  /\ (\A p \in Producers : ~Pushing(p, s)') =>
                            Says(Contents', s, s \in present)
                     /\ \A p \in Producers : Pushing(p, s)' => cur'[p].arrived = (s \in present)
  BY DEF Agree
<1>1. \A p \in Producers : Pushing(p, s)' <=> Pushing(p, s)
  BY DEF Pushing
<1>2. \A p \in Producers : Pushing(p, s) => cur[p].arrived = (s \in present) /\ cur'[p] = cur[p]
  BY DEF Agree, Pushing
<1>3. (\A p \in Producers : ~Pushing(p, s)) => Says(Contents, s, s \in present)
  BY DEF Agree
<1>. QED
  BY <1>1, <1>2, <1>3, SaysTail

(* Two threads never push for the same slot.                                *)
LEMMA OnePusher ==
  ASSUME Own, NEW p \in Producers, NEW q \in Producers, p # q,
         thread[p] \in {"change", "push"}, thread[q] \in {"change", "push"}
  PROVE  cur[p].slot # cur[q].slot
<1>1. cur[p].slot \in OwnSlots(p) /\ cur[q].slot \in OwnSlots(q)
  BY DEF Own
<1>. QED
  BY <1>1, Disjoint DEF OwnSlots, Producers

LEMMA AgreeThread ==
  ASSUME TypeOK, TypeOK', Handled, Own, Agree, NEW p \in Producers, ThreadStep(p)
  PROVE  Agree'
<1>0. /\ thread \in [Producers -> Steps] /\ cur \in [Producers -> News] /\ dropped \in Nat
      /\ RingOK /\ RingOK' /\ Contents \in Seq(Events) /\ UNCHANGED up
      /\ \A q \in Producers \ {p} : thread'[q] = thread[q] /\ cur'[q] = cur[q]
  BY TypedRing, RingSteps, ThreadAlone DEF TypeOK, Steps, appVars
<1>1. ASSUME UNCHANGED <<queueVars, present>>, thread[p] # "push", thread'[p] # "push"
      PROVE  Agree'
  <2>1. Contents' = Contents /\ dropped' = dropped
    BY <1>0, <1>1, RingSteps
  <2>2. /\ \A q \in Producers : thread'[q] = "push" => thread[q] = "push"
        /\ \A q \in Producers : thread[q] = "push" => thread'[q] = "push" /\ cur'[q] = cur[q]
    BY <1>0, <1>1
  <2>. QED
    BY <1>0, <1>1, <2>1, <2>2, AgreeKept
<1>2. Resume(p) => thread'[p] # "push"
  BY <1>0 DEF Resume
<1>3. CASE ThreadExits(p) \/ ThreadReads(p) \/ RootWatch(p)
  <2>1. thread[p] # "push" /\ UNCHANGED <<queueVars, present>>
    BY <1>3 DEF ThreadExits, ThreadReads, RootWatch
  <2>2. ThreadReads(p) => Head(news[p]) \in News
    BY DEF TypeOK, ThreadReads
  <2>3. thread'[p] # "push"
    BY <1>0, <1>3, <2>2, HandlerType DEF ThreadExits, ThreadReads, RootWatch
  <2>. QED
    BY <1>1, <2>1, <2>3
<1>4. CASE WatchDrive(p) \/ ScanFile(p)
  <2>1. thread[p] # "push" /\ UNCHANGED <<queueVars, present>>
    BY <1>4 DEF WatchDrive, ScanFile
  <2>2. thread'[p] # "push"
    BY <1>0, <1>2, <1>4 DEF WatchDrive, ScanFile
  <2>. QED
    BY <1>1, <2>1, <2>2
<1>5. CASE DriveBegin(p) \/ DriveEnd(p)
  <2>1. thread[p] # "push" /\ UNCHANGED <<queueVars, present>>
    BY <1>5 DEF DriveBegin, DriveEnd
  <2>2. thread'[p] # "push"
    BY <1>0, <1>5 DEF DriveBegin, DriveEnd
  <2>. QED
    BY <1>1, <2>1, <2>2
<1>6. CASE ThreadUpdates(p)
  <2>. DEFINE s0 == cur[p].slot
              a == cur[p].arrived
              Pushes == thread' = [thread EXCEPT ![p] = "push"] /\ UNCHANGED cur
  <2>1. /\ thread[p] = "change" /\ a \in BOOLEAN
        /\ UNCHANGED queueVars
        /\ \/ UNCHANGED present /\ Resume(p)
           \/ Pushes /\ present' = IF a THEN present \cup {s0} ELSE present \ {s0}
    BY <1>6 DEF ThreadUpdates, Handled, Events
  <2>2. CASE UNCHANGED present /\ Resume(p)
    BY <1>1, <1>2, <2>1, <2>2
  <2>3. CASE Pushes /\ present' = IF a THEN present \cup {s0} ELSE present \ {s0}
    <3>1. Contents' = Contents /\ dropped' = dropped
      BY <1>0, <2>1, RingSteps
    <3>2. thread'[p] = "push" /\ cur' = cur
      BY <1>0, <2>1, <2>3
    <3>. SUFFICES ASSUME up, dropped = 0, NEW s \in Slots
                  PROVE  /\ (\A q \in Producers : ~Pushing(q, s)') =>
                                Says(Contents, s, s \in present')
                         /\ \A q \in Producers :
                              Pushing(q, s)' => cur[q].arrived = (s \in present')
      BY <1>0, <3>1, <3>2 DEF Agree
    <3>3. CASE s = s0
      <4>1. Pushing(p, s)'
        BY <3>2, <3>3 DEF Pushing
      <4>2. \A q \in Producers : Pushing(q, s)' => q = p
        BY <1>0, <2>1, <3>2, <3>3, OnePusher DEF Pushing
      <4>3. cur[p].arrived = (s \in present')
        BY <2>1, <2>3, <3>3
      <4>. QED
        BY <4>1, <4>2, <4>3
    <3>4. CASE s # s0
      <4>1. \A q \in Producers : Pushing(q, s)' <=> Pushing(q, s)
        BY <1>0, <2>1, <3>2, <3>4 DEF Pushing
      <4>2. (s \in present') = (s \in present)
        BY <2>3, <3>4
      <4>. QED
        BY <4>1, <4>2 DEF Agree
    <3>. QED
      BY <3>3, <3>4
  <2>. QED
    BY <2>1, <2>2, <2>3
<1>7. ASSUME NEW s0 \in Slots, NEW a \in BOOLEAN, PushEvent(s0, a),
             a = (s0 \in present'),
             \A s \in Slots : s # s0 => (s \in present') = (s \in present),
             \A q \in Producers : ~Pushing(q, s0)',
             \A q \in Producers, s \in Slots : s # s0 => (Pushing(q, s)' <=> Pushing(q, s)),
             \A q \in Producers : thread'[q] = "push" => cur'[q] = cur[q]
      PROVE  Agree'
  <2>1. CASE Full
    <3>1. dropped' = dropped + 1
      BY <1>7, <2>1 DEF PushEvent
    <3>. QED
      BY <1>0, <3>1 DEF Agree
  <2>2. CASE ~Full
    <3>. DEFINE e == Change(s0, a)
    <3>1. Contents' = Append(Contents, e) /\ dropped' = dropped
      BY <1>0, <1>7, <2>2, RingSteps
    <3>2. e \in Events /\ e.slot = s0 /\ e.arrived = a
      BY <1>7, ChangeType DEF Change
    <3>. HIDE DEF e
    <3>. SUFFICES ASSUME up, dropped = 0, NEW s \in Slots
                  PROVE  /\ (\A q \in Producers : ~Pushing(q, s)') =>
                                Says(Append(Contents, e), s, s \in present')
                         /\ \A q \in Producers :
                              Pushing(q, s)' => cur'[q].arrived = (s \in present')
      BY <1>0, <3>1 DEF Agree
    <3>3. CASE s = s0
      BY <1>0, <1>7, <3>2, <3>3, SaysAppend
    <3>4. CASE s # s0
      <4>1. /\ (\A q \in Producers : ~Pushing(q, s)) => Says(Contents, s, s \in present)
            /\ \A q \in Producers : Pushing(q, s) => cur[q].arrived = (s \in present)
        BY DEF Agree
      <4>2. (s \in present') = (s \in present)
        BY <1>7, <3>4
      <4>3. \A q \in Producers : Pushing(q, s)' <=> Pushing(q, s)
        BY <1>7, <3>4
      <4>4. \A q \in Producers : Pushing(q, s)' => cur'[q] = cur[q]
        BY <1>7 DEF Pushing
      <4>5. Says(Contents, s, s \in present) => Says(Append(Contents, e), s, s \in present)
        BY <1>0, <3>2, <3>4, SaysAppend
      <4>. QED
        BY <4>1, <4>2, <4>3, <4>4, <4>5
    <3>. QED
      BY <3>3, <3>4
  <2>. QED
    BY <2>1, <2>2
<1>8. CASE ThreadPushes(p)
  <2>0. cur[p].slot \in Slots /\ cur[p].arrived \in BOOLEAN
    BY <1>8 DEF ThreadPushes, Handled, Events
  <2>. PICK s0 \in Slots : s0 = cur[p].slot
    BY <2>0
  <2>. PICK a \in BOOLEAN : a = cur[p].arrived
    BY <2>0
  <2>1. /\ thread[p] = "push" /\ s0 = cur[p].slot /\ a = cur[p].arrived
        /\ PushEvent(s0, a) /\ present' = present /\ thread'[p] # "push"
    BY <1>2, <1>8 DEF ThreadPushes
  <2>2. \A q \in Producers \ {p} : thread[q] = "push" => cur[q].slot # s0
    BY <2>1, OnePusher
  <2>3. CASE ~(up /\ dropped = 0)
    <3>1. ~(up' /\ dropped' = 0)
      BY <1>0, <2>1, <2>3 DEF PushEvent
    <3>. QED
      BY <3>1 DEF Agree
  <2>4. CASE up /\ dropped = 0
    <3>1. a = (s0 \in present')
      <4>1. Pushing(p, s0)
        BY <2>1 DEF Pushing
      <4>2. a = (s0 \in present)
        BY <2>1, <2>4, <4>1 DEF Agree
      <4>. QED
        BY <2>1, <4>2
    <3>2. \A q \in Producers : ~Pushing(q, s0)'
      BY <1>0, <2>1, <2>2 DEF Pushing
    <3>3. \A q \in Producers, s \in Slots : s # s0 => (Pushing(q, s)' <=> Pushing(q, s))
      BY <1>0, <2>1 DEF Pushing
    <3>4. \A q \in Producers : thread'[q] = "push" => cur'[q] = cur[q]
      BY <1>0, <2>1
    <3>5. \A s \in Slots : s # s0 => (s \in present') = (s \in present)
      BY <2>1
    <3>. QED
      BY <1>7, <2>1, <3>1, <3>2, <3>3, <3>4, <3>5
  <2>. QED
    BY <2>3, <2>4
<1>9. CASE DriveSlot(p)
  <2>1. p = "flash" /\ thread[p] = "removing" /\ UNCHANGED <<thread, cur>>
    BY <1>0, <1>9 DEF DriveSlot, Own, Producers
  <2>2. PICK s0 \in todo : PushEvent(s0, FALSE) /\ present' = present \ {s0}
    BY <1>9 DEF DriveSlot
  <2>3. s0 \in FileSlots /\ s0 \in Slots
    BY Disjoint DEF TypeOK
  <2>4. \A q \in Producers : ~Pushing(q, s0)'
    BY <2>1, <2>3, Disjoint DEF Pushing, Own, OwnSlots, Producers
  <2>5. \A q \in Producers, s \in Slots : s # s0 => (Pushing(q, s)' <=> Pushing(q, s))
    BY <2>1 DEF Pushing
  <2>6. \A s \in Slots : s # s0 => (s \in present') = (s \in present)
    BY <2>2
  <2>7. FALSE = (s0 \in present')
    BY <2>2
  <2>. QED
    BY <1>7, <2>1, <2>2, <2>3, <2>4, <2>5, <2>6, <2>7
<1>. QED
  BY <1>3, <1>4, <1>5, <1>6, <1>8, <1>9 DEF ThreadStep

LEMMA AgreeStep ==
  ASSUME TypeOK, TypeOK', Handled, Own, Joined, Joined', Agree, Next
  PROVE  Agree'
<1>0. RingOK /\ RingOK' /\ Contents \in Seq(Events)
  BY TypedRing, RingSteps
<1>1. ASSUME UNCHANGED <<up, present, thread, cur>>,
             UNCHANGED queueVars \/ (TakeEvent /\ ~Empty)
      PROVE  Agree'
  BY <1>0, <1>1, RingSteps, AgreeKept
<1>2. CASE app' # "on"
  BY <1>2 DEF Joined, Agree
<1>3. CASE WorldStep
  BY <1>1, <1>3 DEF WorldStep, PlugDrive, UnplugDrive, PlugOrUnplug, Changing, appVars
<1>4. CASE InitializeEnd
  <2>1. Empty /\ UNCHANGED queueVars
    BY <1>4 DEF InitializeEnd, Joined
  <2>2. Contents' = <<>>
    BY <1>0, <2>1, TheContents DEF Empty, Con, Cnt, RingOK, Indices, queueVars
  <2>3. \A q \in Producers, s \in Slots : ~Pushing(q, s)'
    BY <1>4 DEF InitializeEnd, Pushing
  <2>. QED
    BY <2>2, <2>3, SaysEmpty DEF Agree
<1>5. CASE AppStep \/ InitializeBegin \/ FinalizeBegin
  BY <1>2, <1>4, <1>5
  DEF AppStep, Register, StopThread, JoinThread, Joining, After, ClearReady, Broadcast,
      Destroy, InitializeBegin, FinalizeBegin
<1>6. CASE Asked
  <2>1. UNCHANGED <<up, present, thread, cur>>
    BY <1>6 DEF Asked, WaiterStep, TestReady, Poll, Lock, Test, Sleep, Call,
                appVars, threadVars
  <2>2. UNCHANGED queueVars \/ (TakeEvent /\ ~Empty)
    BY <1>6 DEF Asked, WaiterStep, TestReady, Poll, Lock, Test, Sleep, Call
  <2>. QED
    BY <1>1, <2>1, <2>2
<1>. QED
  BY <1>3, <1>5, <1>6, AgreeThread DEF Next, Asked

-----------------------------------------------------------------------------
HotInv == TypeOK /\ Handled /\ Guarded /\ Own /\ Joined /\ Agree

LEMMA HotInvariant == Spec => []HotInv
<1>1. Init => HotInv
  <2>. SUFFICES ASSUME Init PROVE HotInv
    OBVIOUS
  <2>1. TypeOK
    <3>1. ring \in [Indices -> Events] /\ head \in Indices /\ tail \in Indices
      <4>1. 0 \in Indices
        BY HotplugAssumption DEF Indices
      <4>. QED
        BY <4>1, BlankType DEF Init
    <3>2. cur \in [Producers -> News] /\ news \in [Producers -> Seq(News)]
      <4>1. NoChange \in News
        BY ChangeType DEF NoChange
      <4>2. <<>> \in Seq(News)
        OBVIOUS
      <4>. QED
        BY <4>1, <4>2 DEF Init
    <3>3. plugged \subseteq Tokens \cup Files \cup {Drive}
      BY HotplugAssumption DEF Init, Drive
    <3>. QED
      <4>1. glock \in Owners /\ mutex \in Owners
        BY DEF Init, Owners
      <4>2. /\ usable \in BOOLEAN /\ up \in BOOLEAN /\ ready \in BOOLEAN
            /\ running \in [Producers -> BOOLEAN]
        BY DEF Init
      <4>3. /\ starts \in 0..MaxStarts /\ changes \in 0..MaxChanges /\ dropped \in Nat
            /\ inuse = {} /\ present \subseteq Slots /\ todo \subseteq FileSlots
        BY HotplugAssumption DEF Init
      <4>4. /\ thread \in [Producers -> {"off"}] /\ waiter \in [Waiters -> {"idle"}]
            /\ app = "off" /\ watch = "none"
        BY DEF Init
      <4>. QED
        BY <3>1, <3>2, <3>3, <4>1, <4>2, <4>3, <4>4 DEF TypeOK, Indices
  <2>2. Handled /\ Guarded /\ Joined /\ Agree
    BY DEF Init, Handled, Guarded, Joined, Between, Agree, Empty, Producers
  <2>3. Own
    BY DEF Init, Own, Producers
  <2>. QED
    BY <2>1, <2>2, <2>3 DEF HotInv
<1>2. HotInv /\ [Next]_vars => HotInv'
  <2>1. CASE Next
    BY <2>1, TypeStep, GuardedStep, OwnStep, JoinedStep, AgreeStep DEF HotInv
  <2>2. CASE UNCHANGED vars
    <3>. USE <2>2 DEF vars, appVars, queueVars, threadVars, worldVars
    <3>1. TypeOK => TypeOK'
      BY DEF TypeOK
    <3>2. (Handled => Handled') /\ (Guarded => Guarded')
      BY DEF Handled, Guarded, Empty
    <3>3. (Own => Own') /\ (Joined => Joined')
      BY DEF Own, Joined, Empty
    <3>4. Agree => Agree'
      BY DEF Agree, Pushing, Contents, Count
    <3>. QED
      BY <3>1, <3>2, <3>3, <3>4 DEF HotInv
  <2>. QED
    BY <2>1, <2>2
<1>. QED
  BY <1>1, <1>2, PTL DEF Spec

(* Types and sizes of the queue, the slot table and the watches.            *)
THEOREM TypeCorrect == Spec => []TypeOK
BY HotInvariant, PTL DEF HotInv

(* hotplug_push_event broadcasts to whoever waits, and C_WaitForSlotEvent   *)
(* waits only on an empty queue: no wakeup is lost.                         *)
THEOREM NoWakeupLost == Spec => []SleepersHaveNoEvent
<1>1. HotInv => SleepersHaveNoEvent
  BY DEF HotInv, Guarded, SleepersHaveNoEvent
<1>. QED
  BY <1>1, HotInvariant, PTL

(* What C_WaitForSlotEvent will tell of a slot last is what C_GetSlotList   *)
(* says, in every queue that has dropped nothing.                           *)
THEOREM EventsAgree == Spec => []LastEventAgrees
<1>1. HotInv => LastEventAgrees
  <2>. SUFFICES ASSUME HotInv, up, dropped = 0, NEW s \in Slots,
                       \A p \in Producers : thread[p] = "push" => cur[p].slot # s
                PROVE  LET K == {k \in 1..Count : Contents[k].slot = s}
                       IN  K # {} => \E k \in K : /\ \A j \in K : j <= k
                                                  /\ Contents[k].arrived = (s \in present)
    BY DEF LastEventAgrees
  <2>1. Says(Contents, s, s \in present)
    BY DEF HotInv, Agree, Pushing
  <2>2. Len(Contents) = Count
    BY TypedRing, TheContents, ConType DEF HotInv, RingOK
  <2>. QED
    BY <2>1, <2>2 DEF Says
<1>. QED
  BY <1>1, HotInvariant, PTL

(* g_hotplug_queue with its two indices implements the bounded queue.       *)
THEOREM RingIsQueue == Spec => QueueSpec
<1>1. Init => Queue!Init
  <2>1. ASSUME Init PROVE Contents = <<>>
    <3>1. RingOK
      BY <2>1, BlankType, HotplugAssumption DEF Init, RingOK, Indices
    <3>. QED
      BY <2>1, <3>1, TheContents DEF Init, Con, Cnt
  <2>. QED
    BY <2>1 DEF Init, Queue!Init
<1>2. HotInv /\ HotInv' /\ [Next]_vars => [Queue!Next]_<<Contents, dropped>>
  <2>. SUFFICES ASSUME HotInv, HotInv', [Next]_vars
                PROVE  [Queue!Next]_<<Contents, dropped>>
    OBVIOUS
  <2>1. CASE Next
    BY <2>1, StepsOfQueue DEF HotInv, QueueStep
  <2>2. CASE UNCHANGED vars
    BY <2>2 DEF vars, queueVars, Contents, Count
  <2>. QED
    BY <2>1, <2>2
<1>. QED
  BY <1>1, <1>2, HotInvariant, PTL DEF Spec, QueueSpec, Queue!Spec
-----------------------------------------------------------------------------
(* The two locks: who holds them, and what a thread waits for meanwhile.    *)
LockOwners ==
  /\ glock \in Producers \cup {"app", Free}
  /\ glock = "app" <=> app \in {"register", "start"}
  /\ \A p \in Producers : glock = p <=> thread[p] = "removing"
  /\ mutex \in Waiters \cup {Free}
  /\ \A w \in Waiters : mutex = w <=> waiter[w] \in {"testing", "sleeping"}

(* What the next step of a thread waits for.  C_Initialize waits for g_lock *)
(* when the callback of an attached token runs in it; other than for a lock *)
(* C_Finalize waits for the end of a thread and for those who wait, and a   *)
(* caller of C_WaitForSlotEvent for a wakeup.                               *)
Reentered == app = "register" /\ Tokens \cap plugged # {}

AwaitsLock(x) ==
  \/ x = "app" /\ (app = "on" \/ Reentered)
  \/ x \in Producers /\ thread[x] \in {"change", "drive"}
  \/ x \in Waiters /\ waiter[x] = "idle"

AwaitsMutex(x) ==
  \/ x \in Producers /\ (thread[x] = "push" \/ (thread[x] = "removing" /\ todo # {}))
  \/ x \in Waiters /\ waiter[x] \in {"polling", "entering", "woken"}

AwaitsOther(x) ==
  \/ x = "app" /\ app \in {"usb_join", "flash_join", "destroy"}
  \/ x \in Waiters /\ waiter[x] = "waiting"

(* Who holds g_hotplug_mutex waits for nothing, and who holds g_lock for    *)
(* g_hotplug_mutex at most: no thread is joined, and no wakeup awaited,     *)
(* with a lock held, and the locks are taken in one order.  The exception   *)
(* is C_Initialize with a known token attached, which waits for itself.     *)
LockOrder ==
  /\ mutex # Free => ~AwaitsLock(mutex) /\ ~AwaitsMutex(mutex) /\ ~AwaitsOther(mutex)
  /\ glock # Free => ~AwaitsOther(glock)
                     /\ (AwaitsLock(glock) => glock = "app" /\ Reentered)

(* The flags that other threads read without a lock, or under the other one.*)
Flags ==
  /\ usable <=> app \in {"register", "start", "on"}
  /\ up <=> app = "on"
  /\ ready <=> app \notin {"off", "broadcast", "destroy"}

LEMMA Names ==
  /\ Producers = {"usb", "flash"} /\ Free = "free"
  /\ Free \notin Waiters /\ "app" \notin Waiters /\ "usb" \notin Waiters
  /\ "flash" \notin Waiters
BY HotplugAssumption DEF Producers, Free

LEMMA FlagsStep ==
  ASSUME TypeOK, Flags, Next
  PROVE  Flags'
<1>. USE DEF Flags
<1>1. CASE UNCHANGED appVars
  BY <1>1 DEF appVars
<1>2. CASE InitializeBegin \/ Register \/ InitializeEnd \/ FinalizeBegin
  BY <1>2 DEF InitializeBegin, Register, InitializeEnd, FinalizeBegin
<1>3. ASSUME NEW p \in Producers, StopThread(p) \/ JoinThread(p) PROVE Flags'
  BY <1>3 DEF StopThread, JoinThread, Stopping, Joining, After, Producers
<1>4. CASE ClearReady \/ Broadcast \/ Destroy
  BY <1>4 DEF ClearReady, Broadcast, Destroy
<1>5. CASE WorldStep
  BY <1>1, <1>5 DEF WorldStep, PlugDrive, UnplugDrive, PlugOrUnplug, Changing
<1>6. ASSUME NEW p \in Producers, ThreadStep(p) PROVE Flags'
  BY <1>1, <1>6
  DEF ThreadStep, ThreadExits, ThreadReads, ThreadUpdates, ThreadPushes, RootWatch,
      WatchDrive, ScanFile, DriveBegin, DriveSlot, DriveEnd
<1>7. CASE Asked
  BY <1>1, <1>7 DEF Asked, WaiterStep, TestReady, Poll, Lock, Test, Sleep, Call
<1>. QED
  BY <1>2, <1>3, <1>4, <1>5, <1>6, <1>7 DEF Next, AppStep, Asked

(* g_lock and its two kinds of owners. *)
LEMMA LockOwnersThread ==
  ASSUME TypeOK, TypeOK', Joined, LockOwners, NEW p \in Producers, ThreadStep(p)
  PROVE  LockOwners'
<1>0. /\ thread \in [Producers -> Steps] /\ thread[p] # "off"
      /\ UNCHANGED <<app, mutex>>
      /\ \A q \in Producers \ {p} : thread'[q] = thread[q]
      /\ thread' \in [Producers -> Steps]
  BY ThreadAlone DEF TypeOK, Steps, appVars, ThreadStep, ThreadExits, ThreadReads,
     ThreadUpdates, ThreadPushes, RootWatch, WatchDrive, ScanFile, DriveBegin,
     DriveSlot, DriveEnd
<1>1. app \notin {"register", "start"}
  BY <1>0, Names DEF Joined, Between
<1>2. \A w \in Waiters : waiter'[w] \in {"testing", "sleeping"}
                        <=> waiter[w] \in {"testing", "sleeping"}
  <2>1. UNCHANGED waiter \/ waiter' = WakeAll
    BY DEF ThreadStep, ThreadExits, ThreadReads, ThreadUpdates, ThreadPushes, RootWatch,
           WatchDrive, ScanFile, DriveBegin, DriveSlot, DriveEnd, PushEvent
  <2>. QED
    BY <2>1 DEF WakeAll
<1>3. \/ glock' = glock /\ (thread'[p] = "removing" <=> thread[p] = "removing")
      \/ glock = Free /\ glock' = p /\ thread'[p] = "removing"
      \/ thread[p] = "removing" /\ glock' = Free /\ thread'[p] # "removing"
  <2>1. CASE DriveBegin(p)
    BY <1>0, <2>1 DEF DriveBegin
  <2>2. CASE DriveEnd(p)
    BY <1>0, <2>2 DEF DriveEnd
  <2>3. CASE DriveSlot(p)
    BY <1>0, <2>3 DEF DriveSlot
  <2>4. CASE ThreadExits(p) \/ ThreadReads(p) \/ RootWatch(p)
    BY <1>0, <2>4, HandlerType DEF ThreadExits, ThreadReads, RootWatch, Handler
  <2>5. CASE ThreadUpdates(p) \/ ThreadPushes(p)
    BY <1>0, <2>5 DEF ThreadUpdates, ThreadPushes, Resume
  <2>6. CASE WatchDrive(p) \/ ScanFile(p)
    BY <1>0, <2>6 DEF WatchDrive, ScanFile, Resume
  <2>. QED
    BY <2>1, <2>2, <2>3, <2>4, <2>5, <2>6 DEF ThreadStep
<1>. QED
  BY <1>0, <1>1, <1>2, <1>3, Names DEF LockOwners

LEMMA LockOwnersAsked ==
  ASSUME TypeOK, LockOwners, NEW w \in Waiters,
         WaiterStep(w) \/ \E b \in BOOLEAN : Call(w, b)
  PROVE  LockOwners'
<1>0. /\ waiter \in [Waiters -> Waits]
      /\ UNCHANGED <<app, glock, thread>>
  BY DEF TypeOK, Waits, WaiterStep, TestReady, Poll, Lock, Test, Sleep, Call,
         appVars, threadVars
<1>1. \A v \in Waiters \ {w} : waiter'[v] = waiter[v]
  BY <1>0 DEF WaiterStep, TestReady, Poll, Lock, Test, Sleep, Call, Goes
<1>2. \/ /\ mutex' = mutex
         /\ waiter[w] \notin {"testing", "sleeping"} /\ waiter'[w] \notin {"testing", "sleeping"}
      \/ mutex = Free /\ mutex' = w /\ waiter'[w] = "testing"
      \/ mutex' = mutex /\ waiter[w] = "testing" /\ waiter'[w] = "sleeping"
      \/ /\ waiter[w] \in {"testing", "sleeping"} /\ mutex' = Free
         /\ waiter'[w] \in {"idle", "waiting"}
  BY <1>0 DEF WaiterStep, TestReady, Poll, Lock, Test, Sleep, Call, Goes
<1>. QED
  BY <1>0, <1>1, <1>2, Names DEF LockOwners

LEMMA LockOwnersStep ==
  ASSUME TypeOK, TypeOK', Joined, LockOwners, Next
  PROVE  LockOwners'
<1>0. thread \in [Producers -> Steps] /\ Producers = {"usb", "flash"}
  BY DEF TypeOK, Steps, Producers
<1>1. CASE InitializeBegin
  <2>1. /\ app = "off" /\ app' = "register" /\ glock' = "app"
        /\ UNCHANGED <<thread, mutex, waiter>>
    BY <1>1 DEF InitializeBegin, threadVars
  <2>2. \A p \in Producers : thread[p] = "off"
    BY <1>0, <2>1 DEF Joined, Between
  <2>. QED
    BY <2>1, <2>2, Names DEF LockOwners
<1>2. CASE Register
  BY <1>2 DEF Register, LockOwners, threadVars
<1>3. CASE InitializeEnd
  <2>1. /\ app = "start" /\ app' = "on" /\ glock' = Free /\ UNCHANGED <<mutex, waiter>>
        /\ \A p \in Producers : thread'[p] # "removing"
    BY <1>3 DEF InitializeEnd
  <2>. QED
    BY <2>1, Names DEF LockOwners
<1>4. CASE FinalizeBegin
  BY <1>4 DEF FinalizeBegin, LockOwners, threadVars
<1>5. ASSUME NEW p \in Producers, StopThread(p) \/ JoinThread(p) PROVE LockOwners'
  BY <1>5 DEF StopThread, JoinThread, Stopping, Joining, After, LockOwners, threadVars,
              Producers
<1>6. CASE ClearReady \/ Destroy
  BY <1>6 DEF ClearReady, Destroy, LockOwners, threadVars
<1>7. CASE Broadcast
  <2>1. /\ UNCHANGED <<glock, thread, mutex>> /\ app = "broadcast" /\ app' = "destroy"
        /\ \A w \in Waiters : waiter'[w] \in {"testing", "sleeping"}
                              <=> waiter[w] \in {"testing", "sleeping"}
    BY <1>7 DEF Broadcast, WakeAll, threadVars
  <2>. QED
    BY <2>1 DEF LockOwners
<1>8. CASE WorldStep
  BY <1>8 DEF WorldStep, PlugDrive, UnplugDrive, PlugOrUnplug, Changing, appVars,
              LockOwners
<1>. QED
  BY <1>1, <1>2, <1>3, <1>4, <1>5, <1>6, <1>7, <1>8, LockOwnersThread, LockOwnersAsked
  DEF Next, AppStep

LEMMA LockInvariant == Spec => [](LockOwners /\ Flags)
<1>1. Init => LockOwners /\ Flags
  BY Names DEF Init, LockOwners, Flags
<1>2. HotInv /\ HotInv' /\ LockOwners /\ Flags /\ [Next]_vars => LockOwners' /\ Flags'
  <2>1. CASE Next
    BY <2>1, LockOwnersStep, FlagsStep DEF HotInv
  <2>2. CASE UNCHANGED vars
    BY <2>2 DEF vars, appVars, threadVars, LockOwners, Flags
  <2>. QED
    BY <2>1, <2>2
<1>. QED
  BY <1>1, <1>2, HotInvariant, PTL DEF Spec

(* No deadlock on g_lock and g_hotplug_mutex, but for that of C_Initialize  *)
(* (InitializeReturns): slot_remove_flash_dir pushes its events with g_lock *)
(* held, and nobody does it the other way round; C_Finalize joins the       *)
(* threads without a lock, so none of them waits for it.                    *)
THEOREM LocksAreOrdered == Spec => []LockOrder
<1>1. TypeOK /\ LockOwners => LockOrder
  <2>. SUFFICES ASSUME TypeOK, LockOwners PROVE LockOrder
    OBVIOUS
  <2>1. ASSUME mutex # Free
        PROVE  ~AwaitsLock(mutex) /\ ~AwaitsMutex(mutex) /\ ~AwaitsOther(mutex)
    <3>1. mutex \in Waiters /\ waiter[mutex] \in {"testing", "sleeping"}
      BY <2>1 DEF LockOwners
    <3>. QED
      BY <3>1, Names DEF AwaitsLock, AwaitsMutex, AwaitsOther
  <2>2. ASSUME glock # Free
        PROVE  ~AwaitsOther(glock) /\ (AwaitsLock(glock) => glock = "app" /\ Reentered)
    <3>1. CASE glock = "app"
      BY <3>1, Names DEF LockOwners, AwaitsLock, AwaitsOther
    <3>2. CASE glock \in Producers
      BY <3>2, Names DEF LockOwners, AwaitsLock, AwaitsOther
    <3>. QED
      BY <2>2, <3>1, <3>2 DEF LockOwners
  <2>. QED
    BY <2>1, <2>2 DEF LockOrder
<1>. QED
  BY <1>1, LockInvariant, HotInvariant, PTL DEF HotInv

(* A thread that pushes an event finds g_hotplug_mutex_ready set and the    *)
(* mutex not destroyed, though it tests and locks at different times: both  *)
(* change only while the threads are not running.                           *)
QueueIsThere == \A p \in Producers : thread[p] # "off" => ready /\ ~Destroyed

THEOREM PushersFindTheQueue == Spec => []QueueIsThere
<1>1. Joined /\ Flags => QueueIsThere
  BY Names DEF Joined, Between, Flags, QueueIsThere, Destroyed
<1>. QED
  BY <1>1, LockInvariant, HotInvariant, PTL DEF HotInv
=============================================================================
