------------------------------ MODULE Hotplug -------------------------------
(***************************************************************************)
(* The hotplug threads, the event queue and C_WaitForSlotEvent of          *)
(* src/src/wp11_pkcs11.c, from C_Initialize to C_Finalize.                 *)
(*                                                                         *)
(* Threads: the application thread that initialises and finalises, the     *)
(* libusb event thread, the inotify thread of the flash backend, and       *)
(* application threads in C_WaitForSlotEvent.  Locks: g_lock and           *)
(* g_hotplug_mutex; a section that takes a lock, does not block and        *)
(* releases it is one step, guarded by the lock being free.                *)
(*                                                                         *)
(* A flash drive is a directory below the watched one; its .p11k files are *)
(* its tokens.  The kernel and libusb are external: they report every      *)
(* change of what is plugged in, in order, once somebody listens, and of a *)
(* file once its directory is watched.  A drive appears with its files; a  *)
(* directory that exists before the drive is mounted on it is left out.    *)
(*                                                                         *)
(* A definition named X_Bad is X with a plausible programming error; no    *)
(* action uses it.  The README says which property each of them breaks.    *)
(***************************************************************************)
EXTENDS Naturals, Sequences, FiniteSets

CONSTANTS
  Tokens,      \* USB tokens with a vid and pid of the token database
  Files,       \* keystore files on the flash drive
  SlotOf,      \* the slot of a token's vid and pid, of a file's path
  LongPaths,   \* files whose path does not fit keystore_path
  Others,      \* slots that C_Initialize itself fills: directory, wolfHSM
  MaxSlots,    \* WOLFP11_CFG_MAX_SLOTS - 1: slot 0 is the soft token's
  Waiters,     \* application threads that call C_WaitForSlotEvent
  QueueSize,   \* WP11_HOTPLUG_QUEUE_SIZE
  Initially,   \* bound: what may be plugged in to begin with
  MaxChanges,  \* bound: changes of what is plugged in
  MaxStarts    \* bound: calls of C_Initialize

ASSUME HotplugAssumption ==
  /\ Tokens \cap Files = {} /\ "drive" \notin Tokens \cup Files
  /\ DOMAIN SlotOf = Tokens \cup Files
  /\ \A f \in Files, d \in DOMAIN SlotOf : SlotOf[f] = SlotOf[d] => f = d
  /\ Tokens \cup Files # {}
  /\ LongPaths \subseteq Files
  /\ IsFiniteSet(Tokens \cup Files) /\ IsFiniteSet(Others)
  /\ MaxSlots \in Nat
  /\ \A d \in DOMAIN SlotOf : SlotOf[d] \notin {"drive", "?"}
  /\ \A P \in Initially : /\ P \subseteq Tokens \cup Files \cup {"drive"}
                          /\ P \cap Files # {} => "drive" \in P
  /\ {"app", "usb", "flash", "free"} \cap Waiters = {}
  /\ QueueSize \in Nat \ {0, 1}
  /\ MaxChanges \in Nat /\ MaxStarts \in Nat

Slots     == {SlotOf[d] : d \in Tokens \cup Files}
FileSlots == {SlotOf[f] : f \in Files}
Producers == {"usb", "flash"}
Free      == "free"   \* the owner of a mutex nobody holds
Owners    == Producers \cup {"app", Free} \cup Waiters
Drive     == "drive"  \* in place of a slot: the whole mount point
Unknown   == "?"      \* in place of a slot: the watch has been freed

Change(s, a) == [slot |-> s, arrived |-> a]
Events == [slot : Slots, arrived : BOOLEAN]
News   == [slot : Slots \cup {Drive, Unknown}, arrived : BOOLEAN]
NoChange == Change(Drive, FALSE)

VARIABLES
  app,      \* where the application thread is in C_Initialize, C_Finalize
  starts,   \* calls of C_Initialize so far
  glock,    \* the owner of g_lock
  usable,   \* g_lock_ready
  up,       \* g_initialized
  ready,    \* g_hotplug_mutex_ready
  mutex,    \* the owner of g_hotplug_mutex
  ring, head, tail, dropped,  \* g_hotplug_queue and its indices
  inuse,    \* the slots of g_slots that are in_use
  present,  \* the slots of tokens and files with token_present
  thread,   \* where the libusb and the inotify thread are
  running,  \* g_event_thread_running, g_flash_thread_running
  cur,      \* the change of a slot a thread is handling
  todo,     \* slots slot_remove_flash_dir or flash_scan_dir has to visit
  watch,    \* the drive in g_flash_watches: "none", "live", or "gone" if the
            \*   kernel has dropped the watch with the directory
  waiter,   \* where a caller of C_WaitForSlotEvent is
  plugged,  \* the tokens, the drive and the files that are there
  news,     \* changes reported to a thread and not yet read
  changes   \* changes so far

appVars    == <<app, starts, usable, up, ready>>
queueVars  == <<ring, head, tail, dropped>>
threadVars == <<thread, running, cur, todo, watch>>
worldVars  == <<plugged, news, changes>>
vars == <<appVars, glock, mutex, queueVars, inuse, present, threadVars, waiter,
          worldVars>>

-----------------------------------------------------------------------------
Next1_Bad(i) == i + 1

Next1(i) == (i + 1) % QueueSize

Empty == head = tail
Full_Bad == tail = head
Full  == Next1(tail) = head

WakeAll_Bad == waiter

(* pthread_cond_broadcast *)
WakeAll == [w \in Waiters |-> IF waiter[w] = "waiting" THEN "woken"
                                                       ELSE waiter[w]]

(* hotplug_push_event, in one step: it is called while the threads run,     *)
(* when g_hotplug_mutex_ready is set, and waits only for the mutex.         *)
PushEvent(s, a) ==
  /\ mutex = Free
  /\ IF Full
     THEN /\ dropped' = dropped + 1
          /\ UNCHANGED <<ring, head, tail>>
     ELSE /\ ring' = [ring EXCEPT ![tail] = Change(s, a)]
          /\ tail' = Next1(tail)
          /\ UNCHANGED <<head, dropped>>
  /\ waiter' = WakeAll

(* What has been taken is blank to the model: it is not read again.         *)
Blank == [i \in 0..QueueSize - 1 |-> Change(CHOOSE s \in Slots : TRUE, FALSE)]

TakeEvent ==
  /\ head' = Next1(head)
  /\ ring' = [ring EXCEPT ![head] = Blank[head]]
  /\ UNCHANGED <<tail, dropped>>

-----------------------------------------------------------------------------
Init ==
  /\ app = "off" /\ starts = 0
  /\ usable = FALSE /\ up = FALSE /\ ready = FALSE
  /\ glock = Free /\ mutex = Free
  /\ ring = Blank /\ head = 0 /\ tail = 0 /\ dropped = 0
  /\ inuse = {} /\ present = {}
  /\ thread = [p \in Producers |-> "off"]
  /\ running = [p \in Producers |-> FALSE]
  /\ cur = [p \in Producers |-> NoChange]
  /\ todo = {} /\ watch = "none"
  /\ waiter = [w \in Waiters |-> "idle"]
  /\ plugged \in Initially
  /\ news = [p \in Producers |-> <<>>]
  /\ changes = 0

-----------------------------------------------------------------------------
(* External: what is plugged in changes; libusb tells once the callback is  *)
(* registered, inotify of a drive once the thread has watched the directory *)
(* they appear in, and of a file once it has watched the drive.             *)
Told(p, c) ==
  \/ p = "usb" /\ app \in {"start", "on", "usb_stop", "usb_join"}
  \/ p = "flash" /\ IF c.slot = Drive THEN thread[p] \notin {"off", "start"}
                                      ELSE watch = "live"

Tell(p, c) == news' = IF Told(p, c) THEN [news EXCEPT ![p] = Append(@, c)]
                                    ELSE news

Changing ==
  /\ changes < MaxChanges
  /\ changes' = changes + 1
  /\ UNCHANGED <<appVars, glock, mutex, queueVars, inuse, present, thread,
                 running, cur, todo, waiter>>

PlugOrUnplug(d) ==
  /\ Changing
  /\ d \in Files => Drive \in plugged
  /\ plugged' = IF d \in plugged THEN plugged \ {d} ELSE plugged \cup {d}
  /\ Tell(IF d \in Tokens THEN "usb" ELSE "flash",
          Change(SlotOf[d], d \notin plugged))
  /\ UNCHANGED watch

PlugDrive ==
  /\ Changing
  /\ Drive \notin plugged
  /\ \E F \in SUBSET Files : plugged' = plugged \cup {Drive} \cup F
  /\ Tell("flash", Change(Drive, TRUE))
  /\ UNCHANGED watch

UnplugDrive ==
  /\ Changing
  /\ Drive \in plugged
  /\ plugged' = plugged \ ({Drive} \cup Files)
  /\ Tell("flash", Change(Drive, FALSE))
  /\ watch' = IF watch = "live" THEN "gone" ELSE watch

-----------------------------------------------------------------------------
(* C_Initialize: the tables and the queue are cleared under g_lock; it must *)
(* not run concurrently with other calls (comment at line 2239).            *)
InitializeBegin ==
  /\ app = "off" /\ starts < MaxStarts
  /\ \A w \in Waiters : waiter[w] = "idle"
  /\ app' = "register" /\ starts' = starts + 1
  /\ usable' = TRUE /\ ready' = TRUE
  /\ glock' = "app"
  /\ ring' = Blank /\ head' = 0 /\ tail' = 0 /\ dropped' = 0
  /\ present' = {}
  /\ inuse' \in {S \in SUBSET Others : Cardinality(S) <= MaxSlots}
  /\ UNCHANGED <<up, mutex, threadVars, waiter, worldVars>>

(* libusb_hotplug_register_callback with LIBUSB_HOTPLUG_ENUMERATE calls     *)
(* hotplug_cb for every attached device before it returns, in this thread.  *)
(* The callback of a known token waits for g_lock, which this thread holds. *)
Register ==
  /\ app = "register"
  /\ Tokens \cap plugged = {}
  /\ app' = "start"
  /\ UNCHANGED <<starts, usable, up, ready, glock, mutex, queueVars, inuse,
                 present, threadVars, waiter, worldVars>>

(* The threads are created.                                                 *)
InitializeEnd ==
  /\ app = "start"
  /\ app' = "on" /\ up' = TRUE
  /\ glock' = Free
  /\ thread' = [p \in Producers |-> IF p = "usb" THEN "loop" ELSE "start"]
  /\ running' = [p \in Producers |-> TRUE]
  /\ UNCHANGED <<starts, usable, ready, mutex, queueVars, inuse, present, cur,
                 todo, watch, waiter, worldVars>>

-----------------------------------------------------------------------------
FinalizeBegin_Bad ==
  /\ app = "on" /\ glock = Free
  /\ app' = "usb_stop"
  /\ up' = FALSE /\ usable' = FALSE
  /\ inuse' = {} /\ present' = {}
  /\ glock' = "app"
  /\ UNCHANGED <<starts, ready, mutex, queueVars, threadVars, waiter,
                 worldVars>>

(* C_Finalize: its section under g_lock, *)
FinalizeBegin ==
  /\ app = "on" /\ glock = Free
  /\ app' = "usb_stop"
  /\ up' = FALSE /\ usable' = FALSE
  /\ inuse' = {} /\ present' = {}
  /\ UNCHANGED <<starts, ready, glock, mutex, queueVars, threadVars, waiter,
                 worldVars>>

(* then each thread is told to stop and joined, *)
Stopping(p) == IF p = "usb" THEN "usb_stop" ELSE "flash_stop"
Joining(p)  == IF p = "usb" THEN "usb_join" ELSE "flash_join"
After(p)    == IF p = "usb" THEN "flash_stop" ELSE "wake"

StopThread(p) ==
  /\ app = Stopping(p)
  /\ running' = [running EXCEPT ![p] = FALSE]
  /\ app' = Joining(p)
  /\ UNCHANGED <<starts, usable, up, ready, glock, mutex, queueVars, inuse,
                 present, thread, cur, todo, watch, waiter, worldVars>>

JoinThread(p) ==
  /\ app = Joining(p) /\ thread[p] = "off"
  /\ news' = [news EXCEPT ![p] = <<>>]
  /\ app' = After(p)
  /\ UNCHANGED <<starts, usable, up, ready, glock, mutex, queueVars, inuse,
                 present, threadVars, waiter, plugged, changes>>

(* then g_hotplug_mutex_ready is cleared, without the mutex, *)
ClearReady ==
  /\ app = "wake"
  /\ ready' = FALSE
  /\ app' = "broadcast"
  /\ UNCHANGED <<starts, usable, up, glock, mutex, queueVars, inuse, present,
                 threadVars, waiter, worldVars>>

Broadcast ==
  /\ app = "broadcast"
  /\ waiter' = WakeAll
  /\ app' = "destroy"
  /\ UNCHANGED <<starts, usable, up, ready, glock, mutex, queueVars, inuse,
                 present, threadVars, worldVars>>

(* and the condition variable and the mutex are destroyed.  glibc's         *)
(* pthread_cond_destroy waits for the threads blocked on the variable.      *)
Destroy ==
  /\ app = "destroy"
  /\ \A w \in Waiters : waiter[w] # "waiting"
  /\ app' = "off"
  /\ UNCHANGED <<starts, usable, up, ready, glock, mutex, queueVars, inuse,
                 present, threadVars, waiter, worldVars>>

-----------------------------------------------------------------------------
(* event_thread_fn and flash_thread_fn: the running flag is tested between  *)
(* batches of notifications.                                                *)
ThreadExits(p) ==
  /\ thread[p] = "loop" /\ ~running[p]
  /\ thread' = [thread EXCEPT ![p] = "off"]
  /\ watch' = IF p = "flash" THEN "none" ELSE watch
  /\ UNCHANGED <<appVars, glock, mutex, queueVars, inuse, present, running,
                 cur, todo, waiter, worldVars>>

Handler(c) ==
  CASE c.slot = Unknown -> "loop"
    [] c.slot = Drive   -> IF c.arrived THEN "mount" ELSE "drive"
    [] OTHER            -> "change"

ThreadReads(p) ==
  /\ thread[p] = "loop" /\ news[p] # <<>>
  /\ thread' = [thread EXCEPT ![p] = Handler(Head(news[p]))]
  /\ cur' = IF Handler(Head(news[p])) = "change"
            THEN [cur EXCEPT ![p] = Head(news[p])] ELSE cur
  /\ news' = [news EXCEPT ![p] = Tail(@)]
  /\ UNCHANGED <<appVars, glock, mutex, queueVars, inuse, present, running,
                 todo, watch, waiter, plugged, changes>>

(* The inotify thread watches the directory of the drives and then looks    *)
(* for a drive that is already there.                                       *)
RootWatch(p) ==
  /\ thread[p] = "start"
  /\ thread' = [thread EXCEPT ![p] = "mount"]
  /\ UNCHANGED <<appVars, glock, mutex, queueVars, inuse, present, running,
                 cur, todo, watch, waiter, worldVars>>

(* After a file of a scan comes the next.                                   *)
Resume(p) ==
  /\ thread' = [thread EXCEPT ![p] = IF p = "flash" /\ todo' # {}
                                     THEN "scan" ELSE "loop"]
  /\ cur' = [cur EXCEPT ![p] = NoChange]

WatchDrive_Bad(p) ==
  /\ thread[p] = "mount"
  /\ watch' = IF Drive \in plugged /\ watch = "none" THEN "live" ELSE watch
  /\ thread' = [thread EXCEPT ![p] = "loop"]
  /\ UNCHANGED <<appVars, glock, mutex, queueVars, inuse, present, running,
                 cur, todo, waiter, worldVars>>

(* flash_watch_add_dir, which keeps a watch of the same path, and           *)
(* flash_scan_dir.  Neither finds a drive that has gone again.              *)
WatchDrive(p) ==
  /\ thread[p] = "mount"
  /\ IF Drive \in plugged
     THEN /\ watch' = IF watch = "none" THEN "live" ELSE watch
          /\ todo' = FileSlots
     ELSE UNCHANGED <<watch, todo>>
  /\ Resume(p)
  /\ UNCHANGED <<appVars, glock, mutex, queueVars, inuse, present, running,
                 waiter, worldVars>>

(* One file of the scan.  What has appeared since the scan began may be     *)
(* missed: the kernel has told of it.                                       *)
ScanFile(p) ==
  /\ thread[p] = "scan"
  /\ \E f \in Files :
       LET s == SlotOf[f]
       IN  /\ s \in todo
           /\ todo' = todo \ {s}
           /\ \/ /\ f \in plugged
                 /\ cur' = [cur EXCEPT ![p] = Change(s, TRUE)]
                 /\ thread' = [thread EXCEPT ![p] = "change"]
              \/ /\ \/ f \notin plugged
                    \/ \E k \in DOMAIN news[p] :
                         news[p][k] \in {Change(s, TRUE), Change(Drive, TRUE)}
                 /\ Resume(p)
  /\ UNCHANGED <<appVars, glock, mutex, queueVars, inuse, present, running,
                 watch, waiter, worldVars>>

(* slot_add, slot_add_keystore: what had a slot gets it back, what is new   *)
(* needs a free one, which a path that is too long is not given.  No slot   *)
(* is freed before C_Finalize.                                              *)
HasSlot(s) ==
  \/ s \in inuse
  \/ /\ \A f \in LongPaths : SlotOf[f] # s
     /\ Cardinality(inuse) < MaxSlots

(* hotplug_cb, flash_file_arrived, flash_file_departed: the slot table is   *)
(* updated under g_lock, whatever g_lock_ready says; an arrival without a   *)
(* slot and a departure that finds no token are not events.                 *)
ThreadUpdates(p) ==
  /\ thread[p] = "change" /\ glock = Free
  /\ UNCHANGED todo
  /\ LET s == cur[p].slot
         a == cur[p].arrived
     IN  \/ /\ a /\ HasSlot(s)
            /\ inuse' = inuse \cup {s} /\ present' = present \cup {s}
            /\ thread' = [thread EXCEPT ![p] = "push"] /\ UNCHANGED cur
         \/ /\ ~a /\ s \in present
            /\ present' = present \ {s} /\ UNCHANGED inuse
            /\ thread' = [thread EXCEPT ![p] = "push"] /\ UNCHANGED cur
         \/ /\ IF a THEN ~HasSlot(s) ELSE s \notin present
            /\ UNCHANGED <<inuse, present>>
            /\ Resume(p)
  /\ UNCHANGED <<appVars, glock, mutex, queueVars, running, watch, waiter,
                 worldVars>>

ThreadPushes(p) ==
  /\ thread[p] = "push"
  /\ PushEvent(cur[p].slot, cur[p].arrived)
  /\ UNCHANGED todo
  /\ Resume(p)
  /\ UNCHANGED <<appVars, glock, mutex, inuse, present, running, watch,
                 worldVars>>

(* flash_watch_free: what a freed watch has still to tell will be skipped,  *)
(* for its descriptor is no longer found.                                   *)
Forgotten(c) == IF c.slot = Drive THEN c ELSE Change(Unknown, c.arrived)

Unwatch ==
  /\ watch' = "none"
  /\ news' = [news EXCEPT !["flash"] = [k \in DOMAIN @ |-> Forgotten(@[k])]]

(* flash_dir_departed: this one respects g_lock_ready, and                  *)
(* slot_remove_flash_dir pushes its events while g_lock is held.            *)
DriveBegin(p) ==
  /\ thread[p] = "drive" /\ glock = Free
  /\ IF usable
     THEN /\ glock' = p
          /\ todo' = FileSlots \cap present
          /\ thread' = [thread EXCEPT ![p] = "removing"]
          /\ UNCHANGED <<watch, news>>
     ELSE /\ thread' = [thread EXCEPT ![p] = "loop"]
          /\ Unwatch
          /\ UNCHANGED <<glock, todo>>
  /\ UNCHANGED <<appVars, mutex, queueVars, inuse, present, running, cur,
                 waiter, plugged, changes>>

DriveSlot_Bad(p) ==
  /\ thread[p] = "removing" /\ todo # {}
  /\ present' = present \ todo
  /\ todo' = {}
  /\ UNCHANGED <<appVars, glock, mutex, queueVars, inuse, thread, running, cur,
                 watch, waiter, worldVars>>

DriveSlot(p) ==
  /\ thread[p] = "removing"
  /\ \E s \in todo :
       /\ PushEvent(s, FALSE)
       /\ present' = present \ {s}
       /\ todo' = todo \ {s}
  /\ UNCHANGED <<appVars, glock, mutex, inuse, thread, running, cur, watch,
                 worldVars>>

DriveEnd(p) ==
  /\ thread[p] = "removing" /\ todo = {}
  /\ glock' = Free
  /\ thread' = [thread EXCEPT ![p] = "loop"]
  /\ Unwatch
  /\ UNCHANGED <<appVars, mutex, queueVars, inuse, present, running, cur, todo,
                 waiter, plugged, changes>>

-----------------------------------------------------------------------------
(* C_WaitForSlotEvent.  The library's state is tested under g_lock, *)
Goes(w, from, to) ==
  /\ waiter[w] = from
  /\ waiter' = [waiter EXCEPT ![w] = to]

Call(w, poll) ==
  /\ glock = Free /\ usable /\ up
  /\ Goes(w, "idle", IF poll THEN "poll" ELSE "block")
  /\ UNCHANGED <<appVars, glock, mutex, queueVars, inuse, present, threadVars,
                 worldVars>>

(* then g_hotplug_mutex_ready with no lock, *)
TestReady(w) ==
  /\ \/ ready /\ (Goes(w, "poll", "polling") \/ Goes(w, "block", "entering"))
     \/ ~ready /\ (Goes(w, "poll", "idle") \/ Goes(w, "block", "idle"))
  /\ UNCHANGED <<appVars, glock, mutex, queueVars, inuse, present, threadVars,
                 worldVars>>

(* and the queue under the mutex; a mutex that C_Finalize has destroyed     *)
(* cannot be locked (glibc: EINVAL), which ends the call with an error.     *)
Destroyed == app = "off"

Poll(w) ==
  /\ mutex = Free
  /\ Goes(w, "polling", "idle")
  /\ IF Empty \/ Destroyed THEN UNCHANGED queueVars ELSE TakeEvent
  /\ UNCHANGED <<appVars, glock, mutex, inuse, present, threadVars, worldVars>>

Lock(w) ==
  /\ mutex = Free
  /\ \/ Destroyed /\ (Goes(w, "entering", "idle") \/ Goes(w, "woken", "idle"))
        /\ UNCHANGED mutex
     \/ ~Destroyed /\ (Goes(w, "entering", "testing") \/ Goes(w, "woken", "testing"))
        /\ mutex' = w
  /\ UNCHANGED <<appVars, glock, queueVars, inuse, present, threadVars,
                 worldVars>>

(* The loop condition, evaluated with the mutex held. *)
Test(w) ==
  /\ \/ Empty /\ ready /\ Goes(w, "testing", "sleeping")
        /\ UNCHANGED <<mutex, queueVars>>
     \/ Empty /\ ~ready /\ Goes(w, "testing", "idle")
        /\ mutex' = Free /\ UNCHANGED queueVars
     \/ ~Empty /\ Goes(w, "testing", "idle")
        /\ mutex' = Free /\ TakeEvent
  /\ UNCHANGED <<appVars, glock, inuse, present, threadVars, worldVars>>

(* pthread_cond_wait releases the mutex and blocks in one step; wakeups     *)
(* without a cause, which the loop tolerates, are left out.                 *)
Sleep(w) ==
  /\ Goes(w, "sleeping", "waiting")
  /\ mutex' = Free
  /\ UNCHANGED <<appVars, glock, queueVars, inuse, present, threadVars,
                 worldVars>>

-----------------------------------------------------------------------------
WorldStep == PlugDrive \/ UnplugDrive \/ \E d \in Tokens \cup Files : PlugOrUnplug(d)

AppStep ==
  \/ Register \/ InitializeEnd
  \/ \E p \in Producers : StopThread(p) \/ JoinThread(p)
  \/ ClearReady \/ Broadcast \/ Destroy

ThreadStep(p) ==
  \/ ThreadExits(p) \/ ThreadReads(p) \/ ThreadUpdates(p) \/ ThreadPushes(p)
  \/ RootWatch(p) \/ WatchDrive(p) \/ ScanFile(p)
  \/ DriveBegin(p) \/ DriveSlot(p) \/ DriveEnd(p)

WaiterStep(w) == TestReady(w) \/ Poll(w) \/ Lock(w) \/ Test(w) \/ Sleep(w)

Next ==
  \/ WorldStep \/ AppStep \/ InitializeBegin \/ FinalizeBegin
  \/ \E p \in Producers : ThreadStep(p)
  \/ \E w \in Waiters :
       WaiterStep(w) \/ \E b \in BOOLEAN : Call(w, b)

(* The scheduler runs every thread that can take a step.  Nobody has to     *)
(* call anything or to plug anything in.                                    *)
Fairness ==
  /\ WF_vars(AppStep)
  /\ \A p \in Producers : WF_vars(ThreadStep(p))
  /\ \A w \in Waiters : WF_vars(WaiterStep(w))

Spec     == Init /\ [][Next]_vars
FairSpec == Spec /\ Fairness

-----------------------------------------------------------------------------
(* The tables hold what their C types and sizes allow. *)
TypeOK ==
  /\ app \in {"off", "register", "start", "on", "usb_stop", "usb_join",
             "flash_stop", "flash_join", "wake", "broadcast", "destroy"}
  /\ starts \in 0..MaxStarts /\ changes \in 0..MaxChanges
  /\ usable \in BOOLEAN /\ up \in BOOLEAN /\ ready \in BOOLEAN
  /\ glock \in Owners /\ mutex \in Owners
  /\ ring \in [0..QueueSize - 1 -> Events]
  /\ head \in 0..QueueSize - 1 /\ tail \in 0..QueueSize - 1 /\ dropped \in Nat
  /\ inuse \subseteq Slots \cup Others
  /\ present \subseteq Slots /\ todo \subseteq FileSlots
  /\ thread \in [Producers -> {"off", "start", "loop", "mount", "scan", "change",
                             "push", "drive", "removing"}]
  /\ watch \in {"none", "live", "gone"}
  /\ running \in [Producers -> BOOLEAN] /\ cur \in [Producers -> News]
  /\ waiter \in [Waiters -> {"idle", "poll", "block", "polling", "entering",
                             "testing", "sleeping", "waiting", "woken"}]
  /\ plugged \subseteq Tokens \cup Files \cup {Drive}
  /\ news \in [Producers -> Seq(News)]

Count    == (tail + QueueSize - head) % QueueSize
Contents == [k \in 1..Count |-> ring[(head + k - 1) % QueueSize]]

(* No wakeup of an event is lost: while the queue holds an event nobody is  *)
(* blocked on the condition variable.  hotplug_push_event broadcasts under  *)
(* the mutex, C_WaitForSlotEvent tests the queue under it.                  *)
SleepersHaveNoEvent ==
  (\E w \in Waiters : waiter[w] = "waiting") => Empty

(* C_WaitForSlotEvent and C_GetSlotList agree in the end: unless events     *)
(* were dropped, the last queued event of a slot says whether the slot has  *)
(* a token, once its thread has pushed.                                     *)
LastEventAgrees ==
  up /\ dropped = 0 =>
    \A s \in Slots :
      LET K == {k \in 1..Count : Contents[k].slot = s}
      IN  K # {} /\ (\A p \in Producers : thread[p] = "push" => cur[p].slot # s) =>
            \E k \in K : /\ \A j \in K : j <= k
                         /\ Contents[k].arrived = (s \in present)

(* token_present reflects what is plugged in (comment at line 381), once    *)
(* the threads have handled all that was reported to them: nothing is shown *)
(* that is not there, and what is there is shown unless the slot table has  *)
(* no place for it.                                                         *)
PresentIsPlugged ==
  up /\ (\A p \in Producers : thread[p] = "loop" /\ news[p] = <<>>) =>
    LET There == {SlotOf[d] : d \in plugged \ {Drive}}
    IN  /\ present \subseteq There
        /\ \A s \in There \ present : ~HasSlot(s)

(* The ring buffer is the queue it stands for. *)
Queue == INSTANCE EventQueue
           WITH queue <- Contents, dropped <- dropped, Capacity <- QueueSize - 1
QueueSpec == Queue!Spec

(* An event is not left in the queue while somebody waits for one. *)
Inside == {"polling", "entering", "testing", "sleeping", "waiting", "woken"}

EventsAreTaken ==
  \A k \in 0..QueueSize - 1 :
    (up /\ head = k /\ ~Empty /\ \E w \in Waiters : waiter[w] \in Inside)
      ~> (head # k \/ ~up)

(* C_Finalize gets past the joins: no thread it waits for is stuck on a     *)
(* lock, in the middle of a callback or of the removal of a drive.          *)
FinalizeJoins == app = "usb_stop" ~> app = "wake"

-----------------------------------------------------------------------------
(* What comments of the source say and the code does not do; see README.    *)

(* C_Finalize wakes the callers of C_WaitForSlotEvent. *)
FinalizeWakesWaiters ==
  app = "destroy" ~> \A w \in Waiters : waiter[w] # "waiting"

(* C_Initialize returns, with the tokens that were attached in the table. *)
InitializeReturns == app = "register" ~> app = "on"
=============================================================================
