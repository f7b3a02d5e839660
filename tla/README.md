# wolfP11 in TLA+

wolfP11 is a PKCS#11 library: applications call `C_*` functions to find tokens,
log in, and sign, decrypt or hash with keys that live in a software keystore, on
a USB flash drive, in a watched directory, on a PIV token behind a CCID reader, or
on a wolfHSM server. This directory holds a model of its control logic, the TLC runs that
check it and the TLAPS proofs about it. Line numbers refer to the commit
these files are kept with, and to `src/src/wp11_pkcs11.c` where no file is named;
`PROJECT.json` maps each definition to its lines.

Run a check with `tlc -config <run>.cfg <module>.tla`, a proof with `tlapm
<module>.tla`.

## 1. Inventory

| Component | State | Operations | Interacts with |
|---|---|---|---|
| PKCS#11 layer, `src/src/wp11_pkcs11.c` | `g_slots[]`, `g_sessions[]`, `g_keys[]`, `g_initialized` | about sixty `C_*` calls | every part below; all under the mutex `g_lock`, which is not recursive |
| Hotplug, same file | `g_hotplug_queue`, head, tail, dropped count, `*_ready` and `*_running` flags, the watch table of the flash thread | libusb callback, inotify threads, `C_WaitForSlotEvent` | writes the slot table under `g_lock`, the queue under `g_hotplug_mutex` |
| Operations of a session, same file | `*_active`, `*_key`, `*_oneshot`, `*_multipart`, cipher and hash contexts, `find_*` | Init, single-part, Update, Final, find | the object table, the backends |
| CCID transport, `wp11_ccid.c` | `wp11_ccid_ctx`: USB handle, sequence number, desync flag | open, apdu, close | libusb; the PIV protocol |
| PIV protocol, `wp11_proto_piv.c` | none in the host; on the card "PIN verified" and the rest of a long answer | select, verify PIN, get certificate, sign, ECDH, generate, attest | the transport; `C_Login`, `C_Sign`, ... |
| Backends soft, keystore (flash, FSDIR), wolfHSM, USB | one key or connection each | sign, verify, decrypt, derive through `wp11_backend_ops_t` | called with `g_lock` held |
| Keystore file, `wp11_keystore.c` | the `.p11k` file and its temporary files, a decrypted copy in locked memory | load, save, free | `C_Login`, `C_InitPIN`, `soft_slot_save`, the command line tool |
| Command line tool, `cli/wp11_cli.c` | none between runs | create, import, remove, change PIN, add a certificate on a keystore file | the keystore file, which a library may have open |
| OpenPGP, token database, settings | stubs; a constant table; macros | | |

What is hard about it:

* **Shared tables.** Slots, sessions and objects point at each other and at
  heap memory (readers, keystores, HSM clients). A token may leave between any two
  calls; objects of one slot can be used from sessions of another; a table entry is reused
  without being cleared. What makes it
  correct: nothing points at freed memory, nothing allocated is lost, login state
  is the token's and not the session's, a call touches one token only, attributes tell the
  truth about the object that has them.
* **Threads.** Two event threads, an initialising and finalising thread, and
  any number of callers blocked on a condition variable, with two mutexes and
  unprotected flags. Correct: no lost wakeup, no event lost in silence, no
  deadlock, events agree with the slot table, the slot table with what is plugged in.
* **Protocols.** A session's operation goes through Init, parts and Final with
  retries; the PIV conversation is a sequence of commands over a transport that
  fails. Correct: data enters once, modes do not mix, an answer is
  matched with its own command, every call ends.
* **Partial failure.** `C_Login` opens a resource, loads it and fills a table
  of limited size; each step can fail.
* **Crashes.** A keystore file is replaced in five system calls, each of which may
  fail or be the last of its process or of the machine. Correct: the file at the path is a
  complete old or new one at every instant, and no key that was reported as saved is lost.

The hazards are listed one by one, with line and properties, under `hazards` in
`PROJECT.json`.

## 2. Modules

```
Cryptoki      <- MCCryptoki            tables, sessions, login, objects
   |          <- Cryptoki_proofs
   |  INSTANCE (refinement)
TokenLogin                             what PKCS#11 promises of sessions and login
ObjectSearch  <- ObjectSearch_proofs   C_FindObjects in pages
   |  EXTENDS        |  EXTENDS
ObjectTable   <- ObjectTable_proofs    attributes and values of objects
Operations    <- Operations_proofs     one operation of a session
Hotplug       <- MCHotplug             threads, queue, waiting
   |          <- Hotplug_proofs <- HotplugPresence_proofs
   |  INSTANCE (refinement)
EventQueue                             what the queue promises
PivToken      <- PivToken_proofs       CCID transport and PIV commands
KeystoreFile  <- MCKeystoreFile        who writes the keystore file, and how
   |          <- KeystoreFile_proofs
   |  INSTANCE (refinement)
AtomicFile                             what a save promises
```

They cut the program where it is cut itself. Every `C_*` call holds
`g_lock` from its first line to its last, so `Cryptoki`, `Operations`, `ObjectSearch` and
`ObjectTable` make **one action of one call**. The other three look at what that lock does not
cover. `Hotplug` is what happens at its
edges: there a step is a critical section or one access to an unprotected flag.
`PivToken` looks inside one call, at the transfers it makes while it
holds the lock. `KeystoreFile` looks at the file system, which other processes share: there a step
of a save is a system call. A call that returns an error and changes nothing is a stuttering step.

**Cryptoki.** `sess`, `keys`, `present`, `held`, `pin`, `low` are fields of
`g_sessions`, `g_keys` and `g_slots` (the comment at each VARIABLE names them);
`res` is the heap: for every allocated reader, keystore or connection, the slot it was
made for; `file` says whether the soft token has a keystore path and whether a file is there. Without a path (line 2276:
none is configured, or `$HOME` is too long; or a build without the flash backend) `C_Login` asks for no PIN and loads nothing, `C_Logout` clears no
key, and nothing is saved. `C_Login` is
eleven actions, one for each branch and outcome: wrong PIN, SO, and per protocol success
and "object table full"; on the soft token a key of the file that does not decode ends the login in the same way (`LoginSoftDrops`). The helpers carry the names of what they
do to the tables: `Swept` is `*_slot_clear_keys`, `Populated` the
`*_slot_populate_keys` functions, `LoggedOut` the session part of `C_Logout`, `Closed` the
invalidation of a slot's sessions, `Inherits` the login state that `C_OpenSession` copies.
A library restart (`C_Finalize`, then `C_Initialize`) is one action,
because every call in between returns at once. Abstracted: attributes (see `ObjectTable`),
mechanisms, key bytes, the protocols behind the backends (their outcome is
a choice), and failing allocations. An object has a mark (`renewed`) that changes when `C_GenerateKeyPair` replaces the PIV key
it stands for (`RenewOnPiv`): handle and object stay, the key does not. Two constants say what an application does: `Foreign`, whether it uses
keys of one slot in sessions of another, and `NewClasses`, what it creates by `C_CreateObject`. `LoginFsdir` is the build with both the flash and the FSDIR
backend, in which two login branches run one after the other for an FSDIR slot (line 4110);
with FSDIR alone, an FSDIR slot behaves like a flash slot, `LoginKeystore`, and a slot of protocol "fsdir" may do either.

**TokenLogin.** For each token the read-only and the read-write sessions that are open on it and who is
logged in: opening, closing one or all, login, logout, restart. The code has no login state of a token, it keeps one with
every session. `LoginSpec` in `Cryptoki` is this specification with `user` what the open sessions of a slot say
(`UserOf`): that they say the same, that a new session joins in, and that a login ends with a logout or the last session, is what
it takes for the table to implement it.

**ObjectSearch.** `pos` is `find_pos`. The template is the set of handles that
match; the calls that come between the pages add to it and take from it.

**ObjectTable.** Extends the search with what it searches: `entries` is `g_keys[]` with the
attributes of secret keys, and a search for a label runs over it while objects come, go and are
relabelled. No entry is cleared when its object goes, and each constructor is an operator from the
old entry to the new one (`Import`, `Generated`, `BackendKey`, `Half`): what it does not assign stays. The search's
actions are steps of `ObjNext`, and the change of `matching` that `ObjectSearch` leaves open is here
what the call does to the table (`Matches`). `told` and `hidden` are ghosts: whose value
`C_GetAttributeValue` has returned, and which keys were generated so that it must not. `C_SetAttributeValue` keeps
what it has applied when it refuses a later attribute, so a call is a sequence of `SetAttribute` steps.

**Operations.** One operation of one kind and the objects it may name. Data is
counted in blocks, and `ctx` is how much has gone through the cipher or hash
context. `InitStarts`, `Single*`, `Update*`, `Final*` are the outcomes of the calls of
each shape; kinds of the same shape share them (`SignDone` is `C_Sign` and `C_Verify`,
`SingleDone` is `C_Encrypt`, `C_Decrypt` and `C_Digest`), with a guard where
they differ. `NeedsKey`, `ByBackend`, `Accepts` and `Usable` say which object type passes
which test in which call.

**Hotplug.** `app` is where the application thread stands in `C_Initialize` or
`C_Finalize`, `thread[p]` where the libusb or inotify thread stands, `waiter[w]` where a
caller of `C_WaitForSlotEvent` stands: between the test of the ready flag and the mutex, between
the test of the queue and `pthread_cond_wait`, asleep, or woken. `news[p]` is what libusb or the
kernel has reported and the thread has not read. The flash thread watches the root directory first and
looks for a drive then (`RootWatch`); for a drive, whether it was found or reported, it adds the watch and then scans (`WatchDrive`, `ScanFile`), so
that a file made in between is both found and reported. When a drive goes, a loop over its slots pushes an
event at each under `g_lock` (`DriveBegin`, `DriveSlot`, `DriveEnd`), then the watch is freed (`Unwatch`)
and what it had still to report finds no descriptor any more (`Forgotten`).
`inuse` is which slots of the table are taken: `C_Initialize` takes some for directories and servers (`Others`), an arrival takes one and keeps it until
`C_Finalize`; with all `MaxSlots` taken, or with a path that is too long (`LongPaths`), what arrives gets no slot and is no event (`HasSlot`).
The kernel and libusb are external: each change is reported in order once a thread
listens.

**EventQueue.** The bounded FIFO with a drop counter that the ring buffer implements;
`QueueSpec` in `Hotplug` is its specification under the refinement mapping
`queue <- Contents`, `Capacity <- QueueSize - 1`.

**PivToken.** `reader` is `wp11_ccid_ctx`, `wire` the frames the reader has sent and
nobody has taken, `todo` the `wp11_piv_*` functions the current call has still to make,
`phase` and `apdu` where the first of them stands. `wp11_ccid_apdu` is two steps: the OUT
transfer and the IN transfer with its checks. The card may refuse, answer in parts,
never end, answer late or not at all; the reader may ask for more time or send a damaged
frame. Closing and opening the reader sends it nothing, and `wp11_ccid_open` starts at number 0: what the reader had
still to say (`MaxLeft` frames of it, or nothing) is there when it is opened again. `reader.clean` says whether that was nothing. The
comments at 298 and 362 of `wp11_ccid.c` expect closing and reopening to resynchronize; see `late_answer` in section 6.

**KeystoreFile.** The soft token's file, the library processes and tools that use it. `dir` is the
directory (three names: the path, `path.tmp`, and `path.tmp.tmp`, which the tool's save inside a save uses),
`data` and `safe` are the contents of each inode and whether they are on the disk, `disk` is the inode the path has after a power
failure. `mem` is what a process holds: a library the cached PIN and the soft keys of its
table, a tool what it has loaded. A save is `OpenTemp`, `Write`, `Sync`, `Rename` and for the tool `Move`;
`SaveFails` is any of these calls failing, with the removals the code makes then; `Kill` ends a
process, `PowerLoss` the machine, `Journal` brings the directory to the disk. A keystore is its PIN
and, for each key, how many entries have it: `soft_slot_save` writes the public and the private object of a pair, and a
login without a logout before it doubles the table. `kept` and `keptDisk` are ghosts: the keys a
finished save has promised and nobody has given up since.

**AtomicFile.** A register that is read and replaced as a whole; a power failure may bring back an
older complete value. `FileIsAtomic` in `KeystoreFile` is its specification with
`now` what opening the path finds, and `stable` what it finds after a power failure.

## 3. Runs

| Run | Instance | What it shows |
|---|---|---|
| `soft_and_piv` | a soft slot, with a path or without, and a PIV slot, 2 sessions, 2 objects, 1 reader, no operations | login state is uniform on a token, no SO beside a read-only session, a logged-in user has resources, a logout wipes, a call touches one token, sessions and login are those of `TokenLogin` |
| `fsdir_and_hsm` | an FSDIR slot, whose login loads once or twice, and an HSM slot, 2 sessions with one operation each, 2 objects, 3 resources, keys used in sessions of their own slot | types; nothing dangles; sessions need a token; a logged-in user has resources; keys go with the connection; operations on private keys are logged in; the key of an operation does not change under it; a logout wipes |
| `object_search` | `ObjectTable` with 2 entries, pages of 0 to 2, every attribute combination | the pages together are complete and without repeats; CKA_LOCAL and CKA_ALWAYS_SENSITIVE tell a key's history in reused entries; hidden values stay inside |
| `operations` | all five kinds, all object types, 2 handles, parts of 0 to 2 blocks, 3 blocks in all | data is fed once, a retry is accepted, one-shot calls start fresh, modes do not mix |
| `hotplug` | one USB token, one drive with one file, nothing or the drive with its file there at the start; two waiters, a ring of 3 cells (capacity 2), a slot table of 2, of which one slot may be taken by `C_Initialize`; 2 changes, 1 start | no lost wakeup, events agree with the slot table, and the table with what is plugged in as far as it has places, the ring is an `EventQueue`, events are taken, the joins of `C_Finalize` return |
| `piv_token` | sequence numbers modulo 3, 2 certificates, objects of up to 3 parts with room for 2, one frame that may outlive its login | an answer belongs to its command if the reader was opened with nothing left to say, an object is whole or an error, who is logged in has given the PIN, every call ends |
| `keystore_file` | 2 keys, 2 PINs, a table of 2 entries, 4 inodes, one library and one tool that take turns; kills, power failures and failing calls of a save | the file is complete at every instant, no saved key is lost, the file is an `AtomicFile` |
| `stale_op`, `finalize_wakes`, `initialize_returns`, `late_answer`, `init_pin` | smallest instance that shows it | expected violations, section 6 |

**Why the bounds are enough.** Two sessions are what a uniform login
state needs (one to inherit from, one to differ); with two the last session of
a token can be closed and another opened. Two objects fill the table, so that every "no room" branch is
reached with and without older keys in it, and a handle is reused. Two
slots are what a call can confuse. `MaxRes` lets a slot leak once or twice and log in again.
Two entries of `ObjectTable` are a source and a copy, or the halves of a pair, and one object after another in one
entry; the theorems hold for any number.
Two waiters and a ring of capacity two let an
event wake two callers, of which one finds it taken, let two events stand in the ring in their order, with the wrap-around between them,
and let an event be dropped: a drive that is there at the start, and two changes, are up to three events. With one of two slots taken the
token or the file that comes second finds the table full. Two changes are an
arrival and a departure; together with a drive that is there at the start they reach a drive that goes and
comes back while its first scan runs. A restart over what a first run left, and several tokens and files, are
in the proofs. Modulo 3 the sequence number wraps within one login; with objects of 3 parts and
room for 2, a long answer fits, fits exactly, or does not. In `keystore_file` one generated pair fills the
table, a second login overflows it, and the disk and the three names can have an inode each. Keys and PINs
are symmetric: no action or property tells one from another. The number of actions taken
is never bounded, except by `MaxChanges`, `MaxStarts`, `MaxData` and `MaxSlips`.
A flash slot is an FSDIR slot that loads once (`LoginKeystore`), so it has no run of its own among those that pass.
`MaxLeft = 1` is the one answer that a failed login leaves.

**What the passing runs do not say.**

* `OpKeyStable` and `PrivateOpsLoggedIn` hold in `fsdir_and_hsm` for an application that uses keys in sessions of
  their own slot (`Foreign = FALSE`). One that does not is the finding of `stale_op`. A soft token whose login fails, and a PIV token that makes
  a new key, change or remove a key under an operation as well (section 6); that run has neither. The theorems
  say what has to be kept to for them to hold with any slots (section 5).
* `PresentIsPlugged` is about tokens with a slot of their own; two tokens of one vid and pid
  share what `slot_remove` compares. What finds no place in the slot table is not shown, and is not shown later either, before it is
  plugged in again. And it is about one drive directory that appears together with its
  files; see section 6 for the directory that is made before the drive is mounted on it.
* `NeverPartial`, `NoLostKeys` and `FileIsAtomic` are checked under `Exclusive`: one process at a time uses the
  file, from its login (or load) to its logout (or exit). Nothing in the code sees to it, there is no lock, and the bound is
  tight. With `Exclusive = FALSE` and no faults at all TLC finds two saves that write one `path.tmp` and a
  mixture that is renamed to the path, in eight steps; for `NeverPartial` and `FileIsAtomic` it is enough that no two
  saves overlap (`OneSaver`, section 5). Using a file lasts longer than a save: a library whose sessions were closed without a logout
  still has the PIN and the keys, and its next save takes back what the tool has
  changed since. `NoLostKeys` also needs that reads do not fail
  (no `"read"` in `Faults`); that is the finding of `init_pin`.
* `OwnAnswer`, `WholeObject` and `LoginIsVerified` are about logins that open a reader with nothing left to say; the
  others are the finding of `late_answer`. `OwnAnswer` also needs `MaxSlips < SeqMod`: a
  reader that gets out of step unnoticed (a failed OUT transfer that arrived, a
  time extension) as often as there are sequence numbers, 256, within one login, can have an old
  answer accepted. The bound is tight: with `MaxSlips = SeqMod` TLC finds the
  trace.
* `ModesNeverMix` is about calls that complete: `C_DigestUpdate` does accept data
  after a size query of `C_Digest`, but no call then finishes that digest; and `C_EncryptFinal` after a
  size query of `C_Encrypt` ends the operation with CKR_OK, without any data.
* Nothing is said about failing calls ending their operation: several do not (section 6).

**Deadlock.** `hotplug`, `finalize_wakes` and `initialize_returns` have `CHECK_DEADLOCK FALSE`: when the bounds on changes
and starts are used up and nobody waits, there is nothing left to do, and
`C_Initialize` with a known token attached stops for ever (section 6). The other
runs check for deadlock.

**Fairness.** `Hotplug!FairSpec` assumes weak fairness of each thread's steps: the
scheduler runs a thread that can run, and a mutex is held only
over sections that do not block. Nobody has to call anything and nothing has to be
plugged in or out. `PivToken!FairSpec` assumes weak fairness of the host's steps: every
libusb transfer has a timeout of five seconds, after which the code goes on.
Nothing is asked of the card, which may answer "more" for ever. The
other modules have safety properties only: their calls do not wait for anything.

## 4. Errors each property would catch

Each module has definitions named `X_Bad`: `X` with a plausible mistake. No
action uses them; put in place of `X` they break the property beside them.

| Module | Mistake | Property |
|---|---|---|
| Cryptoki | `OpInit_Bad` off-by-one of handle and index | TypeOK |
| | `Inherits_Bad` a new session starts logged out | LoginUniform, LoginSpec |
| | `LoginSO_Bad` read-only sessions are not looked for | SOSessionsReadWrite |
| | `Swept_Bad` keys stay in the table | KeysFollowConnection, NoDangling, LogoutWipes |
| | `AsUser_Bad` sessions of every slot are logged in | OneTokenPerStep |
| | `Closed_Bad` sessions survive their token | SessionsNeedToken, UserHasResources |
| | `LoginKeystoreNoRoom_Bad` a login goes on after the table is full | UserHasResources |
| | `LoggedOut_Bad` operations survive the logout | PrivateOpsLoggedIn, LogoutWipes |
| | `WithoutOpsOn_Bad` destroying a key leaves operations on it | OpKeyStable |
| ObjectSearch | `FindInit_Bad` the position is not reset | FoundAll |
| | `Page_Bad` the next page starts at the last hit | FoundOnce |
| ObjectTable | `Cleared_Bad` a logout clears what is not the backend's | TableTypeOK |
| | `Refuses_Bad` CKA_SENSITIVE can be taken back | ValueStaysInside |
| | `Import_Bad` an imported key keeps the history of its entry | AttributesTell |
| Operations | `Feed_Bad` no limit on data | TypeOK |
| | `UpdateTooSmall_Bad` data is fed before the buffer is measured | DataOnce |
| | `DigestFinalQuery_Bad` a size query makes a one-shot of the digest | RetryIsAccepted |
| | `SingleDone_Bad` one-shot after parts | OneShotIsFresh |
| | `DigestFinalDone_Bad` Final after a one-shot query | ModesNeverMix |
| Hotplug | `Next1_Bad` no wrap-around | TypeOK |
| | `WakeAll_Bad` no broadcast | SleepersHaveNoEvent, EventsAreTaken |
| | `DriveSlot_Bad` a slot is cleared without an event | LastEventAgrees |
| | `WatchDrive_Bad` a drive is watched and not scanned | PresentIsPlugged |
| | `Full_Bad` full and empty look the same | QueueSpec |
| | `FinalizeBegin_Bad` `g_lock` is kept over the joins | FinalizeJoins |
| PivToken | `NextSeq_Bad` no wrap-around | TypeOK |
| | `ReceiveFails_Bad` the desync flag is not set | OwnAnswer |
| | `CollectLast_Bad` a full buffer ends the object | WholeObject |
| | `Fatal_Bad` a login goes on after a refused PIN | LoginIsVerified |
| | `CollectMore_Bad` an empty part is asked for again | CallReturns |
| KeystoreFile | `DestroyObject_Bad` a key that is not in the table | TypeOK |
| | `OpenTemp_Bad` the file itself is opened and emptied | NeverPartial |
| | `Login_Bad` the file's keys do not get into the table | NoLostKeys |
| | `Sync_Bad` no fsync before the rename | FileIsAtomic |


## 5. Proofs

TLAPS proves for all values of the constants, under the module's named assumption
and what the column "under" adds to it:

| Theorem | Property | Under |
|---|---|---|
| `Cryptoki_proofs!TypeCorrect` | TypeOK | |
| `LoginIsUniform` | LoginUniform | |
| `SOIsReadWrite` | SOSessionsReadWrite | |
| `SessionsHaveTokens` | SessionsNeedToken | |
| `UsersHaveResources` | UserHasResources | |
| `NoFailuresPending` | NoFailuresWhileLoggedIn | |
| `NothingDangles` | NoDangling | |
| `KeysAreConnected` | KeysFollowConnection | |
| `SessionsImplementLogin` | LoginSpec | |
| `StepsConcernOneToken` | OneTokenPerStep | |
| `LogoutWipesAll` | LogoutWipes | |
| `OpsHaveTheirKeys` | OpsHaveKeys | `OwnKeys`, `KeysLoad` |
| `PrivateOpsAreLoggedIn` | PrivateOpsLoggedIn | `OwnKeys`, `KeysLoad` |
| `OpKeysAreStable` | OpKeyStable | `OwnKeys`, `KeysLoad`, `NoRenewal` |
| `ClaimScans` | `Claim(n)` is n first-free scans | |
| `ObjectSearch_proofs!TypeCorrect` | TypeOK of the search | |
| `SearchIsComplete` | FoundAll | |
| `SearchIsWithoutRepeats` | FoundOnce | |
| `ObjectTable_proofs!TableImplementsSearch` | `ObjSpec` implements `ObjectSearch!Spec` | |
| `TableSearchIsComplete` | FoundAll, FoundOnce of the table | |
| `TableTypeCorrect` | TableTypeOK | |
| `HiddenValuesStay` | ValueStaysInside | |
| `AttributesAreTrue` | AttributesTell | |
| `Operations_proofs!TypeCorrect` | TypeOK | |
| `EachPartOnce` | DataOnce | |
| `SinglePartIsFresh` | OneShotIsFresh | |
| `ModesStayApart` | ModesNeverMix | |
| `RetriesAccepted` | RetryIsAccepted | |
| `PivToken_proofs!TypeCorrect` | TypeOK | |
| `AnswersMatch` | OwnAnswer | |
| `ObjectsAreWhole` | WholeObject | |
| `LoginMeansVerified` | LoginIsVerified | |
| `CallsAreBounded` | `CallIsBounded`: a variant of every call | |
| `Hotplug_proofs!TypeCorrect` | TypeOK | |
| `NoWakeupLost` | SleepersHaveNoEvent | |
| `EventsAgree` | LastEventAgrees | |
| `RingIsQueue` | QueueSpec | |
| `LocksAreOrdered` | `LockOrder`: no circular wait | |
| `PushersFindTheQueue` | `QueueIsThere`: the mutex lives as long as the threads | |
| `HotplugPresence_proofs!TableShowsTokens` | PresentIsPlugged | `OfDifferentKinds` |
| `KeystoreFile_proofs!TypeCorrect` | TypeOK | |
| `NotPartial` | NeverPartial | `OneSaver` |
| `IsAtomicFile` | FileIsAtomic | `OneSaver` |
| `SingleUserIsAtomic` | NeverPartial, FileIsAtomic | `Exclusive` |
| `KeysNotLost` | NoLostKeys | `Exclusive`, no failing reads |

*Cryptoki*, from `CryptokiAssumption` (the soft token has one slot, limits are natural
numbers). Four invariants, each inductive with those before it. `TypeOK` comes
first. `LoginInv` puts together the properties of the login state, because none of them is inductive alone: that the SO is
never beside a read-only session needs that all sessions of a slot agree, and that a session
needs a token is used wherever a slot's resources are; it adds that a closed
entry is nobody's (`ClosedIsPublic`), without which an entry that is opened again could bring
an old user with it. `HeapInv` says that what slots and objects point to is allocated for
their slot; a login that overwrites `held` needs from `LoginInv` that nobody is logged in, and from `TypeOK` that the
new resource is a free one, so that the keys of an earlier login are not taken for its own.
`SessionsImplementLogin` is a step simulation over `TypeOK` and `LoginInv`: a step that is seen by `TokenLogin` changes the
sessions of one token (`Kept` holds of the others), and since the sessions of a token agree before and after it (`TokenUser`), what
they say is what the abstract step makes it; all other calls are stutters.
Two action properties follow from the first three invariants. `OneTokenPerStep`: an action on
slot `t` leaves the sessions, the objects and the resources of every other slot as they are (lemmas
`Stays...`); that a logout or a departure, which frees what `held[t]` names, frees nothing of
another slot is `HeapInv`. `LogoutWipes`: only `C_Logout` turns a logged-in session
public, and after it the slot has no connection, so `HeapInv` leaves no key of its backend; the exception, the keys of a soft token
without a path, is part of the property.

The three properties of active operations are false of the code as it is (`stale_op`); the theorems about them say how far
an application can rely on them. `OwnKeys`: it starts operations on, and derives from, keys of the
session's own slot, the rule the comment at 4804 states ("object handles are slot-scoped") and `C_SignInit` and `C_DeriveKey` do not check.
`KeysLoad`: every login on the soft token finds a place for each key of the file and can decode it, since a `C_Login` that drops one sweeps public keys that others use
(section 6). `NoRenewal`, for `OpKeyStable`: `C_GenerateKeyPair` makes no new PIV key where an object stands for the old one. They are asked of every
step of a behaviour (`[][OwnKeys /\ KeysLoad]_vars`); they forbid no other call, and
sessions of several slots may have operations at once. `OpsInv` is the invariant: the key of an operation is in use and its session's, a private one has a logged-in session, and an object of a slot's
own backend (`Backed`) is private or has a connection, so that the sweep of a failing login, which needs that nobody is logged in
and nothing is connected, meets no key in use.

`ClaimScans` is about the model: `Claim(n)`, which takes the n lowest free entries at once, is what the code's loop of n scans for
the first free entry takes.

*ObjectSearch*, from `MaxKeys \in Nat`. `FoundAll` says nothing about the middle of a
search; `SearchInv` does: handles up to `pos` that matched all the time have been
found, none beyond `pos` has. A page moves the border, and a handle that is
destroyed and given away stays on its side of it.

*ObjectTable*. The table implements the search: what a call does to objects and attributes is for the search one change of
what matches, `C_Logout` ends it, and reading a value is a stutter. So the theorems about pages hold of the table, and the type
invariant of the search is part of the table's. `TableInv` is a statement about each entry by itself (`Good`), with its
place in the two histories. `AttributesTell` is not inductive: it needs that a key
which was always sensitive is local, because `C_SetAttributeValue` can make an imported key
sensitive after its value was told.

*Operations*. `OpInv` adds two facts about an operation between calls: outside the
multi-part mode no data has gone through the context (`Fresh`, for `OneShotIsFresh`), and only a
digest was ever used in both modes (`Modes`, for `ModesNeverMix`). The other properties are about
the last call alone.

*PivToken*, from `MaxSlips < SeqMod`, and for the properties of answers from a reader that was opened with nothing left to say (`reader.clean`, a part of
their statements). `PivInv` has four parts beside the types. `Shape`: the functions of a
call come in the order of `C_Login`, and nothing after the PIN of a login ends it.
`Verified`: past that point the card has verified. `InStep`: the i-th frame on the wire answers one
of the last `slips + 1 - i` commands; so a frame with the number of the command just sent
is its answer as long as the reader slipped less often than there are numbers. `Whole`: what has been collected
is a prefix of the object, and the frame on the wire its next part.
`CallIsBounded` is the safety core of `CallReturns`: a count (`StepsLeft`: the commands that are left, each with the parts that still
fit in the buffer, and the stage of the current transfer) is zero exactly between calls, never above a bound set by the number of certificates, and
falls with every step of the host, whatever the card answers. It bounds the time that a token that misbehaves can hold `g_lock`: each
transfer ends within five seconds (`wp11_ccid.c:218`).

*Hotplug*. `HotInv` says who holds `g_hotplug_mutex` (`Guarded`, for `SleepersHaveNoEvent`), which thread reports
which slots (`Own`), that no thread runs once it was joined (`Joined`), and what the
last queued event of a slot says while a thread is between the slot table and the queue (`Agree`). The
refinement rests on the arithmetic of the ring: how many cells are used and which cell is the
k-th, with and without wrap-around (`CntIs`, `ConIs`).
`LockOrder` is the safety core of `FinalizeJoins`: who holds `g_hotplug_mutex` waits for nothing, who holds `g_lock` waits at most for
`g_hotplug_mutex`, and `C_Finalize` joins a thread without a lock; the one exception is the finding of `initialize_returns`.
`QueueIsThere`: a thread that pushes finds the flag set and the mutex not yet destroyed, which `C_Finalize` achieves by joining first.

*HotplugPresence*, for tokens of which no two share vid and pid. `PresentIsPlugged` speaks only of the moments at which
everything has been handled. The invariant speaks of the others: each change is in the table, in the
event the thread is handling, on the list of the scan, or in what is still to be read. It
has a part for what holds outside a run (`Rests`), for USB tokens (`TokensSettle`), for the drive
(`DriveSettles`: every arrival is noticed after the last departure; `Unwatched`: no file of a drive
without a watch) and for its files (`FilesSettle`). "In the table" is there `Shown`: present, or without a place. Once there is no place for a slot
there never will be one in this run of the library (`TableFills`), for slots are taken and not given back.

*KeystoreFile*. The types need nothing but that a save writes a keystore. `FileInv`: no two names share an inode and no temporary
name has the disk's (`Apart`), the path and the disk have complete files (`Done`), and how far each save has come (`Stage`). That is
what the temporary file and the fsync are there for, and `NotPartial` and `IsAtomicFile` follow, in behaviours in which no two
processes are in the middle of a save at once (`OneSaver`): any number may read, hold the keys and change them. `Exclusive` is a
constant of the model under which that is so (`Solo`: one process uses the file), and `NoLostKeys` needs it.
`KeysInv`: the file and the disk have the promised keys (`Has`), and what a process holds, or is about to
write, carries them (`Carries`).

**Only model-checked:** the liveness properties `EventsAreTaken`, `FinalizeJoins` and `CallReturns`, as liveness under
fairness is out of reach of the proof system. `LocksAreOrdered`, `NoWakeupLost` and `CallsAreBounded` are the safety facts that they rest on.
The properties of the four expected violations are false, `OpsHaveKeys` is proved under the conditions above.

## 6. Where the code and its comments disagree

Each of these is a run that TLC is expected to refute.

* **`stale_op`** (`OpsHaveKeys`). A session may use a key of another slot. A logout or departure
  of that slot frees the key and clears the operations of its own sessions only; the operation of the other
  session keeps a handle that is free, and may later be another key's. The
  comment at 4220 describes the state as the one to avoid.
* **`finalize_wakes`** (`FinalizeWakesWaiters`). `C_Finalize` clears the flag and broadcasts without the mutex (2679): a caller
  between its test and its wait sleeps through it.
* **`initialize_returns`** (`InitializeReturns`). `C_Initialize` registers the hotplug callback with
  ENUMERATE while it holds `g_lock` (2371); for an attached token of the database the callback runs in the same thread and
  waits for `g_lock`.
* **`late_answer`** (`ReopenResyncs`). An answer that comes after the host gave up waiting stays in the reader when
  `C_Login` closes it; `wp11_ccid_close` and `wp11_ccid_open` send no Abort, no reset and read nothing (`wp11_ccid.c:433`, 103), and the new
  context numbers its commands from 0 (213). The next login takes the old answer for that of its own command. The
  comments at 298 and 362 say that closing and reopening resynchronizes.
* **`init_pin`** (`UninitializedOnly`). `C_InitPIN` takes `WP11_KEYSTORE_ERR_IO` for "there is no
  keystore" (3225), but `wp11_keystore_load` returns it for every open, fstat or read that fails
  (`wp11_keystore.c:921`): a file that cannot be read at that moment is replaced by an empty one. The comments at 3215 and
  3226 say the opposite.

Seen while modelling, without a run.

*Sessions and login.*
* Closing the last session does not log out; the next `C_Login` overwrites the pointer to the first keystore (4078), which the
  comment at 407 says is freed at logout. The reader of a PIV token (396) and the cached PIN (413) outlive the sessions in the same
  way; in the build with both keystore backends a login of an FSDIR slot loads twice (4110).
* A `C_Login` on the soft token that finds the object table full, or a key that does not decode, clears the soft keys of the slot, public ones
  of earlier calls included, and does not end the operations that sessions have on them (4052): they keep a handle that is free,
  which the comment at 4220 describes as the state to avoid. `stale_op` needs two slots, this needs one.
* `C_GenerateKeyPair` on a PIV token replaces the key behind an object that other sessions have operations on (7743).
* A certificate that is lost during `C_Login` leaves a login on a reader that refuses everything (3954).
* `hotplug_cb` takes `g_lock` without looking at `g_lock_ready` and can write the table that
  `C_Finalize` has cleared (1009, against 2586).

*Objects.*
* `C_DestroyObject` leaves `cert_der` in the entry (only `piv_slot_clear_keys` frees it, 731); a later object there
  answers `CKA_VALUE` with the old certificate (4896).
* A data object that takes over the entry of a key keeps its key attributes (4376). An imported key that is made not extractable
  answers `CKA_NEVER_EXTRACTABLE` with true (5044, against the comment at 4379). The value of an
  imported secret key is returned although it is sensitive (4894).
* `C_SetAttributeValue` and `C_CopyObject` do not compare the object's slot with the session's, which the comment
  at 4804 asks for. `C_SetAttributeValue` applies what precedes a refused attribute (5016).
* Keys of a PIV token are not private unless the table entry was before (3938, against 337).

*Operations.*
* `C_Sign` and `C_Verify` leave the operation active for an object without a backend (7337), and `C_Verify` with NULL arguments
  (7222): against the comment at 7236, "the operation is consumed by C_Verify regardless of outcome". `C_Sign`
  (6932), `C_DigestUpdate` (6682) with NULL arguments and `C_DigestKey` on a bad key (6721) leave theirs active as well.
* `C_DecryptInit` looks at the key before the active flag (5932); `C_EncryptFinal` and
  `C_DecryptFinal` with NULL arguments do not end the operation (5853, 6514), although the cleanup says "On error, terminate the operation" (5869): it
  tests a session pointer that is not set yet. A backend without `decrypt`, which `C_Decrypt` tests for (6382), does not exist:
  `wp11_backend_validate` (2213) refuses it.
* `wp11_piv_sign` does not collect an answer in parts and takes at most 247 bytes
  (`wp11_proto_piv.c:505`, against `wp11_ccid.c:274`).

*Keystore files.*
* A destroyed key returns at the next login: `C_DestroyObject` (4678) does not save. `HOWTO.md:683` says that
  generated or imported keys are persistent; imported keys, Ed25519 keys, keys of `C_GenerateKey` and pairs that are
  generated without a login are not saved.
* Two programs that save share the fixed name `path.tmp` (`wp11_keystore.c:1389`). A library that has
  PIN and keys from closed sessions takes back what the tool has changed since, and its
  next save drops certificates that `cert-add` has put into the file.
* `wp11_keystore_load` unlocks its plaintext only on the error paths: after a successful decode it frees it without `munlock`
  (`wp11_keystore.c:1073`, against the comment at 880).

*Flash drives.*
* The watch of a drive's directory is added when the directory is made (1989). Where the drive is mounted on it
  afterwards, the watch is on the directory underneath and nothing rescans.
* Only direct subdirectories of `/run/media` are watched (`wp11_settings.h:88`); the
  comment there and at 1903 says that udisks2 mounts drives one level deeper, and `HOWTO.md:534` copies the keystore to
  `/media/$USER`.
* Files directly in the root directory are scanned once and their removal is not noticed (1942). The comment at
  1828 says that symbolic links are skipped, `stat` follows them.
* Two tokens of one vid and pid: the slot that goes when one is unplugged may be the other's (754).

## 7. Not modelled, and the plan

Every module of the plan is written and checked, and has its proofs: `Cryptoki` over `TokenLogin`, `ObjectSearch`,
`ObjectTable`, `Operations`, `Hotplug` over `EventQueue`, `PivToken`, `KeystoreFile` over `AtomicFile`.

Left for later:

1. `Hotplug` with several drives: the limit of the watch table, the reuse of watch
   descriptors, directories that are renamed.
2. `Cryptoki` and `Operations` composed over sessions of two slots.
3. The certificate bytes of an entry (`cert_der`) in `ObjectTable`.

Left out:

* wolfCrypt and libusb, which are external; the kernel's inotify, of which `Hotplug` has what the
  code relies on.
* The encoding, parsing and cryptography of keystore files and APDUs: conversions of data without state. A
  keystore opens with the PIN it was written with, a damaged frame is refused.
* The backends soft, keystore and wolfHSM: calls on one key that keep nothing between
  them. The lifetime of what they work on is in `Cryptoki`.
* OpenPGP (stubs without callers), the token database (a constant table), the settings.
* The tool's commands that only read, and its argument parsing.
* Calls that return `CKR_FUNCTION_NOT_SUPPORTED` and change nothing: `C_InitToken` (3176), `C_SetPIN` (3261), and
  those made by `unsupported()` (3164): multi-part sign and verify, recover, combined operations, wrap and unwrap,
  operation state. `C_GenerateRandom` changes nothing either.
