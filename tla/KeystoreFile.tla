---------------------------- MODULE KeystoreFile ----------------------------
(***************************************************************************)
(* The keystore file of the soft token and who writes it: the library      *)
(* (C_InitPIN, C_GenerateKeyPair through soft_slot_save) and the command   *)
(* line tool (wp11 keystore ...), all through wp11_keystore_create.        *)
(*                                                                         *)
(* A save is one step per system call that others, or a crash, can come    *)
(* between: open the temporary file, write it, fsync it, rename it.  The   *)
(* library renames path.tmp to the path.  The tool hands path.tmp to       *)
(* wp11_keystore_create, which writes path.tmp.tmp and renames it to       *)
(* path.tmp, and then renames that to the path itself.                     *)
(*                                                                         *)
(* A rename reaches the disk some time later (Journal); data reaches it by *)
(* fsync.  Abstracted: the encryption (a keystore opens with the PIN it    *)
(* was written with), labels and ids, certificates, Ed25519 keys (which    *)
(* soft_slot_save skips).  A file is a keystore or Torn.  A Lib process is *)
(* the library in an application, whose calls run one after the other      *)
(* under g_lock; sessions may be closed between any two calls, so a login  *)
(* may follow a login.                                                     *)
(***************************************************************************)
EXTENDS Integers, FiniteSets

LOCAL INSTANCE Functions

CONSTANTS
  Libs,         \* processes that have loaded the library
  Tools,        \* terminals that run the command line tool
  Keys,         \* keys, as material: an entry of a file or table holds one
  Pins,
  MaxKeys,      \* MAX_KEYS of the library, 64 entries in a file
  MaxInodes,    \* bound: the files that exist at one time
  Exclusive,    \* the file has one user at a time: nothing in the code sees
                \*   to it, see MayUse
  Faults,       \* "kill", "power", "io" (of a save), "read" (of C_InitPIN)
  Torn, NoFile, NoPin

Procs  == Libs \cup Tools
Names  == {"path", "path.tmp", "path.tmp.tmp"}
Inodes == 1..MaxInodes
NoInode == 0
Bag    == [Keys -> Nat]
Stages == {"idle", "open", "write", "sync", "rename", "move"}

Keystore == [pin : Pins, keys : Bag]

ASSUME KeystoreFileAssumption ==
  /\ Libs \cap Tools = {}
  /\ MaxKeys \in Nat /\ MaxInodes \in Nat
  /\ Exclusive \in BOOLEAN
  /\ Torn \notin Keystore /\ NoFile \notin Keystore /\ Torn # NoFile
  /\ NoPin \notin Pins

VARIABLES
  dir,      \* the directory: name to inode
  disk,     \* the inode that has the path after a power failure
  data,     \* inode to contents
  safe,     \* the inode's contents are on the disk
  mem,      \* a library's soft_pin and soft keys in g_keys; what a tool loaded
  save,     \* where a process stands in wp11_keystore_create, and with what
  kept,     \* ghost: keys of completed saves that nobody has given up
  keptDisk  \* ghost: the same, as of disk

vars == <<dir, disk, data, safe, mem, save, kept, keptDisk>>

-----------------------------------------------------------------------------
Nothing  == [k \in Keys |-> 0]
NoMem    == [pin |-> NoPin, keys |-> Nothing]
NotSaving == [at |-> "idle", ino |-> NoInode, new |-> NoFile, drop |-> {}]

Size(b)      == SumFunction(b)
Support(b)   == {k \in Keys : b[k] > 0}
Plus(a, b)   == [k \in Keys |-> a[k] + b[k]]
With(b, k, n) == [b EXCEPT ![k] = @ + n]

File     == IF dir["path"] = NoInode THEN NoFile ELSE data[dir["path"]]
Whole(v) == v \notin {Torn, NoFile}

(* wp11_keystore_load: the file is there, is whole and opens with the PIN.  *)
Loads(pin) == Whole(File) /\ File.pin = pin

Idle(p) == save[p].at = "idle"

(* A process uses the file while it saves and while it holds what it read.  *)
MayUse(p) ==
  /\ Idle(p)
  /\ Exclusive => \A q \in Procs \ {p} : Idle(q) /\ mem[q].pin = NoPin

(* A save of content v begins.  The user means it to remove the keys D.     *)
Begins(p, v, D) ==
  save' = [save EXCEPT ![p] =
             [at |-> "open", ino |-> NoInode, new |-> v, drop |-> D]]

Init ==
  /\ dir = [n \in Names |-> NoInode]
  /\ disk = NoInode
  /\ data = [i \in Inodes |-> Torn]
  /\ safe = [i \in Inodes |-> TRUE]
  /\ mem = [p \in Procs |-> NoMem]
  /\ save = [p \in Procs |-> NotSaving]
  /\ kept = {} /\ keptDisk = {}

files == <<dir, disk, data, safe>>
ghosts == <<kept, keptDisk>>

-----------------------------------------------------------------------------
(* The library.  C_Login adds the file's keys to those of the table: keys   *)
(* of an earlier login are there if the sessions were closed without a      *)
(* logout, public keys if they were generated before the login.             *)
Login_Bad(p) ==
  /\ MayUse(p)
  /\ \E pin \in Pins :
       /\ Loads(pin)
       /\ mem' = [mem EXCEPT ![p].pin = pin]
  /\ UNCHANGED <<files, save, ghosts>>

Login(p) ==
  /\ MayUse(p)
  /\ \E pin \in Pins :
       /\ Loads(pin)
       /\ Size(Plus(mem[p].keys, File.keys)) <= MaxKeys
       /\ mem' = [mem EXCEPT ![p] =
                    [pin |-> pin, keys |-> Plus(@.keys, File.keys)]]
  /\ UNCHANGED <<files, save, ghosts>>

(* No room: soft_slot_clear_keys, and the cached PIN is forgotten. *)
LoginNoRoom(p) ==
  /\ MayUse(p)
  /\ \E pin \in Pins : Loads(pin)
  /\ Size(Plus(mem[p].keys, File.keys)) > MaxKeys
  /\ mem' = [mem EXCEPT ![p] = NoMem]
  /\ UNCHANGED <<files, save, ghosts>>

(* C_Logout, of the user or of the SO, and C_Finalize. *)
Logout(p) ==
  /\ Idle(p) /\ mem[p] # NoMem
  /\ mem' = [mem EXCEPT ![p] = NoMem]
  /\ UNCHANGED <<files, save, ghosts>>

(* C_InitPIN tries to load the file.  WP11_KEYSTORE_ERR_IO is taken to say  *)
(* that there is none; it is also what a failing open or read returns.      *)
InitPIN(p) ==
  /\ MayUse(p)
  /\ File = NoFile \/ "read" \in Faults
  /\ \E pin \in Pins : Begins(p, [pin |-> pin, keys |-> Nothing], {})
  /\ UNCHANGED <<files, mem, ghosts>>

(* New key material: not in any file or table, and not promised.            *)
Fresh(k) ==
  /\ k \notin kept \cup keptDisk
  /\ \A p \in Procs : mem[p].keys[k] = 0
  /\ \A i \in Inodes : Whole(data[i]) => data[i].keys[k] = 0

(* C_GenerateKeyPair: a public and a private object, both with the pair's   *)
(* key.  Without a cached PIN (a public pair, nobody logged in) no save.    *)
GeneratePair(p) ==
  /\ Idle(p)
  /\ \E k \in Keys :
       LET b == With(mem[p].keys, k, 2)
       IN  /\ Fresh(k)
           /\ Size(b) <= MaxKeys
           /\ mem' = [mem EXCEPT ![p].keys = b]
           /\ IF mem[p].pin = NoPin
              THEN UNCHANGED save
              ELSE Begins(p, [pin |-> mem[p].pin, keys |-> b], {})
  /\ UNCHANGED <<files, ghosts>>

DestroyObject_Bad(p) ==
  /\ Idle(p)
  /\ \E k \in Keys :
       /\ mem' = [mem EXCEPT ![p].keys[k] = @ - 1]
       /\ kept' = IF mem[p].keys[k] = 1 THEN kept \ {k} ELSE kept
  /\ UNCHANGED <<files, save, keptDisk>>

(* C_DestroyObject does not save: the key is in the file until a save.      *)
DestroyObject(p) ==
  /\ Idle(p)
  /\ \E k \in Support(mem[p].keys) :
       /\ mem' = [mem EXCEPT ![p].keys[k] = @ - 1]
       /\ kept' = IF mem[p].keys[k] = 1 THEN kept \ {k} ELSE kept
  /\ UNCHANGED <<files, save, keptDisk>>

-----------------------------------------------------------------------------
(* The tool.  Each command but create loads the file, then asks the user or *)
(* reads more files, then saves and exits.                                  *)
Load(p) ==
  /\ MayUse(p) /\ mem[p] = NoMem
  /\ \E pin \in Pins : Loads(pin) /\ mem' = [mem EXCEPT ![p] = File]
  /\ UNCHANGED <<files, save, ghosts>>

Loaded(p) == Idle(p) /\ mem[p].pin # NoPin

Create(p) ==
  /\ MayUse(p) /\ mem[p] = NoMem
  /\ \E pin \in Pins, K \in SUBSET Keys \ {{}} :
       /\ Cardinality(K) <= MaxKeys
       /\ Begins(p, [pin |-> pin,
                     keys |-> [k \in Keys |-> IF k \in K THEN 1 ELSE 0]], Keys)
  /\ UNCHANGED <<files, mem, ghosts>>

ImportKey(p) ==
  /\ Loaded(p)
  /\ Size(mem[p].keys) < MaxKeys
  /\ \E k \in Keys : Begins(p, [mem[p] EXCEPT !.keys[k] = @ + 1], {})
  /\ UNCHANGED <<files, mem, ghosts>>

(* The entries of one key have one label, and go together. *)
RemoveKey(p) ==
  /\ Loaded(p)
  /\ \E k \in Support(mem[p].keys) :
       Begins(p, [mem[p] EXCEPT !.keys[k] = 0], {k})
  /\ UNCHANGED <<files, mem, ghosts>>

PinChange(p) ==
  /\ Loaded(p)
  /\ \E pin \in Pins : Begins(p, [mem[p] EXCEPT !.pin = pin], {})
  /\ UNCHANGED <<files, mem, ghosts>>

CertAdd(p) ==
  /\ Loaded(p)
  /\ Begins(p, mem[p], {})
  /\ UNCHANGED <<files, mem, ghosts>>

Quit(p) ==
  /\ Loaded(p)
  /\ mem' = [mem EXCEPT ![p] = NoMem]
  /\ UNCHANGED <<files, save, ghosts>>

-----------------------------------------------------------------------------
(* wp11_keystore_create, and keystore_atomic_save of the tool around it.    *)
Temp(p) == IF p \in Tools THEN "path.tmp.tmp" ELSE "path.tmp"

Unused ==
  {i \in Inodes : /\ \A n \in Names : dir[n] # i
                  /\ disk # i
                  /\ \A p \in Procs : save[p].ino # i}

Opened(p) == IF dir[Temp(p)] # NoInode THEN {dir[Temp(p)]}
             ELSE {i \in Unused : \A j \in Unused : i <= j}

At(p, stage) == save[p].at = stage

OpenTemp_Bad(p) ==
  /\ At(p, "open")
  /\ \E i \in IF dir["path"] # NoInode THEN {dir["path"]} ELSE Opened(p) :
       /\ dir' = [dir EXCEPT ![Temp(p)] = i]
       /\ data' = [data EXCEPT ![i] = Torn]
       /\ safe' = [safe EXCEPT ![i] = FALSE]
       /\ save' = [save EXCEPT ![p].at = "write", ![p].ino = i]
  /\ UNCHANGED <<disk, mem, ghosts>>

(* O_CREAT and O_TRUNC without O_EXCL: a temporary file that a crash has    *)
(* left, or that another process is writing, is emptied and used.           *)
OpenTemp(p) ==
  /\ At(p, "open")
  /\ \E i \in Opened(p) :
       /\ dir' = [dir EXCEPT ![Temp(p)] = i]
       /\ data' = [data EXCEPT ![i] = Torn]
       /\ safe' = [safe EXCEPT ![i] = FALSE]
       /\ save' = [save EXCEPT ![p].at = "write", ![p].ino = i]
  /\ UNCHANGED <<disk, mem, ghosts>>

(* Two writers of one file leave a mixture. *)
Write(p) ==
  /\ At(p, "write")
  /\ LET i     == save[p].ino
         alone == \A q \in Procs \ {p} : save[q].ino # i
     IN  /\ data' = [data EXCEPT ![i] = IF alone THEN save[p].new ELSE Torn]
         /\ safe' = [safe EXCEPT ![i] = FALSE]
  /\ save' = [save EXCEPT ![p].at = "sync"]
  /\ UNCHANGED <<dir, disk, mem, ghosts>>

Sync_Bad(p) ==
  /\ At(p, "sync")
  /\ save' = [save EXCEPT ![p].at = "rename"]
  /\ UNCHANGED <<files, mem, ghosts>>

Sync(p) ==
  /\ At(p, "sync")
  /\ safe' = [safe EXCEPT ![save[p].ino] = TRUE]
  /\ save' = [save EXCEPT ![p].at = "rename"]
  /\ UNCHANGED <<dir, disk, data, mem, ghosts>>

(* The directory becomes d, the disk k.  What no name has any more is gone. *)
Directory(d, k) ==
  LET named(i) == i = k \/ \E n \in Names : d[n] = i
  IN  /\ dir' = d /\ disk' = k
      /\ data' = [i \in Inodes |-> IF named(i) THEN data[i] ELSE Torn]
      /\ safe' = [i \in Inodes |-> named(i) => safe[i]]

Renamed(from, to) ==
  Directory([dir EXCEPT ![to] = dir[from], ![from] = NoInode], disk)

(* The save has succeeded; a tool then exits.                               *)
Finishes(p) ==
  /\ save' = [save EXCEPT ![p] = NotSaving]
  /\ mem' = IF p \in Tools THEN [mem EXCEPT ![p] = NoMem] ELSE mem
  /\ kept' = (kept \ save[p].drop) \cup Support(save[p].new.keys)
  /\ UNCHANGED keptDisk

Rename(p) ==
  /\ At(p, "rename")
  /\ dir[Temp(p)] # NoInode
  /\ IF p \in Tools
     THEN /\ Renamed("path.tmp.tmp", "path.tmp")
          /\ save' = [save EXCEPT ![p].at = "move", ![p].ino = NoInode]
          /\ UNCHANGED <<mem, ghosts>>
     ELSE /\ Renamed("path.tmp", "path")
          /\ Finishes(p)

Move(p) ==
  /\ At(p, "move")
  /\ dir["path.tmp"] # NoInode
  /\ Renamed("path.tmp", "path")
  /\ Finishes(p)

(* What a failing save removes: the file it has opened, and the tool always *)
(* its own temporary file.                                                  *)
Removed(p) ==
  (IF At(p, "open") THEN {} ELSE {Temp(p)})
    \cup (IF p \in Tools THEN {"path.tmp"} ELSE {})

(* A system call of a save fails; a rename also if its file is not there.   *)
SaveFails(p) ==
  /\ ~Idle(p)
  /\ \/ "io" \in Faults
     \/ At(p, "rename") /\ dir[Temp(p)] = NoInode
     \/ At(p, "move") /\ dir["path.tmp"] = NoInode
  /\ Directory([n \in Names |-> IF n \in Removed(p) THEN NoInode
                                                      ELSE dir[n]], disk)
  /\ save' = [save EXCEPT ![p] = NotSaving]
  /\ mem' = IF p \in Tools THEN [mem EXCEPT ![p] = NoMem] ELSE mem
  /\ UNCHANGED ghosts

-----------------------------------------------------------------------------
(* The world: a process dies, the directory reaches the disk, power fails.  *)
(* What a dead process leaves in its temporary files counts as incomplete.  *)
Abandoned(p) ==
  IF Idle(p) THEN {}
  ELSE {dir[n] : n \in {Temp(p)} \cup (IF p \in Tools THEN {"path.tmp"} ELSE {})}

Kill(p) ==
  /\ "kill" \in Faults
  /\ ~Idle(p) \/ mem[p] # NoMem
  /\ data' = [i \in Inodes |-> IF i \in Abandoned(p) THEN Torn ELSE data[i]]
  /\ safe' = [i \in Inodes |-> i \in Abandoned(p) \/ safe[i]]
  /\ mem' = [mem EXCEPT ![p] = NoMem]
  /\ save' = [save EXCEPT ![p] = NotSaving]
  /\ UNCHANGED <<dir, disk, ghosts>>

Journal ==
  /\ "power" \in Faults
  /\ Directory(dir, dir["path"])
  /\ keptDisk' = kept
  /\ UNCHANGED <<mem, save, kept>>

AfterPowerLoss(i) == IF safe[i] THEN data[i] ELSE Torn

(* The temporary files may be there or not. *)
PowerLoss ==
  /\ "power" \in Faults
  /\ \E N \in SUBSET {"path.tmp", "path.tmp.tmp"} :
       dir' = [n \in Names |-> IF n = "path" THEN disk
                              ELSE IF n \in N THEN dir[n] ELSE NoInode]
  /\ data' = [i \in Inodes |-> IF i = disk THEN AfterPowerLoss(i) ELSE Torn]
  /\ safe' = [i \in Inodes |-> TRUE]
  /\ mem' = [p \in Procs |-> NoMem]
  /\ save' = [p \in Procs |-> NotSaving]
  /\ kept' = keptDisk
  /\ UNCHANGED <<disk, keptDisk>>

-----------------------------------------------------------------------------
LibStep(p) ==
  \/ Login(p) \/ LoginNoRoom(p) \/ Logout(p)
  \/ InitPIN(p) \/ GeneratePair(p) \/ DestroyObject(p)

ToolStep(p) ==
  \/ Load(p) \/ Create(p) \/ ImportKey(p) \/ RemoveKey(p)
  \/ PinChange(p) \/ CertAdd(p) \/ Quit(p)

SaveStep(p) ==
  \/ OpenTemp(p) \/ Write(p) \/ Sync(p) \/ Rename(p)
  \/ SaveFails(p)

Next ==
  \/ \E p \in Libs : LibStep(p)
  \/ \E p \in Tools : ToolStep(p) \/ Move(p)
  \/ \E p \in Procs : SaveStep(p) \/ Kill(p)
  \/ Journal \/ PowerLoss

Spec == Init /\ [][Next]_vars

-----------------------------------------------------------------------------
(* Names stand for inodes, inodes hold keystores; no key is in a table or a *)
(* file a negative number of times.                                         *)
TypeOK ==
  /\ dir \in [Names -> Inodes \cup {NoInode}]
  /\ disk \in Inodes \cup {NoInode}
  /\ data \in [Inodes -> Keystore \cup {Torn}]
  /\ safe \in [Inodes -> BOOLEAN]
  /\ mem \in [Procs -> [pin : Pins \cup {NoPin}, keys : Bag]]
  /\ save \in [Procs -> [at : Stages, ino : Inodes \cup {NoInode},
                         new : Keystore \cup {NoFile}, drop : SUBSET Keys]]
  /\ kept \subseteq Keys /\ keptDisk \subseteq Keys

(* wp11_keystore_create, on its rename: the destination is the old complete *)
(* file or the new complete file, never a partial write - also for who      *)
(* reads it while a save is under way, after a save was killed or failed at *)
(* any call, and with a stale temporary file in place.                      *)
NeverPartial == File # Torn

(* No key of a successful save is lost: until it is destroyed or removed,   *)
(* the file has every key whose generation, import or creation was reported *)
(* as done, whichever program saves next and whatever is killed in between  *)
(* (after a power failure: as of the directory on the disk).                *)
NoLostKeys ==
  kept # {} => Whole(File) /\ kept \subseteq Support(File.keys)

(* The file is an atomic file: its contents change only from one complete   *)
(* keystore to another, and a power failure brings back a complete one.     *)
Atomic ==
  INSTANCE AtomicFile WITH
    Values <- Keystore,
    now    <- File,
    stable <- IF disk = NoInode THEN NoFile ELSE AfterPowerLoss(disk)

FileIsAtomic == Atomic!Spec

-----------------------------------------------------------------------------
(* What comments of the source say and the code does not do; see README.    *)

(* C_InitPIN works only when the token is uninitialized (no keystore file   *)
(* exists): it never replaces a keystore by an empty one.                   *)
UninitializedOnly == [][\A p \in Libs : InitPIN(p) => File = NoFile]_vars
=============================================================================
