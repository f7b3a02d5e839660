------------------------ MODULE KeystoreFile_proofs -------------------------
(***************************************************************************)
(* What TLC checks of KeystoreFile on a small instance, proved for any     *)
(* programs, keys and PINs.                                                *)
(*                                                                         *)
(* TypeCorrect holds of any programs in any order.  FileInv, where each    *)
(* file stands while a save goes on, is inductive with the types as long   *)
(* as no two saves overlap.  KeysInv, what tables and files have of the    *)
(* promised keys, is inductive with both if the file has one user at a     *)
(* time (Exclusive), from reading it to the save that rests on what was    *)
(* read.                                                                   *)
(***************************************************************************)
EXTENDS KeystoreFile, TLAPS

-----------------------------------------------------------------------------
(* What a save writes is a keystore.                                        *)
Contents == \A p \in Procs : ~Idle(p) => save[p].new \in Keystore

TypeInv == TypeOK /\ Contents

(* Who uses the file, and that nobody else does.                            *)
Uses(p) == ~Idle(p) \/ mem[p].pin # NoPin

Solo == \A p, q \in Procs : Uses(p) /\ Uses(q) => p = q

(* Programs may read and use the file at the same time, if only their saves *)
(* come one after the other.                                                *)
OneSaver == \A p, q \in Procs : ~Idle(p) /\ ~Idle(q) => p = q

(* No two names have one file, and the disk's has no temporary name.        *)
Apart ==
  /\ \A m, n \in Names : m # n /\ dir[m] # NoInode => dir[m] # dir[n]
  /\ \A n \in Names : n # "path" /\ dir[n] # NoInode => dir[n] # disk

(* A file that is complete and on the disk.                                 *)
Done(i) == data[i] \in Keystore /\ safe[i]

(* How far the file of a save has come.                                     *)
Stage(p) ==
  LET i == save[p].ino
      t == dir["path.tmp"]
  IN  /\ save[p].at \in {"idle", "open", "move"} => i = NoInode
      /\ save[p].at \in {"write", "sync", "rename"} =>
           i # NoInode /\ i = dir[Temp(p)]
      /\ save[p].at \in {"sync", "rename"} => data[i] = save[p].new
      /\ save[p].at = "rename" => safe[i]
      /\ save[p].at = "move" =>
           t # NoInode /\ data[t] = save[p].new /\ safe[t]

FileInv ==
  /\ Apart
  /\ dir["path"] # NoInode => Done(dir["path"])
  /\ disk # NoInode => Done(disk)
  /\ \A p \in Procs : Stage(p)

(* A step that neither a reader of the path nor the disk sees.              *)
SameFiles ==
  /\ dir'["path"] = dir["path"] /\ disk' = disk
  /\ dir["path"] # NoInode => data'[dir["path"]] = data[dir["path"]]
  /\ disk # NoInode => data'[disk] = data[disk]

(* What a process will write has the promised keys, but those it means to   *)
(* remove.                                                                  *)
Carries(p) ==
  /\ mem[p].pin # NoPin => dir["path"] # NoInode
  /\ Idle(p) /\ mem[p].pin # NoPin => kept \subseteq Support(mem[p].keys)
  /\ ~Idle(p) => kept \ save[p].drop \subseteq Support(save[p].new.keys)
  /\ ~Idle(p) /\ p \in Libs => save[p].drop = {}
  /\ ~Idle(p) /\ p \in Libs /\ mem[p].pin # NoPin =>
       save[p].new.keys = mem[p].keys

Has(i, K) == K # {} => i # NoInode /\ K \subseteq Support(data[i].keys)

KeysInv ==
  /\ Has(dir["path"], kept)
  /\ Has(disk, keptDisk)
  /\ \A p \in Procs : Carries(p)

-----------------------------------------------------------------------------
(* Types.                                                                   *)

Saving == [at : Stages, ino : Inodes \cup {NoInode},
           new : Keystore \cup {NoFile}, drop : SUBSET Keys]

LEMMA BagTypes ==
  ASSUME NEW a \in Bag, NEW k \in Keys
  PROVE  /\ \A b \in Bag : Plus(a, b) \in Bag
         /\ \A n \in Nat : With(a, k, n) \in Bag
         /\ a[k] > 0 => [a EXCEPT ![k] = @ - 1] \in Bag
         /\ [a EXCEPT ![k] = 0] \in Bag
BY DEF Bag, Plus, With

LEMMA PlusType == \A a, b \in Bag : Plus(a, b) \in Bag
BY DEF Bag, Plus

LEMMA NothingType ==
  /\ Nothing \in Bag
  /\ NoMem \in [pin : Pins \cup {NoPin}, keys : Bag]
  /\ NotSaving \in Saving
BY DEF Nothing, Bag, NoMem, NotSaving, Stages, Saving

LEMMA StageType ==
  ASSUME NEW r \in Saving, NEW i \in Inodes \cup {NoInode}
  PROVE  /\ \A a \in Stages : [r EXCEPT !.at = a] \in Saving
         /\ \A a \in Stages : [r EXCEPT !.at = a, !.ino = i] \in Saving
BY DEF Saving

(* What opens is a keystore, and a process that holds a PIN holds one.      *)
LEMMA FileType ==
  ASSUME TypeOK
  PROVE  /\ File \in Keystore \cup {Torn, NoFile}
         /\ \A pin \in Pins : Loads(pin) => File \in Keystore
         /\ \A p \in Procs : mem[p].pin # NoPin => mem[p] \in Keystore
<1>1. File \in Keystore \cup {Torn, NoFile}
  BY DEF TypeOK, File, Names
<1>2. ASSUME NEW p \in Procs, mem[p].pin # NoPin
      PROVE  mem[p] \in Keystore
  BY <1>2 DEF TypeOK, Keystore
<1>. QED
  BY <1>1, <1>2 DEF Loads, Whole

LEMMA BeginsType ==
  ASSUME TypeInv, NEW p \in Procs, NEW v \in Keystore, NEW D \in SUBSET Keys,
         Begins(p, v, D),
         dir' \in [Names -> Inodes \cup {NoInode}],
         disk' \in Inodes \cup {NoInode},
         data' \in [Inodes -> Keystore \cup {Torn}],
         safe' \in [Inodes -> BOOLEAN],
         mem' \in [Procs -> [pin : Pins \cup {NoPin}, keys : Bag]],
         kept' \subseteq Keys, keptDisk' \subseteq Keys
  PROVE  TypeInv'
<1>1. save' \in [Procs -> Saving]
  BY DEF TypeInv, TypeOK, Begins, Stages, Saving
<1>2. Contents'
  BY <1>1 DEF TypeInv, TypeOK, Contents, Begins, Idle
<1>. QED
  BY <1>1, <1>2 DEF TypeInv, TypeOK, Saving

(* The calls of the library. *)
LEMMA LibTypes ==
  ASSUME TypeInv, NEW p \in Libs, LibStep(p)
  PROVE  TypeInv'
<1>. p \in Procs
  BY DEF Procs
<1>. USE DEF files, ghosts
<1>1. CASE Login(p)
  <2>1. PICK pin \in Pins :
          Loads(pin) /\ mem' = [mem EXCEPT ![p] =
                                [pin |-> pin, keys |-> Plus(@.keys, File.keys)]]
    BY <1>1 DEF Login
  <2>2. Plus(mem[p].keys, File.keys) \in Bag
    BY <2>1, FileType, PlusType DEF TypeInv, TypeOK, Keystore
  <2>3. mem' \in [Procs -> [pin : Pins \cup {NoPin}, keys : Bag]]
    BY <2>1, <2>2 DEF TypeInv, TypeOK
  <2>. QED
    BY <1>1, <2>3 DEF Login, TypeInv, TypeOK, Contents, Idle
<1>2. CASE LoginNoRoom(p)
  BY <1>2, NothingType DEF LoginNoRoom, TypeInv, TypeOK, Contents, Idle
<1>3. CASE Logout(p)
  BY <1>3, NothingType DEF Logout, TypeInv, TypeOK, Contents, Idle
<1>4. CASE InitPIN(p)
  <2>1. PICK pin \in Pins : Begins(p, [pin |-> pin, keys |-> Nothing], {})
    BY <1>4 DEF InitPIN
  <2>2. [pin |-> pin, keys |-> Nothing] \in Keystore
    BY NothingType DEF Keystore
  <2>. QED
    BY <1>4, <2>1, <2>2, BeginsType DEF InitPIN, TypeInv, TypeOK
<1>5. CASE GeneratePair(p)
  <2>1. PICK k \in Keys :
          LET b == With(mem[p].keys, k, 2)
          IN  /\ mem' = [mem EXCEPT ![p].keys = b]
              /\ IF mem[p].pin = NoPin
                 THEN UNCHANGED save
                 ELSE Begins(p, [pin |-> mem[p].pin, keys |-> b], {})
    BY <1>5 DEF GeneratePair
  <2>. DEFINE b == With(mem[p].keys, k, 2)
  <2>2. b \in Bag
    BY BagTypes DEF TypeInv, TypeOK
  <2>3. mem' \in [Procs -> [pin : Pins \cup {NoPin}, keys : Bag]]
    BY <2>1, <2>2 DEF TypeInv, TypeOK
  <2>4. CASE mem[p].pin = NoPin
    BY <1>5, <2>1, <2>3, <2>4
       DEF GeneratePair, TypeInv, TypeOK, Contents, Idle
  <2>5. CASE mem[p].pin # NoPin
    <3>1. [pin |-> mem[p].pin, keys |-> b] \in Keystore
      BY <2>2, <2>5 DEF TypeInv, TypeOK, Keystore
    <3>. QED
      BY <1>5, <2>1, <2>3, <2>5, <3>1, BeginsType
         DEF GeneratePair, TypeInv, TypeOK
  <2>. QED
    BY <2>4, <2>5
<1>6. CASE DestroyObject(p)
  <2>1. PICK k \in Support(mem[p].keys) :
          /\ mem' = [mem EXCEPT ![p].keys[k] = @ - 1]
          /\ kept' = IF mem[p].keys[k] = 1 THEN kept \ {k} ELSE kept
    BY <1>6 DEF DestroyObject
  <2>2. [mem[p].keys EXCEPT ![k] = @ - 1] \in Bag
    BY BagTypes DEF TypeInv, TypeOK, Support
  <2>3. mem' \in [Procs -> [pin : Pins \cup {NoPin}, keys : Bag]]
    BY <2>1, <2>2 DEF TypeInv, TypeOK
  <2>. QED
    BY <1>6, <2>1, <2>3 DEF DestroyObject, TypeInv, TypeOK, Contents, Idle
<1>. QED
  BY <1>1, <1>2, <1>3, <1>4, <1>5, <1>6 DEF LibStep

(* The commands of the tool, up to their save. *)
LEMMA ToolTypes ==
  ASSUME TypeInv, NEW p \in Tools, ToolStep(p)
  PROVE  TypeInv'
<1>. p \in Procs
  BY DEF Procs
<1>. USE DEF files, ghosts
<1>0. Loaded(p) => mem[p] \in Keystore
  BY FileType DEF Loaded, TypeInv
<1>1. CASE Load(p)
  <2>1. File \in Keystore /\ mem' = [mem EXCEPT ![p] = File]
    BY <1>1, FileType DEF Load, TypeInv
  <2>2. mem' \in [Procs -> [pin : Pins \cup {NoPin}, keys : Bag]]
    BY <2>1 DEF TypeInv, TypeOK, Keystore
  <2>. QED
    BY <1>1, <2>2 DEF Load, TypeInv, TypeOK, Contents, Idle
<1>2. CASE Create(p)
  <2>1. PICK pin \in Pins, K \in SUBSET Keys :
          Begins(p, [pin |-> pin,
                     keys |-> [k \in Keys |-> IF k \in K THEN 1 ELSE 0]], Keys)
    BY <1>2 DEF Create
  <2>2. [pin |-> pin, keys |-> [k \in Keys |-> IF k \in K THEN 1 ELSE 0]]
          \in Keystore
    BY DEF Keystore, Bag
  <2>. QED
    BY <1>2, <2>1, <2>2, BeginsType DEF Create, TypeInv, TypeOK
<1>3. CASE ImportKey(p)
  <2>1. PICK k \in Keys : Begins(p, [mem[p] EXCEPT !.keys[k] = @ + 1], {})
    BY <1>3 DEF ImportKey
  <2>2. [mem[p] EXCEPT !.keys[k] = @ + 1] \in Keystore
    BY <1>0, <1>3 DEF ImportKey, Keystore, Bag
  <2>. QED
    BY <1>3, <2>1, <2>2, BeginsType DEF ImportKey, TypeInv, TypeOK
<1>4. CASE RemoveKey(p)
  <2>1. PICK k \in Keys : Begins(p, [mem[p] EXCEPT !.keys[k] = 0], {k})
    BY <1>4 DEF RemoveKey, Support
  <2>2. [mem[p] EXCEPT !.keys[k] = 0] \in Keystore
    BY <1>0, <1>4 DEF RemoveKey, Keystore, Bag
  <2>. QED
    BY <1>4, <2>1, <2>2, BeginsType DEF RemoveKey, TypeInv, TypeOK
<1>5. CASE PinChange(p)
  <2>1. PICK pin \in Pins : Begins(p, [mem[p] EXCEPT !.pin = pin], {})
    BY <1>5 DEF PinChange
  <2>2. [mem[p] EXCEPT !.pin = pin] \in Keystore
    BY <1>0, <1>5 DEF PinChange, Keystore
  <2>. QED
    BY <1>5, <2>1, <2>2, BeginsType DEF PinChange, TypeInv, TypeOK
<1>6. CASE CertAdd(p)
  BY <1>0, <1>6, BeginsType DEF CertAdd, TypeInv, TypeOK
<1>7. CASE Quit(p)
  BY <1>7, NothingType DEF Quit, TypeInv, TypeOK, Contents, Idle
<1>. QED
  BY <1>1, <1>2, <1>3, <1>4, <1>5, <1>6, <1>7 DEF ToolStep

LEMMA DirectoryType ==
  ASSUME TypeOK, NEW d \in [Names -> Inodes \cup {NoInode}],
         NEW k \in Inodes \cup {NoInode}, Directory(d, k)
  PROVE  /\ dir' \in [Names -> Inodes \cup {NoInode}]
         /\ disk' \in Inodes \cup {NoInode}
         /\ data' \in [Inodes -> Keystore \cup {Torn}]
         /\ safe' \in [Inodes -> BOOLEAN]
<1>. DEFINE Named(i) == i = k \/ \E n \in Names : d[n] = i
<1>1. data' = [i \in Inodes |-> IF Named(i) THEN data[i] ELSE Torn]
  BY DEF Directory
<1>2. safe' = [i \in Inodes |-> Named(i) => safe[i]]
  BY DEF Directory
<1>. HIDE DEF Named
<1>3. data' \in [Inodes -> Keystore \cup {Torn}]
  BY <1>1 DEF TypeOK
<1>4. safe' \in [Inodes -> BOOLEAN]
  BY <1>2, Zenon
<1>. QED
  BY <1>3, <1>4 DEF Directory

LEMMA RenamedType ==
  ASSUME TypeOK, NEW m \in Names, NEW n \in Names, Renamed(m, n)
  PROVE  /\ dir' \in [Names -> Inodes \cup {NoInode}]
         /\ disk' \in Inodes \cup {NoInode}
         /\ data' \in [Inodes -> Keystore \cup {Torn}]
         /\ safe' \in [Inodes -> BOOLEAN]
<1>1. [dir EXCEPT ![n] = dir[m], ![m] = NoInode]
        \in [Names -> Inodes \cup {NoInode}]
  BY DEF TypeOK
<1>2. disk \in Inodes \cup {NoInode}
  BY DEF TypeOK
<1>. QED
  BY <1>1, <1>2, DirectoryType DEF Renamed

LEMMA FinishesType ==
  ASSUME TypeInv, NEW p \in Procs, Finishes(p),
         dir' \in [Names -> Inodes \cup {NoInode}],
         disk' \in Inodes \cup {NoInode},
         data' \in [Inodes -> Keystore \cup {Torn}],
         safe' \in [Inodes -> BOOLEAN]
  PROVE  TypeInv'
<1>1. save' \in [Procs -> Saving]
  BY NothingType DEF TypeInv, TypeOK, Saving, Finishes
<1>2. mem' \in [Procs -> [pin : Pins \cup {NoPin}, keys : Bag]]
  BY NothingType DEF TypeInv, TypeOK, Finishes
<1>3. Contents'
  BY <1>1 DEF TypeInv, TypeOK, Contents, Finishes, NotSaving, Idle
<1>4. kept' \subseteq Keys /\ keptDisk' \subseteq Keys
  BY DEF TypeInv, TypeOK, Finishes, Support
<1>. QED
  BY <1>1, <1>2, <1>3, <1>4 DEF TypeInv, TypeOK, Saving

(* The calls of a save. *)
LEMMA SaveTypes ==
  ASSUME TypeInv, NEW p \in Procs,
         SaveStep(p) \/ (p \in Tools /\ Move(p))
  PROVE  TypeInv'
<1>. USE DEF files, ghosts
<1>1. CASE OpenTemp(p)
  <2>1. PICK i \in Opened(p) :
          /\ dir' = [dir EXCEPT ![Temp(p)] = i]
          /\ data' = [data EXCEPT ![i] = Torn]
          /\ safe' = [safe EXCEPT ![i] = FALSE]
          /\ save' = [save EXCEPT ![p].at = "write", ![p].ino = i]
    BY <1>1 DEF OpenTemp
  <2>2. i \in Inodes
    BY DEF Opened, Unused, TypeInv, TypeOK, Temp, Names
  <2>3. dir' \in [Names -> Inodes \cup {NoInode}]
    BY <2>1, <2>2 DEF TypeInv, TypeOK
  <2>4. data' \in [Inodes -> Keystore \cup {Torn}]
    BY <2>1, <2>2 DEF TypeInv, TypeOK
  <2>5. safe' \in [Inodes -> BOOLEAN]
    BY <2>1, <2>2 DEF TypeInv, TypeOK
  <2>6. save' \in [Procs -> Saving]
    <3>1. save \in [Procs -> Saving] /\ "write" \in Stages
      BY DEF TypeInv, TypeOK, Saving, Stages
    <3>. QED
      BY <2>1, <2>2, <3>1, StageType
  <2>7. Contents'
    BY <1>1, <2>1 DEF OpenTemp, TypeInv, TypeOK, Contents, At, Idle
  <2>8. UNCHANGED <<disk, mem, kept, keptDisk>>
    BY <1>1 DEF OpenTemp
  <2>. QED
    BY <2>3, <2>4, <2>5, <2>6, <2>7, <2>8 DEF TypeInv, TypeOK, Saving
<1>2. CASE Write(p)
  <2>1. save[p].new \in Keystore
    BY <1>2 DEF Write, At, TypeInv, Contents, Idle
  <2>2. data' \in [Inodes -> Keystore \cup {Torn}]
    BY <1>2, <2>1 DEF Write, TypeInv, TypeOK
  <2>3. safe' \in [Inodes -> BOOLEAN]
    BY <1>2 DEF Write, TypeInv, TypeOK
  <2>4. save' \in [Procs -> Saving]
    <3>1. save \in [Procs -> Saving] /\ "sync" \in Stages
      BY DEF TypeInv, TypeOK, Saving, Stages
    <3>. QED
      BY <1>2, <3>1, StageType DEF Write
  <2>5. Contents'
    BY <1>2, <2>1 DEF Write, TypeInv, TypeOK, Contents, Idle
  <2>6. UNCHANGED <<dir, disk, mem, kept, keptDisk>>
    BY <1>2 DEF Write
  <2>. QED
    BY <2>2, <2>3, <2>4, <2>5, <2>6 DEF TypeInv, TypeOK, Saving
<1>3. CASE Sync(p)
  <2>1. safe' \in [Inodes -> BOOLEAN]
    BY <1>3 DEF Sync, TypeInv, TypeOK
  <2>2. save' \in [Procs -> Saving]
    <3>1. save \in [Procs -> Saving] /\ "rename" \in Stages
      BY DEF TypeInv, TypeOK, Saving, Stages
    <3>. QED
      BY <1>3, <3>1, StageType DEF Sync
  <2>3. Contents'
    BY <1>3 DEF Sync, At, TypeInv, TypeOK, Contents, Idle
  <2>4. UNCHANGED <<dir, disk, data, mem, kept, keptDisk>>
    BY <1>3 DEF Sync
  <2>. QED
    BY <2>1, <2>2, <2>3, <2>4 DEF TypeInv, TypeOK, Saving
<1>4. CASE Rename(p) /\ p \in Tools
  <2>1. /\ Renamed("path.tmp.tmp", "path.tmp")
        /\ save' = [save EXCEPT ![p].at = "move", ![p].ino = NoInode]
        /\ UNCHANGED <<mem, ghosts>>
    BY <1>4 DEF Rename
  <2>2. save' \in [Procs -> Saving]
    <3>1. save \in [Procs -> Saving] /\ "move" \in Stages
      BY DEF TypeInv, TypeOK, Saving, Stages
    <3>. QED
      BY <2>1, <3>1, StageType
  <2>3. Contents'
    BY <1>4, <2>1 DEF Rename, At, TypeInv, TypeOK, Contents, Idle
  <2>4. /\ dir' \in [Names -> Inodes \cup {NoInode}]
        /\ disk' \in Inodes \cup {NoInode}
        /\ data' \in [Inodes -> Keystore \cup {Torn}]
        /\ safe' \in [Inodes -> BOOLEAN]
    BY <2>1, RenamedType DEF Names, TypeInv
  <2>5. UNCHANGED <<mem, kept, keptDisk>>
    BY <2>1
  <2>. QED
    BY <2>2, <2>3, <2>4, <2>5 DEF TypeInv, TypeOK, Saving
<1>5. CASE (Rename(p) /\ p \notin Tools) \/ Move(p)
  <2>1. Renamed("path.tmp", "path") /\ Finishes(p)
    BY <1>5 DEF Rename, Move
  <2>. QED
    BY <2>1, RenamedType, FinishesType DEF Names, TypeInv
<1>6. CASE SaveFails(p)
  <2>. DEFINE d == [n \in Names |-> IF n \in Removed(p) THEN NoInode
                                                       ELSE dir[n]]
  <2>1. /\ Directory(d, disk)
        /\ save' = [save EXCEPT ![p] = NotSaving]
        /\ mem' = IF p \in Tools THEN [mem EXCEPT ![p] = NoMem] ELSE mem
        /\ UNCHANGED ghosts
    BY <1>6 DEF SaveFails
  <2>2. d \in [Names -> Inodes \cup {NoInode}] /\ disk \in Inodes \cup {NoInode}
    BY DEF TypeInv, TypeOK
  <2>3. save' \in [Procs -> Saving]
    BY <2>1, NothingType DEF TypeInv, TypeOK, Saving
  <2>4. mem' \in [Procs -> [pin : Pins \cup {NoPin}, keys : Bag]]
    BY <2>1, NothingType DEF TypeInv, TypeOK
  <2>5. Contents'
    BY <2>1, <2>3 DEF TypeInv, TypeOK, Contents, NotSaving, Idle
  <2>. HIDE DEF d
  <2>. QED
    BY <2>1, <2>2, <2>3, <2>4, <2>5, DirectoryType DEF TypeInv, TypeOK, Saving
<1>. QED
  BY <1>1, <1>2, <1>3, <1>4, <1>5, <1>6 DEF SaveStep

(* What the world does. *)
LEMMA WorldTypes ==
  ASSUME TypeInv, (\E p \in Procs : Kill(p)) \/ Journal \/ PowerLoss
  PROVE  TypeInv'
<1>. USE DEF files, ghosts
<1>1. ASSUME NEW p \in Procs, Kill(p)
      PROVE  TypeInv'
  <2>1. data' \in [Inodes -> Keystore \cup {Torn}]
    BY <1>1 DEF Kill, TypeInv, TypeOK
  <2>2. safe' \in [Inodes -> BOOLEAN]
    BY <1>1, Zenon DEF Kill
  <2>3. mem' \in [Procs -> [pin : Pins \cup {NoPin}, keys : Bag]]
    BY <1>1, NothingType DEF Kill, TypeInv, TypeOK
  <2>4. save' \in [Procs -> Saving]
    BY <1>1, NothingType DEF Kill, TypeInv, TypeOK, Saving
  <2>5. Contents'
    BY <1>1, <2>4 DEF Kill, TypeInv, TypeOK, Contents, NotSaving, Idle
  <2>. QED
    BY <1>1, <2>1, <2>2, <2>3, <2>4, <2>5 DEF Kill, TypeInv, TypeOK, Saving
<1>2. CASE Journal
  BY <1>2, DirectoryType DEF Journal, TypeInv, TypeOK, Contents, Idle, Names
<1>3. CASE PowerLoss
  <2>1. PICK N \in SUBSET {"path.tmp", "path.tmp.tmp"} :
          dir' = [n \in Names |-> IF n = "path" THEN disk
                                 ELSE IF n \in N THEN dir[n] ELSE NoInode]
    BY <1>3 DEF PowerLoss
  <2>2. dir' \in [Names -> Inodes \cup {NoInode}]
    BY <2>1 DEF TypeInv, TypeOK
  <2>3. data' \in [Inodes -> Keystore \cup {Torn}]
    BY <1>3 DEF PowerLoss, AfterPowerLoss, TypeInv, TypeOK
  <2>4. safe' \in [Inodes -> BOOLEAN]
    BY <1>3 DEF PowerLoss
  <2>5. mem' \in [Procs -> [pin : Pins \cup {NoPin}, keys : Bag]]
    BY <1>3, NothingType DEF PowerLoss
  <2>6. save' \in [Procs -> Saving]
    BY <1>3, NothingType DEF PowerLoss
  <2>7. Contents'
    BY <1>3 DEF PowerLoss, Contents, NotSaving, Idle
  <2>. QED
    BY <1>3, <2>2, <2>3, <2>4, <2>5, <2>6, <2>7
       DEF PowerLoss, TypeInv, TypeOK, Saving
<1>. QED
  BY <1>1, <1>2, <1>3

LEMMA TypeInit == Init => TypeInv
<1>. SUFFICES ASSUME Init PROVE TypeInv
  OBVIOUS
<1>1. Contents
  BY DEF Init, Contents, NotSaving, Idle
<1>. QED
  BY <1>1, NothingType DEF Init, TypeInv, TypeOK, Saving

LEMMA TypeNext == TypeInv /\ [Next]_vars => TypeInv'
<1>. SUFFICES ASSUME TypeInv, [Next]_vars PROVE TypeInv'
  OBVIOUS
<1>1. CASE UNCHANGED vars
  BY <1>1 DEF vars, TypeInv, TypeOK, Contents, Idle
<1>. QED
  BY <1>1, LibTypes, ToolTypes, SaveTypes, WorldTypes DEF Next, Procs

(* Types (every program, in any order): names stand for inodes, inodes hold *)
(* keystores, and no key is in a table or a file a negative number of times *)
(* (C_DestroyObject, and the pairs that the library generates and loads).   *)
THEOREM TypeCorrect == Spec => []TypeOK
<1>1. Spec => []TypeInv
  BY TypeInit, TypeNext, PTL DEF Spec
<1>. QED
  BY <1>1, PTL DEF TypeInv

-----------------------------------------------------------------------------
(* The file, with one save at a time.                                       *)

LEMMA InodeTypes ==
  ASSUME TypeInv
  PROVE  /\ \A n \in Names : dir[n] # NoInode => dir[n] \in Inodes
         /\ disk # NoInode => disk \in Inodes
         /\ NoInode \notin Inodes
         /\ \A p \in Procs : Temp(p) \in Names \ {"path"}
         /\ \A p \in Procs : save[p].at \in Stages
         /\ "path" \in Names /\ "path.tmp" \in Names
BY DEF TypeInv, TypeOK, Inodes, NoInode, Temp, Names

(* A step that leaves the files alone and at most begins a save. *)
LEMMA Quiet ==
  ASSUME FileInv, UNCHANGED files,
         save' = save \/ \E p \in Procs : \E v, D : Begins(p, v, D), TypeInv
  PROVE  FileInv'
<1>1. Apart' /\ (dir["path"] # NoInode => Done(dir["path"]))'
      /\ (disk # NoInode => Done(disk))'
  BY DEF FileInv, Apart, Done, files
<1>2. ASSUME NEW q \in Procs
      PROVE  Stage(q)'
  <2>1. CASE save' = save
    BY <2>1 DEF FileInv, Stage, files, Temp
  <2>2. ASSUME NEW p \in Procs, NEW v, NEW D, Begins(p, v, D)
        PROVE  Stage(q)'
    <3>1. CASE q = p
      <4>1. save'[q].at = "open" /\ save'[q].ino = NoInode
        BY <2>2, <3>1 DEF Begins, TypeInv, TypeOK
      <4>. QED
        BY <4>1 DEF Stage
    <3>2. CASE q # p
      <4>1. save'[q] = save[q]
        BY <2>2, <3>2 DEF Begins, TypeInv, TypeOK
      <4>. QED
        BY <4>1 DEF FileInv, Stage, files, Temp
    <3>. QED
      BY <3>1, <3>2
  <2>. QED
    BY <2>1, <2>2
<1>. QED
  BY <1>1, <1>2 DEF FileInv

LEMMA CallsKeepFile ==
  ASSUME TypeInv, FileInv, NEW p \in Procs,
         (p \in Libs /\ LibStep(p)) \/ (p \in Tools /\ ToolStep(p))
  PROVE  FileInv' /\ UNCHANGED files
<1>1. UNCHANGED files
  BY DEF LibStep, Login, LoginNoRoom, Logout, InitPIN, GeneratePair, DestroyObject,
         ToolStep, Load, Create, ImportKey, RemoveKey, PinChange, CertAdd, Quit
<1>2. save' = save \/ \E v, D : Begins(p, v, D)
  BY DEF LibStep, Login, LoginNoRoom, Logout, InitPIN, GeneratePair, DestroyObject,
         ToolStep, Load, Create, ImportKey, RemoveKey, PinChange, CertAdd, Quit
<1>. QED
  BY <1>1, <1>2, Quiet

(* While p saves the others are idle and have no file open.                 *)
LEMMA Alone ==
  ASSUME FileInv, OneSaver, NEW p \in Procs, ~Idle(p), NEW q \in Procs \ {p}
  PROVE  Idle(q) /\ save[q].ino = NoInode
BY DEF FileInv, OneSaver, Stage, Idle

(* What Directory does to what still has a name. *)
LEMMA Named ==
  ASSUME TypeInv, NEW d, NEW k, Directory(d, k), NEW i \in Inodes,
         i = k \/ \E n \in Names : d[n] = i
  PROVE  data'[i] = data[i] /\ safe'[i] = safe[i]
<1>. DEFINE N(j) == j = k \/ \E n \in Names : d[n] = j
<1>1. /\ data' = [j \in Inodes |-> IF N(j) THEN data[j] ELSE Torn]
      /\ safe' = [j \in Inodes |-> N(j) => safe[j]]
  BY DEF Directory
<1>2. N(i)
  OBVIOUS
<1>. HIDE DEF N
<1>3. safe'[i] = (N(i) => safe[i]) /\ safe[i] \in BOOLEAN
  BY <1>1 DEF TypeInv, TypeOK
<1>. QED
  BY <1>1, <1>2, <1>3

(* A rename of a temporary file gives its contents to the new name, and     *)
(* leaves the other names and the disk alone.                               *)
LEMMA RenameMoves ==
  ASSUME TypeInv, FileInv, NEW m \in Names \ {"path"}, NEW n \in Names \ {m},
         Renamed(m, n), dir[m] # NoInode
  PROVE  /\ dir'[n] = dir[m] /\ dir'[m] = NoInode
         /\ \A l \in Names \ {m, n} : dir'[l] = dir[l]
         /\ disk' = disk /\ Apart'
         /\ \A l \in Names : dir'[l] # NoInode =>
              data'[dir'[l]] = data[dir'[l]] /\ safe'[dir'[l]] = safe[dir'[l]]
         /\ disk # NoInode =>
              data'[disk] = data[disk] /\ safe'[disk] = safe[disk]
<1>. DEFINE d == [dir EXCEPT ![n] = dir[m], ![m] = NoInode]
<1>1. d \in [Names -> Inodes \cup {NoInode}]
  BY DEF TypeInv, TypeOK
<1>2. Directory(d, disk) /\ dir' = d /\ disk' = disk
  BY DEF Renamed, Directory
<1>3. /\ d[n] = dir[m] /\ d[m] = NoInode
      /\ \A l \in Names \ {m, n} : d[l] = dir[l]
  BY DEF TypeInv, TypeOK
<1>. HIDE DEF d
<1>4. \A l \in Names : dir'[l] # NoInode =>
        data'[dir'[l]] = data[dir'[l]] /\ safe'[dir'[l]] = safe[dir'[l]]
  BY <1>1, <1>2, Named
<1>5. disk # NoInode => data'[disk] = data[disk] /\ safe'[disk] = safe[disk]
  BY <1>2, InodeTypes, Named
<1>6. Apart'
  <2>1. Apart
    BY DEF FileInv
  <2>2. ASSUME NEW a \in Names, NEW b \in Names, a # b, d[a] # NoInode
        PROVE  d[a] # d[b]
    BY <1>3, <2>1, <2>2 DEF Apart
  <2>3. ASSUME NEW a \in Names, a # "path", d[a] # NoInode
        PROVE  d[a] # disk
    BY <1>3, <2>1, <2>3 DEF Apart
  <2>. QED
    BY <1>2, <2>2, <2>3 DEF Apart
<1>. QED
  BY <1>2, <1>3, <1>4, <1>5, <1>6

(* A save that ends, well or not, leaves the others as they are. *)
LEMMA SaveEnds ==
  ASSUME TypeInv, FileInv, OneSaver, NEW p \in Procs, ~Idle(p),
         save' = [save EXCEPT ![p] = NotSaving]
  PROVE  \A q \in Procs : Stage(q)'
<1>1. ASSUME NEW q \in Procs
      PROVE  save'[q].at = "idle" /\ save'[q].ino = NoInode
  BY Alone DEF TypeInv, TypeOK, NotSaving, Idle
<1>. QED
  BY <1>1 DEF Stage

(* The calls of a save, one at a time. *)
LEMMA OpenKeepsFile ==
  ASSUME TypeInv, FileInv, OneSaver, NEW p \in Procs, OpenTemp(p)
  PROVE  FileInv' /\ SameFiles
<1>. DEFINE t == Temp(p)
<1>0. t \in Names \ {"path"} /\ ~Idle(p)
  BY InodeTypes DEF OpenTemp, At, Idle
<1>1. PICK i \in Opened(p) :
        /\ dir' = [dir EXCEPT ![t] = i]
        /\ data' = [data EXCEPT ![i] = Torn]
        /\ safe' = [safe EXCEPT ![i] = FALSE]
        /\ save' = [save EXCEPT ![p].at = "write", ![p].ino = i]
  BY DEF OpenTemp
<1>2. UNCHANGED <<disk, mem>>
  BY DEF OpenTemp
<1>. HIDE DEF t
<1>3. /\ i \in Inodes /\ i # NoInode
      /\ \A n \in Names \ {t} : dir[n] # i
      /\ disk # i
  <2>1. CASE dir[t] # NoInode
    BY <1>0, <2>1, InodeTypes DEF Opened, t, FileInv, Apart
  <2>2. CASE dir[t] = NoInode
    BY <2>2, InodeTypes DEF Opened, t, Unused
  <2>. QED
    BY <2>1, <2>2
<1>4. dir'[t] = i /\ \A n \in Names \ {t} : dir'[n] = dir[n]
  BY <1>0, <1>1 DEF TypeInv, TypeOK
<1>5. \A j \in Inodes \ {i} : data'[j] = data[j] /\ safe'[j] = safe[j]
  BY <1>1 DEF TypeInv, TypeOK
<1>6. Apart'
  <2>1. Apart
    BY DEF FileInv
  <2>2. ASSUME NEW m \in Names, NEW n \in Names, m # n, dir'[m] # NoInode
        PROVE  dir'[m] # dir'[n]
    BY <1>3, <1>4, <2>1, <2>2 DEF Apart
  <2>3. ASSUME NEW n \in Names, n # "path", dir'[n] # NoInode
        PROVE  dir'[n] # disk'
    BY <1>2, <1>3, <1>4, <2>1, <2>3 DEF Apart
  <2>. QED
    BY <2>2, <2>3 DEF Apart
<1>7. SameFiles /\ (dir'["path"] # NoInode => Done(dir["path"])')
  <2>1. dir'["path"] = dir["path"] /\ dir["path"] # i
    BY <1>0, <1>3, <1>4, InodeTypes
  <2>. QED
    BY <1>2, <1>3, <1>5, <2>1, InodeTypes DEF FileInv, Done, SameFiles
<1>8. disk' # NoInode => Done(disk)'
  BY <1>2, <1>3, <1>5, InodeTypes DEF FileInv, Done
<1>9. /\ save'[p] = [save[p] EXCEPT !.at = "write", !.ino = i]
      /\ \A q \in Procs \ {p} : save'[q] = save[q]
  BY <1>1 DEF TypeInv, TypeOK
<1>10. save'[p].at = "write" /\ save'[p].ino = i
  BY <1>9 DEF TypeInv, TypeOK
<1>11. ASSUME NEW q \in Procs
       PROVE  Stage(q)'
  <2>1. CASE q = p
    BY <1>3, <1>4, <1>10, <2>1 DEF Stage, t, Temp
  <2>2. CASE q # p
    BY <1>0, <1>9, <2>2, Alone DEF Stage, Idle
  <2>. QED
    BY <2>1, <2>2
<1>. QED
  BY <1>6, <1>7, <1>8, <1>11 DEF FileInv

(* The open file is the temporary one, which no other name has.             *)
LEMMA OpenFile ==
  ASSUME TypeInv, FileInv, NEW p \in Procs,
         save[p].at \in {"write", "sync", "rename"}
  PROVE  /\ save[p].ino \in Inodes /\ save[p].ino = dir[Temp(p)]
         /\ save[p].ino # dir["path"] /\ save[p].ino # disk
         /\ ~Idle(p)
BY InodeTypes DEF FileInv, Stage, Apart, Idle

LEMMA WriteKeepsFile ==
  ASSUME TypeInv, FileInv, OneSaver, NEW p \in Procs, Write(p) \/ Sync(p)
  PROVE  FileInv' /\ SameFiles
<1>. DEFINE i == save[p].ino
<1>1. /\ i \in Inodes /\ i = dir[Temp(p)] /\ i # NoInode
      /\ i # dir["path"] /\ i # disk /\ ~Idle(p)
  BY OpenFile, InodeTypes DEF Write, Sync, At
<1>2. UNCHANGED <<dir, disk, mem>>
  BY DEF Write, Sync
<1>3. \A j \in Inodes \ {i} : data'[j] = data[j] /\ safe'[j] = safe[j]
  BY DEF Write, Sync, TypeInv, TypeOK
<1>4. /\ Write(p) => data'[i] = save[p].new
      /\ Sync(p) => data'[i] = save[p].new /\ safe'[i]
  <2>1. CASE Write(p)
    <3>1. \A q \in Procs \ {p} : save[q].ino # i
      BY <1>1, Alone
    <3>. QED
      BY <1>1, <2>1, <3>1 DEF Write, Sync, At, TypeInv, TypeOK
  <2>2. CASE Sync(p)
    BY <1>1, <2>2 DEF Write, Sync, At, TypeInv, TypeOK, FileInv, Stage
  <2>. QED
    BY <2>1, <2>2
<1>5. /\ save'[p].at = IF Write(p) THEN "sync" ELSE "rename"
      /\ save'[p].ino = i /\ save'[p].new = save[p].new
      /\ \A q \in Procs \ {p} : save'[q] = save[q]
  <2>1. CASE Write(p)
    <3>1. save' = [save EXCEPT ![p].at = "sync"]
      BY <2>1 DEF Write
    <3>. QED
      BY <2>1, <3>1 DEF TypeInv, TypeOK
  <2>2. CASE Sync(p)
    <3>1. save' = [save EXCEPT ![p].at = "rename"] /\ ~Write(p)
      BY <2>2 DEF Sync, Write, At
    <3>. QED
      BY <3>1 DEF TypeInv, TypeOK
  <2>. QED
    BY <2>1, <2>2
<1>. HIDE DEF i
<1>6. Apart'
  BY <1>2 DEF FileInv, Apart
<1>7. SameFiles /\ (dir'["path"] # NoInode => Done(dir["path"])')
  BY <1>1, <1>2, <1>3, InodeTypes DEF FileInv, Done, SameFiles
<1>8. disk' # NoInode => Done(disk)'
  BY <1>1, <1>2, <1>3, InodeTypes DEF FileInv, Done
<1>9. ASSUME NEW q \in Procs
      PROVE  Stage(q)'
  <2>1. CASE q = p
    BY <1>1, <1>2, <1>4, <1>5, <2>1 DEF Stage, Temp
  <2>2. CASE q # p
    BY <1>1, <1>5, <2>2, Alone DEF Stage, Idle
  <2>. QED
    BY <2>1, <2>2
<1>. QED
  BY <1>6, <1>7, <1>8, <1>9 DEF FileInv

(* The last rename of a save: the path is the new keystore.                 *)
LEMMA LastRename ==
  ASSUME TypeInv, FileInv, OneSaver, NEW p \in Procs,
         (Rename(p) /\ p \notin Tools) \/ (Move(p) /\ p \in Tools)
  PROVE  /\ FileInv' /\ Finishes(p) /\ ~Idle(p)
         /\ dir'["path"] # NoInode /\ data'[dir'["path"]] = save[p].new
         /\ save[p].new \in Keystore
         /\ disk' = disk
         /\ disk # NoInode => data'[disk] = data[disk]
<1>1. /\ Renamed("path.tmp", "path") /\ Finishes(p) /\ ~Idle(p)
      /\ dir["path.tmp"] # NoInode
      /\ data[dir["path.tmp"]] = save[p].new /\ safe[dir["path.tmp"]]
  BY OpenFile DEF Rename, Move, At, Idle, Temp, FileInv, Stage
<1>2. /\ "path.tmp" \in Names \ {"path"}
      /\ "path" \in Names \ {"path.tmp"}
  BY DEF Names
<1>3. save[p].new \in Keystore
  BY <1>1 DEF TypeInv, Contents
<1>4. /\ dir'["path"] = dir["path.tmp"] /\ disk' = disk /\ Apart'
      /\ dir'["path"] # NoInode =>
           /\ data'[dir'["path"]] = data[dir'["path"]]
           /\ safe'[dir'["path"]] = safe[dir'["path"]]
      /\ disk # NoInode =>
           data'[disk] = data[disk] /\ safe'[disk] = safe[disk]
  BY <1>1, <1>2, RenameMoves
<1>5. \A q \in Procs : Stage(q)'
  BY <1>1, SaveEnds DEF Finishes
<1>6. (disk # NoInode => Done(disk)) /\ (disk' # NoInode => Done(disk)')
  BY <1>4 DEF FileInv, Done
<1>7. Done(dir["path"])'
  BY <1>1, <1>3, <1>4 DEF Done
<1>. QED
  BY <1>1, <1>3, <1>4, <1>5, <1>6, <1>7 DEF FileInv, Done

(* The tool's inner rename, path.tmp.tmp to path.tmp. *)
LEMMA InnerRename ==
  ASSUME TypeInv, FileInv, OneSaver, NEW p \in Tools, Rename(p)
  PROVE  /\ FileInv' /\ SameFiles /\ ~Idle(p)
         /\ UNCHANGED <<mem, kept, keptDisk>>
         /\ save'[p].new = save[p].new /\ save'[p].drop = save[p].drop
         /\ save'[p].at = "move"
         /\ \A q \in Procs \ {p} : save'[q] = save[q]
<1>0. p \in Procs
  BY DEF Procs
<1>. DEFINE m == "path.tmp.tmp"
            n == "path.tmp"
<1>1. /\ Renamed(m, n) /\ ~Idle(p) /\ dir[m] # NoInode
      /\ data[dir[m]] = save[p].new /\ safe[dir[m]]
      /\ UNCHANGED <<mem, kept, keptDisk>>
      /\ save' = [save EXCEPT ![p].at = "move", ![p].ino = NoInode]
  BY <1>0, OpenFile DEF Rename, At, Idle, Temp, FileInv, Stage, ghosts
<1>2. m \in Names \ {"path"} /\ n \in Names \ {m} /\ "path" \in Names \ {m, n}
  BY DEF Names
<1>3. /\ dir'[n] = dir[m] /\ dir'["path"] = dir["path"] /\ disk' = disk /\ Apart'
      /\ \A l \in Names : dir'[l] # NoInode =>
           data'[dir'[l]] = data[dir'[l]] /\ safe'[dir'[l]] = safe[dir'[l]]
      /\ disk # NoInode =>
           data'[disk] = data[disk] /\ safe'[disk] = safe[disk]
  BY <1>1, <1>2, RenameMoves
<1>. HIDE DEF m
<1>4. /\ save'[p].at = "move" /\ save'[p].ino = NoInode
      /\ save'[p].new = save[p].new /\ save'[p].drop = save[p].drop
      /\ \A q \in Procs \ {p} : save'[q] = save[q]
  BY <1>0, <1>1 DEF TypeInv, TypeOK
<1>5. ASSUME NEW q \in Procs
      PROVE  Stage(q)'
  <2>1. CASE q = p
    <3>1. /\ dir'[n] # NoInode /\ data'[dir'[n]] = save[p].new
          /\ safe'[dir'[n]]
      BY <1>1, <1>2, <1>3
    <3>2. /\ save'[q].at = "move" /\ save'[q].ino = NoInode
          /\ save'[q].new = save[p].new
      BY <1>4, <2>1
    <3>. QED
      BY <3>1, <3>2 DEF Stage
  <2>2. CASE q # p
    <3>1. save'[q].at = "idle" /\ save'[q].ino = NoInode
      <4>1. ~Idle(p) /\ p \in Procs
        BY <1>0, <1>1
      <4>2. Idle(q) /\ save[q].ino = NoInode
        BY <2>2, <4>1, Alone
      <4>. QED
        BY <1>4, <2>2, <4>2 DEF Idle
    <3>. QED
      BY <3>1 DEF Stage
  <2>. QED
    BY <2>1, <2>2
<1>6. (dir["path"] # NoInode => Done(dir["path"])) /\ (disk # NoInode => Done(disk))
  BY DEF FileInv
<1>7. /\ dir'["path"] # NoInode => Done(dir["path"])'
      /\ disk' # NoInode => Done(disk)'
  BY <1>2, <1>3, <1>6 DEF Done
<1>. QED
  BY <1>1, <1>2, <1>3, <1>4, <1>5, <1>6, <1>7 DEF FileInv, SameFiles

LEMMA FailureKeepsFile ==
  ASSUME TypeInv, FileInv, OneSaver, NEW p \in Procs, SaveFails(p)
  PROVE  /\ FileInv' /\ SameFiles /\ ~Idle(p)
<1>. DEFINE d == [n \in Names |-> IF n \in Removed(p) THEN NoInode
                                                     ELSE dir[n]]
<1>1. /\ ~Idle(p) /\ Directory(d, disk) /\ dir' = d /\ disk' = disk
      /\ save' = [save EXCEPT ![p] = NotSaving]
      /\ mem' = IF p \in Tools THEN [mem EXCEPT ![p] = NoMem] ELSE mem
  BY DEF SaveFails, Directory
<1>2. "path" \in Names /\ "path" \notin Removed(p)
  BY DEF Names, Removed, Temp
<1>3. d["path"] = dir["path"] /\ \A n \in Names : d[n] \in {dir[n], NoInode}
  BY <1>2
<1>. HIDE DEF d
<1>4. Apart'
  BY <1>1, <1>3 DEF FileInv, Apart
<1>5. dir["path"] # NoInode =>
        /\ data'[dir["path"]] = data[dir["path"]]
        /\ safe'[dir["path"]] = safe[dir["path"]]
  BY <1>1, <1>2, <1>3, InodeTypes, Named
<1>6. disk # NoInode => data'[disk] = data[disk] /\ safe'[disk] = safe[disk]
  BY <1>1, InodeTypes, Named
<1>7. \A q \in Procs : Stage(q)'
  BY <1>1, SaveEnds
<1>8. /\ dir'["path"] # NoInode => Done(dir["path"])'
      /\ disk' # NoInode => Done(disk)'
  BY <1>1, <1>3, <1>5, <1>6 DEF FileInv, Done
<1>. QED
  BY <1>1, <1>3, <1>4, <1>5, <1>6, <1>7, <1>8 DEF FileInv, SameFiles

LEMMA KillKeepsFile ==
  ASSUME TypeInv, FileInv, OneSaver, NEW p \in Procs, Kill(p)
  PROVE  FileInv' /\ SameFiles
<1>1. /\ UNCHANGED <<dir, disk, kept, keptDisk>>
      /\ data' = [i \in Inodes |-> IF i \in Abandoned(p) THEN Torn ELSE data[i]]
      /\ safe' = [i \in Inodes |-> i \in Abandoned(p) \/ safe[i]]
      /\ mem' = [mem EXCEPT ![p] = NoMem]
      /\ save' = [save EXCEPT ![p] = NotSaving]
  BY DEF Kill, ghosts
<1>2. \A i \in Abandoned(p) : i = NoInode \/ (i # dir["path"] /\ i # disk)
  <2>1. Temp(p) \in Names \ {"path"} /\ "path.tmp" \in Names \ {"path"}
    BY InodeTypes DEF Names
  <2>2. \A n \in Names \ {"path"} :
          dir[n] = NoInode \/ (dir[n] # dir["path"] /\ dir[n] # disk)
    BY InodeTypes DEF FileInv, Apart
  <2>. QED
    BY <2>1, <2>2 DEF Abandoned
<1>3. \A i \in Inodes : i \notin Abandoned(p) =>
        data'[i] = data[i] /\ (safe[i] => safe'[i])
  BY <1>1
<1>4. dir["path"] # NoInode =>
        /\ data'[dir["path"]] = data[dir["path"]]
        /\ safe[dir["path"]] => safe'[dir["path"]]
  BY <1>2, <1>3, InodeTypes
<1>5. disk # NoInode => data'[disk] = data[disk] /\ (safe[disk] => safe'[disk])
  BY <1>2, <1>3, InodeTypes
<1>6. /\ dir'["path"] # NoInode => Done(dir["path"])'
      /\ disk' # NoInode => Done(disk)'
  BY <1>1, <1>4, <1>5 DEF FileInv, Done
<1>7. /\ save'[p].at = "idle" /\ save'[p].ino = NoInode /\ mem'[p].pin = NoPin
      /\ \A q \in Procs \ {p} : save'[q] = save[q] /\ mem'[q] = mem[q]
  BY <1>1 DEF TypeInv, TypeOK, NotSaving, NoMem
<1>8. ASSUME NEW q \in Procs
      PROVE  Stage(q)'
  <2>1. CASE Idle(p) \/ q = p
    <3>1. CASE q = p
      BY <1>7, <3>1 DEF Stage
    <3>2. CASE q # p
      <4>1. Abandoned(p) = {}
        BY <2>1, <3>2 DEF Abandoned
      <4>2. /\ \A i \in Inodes : data'[i] = data[i] /\ (safe[i] => safe'[i])
            /\ save'[q] = save[q] /\ dir' = dir
        BY <1>1, <1>3, <1>7, <3>2, <4>1
      <4>3. Stage(q)
        BY DEF FileInv
      <4>. QED
        BY <4>2, <4>3, InodeTypes DEF Stage, Temp
    <3>. QED
      BY <3>1, <3>2
  <2>2. CASE ~Idle(p) /\ q # p
    BY <1>7, <2>2, Alone DEF Stage, Idle
  <2>. QED
    BY <2>1, <2>2
<1>9. Apart'
  BY <1>1 DEF FileInv, Apart
<1>. QED
  BY <1>1, <1>4, <1>5, <1>6, <1>8, <1>9 DEF FileInv, SameFiles

LEMMA JournalKeepsFile ==
  ASSUME TypeInv, FileInv, Journal
  PROVE  /\ FileInv' /\ dir' = dir /\ disk' = dir["path"]
         /\ \A n \in Names : dir[n] # NoInode => data'[dir[n]] = data[dir[n]]
         /\ UNCHANGED <<mem, save, kept>>
<1>1. /\ Directory(dir, dir["path"]) /\ dir' = dir /\ disk' = dir["path"]
      /\ UNCHANGED <<mem, save, kept>>
  BY DEF Journal, Directory
<1>2. \A n \in Names : dir[n] # NoInode =>
        data'[dir[n]] = data[dir[n]] /\ safe'[dir[n]] = safe[dir[n]]
  BY <1>1, InodeTypes, Named
<1>3. Apart'
  BY <1>1, InodeTypes DEF FileInv, Apart
<1>4. /\ dir'["path"] # NoInode => Done(dir["path"])'
      /\ disk' # NoInode => Done(disk)'
  BY <1>1, <1>2, InodeTypes DEF FileInv, Done
<1>5. ASSUME NEW q \in Procs
      PROVE  Stage(q)'
  <2>1. Stage(q) /\ save' = save /\ Temp(q) \in Names /\ "path.tmp" \in Names
    BY <1>1, InodeTypes DEF FileInv
  <2>2. ASSUME save[q].at \in {"write", "sync", "rename"}
        PROVE  /\ save[q].ino # NoInode
               /\ data'[save[q].ino] = data[save[q].ino]
               /\ safe'[save[q].ino] = safe[save[q].ino]
    BY <1>2, <2>1, <2>2 DEF Stage
  <2>. QED
    BY <1>1, <1>2, <2>1, <2>2 DEF Stage, Temp
<1>. QED
  BY <1>1, <1>2, <1>3, <1>4, <1>5 DEF FileInv

LEMMA PowerKeepsFile ==
  ASSUME TypeInv, FileInv, PowerLoss
  PROVE  /\ FileInv' /\ dir'["path"] = disk /\ disk' = disk
         /\ disk # NoInode => data'[disk] = data[disk]
         /\ kept' = keptDisk /\ keptDisk' = keptDisk
         /\ \A p \in Procs : mem'[p] = NoMem /\ save'[p] = NotSaving
<1>1. /\ data' = [i \in Inodes |-> IF i = disk THEN AfterPowerLoss(i) ELSE Torn]
      /\ safe' = [i \in Inodes |-> TRUE]
      /\ mem' = [p \in Procs |-> NoMem]
      /\ save' = [p \in Procs |-> NotSaving]
      /\ disk' = disk /\ kept' = keptDisk /\ keptDisk' = keptDisk
  BY DEF PowerLoss
<1>2. PICK N \in SUBSET {"path.tmp", "path.tmp.tmp"} :
        dir' = [n \in Names |-> IF n = "path" THEN disk
                               ELSE IF n \in N THEN dir[n] ELSE NoInode]
  BY DEF PowerLoss
<1>3. /\ dir'["path"] = disk
      /\ \A n \in Names \ {"path"} : dir'[n] \in {dir[n], NoInode}
  BY <1>2, InodeTypes
<1>4. disk # NoInode => data'[disk] = data[disk] /\ safe'[disk]
  BY <1>1, InodeTypes DEF AfterPowerLoss, FileInv, Done
<1>5. Apart'
  BY <1>1, <1>3 DEF FileInv, Apart
<1>6. \A p \in Procs : Stage(p)'
  BY <1>1 DEF Stage, NotSaving
<1>7. /\ dir'["path"] # NoInode => Done(dir["path"])'
      /\ disk' # NoInode => Done(disk)'
  BY <1>1, <1>3, <1>4 DEF FileInv, Done
<1>. QED
  BY <1>1, <1>3, <1>4, <1>5, <1>6, <1>7 DEF FileInv

LEMMA FileInit == Init => FileInv
<1>. SUFFICES ASSUME Init PROVE FileInv
  OBVIOUS
<1>1. \A p \in Procs : save[p] = NotSaving
  BY DEF Init
<1>2. \A p \in Procs : Stage(p)
  BY <1>1 DEF Stage, NotSaving
<1>3. Apart /\ dir["path"] = NoInode /\ disk = NoInode
  BY DEF Init, Apart, Names
<1>. QED
  BY <1>2, <1>3 DEF FileInv

LEMMA FileNext == TypeInv /\ FileInv /\ OneSaver /\ [Next]_vars => FileInv'
<1>. SUFFICES ASSUME TypeInv, FileInv, OneSaver, [Next]_vars PROVE FileInv'
  OBVIOUS
<1>1. CASE UNCHANGED vars
  BY <1>1 DEF vars, FileInv, Apart, Stage, Done, Temp
<1>2. ASSUME NEW p \in Procs, SaveStep(p) \/ (p \in Tools /\ Move(p))
      PROVE  FileInv'
  BY <1>2, OpenKeepsFile, WriteKeepsFile, LastRename, InnerRename,
     FailureKeepsFile DEF SaveStep
<1>. QED
  BY <1>1, <1>2, CallsKeepFile, KillKeepsFile, JournalKeepsFile,
     PowerKeepsFile DEF Next, Procs

LEMMA FileCorrect == Spec /\ []OneSaver => [](TypeInv /\ FileInv)
BY TypeInit, TypeNext, FileInit, FileNext, PTL DEF Spec

(* The file is never seen partly written if its saves come one after the    *)
(* other, however many programs use it, whatever stops a save and whatever  *)
(* temporary file an earlier one has left (wp11_keystore_create,            *)
(* keystore_atomic_save).                                                   *)
THEOREM NotPartial == Spec /\ []OneSaver => []NeverPartial
<1>1. TypeInv /\ FileInv => NeverPartial
  BY KeystoreFileAssumption DEF FileInv, Done, NeverPartial, File
<1>. QED
  BY <1>1, FileCorrect, PTL

-----------------------------------------------------------------------------
(* The file implements an atomic file.                                      *)

Stable == IF disk = NoInode THEN NoFile ELSE AfterPowerLoss(disk)

LEMMA StableIs ==
  ASSUME FileInv
  PROVE  Stable = IF disk = NoInode THEN NoFile ELSE data[disk]
BY DEF Stable, AfterPowerLoss, FileInv, Done

LEMMA Unseen ==
  ASSUME FileInv, FileInv', SameFiles
  PROVE  UNCHANGED <<File, Stable>>
<1>1. File' = File
  BY DEF SameFiles, File
<1>2. Stable' = IF disk' = NoInode THEN NoFile ELSE data'[disk']
  BY DEF Stable, AfterPowerLoss, FileInv, Done
<1>3. Stable' = Stable
  BY <1>2, StableIs DEF SameFiles
<1>. QED
  BY <1>1, <1>3

LEMMA CallsUnseen ==
  ASSUME UNCHANGED files
  PROVE  SameFiles
BY DEF SameFiles, files

(* The rename of a save replaces the file; when the directory reaches the   *)
(* disk, so does the file; a power failure brings that one back.            *)
LEMMA NextIsAtomic ==
  TypeInv /\ FileInv /\ FileInv' /\ OneSaver /\ [Next]_vars =>
    [Atomic!Next]_<<File, Stable>>
<1>. SUFFICES ASSUME TypeInv, FileInv, FileInv', OneSaver, [Next]_vars
              PROVE  [Atomic!Next]_<<File, Stable>>
  OBVIOUS
<1>0. Stable' = IF disk' = NoInode THEN NoFile ELSE data'[disk']
  BY DEF Stable, AfterPowerLoss, FileInv, Done
<1>1. CASE UNCHANGED files
  BY <1>1, CallsUnseen, Unseen
<1>2. ASSUME NEW p \in Procs,
             (Rename(p) /\ p \notin Tools) \/ (Move(p) /\ p \in Tools)
      PROVE  [Atomic!Next]_<<File, Stable>>
  <2>1. /\ dir'["path"] # NoInode /\ data'[dir'["path"]] = save[p].new
        /\ save[p].new \in Keystore /\ disk' = disk
        /\ disk # NoInode => data'[disk] = data[disk]
    BY <1>2, LastRename
  <2>2. File' \in Keystore
    BY <2>1 DEF File
  <2>3. Stable' = Stable
    BY <1>0, <2>1, StableIs
  <2>. QED
    BY <2>2, <2>3 DEF Atomic!Next, Atomic!Replace, Stable
<1>3. CASE Journal
  <2>1. File' = File
    BY <1>3, JournalKeepsFile DEF File, Names
  <2>2. Stable' = File
    BY <1>0, <1>3, JournalKeepsFile DEF File, Names
  <2>. QED
    BY <2>1, <2>2 DEF Atomic!Next, Atomic!Reach, Stable
<1>4. CASE PowerLoss
  <2>1. Stable' = Stable
    BY <1>0, <1>4, PowerKeepsFile, StableIs
  <2>2. File' = Stable
    BY <1>4, PowerKeepsFile, StableIs DEF File
  <2>. QED
    BY <2>1, <2>2 DEF Atomic!Next, Atomic!PowerLoss, Stable
<1>5. ASSUME NEW p \in Procs, SaveStep(p), ~Rename(p) \/ p \in Tools
      PROVE  SameFiles
  BY <1>5, OpenKeepsFile, WriteKeepsFile, InnerRename, FailureKeepsFile
     DEF SaveStep
<1>6. ASSUME NEW p \in Procs, Kill(p)
      PROVE  SameFiles
  BY <1>6, KillKeepsFile
<1>. QED
  <2>1. CASE UNCHANGED vars
    BY <1>1, <2>1 DEF vars, files
  <2>2. CASE \E p \in Libs : LibStep(p)
    BY <1>1, <2>2, CallsKeepFile DEF Procs
  <2>3. CASE \E p \in Tools : ToolStep(p) \/ Move(p)
    BY <1>1, <1>2, <2>3, CallsKeepFile DEF Procs
  <2>4. CASE \E p \in Procs : SaveStep(p) \/ Kill(p)
    BY <1>2, <1>5, <1>6, <2>4, Unseen
  <2>. QED
    BY <1>3, <1>4, <2>1, <2>2, <2>3, <2>4 DEF Next

(* The keystore file is an atomic file if its saves come one after the      *)
(* other: the renames of wp11_keystore_create and keystore_atomic_save      *)
(* replace one complete keystore by another, and every other call, failure  *)
(* and crash leaves what a reader finds as it was.                          *)
THEOREM IsAtomicFile == Spec /\ []OneSaver => FileIsAtomic
<1>1. Init => Atomic!Init
  BY DEF Init, Atomic!Init, File, Names
<1>2. [Atomic!Next]_<<File, Stable>> =>
        [Atomic!Next]_<<File, IF disk = NoInode THEN NoFile
                                                ELSE AfterPowerLoss(disk)>>
  BY DEF Stable
<1>. QED
  BY <1>1, <1>2, FileCorrect, NextIsAtomic, PTL DEF Spec, FileIsAtomic, Atomic!Spec
-----------------------------------------------------------------------------
(* One user at a time.                                                      *)

(* Nobody starts to use the file while another one does.                    *)
LEMMA SoloKept ==
  ASSUME Solo, NEW p \in Procs,
         \A q \in Procs \ {p} : Uses(q)' => Uses(q),
         Uses(p)' => Uses(p) \/ \A q \in Procs \ {p} : ~Uses(q)
  PROVE  Solo'
BY DEF Solo

(* A call that takes up the file looks for other users (MayUse); the others *)
(* are of somebody who uses it, or begin no use.                            *)
LEMMA CallsKeepSolo ==
  ASSUME Exclusive, TypeInv, Solo, NEW p \in Procs,
         (p \in Libs /\ LibStep(p)) \/ (p \in Tools /\ ToolStep(p))
  PROVE  Solo'
<1>1. save' = save \/ \E v, D : Begins(p, v, D)
  BY DEF LibStep, Login, LoginNoRoom, Logout, InitPIN, GeneratePair, DestroyObject,
         ToolStep, Load, Create, ImportKey, RemoveKey, PinChange, CertAdd, Quit
<1>2. ASSUME NEW q \in Procs \ {p}
      PROVE  Uses(q)' => Uses(q)
  <2>1. save'[q] = save[q]
    BY <1>1 DEF Begins, TypeInv, TypeOK
  <2>2. mem'[q] = mem[q]
    BY DEF LibStep, Login, LoginNoRoom, Logout, InitPIN, GeneratePair, DestroyObject,
           ToolStep, Load, Create, ImportKey, RemoveKey, PinChange, CertAdd,
           Quit, TypeInv, TypeOK
  <2>. QED
    BY <2>1, <2>2 DEF Uses, Idle
<1>3. CASE MayUse(p)
  BY <1>2, <1>3, SoloKept DEF MayUse, Uses
<1>4. CASE Loaded(p)
  BY <1>2, <1>4, SoloKept DEF Loaded, Uses
<1>5. CASE Logout(p)
  <2>1. save'[p] = save[p] /\ mem'[p] = NoMem
    BY <1>5 DEF Logout, TypeInv, TypeOK
  <2>2. Uses(p)' => Uses(p)
    BY <2>1 DEF Uses, Idle, NoMem
  <2>. QED
    BY <1>2, <2>2, SoloKept
<1>6. CASE GeneratePair(p)
  <2>1. mem'[p].pin = mem[p].pin /\ (mem[p].pin = NoPin => save' = save)
    BY <1>6 DEF GeneratePair, TypeInv, TypeOK
  <2>2. Uses(p)' => Uses(p)
    BY <2>1 DEF Uses, Idle
  <2>. QED
    BY <1>2, <2>2, SoloKept
<1>7. CASE DestroyObject(p)
  <2>1. mem'[p].pin = mem[p].pin /\ save' = save
    BY <1>7 DEF DestroyObject, TypeInv, TypeOK
  <2>2. Uses(p)' => Uses(p)
    BY <2>1 DEF Uses, Idle
  <2>. QED
    BY <1>2, <2>2, SoloKept
<1>. QED
  BY <1>3, <1>4, <1>5, <1>6, <1>7
     DEF LibStep, Login, LoginNoRoom, InitPIN, ToolStep, Load, Create, ImportKey,
         RemoveKey, PinChange, CertAdd, Quit

(* A step of a save, and a crash, concern who is using the file anyway.     *)
LEMMA SavesKeepSolo ==
  ASSUME TypeInv, Solo, NEW p \in Procs, SaveStep(p) \/ Move(p) \/ Kill(p)
  PROVE  Solo'
<1>1. ASSUME NEW q \in Procs \ {p}
      PROVE  save'[q] = save[q] /\ mem'[q] = mem[q]
  <2>. USE DEF TypeInv, TypeOK
  <2>1. CASE OpenTemp(p) \/ Write(p) \/ Sync(p)
    BY <2>1 DEF OpenTemp, Write, Sync
  <2>2. CASE Rename(p) \/ Move(p)
    BY <2>2 DEF Rename, Move, Finishes
  <2>3. CASE SaveFails(p) \/ Kill(p)
    BY <2>3 DEF SaveFails, Kill
  <2>. QED
    BY <2>1, <2>2, <2>3 DEF SaveStep
<1>2. CASE SaveStep(p) \/ Move(p)
  BY <1>1, <1>2, SoloKept
     DEF SaveStep, OpenTemp, Write, Sync, Rename, Move, SaveFails, Uses, Idle, At
<1>3. CASE Kill(p)
  <2>1. ~Uses(p)'
    BY <1>3 DEF Kill, Uses, Idle, NotSaving, NoMem, TypeInv, TypeOK
  <2>. QED
    BY <1>1, <2>1, SoloKept DEF Uses, Idle
<1>. QED
  BY <1>2, <1>3

LEMMA SoloInit == Init => Solo
BY DEF Init, Solo, Uses, Idle, NotSaving, NoMem

LEMMA SoloNext ==
  ASSUME Exclusive
  PROVE  TypeInv /\ Solo /\ [Next]_vars => Solo'
<1>. SUFFICES ASSUME TypeInv, Solo, [Next]_vars PROVE Solo'
  OBVIOUS
<1>1. CASE UNCHANGED vars \/ Journal
  BY <1>1 DEF vars, Journal, Solo, Uses, Idle
<1>2. CASE PowerLoss
  BY <1>2 DEF PowerLoss, Solo, Uses, Idle, NotSaving, NoMem
<1>. QED
  BY <1>1, <1>2, CallsKeepSolo, SavesKeepSolo DEF Next, Procs

LEMMA SoloSaver == Solo => OneSaver
BY DEF Solo, OneSaver, Uses

(* One user at a time is enough for the two theorems above.                 *)
THEOREM SingleUserIsAtomic ==
  ASSUME Exclusive
  PROVE  Spec => []NeverPartial /\ FileIsAtomic
<1>1. Spec => []OneSaver
  BY TypeInit, TypeNext, SoloInit, SoloNext, SoloSaver, PTL DEF Spec
<1>. QED
  BY <1>1, NotPartial, IsAtomicFile, PTL

-----------------------------------------------------------------------------
(* The promised keys, with one user at a time and no failing reads.         *)

(* Files that look the same have the keys they had. *)
LEMMA FilesHave ==
  ASSUME KeysInv, SameFiles, kept' \subseteq kept, keptDisk' = keptDisk
  PROVE  Has(dir["path"], kept)' /\ Has(disk, keptDisk)'
BY DEF KeysInv, SameFiles, Has, Support

(* What p does not touch, and does not promise more of, carries on. *)
LEMMA OthersCarry ==
  ASSUME KeysInv, NEW q \in Procs, save'[q] = save[q],
         mem'[q] = mem[q], kept' \subseteq kept, dir'["path"] = dir["path"]
  PROVE  Carries(q)'
BY DEF KeysInv, Carries, Idle, Support

(* The file has the promised keys, so who has read it has them. *)
LEMMA Reads ==
  ASSUME TypeInv, KeysInv, NEW pin, Loads(pin)
  PROVE  /\ dir["path"] # NoInode /\ File = data[dir["path"]]
         /\ kept \subseteq Support(File.keys) /\ File \in Keystore
<1>1. dir["path"] # NoInode /\ File = data[dir["path"]]
  BY DEF Loads, Whole, File
<1>2. File \in Keystore
  BY <1>1, InodeTypes DEF TypeInv, TypeOK, Loads, Whole
<1>3. kept \subseteq Support(File.keys)
  BY <1>1 DEF KeysInv, Has
<1>. QED
  BY <1>1, <1>2, <1>3

(* A save that begins with the promised keys carries them. *)
LEMMA BeginsCarries ==
  ASSUME TypeInv, KeysInv, NEW p \in Procs, NEW v \in Keystore, NEW D,
         Begins(p, v, D), kept \ D \subseteq Support(v.keys),
         UNCHANGED <<dir, kept>>,
         p \in Libs => D = {} /\ (mem'[p].pin # NoPin => v.keys = mem'[p].keys),
         mem'[p].pin = mem[p].pin
  PROVE  Carries(p)'
<1>1. /\ save'[p].at = "open" /\ save'[p].new = v /\ save'[p].drop = D
  BY DEF Begins, TypeInv, TypeOK
<1>. QED
  BY <1>1 DEF Carries, Idle, KeysInv, Support

LEMMA LibKeepsKeys ==
  ASSUME Exclusive, "read" \notin Faults,
         TypeInv, FileInv, KeysInv, NEW p \in Libs, LibStep(p)
  PROVE  KeysInv'
<1>. p \in Procs
  BY DEF Procs
<1>. USE DEF ghosts, files
<1>0. ASSUME UNCHANGED <<dir, disk, data, keptDisk>>, kept' \subseteq kept,
             \A q \in Procs \ {p} : save'[q] = save[q] /\ mem'[q] = mem[q],
             Carries(p)'
      PROVE  KeysInv'
  <2>1. SameFiles
    BY <1>0 DEF SameFiles
  <2>2. ASSUME NEW q \in Procs
        PROVE  Carries(q)'
    BY <1>0, <2>2, OthersCarry
  <2>. QED
    BY <1>0, <2>1, <2>2, FilesHave DEF KeysInv
<1>1. CASE Login(p)
  <2>1. PICK pin \in Pins :
          Loads(pin) /\ mem' = [mem EXCEPT ![p] =
                                [pin |-> pin, keys |-> Plus(@.keys, File.keys)]]
    BY <1>1 DEF Login
  <2>2. /\ mem'[p].keys = Plus(mem[p].keys, File.keys)
        /\ \A q \in Procs \ {p} : mem'[q] = mem[q]
    BY <2>1 DEF TypeInv, TypeOK
  <2>3. kept \subseteq Support(mem'[p].keys) /\ dir["path"] # NoInode
    <3>1. /\ dir["path"] # NoInode /\ kept \subseteq Support(File.keys)
          /\ File.keys \in Bag
      BY <2>1, Reads DEF Keystore
    <3>2. mem[p].keys \in Bag
      BY DEF TypeInv, TypeOK
    <3>. QED
      BY <2>2, <3>1, <3>2 DEF Support, Plus, Bag
  <2>4. UNCHANGED <<dir, disk, data, save, kept, keptDisk>> /\ Idle(p)
    BY <1>1 DEF Login, MayUse
  <2>5. Carries(p)'
    BY <2>3, <2>4 DEF Carries, Idle, Support
  <2>. QED
    BY <1>0, <2>2, <2>4, <2>5
<1>2. CASE LoginNoRoom(p) \/ Logout(p)
  <2>1. /\ mem'[p] = NoMem /\ \A q \in Procs \ {p} : mem'[q] = mem[q]
        /\ UNCHANGED <<dir, disk, data, save, kept, keptDisk>> /\ Idle(p)
    BY <1>2 DEF LoginNoRoom, Logout, MayUse, TypeInv, TypeOK
  <2>2. Carries(p)'
    BY <2>1 DEF Carries, Idle, NoMem
  <2>. QED
    BY <1>0, <2>1, <2>2
<1>3. CASE InitPIN(p)
  <2>1. PICK pin \in Pins : Begins(p, [pin |-> pin, keys |-> Nothing], {})
    BY <1>3 DEF InitPIN
  <2>2. [pin |-> pin, keys |-> Nothing] \in Keystore
    BY NothingType DEF Keystore
  <2>3. /\ UNCHANGED <<dir, disk, data, mem, kept, keptDisk>>
        /\ File = NoFile
    BY <1>3 DEF InitPIN
  <2>4. dir["path"] = NoInode
    BY <2>3, KeystoreFileAssumption DEF FileInv, Done, File
  <2>5. kept = {} /\ mem[p].pin = NoPin
    BY <2>4 DEF KeysInv, Has, Carries
  <2>6. \A q \in Procs \ {p} : save'[q] = save[q]
    BY <2>1 DEF Begins, TypeInv, TypeOK
  <2>7. Carries(p)'
    BY <2>1, <2>2, <2>3, <2>5, BeginsCarries
  <2>. QED
    BY <1>0, <2>3, <2>6, <2>7
<1>4. CASE GeneratePair(p)
  <2>1. PICK k \in Keys :
          LET b == With(mem[p].keys, k, 2)
          IN  /\ mem' = [mem EXCEPT ![p].keys = b]
              /\ IF mem[p].pin = NoPin
                 THEN UNCHANGED save
                 ELSE Begins(p, [pin |-> mem[p].pin, keys |-> b], {})
    BY <1>4 DEF GeneratePair
  <2>. DEFINE b == With(mem[p].keys, k, 2)
  <2>2. b \in Bag /\ mem[p].keys \in Bag
    BY BagTypes DEF TypeInv, TypeOK
  <2>3. Support(mem[p].keys) \subseteq Support(b)
    BY <2>2 DEF With, Support, Bag
  <2>4. /\ UNCHANGED <<dir, disk, data, kept, keptDisk>> /\ Idle(p)
        /\ mem'[p].pin = mem[p].pin /\ mem'[p].keys = b
        /\ \A q \in Procs \ {p} : mem'[q] = mem[q]
    BY <1>4, <2>1 DEF GeneratePair, TypeInv, TypeOK
  <2>. HIDE DEF b
  <2>5. CASE mem[p].pin = NoPin
    <3>1. save' = save
      BY <2>1, <2>5
    <3>2. Carries(p)'
      BY <2>4, <2>5, <3>1 DEF Carries, Idle
    <3>. QED
      BY <1>0, <2>4, <3>1, <3>2
  <2>6. CASE mem[p].pin # NoPin
    <3>. DEFINE v == [pin |-> mem[p].pin, keys |-> b]
    <3>1. v \in Keystore
      BY <2>2, <2>6 DEF TypeInv, TypeOK, Keystore
    <3>2. Begins(p, v, {})
      BY <2>1, <2>6 DEF b
    <3>3. kept \subseteq Support(v.keys)
      BY <2>3, <2>4, <2>6 DEF KeysInv, Carries
    <3>4. \A q \in Procs \ {p} : save'[q] = save[q]
      BY <3>2 DEF Begins, TypeInv, TypeOK
    <3>5. Carries(p)'
      BY <2>4, <3>1, <3>2, <3>3, BeginsCarries
    <3>. QED
      BY <1>0, <2>4, <3>4, <3>5
  <2>. QED
    BY <2>5, <2>6
<1>5. CASE DestroyObject(p)
  <2>1. PICK k \in Support(mem[p].keys) :
          /\ mem' = [mem EXCEPT ![p].keys[k] = @ - 1]
          /\ kept' = IF mem[p].keys[k] = 1 THEN kept \ {k} ELSE kept
    BY <1>5 DEF DestroyObject
  <2>2. k \in Keys /\ mem[p].keys \in Bag
    BY DEF TypeInv, TypeOK, Support
  <2>3. /\ UNCHANGED <<dir, disk, data, save, keptDisk>> /\ Idle(p)
        /\ mem'[p].pin = mem[p].pin
        /\ mem'[p].keys = [mem[p].keys EXCEPT ![k] = @ - 1]
        /\ \A q \in Procs \ {p} : mem'[q] = mem[q]
    BY <1>5, <2>1 DEF DestroyObject, TypeInv, TypeOK
  <2>4. \A K \in SUBSET Keys : K \subseteq Support(mem[p].keys) =>
          (IF mem[p].keys[k] = 1 THEN K \ {k} ELSE K) \subseteq Support(mem'[p].keys)
    BY <2>2, <2>3 DEF Support, Bag
  <2>5. Carries(p)'
    <3>1. kept \in SUBSET Keys
      BY DEF TypeInv, TypeOK
    <3>. QED
      BY <2>1, <2>3, <2>4, <3>1 DEF Carries, Idle, KeysInv
  <2>. QED
    BY <1>0, <2>1, <2>3, <2>5
<1>. QED
  BY <1>1, <1>2, <1>3, <1>4, <1>5 DEF LibStep

LEMMA ToolKeepsKeys ==
  ASSUME TypeInv, FileInv, KeysInv, NEW p \in Tools, ToolStep(p)
  PROVE  KeysInv'
<1>. p \in Procs /\ p \notin Libs
  BY KeystoreFileAssumption DEF Procs
<1>. USE DEF ghosts, files
<1>0. ASSUME \A q \in Procs \ {p} : save'[q] = save[q] /\ mem'[q] = mem[q],
             Carries(p)'
      PROVE  KeysInv'
  <2>0. UNCHANGED <<dir, disk, data, kept, keptDisk>>
    BY DEF ToolStep, Load, Create, ImportKey, RemoveKey, PinChange, CertAdd,
           Quit
  <2>1. SameFiles
    BY <2>0 DEF SameFiles
  <2>2. ASSUME NEW q \in Procs
        PROVE  Carries(q)'
    BY <1>0, <2>0, <2>2, OthersCarry
  <2>. QED
    BY <1>0, <2>0, <2>1, <2>2, FilesHave DEF KeysInv
<1>1. ASSUME NEW v \in Keystore, NEW D, Begins(p, v, D), mem' = mem,
             UNCHANGED <<dir, kept>>, kept \ D \subseteq Support(v.keys)
      PROVE  KeysInv'
  <2>1. Carries(p)'
    BY <1>1, BeginsCarries
  <2>2. \A q \in Procs \ {p} : save'[q] = save[q] /\ mem'[q] = mem[q]
    BY <1>1 DEF Begins, TypeInv, TypeOK
  <2>. QED
    BY <1>0, <2>1, <2>2
<1>2. ASSUME Loaded(p)
      PROVE  mem[p] \in Keystore /\ kept \subseteq Support(mem[p].keys)
  BY <1>2, FileType DEF Loaded, KeysInv, Carries, TypeInv
<1>3. CASE Load(p)
  <2>1. PICK pin \in Pins : Loads(pin) /\ mem' = [mem EXCEPT ![p] = File]
    BY <1>3 DEF Load
  <2>2. /\ UNCHANGED <<dir, save, kept>> /\ Idle(p) /\ mem'[p] = File
        /\ \A q \in Procs \ {p} : mem'[q] = mem[q]
    BY <1>3, <2>1 DEF Load, MayUse, TypeInv, TypeOK
  <2>3. Carries(p)'
    BY <2>1, <2>2, Reads DEF Carries, Idle, Support
  <2>. QED
    BY <1>0, <2>2, <2>3
<1>4. CASE Create(p)
  <2>1. PICK pin \in Pins, K \in SUBSET Keys :
          Begins(p, [pin |-> pin,
                     keys |-> [k \in Keys |-> IF k \in K THEN 1 ELSE 0]], Keys)
    BY <1>4 DEF Create
  <2>. DEFINE v == [pin |-> pin,
                    keys |-> [k \in Keys |-> IF k \in K THEN 1 ELSE 0]]
  <2>2. v \in Keystore /\ kept \ Keys = {} /\ UNCHANGED <<dir, mem, kept>>
    BY <1>4 DEF Keystore, Bag, Create, TypeInv, TypeOK
  <2>. HIDE DEF v
  <2>. QED
    BY <1>1, <2>1, <2>2 DEF v
<1>5. CASE ImportKey(p)
  <2>1. PICK k \in Keys : Begins(p, [mem[p] EXCEPT !.keys[k] = @ + 1], {})
    BY <1>5 DEF ImportKey
  <2>. DEFINE v == [mem[p] EXCEPT !.keys[k] = @ + 1]
  <2>2. Loaded(p) /\ UNCHANGED <<dir, mem, kept>>
    BY <1>5 DEF ImportKey
  <2>3. v \in Keystore /\ Support(mem[p].keys) \subseteq Support(v.keys)
    BY <1>2, <2>2 DEF Keystore, Bag, Support
  <2>. HIDE DEF v
  <2>4. Begins(p, v, {})
    BY <2>1 DEF v
  <2>. QED
    BY <1>1, <1>2, <2>2, <2>3, <2>4
<1>6. CASE RemoveKey(p)
  <2>1. PICK k \in Keys : Begins(p, [mem[p] EXCEPT !.keys[k] = 0], {k})
    BY <1>6 DEF RemoveKey, Support
  <2>. DEFINE v == [mem[p] EXCEPT !.keys[k] = 0]
  <2>2. Loaded(p) /\ UNCHANGED <<dir, mem, kept>>
    BY <1>6 DEF RemoveKey
  <2>3. v \in Keystore /\ Support(mem[p].keys) \ {k} \subseteq Support(v.keys)
    BY <1>2, <2>2 DEF Keystore, Bag, Support
  <2>. HIDE DEF v
  <2>4. Begins(p, v, {k})
    BY <2>1 DEF v
  <2>. QED
    BY <1>1, <1>2, <2>2, <2>3, <2>4
<1>7. CASE PinChange(p)
  <2>1. PICK pin \in Pins : Begins(p, [mem[p] EXCEPT !.pin = pin], {})
    BY <1>7 DEF PinChange
  <2>. DEFINE v == [mem[p] EXCEPT !.pin = pin]
  <2>2. Loaded(p) /\ UNCHANGED <<dir, mem, kept>>
    BY <1>7 DEF PinChange
  <2>3. v \in Keystore /\ v.keys = mem[p].keys
    BY <1>2, <2>2 DEF Keystore
  <2>. HIDE DEF v
  <2>4. Begins(p, v, {})
    BY <2>1 DEF v
  <2>. QED
    BY <1>1, <1>2, <2>2, <2>3, <2>4
<1>8. CASE CertAdd(p)
  BY <1>1, <1>2, <1>8 DEF CertAdd
<1>9. CASE Quit(p)
  <2>1. /\ UNCHANGED <<dir, save, kept>> /\ Idle(p) /\ mem'[p] = NoMem
        /\ \A q \in Procs \ {p} : mem'[q] = mem[q]
    BY <1>9 DEF Quit, Loaded, TypeInv, TypeOK
  <2>2. Carries(p)'
    BY <2>1 DEF Carries, Idle, NoMem
  <2>. QED
    BY <1>0, <2>1, <2>2
<1>. QED
  BY <1>3, <1>4, <1>5, <1>6, <1>7, <1>8, <1>9 DEF ToolStep
(* A step of a save of p before its last. *)
LEMMA SaveKeepsKeys ==
  ASSUME TypeInv, FileInv, OneSaver, KeysInv, NEW p \in Procs,
         OpenTemp(p) \/ Write(p) \/ Sync(p) \/ (Rename(p) /\ p \in Tools)
  PROVE  KeysInv'
<1>1. SameFiles /\ ~Idle(p) /\ UNCHANGED <<mem, kept, keptDisk>>
  <2>1. CASE Rename(p) /\ p \in Tools
    BY <2>1, InnerRename
  <2>2. CASE OpenTemp(p)
    BY <2>2, OpenKeepsFile DEF OpenTemp, At, Idle, ghosts
  <2>3. CASE Write(p) \/ Sync(p)
    BY <2>3, WriteKeepsFile DEF Write, Sync, At, Idle, ghosts
  <2>. QED
    BY <2>1, <2>2, <2>3
<1>2. /\ save'[p].at # "idle"
      /\ save'[p].new = save[p].new /\ save'[p].drop = save[p].drop
      /\ \A q \in Procs \ {p} : save'[q] = save[q]
  <2>1. CASE Rename(p) /\ p \in Tools
    BY <2>1, InnerRename
  <2>2. CASE OpenTemp(p)
    <3>1. PICK i : save' = [save EXCEPT ![p].at = "write", ![p].ino = i]
      BY <2>2 DEF OpenTemp
    <3>. QED
      BY <3>1 DEF TypeInv, TypeOK
  <2>3. CASE Write(p)
    <3>1. save' = [save EXCEPT ![p].at = "sync"]
      BY <2>3 DEF Write
    <3>. QED
      BY <3>1 DEF TypeInv, TypeOK
  <2>4. CASE Sync(p)
    <3>1. save' = [save EXCEPT ![p].at = "rename"]
      BY <2>4 DEF Sync
    <3>. QED
      BY <3>1 DEF TypeInv, TypeOK
  <2>. QED
    BY <2>1, <2>2, <2>3, <2>4
<1>3. Carries(p)'
  BY <1>1, <1>2 DEF KeysInv, Carries, Idle, Support, SameFiles
<1>4. ASSUME NEW q \in Procs
      PROVE  Carries(q)'
  BY <1>1, <1>2, <1>3, <1>4, OthersCarry DEF SameFiles
<1>. QED
  BY <1>1, <1>4, FilesHave DEF KeysInv

(* The file of a completed save has what was promised before and what the   *)
(* save adds, but what it was meant to remove.                              *)
LEMMA FinishKeepsKeys ==
  ASSUME TypeInv, FileInv, Solo, KeysInv, NEW p \in Procs,
         (Rename(p) /\ p \notin Tools) \/ (Move(p) /\ p \in Tools)
  PROVE  KeysInv'
<1>0. OneSaver
  BY SoloSaver
<1>1. /\ Finishes(p) /\ ~Idle(p) /\ dir'["path"] # NoInode
      /\ data'[dir'["path"]] = save[p].new /\ save[p].new \in Keystore
      /\ disk' = disk /\ (disk # NoInode => data'[disk] = data[disk])
  BY <1>0, LastRename
<1>2. kept' = Support(save[p].new.keys) /\ keptDisk' = keptDisk
  <2>1. kept \ save[p].drop \subseteq Support(save[p].new.keys)
    BY <1>1 DEF KeysInv, Carries
  <2>. QED
    BY <1>1, <2>1 DEF Finishes
<1>3. \A q \in Procs : save'[q].at = "idle"
  BY <1>0, <1>1, Alone DEF Finishes, TypeInv, TypeOK, NotSaving, Idle
<1>4. ASSUME NEW q \in Procs, mem'[q].pin # NoPin
      PROVE  q = p /\ p \in Libs /\ mem'[p] = mem[p]
  <2>1. mem' = IF p \in Tools THEN [mem EXCEPT ![p] = NoMem] ELSE mem
    BY <1>1 DEF Finishes
  <2>2. CASE q # p
    BY <1>1, <1>4, <2>1, <2>2 DEF Solo, Uses, TypeInv, TypeOK
  <2>3. CASE q = p /\ p \in Tools
    BY <1>4, <2>1, <2>3 DEF TypeInv, TypeOK, NoMem
  <2>. QED
    BY <2>1, <2>2, <2>3 DEF Procs
<1>5. ASSUME NEW q \in Procs
      PROVE  Carries(q)'
  <2>1. CASE mem'[q].pin = NoPin
    BY <1>3, <2>1 DEF Carries, Idle
  <2>2. CASE mem'[q].pin # NoPin
    <3>1. q = p /\ save[p].new.keys = mem'[p].keys
      BY <1>1, <1>4, <2>2 DEF KeysInv, Carries
    <3>2. kept' \subseteq Support(mem'[q].keys)
      BY <1>2, <3>1
    <3>. QED
      BY <1>1, <1>3, <3>2 DEF Carries, Idle, Support
  <2>. QED
    BY <2>1, <2>2
<1>6. Has(dir["path"], kept)' /\ Has(disk, keptDisk)'
  BY <1>1, <1>2 DEF KeysInv, Has, Support
<1>. QED
  BY <1>5, <1>6 DEF KeysInv

LEMMA FailureKeepsKeys ==
  ASSUME TypeInv, FileInv, OneSaver, KeysInv, NEW p \in Procs, SaveFails(p)
  PROVE  KeysInv'
<1>1. /\ SameFiles /\ ~Idle(p) /\ UNCHANGED <<kept, keptDisk>>
      /\ save' = [save EXCEPT ![p] = NotSaving]
      /\ mem' = IF p \in Tools THEN [mem EXCEPT ![p] = NoMem] ELSE mem
  BY FailureKeepsFile DEF SaveFails, ghosts
<1>2. /\ save'[p].at = "idle" /\ \A q \in Procs \ {p} : save'[q] = save[q]
      /\ mem'[p] = (IF p \in Tools THEN NoMem ELSE mem[p])
      /\ \A q \in Procs \ {p} : mem'[q] = mem[q]
  BY <1>1 DEF TypeInv, TypeOK, NotSaving
<1>3. Carries(p)'
  <2>1. CASE p \in Tools
    BY <1>2, <2>1 DEF Carries, Idle, NoMem
  <2>2. CASE p \in Libs
    <3>1. p \notin Tools
      BY <2>2, KeystoreFileAssumption
    <3>2. mem[p].pin # NoPin => kept \subseteq Support(mem[p].keys)
      BY <1>1, <2>2 DEF KeysInv, Carries
    <3>. QED
      BY <1>1, <1>2, <3>1, <3>2 DEF KeysInv, Carries, Idle, Support, SameFiles
  <2>. QED
    BY <2>1, <2>2 DEF Procs
<1>4. ASSUME NEW q \in Procs
      PROVE  Carries(q)'
  BY <1>1, <1>2, <1>3, <1>4, OthersCarry DEF SameFiles
<1>. QED
  BY <1>1, <1>4, FilesHave DEF KeysInv

LEMMA WorldKeepsKeys ==
  ASSUME TypeInv, FileInv, OneSaver, KeysInv,
         (\E p \in Procs : Kill(p)) \/ Journal \/ PowerLoss
  PROVE  KeysInv'
<1>1. ASSUME NEW p \in Procs, Kill(p)
      PROVE  KeysInv'
  <2>1. SameFiles /\ UNCHANGED <<kept, keptDisk>>
    BY <1>1, KillKeepsFile DEF Kill, ghosts
  <2>2. /\ save'[p].at = "idle" /\ mem'[p].pin = NoPin
        /\ \A q \in Procs \ {p} : save'[q] = save[q] /\ mem'[q] = mem[q]
    BY <1>1 DEF Kill, TypeInv, TypeOK, NotSaving, NoMem
  <2>3. ASSUME NEW q \in Procs
        PROVE  Carries(q)'
    <3>1. Carries(p)'
      BY <2>2 DEF Carries, Idle
    <3>. QED
      BY <2>1, <2>2, <2>3, <3>1, OthersCarry DEF SameFiles
  <2>. QED
    BY <2>1, <2>3, FilesHave DEF KeysInv
<1>2. CASE Journal
  <2>1. /\ dir' = dir /\ disk' = dir["path"] /\ keptDisk' = kept
        /\ dir["path"] # NoInode => data'[dir["path"]] = data[dir["path"]]
        /\ UNCHANGED <<mem, save, kept>>
    BY <1>2, JournalKeepsFile DEF Journal, Names
  <2>2. Has(dir["path"], kept)' /\ Has(disk, keptDisk)'
    BY <2>1 DEF KeysInv, Has, Support
  <2>3. \A q \in Procs : Carries(q)'
    BY <2>1, OthersCarry
  <2>. QED
    BY <2>2, <2>3 DEF KeysInv
<1>3. CASE PowerLoss
  <2>1. Has(dir["path"], kept)' /\ Has(disk, keptDisk)'
    BY <1>3, PowerKeepsFile DEF KeysInv, Has, Support
  <2>2. \A q \in Procs : Carries(q)'
    BY <1>3, PowerKeepsFile DEF Carries, Idle, NotSaving, NoMem
  <2>. QED
    BY <2>1, <2>2 DEF KeysInv
<1>. QED
  BY <1>1, <1>2, <1>3

LEMMA KeysInit == Init => KeysInv
<1>. SUFFICES ASSUME Init PROVE KeysInv
  OBVIOUS
<1>1. \A p \in Procs : save[p] = NotSaving /\ mem[p] = NoMem
  BY DEF Init
<1>2. \A p \in Procs : Carries(p)
  BY <1>1 DEF Carries, Idle, NotSaving, NoMem
<1>3. kept = {} /\ keptDisk = {}
  BY DEF Init
<1>. QED
  BY <1>2, <1>3 DEF KeysInv, Has

LEMMA KeysNext ==
  ASSUME Exclusive, "read" \notin Faults
  PROVE  TypeInv /\ FileInv /\ Solo /\ KeysInv /\ [Next]_vars => KeysInv'
<1>. SUFFICES ASSUME TypeInv, FileInv, Solo, KeysInv, [Next]_vars PROVE KeysInv'
  OBVIOUS
<1>. OneSaver
  BY SoloSaver
<1>1. CASE UNCHANGED vars
  BY <1>1 DEF vars, KeysInv, Has, Carries, Idle, Support
<1>2. ASSUME NEW p \in Procs, SaveStep(p) \/ (p \in Tools /\ Move(p))
      PROVE  KeysInv'
  BY <1>2, SaveKeepsKeys, FinishKeepsKeys, FailureKeepsKeys DEF SaveStep
<1>. QED
  BY <1>1, <1>2, LibKeepsKeys, ToolKeepsKeys, WorldKeepsKeys DEF Next, Procs

(* No key of a completed save is lost while the file has one user at a time *)
(* and C_InitPIN takes no failing read for a missing file, whichever        *)
(* program saves (soft_slot_save, the tool's commands), and whatever        *)
(* crashes or fails between.                                                *)
THEOREM KeysNotLost ==
  ASSUME Exclusive, "read" \notin Faults
  PROVE  Spec => []NoLostKeys
<1>1. TypeInv /\ FileInv /\ KeysInv => NoLostKeys
  BY KeystoreFileAssumption
     DEF FileInv, KeysInv, Has, Done, NoLostKeys, File, Whole
<1>. QED
  BY <1>1, TypeInit, TypeNext, SoloInit, SoloNext, SoloSaver, FileInit, FileNext,
     KeysInit, KeysNext, PTL DEF Spec
=============================================================================
