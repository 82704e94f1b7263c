--------------------------- MODULE RestoreFilesProofs ---------------------------
(***************************************************************************)
(* Proofs about RestoreFiles: the five properties its run checks, for any  *)
(* number of replacements, writes, faults and vaults.                      *)
(*                                                                         *)
(* What makes them inductive is, for every phase of a replacement and      *)
(* every point a crash can leave behind, which of the names has which      *)
(* vault; and for the write in flight, whether the file it writes to is    *)
(* still the current one and what its commit may put there.                *)
(***************************************************************************)
EXTENDS RestoreFiles, TLAPS

-------------------------------------------------------------------------------
(* The invariant.                                                          *)

\* What a database may hold, and what a name may refer to.
Contents == [vault : Nat, schema : BOOLEAN, counter : Nat, flushed : Nat, born : Nat]
Refs == {0} \cup Inodes

\* What is under the database's name, or will be if a restore is undone.
Cur == IF files["db"] # 0 THEN files["db"] ELSE files["recovery"]

\* The phases in which the store is closed.
ClosedPcs == {"candidate", "aside", "install", "reopen", "remove", "removeRecovery", "removeFailed",
           "migrate"}
\* The phases of a restore and of a destruction.
RestorePcs == {"close", "candidate", "aside", "install", "reopen", "migrate", "reset"}
DestroyPcs == {"close", "remove", "removeRecovery", "removeFailed", "migrate", "reset"}

\* Every phase.
Pcs == {"idle"} \cup RestorePcs \cup DestroyPcs

\* The types of the variables.
FileTypes ==
    /\ disk \in [Inodes -> Contents]
    /\ files \in [Names -> Refs] /\ inodes \in Inodes
    /\ proc \in {"down", "up", "stopping"} /\ handle \in Refs
    /\ container \in Contents /\ waiting \in Contents

ServiceTypes == svc \in [loaded : Nat, unlocked : BOOLEAN, mark : Nat]

AdminTypes ==
    admin \in [pc : Pcs, op : {"none", "restore", "destroy"}, snapshot : Contents]

WriterTypes ==
    writer \in [pc : {"idle", "begin", "tx", "note"}, ino : Refs, detached : BOOLEAN,
                vault : Nat, stamped : Nat]

UsedTypes == used \in [replacements : Nat, writes : Nat, faults : Nat, vaults : Nat]

HistTypes ==
    hist \in [vault : Nat, prev : Refs, acked : [Inodes -> Nat], lost : SUBSET Inodes,
              gone : SUBSET Nat, cut : BOOLEAN, failed : BOOLEAN, late : BOOLEAN,
              leftover : BOOLEAN, revived : BOOLEAN, clobbered : BOOLEAN]

Types ==
    FileTypes /\ ServiceTypes /\ AdminTypes /\ WriterTypes /\ UsedTypes /\ HistTypes

\* Inodes the replacement in progress may still allocate, of the two it is good for.
Pend ==
    IF admin.pc = "candidate" \/ (admin.pc = "close" /\ admin.op = "restore") THEN 2
    ELSE IF admin.pc \in {"close", "aside", "remove"} THEN 1
    ELSE 0

\* Every replacement allocates two inodes at most, so that the next one exists; those
\* not allocated are blank and nothing refers to them.
Allocated ==
    /\ used.replacements <= MaxReplacements
    /\ inodes + (IF files["db"] = 0 THEN 1 ELSE 0) + Pend <= 1 + 2 * used.replacements
    /\ \A n \in Names : files[n] <= inodes
    /\ handle <= inodes /\ writer.ino <= inodes /\ hist.prev <= inodes
    /\ \A i \in Inodes : i > inodes => disk[i] = Blank /\ hist.acked[i] = 1 /\ i \notin hist.lost

\* A vault row is in a table and was written by a stamped commit.
Sound(c) == c.vault # 0 => c.schema /\ c.counter >= 1 /\ c.born >= 1

\* What the files and the snapshots hold: acknowledged writes are there unless their
\* log was lost, and a snapshot has no log.
ContentsOK ==
    /\ \A i \in Inodes : Sound(disk[i]) /\ disk[i].flushed <= disk[i].counter
    /\ \A i \in Inodes :
         disk[i].vault # 0 => disk[i].counter >= hist.acked[i] \/ i \in hist.lost
    /\ \A c \in {container, waiting, admin.snapshot} :
         Sound(c) /\ c.born <= c.flushed /\ c.flushed <= c.counter
    /\ waiting # Blank => waiting.vault # 0

\* The phase tells whether the store is open, and on what.
PhaseOK ==
    /\ admin.op = "none" => admin.pc = "idle"
    /\ admin.op = "restore" => admin.pc \in RestorePcs /\ admin.snapshot.vault # 0
    /\ admin.op = "destroy" => admin.pc \in DestroyPcs /\ admin.snapshot.vault = 0
    /\ admin.pc \in ClosedPcs => handle = 0
    /\ admin.pc = "reset" => handle # 0
    /\ handle # 0 => handle = files["db"] /\ Running
    /\ ~Running => /\ admin = NoReplacement /\ writer = NoWrite /\ svc = LockedOut
                   /\ waiting = Blank
    /\ StoreOpenBetween

\* Three names, three files; what each has in the phases that move them.
FilesOK ==
    /\ files["db"] # 0 => files["db"] \notin {files["recovery"], files["tmp"]}
    /\ files["recovery"] # 0 => files["recovery"] # files["tmp"]
    /\ admin.pc \in {"aside", "install"} =>
        files["tmp"] # 0 /\ disk[files["tmp"]].vault = admin.snapshot.vault
    /\ admin.op = "restore" /\ admin.pc \in {"migrate", "reset"} =>
        /\ files["db"] # 0
        /\ disk[files["db"]].vault = admin.snapshot.vault /\ hist.vault = admin.snapshot.vault
        /\ ~(writer.detached /\ writer.ino = files["db"])
    /\ admin.op = "destroy" =>
        /\ admin.pc \in {"removeRecovery", "removeFailed", "migrate"} => hist.vault = 0
        /\ admin.pc \in {"removeRecovery", "migrate"} => files["db"] = 0
        /\ admin.pc \in {"migrate", "reset"} => files["recovery"] = 0

\* The write in flight: its file is no candidate, once its log is removed that file is
\* lost, and the vault row it may bring back is the one the file has, unless that row
\* went with the log.
WriterOK ==
    /\ writer.pc \in {"idle", "begin"} => ~writer.detached
    /\ writer.pc \in {"tx", "note"} => writer.ino # 0
    /\ writer.ino # 0 => writer.ino # files["tmp"]
    /\ writer.detached => writer.ino \in hist.lost
    /\ writer.detached /\ writer.pc = "tx" =>
        /\ disk[writer.ino].counter <= writer.stamped + 1
        /\ disk[writer.ino].vault = 0 => disk[writer.ino].counter <= writer.stamped
    /\ writer.pc = "note" => writer.ino \in hist.lost \/ writer.stamped <= disk[writer.ino].counter
    /\ writer.vault # 0 =>
        /\ writer.detached /\ writer.ino # 0
        /\ disk[writer.ino].schema /\ disk[writer.ino].born >= 1
        /\ writer.ino \in {files["db"], files["recovery"]} =>
             disk[writer.ino].vault = writer.vault \/ hist.clobbered

\* Where the vault is: under the database's name, or set aside by a restore that is
\* between its renames or stopped there.
Kept ==
    hist.vault # 0 /\ ~hist.clobbered =>
        /\ \/ Holds("db", hist.vault)
           \/ /\ Holds("recovery", hist.vault)
              /\ hist.cut \/ (admin.pc = "install" /\ files["db"] = 0)
              /\ files["db"] = 0 \/ disk[files["db"]].vault = 0
        /\ hist.prev # 0 /\ hist.prev \in {files["db"], files["recovery"]}
        /\ disk[hist.prev].vault # 0
        /\ admin.pc \notin {"migrate", "reset"} /\ ~hist.failed => svc.loaded \in {0, hist.vault}

\* Nothing has, or can bring back, a vault that was destroyed.
Destroyed ==
    /\ \A v \in hist.gone : 1 <= v /\ v <= used.vaults
    /\ admin.snapshot.vault \in hist.gone => hist.revived
    /\ files["tmp"] # 0 => admin.pc \in {"aside", "install"} \/ hist.leftover
    /\ files["db"] # 0 /\ disk[files["db"]].vault \in hist.gone => hist.revived
    /\ files["recovery"] # 0 /\ disk[files["recovery"]].vault \in hist.gone => hist.revived
    /\ writer.vault \in hist.gone /\ writer.ino \in {files["db"], files["recovery"]} => hist.revived

\* The mark is of the file that is current: nothing was forgotten, lost or left
\* undone that may part them.
Comparable ==
    /\ Cur # 0 /\ disk[Cur].schema /\ svc.loaded \in {0, disk[Cur].vault}
    /\ Cur \notin hist.lost /\ ~hist.late /\ ~hist.failed
    /\ admin.pc \notin {"migrate", "reset", "removeRecovery", "removeFailed"}

\* Then the mark is not ahead of the counter, and no write will put it there.
MarkOK ==
    Comparable =>
        /\ svc.mark <= disk[Cur].counter
        /\ writer.pc \in {"tx", "note"} => writer.ino = Cur

\* The inductive invariant.
IInv ==
    /\ Types /\ Allocated /\ ContentsOK /\ PhaseOK /\ FilesOK /\ WriterOK
    /\ Kept /\ Destroyed /\ MarkOK

-------------------------------------------------------------------------------
(* Steps that several actions share.                                       *)

\* An inode in use is one of Inodes.
LEMMA Numbers ==
    /\ MaxInodes \in Nat /\ Inodes \subseteq Nat /\ 0 \notin Inodes /\ 1 \in Inodes
    /\ Refs \subseteq Nat
    /\ \A r \in Refs : r # 0 => r \in Inodes
    /\ \A i \in Inodes : i <= MaxInodes
    /\ \A i \in Nat : i # 0 /\ i <= MaxInodes => i \in Inodes
BY RestoreFilesAssumption DEF MaxInodes, Inodes, Refs

\* So is every inode that something refers to.
LEMMA Referred ==
    ASSUME Types
    PROVE  /\ files["db"] \in Refs /\ files["recovery"] \in Refs /\ files["tmp"] \in Refs
           /\ Cur \in Refs
           /\ files["db"] # 0 => files["db"] \in Inodes
           /\ files["recovery"] # 0 => files["recovery"] \in Inodes
           /\ files["tmp"] # 0 => files["tmp"] \in Inodes
           /\ Cur # 0 => Cur \in Inodes
           /\ writer.ino # 0 => writer.ino \in Inodes
           /\ hist.prev # 0 => hist.prev \in Inodes
           /\ handle # 0 => handle \in Inodes
BY Numbers DEF Types, FileTypes, WriterTypes, HistTypes, Names, Cur

\* Blank and NoReplacement have their types.
LEMMA Constants ==
    /\ Blank \in Contents /\ Blank.vault = 0 /\ Blank.born = 0 /\ Blank.flushed = 0
    /\ Blank.counter = 0 /\ ~Blank.schema
BY DEF Blank, Content, Contents

\* A fault counts, and nothing else.
LEMMA FaultUsed ==
    ASSUME UsedTypes, Fault
    PROVE  /\ UsedTypes' /\ used'.replacements = used.replacements
           /\ used'.vaults = used.vaults
BY DEF UsedTypes, Fault, Use

\* The counters of the bounds.
LEMMA WriteUsed ==
    ASSUME UsedTypes, Use("writes")
    PROVE  /\ UsedTypes' /\ used'.replacements = used.replacements
           /\ used'.vaults = used.vaults
BY DEF UsedTypes, Use

LEMMA ReplacementUsed ==
    ASSUME UsedTypes, Use("replacements")
    PROVE  /\ UsedTypes' /\ used'.replacements = used.replacements + 1
           /\ used'.vaults = used.vaults
BY DEF UsedTypes, Use

LEMMA VaultUsed ==
    ASSUME UsedTypes, Use("vaults")
    PROVE  /\ UsedTypes' /\ used'.replacements = used.replacements
           /\ used'.vaults = used.vaults + 1
BY DEF UsedTypes, Use

\* The next phase of the same replacement.
LEMMA Went ==
    ASSUME AdminTypes, NEW pc \in Pcs, Goto(pc)
    PROVE  /\ AdminTypes' /\ admin'.pc = pc /\ admin'.op = admin.op
           /\ admin'.snapshot = admin.snapshot
BY DEF AdminTypes, Goto

\* Nothing replaces the database.
LEMMA NoAdmin ==
    /\ NoReplacement.pc = "idle" /\ NoReplacement.op = "none" /\ NoReplacement.snapshot = Blank
    /\ admin' = NoReplacement => AdminTypes'
BY Constants DEF NoReplacement, AdminTypes, Pcs

\* A replacement that failed with the store closed.
LEMMA GaveUp ==
    ASSUME HistTypes, GiveUp
    PROVE  /\ AdminTypes' /\ admin' = NoReplacement
           /\ HistTypes' /\ hist'.failed
           /\ hist'.vault = hist.vault /\ hist'.prev = hist.prev /\ hist'.acked = hist.acked
           /\ hist'.lost = hist.lost /\ hist'.gone = hist.gone /\ hist'.cut = hist.cut
           /\ hist'.late = hist.late /\ hist'.leftover = hist.leftover
           /\ hist'.revived = hist.revived /\ hist'.clobbered = hist.clobbered
<1>1. hist' = [hist EXCEPT !.failed = TRUE] /\ admin' = NoReplacement
  BY DEF GiveUp
<1> QED
  BY <1>1, NoAdmin DEF HistTypes

\* The database is the one there was, or a new and empty file.
LEMMA Opened ==
    ASSUME Types, Allocated, NEW o, o = OpenDB(disk, files, inodes)
    PROVE  /\ o.disk = disk /\ o.files \in [Names -> Refs] /\ o.inodes \in Inodes
           /\ o.files["recovery"] = files["recovery"] /\ o.files["tmp"] = files["tmp"]
           /\ o.files["db"] \in Inodes
           /\ files["db"] # 0 => o.files = files /\ o.inodes = inodes
           /\ files["db"] = 0 =>
                /\ o.files["db"] = inodes + 1 /\ o.inodes = inodes + 1
                /\ disk[inodes + 1] = Blank
<1>1. inodes + 1 \in Nat /\ inodes + 1 # 0
  BY Numbers DEF Types, FileTypes
<1>2. ASSUME files["db"] = 0
      PROVE  inodes + 1 \in Inodes
  BY <1>1, <1>2, Numbers, RestoreFilesAssumption
     DEF Allocated, Pend, MaxInodes, Types, FileTypes, UsedTypes, Inodes
<1>3. CASE files["db"] = 0
  BY <1>1, <1>2, <1>3, Numbers DEF OpenDB, Types, FileTypes, Names, Refs, Allocated
<1>4. CASE files["db"] # 0
  BY <1>4, Numbers DEF OpenDB, Types, FileTypes, Names
<1> QED
  BY <1>3, <1>4

\* sqlite.Migrate leaves what a database holds alone.
LEMMA Migrated ==
    ASSUME FileTypes, NEW i \in Inodes, disk' = Migrate(disk, i)
    PROVE  /\ disk' \in [Inodes -> Contents] /\ disk'[i].schema
           /\ \A j \in Inodes :
                /\ disk'[j].vault = disk[j].vault /\ disk'[j].counter = disk[j].counter
                /\ disk'[j].flushed = disk[j].flushed /\ disk'[j].born = disk[j].born
                /\ disk'[j].schema = disk[j].schema \/ disk'[j].schema
                /\ j # i => disk'[j] = disk[j]
<1>1. disk[i] \in Contents
  BY DEF FileTypes
<1> DEFINE m == [disk[i] EXCEPT !.schema = TRUE]
<1>2. /\ m \in Contents /\ m.vault = disk[i].vault /\ m.counter = disk[i].counter
      /\ m.flushed = disk[i].flushed /\ m.born = disk[i].born /\ m.schema
  BY <1>1 DEF Contents
<1>3. disk' = [disk EXCEPT ![i] = m]
  BY DEF Migrate
<1> HIDE DEF m
<1> QED
  BY <1>2, <1>3 DEF FileTypes

\* Removing the log under a transaction loses what only the log held; otherwise it
\* changes nothing.
LEMMA Unlinked ==
    ASSUME IInv, NEW i \in Refs, i = files["db"], Unlink(i)
    PROVE  /\ disk' \in [Inodes -> Contents] /\ WriterTypes' /\ LogLost(i) \subseteq Inodes
           /\ \A j \in Inodes :
                /\ disk'[j].schema = disk[j].schema /\ disk'[j].born = disk[j].born
                /\ disk'[j].flushed >= disk[j].flushed /\ disk'[j].flushed <= disk'[j].counter
                /\ disk'[j].counter <= disk[j].counter
                /\ j \notin LogLost(i) => disk'[j] = disk[j]
                /\ disk'[j].vault = disk[j].vault \/ disk'[j].vault = 0
                /\ disk'[j].vault # 0 /\ disk'[j] # disk[j] => disk'[j].counter >= disk[j].born
                /\ disk'[j].vault # disk[j].vault => disk[j].born > disk[j].flushed
           /\ writer'.pc = writer.pc /\ writer'.ino = writer.ino
           /\ \/ LogLost(i) = {} /\ writer' = writer /\ disk' = disk
              \/ /\ LogLost(i) = {i} /\ i # 0 /\ writer.pc = "tx" /\ writer.ino = i
                 /\ writer.vault = 0 /\ writer'.detached /\ writer'.vault = disk[i].vault
                 /\ writer'.stamped = disk[i].counter
<1>1. \A j \in Inodes : disk[j] \in Contents /\ disk[j].flushed <= disk[j].counter
  BY DEF IInv, Types, FileTypes, ContentsOK
<1>2. CASE LogLost(i) = {}
  <2>1. disk' = disk /\ writer' = writer
    BY <1>2 DEF Unlink
  <2> QED
    BY <2>1, <1>1, <1>2 DEF IInv, Types, FileTypes, WriterTypes, Contents
<1>3. CASE LogLost(i) # {}
  <2>1. /\ LogLost(i) = {i} /\ i \in Inodes /\ writer.pc = "tx" /\ writer.ino = i
        /\ ~writer.detached
    BY <1>3, Numbers DEF LogLost, InFlight
  <2>2. writer.vault = 0
    BY <2>1 DEF IInv, WriterOK
  <2>3. PICK c \in disk[i].flushed..disk[i].counter :
           disk' = [disk EXCEPT ![i].counter = c, ![i].flushed = c,
                                ![i].vault = IF c < disk[i].born THEN 0 ELSE @]
    BY <1>3 DEF Unlink
  <2> DEFINE m == [disk[i] EXCEPT !.counter = c, !.flushed = c,
                                  !.vault = IF c < disk[i].born THEN 0 ELSE @]
  <2>4. /\ disk[i] \in Contents /\ c \in Nat /\ disk[i].flushed <= c /\ c <= disk[i].counter
    BY <1>1, <2>1, <2>3 DEF Contents
  <2>5. /\ m \in Contents /\ m.counter = c /\ m.flushed = c /\ m.born = disk[i].born
        /\ m.schema = disk[i].schema
        /\ m.vault = IF c < disk[i].born THEN 0 ELSE disk[i].vault
    BY <2>4 DEF Contents
  <2>6. disk' = [disk EXCEPT ![i] = m]
    BY <2>1, <2>3
  <2> HIDE DEF m
  <2>7. /\ disk' \in [Inodes -> Contents] /\ disk'[i] = m
        /\ \A j \in Inodes : j # i => disk'[j] = disk[j]
    BY <2>1, <2>5, <2>6 DEF IInv, Types, FileTypes
  <2>8. writer' = [writer EXCEPT !.detached = TRUE, !.vault = disk[i].vault,
                                 !.stamped = disk[i].counter]
    BY <1>3 DEF Unlink
  <2>9. /\ WriterTypes' /\ writer'.pc = writer.pc /\ writer'.ino = writer.ino
        /\ writer'.detached /\ writer'.vault = disk[i].vault
        /\ writer'.stamped = disk[i].counter
    BY <2>4, <2>8 DEF IInv, Types, WriterTypes, Contents
  <2>10. \A j \in Inodes :
           /\ disk'[j].schema = disk[j].schema /\ disk'[j].born = disk[j].born
           /\ disk'[j].flushed >= disk[j].flushed /\ disk'[j].flushed <= disk'[j].counter
           /\ disk'[j].counter <= disk[j].counter
           /\ disk'[j].vault = disk[j].vault \/ disk'[j].vault = 0
           /\ disk'[j].vault # 0 /\ disk'[j] # disk[j] => disk'[j].counter >= disk[j].born
           /\ disk'[j].vault # disk[j].vault => disk[j].born > disk[j].flushed
    <3>1. ASSUME NEW j \in Inodes, j # i
          PROVE  disk'[j] = disk[j]
      BY <3>1, <2>7
    <3> QED
      BY <3>1, <1>1, <2>1, <2>4, <2>5, <2>7 DEF Contents
  <2> QED
    BY <2>1, <2>2, <2>7, <2>9, <2>10, Numbers
<1> QED
  BY <1>2, <1>3

\* An unlock: the mark becomes the counter of the file, or the alarm is raised.
LEMMA UnlockStep == IInv /\ Unlock => IInv'
<1> SUFFICES ASSUME IInv, Unlock PROVE IInv'
  OBVIOUS
<1>1. /\ handle \in Inodes /\ handle = files["db"] /\ Cur = handle /\ admin.pc \notin ClosedPcs
      /\ Running /\ disk[handle].vault # 0 /\ disk[handle].vault = Loaded
      /\ svc.loaded \in {0, disk[handle].vault}
      /\ svc.loaded = 0 => disk[handle].schema
  BY Numbers DEF IInv, Unlock, Serving, Loaded, Served, Types, FileTypes, ServiceTypes, Cur,
     PhaseOK, Running
<1>2. disk[handle].vault \in Nat /\ disk[handle].counter \in Nat
  BY <1>1 DEF IInv, Types, FileTypes, Contents
<1>3. /\ svc' \in [loaded : Nat, unlocked : BOOLEAN, mark : Nat]
      /\ svc'.loaded = disk[handle].vault
      /\ svc'.mark = svc.mark \/ svc'.mark = disk[handle].counter
  <2>1. CASE disk[handle].counter < svc.mark
    BY <2>1, <1>1, <1>2 DEF IInv, Unlock, Served, Types, ServiceTypes
  <2>2. CASE ~(disk[handle].counter < svc.mark)
    <3>1. svc' = [loaded |-> Loaded, unlocked |-> TRUE, mark |-> disk[handle].counter]
      BY <2>2 DEF IInv, Unlock, Served
    <3> QED
      BY <3>1, <1>1, <1>2
  <2> QED
    BY <2>1, <2>2
<1>4. UNCHANGED <<disk, files, inodes, proc, handle, container, waiting, admin, writer, used, hist>>
  BY DEF Unlock
<1>5. FileTypes'
  BY <1>1, <1>2, <1>3, <1>4 DEF FileTypes, IInv, Types
<1>6. ServiceTypes'
  BY <1>3 DEF ServiceTypes
<1>7. AdminTypes'
  BY <1>1, <1>2, <1>3, <1>4 DEF AdminTypes, IInv, Types
<1>8. WriterTypes'
  BY <1>1, <1>2, <1>3, <1>4 DEF WriterTypes, IInv, Types
<1>9. UsedTypes'
  BY <1>1, <1>2, <1>3, <1>4 DEF UsedTypes, IInv, Types
<1>10. HistTypes'
  BY <1>1, <1>2, <1>3, <1>4 DEF HistTypes, IInv, Types
<1>11. Allocated'
  BY <1>1, <1>2, <1>3, <1>4 DEF Allocated, Pend, IInv, Types
<1>12. ContentsOK'
  BY <1>1, <1>2, <1>3, <1>4 DEF ContentsOK, Sound, IInv, Types
<1>13. PhaseOK'
  BY <1>1, <1>2, <1>3, <1>4 DEF PhaseOK, StoreOpenBetween, Running, ClosedPcs,
     RestorePcs, DestroyPcs, IInv, NoReplacement
<1>14. FilesOK'
  BY <1>1, <1>2, <1>3, <1>4 DEF FilesOK, IInv, Types
<1>15. WriterOK'
  BY <1>1, <1>2, <1>3, <1>4 DEF WriterOK, Cur, IInv, Types
<1>16. Kept'
  <2>1. hist.vault # 0 /\ ~hist.clobbered => disk[handle].vault = hist.vault
    BY <1>1, Numbers DEF IInv, Kept, Holds
  <2> QED
    BY <2>1, <1>3, <1>4 DEF IInv, Kept, Holds
<1>17. Destroyed'
  BY <1>1, <1>2, <1>3, <1>4 DEF Destroyed, IInv, Types
<1>18. MarkOK'
  <2>1. svc.mark \in Nat /\ svc'.mark \in Nat
    BY <1>3 DEF IInv, Types, ServiceTypes
  <2>2. Cur' = Cur /\ Cur = handle
    BY <1>1, <1>4 DEF Cur
  <2> HIDE DEF Cur
  <2>3. Comparable' => Comparable
    BY <2>2, <1>1, <1>3, <1>4 DEF Comparable
  <2> QED
    BY <2>1, <2>2, <2>3, <1>1, <1>2, <1>3, <1>4 DEF IInv, MarkOK
<1> QED
  BY <1>5, <1>6, <1>7, <1>8, <1>9, <1>10, <1>11, <1>12, <1>13, <1>14, <1>15, <1>16,
     <1>17, <1>18 DEF IInv, Types

\* A backup copies what is served.
LEMMA BackupStep == IInv /\ Backup => IInv'
<1> SUFFICES ASSUME IInv, Backup PROVE IInv'
  OBVIOUS
<1>1. handle \in Inodes
  BY Numbers DEF IInv, Backup, Serving, Types, FileTypes
<1>2. /\ container' \in Contents /\ container'.vault = disk[handle].vault /\ container'.schema
      /\ container'.counter = disk[handle].counter /\ container'.born = container'.counter
      /\ container'.flushed = container'.counter
  BY <1>1 DEF IInv, Backup, Served, Content, Contents, Types, FileTypes
<1>3. UNCHANGED <<disk, files, inodes, proc, handle, svc, waiting, admin, writer, used, hist>>
  BY DEF Backup
<1>4. FileTypes'
  BY <1>2, <1>3 DEF FileTypes, IInv, Types
<1>5. ServiceTypes'
  BY <1>2, <1>3 DEF ServiceTypes, IInv, Types
<1>6. AdminTypes'
  BY <1>2, <1>3 DEF AdminTypes, IInv, Types
<1>7. WriterTypes'
  BY <1>2, <1>3 DEF WriterTypes, IInv, Types
<1>8. UsedTypes'
  BY <1>2, <1>3 DEF UsedTypes, IInv, Types
<1>9. HistTypes'
  BY <1>2, <1>3 DEF HistTypes, IInv, Types
<1>10. Allocated'
  BY <1>2, <1>3 DEF Allocated, Pend, IInv, Types
<1>11. ContentsOK'
  BY <1>1, <1>2, <1>3 DEF ContentsOK, Sound, IInv, Types, FileTypes, Contents
<1>12. PhaseOK'
  BY <1>2, <1>3 DEF PhaseOK, StoreOpenBetween, Running, ClosedPcs, RestorePcs,
     DestroyPcs, IInv, Types
<1>13. FilesOK'
  BY <1>2, <1>3 DEF FilesOK, IInv, Types
<1>14. WriterOK'
  BY <1>2, <1>3 DEF WriterOK, Cur, IInv, Types
<1>15. Kept'
  BY <1>2, <1>3 DEF Kept, Holds, IInv, Types
<1>16. Destroyed'
  BY <1>2, <1>3 DEF Destroyed, IInv, Types
<1>17. MarkOK'
  BY <1>2, <1>3 DEF MarkOK, Comparable, Cur, IInv, Types
<1> QED
  BY <1>4, <1>5, <1>6, <1>7, <1>8, <1>9, <1>10, <1>11, <1>12, <1>13, <1>14, <1>15, <1>16,
     <1>17 DEF IInv, Types

\* A write is handed its keys.
LEMMA WriteKeysStep == IInv /\ WriteKeys => IInv'
<1> SUFFICES ASSUME IInv, WriteKeys PROVE IInv'
  OBVIOUS
<1>1. Running /\ svc.unlocked /\ writer.pc = "idle" /\ writer' = [NoWrite EXCEPT !.pc = "begin"]
  BY DEF WriteKeys
<1>2. /\ writer'.pc = "begin" /\ writer'.ino = 0 /\ ~writer'.detached /\ writer'.vault = 0
      /\ writer' \in [pc : {"idle", "begin", "tx", "note"}, ino : Refs, detached : BOOLEAN,
                      vault : Nat, stamped : Nat]
  BY <1>1 DEF NoWrite, Refs
<1>3. /\ UsedTypes' /\ used'.replacements = used.replacements /\ used'.vaults = used.vaults
      /\ UNCHANGED <<disk, files, inodes, proc, handle, svc, container, waiting, admin, hist>>
  BY WriteUsed DEF IInv, Types, WriteKeys
<1>4. FileTypes'
  BY <1>1, <1>2, <1>3 DEF FileTypes, IInv, Types
<1>5. ServiceTypes'
  BY <1>1, <1>2, <1>3 DEF ServiceTypes, IInv, Types
<1>6. AdminTypes'
  BY <1>1, <1>2, <1>3 DEF AdminTypes, IInv, Types
<1>7. WriterTypes'
  BY <1>1, <1>2, <1>3 DEF WriterTypes, IInv, Types
<1>8. UsedTypes'
  BY <1>1, <1>2, <1>3 DEF UsedTypes, IInv, Types
<1>9. HistTypes'
  BY <1>1, <1>2, <1>3 DEF HistTypes, IInv, Types
<1>10. Allocated'
  BY <1>2, <1>3, Numbers DEF Allocated, Pend, IInv, Types, FileTypes
<1>11. ContentsOK'
  BY <1>1, <1>2, <1>3 DEF ContentsOK, Sound, IInv, Types
<1>12. PhaseOK'
  BY <1>1, <1>2, <1>3 DEF PhaseOK, StoreOpenBetween, Running, ClosedPcs, RestorePcs,
     DestroyPcs, IInv, Types
<1>13. FilesOK'
  BY <1>1, <1>2, <1>3 DEF FilesOK, IInv, Types
<1>14. WriterOK'
  BY <1>1, <1>2, <1>3 DEF WriterOK, Cur, IInv, Types
<1>15. Kept'
  BY <1>1, <1>2, <1>3 DEF Kept, Holds, IInv, Types
<1>16. Destroyed'
  BY <1>1, <1>2, <1>3 DEF Destroyed, IInv, Types
<1>17. MarkOK'
  BY <1>1, <1>2, <1>3 DEF MarkOK, Comparable, Cur, IInv, Types
<1> QED
  BY <1>4, <1>5, <1>6, <1>7, <1>8, <1>9, <1>10, <1>11, <1>12, <1>13, <1>14, <1>15, <1>16,
     <1>17 DEF IInv, Types

\* A transaction begins on the file that is open.
LEMMA WriteBeginStep == IInv /\ WriteBegin => IInv'
<1> SUFFICES ASSUME IInv, WriteBegin PROVE IInv'
  OBVIOUS
<1>1. /\ handle \in Inodes /\ handle = files["db"] /\ Cur = handle /\ files["tmp"] # handle
      /\ admin.pc \notin ClosedPcs
  BY Numbers DEF IInv, WriteBegin, Types, FileTypes, Cur, PhaseOK, FilesOK
<1>2. /\ writer.pc = "begin" /\ writer'.pc = "tx" /\ writer'.ino = handle /\ ~writer'.detached
      /\ writer'.vault = 0
      /\ writer' \in [pc : {"idle", "begin", "tx", "note"}, ino : Refs, detached : BOOLEAN,
                      vault : Nat, stamped : Nat]
  BY <1>1 DEF IInv, WriteBegin, Types, WriterTypes, WriterOK, Refs
<1>3. UNCHANGED <<disk, files, inodes, proc, handle, svc, container, waiting, admin, used, hist>>
  BY DEF WriteBegin
<1>4. FileTypes'
  BY <1>1, <1>2, <1>3 DEF FileTypes, IInv, Types
<1>5. ServiceTypes'
  BY <1>1, <1>2, <1>3 DEF ServiceTypes, IInv, Types
<1>6. AdminTypes'
  BY <1>1, <1>2, <1>3 DEF AdminTypes, IInv, Types
<1>7. WriterTypes'
  BY <1>1, <1>2, <1>3 DEF WriterTypes, IInv, Types
<1>8. UsedTypes'
  BY <1>1, <1>2, <1>3 DEF UsedTypes, IInv, Types
<1>9. HistTypes'
  BY <1>1, <1>2, <1>3 DEF HistTypes, IInv, Types
<1>10. Allocated'
  BY <1>1, <1>2, <1>3 DEF Allocated, Pend, IInv, Types
<1>11. ContentsOK'
  BY <1>1, <1>2, <1>3 DEF ContentsOK, Sound, IInv, Types
<1>12. PhaseOK'
  BY <1>1, <1>2, <1>3 DEF PhaseOK, StoreOpenBetween, Running, ClosedPcs, RestorePcs,
     DestroyPcs, IInv, NoWrite
<1>13. FilesOK'
  BY <1>1, <1>2, <1>3 DEF FilesOK, IInv, Types
<1>14. WriterOK'
  BY <1>1, <1>2, <1>3, Numbers DEF IInv, WriterOK
<1>15. Kept'
  BY <1>1, <1>2, <1>3 DEF Kept, Holds, IInv, Types
<1>16. Destroyed'
  BY <1>1, <1>2, <1>3 DEF Destroyed, IInv, Types
<1>17. MarkOK'
  BY <1>1, <1>2, <1>3 DEF MarkOK, Comparable, Cur, IInv, Types
<1> QED
  BY <1>4, <1>5, <1>6, <1>7, <1>8, <1>9, <1>10, <1>11, <1>12, <1>13, <1>14, <1>15, <1>16,
     <1>17 DEF IInv, Types

\* A write notes the counter it has committed.
LEMMA WriteNoteStep == IInv /\ WriteNote => IInv'
<1> SUFFICES ASSUME IInv, WriteNote PROVE IInv'
  OBVIOUS
<1>1. /\ writer.pc = "note" /\ writer.ino \in Inodes
      /\ writer.ino \in hist.lost \/ writer.stamped <= disk[writer.ino].counter
  BY Numbers DEF IInv, WriteNote, WriterOK, Types, WriterTypes
<1>2. /\ svc' \in [loaded : Nat, unlocked : BOOLEAN, mark : Nat]
      /\ svc'.loaded = svc.loaded /\ svc'.unlocked = svc.unlocked
      /\ svc'.mark = svc.mark \/ svc'.mark = writer.stamped
  BY DEF IInv, WriteNote, Larger, Types, ServiceTypes, WriterTypes
<1>3. /\ writer'.pc = "idle" /\ writer'.ino = 0 /\ ~writer'.detached /\ writer'.vault = 0
      /\ writer' \in [pc : {"idle", "begin", "tx", "note"}, ino : Refs, detached : BOOLEAN,
                      vault : Nat, stamped : Nat]
  BY DEF WriteNote, NoWrite, Refs
<1>4. UNCHANGED <<disk, files, inodes, proc, handle, container, waiting, admin, used, hist>>
  BY DEF WriteNote
<1>5. FileTypes'
  BY <1>1, <1>2, <1>3, <1>4 DEF FileTypes, IInv, Types
<1>6. ServiceTypes'
  BY <1>1, <1>2, <1>3, <1>4 DEF ServiceTypes, IInv, Types
<1>7. AdminTypes'
  BY <1>1, <1>2, <1>3, <1>4 DEF AdminTypes, IInv, Types
<1>8. WriterTypes'
  BY <1>1, <1>2, <1>3, <1>4 DEF WriterTypes, IInv, Types
<1>9. UsedTypes'
  BY <1>1, <1>2, <1>3, <1>4 DEF UsedTypes, IInv, Types
<1>10. HistTypes'
  BY <1>1, <1>2, <1>3, <1>4 DEF HistTypes, IInv, Types
<1>11. Allocated'
  BY <1>3, <1>4, Numbers DEF Allocated, Pend, IInv, Types, FileTypes
<1>12. ContentsOK'
  BY <1>1, <1>2, <1>3, <1>4 DEF ContentsOK, Sound, IInv, Types
<1>13. PhaseOK'
  BY <1>1, <1>2, <1>3, <1>4 DEF PhaseOK, StoreOpenBetween, Running, ClosedPcs,
     RestorePcs, DestroyPcs, IInv, NoWrite
<1>14. FilesOK'
  BY <1>1, <1>2, <1>3, <1>4 DEF FilesOK, IInv, Types
<1>15. WriterOK'
  BY <1>1, <1>2, <1>3, <1>4 DEF WriterOK, Cur, IInv, Types
<1>16. Kept'
  BY <1>1, <1>2, <1>3, <1>4 DEF Kept, Holds, IInv, Types
<1>17. Destroyed'
  BY <1>1, <1>2, <1>3, <1>4 DEF Destroyed, IInv, Types
<1>18. MarkOK'
  BY <1>1, <1>2, <1>3, <1>4 DEF MarkOK, Comparable, Cur, IInv, Types, FileTypes,
     ServiceTypes, WriterTypes, Contents, HistTypes
<1> QED
  BY <1>5, <1>6, <1>7, <1>8, <1>9, <1>10, <1>11, <1>12, <1>13, <1>14, <1>15, <1>16,
     <1>17, <1>18 DEF IInv, Types

\* A container is verified and waits to be restored.
LEMMA RestoreVerifyStep == IInv /\ RestoreVerify => IInv'
<1> SUFFICES ASSUME IInv, RestoreVerify PROVE IInv'
  OBVIOUS
<1>1. /\ waiting' = container /\ container.vault # 0 /\ Running
      /\ UNCHANGED <<disk, files, inodes, proc, handle, svc, container, admin, writer, used, hist>>
  BY DEF RestoreVerify
<1>2. FileTypes'
  BY <1>1 DEF FileTypes, IInv, Types
<1>3. ServiceTypes'
  BY <1>1 DEF ServiceTypes, IInv, Types
<1>4. AdminTypes'
  BY <1>1 DEF AdminTypes, IInv, Types
<1>5. WriterTypes'
  BY <1>1 DEF WriterTypes, IInv, Types
<1>6. UsedTypes'
  BY <1>1 DEF UsedTypes, IInv, Types
<1>7. HistTypes'
  BY <1>1 DEF HistTypes, IInv, Types
<1>8. Allocated'
  BY <1>1 DEF Allocated, Pend, IInv, Types
<1>9. ContentsOK'
  BY <1>1 DEF ContentsOK, Sound, IInv, Types
<1>10. PhaseOK'
  BY <1>1 DEF PhaseOK, StoreOpenBetween, Running, ClosedPcs, RestorePcs, DestroyPcs,
     IInv, Types
<1>11. FilesOK'
  BY <1>1 DEF FilesOK, IInv, Types
<1>12. WriterOK'
  BY <1>1 DEF WriterOK, Cur, IInv, Types
<1>13. Kept'
  BY <1>1 DEF Kept, Holds, IInv, Types
<1>14. Destroyed'
  BY <1>1 DEF Destroyed, IInv, Types
<1>15. MarkOK'
  BY <1>1 DEF MarkOK, Comparable, Cur, IInv, Types
<1> QED
  BY <1>2, <1>3, <1>4, <1>5, <1>6, <1>7, <1>8, <1>9, <1>10, <1>11, <1>12, <1>13, <1>14,
     <1>15 DEF IInv, Types

\* A first vault, or the one after a destruction, in the file that is open.
LEMMA InitVaultStep == IInv /\ InitVault => IInv'
<1> SUFFICES ASSUME IInv, InitVault PROVE IInv'
  OBVIOUS
<1>1. /\ handle \in Inodes /\ handle = files["db"] /\ Cur = handle /\ admin.pc \notin ClosedPcs
      /\ Running /\ svc.loaded = 0 /\ disk[handle].schema /\ disk[handle].vault = 0
      /\ disk[handle] \in Contents /\ used.vaults \in Nat
  BY Numbers DEF IInv, InitVault, Serving, Loaded, Served, Types, FileTypes, ServiceTypes, UsedTypes,
     Cur, PhaseOK, Running
<1> DEFINE v == used.vaults + 1
           c == disk[handle].counter + 1
           m == [disk[handle] EXCEPT !.vault = v, !.counter = c, !.born = c]
<1>2. /\ v \in Nat /\ v # 0 /\ v > used.vaults /\ v = used.vaults + 1
      /\ c \in Nat /\ c >= 1 /\ c = disk[handle].counter + 1
  BY <1>1 DEF Contents
<1> HIDE DEF v, c
<1>10. /\ m \in Contents /\ m.vault = v /\ m.counter = c /\ m.born = c
       /\ m.schema = disk[handle].schema /\ m.flushed = disk[handle].flushed
  BY <1>1, <1>2 DEF Contents
<1>3. disk' = [disk EXCEPT ![handle] = m]
  BY <1>1, <1>2 DEF InitVault, IInv, Types, FileTypes
<1> HIDE DEF m
<1>4. /\ disk' \in [Inodes -> Contents] /\ disk'[handle] = m
      /\ \A i \in Inodes : i # handle => disk'[i] = disk[i]
  BY <1>1, <1>10, <1>3 DEF IInv, Types, FileTypes
<1>5. /\ svc' \in [loaded : Nat, unlocked : BOOLEAN, mark : Nat]
      /\ svc'.loaded = v /\ svc'.unlocked = svc.unlocked
      /\ svc'.mark = IF svc.mark > c THEN svc.mark ELSE c
  <2>1. svc' = [svc EXCEPT !.loaded = v, !.mark = Larger(@, c)]
    BY <1>2, <1>10, <1>4 DEF InitVault
  <2> QED
    BY <2>1, <1>2 DEF IInv, Larger, Types, ServiceTypes
<1> DEFINE b == hist.clobbered /\ writer.detached
<1>6. /\ hist' = [hist EXCEPT !.vault = v, !.cut = FALSE, !.prev = handle, !.clobbered = b,
                             !.acked[handle] = c]
      /\ b \in BOOLEAN /\ (writer.detached /\ hist.clobbered => b)
  BY <1>2, <1>10, <1>4 DEF InitVault
<1> HIDE DEF b
<1>7. /\ HistTypes' /\ hist'.vault = v /\ hist'.prev = handle
      /\ hist'.acked[handle] = c
      /\ \A i \in Inodes : i # handle => hist'.acked[i] = hist.acked[i]
      /\ hist'.lost = hist.lost /\ hist'.gone = hist.gone /\ hist'.failed = hist.failed
      /\ hist'.late = hist.late /\ hist'.leftover = hist.leftover
      /\ hist'.revived = hist.revived
      /\ writer.detached /\ hist.clobbered => hist'.clobbered
  BY <1>1, <1>2, <1>6 DEF IInv, Types, HistTypes, Refs
<1>8. /\ UsedTypes' /\ used'.replacements = used.replacements /\ used'.vaults = v
      /\ UNCHANGED <<files, inodes, proc, handle, container, waiting, admin, writer>>
  BY VaultUsed, <1>2 DEF IInv, Types, InitVault
<1>9. Cur' = Cur
  BY <1>8 DEF Cur
<1>11. FileTypes'
  BY <1>4, <1>8 DEF FileTypes, IInv, Types
<1>12. ServiceTypes'
  BY <1>5 DEF ServiceTypes
<1>13. AdminTypes'
  BY <1>1, <1>2, <1>10, <1>4, <1>5, <1>7, <1>8, Numbers DEF AdminTypes, IInv, Types
<1>14. WriterTypes'
  BY <1>1, <1>2, <1>10, <1>4, <1>5, <1>7, <1>8, Numbers DEF WriterTypes, IInv, Types
<1>15. UsedTypes'
  BY <1>8 DEF UsedTypes
<1>16. HistTypes'
  BY <1>7 DEF HistTypes
<1>17. Allocated'
  BY <1>1, <1>4, <1>7, <1>8, Numbers DEF Allocated, Pend, IInv, Types, FileTypes
<1>18. ContentsOK'
  <2>1. \A i \in Inodes : Sound(disk'[i]) /\ disk'[i].flushed <= disk'[i].counter
    <3>1. disk[handle].flushed <= disk[handle].counter /\ disk[handle].flushed \in Nat
      BY <1>1 DEF IInv, ContentsOK, Contents
    <3>2. Sound(m) /\ m.flushed <= m.counter
      BY <3>1, <1>1, <1>2, <1>10 DEF Sound, Contents
    <3> QED
      BY <3>2, <1>4 DEF IInv, ContentsOK
  <2>2. \A i \in Inodes :
           disk'[i].vault # 0 => disk'[i].counter >= hist'.acked[i] \/ i \in hist'.lost
    BY <1>1, <1>2, <1>10, <1>4, <1>7 DEF IInv, ContentsOK
  <2> QED
    BY <2>1, <2>2, <1>8 DEF IInv, ContentsOK
<1>19. PhaseOK'
  BY <1>1, <1>2, <1>5, <1>7, <1>8 DEF PhaseOK, StoreOpenBetween, Running, ClosedPcs,
     RestorePcs, DestroyPcs, IInv
<1>20. FilesOK'
  BY <1>1, <1>2, <1>10, <1>4, <1>7, <1>8, Numbers DEF FilesOK, IInv, Types, FileTypes,
     PhaseOK, ClosedPcs
<1>21. WriterOK'
  <2>1. writer.vault # 0 /\ writer.ino = handle => hist.clobbered
    BY <1>1 DEF IInv, WriterOK
  <2>2. /\ writer.ino # 0 => writer.ino \in Inodes
        /\ \A i \in Inodes : /\ disk'[i].counter >= disk[i].counter
                             /\ disk[i].counter \in Nat /\ disk'[i].counter \in Nat
    BY <1>1, <1>2, <1>10, <1>4, Referred DEF IInv, Types, FileTypes, Contents
  <2>3. writer.pc = "note" => writer.ino \in hist.lost \/ writer.stamped <= disk'[writer.ino].counter
    BY <2>2, <1>4 DEF IInv, WriterOK, Types, WriterTypes
  <2>4. writer.detached /\ writer.pc = "tx" =>
          /\ disk'[writer.ino].counter <= writer.stamped + 1
          /\ disk'[writer.ino].vault = 0 => disk'[writer.ino].counter <= writer.stamped
    BY <1>1, <1>2, <1>10, <1>4, <2>2 DEF IInv, WriterOK, Types, WriterTypes
  <2>5. writer.vault # 0 =>
          /\ disk'[writer.ino].schema /\ disk'[writer.ino].born >= 1
          /\ writer.ino # handle => disk'[writer.ino] = disk[writer.ino]
    BY <2>2, <1>1, <1>2, <1>10, <1>4 DEF IInv, WriterOK
  <2>6. writer.vault # 0 /\ writer.ino \in {files["db"], files["recovery"]} =>
          disk'[writer.ino].vault = writer.vault \/ hist'.clobbered
    BY <2>1, <2>5, <1>7 DEF IInv, WriterOK
  <2> QED
    BY <2>3, <2>4, <2>5, <2>6, <1>7, <1>8 DEF IInv, WriterOK
<1>22. Kept'
  BY <1>1, <1>2, <1>10, <1>4, <1>5, <1>7, <1>8, Referred, Numbers DEF Kept, Holds, IInv,
     ClosedPcs
<1>23. Destroyed'
  <2>1. v \notin hist.gone /\ used.vaults <= v /\ \A u \in hist.gone : u <= v
    BY <1>1, <1>2 DEF IInv, Destroyed, Types, HistTypes
  <2> QED
    BY <2>1, <1>1, <1>10, <1>4, <1>7, <1>8, Referred DEF IInv, Destroyed
<1>24. MarkOK'
  <2>1. Comparable' => Comparable
    BY <1>1, <1>10, <1>4, <1>7, <1>8, <1>9, Numbers DEF IInv, Comparable
  <2> QED
    BY <2>1, <1>1, <1>2, <1>10, <1>4, <1>5, <1>8, <1>9 DEF IInv, MarkOK, Types, ServiceTypes, Contents
<1> QED
  BY <1>11, <1>12, <1>13, <1>14, <1>15, <1>16, <1>17, <1>18, <1>19, <1>20, <1>21, <1>22,
     <1>23, <1>24 DEF IInv, Types

\* A verified container begins to be restored.
LEMMA RestoreBeginStep == IInv /\ RestoreBegin => IInv'
<1> SUFFICES ASSUME IInv, RestoreBegin PROVE IInv'
  OBVIOUS
<1>1. /\ Running /\ waiting # Blank /\ admin.pc = "idle"
      /\ used.replacements < MaxReplacements /\ MaxReplacements \in Nat
  BY RestoreFilesAssumption DEF RestoreBegin
<1>2. /\ svc' \in [loaded : Nat, unlocked : BOOLEAN, mark : Nat]
      /\ svc'.loaded = svc.loaded /\ svc'.mark = svc.mark /\ ~svc'.unlocked
  BY DEF IInv, RestoreBegin, Types, ServiceTypes
<1>3. /\ admin' = [pc |-> "close", op |-> "restore", snapshot |-> waiting] /\ waiting' = Blank
  BY DEF RestoreBegin
<1>4. /\ HistTypes' /\ hist'.vault = hist.vault /\ hist'.prev = hist.prev /\ hist'.acked = hist.acked
      /\ hist'.lost = hist.lost /\ hist'.gone = hist.gone /\ hist'.cut = hist.cut
      /\ hist'.failed = hist.failed /\ hist'.late = hist.late /\ hist'.leftover = hist.leftover
      /\ hist'.clobbered = hist.clobbered
      /\ hist.revived \/ waiting.vault \in hist.gone => hist'.revived
  BY DEF IInv, RestoreBegin, Types, HistTypes
<1>5. /\ UsedTypes' /\ used'.replacements = used.replacements + 1 /\ used'.vaults = used.vaults
      /\ UNCHANGED <<disk, files, inodes, proc, handle, container, writer>>
  BY ReplacementUsed DEF IInv, Types, RestoreBegin
<1>6. FileTypes'
  BY <1>3, <1>5, Constants DEF FileTypes, IInv, Types
<1>7. ServiceTypes'
  BY <1>2 DEF ServiceTypes
<1>8. AdminTypes'
  BY <1>3 DEF AdminTypes, IInv, Types, FileTypes, Pcs, RestorePcs
<1>9. WriterTypes'
  BY <1>1, <1>2, <1>3, <1>4, <1>5 DEF WriterTypes, IInv, Types
<1>10. UsedTypes'
  BY <1>5 DEF UsedTypes
<1>11. HistTypes'
  BY <1>4 DEF HistTypes
<1>12. Allocated'
  BY <1>1, <1>3, <1>4, <1>5, Numbers DEF Allocated, Pend, IInv, Types, FileTypes,
     UsedTypes
<1>13. ContentsOK'
  BY <1>3, <1>4, <1>5, Constants DEF ContentsOK, Sound, IInv
<1>14. PhaseOK'
  BY <1>1, <1>2, <1>3, <1>4, <1>5 DEF PhaseOK, StoreOpenBetween, Running, ClosedPcs,
     RestorePcs, DestroyPcs, IInv, ContentsOK
<1>15. FilesOK'
  BY <1>1, <1>2, <1>3, <1>4, <1>5 DEF FilesOK, IInv, Types
<1>16. WriterOK'
  BY <1>1, <1>2, <1>3, <1>4, <1>5 DEF WriterOK, Cur, IInv, Types
<1>17. Kept'
  BY <1>1, <1>2, <1>3, <1>4, <1>5 DEF Kept, Holds, IInv, Types
<1>18. Destroyed'
  BY <1>1, <1>2, <1>3, <1>4, <1>5 DEF Destroyed, IInv, Types
<1>19. MarkOK'
  BY <1>1, <1>2, <1>3, <1>4, <1>5 DEF MarkOK, Comparable, Cur, IInv, Types
<1> QED
  BY <1>6, <1>7, <1>8, <1>9, <1>10, <1>11, <1>12, <1>13, <1>14, <1>15, <1>16, <1>17,
     <1>18, <1>19 DEF IInv, Types

\* The password of a destruction is verified, which loads the vault row.
LEMMA DestroyVerifyStep == IInv /\ DestroyVerify => IInv'
<1> SUFFICES ASSUME IInv, DestroyVerify PROVE IInv'
  OBVIOUS
<1>1. /\ handle \in Inodes /\ handle = files["db"] /\ Cur = handle
      /\ Running /\ disk[handle].vault # 0 /\ disk[handle].vault = Loaded
      /\ svc.loaded \in {0, disk[handle].vault} /\ disk[handle].vault \in Nat
  BY Numbers DEF IInv, DestroyVerify, Serving, Loaded, Served, Types, FileTypes, ServiceTypes, Cur,
     PhaseOK, Running, Contents
<1>2. /\ ServiceTypes' /\ svc'.loaded = disk[handle].vault /\ svc'.mark = svc.mark
  BY <1>1 DEF IInv, DestroyVerify, Types, ServiceTypes
<1>3. UNCHANGED <<disk, files, inodes, proc, handle, container, waiting, admin, writer, used, hist>>
  BY DEF DestroyVerify
<1>4. Types'
  BY <1>2, <1>3 DEF IInv, Types, FileTypes, AdminTypes, WriterTypes, UsedTypes, HistTypes
<1>5. Allocated'
  BY <1>3 DEF IInv, Allocated, Pend
<1>6. ContentsOK'
  BY <1>3 DEF IInv, ContentsOK
<1>7. PhaseOK'
  BY <1>1, <1>3 DEF IInv, PhaseOK, StoreOpenBetween, Running
<1>8. FilesOK'
  BY <1>3 DEF IInv, FilesOK
<1>9. WriterOK'
  BY <1>3 DEF IInv, WriterOK
<1>10. Kept'
  <2>1. hist.vault # 0 /\ ~hist.clobbered => disk[handle].vault = hist.vault
    BY <1>1, Numbers DEF IInv, Kept, Holds
  <2> QED
    BY <2>1, <1>2, <1>3 DEF IInv, Kept, Holds
<1>11. Destroyed'
  BY <1>3 DEF IInv, Destroyed
<1>12. MarkOK'
  <2>1. Comparable' => Comparable
    BY <1>1, <1>3 DEF Comparable, Cur
  <2> QED
    BY <2>1, <1>2, <1>3 DEF IInv, MarkOK, Cur
<1> QED
  BY <1>4, <1>5, <1>6, <1>7, <1>8, <1>9, <1>10, <1>11, <1>12 DEF IInv

\* A destruction begins.
LEMMA DestroyBeginStep == IInv /\ DestroyBegin => IInv'
<1> SUFFICES ASSUME IInv, DestroyBegin PROVE IInv'
  OBVIOUS
<1>1. /\ admin.pc = "idle" /\ Running
      /\ used.replacements < MaxReplacements /\ MaxReplacements \in Nat
  BY RestoreFilesAssumption DEF DestroyBegin
<1>2. /\ svc' \in [loaded : Nat, unlocked : BOOLEAN, mark : Nat]
      /\ svc'.loaded = svc.loaded /\ svc'.mark = svc.mark /\ ~svc'.unlocked
  BY DEF IInv, DestroyBegin, Types, ServiceTypes
<1>3. /\ admin' = [pc |-> "close", op |-> "destroy", snapshot |-> Blank]
  BY DEF DestroyBegin
<1>4. /\ UsedTypes' /\ used'.replacements = used.replacements + 1 /\ used'.vaults = used.vaults
      /\ UNCHANGED <<disk, files, inodes, proc, handle, container, waiting, writer, hist>>
  BY ReplacementUsed DEF IInv, Types, DestroyBegin
<1>5. FileTypes'
  BY <1>1, <1>2, <1>3, <1>4 DEF FileTypes, IInv, Types
<1>6. ServiceTypes'
  BY <1>2 DEF ServiceTypes
<1>7. AdminTypes'
  BY <1>3, Constants DEF AdminTypes, IInv, Types, FileTypes, Pcs, DestroyPcs
<1>8. WriterTypes'
  BY <1>1, <1>2, <1>3, <1>4 DEF WriterTypes, IInv, Types
<1>9. UsedTypes'
  BY <1>4 DEF UsedTypes
<1>10. HistTypes'
  BY <1>1, <1>2, <1>3, <1>4 DEF HistTypes, IInv, Types
<1>11. Allocated'
  BY <1>1, <1>3, <1>4, Numbers DEF Allocated, Pend, IInv, Types, FileTypes, UsedTypes
<1>12. ContentsOK'
  BY <1>3, <1>4, Constants DEF ContentsOK, Sound, IInv
<1>13. PhaseOK'
  BY <1>1, <1>2, <1>3, <1>4, Constants DEF PhaseOK, StoreOpenBetween, Running, ClosedPcs,
     RestorePcs, DestroyPcs, IInv, Types
<1>14. FilesOK'
  BY <1>1, <1>2, <1>3, <1>4 DEF FilesOK, IInv, Types
<1>15. WriterOK'
  BY <1>1, <1>2, <1>3, <1>4 DEF WriterOK, Cur, IInv, Types
<1>16. Kept'
  BY <1>1, <1>2, <1>3, <1>4 DEF IInv, Kept, Holds
<1>17. Destroyed'
  <2>1. admin'.snapshot.vault = 0 /\ admin'.pc = "close"
    BY <1>3, Constants
  <2> QED
    BY <2>1, <1>1, <1>4 DEF IInv, Destroyed
<1>18. MarkOK'
  <2>1. Comparable' => Comparable
    BY <1>1, <1>2, <1>3, <1>4 DEF Comparable, Cur
  <2> QED
    BY <2>1, <1>1, <1>2, <1>3, <1>4 DEF IInv, MarkOK, Cur
<1> QED
  BY <1>5, <1>6, <1>7, <1>8, <1>9, <1>10, <1>11, <1>12, <1>13, <1>14, <1>15, <1>16,
     <1>17, <1>18 DEF IInv, Types

\* The store is closed, its log copied unless a transaction holds the connection.
LEMMA CloseStep == IInv /\ Close => IInv'
<1> SUFFICES ASSUME IInv, Close PROVE IInv'
  OBVIOUS
<1>1. Running /\ admin.pc = "close" /\ admin.op # "none"
  BY DEF IInv, Close, PhaseOK, Types, AdminTypes
<1>2. /\ disk' \in [Inodes -> Contents]
      /\ \A i \in Inodes :
           /\ disk'[i].vault = disk[i].vault /\ disk'[i].schema = disk[i].schema
           /\ disk'[i].counter = disk[i].counter /\ disk'[i].born = disk[i].born
           /\ disk'[i].flushed = disk[i].flushed \/ disk'[i].flushed = disk[i].counter
           /\ i > inodes => disk'[i] = disk[i]
  <2>1. CASE disk' = disk
    BY <2>1 DEF IInv, Types, FileTypes
  <2>2. CASE disk' # disk
    <3>1. /\ handle \in Inodes /\ disk' = [disk EXCEPT ![handle].flushed = disk[handle].counter]
          /\ disk[handle] \in Contents /\ handle <= inodes /\ inodes \in Nat /\ handle \in Nat
      BY <2>2, Numbers DEF IInv, Types, FileTypes, Close, Allocated
    <3> DEFINE m == [disk[handle] EXCEPT !.flushed = disk[handle].counter]
    <3>2. /\ m \in Contents /\ m.vault = disk[handle].vault /\ m.counter = disk[handle].counter
          /\ m.born = disk[handle].born /\ m.schema = disk[handle].schema
          /\ m.flushed = disk[handle].counter
      BY <3>1 DEF Contents
    <3>3. disk' = [disk EXCEPT ![handle] = m]
      BY <3>1
    <3> HIDE DEF m
    <3> QED
      BY <3>1, <3>2, <3>3, Numbers DEF IInv, Types, FileTypes
  <2> QED
    BY <2>1, <2>2
<1>3. \A i \in Inodes : disk'[i].flushed >= disk[i].flushed /\ disk'[i].flushed <= disk'[i].counter
  BY <1>2 DEF IInv, ContentsOK, Types, FileTypes, Contents
<1>4. \/ /\ AdminTypes' /\ admin'.op = admin.op /\ admin'.snapshot = admin.snapshot
         /\ admin'.pc = IF admin.op = "restore" THEN "candidate" ELSE "remove"
         /\ used' = used /\ hist' = hist
      \/ Fault /\ GiveUp
  BY Went DEF IInv, Types, Close, Pcs, RestorePcs, DestroyPcs
<1>5. /\ handle' = 0
      /\ UNCHANGED <<files, inodes, proc, svc, container, waiting, writer>>
  BY DEF Close
<1>6. UsedTypes' /\ used'.replacements = used.replacements /\ used'.vaults = used.vaults
  BY <1>4, FaultUsed DEF IInv, Types, UsedTypes
<1>7. /\ HistTypes' /\ hist'.vault = hist.vault /\ hist'.prev = hist.prev /\ hist'.acked = hist.acked
      /\ hist'.lost = hist.lost /\ hist'.gone = hist.gone /\ hist'.cut = hist.cut
      /\ hist'.late = hist.late /\ hist'.leftover = hist.leftover
      /\ hist'.revived = hist.revived /\ hist'.clobbered = hist.clobbered
      /\ hist'.failed \/ hist'.failed = hist.failed
  BY <1>4, GaveUp DEF IInv, Types, HistTypes
<1>8. /\ AdminTypes'
      /\ \/ /\ admin'.op = admin.op /\ admin'.snapshot = admin.snapshot
            /\ admin'.pc = IF admin.op = "restore" THEN "candidate" ELSE "remove"
         \/ admin' = NoReplacement /\ hist'.failed
  BY <1>4, GaveUp DEF IInv, Types
<1>9. Cur' = Cur /\ Cur \in Refs
  BY <1>5 DEF Cur, IInv, Types, FileTypes, Names
<1>10. FileTypes'
  BY <1>2, <1>5 DEF FileTypes, IInv, Types, Refs
<1>11. ServiceTypes'
  BY <1>1, <1>2, <1>3, <1>5, <1>6, <1>7, <1>8 DEF ServiceTypes, IInv, Types
<1>12. AdminTypes'
  BY <1>8 DEF AdminTypes
<1>13. WriterTypes'
  BY <1>1, <1>2, <1>3, <1>5, <1>6, <1>7, <1>8 DEF WriterTypes, IInv, Types
<1>14. UsedTypes'
  BY <1>6 DEF UsedTypes
<1>15. HistTypes'
  BY <1>7 DEF HistTypes
<1>16. Allocated'
  BY <1>1, <1>2, <1>5, <1>6, <1>7, <1>8, NoAdmin, Numbers DEF Allocated, Pend, IInv,
     Types, FileTypes, UsedTypes
<1>17. ContentsOK'
  BY <1>2, <1>3, <1>5, <1>7, <1>8, NoAdmin, Constants DEF ContentsOK, Sound, IInv
<1>18. PhaseOK'
  BY <1>1, <1>5, <1>7, <1>8, NoAdmin DEF PhaseOK, StoreOpenBetween, Running, ClosedPcs,
     RestorePcs, DestroyPcs, IInv
<1>19. FilesOK'
  BY <1>1, <1>2, <1>3, <1>5, <1>7, <1>8, NoAdmin DEF FilesOK, IInv
<1>20. WriterOK'
  <2>1. /\ Cur # 0 /\ disk'[Cur].born > disk'[Cur].flushed => disk[Cur].born > disk[Cur].flushed
        /\ Cur # 0 => Cur \in Inodes
    BY <1>2, <1>3, <1>9, Referred DEF IInv, Types, FileTypes, Contents
  <2>2. writer.ino # 0 => writer.ino \in Inodes
    BY Referred DEF IInv
  <2> QED
    BY <2>1, <2>2, <1>2, <1>5, <1>7, <1>9, Numbers DEF IInv, WriterOK
<1>21. Kept'
  <2>1. writer.vault # 0 => disk'[writer.ino].vault = disk[writer.ino].vault
    BY <1>2, Referred DEF IInv, WriterOK
  <2>2. /\ files["db"] # 0 => disk'[files["db"]].vault = disk[files["db"]].vault
        /\ files["recovery"] # 0 => disk'[files["recovery"]].vault = disk[files["recovery"]].vault
        /\ hist.prev # 0 => disk'[hist.prev].vault = disk[hist.prev].vault
    BY <1>2, Referred DEF IInv
  <2> QED
    BY <2>1, <2>2, <1>1, <1>5, <1>7, <1>8, NoAdmin DEF IInv, Kept, Holds
<1>22. Destroyed'
  BY <1>1, <1>2, <1>5, <1>6, <1>7, <1>8, NoAdmin, Constants, Referred DEF Destroyed, IInv
<1>23. MarkOK'
  <2>1. Comparable' => Comparable
    BY <1>1, <1>2, <1>5, <1>7, <1>8, <1>9, Numbers DEF Comparable
  <2> QED
    BY <2>1, <1>2, <1>5, <1>9, Numbers DEF IInv, MarkOK, Comparable
<1> QED
  BY <1>10, <1>11, <1>12, <1>13, <1>14, <1>15, <1>16, <1>17, <1>18, <1>19, <1>20, <1>21,
     <1>22, <1>23 DEF IInv, Types

\* The daemon stops, by whatever cause.
LEMMA StopStep ==
    ASSUME IInv,
           Stop, UsedTypes',
           used'.replacements = used.replacements, used'.vaults = used.vaults
    PROVE  IInv'
<1>1. /\ proc' = "down" /\ handle' = 0 /\ svc' = LockedOut /\ waiting' = Blank
      /\ admin' = NoReplacement /\ writer' = NoWrite
      /\ UNCHANGED <<disk, files, inodes, container>>
  BY DEF Stop
<1>2. /\ HistTypes' /\ hist'.vault = hist.vault /\ hist'.prev = hist.prev /\ hist'.acked = hist.acked
      /\ hist'.lost = hist.lost /\ hist'.gone = hist.gone /\ hist'.revived = hist.revived
      /\ hist'.clobbered = hist.clobbered
      /\ hist.cut \/ (admin.pc = "install" /\ files["db"] = 0) => hist'.cut
      /\ hist.leftover \/ files["tmp"] # 0 => hist'.leftover
  BY DEF IInv, Types, HistTypes, Stop
<1>3. /\ svc'.loaded = 0 /\ svc'.mark = 0 /\ ~svc'.unlocked /\ ServiceTypes'
      /\ writer'.pc = "idle" /\ writer'.ino = 0 /\ ~writer'.detached /\ writer'.vault = 0 /\ WriterTypes'
  BY <1>1 DEF LockedOut, NoWrite, ServiceTypes, WriterTypes, Refs
<1>4. admin'.pc = "idle" /\ admin'.op = "none" /\ admin'.snapshot = Blank /\ AdminTypes'
  BY <1>1, NoAdmin
<1>5. FileTypes'
  BY <1>1, Constants DEF FileTypes, IInv, Types, Refs
<1>6. ServiceTypes'
  BY <1>1, <1>2, <1>3, <1>4 DEF ServiceTypes, IInv, Types
<1>7. AdminTypes'
  BY <1>1, <1>2, <1>3, <1>4 DEF AdminTypes, IInv, Types
<1>8. WriterTypes'
  BY <1>1, <1>2, <1>3, <1>4 DEF WriterTypes, IInv, Types
<1>9. UsedTypes'
  BY DEF UsedTypes
<1>10. HistTypes'
  BY <1>1, <1>2, <1>3, <1>4 DEF HistTypes, IInv, Types
<1>11. Allocated'
  BY <1>1, <1>2, <1>3, <1>4, Numbers DEF Allocated, Pend, IInv, Types, FileTypes,
     UsedTypes
<1>12. ContentsOK'
  BY <1>1, <1>2, <1>4, Constants DEF ContentsOK, Sound, IInv
<1>13. PhaseOK'
  BY <1>1, <1>2, <1>3, <1>4 DEF PhaseOK, StoreOpenBetween, Running, ClosedPcs,
     RestorePcs, DestroyPcs, IInv, Types
<1>14. FilesOK'
  BY <1>1, <1>2, <1>3, <1>4 DEF FilesOK, IInv, Types
<1>15. WriterOK'
  BY <1>1, <1>2, <1>3, <1>4 DEF WriterOK, Cur, IInv, Types
<1>16. Kept'
  BY <1>1, <1>2, <1>3, <1>4 DEF Kept, Holds, IInv, Types
<1>17. Destroyed'
  BY <1>1, <1>2, <1>3, <1>4, Constants DEF Destroyed, IInv
<1>18. MarkOK'
  <2>1. Cur' = Cur /\ (Cur # 0 => disk[Cur].counter \in Nat)
    BY <1>1, Referred DEF Cur, IInv, Types, FileTypes, Contents
  <2> QED
    BY <2>1, <1>1, <1>3 DEF MarkOK, Comparable
<1> QED
  BY <1>5, <1>6, <1>7, <1>8, <1>9, <1>10, <1>11, <1>12, <1>13, <1>14, <1>15, <1>16,
     <1>17, <1>18 DEF IInv, Types

\* The daemon opens the database there is, or an empty one, and migrates it.
LEMMA StartStep == IInv /\ Start => IInv'
<1> SUFFICES ASSUME IInv, Start PROVE IInv'
  OBVIOUS
<1> DEFINE o == OpenDB(disk, files, inodes)
           d == o.files["db"]
<1>1. /\ o.disk = disk /\ o.files \in [Names -> Refs] /\ o.inodes \in Inodes
      /\ o.files["recovery"] = files["recovery"] /\ o.files["tmp"] = files["tmp"] /\ d \in Inodes
      /\ files["db"] # 0 => o.files = files /\ o.inodes = inodes
      /\ files["db"] = 0 => d = inodes + 1 /\ o.inodes = inodes + 1 /\ disk[inodes + 1] = Blank
  BY Opened DEF IInv
<1>2. /\ disk' = Migrate(disk, d) /\ files' = o.files /\ inodes' = o.inodes
      /\ handle' = d
  BY <1>1 DEF Start
<1> HIDE DEF o
<1> HIDE DEF d
<1>3. /\ disk' \in [Inodes -> Contents]
      /\ \A i \in Inodes :
           /\ disk'[i].vault = disk[i].vault /\ disk'[i].counter = disk[i].counter
           /\ disk'[i].flushed = disk[i].flushed /\ disk'[i].born = disk[i].born
           /\ disk'[i].schema = disk[i].schema \/ disk'[i].schema
           /\ i # d => disk'[i] = disk[i]
  BY <1>1, <1>2, Migrated DEF IInv, Types
<1>4. /\ svc = LockedOut /\ admin = NoReplacement /\ writer = NoWrite /\ proc' = "up"
      /\ UNCHANGED <<svc, container, waiting, admin, writer, used, hist>>
  BY DEF IInv, Start, PhaseOK
<1>5. /\ svc.loaded = 0 /\ svc.mark = 0 /\ ~svc.unlocked /\ admin.pc = "idle" /\ admin.op = "none"
      /\ writer.pc = "idle" /\ writer.ino = 0 /\ writer.vault = 0 /\ ~writer.detached
  BY <1>4, NoAdmin DEF LockedOut, NoWrite
<1>6. files'["db"] = d /\ files'["recovery"] = files["recovery"] /\ files'["tmp"] = files["tmp"]
  BY <1>1, <1>2 DEF d
<1>7. /\ files["db"] # 0 => d = files["db"] /\ inodes' = inodes
      /\ files["db"] = 0 => d = inodes + 1 /\ inodes' = inodes + 1 /\ disk[d] = Blank
      /\ d # 0 /\ d \in Nat /\ inodes \in Nat
  BY <1>1, <1>2, Numbers DEF d, IInv, Types, FileTypes
<1>8. FileTypes'
  BY <1>1, <1>2, <1>3, <1>4, Numbers DEF FileTypes, IInv, Types, Refs
<1>9. ServiceTypes'
  BY <1>1, <1>3, <1>4, <1>5, <1>6, <1>7, Referred DEF ServiceTypes, IInv, Types
<1>10. AdminTypes'
  BY <1>1, <1>3, <1>4, <1>5, <1>6, <1>7, Referred DEF AdminTypes, IInv, Types
<1>11. WriterTypes'
  BY <1>1, <1>3, <1>4, <1>5, <1>6, <1>7, Referred DEF WriterTypes, IInv, Types
<1>12. UsedTypes'
  BY <1>1, <1>3, <1>4, <1>5, <1>6, <1>7, Referred DEF UsedTypes, IInv, Types
<1>13. HistTypes'
  BY <1>1, <1>3, <1>4, <1>5, <1>6, <1>7, Referred DEF HistTypes, IInv, Types
<1>14. Allocated'
  <2>1. \A n \in Names : files'[n] <= inodes'
    <3>1. files["db"] <= inodes /\ files["recovery"] <= inodes /\ files["tmp"] <= inodes
      BY DEF IInv, Allocated, Names
    <3>2. files["recovery"] \in Nat /\ files["tmp"] \in Nat
      BY Referred, Numbers DEF IInv
    <3> QED
      BY <3>1, <3>2, <1>6, <1>7 DEF Names
  <2>2. handle' <= inodes'
    BY <1>2, <1>7, Numbers DEF IInv, Allocated, Types, FileTypes, Names
  <2>3. inodes' >= inodes /\ d <= inodes' /\ inodes' \in Nat
    BY <1>7, Numbers DEF IInv, Allocated, Types, FileTypes, Names
  <2>4. writer'.ino <= inodes' /\ hist'.prev <= inodes'
    <3>1. writer.ino \in Nat /\ hist.prev \in Nat
      BY Numbers DEF IInv, Types, WriterTypes, HistTypes
    <3>2. writer.ino <= inodes /\ hist.prev <= inodes
      BY DEF IInv, Allocated
    <3> QED
      BY <2>3, <3>1, <3>2, <1>4, <1>7
  <2>5. \A i \in Inodes : i > inodes' =>
           disk'[i] = Blank /\ hist'.acked[i] = 1 /\ i \notin hist'.lost
    BY <2>3, <1>3, <1>4, <1>7, Numbers DEF IInv, Allocated
  <2>6. /\ used'.replacements <= MaxReplacements
        /\ inodes' + (IF files'["db"] = 0 THEN 1 ELSE 0) + Pend' <= 1 + 2 * used'.replacements
    BY <1>4, <1>6, <1>7 DEF IInv, Allocated, Pend
  <2> QED
    BY <2>1, <2>2, <2>4, <2>5, <2>6 DEF Allocated
<1>15. ContentsOK'
  BY <1>3, <1>4 DEF IInv, ContentsOK, Sound
<1>16. PhaseOK'
  BY <1>2, <1>4, <1>5, <1>6, <1>7 DEF PhaseOK, StoreOpenBetween, Running, ClosedPcs,
     RestorePcs, DestroyPcs, IInv
<1>17. FilesOK'
  BY <1>1, <1>3, <1>5, <1>4, <1>6, <1>7, Referred, Numbers DEF IInv, FilesOK, Allocated,
     Types, FileTypes, Names
<1>18. WriterOK'
  BY <1>4, <1>5, <1>6 DEF WriterOK, Cur, IInv
<1>19. Kept'
  <2>1. files["db"] = 0 => disk'[d].vault = 0
    BY <1>1, <1>3, <1>7, Constants
  <2>2. files["recovery"] # 0 => disk'[files["recovery"]].vault = disk[files["recovery"]].vault
    BY <1>3, Referred DEF IInv
  <2>3. hist.prev # 0 => disk'[hist.prev].vault = disk[hist.prev].vault
    BY <1>3, Referred DEF IInv
  <2>4. disk'[d].vault = disk[d].vault
    BY <1>1, <1>3
  <2> QED
    BY <2>1, <2>2, <2>3, <2>4, <1>4, <1>5, <1>6, <1>7 DEF IInv, Kept, Holds
<1>20. Destroyed'
  <2>1. files["db"] = 0 => disk'[d].vault = 0
    BY <1>1, <1>3, <1>7, Constants
  <2>2. files["recovery"] # 0 => disk'[files["recovery"]].vault = disk[files["recovery"]].vault
    BY <1>3, Referred DEF IInv
  <2>3. 0 \notin hist.gone
    BY DEF IInv, Destroyed
  <2> QED
    BY <2>1, <2>2, <2>3, <1>1, <1>3, <1>4, <1>5, <1>6, <1>7 DEF IInv, Destroyed
<1>21. MarkOK'
  BY <1>1, <1>3, <1>4, <1>5, <1>6, <1>7 DEF IInv, MarkOK, Cur, Types, FileTypes, Contents
<1> QED
  BY <1>8, <1>9, <1>10, <1>11, <1>12, <1>13, <1>14, <1>15, <1>16, <1>17, <1>18, <1>19,
     <1>20, <1>21 DEF IInv, Types

\* Service.Reset: the mark and the cached row are forgotten, the request is over.
LEMMA ResetStep == IInv /\ Reset => IInv'
<1> SUFFICES ASSUME IInv, Reset PROVE IInv'
  OBVIOUS
<1>1. /\ admin.pc = "reset" /\ handle \in Inodes /\ handle = files["db"] /\ Cur = handle
      /\ Running /\ admin.op \in {"restore", "destroy"}
  BY Numbers DEF IInv, Reset, PhaseOK, Types, FileTypes, AdminTypes, Cur
<1>2. svc'.loaded = 0 /\ svc'.mark = 0 /\ ~svc'.unlocked /\ ServiceTypes'
  BY DEF Reset, Forget, LockedOut, ServiceTypes
<1>3. admin'.pc = "idle" /\ admin'.op = "none" /\ admin'.snapshot = Blank /\ AdminTypes'
  BY NoAdmin DEF Reset
<1>4. /\ HistTypes' /\ hist'.vault = hist.vault /\ hist'.prev = hist.prev /\ hist'.acked = hist.acked
      /\ hist'.lost = hist.lost /\ hist'.cut = hist.cut /\ ~hist'.failed
      /\ hist'.leftover = hist.leftover /\ hist'.revived = hist.revived
      /\ hist'.clobbered = hist.clobbered /\ hist'.gone = hist.gone
      /\ ~hist'.late => (writer.pc \in {"tx", "note"} => writer.ino = handle)
  <2> DEFINE l == writer.pc \in {"tx", "note"} /\ writer.ino # handle
  <2>1. l \in BOOLEAN /\ (~l => (writer.pc \in {"tx", "note"} => writer.ino = handle))
    OBVIOUS
  <2>2. hist' = [hist EXCEPT !.late = l, !.failed = FALSE]
    BY DEF Reset
  <2> HIDE DEF l
  <2> QED
    BY <2>1, <2>2 DEF IInv, Types, HistTypes
<1>5. /\ proc' \in {"down", "up", "stopping"} /\ proc' # "down"
      /\ UNCHANGED <<disk, files, inodes, handle, container, waiting, writer, used>>
  BY <1>1 DEF Reset, Running, IInv, Types, FileTypes
<1>6. Cur' = Cur
  BY <1>5 DEF Cur
<1>7. FileTypes'
  BY <1>5 DEF FileTypes, IInv, Types
<1>8. ServiceTypes'
  BY <1>1, <1>2, <1>3, <1>4, <1>5 DEF ServiceTypes, IInv, Types
<1>9. AdminTypes'
  BY <1>1, <1>2, <1>3, <1>4, <1>5 DEF AdminTypes, IInv, Types
<1>10. WriterTypes'
  BY <1>1, <1>2, <1>3, <1>4, <1>5 DEF WriterTypes, IInv, Types
<1>11. UsedTypes'
  BY <1>1, <1>2, <1>3, <1>4, <1>5 DEF UsedTypes, IInv, Types
<1>12. HistTypes'
  BY <1>4 DEF HistTypes
<1>13. Allocated'
  BY <1>1, <1>3, <1>4, <1>5, Numbers DEF Allocated, Pend, IInv, Types, FileTypes,
     UsedTypes
<1>14. ContentsOK'
  BY <1>3, <1>4, <1>5, Constants DEF ContentsOK, Sound, IInv
<1>15. PhaseOK'
  BY <1>1, <1>2, <1>3, <1>4, <1>5 DEF PhaseOK, StoreOpenBetween, Running, ClosedPcs,
     RestorePcs, DestroyPcs, IInv, Types
<1>16. FilesOK'
  BY <1>1, <1>2, <1>3, <1>4, <1>5 DEF FilesOK, IInv, Types
<1>17. WriterOK'
  BY <1>1, <1>4, <1>5 DEF IInv, WriterOK
<1>18. Kept'
  BY <1>1, <1>2, <1>3, <1>4, <1>5 DEF Kept, Holds, IInv, Types
<1>19. Destroyed'
  BY <1>1, <1>3, <1>4, <1>5, Constants DEF IInv, Destroyed
<1>20. MarkOK'
  <2>1. disk[handle].counter \in Nat
    BY <1>1 DEF IInv, Types, FileTypes, Contents
  <2> QED
    BY <2>1, <1>1, <1>2, <1>4, <1>5, <1>6 DEF MarkOK, Comparable
<1> QED
  BY <1>7, <1>8, <1>9, <1>10, <1>11, <1>12, <1>13, <1>14, <1>15, <1>16, <1>17, <1>18,
     <1>19, <1>20 DEF IInv, Types

\* The candidate is written to a file of its own.
LEMMA WriteCandidateStep == IInv /\ WriteCandidate => IInv'
<1> SUFFICES ASSUME IInv, WriteCandidate PROVE IInv'
  OBVIOUS
<1>1. /\ admin.op = "restore" /\ admin.pc = "candidate" /\ Running /\ handle = 0
      /\ inodes \in Nat /\ admin.snapshot \in Contents /\ admin.snapshot.vault # 0
  BY Numbers DEF IInv, WriteCandidate, AtStep, PhaseOK, ClosedPcs, Types, FileTypes, AdminTypes
<1> DEFINE n == inodes + 1
           s == admin.snapshot
<1>2. inodes + 1 \in Inodes /\ used.replacements \in Nat
  BY <1>1, Numbers, RestoreFilesAssumption
     DEF IInv, Allocated, Pend, MaxInodes, Types, FileTypes, UsedTypes, Inodes
<1>3. /\ disk' = [disk EXCEPT ![n] = s] /\ inodes' = n
      /\ UNCHANGED <<proc, handle, svc, container, waiting, writer>>
  BY DEF WriteCandidate
<1>4. /\ n \in Inodes /\ n > inodes /\ n = inodes + 1 /\ n \in Nat /\ n # 0
  BY <1>1, <1>2
<1>5. /\ disk' \in [Inodes -> Contents] /\ disk'[n] = s
      /\ \A i \in Inodes : i # n => disk'[i] = disk[i]
  BY <1>1, <1>3, <1>4 DEF IInv, Types, FileTypes
<1>6. files["db"] # n /\ files["recovery"] # n /\ files["tmp"] # n /\ writer.ino # n /\ hist.prev # n
  <2>1. /\ files["db"] <= inodes /\ files["recovery"] <= inodes /\ files["tmp"] <= inodes
        /\ writer.ino <= inodes /\ hist.prev <= inodes
    BY DEF IInv, Allocated, Names
  <2>2. ~(n <= inodes)
    BY <1>1, <1>4
  <2> HIDE DEF n
  <2> QED
    BY <2>1, <2>2
<1>7. hist'.acked = hist.acked /\ hist.acked[n] = 1 /\ n \notin hist.lost
  BY <1>4 DEF IInv, Allocated, WriteCandidate, Types, HistTypes
<1>8. /\ UsedTypes' /\ used'.replacements = used.replacements /\ used'.vaults = used.vaults
      /\ HistTypes' /\ hist'.vault = hist.vault /\ hist'.prev = hist.prev
      /\ hist'.lost = hist.lost /\ hist'.gone = hist.gone /\ hist'.cut = hist.cut
      /\ hist'.failed = hist.failed /\ hist'.late = hist.late /\ hist'.revived = hist.revived
      /\ hist'.clobbered = hist.clobbered /\ (hist.leftover => hist'.leftover)
  BY FaultUsed DEF IInv, Types, WriteCandidate, HistTypes, UsedTypes
<1>9. /\ AdminTypes' /\ admin'.op = "restore" /\ admin'.snapshot = s
      /\ files' \in [Names -> Refs] /\ files'["db"] = files["db"]
      /\ files'["recovery"] = files["recovery"] /\ files'["tmp"] \in {0, n}
      /\ \/ admin'.pc = "aside" /\ files'["tmp"] = n
         \/ admin'.pc = "reopen" /\ (files'["tmp"] = 0 \/ hist'.leftover)
  <2>1. "aside" \in Pcs /\ "reopen" \in Pcs
    BY DEF Pcs, RestorePcs
  <2>2. Goto("aside") \/ Goto("reopen")
    BY DEF WriteCandidate
  <2>3. /\ AdminTypes' /\ admin'.op = "restore" /\ admin'.snapshot = s
        /\ Goto("aside") => admin'.pc = "aside"
        /\ Goto("reopen") => admin'.pc = "reopen"
    BY <2>1, <2>2, <1>1, Went DEF IInv, Types
  <2>4. /\ files' \in [Names -> Refs] /\ files'["db"] = files["db"]
        /\ files'["recovery"] = files["recovery"] /\ files'["tmp"] \in {0, n}
    BY <1>4 DEF WriteCandidate, IInv, Types, FileTypes, Names, Refs
  <2>5. \/ Goto("aside") /\ files'["tmp"] = n
        \/ Goto("reopen") /\ (files'["tmp"] = 0 \/ hist'.leftover)
    BY <1>4 DEF WriteCandidate, IInv, Types, FileTypes, HistTypes, Names
  <2> QED
    BY <2>3, <2>4, <2>5
<1>10. Cur' = Cur /\ Cur # n
  BY <1>6, <1>9 DEF Cur
<1> HIDE DEF n, s
<1>11. FileTypes'
  BY <1>3, <1>4, <1>5, <1>9 DEF FileTypes, IInv, Types
<1>12. ServiceTypes'
  BY <1>1, <1>3, <1>4, <1>5, <1>6, <1>8, <1>9 DEF ServiceTypes, IInv, Types
<1>13. AdminTypes'
  BY <1>9 DEF AdminTypes
<1>14. WriterTypes'
  BY <1>1, <1>3, <1>4, <1>5, <1>6, <1>8, <1>9 DEF WriterTypes, IInv, Types
<1>15. UsedTypes'
  BY <1>8 DEF UsedTypes
<1>16. HistTypes'
  BY <1>8 DEF HistTypes
<1>17. Allocated'
  <2>1. /\ \A x \in Names : files'[x] <= inodes'
        /\ handle' <= inodes' /\ writer'.ino <= inodes' /\ hist'.prev <= inodes'
    <3>1. writer.ino \in Nat /\ hist.prev \in Nat /\ \A x \in Names : files[x] \in Nat
      BY Numbers DEF IInv, Types, FileTypes, WriterTypes, HistTypes
    <3>2. writer.ino <= inodes /\ hist.prev <= inodes /\ \A x \in Names : files[x] <= inodes
      BY DEF IInv, Allocated
    <3> QED
      BY <3>1, <3>2, <1>1, <1>3, <1>4, <1>8, <1>9 DEF Names
  <2>2. \A i \in Inodes : i > inodes' =>
           disk'[i] = Blank /\ hist'.acked[i] = 1 /\ i \notin hist'.lost
    BY <1>1, <1>3, <1>4, <1>5, <1>7, <1>8, Numbers DEF IInv, Allocated
  <2>3. /\ used'.replacements <= MaxReplacements
        /\ inodes' + (IF files'["db"] = 0 THEN 1 ELSE 0) + Pend' <= 1 + 2 * used'.replacements
    BY <1>1, <1>2, <1>3, <1>4, <1>8, <1>9 DEF IInv, Allocated, Pend
  <2> QED
    BY <2>1, <2>2, <2>3 DEF Allocated
<1>18. ContentsOK'
  <2>1. Sound(s) /\ s.flushed <= s.counter
    BY DEF IInv, ContentsOK, s
  <2>2. s.vault # 0 => s.counter >= 1
    BY <2>1 DEF Sound
  <2> QED
    BY <2>1, <2>2, <1>3, <1>4, <1>5, <1>7, <1>8, <1>9 DEF IInv, ContentsOK, s
<1>19. PhaseOK'
  BY <1>1, <1>3, <1>8, <1>9 DEF PhaseOK, StoreOpenBetween, Running, ClosedPcs,
     RestorePcs, DestroyPcs, IInv, s
<1>20. FilesOK'
  <2>1. s.born <= s.flushed
    BY DEF IInv, ContentsOK, s
  <2> QED
    BY <2>1, <1>1, <1>3, <1>4, <1>5, <1>6, <1>9 DEF IInv, FilesOK
<1>21. WriterOK'
  BY <1>3, <1>4, <1>5, <1>6, <1>8, <1>9, <1>10, Referred DEF IInv, WriterOK
<1>22. Kept'
  BY <1>1, <1>3, <1>4, <1>5, <1>6, <1>8, <1>9, Referred DEF IInv, Kept, Holds
<1>23. Destroyed'
  BY <1>1, <1>3, <1>4, <1>5, <1>6, <1>8, <1>9, Referred DEF IInv, Destroyed, s
<1>24. MarkOK'
  BY <1>1, <1>3, <1>5, <1>8, <1>9, <1>10, Referred DEF IInv, MarkOK, Comparable
<1> QED
  BY <1>11, <1>12, <1>13, <1>14, <1>15, <1>16, <1>17, <1>18, <1>19, <1>20, <1>21, <1>22,
     <1>23, <1>24 DEF IInv, Types

\* The copy of the database is removed too, or the destruction fails.
LEMMA RemoveRecoveryStep == IInv /\ RemoveRecovery => IInv'
<1> SUFFICES ASSUME IInv, RemoveRecovery PROVE IInv'
  OBVIOUS
<1>1. /\ admin.op = "destroy" /\ admin.pc \in {"removeRecovery", "removeFailed"}
      /\ Running /\ handle = 0
  BY DEF IInv, RemoveRecovery, PhaseOK, ClosedPcs
<1>2. /\ files' \in [Names -> Refs] /\ files'["db"] = files["db"] /\ files'["tmp"] = files["tmp"]
      /\ files'["recovery"] \in {0, files["recovery"]}
  BY DEF IInv, RemoveRecovery, WithoutRecovery, Types, FileTypes, Names, Refs
<1>3. \/ /\ Goto("migrate") /\ files'["recovery"] = 0 /\ admin.pc = "removeRecovery"
         /\ hist' = [hist EXCEPT !.gone = @ \cup 1..used.vaults]
      \/ GiveUp
  BY <1>1 DEF RemoveRecovery, WithoutRecovery, IInv, Types, FileTypes, Names
<1>4. "migrate" \in Pcs
  BY DEF Pcs, RestorePcs
<1>5. /\ HistTypes' /\ hist'.vault = hist.vault /\ hist'.prev = hist.prev /\ hist'.acked = hist.acked
      /\ hist'.lost = hist.lost /\ hist'.cut = hist.cut
      /\ hist'.late = hist.late /\ hist'.leftover = hist.leftover
      /\ hist'.revived = hist.revived /\ hist'.clobbered = hist.clobbered
      /\ hist.failed => hist'.failed
      /\ \/ hist'.gone = hist.gone
         \/ /\ hist'.gone = hist.gone \cup 1..used.vaults /\ files'["recovery"] = 0
            /\ admin.pc = "removeRecovery"
  <2>1. 1..used.vaults \subseteq Nat
    BY DEF IInv, Types, UsedTypes
  <2> QED
    BY <2>1, <1>3, GaveUp DEF IInv, Types, HistTypes
<1>6. /\ AdminTypes'
      /\ \/ /\ admin'.op = "destroy" /\ admin'.pc = "migrate" /\ admin'.snapshot = admin.snapshot
            /\ files'["recovery"] = 0 /\ admin.pc = "removeRecovery"
         \/ /\ admin'.op = "none" /\ admin'.pc = "idle" /\ admin'.snapshot = Blank /\ hist'.failed
            /\ admin' = NoReplacement
  BY <1>1, <1>3, <1>4, Went, GaveUp, NoAdmin DEF IInv, Types
<1>7. /\ UsedTypes' /\ used'.replacements = used.replacements /\ used'.vaults = used.vaults
      /\ UNCHANGED <<disk, inodes, proc, handle, svc, container, waiting, writer>>
  BY FaultUsed DEF IInv, Types, RemoveRecovery, UsedTypes
<1>8. hist.vault = 0
  BY <1>1 DEF IInv, FilesOK
<1>9. FileTypes'
  BY <1>2, <1>7 DEF FileTypes, IInv, Types
<1>10. ServiceTypes'
  BY <1>1, <1>2, <1>5, <1>6, <1>7 DEF ServiceTypes, IInv, Types
<1>11. AdminTypes'
  BY <1>6 DEF AdminTypes
<1>12. WriterTypes'
  BY <1>1, <1>2, <1>5, <1>6, <1>7 DEF WriterTypes, IInv, Types
<1>13. UsedTypes'
  BY <1>7 DEF UsedTypes
<1>14. HistTypes'
  BY <1>5 DEF HistTypes
<1>15. Allocated'
  BY <1>1, <1>2, <1>5, <1>6, <1>7, Numbers DEF Allocated, Pend, IInv, Types, FileTypes,
     UsedTypes, Names
<1>16. ContentsOK'
  BY <1>5, <1>6, <1>7, Constants DEF ContentsOK, Sound, IInv
<1>17. PhaseOK'
  BY <1>1, <1>2, <1>5, <1>6, <1>7 DEF PhaseOK, StoreOpenBetween, Running, ClosedPcs,
     RestorePcs, DestroyPcs, IInv, Types
<1>18. FilesOK'
  BY <1>1, <1>2, <1>5, <1>6, <1>7 DEF FilesOK, IInv, Types
<1>19. WriterOK'
  BY <1>1, <1>2, <1>5, <1>6, <1>7 DEF IInv, WriterOK, PhaseOK, Cur
<1>20. Kept'
  BY <1>5, <1>8 DEF Kept, Holds
<1>21. Destroyed'
  <2>1. writer.ino = 0 => writer.vault = 0
    BY DEF IInv, WriterOK
  <2>2. 0 \notin hist'.gone /\ \A v \in hist'.gone : 1 <= v /\ v <= used'.vaults
    BY <1>5, <1>7 DEF IInv, Destroyed, Types, UsedTypes, HistTypes
  <2>3. admin.snapshot.vault = 0
    BY <1>1 DEF IInv, PhaseOK
  <2>4. admin.pc = "removeRecovery" => files["db"] = 0
    BY <1>1 DEF IInv, FilesOK
  <2> QED
    BY <2>1, <2>2, <2>3, <2>4, <1>1, <1>2, <1>5, <1>6, <1>7, Constants DEF IInv, Destroyed
<1>22. MarkOK'
  BY <1>6 DEF MarkOK, Comparable
<1> QED
  BY <1>9, <1>10, <1>11, <1>12, <1>13, <1>14, <1>15, <1>16, <1>17, <1>18, <1>19, <1>20,
     <1>21, <1>22 DEF IInv, Types

\* A restore that fails after its candidate was written: the candidate is removed and
\* the previous database is where it was, or left aside, or .recovery is put back.
LEMMA DroppedStep ==
    ASSUME IInv,
           admin.op = "restore", admin.pc \in {"aside", "install"}, handle = 0, Running,
           UNCHANGED <<disk, inodes, proc, handle, svc, container, waiting, writer>>,
           UsedTypes', used'.replacements = used.replacements, used'.vaults = used.vaults,
           AdminTypes', admin'.op = "restore", admin'.pc = "reopen",
           admin'.snapshot = admin.snapshot,
           files' \in [Names -> Refs], files'["tmp"] = 0,
           HistTypes', hist'.vault = hist.vault, hist'.prev = hist.prev, hist'.acked = hist.acked,
           hist'.lost = hist.lost, hist'.gone = hist.gone, hist'.failed = hist.failed,
           hist'.leftover = hist.leftover, hist'.revived = hist.revived,
           hist.cut => hist'.cut, hist.late => hist'.late, hist.clobbered => hist'.clobbered,
           \/ /\ files'["db"] = files["db"] /\ files'["recovery"] = files["recovery"]
              /\ admin.pc = "install" /\ files["db"] = 0 /\ files["recovery"] # 0 => hist'.cut
           \/ /\ files["recovery"] # 0
              /\ files'["db"] = files["recovery"] /\ files'["recovery"] = 0
              /\ files["db"] # 0 => hist'.late /\ (disk[files["db"]].vault # 0 => hist'.clobbered)
    PROVE  IInv'
<1>1. hist'.late \/ Cur' = Cur
  BY DEF Cur
<1>2. {files'["db"], files'["recovery"]} \subseteq {0, files["db"], files["recovery"]}
  OBVIOUS
<1>3. writer.vault # 0 => writer.ino # 0
  BY DEF IInv, WriterOK
<1>4. FileTypes'
  BY DEF FileTypes, IInv, Types
<1>5. ServiceTypes'
  BY DEF ServiceTypes, IInv, Types
<1>6. AdminTypes'
  BY DEF AdminTypes
<1>7. WriterTypes'
  BY DEF WriterTypes, IInv, Types
<1>8. UsedTypes'
  BY DEF UsedTypes
<1>9. HistTypes'
  BY DEF HistTypes
<1>10. Allocated'
  <2>1. \A n \in Names : files'[n] <= inodes'
    <3>1. files["db"] <= inodes /\ files["recovery"] <= inodes /\ 0 <= inodes
      BY Numbers DEF IInv, Allocated, Names, Types, FileTypes
    <3> QED
      BY <3>1 DEF Names
  <2>2. /\ used'.replacements <= MaxReplacements
        /\ inodes' + (IF files'["db"] = 0 THEN 1 ELSE 0) + Pend' <= 1 + 2 * used'.replacements
    BY Numbers DEF IInv, Allocated, Pend, Types, FileTypes, UsedTypes
  <2> QED
    BY <2>1, <2>2 DEF IInv, Allocated
<1>11. ContentsOK'
  BY DEF ContentsOK, Sound, IInv
<1>12. PhaseOK'
  BY DEF PhaseOK, StoreOpenBetween, Running, ClosedPcs, RestorePcs, DestroyPcs, IInv
<1>13. FilesOK'
  BY DEF FilesOK, IInv
<1>14. WriterOK'
  BY <1>2, <1>3 DEF IInv, WriterOK
<1>15. Kept'
  <2> SUFFICES ASSUME hist.vault # 0, ~hist.clobbered, ~hist'.clobbered
               PROVE  Kept'
    BY DEF Kept
  <2>1. CASE files["db"] = 0
    BY <2>1 DEF IInv, Kept, Holds
  <2>2. CASE files["db"] # 0 /\ files'["db"] = files["db"] /\ files'["recovery"] = files["recovery"]
    BY <2>2 DEF IInv, Kept, Holds
  <2>3. CASE files["db"] # 0 /\ files'["db"] = files["recovery"] /\ files'["recovery"] = 0
             /\ files["recovery"] # 0 /\ disk[files["db"]].vault = 0
    BY <2>3 DEF IInv, Kept, Holds
  <2> QED
    BY <2>1, <2>2, <2>3
<1>16. Destroyed'
  <2>1. 0 \notin hist.gone
    BY DEF IInv, Destroyed
  <2> QED
    BY <2>1, <1>2, <1>3 DEF IInv, Destroyed
<1>17. MarkOK'
  BY <1>1 DEF IInv, MarkOK, Comparable
<1> QED
  BY <1>4, <1>5, <1>6, <1>7, <1>8, <1>9, <1>10, <1>11, <1>12, <1>13, <1>14, <1>15, <1>16,
     <1>17 DEF IInv, Types

\* The database is renamed, or os.Stat does not see it, and its log is removed.
LEMMA AsideStep ==
    ASSUME IInv,
           admin.op = "restore", admin.pc = "aside", handle = 0, Running,
           UNCHANGED <<inodes, proc, handle, svc, container, waiting>>, Goto("install"),
           UsedTypes', used'.replacements = used.replacements, used'.vaults = used.vaults,
           NEW i \in Refs, i = files["db"], Unlink(i),
           \/ files' = IF i = 0 THEN files ELSE SetAside(files)
           \/ i # 0 /\ files' = files,
           NEW cl \in BOOLEAN,
           cl = \/ hist.clobbered
                \/ hist.cut /\ files'["db"] # i /\ disk[i].vault = 0
                \/ i # 0 /\ disk'[i].vault # disk[i].vault,
           hist' = [hist EXCEPT !.prev = IF files'["db"] # i THEN i ELSE @, !.clobbered = cl,
                                !.lost = @ \cup LogLost(i)]
    PROVE  IInv'
<1>1. /\ disk' \in [Inodes -> Contents] /\ WriterTypes' /\ LogLost(i) \subseteq Inodes
      /\ \A j \in Inodes :
           /\ disk'[j].schema = disk[j].schema /\ disk'[j].born = disk[j].born
           /\ disk'[j].flushed >= disk[j].flushed /\ disk'[j].flushed <= disk'[j].counter
           /\ disk'[j].counter <= disk[j].counter
           /\ j \notin LogLost(i) => disk'[j] = disk[j]
           /\ disk'[j].vault = disk[j].vault \/ disk'[j].vault = 0
           /\ disk'[j].vault # 0 /\ disk'[j] # disk[j] => disk'[j].counter >= disk[j].born
           /\ disk'[j].vault # disk[j].vault => disk[j].born > disk[j].flushed
      /\ writer'.pc = writer.pc /\ writer'.ino = writer.ino
      /\ \/ LogLost(i) = {} /\ writer' = writer /\ disk' = disk
         \/ /\ LogLost(i) = {i} /\ i # 0 /\ writer.pc = "tx" /\ writer.ino = i
            /\ writer.vault = 0 /\ writer'.detached /\ writer'.vault = disk[i].vault
            /\ writer'.stamped = disk[i].counter
  BY Unlinked
<1>2. /\ files' \in [Names -> Refs] /\ files'["tmp"] = files["tmp"]
      /\ \/ files'["db"] = i /\ files'["recovery"] = files["recovery"]
         \/ i # 0 /\ files'["db"] = 0 /\ files'["recovery"] = i
  BY DEF SetAside, IInv, Types, FileTypes, Names, Refs
<1>3. "install" \in Pcs
  BY DEF Pcs, RestorePcs
<1>4. AdminTypes' /\ admin'.op = "restore" /\ admin'.pc = "install" /\ admin'.snapshot = admin.snapshot
  BY <1>3, Went DEF IInv, Types
<1>5. /\ HistTypes' /\ hist'.vault = hist.vault /\ hist'.acked = hist.acked
      /\ hist'.lost = hist.lost \cup LogLost(i) /\ hist'.gone = hist.gone /\ hist'.cut = hist.cut
      /\ hist'.failed = hist.failed /\ hist'.late = hist.late /\ hist'.leftover = hist.leftover
      /\ hist'.revived = hist.revived
      /\ hist'.prev = IF files'["db"] # i THEN i ELSE hist.prev
      /\ ~hist'.clobbered =>
           /\ ~hist.clobbered /\ ~(hist.cut /\ files'["db"] # i /\ disk[i].vault = 0)
           /\ i # 0 => disk'[i].vault = disk[i].vault
  BY <1>1 DEF IInv, Types, HistTypes
<1>6. Cur' = Cur /\ (i # 0 => Cur = i /\ i \in Inodes)
  BY <1>2, Numbers DEF Cur
<1>7. /\ files["tmp"] # 0 /\ files["tmp"] # i /\ files["tmp"] \in Inodes
      /\ i # 0 => files["recovery"] # i
      /\ disk'[files["tmp"]] = disk[files["tmp"]]
  BY <1>1, Referred DEF IInv, FilesOK
<1>8. LogLost(i) # {} => i # 0 /\ i <= inodes
  BY <1>1 DEF IInv, Allocated, Names
<1>9. FileTypes'
  BY <1>1, <1>2 DEF FileTypes, IInv, Types
<1>10. ServiceTypes'
  BY <1>1, <1>2, <1>4, <1>5 DEF ServiceTypes, IInv, Types
<1>11. AdminTypes'
  BY <1>4 DEF AdminTypes
<1>12. WriterTypes'
  BY <1>1 DEF WriterTypes
<1>13. UsedTypes'
  BY DEF UsedTypes
<1>14. HistTypes'
  BY <1>5 DEF HistTypes
<1>15. Allocated'
  <2>1. /\ \A n \in Names : files'[n] <= inodes'
        /\ writer'.ino <= inodes' /\ hist'.prev <= inodes' /\ handle' <= inodes'
    <3>1. /\ files["db"] <= inodes /\ files["recovery"] <= inodes /\ files["tmp"] <= inodes
          /\ 0 <= inodes
      BY Numbers DEF IInv, Allocated, Names, Types, FileTypes
    <3> QED
      BY <3>1, <1>1, <1>2, <1>5 DEF IInv, Allocated, Names
  <2>2. /\ used'.replacements <= MaxReplacements
        /\ inodes' + (IF files'["db"] = 0 THEN 1 ELSE 0) + Pend' <= 1 + 2 * used'.replacements
    BY <1>2, <1>4, Numbers DEF IInv, Allocated, Pend, Types, FileTypes, UsedTypes
  <2>3. \A j \in Inodes : j > inodes => j \notin LogLost(i)
    BY <1>1, <1>8, Numbers DEF IInv, Types, FileTypes
  <2> QED
    BY <2>1, <2>2, <2>3, <1>1, <1>5 DEF IInv, Allocated
<1>16. ContentsOK'
  <2>1. \A j \in Inodes : Sound(disk'[j])
    <3>1. ASSUME NEW j \in Inodes, disk'[j] # disk[j], disk'[j].vault # 0
          PROVE  disk'[j].counter >= 1 /\ disk'[j].born >= 1 /\ disk'[j].schema
      <4>1. disk[j].vault # 0 /\ disk[j].born >= 1 /\ disk[j].schema
        BY <3>1, <1>1 DEF IInv, ContentsOK, Sound
      <4>2. disk'[j].counter \in Nat /\ disk[j].born \in Nat /\ disk'[j].counter >= disk[j].born
        BY <3>1, <1>1 DEF IInv, Types, FileTypes, Contents
      <4> QED
        BY <4>1, <4>2, <1>1
    <3> QED
      BY <3>1 DEF IInv, ContentsOK, Sound
  <2>2. \A j \in Inodes : j \notin hist'.lost => disk'[j] = disk[j]
    BY <1>1, <1>5
  <2> QED
    BY <2>1, <2>2, <1>1, <1>4, <1>5 DEF IInv, ContentsOK
<1>17. PhaseOK'
  BY <1>4, <1>5 DEF PhaseOK, StoreOpenBetween, Running, ClosedPcs, RestorePcs,
     DestroyPcs, IInv
<1>18. FilesOK'
  BY <1>1, <1>2, <1>4, <1>5, <1>6, <1>7 DEF IInv, FilesOK
<1>19. WriterOK'
  <2>1. writer.ino # 0 => writer.ino \in Inodes
    BY Referred DEF IInv
  <2>2. {files'["db"], files'["recovery"]} \subseteq {0, files["db"], files["recovery"]}
    BY <1>2
  <2>3. CASE LogLost(i) = {}
    BY <2>1, <2>2, <2>3, <1>1, <1>2, <1>5, <1>7 DEF IInv, WriterOK
  <2>4. CASE LogLost(i) # {}
    <3>1. /\ i \in Inodes /\ writer.ino = i /\ writer.pc = "tx" /\ writer'.detached
          /\ writer'.vault = disk[i].vault /\ writer'.stamped = disk[i].counter
          /\ LogLost(i) = {i}
      BY <2>4, <1>1, <1>6
    <3>2. /\ disk'[i].counter <= disk[i].counter /\ disk[i].counter \in Nat
          /\ disk'[i].counter \in Nat /\ disk'[i].schema = disk[i].schema
          /\ disk'[i].born = disk[i].born
          /\ disk[i].vault # 0 => disk[i].schema /\ disk[i].born >= 1
      BY <3>1, <1>1 DEF IInv, ContentsOK, Sound, Types, FileTypes, Contents
    <3>3. disk'[i].vault = disk[i].vault \/ hist'.clobbered
      BY <3>1, <1>5, Numbers
    <3> QED
      BY <3>1, <3>2, <3>3, <1>1, <1>2, <1>5, <1>7 DEF IInv, WriterOK
  <2> QED
    BY <2>3, <2>4
<1>20. Kept'
  <2> SUFFICES ASSUME hist.vault # 0, ~hist.clobbered, ~hist'.clobbered
               PROVE  Kept'
    BY <1>5 DEF Kept
  <2>1. /\ hist.prev # 0 => disk'[hist.prev].vault = disk[hist.prev].vault
        /\ files["recovery"] # 0 => disk'[files["recovery"]].vault = disk[files["recovery"]].vault
        /\ i # 0 => disk'[i].vault = disk[i].vault
    BY <1>1, <1>5, Referred DEF IInv
  <2>2. CASE files'["db"] = i /\ files'["recovery"] = files["recovery"]
    BY <2>1, <2>2, <1>4, <1>5 DEF IInv, Kept, Holds
  <2>3. CASE i # 0 /\ files'["db"] = 0 /\ files'["recovery"] = i
    BY <2>1, <2>3, <1>4, <1>5 DEF IInv, Kept, Holds
  <2> QED
    BY <2>2, <2>3, <1>2
<1>21. Destroyed'
  <2>1. /\ i # 0 => disk'[i].vault \in {0, disk[i].vault}
        /\ files["recovery"] # 0 => disk'[files["recovery"]].vault \in {0, disk[files["recovery"]].vault}
    BY <1>1, <1>6, Referred DEF IInv
  <2>2. 0 \notin hist.gone /\ (writer.ino = 0 => writer.vault = 0)
    BY DEF IInv, Destroyed, WriterOK
  <2> QED
    BY <2>1, <2>2, <1>1, <1>2, <1>4, <1>5, <1>7 DEF IInv, Destroyed
<1>22. MarkOK'
  <2>1. Comparable' => Comparable /\ disk'[Cur] = disk[Cur]
    BY <1>1, <1>4, <1>5, <1>6, Referred DEF IInv, Comparable
  <2> QED
    BY <2>1, <1>1, <1>6 DEF IInv, MarkOK
<1> QED
  BY <1>9, <1>10, <1>11, <1>12, <1>13, <1>14, <1>15, <1>16, <1>17, <1>18, <1>19, <1>20,
     <1>21, <1>22 DEF IInv, Types

\* The database becomes .recovery and its log is removed, or it stays where it is.
LEMMA MoveAsideStep == IInv /\ MoveAside => IInv'
<1> SUFFICES ASSUME IInv, MoveAside PROVE IInv'
  OBVIOUS
<1>1. /\ admin.op = "restore" /\ admin.pc = "aside" /\ Running /\ handle = 0
      /\ files["tmp"] # 0 /\ files["db"] \in Refs
  BY Referred DEF IInv, MoveAside, AtStep, PhaseOK, ClosedPcs, FilesOK
<1>2. UNCHANGED <<inodes, proc, handle, svc, container, waiting>>
  BY DEF MoveAside
<1>3. ASSUME Fault, Goto("reopen"), files' = [files EXCEPT !["tmp"] = 0],
             UNCHANGED <<disk, writer, hist>>
      PROVE  IInv'
  <2>1. /\ files' \in [Names -> Refs] /\ files'["db"] = files["db"]
        /\ files'["recovery"] = files["recovery"] /\ files'["tmp"] = 0
    BY <1>3 DEF IInv, Types, FileTypes, Names, Refs
  <2>2. "reopen" \in Pcs
    BY DEF Pcs, RestorePcs
  <2>3. /\ AdminTypes' /\ admin'.op = "restore" /\ admin'.pc = "reopen"
        /\ admin'.snapshot = admin.snapshot
    BY <1>1, <2>2, <1>3, Went DEF IInv, Types
  <2>4. /\ UsedTypes' /\ used'.replacements = used.replacements /\ used'.vaults = used.vaults
    BY <1>3, FaultUsed DEF IInv, Types
  <2>5. HistTypes'
    BY <1>3 DEF IInv, Types, HistTypes
  <2> QED
    BY <1>1, <1>2, <1>3, <2>1, <2>3, <2>4, <2>5, DroppedStep
<1> DEFINE i == files["db"]
           cl == \/ hist.clobbered
                 \/ hist.cut /\ files'["db"] # i /\ disk[i].vault = 0
                 \/ i # 0 /\ disk'[i].vault # disk[i].vault
<1>4. ASSUME \/ files' = (IF i = 0 THEN files ELSE SetAside(files)) /\ used' = used
             \/ i # 0 /\ Fault /\ files' = files,
             Unlink(i), Goto("install"),
             hist' = [hist EXCEPT !.prev = IF files'["db"] # i THEN i ELSE @, !.clobbered = cl,
                                  !.lost = @ \cup LogLost(i)]
      PROVE  IInv'
  <2>1. cl \in BOOLEAN
    BY DEF IInv, Types, HistTypes
  <2> HIDE DEF cl
  <2>2. cl = (\/ hist.clobbered
              \/ hist.cut /\ files'["db"] # i /\ disk[i].vault = 0
              \/ i # 0 /\ disk'[i].vault # disk[i].vault)
    BY DEF cl
  <2>3. /\ UsedTypes' /\ used'.replacements = used.replacements /\ used'.vaults = used.vaults
    BY <1>4, FaultUsed DEF IInv, Types, UsedTypes
  <2>4. \/ files' = IF i = 0 THEN files ELSE SetAside(files)
        \/ i # 0 /\ files' = files
    BY <1>4
  <2> QED
    BY <1>1, <1>2, <1>4, <2>1, <2>2, <2>3, <2>4, AsideStep
<1>5. \/ /\ \/ files' = (IF i = 0 THEN files ELSE SetAside(files)) /\ used' = used
            \/ i # 0 /\ Fault /\ files' = files
         /\ Unlink(i) /\ Goto("install")
         /\ hist' = [hist EXCEPT !.prev = IF files'["db"] # i THEN i ELSE @, !.clobbered = cl,
                                 !.lost = @ \cup LogLost(i)]
      \/ /\ Fault /\ Goto("reopen") /\ files' = [files EXCEPT !["tmp"] = 0]
         /\ UNCHANGED <<disk, writer, hist>>
  BY DEF MoveAside
<1> QED
  BY <1>3, <1>4, <1>5

\* The candidate is the database.
LEMMA InstalledStep ==
    ASSUME IInv,
           admin.op = "restore", admin.pc = "install", handle = 0, Running,
           UNCHANGED <<disk, inodes, proc, handle, svc, container, waiting, writer, used>>,
           Goto("migrate"), files' = Installed(files), NEW p \in Refs,
           p = IF hist.vault = 0 THEN files["tmp"] ELSE hist.prev,
           NEW b \in BOOLEAN, hist.clobbered => b,
           files["db"] # 0 /\ disk[files["db"]].vault # 0 => b,
           hist' = [hist EXCEPT !.vault = admin.snapshot.vault, !.prev = p, !.clobbered = b]
    PROVE  IInv'
<1> DEFINE t == files["tmp"]
           s == admin.snapshot
<1>1. /\ t \in Inodes /\ disk[t].vault = s.vault
      /\ s.vault # 0 /\ s.vault \in Nat /\ t # 0
      /\ files["recovery"] # t /\ writer.ino # t
  BY Referred, Numbers DEF IInv, PhaseOK, FilesOK, WriterOK, Types, AdminTypes, Contents
<1>2. /\ files' \in [Names -> Refs] /\ files'["db"] = t /\ files'["tmp"] = 0
      /\ files'["recovery"] = files["recovery"]
  BY DEF Installed, IInv, Types, FileTypes, Names, Refs
<1>3. /\ AdminTypes' /\ admin'.op = "restore" /\ admin'.pc = "migrate" /\ admin'.snapshot = s
  <2>1. "migrate" \in Pcs
    BY DEF Pcs, RestorePcs
  <2> QED
    BY <2>1, Went DEF IInv, Types
<1>4. /\ HistTypes' /\ hist'.vault = s.vault /\ hist'.prev = p /\ hist'.acked = hist.acked
      /\ hist'.lost = hist.lost /\ hist'.gone = hist.gone /\ hist'.failed = hist.failed
      /\ hist'.late = hist.late /\ hist'.leftover = hist.leftover
      /\ hist'.revived = hist.revived /\ hist'.clobbered = b
  BY <1>1 DEF IInv, Types, HistTypes
<1> HIDE DEF t, s
<1>5. files["tmp"] = t /\ admin.snapshot = s
  BY DEF t, s
<1>6. FileTypes'
  BY <1>1, <1>2, <1>3, <1>4, <1>5 DEF FileTypes, IInv, Types
<1>7. ServiceTypes'
  BY <1>1, <1>2, <1>3, <1>4, <1>5 DEF ServiceTypes, IInv, Types
<1>8. AdminTypes'
  BY <1>3 DEF AdminTypes
<1>9. WriterTypes'
  BY <1>1, <1>2, <1>3, <1>4, <1>5 DEF WriterTypes, IInv, Types
<1>10. UsedTypes'
  BY <1>1, <1>2, <1>3, <1>4, <1>5 DEF UsedTypes, IInv, Types
<1>11. HistTypes'
  BY <1>4 DEF HistTypes
<1>12. Allocated'
  <2>1. /\ \A n \in Names : files'[n] <= inodes'
        /\ writer'.ino <= inodes' /\ hist'.prev <= inodes' /\ handle' <= inodes'
    <3>1. files["tmp"] <= inodes /\ files["recovery"] <= inodes /\ 0 <= inodes
      BY Numbers DEF IInv, Allocated, Names, Types, FileTypes
    <3> QED
      BY <3>1, <1>2, <1>4, <1>5 DEF IInv, Allocated, Names
  <2>2. /\ used'.replacements <= MaxReplacements
        /\ inodes' + (IF files'["db"] = 0 THEN 1 ELSE 0) + Pend' <= 1 + 2 * used'.replacements
    BY <1>1, <1>2, <1>3, Numbers DEF IInv, Allocated, Pend, Types, FileTypes, UsedTypes
  <2> QED
    BY <2>1, <2>2, <1>4 DEF IInv, Allocated
<1>13. ContentsOK'
  BY <1>1, <1>2, <1>3, <1>4, <1>5 DEF ContentsOK, Sound, IInv, Types
<1>14. PhaseOK'
  BY <1>1, <1>3, <1>4 DEF PhaseOK, StoreOpenBetween, Running, ClosedPcs, RestorePcs,
     DestroyPcs, IInv
<1>15. FilesOK'
  BY <1>1, <1>2, <1>3, <1>4, <1>5 DEF IInv, FilesOK
<1>16. WriterOK'
  BY <1>1, <1>2, <1>4 DEF IInv, WriterOK
<1>17. Kept'
  <2>1. hist.vault # 0 /\ ~b => hist.prev = files["recovery"] /\ disk[hist.prev].vault # 0
    BY <1>1 DEF IInv, Kept
  <2>2. /\ files'["db"] # 0 /\ disk'[files'["db"]].vault = hist'.vault
        /\ admin'.pc = "migrate"
    BY <1>1, <1>2, <1>3, <1>4
  <2>3. ASSUME ~hist'.clobbered
        PROVE  hist'.prev # 0 /\ hist'.prev \in {files'["db"], files'["recovery"]}
               /\ disk'[hist'.prev].vault # 0
    <3>1. CASE hist.vault = 0
      BY <3>1, <1>1, <1>2, <1>4, <1>5
    <3>2. CASE hist.vault # 0
      BY <3>2, <2>3, <2>1, <1>2, <1>4 DEF IInv, Kept
    <3> QED
      BY <3>1, <3>2
  <2> QED
    BY <2>2, <2>3 DEF Kept, Holds
<1>18. Destroyed'
  BY <1>1, <1>2, <1>3, <1>4, <1>5, Referred DEF IInv, Destroyed
<1>19. MarkOK'
  BY <1>3 DEF MarkOK, Comparable, Cur
<1> QED
  BY <1>6, <1>7, <1>8, <1>9, <1>10, <1>11, <1>12, <1>13, <1>14, <1>15, <1>16, <1>17,
     <1>18, <1>19 DEF IInv, Types

\* The candidate becomes the database, or .recovery is put back or left aside.
LEMMA InstallStep == IInv /\ Install => IInv'
<1> SUFFICES ASSUME IInv, Install PROVE IInv'
  OBVIOUS
<1>1. /\ admin.op = "restore" /\ admin.pc = "install" /\ Running /\ handle = 0
      /\ files["tmp"] # files["db"] \/ files["db"] = 0
      /\ files["recovery"] # files["db"] \/ files["db"] = 0
  BY DEF IInv, Install, AtStep, PhaseOK, ClosedPcs, FilesOK
<1>2. UNCHANGED <<disk, inodes, proc, handle, svc, container, waiting, writer>>
  BY DEF Install
<1> DEFINE p == IF hist.vault = 0 THEN files["tmp"] ELSE hist.prev
           over == files'["db"] # files["db"] /\ files["db"] # 0
           b == hist.clobbered \/ (over /\ disk[files["db"]].vault # 0)
           l == hist.late \/ over
           c == hist.cut \/ files["db"] = 0
<1>3. ASSUME files' = Installed(files), Goto("migrate"), used' = used,
             hist' = [hist EXCEPT !.vault = admin.snapshot.vault, !.prev = p, !.clobbered = b]
      PROVE  IInv'
  <2>1. p \in Refs /\ b \in BOOLEAN
    BY Referred DEF IInv, Types, HistTypes
  <2>2. files'["db"] = files["tmp"]
    BY <1>3 DEF Installed, IInv, Types, FileTypes, Names
  <2>3. /\ p = IF hist.vault = 0 THEN files["tmp"] ELSE hist.prev
        /\ hist.clobbered => b
        /\ files["db"] # 0 /\ disk[files["db"]].vault # 0 => b
    BY <1>1, <2>2
  <2> HIDE DEF p, b
  <2> QED
    BY <1>1, <1>2, <1>3, <2>1, <2>3, InstalledStep
<1>4. ASSUME Fault, Goto("reopen"),
             \/ /\ files' = [PutBack(files) EXCEPT !["tmp"] = 0]
                /\ hist' = [hist EXCEPT !.late = l, !.clobbered = b]
             \/ files' = [files EXCEPT !["tmp"] = 0] /\ hist' = [hist EXCEPT !.cut = c]
      PROVE  IInv'
  <2>1. "reopen" \in Pcs
    BY DEF Pcs, RestorePcs
  <2>2. /\ AdminTypes' /\ admin'.op = "restore" /\ admin'.pc = "reopen"
        /\ admin'.snapshot = admin.snapshot
    BY <1>1, <2>1, <1>4, Went DEF IInv, Types
  <2>3. /\ UsedTypes' /\ used'.replacements = used.replacements /\ used'.vaults = used.vaults
    BY <1>4, FaultUsed DEF IInv, Types
  <2>4. /\ b \in BOOLEAN /\ l \in BOOLEAN /\ c \in BOOLEAN
        /\ hist.clobbered => b
        /\ hist.late => l
        /\ hist.cut \/ files["db"] = 0 => c
    BY DEF IInv, Types, HistTypes
  <2>5. over => l /\ (disk[files["db"]].vault # 0 => b)
    OBVIOUS
  <2>6. files["db"] # 0 /\ files'["db"] # files["db"] => over
    OBVIOUS
  <2> HIDE DEF b, l, c, over
  <2>7. /\ HistTypes' /\ hist'.vault = hist.vault /\ hist'.prev = hist.prev
        /\ hist'.acked = hist.acked /\ hist'.lost = hist.lost /\ hist'.gone = hist.gone
        /\ hist'.failed = hist.failed /\ hist'.leftover = hist.leftover
        /\ hist'.revived = hist.revived
        /\ \/ hist'.late = l /\ hist'.clobbered = b /\ hist'.cut = hist.cut
           \/ hist'.late = hist.late /\ hist'.clobbered = hist.clobbered /\ hist'.cut = c
    BY <1>4, <2>4 DEF IInv, Types, HistTypes
  <2>8. CASE /\ files' = [PutBack(files) EXCEPT !["tmp"] = 0]
             /\ hist' = [hist EXCEPT !.late = l, !.clobbered = b]
    <3>1. /\ files' \in [Names -> Refs] /\ files'["tmp"] = 0
          /\ \/ /\ files["recovery"] = 0 /\ files'["db"] = files["db"]
                /\ files'["recovery"] = files["recovery"]
             \/ /\ files["recovery"] # 0
                /\ files'["db"] = files["recovery"] /\ files'["recovery"] = 0
      BY <2>8 DEF PutBack, IInv, Types, FileTypes, Names, Refs
    <3>2. hist'.late = l /\ hist'.clobbered = b
      BY <2>8 DEF IInv, Types, HistTypes
    <3>3. /\ hist.cut => hist'.cut
          /\ hist.late => hist'.late
          /\ hist.clobbered => hist'.clobbered
          /\ files["recovery"] # 0 /\ files["db"] # 0 =>
               hist'.late /\ (disk[files["db"]].vault # 0 => hist'.clobbered)
      BY <3>1, <3>2, <2>4, <2>5, <2>6, <2>7, <1>1
    <3> QED
      BY <3>1, <3>3, <2>2, <2>3, <2>7, <1>1, <1>2, DroppedStep
  <2>9. CASE files' = [files EXCEPT !["tmp"] = 0] /\ hist' = [hist EXCEPT !.cut = c]
    <3>1. /\ files' \in [Names -> Refs] /\ files'["tmp"] = 0
          /\ files'["db"] = files["db"] /\ files'["recovery"] = files["recovery"]
      BY <2>9 DEF IInv, Types, FileTypes, Names, Refs
    <3>2. /\ hist'.late = hist.late /\ hist'.clobbered = hist.clobbered /\ hist'.cut = c
      BY <2>9 DEF IInv, Types, HistTypes
    <3> QED
      BY <3>1, <3>2, <2>2, <2>3, <2>4, <2>7, <1>1, <1>2, DroppedStep
  <2> QED
    BY <2>8, <2>9, <1>4
<1>5. \/ /\ files' = Installed(files) /\ Goto("migrate") /\ used' = used
         /\ hist' = [hist EXCEPT !.vault = admin.snapshot.vault, !.prev = p, !.clobbered = b]
      \/ /\ Fault /\ Goto("reopen")
         /\ \/ /\ files' = [PutBack(files) EXCEPT !["tmp"] = 0]
               /\ hist' = [hist EXCEPT !.late = l, !.clobbered = b]
            \/ files' = [files EXCEPT !["tmp"] = 0] /\ hist' = [hist EXCEPT !.cut = c]
  BY DEF Install, Overwritten
<1> QED
  BY <1>3, <1>4, <1>5

\* The store is open again on whatever is there.
LEMMA ReopenedStep ==
    ASSUME IInv,
           admin.op = "restore", admin.pc = "reopen", handle = 0, Running,
           NEW o, o = OpenDB(disk, files, inodes), disk' = o.disk, files' = o.files,
           inodes' = o.inodes, handle' = o.files["db"], admin' = NoReplacement,
           UNCHANGED <<proc, svc, container, waiting, writer, used, hist>>
    PROVE  IInv'
<1> DEFINE d == o.files["db"]
<1>1. /\ disk' = disk /\ files' \in [Names -> Refs] /\ inodes' \in Inodes /\ handle' = d
      /\ files'["db"] = d
      /\ files'["recovery"] = files["recovery"] /\ files'["tmp"] = files["tmp"] /\ d \in Inodes
      /\ files["db"] # 0 => files' = files /\ inodes' = inodes
      /\ files["db"] = 0 => d = inodes + 1 /\ inodes' = inodes + 1 /\ disk[d] = Blank
  BY Opened DEF IInv
<1>2. d \in Nat /\ d # 0 /\ inodes \in Nat /\ inodes' \in Nat
  BY <1>1, Numbers DEF IInv, Types, FileTypes
<1>3. AdminTypes' /\ admin'.pc = "idle" /\ admin'.op = "none" /\ admin'.snapshot = Blank
  BY NoAdmin
<1> HIDE DEF d
<1>4. /\ files["recovery"] <= inodes /\ files["tmp"] <= inodes /\ files["db"] <= inodes
      /\ writer.ino <= inodes /\ hist.prev <= inodes
      /\ files["recovery"] \in Nat /\ files["tmp"] \in Nat /\ writer.ino \in Nat
      /\ hist.prev \in Nat
  BY Numbers DEF IInv, Allocated, Names, Types, FileTypes, WriterTypes, HistTypes
<1>5. files["db"] = 0 =>
        /\ files["recovery"] # d /\ files["tmp"] # d /\ writer.ino # d /\ hist.prev # d
        /\ disk[d].vault = 0 /\ disk[d].born <= disk[d].flushed /\ ~disk[d].schema
  BY <1>1, <1>2, <1>4, Constants
<1>6. Cur' = d
  BY <1>1, <1>2 DEF Cur
<1>7. FileTypes'
  BY <1>1, Numbers DEF FileTypes, IInv, Types, Refs
<1>8. ServiceTypes'
  BY <1>1, <1>2, <1>3, <1>5 DEF ServiceTypes, IInv, Types
<1>9. AdminTypes'
  BY <1>3 DEF AdminTypes
<1>10. WriterTypes'
  BY <1>1, <1>2, <1>3, <1>5 DEF WriterTypes, IInv, Types
<1>11. UsedTypes'
  BY <1>1, <1>2, <1>3, <1>5 DEF UsedTypes, IInv, Types
<1>12. HistTypes'
  BY <1>1, <1>2, <1>3, <1>5 DEF HistTypes, IInv, Types
<1>13. Allocated'
  <2>1. inodes <= inodes' /\ d <= inodes'
    BY <1>1, <1>2, <1>4 DEF IInv, Allocated
  <2>2. \A n \in Names : files'[n] <= inodes'
    BY <2>1, <1>1, <1>2, <1>4 DEF Names
  <2>3. \A i \in Inodes : i > inodes' => i > inodes
    BY <2>1, <1>2, Numbers
  <2>4. inodes' + (IF files'["db"] = 0 THEN 1 ELSE 0) + Pend' <= 1 + 2 * used'.replacements
    BY <1>1, <1>2, <1>3 DEF IInv, Allocated, Pend, Types, UsedTypes
  <2> QED
    BY <2>1, <2>2, <2>3, <2>4, <1>1, <1>2, <1>4 DEF IInv, Allocated
<1>14. ContentsOK'
  BY <1>1, <1>3, Constants DEF ContentsOK, Sound, IInv
<1>15. PhaseOK'
  BY <1>1, <1>2, <1>3, <1>5 DEF PhaseOK, StoreOpenBetween, Running, ClosedPcs,
     RestorePcs, DestroyPcs, IInv, Types
<1>16. FilesOK'
  BY <1>1, <1>2, <1>3, <1>5 DEF FilesOK, IInv, Types
<1>17. WriterOK'
  <2>1. disk[d].born \in Nat /\ disk[d].flushed \in Nat
    BY <1>1 DEF IInv, Types, FileTypes, Contents
  <2>2. CASE files["db"] = 0
    BY <2>1, <2>2, <1>1, <1>5, <1>6 DEF IInv, WriterOK
  <2>3. CASE files["db"] # 0
    BY <2>3, <1>1, <1>6 DEF IInv, WriterOK, Cur
  <2> QED
    BY <2>2, <2>3
<1>18. Kept'
  BY <1>1, <1>3, <1>2, <1>5 DEF IInv, Kept, Holds
<1>19. Destroyed'
  BY <1>1, <1>2, <1>3, <1>5, Constants DEF IInv, Destroyed
<1>20. MarkOK'
  <2>1. CASE files["db"] = 0
    BY <2>1, <1>1, <1>5, <1>6 DEF MarkOK, Comparable
  <2>2. CASE files["db"] # 0
    BY <2>2, <1>1, <1>6 DEF IInv, MarkOK, Comparable, Cur
  <2> QED
    BY <2>1, <2>2
<1> QED
  BY <1>7, <1>8, <1>9, <1>10, <1>11, <1>12, <1>13, <1>14, <1>15, <1>16, <1>17, <1>18,
     <1>19, <1>20 DEF IInv, Types

\* A request that ends with the store closed.
LEMMA AbandonedStep ==
    ASSUME IInv,
           admin.pc \notin {"idle", "aside", "install"}, Running, Fault, GiveUp,
           handle = 0, UNCHANGED <<disk, files, inodes, handle, proc, svc, container, waiting, writer>>
    PROVE  IInv'
<1>1. /\ AdminTypes' /\ admin' = NoReplacement /\ admin'.pc = "idle" /\ admin'.op = "none"
      /\ admin'.snapshot = Blank
  BY GaveUp, NoAdmin DEF IInv, Types
<1>2. /\ HistTypes' /\ hist'.failed
      /\ hist'.vault = hist.vault /\ hist'.prev = hist.prev /\ hist'.acked = hist.acked
      /\ hist'.lost = hist.lost /\ hist'.gone = hist.gone /\ hist'.cut = hist.cut
      /\ hist'.late = hist.late /\ hist'.leftover = hist.leftover
      /\ hist'.revived = hist.revived /\ hist'.clobbered = hist.clobbered
  BY GaveUp DEF IInv, Types
<1>3. UsedTypes' /\ used'.replacements = used.replacements /\ used'.vaults = used.vaults
  BY FaultUsed DEF IInv, Types
<1>4. FileTypes'
  BY <1>1, <1>2, <1>3 DEF FileTypes, IInv, Types
<1>5. ServiceTypes'
  BY <1>1, <1>2, <1>3 DEF ServiceTypes, IInv, Types
<1>6. AdminTypes'
  BY <1>1 DEF AdminTypes
<1>7. WriterTypes'
  BY <1>1, <1>2, <1>3 DEF WriterTypes, IInv, Types
<1>8. UsedTypes'
  BY <1>3 DEF UsedTypes
<1>9. HistTypes'
  BY <1>2 DEF HistTypes
<1>10. Allocated'
  BY <1>1, <1>2, <1>3, Numbers DEF Allocated, Pend, IInv, Types, FileTypes, UsedTypes
<1>11. ContentsOK'
  BY <1>1, <1>2, Constants DEF ContentsOK, Sound, IInv
<1>12. PhaseOK'
  BY <1>1, <1>2, <1>3 DEF PhaseOK, StoreOpenBetween, Running, ClosedPcs, RestorePcs,
     DestroyPcs, IInv, Types
<1>13. FilesOK'
  BY <1>1, <1>2, <1>3 DEF FilesOK, IInv, Types
<1>14. WriterOK'
  BY <1>1, <1>2, <1>3 DEF WriterOK, Cur, IInv, Types
<1>15. Kept'
  BY <1>1, <1>2, <1>3 DEF Kept, Holds, IInv, Types
<1>16. Destroyed'
  BY <1>1, <1>2, <1>3, Constants DEF Destroyed, IInv
<1>17. MarkOK'
  BY <1>2 DEF MarkOK, Comparable, Cur
<1> QED
  BY <1>4, <1>5, <1>6, <1>7, <1>8, <1>9, <1>10, <1>11, <1>12, <1>13, <1>14, <1>15, <1>16,
     <1>17 DEF IInv, Types

\* A failed restore opens the store again, or not even that.
LEMMA ReopenStep == IInv /\ Reopen => IInv'
<1> SUFFICES ASSUME IInv, Reopen PROVE IInv'
  OBVIOUS
<1>1. /\ admin.op = "restore" /\ admin.pc = "reopen" /\ Running /\ handle = 0
      /\ UNCHANGED <<proc, svc, container, waiting, writer>>
  BY DEF IInv, Reopen, AtStep, PhaseOK, ClosedPcs
<1> DEFINE o == OpenDB(disk, files, inodes)
<1>2. \/ /\ disk' = o.disk /\ files' = o.files /\ inodes' = o.inodes /\ handle' = o.files["db"]
         /\ admin' = NoReplacement /\ UNCHANGED <<used, hist>>
      \/ /\ Fault /\ GiveUp /\ UNCHANGED <<disk, files, inodes, handle>>
  BY DEF Reopen, Swap
<1> HIDE DEF o
<1>3. ASSUME disk' = o.disk, files' = o.files, inodes' = o.inodes, handle' = o.files["db"],
             admin' = NoReplacement, UNCHANGED <<used, hist>>
      PROVE  IInv'
  <2>1. o = OpenDB(disk, files, inodes)
    BY DEF o
  <2> QED
    BY <1>1, <1>3, <2>1, ReopenedStep
<1>4. ASSUME Fault, GiveUp, UNCHANGED <<disk, files, inodes, handle>>
      PROVE  IInv'
  BY <1>1, <1>4, AbandonedStep
<1> QED
  BY <1>2, <1>3, <1>4

\* The log of the database is removed, and the database too unless that failed.
LEMMA RemovedStep ==
    ASSUME IInv,
           admin.op = "destroy", admin.pc = "remove", handle = 0, Running,
           UNCHANGED <<inodes, proc, handle, svc, container, waiting>>,
           NEW i \in Refs, i = files["db"], Unlink(i),
           AdminTypes', admin'.op = "destroy", admin'.snapshot = admin.snapshot,
           UsedTypes', used'.replacements = used.replacements, used'.vaults = used.vaults,
           files' \in [Names -> Refs],
           files'["recovery"] = files["recovery"], files'["tmp"] = files["tmp"],
           \/ admin'.pc = "removeRecovery" /\ files'["db"] = 0
           \/ admin'.pc = "removeFailed" /\ files' = files,
           NEW b \in BOOLEAN, hist.clobbered => b,
           files'["db"] # 0 /\ disk'[i].vault # disk[i].vault => b,
           hist' = [hist EXCEPT !.vault = 0, !.clobbered = b, !.lost = @ \cup LogLost(i)]
    PROVE  IInv'
<1>1. /\ disk' \in [Inodes -> Contents] /\ WriterTypes' /\ LogLost(i) \subseteq Inodes
      /\ \A j \in Inodes :
           /\ disk'[j].schema = disk[j].schema /\ disk'[j].born = disk[j].born
           /\ disk'[j].flushed >= disk[j].flushed /\ disk'[j].flushed <= disk'[j].counter
           /\ disk'[j].counter <= disk[j].counter
           /\ j \notin LogLost(i) => disk'[j] = disk[j]
           /\ disk'[j].vault = disk[j].vault \/ disk'[j].vault = 0
           /\ disk'[j].vault # 0 /\ disk'[j] # disk[j] => disk'[j].counter >= disk[j].born
      /\ writer'.pc = writer.pc /\ writer'.ino = writer.ino
      /\ \/ LogLost(i) = {} /\ writer' = writer /\ disk' = disk
         \/ /\ LogLost(i) = {i} /\ i # 0 /\ writer.pc = "tx" /\ writer.ino = i
            /\ writer.vault = 0 /\ writer'.detached /\ writer'.vault = disk[i].vault
            /\ writer'.stamped = disk[i].counter
  BY Unlinked
<1>2. /\ HistTypes' /\ hist'.vault = 0 /\ hist'.acked = hist.acked /\ hist'.prev = hist.prev
      /\ hist'.lost = hist.lost \cup LogLost(i) /\ hist'.gone = hist.gone /\ hist'.cut = hist.cut
      /\ hist'.failed = hist.failed /\ hist'.late = hist.late /\ hist'.leftover = hist.leftover
      /\ hist'.revived = hist.revived /\ hist'.clobbered = b
  BY <1>1 DEF IInv, Types, HistTypes
<1>3. /\ files["tmp"] # 0 => hist.leftover
      /\ files'["db"] \in {0, i} /\ (i # 0 => i \in Inodes)
      /\ i # 0 => files["recovery"] # i /\ files["tmp"] # i
  BY Numbers DEF IInv, PhaseOK, FilesOK, Destroyed
<1>4. LogLost(i) # {} => i # 0 /\ i <= inodes
  BY <1>1 DEF IInv, Allocated, Names
<1>5. FileTypes'
  BY <1>1 DEF FileTypes, IInv, Types
<1>6. ServiceTypes'
  BY <1>1, <1>2, <1>3 DEF ServiceTypes, IInv, Types
<1>7. AdminTypes'
  BY DEF AdminTypes
<1>8. WriterTypes'
  BY <1>1 DEF WriterTypes
<1>9. UsedTypes'
  BY DEF UsedTypes
<1>10. HistTypes'
  BY <1>2 DEF HistTypes
<1>11. Allocated'
  <2>1. /\ \A n \in Names : files'[n] <= inodes'
        /\ writer'.ino <= inodes' /\ hist'.prev <= inodes' /\ handle' <= inodes'
    <3>1. /\ files["db"] <= inodes /\ files["recovery"] <= inodes /\ files["tmp"] <= inodes
          /\ 0 <= inodes
      BY Numbers DEF IInv, Allocated, Names, Types, FileTypes
    <3> QED
      BY <3>1, <1>1, <1>2, <1>3 DEF IInv, Allocated, Names
  <2>2. /\ used'.replacements <= MaxReplacements
        /\ inodes' + (IF files'["db"] = 0 THEN 1 ELSE 0) + Pend' <= 1 + 2 * used'.replacements
    BY Numbers DEF IInv, Allocated, Pend, Types, FileTypes, UsedTypes
  <2>3. \A j \in Inodes : j > inodes => j \notin LogLost(i)
    BY <1>1, <1>4, Numbers DEF IInv, Types, FileTypes
  <2> QED
    BY <2>1, <2>2, <2>3, <1>1, <1>2 DEF IInv, Allocated
<1>12. ContentsOK'
  <2>1. \A j \in Inodes : Sound(disk'[j])
    <3>1. ASSUME NEW j \in Inodes, disk'[j] # disk[j], disk'[j].vault # 0
          PROVE  disk'[j].counter >= 1 /\ disk'[j].born >= 1 /\ disk'[j].schema
      <4>1. disk[j].vault # 0 /\ disk[j].born >= 1 /\ disk[j].schema
        BY <3>1, <1>1 DEF IInv, ContentsOK, Sound
      <4>2. disk'[j].counter \in Nat /\ disk[j].born \in Nat /\ disk'[j].counter >= disk[j].born
        BY <3>1, <1>1 DEF IInv, Types, FileTypes, Contents
      <4> QED
        BY <4>1, <4>2, <1>1
    <3> QED
      BY <3>1 DEF IInv, ContentsOK, Sound
  <2>2. \A j \in Inodes : j \notin hist'.lost => disk'[j] = disk[j]
    BY <1>1, <1>2
  <2> QED
    BY <2>1, <2>2, <1>1, <1>2 DEF IInv, ContentsOK
<1>13. PhaseOK'
  BY <1>2, <1>3 DEF PhaseOK, StoreOpenBetween, Running, ClosedPcs, RestorePcs,
     DestroyPcs, IInv
<1>14. FilesOK'
  BY <1>1, <1>2, <1>3 DEF IInv, FilesOK
<1>15. WriterOK'
  <2>1. writer.ino # 0 => writer.ino \in Inodes
    BY Referred DEF IInv
  <2>2. CASE LogLost(i) = {}
    BY <2>2, <1>1, <1>2, <1>3 DEF IInv, WriterOK
  <2>3. CASE LogLost(i) # {}
    <3>1. /\ i \in Inodes /\ writer.ino = i /\ writer.pc = "tx" /\ writer'.detached
          /\ writer'.vault = disk[i].vault /\ writer'.stamped = disk[i].counter
          /\ LogLost(i) = {i} /\ i # 0
      BY <2>3, <1>1, <1>3
    <3>2. /\ disk'[i].counter <= disk[i].counter /\ disk[i].counter \in Nat
          /\ disk'[i].counter \in Nat /\ disk'[i].schema = disk[i].schema
          /\ disk'[i].born = disk[i].born /\ disk'[i].vault \in {0, disk[i].vault}
          /\ disk[i].vault # 0 => disk[i].schema /\ disk[i].born >= 1
      BY <3>1, <1>1 DEF IInv, ContentsOK, Sound, Types, FileTypes, Contents
    <3> QED
      BY <3>1, <3>2, <1>1, <1>2, <1>3 DEF IInv, WriterOK
  <2> QED
    BY <2>2, <2>3
<1>16. Kept'
  BY <1>2 DEF Kept, Holds
<1>17. Destroyed'
  <2>1. /\ i # 0 => disk'[i].vault \in {0, disk[i].vault}
        /\ files["recovery"] # 0 => disk'[files["recovery"]] = disk[files["recovery"]]
    BY <1>1, <1>3, Referred DEF IInv
  <2>2. 0 \notin hist.gone /\ (writer.ino = 0 => writer.vault = 0)
    BY DEF IInv, Destroyed, WriterOK
  <2> QED
    BY <2>1, <2>2, <1>1, <1>2, <1>3 DEF IInv, Destroyed
<1>18. MarkOK'
  BY DEF MarkOK, Comparable
<1> QED
  BY <1>5, <1>6, <1>7, <1>8, <1>9, <1>10, <1>11, <1>12, <1>13, <1>14, <1>15, <1>16,
     <1>17, <1>18 DEF IInv, Types

\* The database and its log are removed, or the removal of the database fails.
LEMMA RemoveDBStep == IInv /\ RemoveDB => IInv'
<1> SUFFICES ASSUME IInv, RemoveDB PROVE IInv'
  OBVIOUS
<1>1. /\ admin.op = "destroy" /\ admin.pc = "remove" /\ Running /\ handle = 0
      /\ files["db"] \in Refs
  BY Referred DEF IInv, RemoveDB, AtStep, PhaseOK, ClosedPcs
<1> DEFINE i == files["db"]
           b == hist.clobbered \/ (files'["db"] # 0 /\ disk'[i].vault # disk[i].vault)
<1>2. /\ UNCHANGED <<inodes, proc, handle, svc, container, waiting>> /\ Unlink(i)
      /\ hist' = [hist EXCEPT !.vault = 0, !.clobbered = b, !.lost = @ \cup LogLost(i)]
  BY DEF RemoveDB
<1>3. "removeRecovery" \in Pcs /\ "removeFailed" \in Pcs
  BY DEF Pcs, DestroyPcs
<1>4. /\ AdminTypes' /\ admin'.op = "destroy" /\ admin'.snapshot = admin.snapshot
      /\ UsedTypes' /\ used'.replacements = used.replacements /\ used'.vaults = used.vaults
      /\ \/ admin'.pc = "removeRecovery" /\ files' = [files EXCEPT !["db"] = 0]
         \/ admin'.pc = "removeFailed" /\ files' = files
  BY <1>1, <1>3, Went, FaultUsed DEF IInv, Types, UsedTypes, RemoveDB
<1>5. /\ files' \in [Names -> Refs]
      /\ files'["recovery"] = files["recovery"] /\ files'["tmp"] = files["tmp"]
      /\ \/ admin'.pc = "removeRecovery" /\ files'["db"] = 0
         \/ admin'.pc = "removeFailed" /\ files' = files
  BY <1>4 DEF IInv, Types, FileTypes, Names, Refs
<1>6. /\ b \in BOOLEAN
      /\ hist.clobbered => b
      /\ files'["db"] # 0 /\ disk'[i].vault # disk[i].vault => b
  BY DEF IInv, Types, HistTypes
<1> HIDE DEF b
<1> QED
  BY <1>1, <1>2, <1>4, <1>5, <1>6, RemovedStep

\* The database is open again, with its tables.
LEMMA SwappedStep ==
    ASSUME IInv,
           admin.pc = "migrate", handle = 0, Running,
           NEW o, o = OpenDB(disk, files, inodes), disk' = Migrate(o.disk, o.files["db"]),
           files' = o.files, inodes' = o.inodes, handle' = o.files["db"], Goto("reset"),
           UNCHANGED <<proc, svc, container, waiting, writer, used, hist>>
    PROVE  IInv'
<1> DEFINE d == o.files["db"]
<1>1. /\ o.disk = disk /\ files' \in [Names -> Refs] /\ inodes' \in Inodes /\ handle' = d
      /\ files'["db"] = d
      /\ files'["recovery"] = files["recovery"] /\ files'["tmp"] = files["tmp"] /\ d \in Inodes
      /\ files["db"] # 0 => files' = files /\ inodes' = inodes
      /\ files["db"] = 0 => d = inodes + 1 /\ inodes' = inodes + 1 /\ disk[d] = Blank
  BY Opened DEF IInv
<1>2. /\ disk' \in [Inodes -> Contents] /\ disk'[d].schema
      /\ \A j \in Inodes :
           /\ disk'[j].vault = disk[j].vault /\ disk'[j].counter = disk[j].counter
           /\ disk'[j].flushed = disk[j].flushed /\ disk'[j].born = disk[j].born
           /\ disk'[j].schema = disk[j].schema \/ disk'[j].schema
           /\ j # d => disk'[j] = disk[j]
  BY <1>1, Migrated DEF IInv, Types
<1>3. d \in Nat /\ d # 0 /\ inodes \in Nat /\ inodes' \in Nat
  BY <1>1, Numbers DEF IInv, Types, FileTypes
<1>4. "reset" \in Pcs
  BY DEF Pcs, RestorePcs
<1>5. /\ AdminTypes' /\ admin'.pc = "reset" /\ admin'.op = admin.op
      /\ admin'.snapshot = admin.snapshot
  BY <1>4, Went DEF IInv, Types
<1> HIDE DEF d
<1>6. /\ files["recovery"] <= inodes /\ files["tmp"] <= inodes /\ files["db"] <= inodes
      /\ writer.ino <= inodes /\ hist.prev <= inodes
      /\ files["recovery"] \in Nat /\ files["tmp"] \in Nat /\ writer.ino \in Nat
      /\ hist.prev \in Nat
  BY Numbers DEF IInv, Allocated, Names, Types, FileTypes, WriterTypes, HistTypes
<1>7. files["db"] = 0 =>
        /\ files["recovery"] # d /\ files["tmp"] # d /\ writer.ino # d /\ hist.prev # d
        /\ disk[d].vault = 0 /\ disk[d].born <= disk[d].flushed
  BY <1>1, <1>3, <1>6, Constants
<1>8. Cur' = d /\ (files["db"] # 0 => d = files["db"])
  BY <1>1, <1>3 DEF Cur
<1>9. /\ admin.op \in {"restore", "destroy"} /\ svc'.loaded = svc.loaded
      /\ admin.op = "restore" => files["db"] # 0
      /\ admin.op = "destroy" =>
           files["db"] = 0 /\ files["recovery"] = 0 /\ hist.vault = 0
  BY DEF IInv, Types, AdminTypes, PhaseOK, FilesOK
<1>10. FileTypes'
  BY <1>1, <1>2, Numbers DEF FileTypes, IInv, Types, Refs
<1>11. ServiceTypes'
  BY <1>1, <1>2, <1>3, <1>5, <1>7, <1>9 DEF ServiceTypes, IInv, Types
<1>12. AdminTypes'
  BY <1>5 DEF AdminTypes
<1>13. WriterTypes'
  BY <1>1, <1>2, <1>3, <1>5, <1>7, <1>9 DEF WriterTypes, IInv, Types
<1>14. UsedTypes'
  BY <1>1, <1>2, <1>3, <1>5, <1>7, <1>9 DEF UsedTypes, IInv, Types
<1>15. HistTypes'
  BY <1>1, <1>2, <1>3, <1>5, <1>7, <1>9 DEF HistTypes, IInv, Types
<1>16. Allocated'
  <2>1. inodes <= inodes' /\ d <= inodes'
    BY <1>1, <1>3, <1>6
  <2>2. \A n \in Names : files'[n] <= inodes'
    BY <2>1, <1>1, <1>3, <1>6 DEF Names
  <2>3. \A i \in Inodes : i > inodes' => i > inodes /\ disk'[i] = disk[i]
    BY <2>1, <1>1, <1>2, <1>3, Numbers
  <2>4. /\ used'.replacements <= MaxReplacements
        /\ inodes' + (IF files'["db"] = 0 THEN 1 ELSE 0) + Pend' <= 1 + 2 * used'.replacements
    BY <1>1, <1>3, <1>5 DEF IInv, Allocated, Pend, Types, UsedTypes
  <2>5. writer.ino <= inodes' /\ hist.prev <= inodes'
    BY <2>1, <1>1, <1>3, <1>6
  <2> QED
    BY <2>1, <2>2, <2>3, <2>4, <2>5, <1>1, <1>3 DEF IInv, Allocated
<1>17. ContentsOK'
  BY <1>2, <1>5, Constants DEF ContentsOK, Sound, IInv
<1>18. PhaseOK'
  BY <1>1, <1>3, <1>5, <1>9 DEF PhaseOK, StoreOpenBetween, Running, ClosedPcs,
     RestorePcs, DestroyPcs, IInv
<1>19. FilesOK'
  BY <1>1, <1>2, <1>3, <1>5, <1>7, <1>8, <1>9, Numbers DEF IInv, FilesOK, Types,
     HistTypes
<1>20. WriterOK'
  <2>1. writer.ino # 0 => writer.ino \in Inodes
    BY Referred DEF IInv
  <2>2. CASE files["db"] = 0
    BY <2>1, <2>2, <1>2, <1>1, <1>7, <1>8, <1>9 DEF IInv, WriterOK
  <2>3. CASE files["db"] # 0
    BY <2>1, <2>3, <1>1, <1>2, <1>8 DEF IInv, WriterOK, Cur
  <2> QED
    BY <2>2, <2>3
<1>21. Kept'
  <2>1. /\ writer.vault # 0 => disk'[writer.ino].vault = disk[writer.ino].vault
        /\ files["recovery"] # 0 => disk'[files["recovery"]].vault = disk[files["recovery"]].vault
        /\ hist.prev # 0 => disk'[hist.prev].vault = disk[hist.prev].vault
    BY <1>2, Referred DEF IInv, WriterOK
  <2> QED
    BY <2>1, <1>1, <1>2, <1>5, <1>8, <1>9 DEF IInv, Kept, Holds
<1>22. Destroyed'
  <2>1. /\ disk'[d].vault = disk[d].vault /\ 0 \notin hist.gone
        /\ files["recovery"] # 0 => disk'[files["recovery"]].vault = disk[files["recovery"]].vault
    BY <1>1, <1>2, Referred DEF IInv, Destroyed
  <2>2. writer.ino = d => files["db"] # 0
    BY <1>7
  <2> QED
    BY <2>1, <2>2, <1>1, <1>5, <1>7, <1>8 DEF IInv, Destroyed
<1>23. MarkOK'
  BY <1>5 DEF MarkOK, Comparable, Cur
<1> QED
  BY <1>10, <1>11, <1>12, <1>13, <1>14, <1>15, <1>16, <1>17, <1>18, <1>19, <1>20, <1>21,
     <1>22, <1>23 DEF IInv, Types

\* The new database of a destruction is there, but not migrated.
LEMMA LeftOpenStep ==
    ASSUME IInv,
           admin.pc = "migrate", admin.op = "destroy", files["db"] = 0, handle = 0, Running,
           NEW o, o = OpenDB(disk, files, inodes), disk' = o.disk, files' = o.files,
           inodes' = o.inodes, Fault, GiveUp,
           UNCHANGED <<proc, handle, svc, container, waiting, writer>>
    PROVE  IInv'
<1> DEFINE d == o.files["db"]
<1>1. /\ disk' = disk /\ files' \in [Names -> Refs] /\ inodes' \in Inodes
      /\ files'["db"] = d
      /\ files'["recovery"] = 0 /\ files'["tmp"] = files["tmp"] /\ d \in Inodes
      /\ d = inodes + 1 /\ inodes' = inodes + 1 /\ disk[d] = Blank
      /\ hist.vault = 0
  BY Opened DEF IInv, PhaseOK, FilesOK
<1>2. /\ AdminTypes' /\ admin' = NoReplacement /\ admin'.pc = "idle" /\ admin'.op = "none"
      /\ admin'.snapshot = Blank
  BY GaveUp, NoAdmin DEF IInv, Types
<1>3. /\ HistTypes' /\ hist'.failed
      /\ hist'.vault = hist.vault /\ hist'.prev = hist.prev /\ hist'.acked = hist.acked
      /\ hist'.lost = hist.lost /\ hist'.gone = hist.gone /\ hist'.cut = hist.cut
      /\ hist'.late = hist.late /\ hist'.leftover = hist.leftover
      /\ hist'.revived = hist.revived /\ hist'.clobbered = hist.clobbered
  BY GaveUp DEF IInv, Types
<1>4. UsedTypes' /\ used'.replacements = used.replacements /\ used'.vaults = used.vaults
  BY FaultUsed DEF IInv, Types
<1>5. d \in Nat /\ d # 0 /\ inodes \in Nat /\ inodes' \in Nat
  BY <1>1, Numbers DEF IInv, Types, FileTypes
<1> HIDE DEF d
<1>6. /\ files["tmp"] <= inodes /\ writer.ino <= inodes /\ hist.prev <= inodes
      /\ files["tmp"] \in Nat /\ writer.ino \in Nat /\ hist.prev \in Nat
  BY Numbers DEF IInv, Allocated, Names, Types, FileTypes, WriterTypes, HistTypes
<1>7. /\ files["tmp"] # d /\ writer.ino # d /\ hist.prev # d
      /\ disk[d].vault = 0 /\ disk[d].born <= disk[d].flushed
  BY <1>1, <1>5, <1>6, Constants
<1>8. Cur' = d
  BY <1>1, <1>5 DEF Cur
<1>9. FileTypes'
  BY <1>1, Numbers DEF FileTypes, IInv, Types, Refs
<1>10. ServiceTypes'
  BY <1>1, <1>2, <1>3, <1>5, <1>7 DEF ServiceTypes, IInv, Types
<1>11. AdminTypes'
  BY <1>2 DEF AdminTypes
<1>12. WriterTypes'
  BY <1>1, <1>2, <1>3, <1>5, <1>7 DEF WriterTypes, IInv, Types
<1>13. UsedTypes'
  BY <1>4 DEF UsedTypes
<1>14. HistTypes'
  BY <1>3 DEF HistTypes
<1>15. Allocated'
  <2>1. \A n \in Names : files'[n] <= inodes'
    BY <1>1, <1>5, <1>6 DEF Names
  <2>2. \A i \in Inodes : i > inodes' => i > inodes
    BY <1>1, <1>5, Numbers
  <2>3. /\ used'.replacements <= MaxReplacements
        /\ inodes' + (IF files'["db"] = 0 THEN 1 ELSE 0) + Pend' <= 1 + 2 * used'.replacements
    BY <1>1, <1>2, <1>4, <1>5 DEF IInv, Allocated, Pend, Types, UsedTypes
  <2>4. writer.ino <= inodes' /\ hist.prev <= inodes' /\ handle <= inodes'
    BY <1>1, <1>5, <1>6
  <2> QED
    BY <2>1, <2>2, <2>3, <2>4, <1>1, <1>3 DEF IInv, Allocated
<1>16. ContentsOK'
  BY <1>1, <1>2, <1>3, Constants DEF ContentsOK, Sound, IInv
<1>17. PhaseOK'
  BY <1>1, <1>2, <1>3, <1>5, <1>7 DEF PhaseOK, StoreOpenBetween, Running, ClosedPcs,
     RestorePcs, DestroyPcs, IInv, Types
<1>18. FilesOK'
  BY <1>1, <1>2, <1>3, <1>5, <1>7 DEF FilesOK, IInv, Types
<1>19. WriterOK'
  BY <1>1, <1>3, <1>7, <1>8 DEF WriterOK, Cur, IInv
<1>20. Kept'
  BY <1>1, <1>3 DEF Kept, Holds
<1>21. Destroyed'
  <2>1. 0 \notin hist.gone /\ admin'.snapshot.vault = 0
    BY <1>2, Constants DEF IInv, Destroyed
  <2> QED
    BY <2>1, <1>1, <1>2, <1>3, <1>4, <1>7 DEF IInv, Destroyed
<1>22. MarkOK'
  BY <1>3 DEF MarkOK, Comparable, Cur
<1> QED
  BY <1>9, <1>10, <1>11, <1>12, <1>13, <1>14, <1>15, <1>16, <1>17, <1>18, <1>19, <1>20,
     <1>21, <1>22 DEF IInv, Types

\* The database is opened, migrated and served, or the request fails at that.
LEMMA OpenMigratedStep == IInv /\ OpenMigrated => IInv'
<1> SUFFICES ASSUME IInv, OpenMigrated PROVE IInv'
  OBVIOUS
<1>1. /\ Running /\ admin.pc = "migrate" /\ handle = 0
      /\ UNCHANGED <<proc, svc, container, waiting, writer>>
      /\ admin.op \in {"restore", "destroy"}
  BY DEF IInv, OpenMigrated, PhaseOK, ClosedPcs, Types, AdminTypes
<1> DEFINE o == OpenDB(disk, files, inodes)
<1>2. /\ files' = o.files /\ inodes' = o.inodes
      /\ \/ /\ disk' = Migrate(o.disk, o.files["db"]) /\ handle' = o.files["db"]
            /\ Goto("reset") /\ UNCHANGED <<used, hist>>
         \/ Fault /\ GiveUp /\ disk' = o.disk /\ handle' = handle
  BY DEF OpenMigrated, Swap
<1>3. o = OpenDB(disk, files, inodes)
  OBVIOUS
<1> HIDE DEF o
<1>4. ASSUME disk' = Migrate(o.disk, o.files["db"]), handle' = o.files["db"],
             Goto("reset"), UNCHANGED <<used, hist>>
      PROVE  IInv'
  BY <1>1, <1>2, <1>3, <1>4, SwappedStep
<1>5. ASSUME Fault, GiveUp, disk' = o.disk, handle' = handle
      PROVE  IInv'
  <2>1. CASE files["db"] # 0
    <3>1. disk' = disk /\ files' = files /\ inodes' = inodes
      BY <2>1, <1>2, <1>3, <1>5, Opened DEF IInv
    <3> QED
      BY <3>1, <1>1, <1>5, AbandonedStep
  <2>2. CASE files["db"] = 0
    <3>1. admin.op = "destroy"
      BY <2>2, <1>1 DEF IInv, FilesOK
    <3> QED
      BY <3>1, <2>2, <1>1, <1>2, <1>3, <1>5, LeftOpenStep
  <2> QED
    BY <2>1, <2>2
<1> QED
  BY <1>2, <1>4, <1>5

\* A transaction that could not be stamped is rolled back, and its connection closed.
LEMMA RolledBackStep ==
    ASSUME IInv,
           writer.pc = "tx", disk' = disk \/ disk' = Released(disk), writer' = NoWrite,
           UNCHANGED <<files, inodes, proc, handle, svc, container, waiting, admin, used, hist>>
    PROVE  IInv'
<1>1. /\ disk' \in [Inodes -> Contents]
      /\ \A j \in Inodes :
           /\ disk'[j].vault = disk[j].vault /\ disk'[j].schema = disk[j].schema
           /\ disk'[j].counter = disk[j].counter /\ disk'[j].born = disk[j].born
           /\ disk'[j].flushed = disk[j].flushed \/ disk'[j].flushed = disk[j].counter
           /\ j > inodes => disk'[j] = disk[j]
  <2>1. CASE disk' = disk
    BY <2>1 DEF IInv, Types, FileTypes
  <2>2. CASE disk' # disk
    <3> DEFINE i == writer.ino
    <3>1. /\ i \in Inodes /\ disk' = [disk EXCEPT ![i].flushed = disk[i].counter]
          /\ disk[i] \in Contents /\ i <= inodes /\ inodes \in Nat /\ i \in Nat
      BY <2>2, Numbers, Referred DEF IInv, Types, FileTypes, WriterOK, Released, Allocated
    <3> DEFINE m == [disk[i] EXCEPT !.flushed = disk[i].counter]
    <3>2. /\ m \in Contents /\ m.vault = disk[i].vault /\ m.counter = disk[i].counter
          /\ m.born = disk[i].born /\ m.schema = disk[i].schema
          /\ m.flushed = disk[i].counter
      BY <3>1 DEF Contents
    <3>3. disk' = [disk EXCEPT ![i] = m]
      BY <3>1
    <3> HIDE DEF m, i
    <3> QED
      BY <3>1, <3>2, <3>3, Numbers DEF IInv, Types, FileTypes
  <2> QED
    BY <2>1, <2>2
<1>2. \A j \in Inodes : disk'[j].flushed >= disk[j].flushed /\ disk'[j].flushed <= disk'[j].counter
  BY <1>1 DEF IInv, ContentsOK, Types, FileTypes, Contents
<1>3. /\ writer'.pc = "idle" /\ writer'.ino = 0 /\ ~writer'.detached /\ writer'.vault = 0
      /\ WriterTypes'
  BY DEF NoWrite, WriterTypes, Refs
<1>4. Cur' = Cur
  BY DEF Cur
<1>5. /\ files["db"] # 0 => disk'[files["db"]].vault = disk[files["db"]].vault
      /\ files["recovery"] # 0 => disk'[files["recovery"]].vault = disk[files["recovery"]].vault
      /\ hist.prev # 0 => disk'[hist.prev].vault = disk[hist.prev].vault
  BY <1>1, Referred DEF IInv
<1>6. FileTypes'
  BY <1>1, <1>2, <1>3 DEF FileTypes, IInv, Types
<1>7. ServiceTypes'
  BY <1>1, <1>2, <1>3 DEF ServiceTypes, IInv, Types
<1>8. AdminTypes'
  BY <1>1, <1>2, <1>3 DEF AdminTypes, IInv, Types
<1>9. WriterTypes'
  BY <1>3 DEF WriterTypes
<1>10. UsedTypes'
  BY <1>1, <1>2, <1>3 DEF UsedTypes, IInv, Types
<1>11. HistTypes'
  BY <1>1, <1>2, <1>3 DEF HistTypes, IInv, Types
<1>12. Allocated'
  BY <1>1, <1>3, Numbers DEF Allocated, Pend, IInv, Types, FileTypes
<1>13. ContentsOK'
  BY <1>1, <1>2, <1>3 DEF ContentsOK, Sound, IInv, Types
<1>14. PhaseOK'
  BY <1>3 DEF PhaseOK, StoreOpenBetween, Running, ClosedPcs, RestorePcs, DestroyPcs,
     IInv, NoReplacement
<1>15. FilesOK'
  <2>1. /\ files["tmp"] # 0 => disk'[files["tmp"]].flushed >= disk[files["tmp"]].flushed
        /\ files["db"] # 0 => disk'[files["db"]].flushed >= disk[files["db"]].flushed
        /\ admin.pc = "reset" => files["db"] # 0
    BY <1>2, Referred DEF IInv, PhaseOK
  <2> QED
    BY <2>1, <1>1, <1>3, Referred DEF IInv, FilesOK, Types, FileTypes, Contents
<1>16. WriterOK'
  BY <1>1, <1>2, <1>3 DEF WriterOK, Cur, IInv, Types
<1>17. Kept'
  BY <1>3, <1>5 DEF Kept, Holds, IInv
<1>18. Destroyed'
  BY <1>3, <1>5 DEF Destroyed, IInv, WriterOK
<1>19. MarkOK'
  <2>1. Comparable' => Comparable
    BY <1>1, <1>4, Referred DEF IInv, Comparable
  <2> QED
    BY <2>1, <1>1, <1>3, <1>4, Referred DEF IInv, MarkOK, Comparable
<1> QED
  BY <1>6, <1>7, <1>8, <1>9, <1>10, <1>11, <1>12, <1>13, <1>14, <1>15, <1>16, <1>17,
     <1>18, <1>19 DEF IInv, Types

\* A commit that reaches no file.
LEMMA UnwrittenStep ==
    ASSUME IInv,
           writer.pc = "tx", writer.detached, svc.loaded # 0, disk' = disk,
           NEW n \in Nat, writer' = [writer EXCEPT !.pc = "note", !.stamped = n],
           hist' = [hist EXCEPT !.acked[writer.ino] = Larger(@, n)],
           UNCHANGED <<files, inodes, proc, handle, svc, container, waiting, admin, used>>
    PROVE  IInv'
<1>1. writer.ino \in Inodes /\ writer.ino \in hist.lost /\ Running /\ writer.ino <= inodes
  BY Referred DEF IInv, WriterOK, PhaseOK, NoWrite, Allocated
<1>2. /\ writer'.pc = "note" /\ writer'.ino = writer.ino /\ writer'.detached
      /\ writer'.vault = writer.vault /\ writer'.stamped = n /\ WriterTypes'
  BY DEF IInv, Types, WriterTypes
<1>3. /\ HistTypes' /\ hist'.vault = hist.vault /\ hist'.prev = hist.prev
      /\ \A j \in Inodes : j # writer.ino => hist'.acked[j] = hist.acked[j]
      /\ hist'.lost = hist.lost /\ hist'.gone = hist.gone /\ hist'.cut = hist.cut
      /\ hist'.failed = hist.failed /\ hist'.late = hist.late
      /\ hist'.leftover = hist.leftover
      /\ hist'.revived = hist.revived /\ hist'.clobbered = hist.clobbered
  BY <1>1 DEF IInv, Types, HistTypes, Larger
<1>4. FileTypes'
  BY <1>1, <1>2, <1>3 DEF FileTypes, IInv, Types
<1>5. ServiceTypes'
  BY <1>1, <1>2, <1>3 DEF ServiceTypes, IInv, Types
<1>6. AdminTypes'
  BY <1>1, <1>2, <1>3 DEF AdminTypes, IInv, Types
<1>7. WriterTypes'
  BY <1>2 DEF WriterTypes
<1>8. UsedTypes'
  BY <1>1, <1>2, <1>3 DEF UsedTypes, IInv, Types
<1>9. HistTypes'
  BY <1>3 DEF HistTypes
<1>10. Allocated'
  BY <1>1, <1>2, <1>3, Numbers DEF Allocated, Pend, IInv, Types, FileTypes
<1>11. ContentsOK'
  BY <1>1, <1>2, <1>3 DEF ContentsOK, Sound, IInv, Types
<1>12. PhaseOK'
  BY <1>1, <1>2, <1>3 DEF PhaseOK, StoreOpenBetween, Running, ClosedPcs, RestorePcs,
     DestroyPcs, IInv
<1>13. FilesOK'
  BY <1>1, <1>2, <1>3 DEF FilesOK, IInv, Types
<1>14. WriterOK'
  BY <1>1, <1>2, <1>3 DEF WriterOK, Cur, IInv, Types
<1>15. Kept'
  BY <1>1, <1>2, <1>3 DEF Kept, Holds, IInv, Types
<1>16. Destroyed'
  BY <1>1, <1>2, <1>3 DEF Destroyed, IInv, Types
<1>17. MarkOK'
  BY <1>1, <1>2, <1>3 DEF MarkOK, Comparable, Cur, IInv, Types
<1> QED
  BY <1>4, <1>5, <1>6, <1>7, <1>8, <1>9, <1>10, <1>11, <1>12, <1>13, <1>14, <1>15, <1>16,
     <1>17 DEF IInv, Types

\* A commit that reaches its file.
LEMMA WrittenStep ==
    ASSUME IInv,
           writer.pc = "tx", svc.loaded # 0,
           NEW n \in Nat, n >= disk[writer.ino].counter,
           n = (IF writer.detached THEN writer.stamped ELSE disk[writer.ino].counter) + 1,
           NEW m \in Contents, disk' = [disk EXCEPT ![writer.ino] = m], m.counter = n,
           m.vault = IF writer.vault # 0 THEN writer.vault ELSE disk[writer.ino].vault,
           m.flushed = disk[writer.ino].flushed \/ m.flushed = n,
           m.schema = disk[writer.ino].schema, m.born = disk[writer.ino].born,
           writer' = [writer EXCEPT !.pc = "note", !.stamped = n],
           hist' = [hist EXCEPT !.acked[writer.ino] = Larger(@, n)],
           UNCHANGED <<files, inodes, proc, handle, svc, container, waiting, admin, used>>
    PROVE  IInv'
<1> DEFINE i == writer.ino
<1>1. /\ i \in Inodes /\ i # 0 /\ Running /\ i <= inodes /\ disk[i] \in Contents
      /\ writer.detached => i \in hist.lost
      /\ i # files["tmp"]
      /\ i \in {files["db"], files["recovery"]} /\ ~hist.clobbered => m.vault = disk[i].vault
      /\ writer.vault # 0 => writer.detached /\ disk[i].schema /\ disk[i].born >= 1
  BY Referred DEF IInv, WriterOK, PhaseOK, NoWrite, Allocated, Types, FileTypes
<1>2. /\ writer'.pc = "note" /\ writer'.ino = i /\ writer'.detached = writer.detached
      /\ writer'.vault = writer.vault /\ writer'.stamped = n /\ WriterTypes'
  BY DEF IInv, Types, WriterTypes
<1>3. /\ HistTypes' /\ hist'.vault = hist.vault /\ hist'.prev = hist.prev
      /\ \A j \in Inodes : j # i => hist'.acked[j] = hist.acked[j]
      /\ hist'.acked[i] = IF hist.acked[i] > n THEN hist.acked[i] ELSE n
      /\ hist'.lost = hist.lost /\ hist'.gone = hist.gone /\ hist'.cut = hist.cut
      /\ hist'.failed = hist.failed /\ hist'.late = hist.late
      /\ hist'.leftover = hist.leftover
      /\ hist'.revived = hist.revived /\ hist'.clobbered = hist.clobbered
  BY <1>1 DEF IInv, Types, HistTypes, Larger
<1>4. /\ disk' \in [Inodes -> Contents] /\ disk'[i] = m
      /\ \A j \in Inodes : j # i => disk'[j] = disk[j]
  BY <1>1 DEF IInv, Types, FileTypes
<1> HIDE DEF i
<1>5. i = writer.ino
  BY DEF i
<1>6. /\ disk[i].counter \in Nat /\ disk[i].flushed \in Nat /\ m.flushed \in Nat
      /\ disk[i].flushed <= disk[i].counter /\ n >= disk[i].counter /\ n >= 1
      /\ disk[i].flushed <= m.flushed /\ m.flushed <= n
  BY <1>1, <1>5 DEF IInv, ContentsOK, Contents, Types, WriterTypes
<1>7. /\ writer.vault # 0 => m.vault = writer.vault
      /\ writer.vault = 0 => m.vault = disk[i].vault
      /\ m.schema = disk[i].schema /\ m.born = disk[i].born
  BY <1>5
<1>8. Cur' = Cur
  BY DEF Cur
<1>9. FileTypes'
  BY <1>1, <1>2, <1>3, <1>4, <1>5, <1>6, <1>7 DEF FileTypes, IInv, Types
<1>10. ServiceTypes'
  BY <1>1, <1>2, <1>3, <1>4, <1>5, <1>6, <1>7 DEF ServiceTypes, IInv, Types
<1>11. AdminTypes'
  BY <1>1, <1>2, <1>3, <1>4, <1>5, <1>6, <1>7 DEF AdminTypes, IInv, Types
<1>12. WriterTypes'
  BY <1>2 DEF WriterTypes
<1>13. UsedTypes'
  BY <1>1, <1>2, <1>3, <1>4, <1>5, <1>6, <1>7 DEF UsedTypes, IInv, Types
<1>14. HistTypes'
  BY <1>3 DEF HistTypes
<1>15. Allocated'
  BY <1>1, <1>2, <1>3, <1>4, <1>5, Numbers DEF Allocated, Pend, IInv, Types, FileTypes
<1>16. ContentsOK'
  <2>1. Sound(m)
    BY <1>1, <1>6, <1>7 DEF IInv, ContentsOK, Sound
  <2>2. m.vault # 0 => m.counter >= hist'.acked[i] \/ i \in hist.lost
    <3>1. hist.acked[i] \in Nat
      BY <1>1 DEF IInv, Types, HistTypes
    <3>2. m.vault # 0 /\ i \notin hist.lost => disk[i].counter >= hist.acked[i]
      BY <1>1, <1>7 DEF IInv, ContentsOK
    <3> QED
      BY <3>1, <3>2, <1>3, <1>6
  <2> QED
    BY <2>1, <2>2, <1>1, <1>3, <1>4, <1>6 DEF IInv, ContentsOK
<1>17. PhaseOK'
  BY <1>1, <1>2, <1>3 DEF PhaseOK, StoreOpenBetween, Running, ClosedPcs, RestorePcs,
     DestroyPcs, IInv
<1>18. FilesOK'
  <2>1. /\ files["tmp"] # 0 => disk'[files["tmp"]] = disk[files["tmp"]]
        /\ files["db"] # 0 /\ files["db"] # i => disk'[files["db"]] = disk[files["db"]]
        /\ admin.pc = "reset" => files["db"] # 0
    BY <1>1, <1>4, Referred DEF IInv, PhaseOK
  <2>2. ~writer.detached => disk'[i].vault = disk[i].vault
    BY <1>1, <1>4, <1>7
  <2> QED
    BY <2>1, <2>2, <1>2, <1>3, <1>5 DEF IInv, FilesOK
<1>19. WriterOK'
  BY <1>1, <1>2, <1>3, <1>4, <1>6, <1>7 DEF WriterOK, Cur, IInv
<1>20. Kept'
  <2>1. ASSUME ~hist.clobbered, NEW j \in Inodes, j \in {files["db"], files["recovery"]}
        PROVE  disk'[j].vault = disk[j].vault
    BY <2>1, <1>1, <1>4
  <2> QED
    BY <2>1, <1>3, Referred DEF IInv, Kept, Holds
<1>21. Destroyed'
  <2>1. \A j \in Inodes : j # i \/ writer.vault = 0 => disk'[j].vault = disk[j].vault
    BY <1>1, <1>4, <1>7
  <2>2. writer.vault # 0 => disk'[i].vault = writer.vault
    BY <1>4, <1>7
  <2> QED
    BY <2>1, <2>2, <1>1, <1>2, <1>3, <1>5, Referred DEF IInv, Destroyed
<1>22. MarkOK'
  <2>1. Comparable' => Comparable
    BY <1>1, <1>3, <1>4, <1>7, <1>8, Referred DEF IInv, Comparable
  <2>2. Comparable => Cur \in Inodes /\ disk'[Cur].counter >= disk[Cur].counter
                      /\ disk'[Cur].counter \in Nat /\ disk[Cur].counter \in Nat
    BY <1>1, <1>4, <1>6, Referred DEF IInv, Comparable, Types, FileTypes, Contents
  <2> QED
    BY <2>1, <2>2, <1>2, <1>5, <1>8 DEF IInv, MarkOK, Types, ServiceTypes
<1> QED
  BY <1>9, <1>10, <1>11, <1>12, <1>13, <1>14, <1>15, <1>16, <1>17, <1>18, <1>19, <1>20,
     <1>21, <1>22 DEF IInv, Types

\* The transaction ends, with or without a stamp.
LEMMA WriteCommitStep == IInv /\ WriteCommit => IInv'
<1> SUFFICES ASSUME IInv, WriteCommit PROVE IInv'
  OBVIOUS
<1> DEFINE i == writer.ino
           n == IF writer.detached THEN writer.stamped + 1 ELSE disk[i].counter + 1
           m == [disk[i] EXCEPT !.counter = n,
                                !.vault = IF writer.vault # 0 THEN writer.vault ELSE @]
           r == [m EXCEPT !.flushed = n]
           done == [disk EXCEPT ![i].counter = n,
                                ![i].vault = IF writer.vault # 0 THEN writer.vault ELSE @]
<1>1. /\ writer.pc = "tx" /\ i \in Inodes /\ disk[i] \in Contents
      /\ UNCHANGED <<files, inodes, proc, handle, svc, container, waiting, admin, used>>
  BY Referred DEF IInv, WriteCommit, WriterOK, Types, FileTypes
<1>2. CASE svc.loaded = 0
  BY <1>1, <1>2, RolledBackStep DEF WriteCommit
<1>3. CASE svc.loaded # 0
  <2>1. /\ writer' = [writer EXCEPT !.pc = "note", !.stamped = n]
        /\ hist' = [hist EXCEPT !.acked[i] = Larger(@, n)]
        /\ disk' = Released(done) \/ (writer.detached /\ disk' = disk)
    BY <1>3 DEF WriteCommit
  <2>2. n \in Nat /\ n >= disk[i].counter
    BY <1>1 DEF IInv, WriterOK, Types, WriterTypes, Contents
  <2>3. n = (IF writer.detached THEN writer.stamped ELSE disk[i].counter) + 1
    OBVIOUS
  <2>4. writer.vault \in Nat
    BY DEF IInv, Types, WriterTypes
  <2> HIDE DEF n
  <2>5. /\ m \in Contents /\ m.counter = n
        /\ m.vault = IF writer.vault # 0 THEN writer.vault ELSE disk[i].vault
        /\ m.flushed = disk[i].flushed /\ m.schema = disk[i].schema /\ m.born = disk[i].born
    BY <1>1, <2>2, <2>4 DEF Contents
  <2>6. /\ r \in Contents /\ r.counter = n /\ r.vault = m.vault
        /\ r.flushed = n /\ r.schema = disk[i].schema /\ r.born = disk[i].born
    BY <2>2, <2>5 DEF Contents
  <2>7. /\ done = [disk EXCEPT ![i] = m]
        /\ [done EXCEPT ![i].flushed = done[i].counter] = [disk EXCEPT ![i] = r]
    BY <1>1, <2>5 DEF IInv, Types, FileTypes
  <2>8. Released(done) = done \/ Released(done) = [done EXCEPT ![i].flushed = done[i].counter]
    BY DEF Released
  <2> HIDE DEF m, r, done
  <2>9. CASE disk' = [disk EXCEPT ![i] = m]
    BY <1>1, <1>3, <2>1, <2>2, <2>3, <2>5, <2>9, WrittenStep
  <2>10. CASE disk' = [disk EXCEPT ![i] = r]
    BY <1>1, <1>3, <2>1, <2>2, <2>3, <2>5, <2>6, <2>10, WrittenStep
  <2>11. CASE writer.detached /\ disk' = disk
    BY <1>1, <1>3, <2>1, <2>2, <2>11, UnwrittenStep
  <2> QED
    BY <2>1, <2>7, <2>8, <2>9, <2>10, <2>11
<1> QED
  BY <1>2, <1>3

-------------------------------------------------------------------------------
(* The invariant.                                                          *)

\* It holds at the start.
LEMMA InitIInv == Init => IInv
<1> SUFFICES ASSUME Init PROVE IInv
  OBVIOUS
<1> DEFINE c == Content(1, TRUE, 1)
<1>1. /\ c \in Contents /\ c.vault = 1 /\ c.schema /\ c.counter = 1 /\ c.flushed = 1
      /\ c.born = 1
  BY DEF Content, Contents
<1> HIDE DEF c
<1>2. /\ disk \in [Inodes -> Contents] /\ disk[1] = c
      /\ \A i \in Inodes : i # 1 => disk[i] = Blank
  BY <1>1, Constants, Numbers DEF Init, c
<1>3. /\ files \in [Names -> Refs]
      /\ files["db"] = 1 /\ files["recovery"] = 0 /\ files["tmp"] = 0
  BY Numbers DEF Init, Names, Refs
<1>4. /\ svc \in [loaded : Nat, unlocked : BOOLEAN, mark : Nat]
      /\ svc.loaded = 1 /\ svc.mark = 1 /\ ~svc.unlocked
  BY DEF Init, LockedOut
<1>5. /\ writer.pc = "idle" /\ writer.ino = 0 /\ ~writer.detached /\ writer.vault = 0
      /\ WriterTypes
  BY DEF Init, NoWrite, WriterTypes, Refs
<1>6. admin.pc = "idle" /\ admin.op = "none" /\ admin.snapshot = Blank /\ AdminTypes
  BY NoAdmin, Constants DEF Init, AdminTypes, NoReplacement, Pcs
<1>7. /\ UsedTypes /\ used.replacements = 0 /\ used.vaults = 1
      /\ inodes = 1 /\ proc = "up" /\ handle = 1 /\ container = Blank /\ waiting = Blank
  BY DEF Init, UsedTypes
<1>8. /\ HistTypes /\ hist.vault = 1 /\ hist.prev = 1 /\ hist.lost = {} /\ hist.gone = {}
      /\ \A i \in Inodes : hist.acked[i] = 1
      /\ ~hist.clobbered
  BY Numbers DEF Init, HistTypes, Refs
<1>9. Cur = 1
  BY <1>3 DEF Cur
<1>10. Types
  BY <1>2, <1>3, <1>4, <1>5, <1>6, <1>7, <1>8, Numbers, Constants
     DEF Types, FileTypes, ServiceTypes, Refs
<1>11. Allocated
  BY <1>2, <1>3, <1>5, <1>6, <1>7, <1>8, Numbers, RestoreFilesAssumption
     DEF Allocated, Pend, Names
<1>12. ContentsOK
  BY <1>1, <1>2, <1>6, <1>7, <1>8, Constants DEF ContentsOK, Sound
<1>13. PhaseOK /\ FilesOK
  BY <1>3, <1>4, <1>5, <1>6, <1>7 DEF PhaseOK, FilesOK, StoreOpenBetween, Running, ClosedPcs
<1>14. WriterOK /\ Kept /\ Destroyed
  BY <1>1, <1>2, <1>3, <1>4, <1>5, <1>6, <1>7, <1>8
     DEF WriterOK, Kept, Destroyed, Holds
<1>15. MarkOK
  BY <1>1, <1>2, <1>4, <1>5, <1>9 DEF MarkOK
<1> QED
  BY <1>10, <1>11, <1>12, <1>13, <1>14, <1>15 DEF IInv

\* Every step keeps it.
LEMMA NextIInv == IInv /\ [Next]_vars => IInv'
<1> SUFFICES ASSUME IInv, [Next]_vars PROVE IInv'
  OBVIOUS
<1>1. CASE Crash \/ Panic
  BY <1>1, FaultUsed, StopStep DEF Crash, Panic, IInv, Types
<1>2. CASE Shutdown
  <2>1. UsedTypes' /\ used'.replacements = used.replacements /\ used'.vaults = used.vaults
    BY <1>2 DEF Shutdown, IInv, Types, UsedTypes
  <2> QED
    BY <1>2, <2>1, StopStep DEF Shutdown
<1>3. CASE Start
  BY <1>3, StartStep
<1>4. CASE InitVault \/ Unlock \/ Backup
  BY <1>4, InitVaultStep, UnlockStep, BackupStep
<1>5. CASE WriteKeys \/ WriteBegin \/ WriteCommit \/ WriteNote
  BY <1>5, WriteKeysStep, WriteBeginStep, WriteCommitStep, WriteNoteStep
<1>6. CASE RestoreVerify \/ RestoreBegin \/ DestroyVerify \/ DestroyBegin \/ Close
  BY <1>6, RestoreVerifyStep, RestoreBeginStep, DestroyVerifyStep, DestroyBeginStep, CloseStep
<1>7. CASE WriteCandidate \/ MoveAside \/ Install \/ Reopen
  BY <1>7, WriteCandidateStep, MoveAsideStep, InstallStep, ReopenStep
<1>8. CASE RemoveDB \/ RemoveRecovery \/ OpenMigrated \/ Reset
  BY <1>8, RemoveDBStep, RemoveRecoveryStep, OpenMigratedStep, ResetStep
<1>9. CASE UNCHANGED vars
  BY <1>9 DEF vars, IInv, Types, FileTypes, ServiceTypes, AdminTypes, WriterTypes, UsedTypes,
     HistTypes, Allocated, Pend, ContentsOK, Sound, PhaseOK, StoreOpenBetween, Running,
     FilesOK, WriterOK, Cur, Kept, Holds, Destroyed, MarkOK, Comparable
<1> QED
  BY <1>1, <1>2, <1>3, <1>4, <1>5, <1>6, <1>7, <1>8, <1>9 DEF Next

\* Always: types, the file system's and the writer's state, where the vault is.
THEOREM Invariance == Spec => []IInv
  BY InitIInv, NextIInv, PTL DEF Spec

-------------------------------------------------------------------------------
(* The properties.                                                         *)

\* The store of a running daemon is open on the file that has the database's name,
\* or closed, by restoreVault or destroyVault: during a replacement, or after one that
\* ended with an error and until the next that does not.
THEOREM StoreOpenBetweenHolds == Spec => []StoreOpenBetween
<1>1. IInv => StoreOpenBetween
  BY DEF IInv, PhaseOK
<1> QED
  BY <1>1, Invariance, PTL

\* Restore keeps the previous database: at every step of the renames, after a
\* crash or a failure between two of them too, the vault is under one of the two
\* names and the database replaced last has every acknowledged write, unless its
\* log was removed under a transaction.  Nothing is said once the vault's row went with
\* such a log, or a rename has replaced its only copy.
THEOREM PreviousKeptHolds == Spec => []PreviousKept
<1>1. IInv => PreviousKept
  <2> SUFFICES ASSUME IInv, hist.vault # 0, ~hist.clobbered
               PROVE  /\ Holds("db", hist.vault) \/ Holds("recovery", hist.vault)
                      /\ hist.prev \in {files["db"], files["recovery"]}
                      /\ \/ disk[hist.prev].counter >= hist.acked[hist.prev]
                         \/ hist.prev \in hist.lost
    BY DEF PreviousKept
  <2>1. hist.prev \in Inodes /\ disk[hist.prev].vault # 0
    BY Referred DEF IInv, Kept
  <2> QED
    BY <2>1 DEF IInv, Kept, ContentsOK
<1> QED
  BY <1>1, Invariance, PTL

\* What is served between replacements is the vault that was initialised or
\* restored last, and the cached row is of that vault unless a replacement failed.
\* After a restore that stopped between its renames an empty database may be served
\* instead, and then .recovery has the vault.
THEOREM ServesTheVaultHolds == Spec => []ServesTheVault
<1>1. IInv => ServesTheVault
  <2> SUFFICES ASSUME IInv, Running, handle # 0, admin.pc = "idle", hist.vault # 0,
                      ~hist.clobbered
               PROVE  \/ /\ Served.vault = hist.vault
                         /\ svc.loaded \in {0, hist.vault} \/ hist.failed
                      \/ hist.cut /\ Served.vault = 0 /\ Holds("recovery", hist.vault)
    BY DEF ServesTheVault
  <2>1. handle = files["db"]
    BY DEF IInv, PhaseOK
  <2> QED
    BY <2>1 DEF IInv, Kept, Holds, Served
<1> QED
  BY <1>1, Invariance, PTL

\* destroyVault removes the database and .recovery: from then on no file holds a vault
\* that existed, but the candidate an interrupted restore left, or any file once a restore
\* verified before the destruction has run after it.
THEOREM DestroyCompleteHolds == Spec => []DestroyComplete
<1>1. IInv => DestroyComplete
  <2> SUFFICES ASSUME IInv, NEW n \in Names, NEW v \in hist.gone, Holds(n, v)
               PROVE  (n = "tmp" /\ hist.leftover) \/ hist.revived
    BY DEF DestroyComplete
  <2>1. CASE n = "db" \/ n = "recovery"
    BY <2>1 DEF IInv, Destroyed, Holds
  <2>2. CASE n = "tmp"
    BY <2>2 DEF IInv, Destroyed, Holds, FilesOK
  <2> QED
    BY <2>1, <2>2 DEF Names
<1> QED
  BY <1>1, Invariance, PTL

\* No false alarm: an unlock outside a replacement calls a rollback only a counter
\* that is behind the mark of the same file, unless a late note, a failed restore, a
\* lost log or an older .recovery put back over the database parted the two.
THEOREM AlarmIsRollbackHolds == Spec => AlarmIsRollback
<1> DEFINE Step == alarm' # alarm /\ alarm' = "served" =>
                     hist.late \/ hist.failed \/ handle \in hist.lost
<1>1. IInv /\ [Next]_vars => [Step]_vars
  <2> SUFFICES ASSUME IInv, Next, alarm' # alarm, alarm' = "served"
               PROVE  hist.late \/ hist.failed \/ handle \in hist.lost
    BY DEF Step
  <2>1. Unlock
    BY DEF Next, Crash, Panic, Stop, Start, InitVault, Unlock, Backup, WriteKeys, WriteBegin,
       WriteCommit, WriteNote, RestoreVerify, RestoreBegin, DestroyVerify, DestroyBegin, Close,
       WriteCandidate, MoveAside, Install, Reopen, RemoveDB, RemoveRecovery, OpenMigrated, Reset,
       Shutdown
  <2>2. /\ disk[handle].counter < svc.mark /\ admin.pc # "reset" /\ handle # 0 /\ Running
        /\ disk[handle].vault = Loaded /\ Loaded # 0
    BY <2>1 DEF Unlock, Serving, Served
  <2>3. /\ handle = files["db"] /\ Cur = handle /\ handle \in Inodes
        /\ admin.pc \notin {"migrate", "removeRecovery", "removeFailed"}
    BY <2>2, Referred DEF IInv, PhaseOK, ClosedPcs, Cur
  <2>4. disk[handle].schema /\ svc.loaded \in {0, disk[handle].vault}
    BY <2>2, <2>3 DEF IInv, ContentsOK, Sound, Loaded
  <2>5. ~(svc.mark <= disk[handle].counter)
    BY <2>2, <2>3 DEF IInv, Types, FileTypes, ServiceTypes, Contents
  <2> HIDE DEF Cur
  <2> QED
    BY <2>2, <2>3, <2>4, <2>5 DEF IInv, MarkOK, Comparable
<1> HIDE DEF Step
<1>2. Spec => [][Step]_vars
  BY <1>1, Invariance, PTL DEF Spec
<1> QED
  BY <1>2 DEF AlarmIsRollback, Step
===============================================================================
