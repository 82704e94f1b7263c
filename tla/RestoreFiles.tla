------------------------------ MODULE RestoreFiles ------------------------------
(***************************************************************************)
(* Server.restoreVault and Server.destroyVault at the level of files: the  *)
(* database, its .recovery copy and the .restore.tmp candidate are names   *)
(* for inodes, the store is a handle that may be closed, and the           *)
(* replacement is a sequence of steps during which a request in flight     *)
(* goes on, any step of the file system may fail and the daemon may die.   *)
(*                                                                         *)
(* Of a database only the vault it holds, whether it has its tables and    *)
(* the anchor's counter are kept; Vault and Daemon have the rest.          *)
(***************************************************************************)
EXTENDS Naturals, FiniteSets

CONSTANTS
    MaxReplacements,    \* bound: restores and destructions begun
    MaxWrites,          \* bound: record writes
    MaxFaults,          \* bound: failing file operations, crashes and panics
    MaxVaults           \* bound: vaults ever initialised

ASSUME RestoreFilesAssumption ==
    /\ MaxReplacements \in Nat /\ MaxWrites \in Nat /\ MaxFaults \in Nat
    /\ MaxVaults \in Nat \ {0}

VARIABLES
    disk,       \* content of every inode
    files,      \* the inode each name refers to, 0 if there is no such file
    inodes,     \* inodes allocated so far
    proc,       \* the process: down, up, or stopping after a destruction
    handle,     \* Store.db: the inode it is open on, 0 when it is nil
    svc,        \* vaultapp.Service: cached vault row, lock state, high-water mark
    container,  \* the backup on disk, a snapshot of some earlier content
    waiting,    \* a restore whose container is verified, before restoreVault
    confirmed,  \* destructions whose password is verified, before destroyVault
    admin,      \* the restore or destruction that holds Server.mu
    writer,     \* a record write in flight
    alarm,      \* how an unlock has come to report a rollback in this run
    used,       \* what the bounds have left
    hist        \* history, for the properties only

vars == <<disk, files, inodes, proc, handle, svc, container, waiting, confirmed, admin, writer,
          alarm, used, hist>>

Names == {"db", "recovery", "tmp"}
MaxInodes == 2 + 2 * MaxReplacements + MaxFaults
Inodes == 1..MaxInodes

\* flushed is the counter in the main file: what lies between it and counter is
\* in the write-ahead log next to it.  born is the counter of the commit that wrote
\* the vault row.
Content(vault, schema, counter) ==
    [vault |-> vault, schema |-> schema, counter |-> counter, flushed |-> counter,
     born |-> counter]
Blank == Content(0, FALSE, 0)

Larger(a, b) == IF a > b THEN a ELSE b

NoReplacement == [pc |-> "idle", op |-> "none", snapshot |-> Blank]
NoWrite == [pc |-> "idle", ino |-> 0, detached |-> FALSE, vault |-> 0, stamped |-> 0]
LockedOut == [loaded |-> 0, unlocked |-> FALSE, mark |-> 0]

\* A migrated database with vault 1 in it, served and locked.
Init ==
    /\ disk = [i \in Inodes |-> IF i = 1 THEN Content(1, TRUE, 1) ELSE Blank]
    /\ files = [n \in Names |-> IF n = "db" THEN 1 ELSE 0]
    /\ inodes = 1
    /\ proc = "up" /\ handle = 1
    /\ svc = [LockedOut EXCEPT !.loaded = 1, !.mark = 1]
    /\ container = Blank /\ waiting = Blank /\ confirmed = 0
    /\ admin = NoReplacement /\ writer = NoWrite
    /\ alarm = "none"
    /\ used = [replacements |-> 0, writes |-> 0, faults |-> 0, vaults |-> 1]
    /\ hist = [vault |-> 1, prev |-> 1, acked |-> [i \in Inodes |-> 1], lost |-> {},
               gone |-> {}, cut |-> FALSE, failed |-> FALSE, late |-> FALSE,
               leftover |-> FALSE, revived |-> FALSE, clobbered |-> FALSE]

Running == proc # "down"

Use(f) == used' = [used EXCEPT ![f] = @ + 1]
Fault == used.faults < MaxFaults /\ Use("faults")

-------------------------------------------------------------------------------
(* The process.                                                            *)

\* The daemon stops: a kill, or the exit that follows a destruction.  What was
\* committed is in the files, what was in memory is gone.
Stop ==
    /\ proc' = "down" /\ handle' = 0
    /\ svc' = LockedOut
    /\ waiting' = Blank /\ confirmed' = 0 /\ admin' = NoReplacement /\ writer' = NoWrite
    /\ alarm' = "none"
    /\ hist' = [hist EXCEPT !.failed = FALSE, !.late = FALSE,
                            !.leftover = @ \/ files["tmp"] # 0,
                            !.cut = @ \/ (admin.pc = "install" /\ files["db"] = 0)]
    /\ UNCHANGED <<disk, files, inodes, container>>

Crash == Running /\ Fault /\ Stop

\* Store.DB returns nil between Close and Swap, and whatever a request does with
\* it is a nil dereference that no handler recovers from.
Panic == Running /\ handle = 0 /\ Fault /\ Stop

\* sqlite.Open creates a missing file, empty.
OpenDB(d, f, n) ==
    IF f["db"] # 0
    THEN [disk |-> d, files |-> f, inodes |-> n]
    ELSE [disk |-> d, files |-> [f EXCEPT !["db"] = n + 1], inodes |-> n + 1]

\* sqlite.Migrate creates the tables where they are missing.
Migrate(d, i) == [d EXCEPT ![i].schema = TRUE]

\* run(): open, migrate, serve.
Start ==
    /\ ~Running
    /\ LET o == OpenDB(disk, files, inodes)
       IN  /\ disk' = Migrate(o.disk, o.files["db"])
           /\ files' = o.files /\ inodes' = o.inodes
           /\ handle' = o.files["db"]
    /\ proc' = "up"
    /\ UNCHANGED <<svc, container, waiting, confirmed, admin, writer, alarm, used, hist>>

-------------------------------------------------------------------------------
(* Requests that use the database in one step.                             *)

Serving == Running /\ handle # 0
Served == disk[handle]

\* loadVault: the cached row, else the row on disk.
Loaded == IF svc.loaded # 0 THEN svc.loaded
          ELSE IF Served.schema THEN Served.vault ELSE 0

\* Service.Init, refused while a vault row is cached or stored.
InitVault ==
    /\ Serving /\ Served.schema /\ Loaded = 0
    /\ used.vaults < MaxVaults /\ Use("vaults")
    /\ disk' = [disk EXCEPT ![handle].vault = used.vaults + 1, ![handle].counter = @ + 1,
                            ![handle].born = disk[handle].counter + 1]
    /\ svc' = [svc EXCEPT !.loaded = used.vaults + 1, !.mark = Larger(@, disk'[handle].counter)]
    /\ hist' = [hist EXCEPT !.vault = used.vaults + 1, !.cut = FALSE, !.prev = handle,
                            !.clobbered = @ /\ writer.detached,
                            !.acked[handle] = disk'[handle].counter]
    /\ UNCHANGED <<files, inodes, proc, handle, container, waiting, confirmed, admin, writer,
                   alarm>>

\* opUnlock: the envelope is read from the database, then VerifyCatalog compares
\* the counter with the high-water mark and a smaller one locks again.
Unlock ==
    /\ Serving /\ ~svc.unlocked
    /\ Loaded # 0 /\ Served.vault = Loaded
    /\ IF Served.counter < svc.mark
       THEN /\ alarm' = IF admin.pc = "reset" THEN "replacing" ELSE "served"
            /\ svc' = [svc EXCEPT !.loaded = Loaded]
       ELSE /\ svc' = [loaded |-> Loaded, unlocked |-> TRUE, mark |-> Served.counter]
            /\ UNCHANGED alarm
    /\ UNCHANGED <<disk, files, inodes, proc, handle, container, waiting, confirmed, admin, writer,
                   used, hist>>

\* backup Create: VACUUM INTO, signed with the vault's backup key.
Backup ==
    /\ Serving /\ svc.unlocked
    /\ container' = Content(Served.vault, TRUE, Served.counter)
    /\ UNCHANGED <<disk, files, inodes, proc, handle, svc, waiting, confirmed, admin, writer, alarm,
                   used, hist>>

-------------------------------------------------------------------------------
(* A record write: keys, transaction, stamp, commit, note.                 *)

\* Service.Keys
WriteKeys ==
    /\ Running /\ svc.unlocked /\ writer.pc = "idle"
    /\ used.writes < MaxWrites /\ Use("writes")
    /\ writer' = [NoWrite EXCEPT !.pc = "begin"]
    /\ UNCHANGED <<disk, files, inodes, proc, handle, svc, container, waiting, confirmed, admin,
                   alarm, hist>>

\* BeginTx on the connection of the handle; a nil handle is Panic.
WriteBegin ==
    /\ writer.pc = "begin" /\ handle # 0
    /\ writer' = [writer EXCEPT !.pc = "tx", !.ino = handle]
    /\ UNCHANGED <<disk, files, inodes, proc, handle, svc, container, waiting, confirmed, admin,
                   alarm, used, hist>>

\* sql.DB.Close leaves a connection in use alone: it is closed, and its log
\* copied into the main file, when the transaction gives it back.
Released(d) ==
    IF handle = writer.ino THEN d ELSE [d EXCEPT ![writer.ino].flushed = d[writer.ino].counter]

\* Stamp and Commit.  The stamp needs the vault row, so after a Reset the
\* transaction is rolled back.  When the log has been unlinked under the
\* connection the commit succeeds and reaches no file that has a name, except
\* that SQLite still copies the log on close if the database is back under its name.
WriteCommit ==
    /\ writer.pc = "tx"
    /\ LET i == writer.ino
           n == IF writer.detached THEN writer.stamped + 1 ELSE disk[i].counter + 1
           done == [disk EXCEPT ![i].counter = n,
                                ![i].vault = IF writer.vault # 0 THEN writer.vault ELSE @]
       IN  IF svc.loaded = 0
           THEN /\ disk' = IF writer.detached THEN disk ELSE Released(disk)
                /\ writer' = NoWrite
                /\ UNCHANGED hist
           ELSE /\ IF writer.detached
                   THEN disk' \in {disk} \cup (IF files["db"] = i THEN {Released(done)} ELSE {})
                   ELSE disk' = Released(done)
                /\ writer' = [writer EXCEPT !.pc = "note", !.stamped = n]
                /\ hist' = [hist EXCEPT !.acked[i] = Larger(@, n)]
    /\ UNCHANGED <<files, inodes, proc, handle, svc, container, waiting, confirmed, admin, alarm,
                   used>>

\* NoteCatalogCounter.
WriteNote ==
    /\ writer.pc = "note"
    /\ svc' = [svc EXCEPT !.mark = Larger(@, writer.stamped)]
    /\ writer' = NoWrite
    /\ UNCHANGED <<disk, files, inodes, proc, handle, container, waiting, confirmed, admin, alarm,
                   used, hist>>

-------------------------------------------------------------------------------
(* opBackupRestore and opDestroy.                                          *)

AtStep(op, pc) == Running /\ admin.op = op /\ admin.pc = pc
Goto(pc) == admin' = [admin EXCEPT !.pc = pc]

\* The request returns an error with the store closed.
GiveUp ==
    /\ admin' = NoReplacement
    /\ hist' = [hist EXCEPT !.failed = TRUE]

\* backup Verify: the keys authenticate the container, which must be of the
\* vault that is loaded; its bytes are what will be installed.
RestoreVerify ==
    /\ Running /\ svc.unlocked /\ waiting = Blank
    /\ container.vault # 0 /\ container.vault = svc.loaded
    /\ waiting' = container
    /\ UNCHANGED <<disk, files, inodes, proc, handle, svc, container, confirmed, admin, writer,
                   alarm, used, hist>>

\* restoreVault takes Server.mu and locks the vault.
RestoreBegin ==
    /\ Running /\ waiting # Blank /\ admin.pc = "idle"
    /\ used.replacements < MaxReplacements /\ Use("replacements")
    /\ svc' = [svc EXCEPT !.unlocked = FALSE]
    /\ admin' = [pc |-> "close", op |-> "restore", snapshot |-> waiting]
    /\ waiting' = Blank
    /\ hist' = [hist EXCEPT !.revived = @ \/ waiting.vault \in hist.gone]
    /\ UNCHANGED <<disk, files, inodes, proc, handle, container, confirmed, writer, alarm>>

\* opDestroy: VerifyPassword checks the password against the stored envelope.
DestroyVerify ==
    /\ Serving /\ Loaded # 0 /\ Served.vault = Loaded
    /\ used.replacements + confirmed < MaxReplacements
    /\ svc' = [svc EXCEPT !.loaded = Loaded]
    /\ confirmed' = confirmed + 1
    /\ UNCHANGED <<disk, files, inodes, proc, handle, container, waiting, admin, writer, alarm,
                   used, hist>>

\* destroyVault takes Server.mu and locks the vault, whichever is there by now.
DestroyBegin ==
    /\ Running /\ confirmed > 0 /\ admin.pc = "idle"
    /\ used.replacements < MaxReplacements /\ Use("replacements")
    /\ svc' = [svc EXCEPT !.unlocked = FALSE]
    /\ confirmed' = confirmed - 1
    /\ admin' = [pc |-> "close", op |-> "destroy", snapshot |-> Blank]
    /\ UNCHANGED <<disk, files, inodes, proc, handle, container, waiting, writer, alarm, hist>>

\* Store.Close.  An idle connection is closed at once, its log copied into the
\* main file; db is nil whether or not closing reported an error.
Close ==
    /\ Running /\ admin.pc = "close"
    /\ handle' = 0
    /\ disk' = IF handle = 0 \/ (writer.pc = "tx" /\ writer.ino = handle) THEN disk
               ELSE [disk EXCEPT ![handle].flushed = disk[handle].counter]
    /\ \/ /\ Goto(IF admin.op = "restore" THEN "candidate" ELSE "remove")
          /\ UNCHANGED <<used, hist>>
       \/ Fault /\ GiveUp
    /\ UNCHANGED <<files, inodes, proc, svc, container, waiting, confirmed, writer, alarm>>

-------------------------------------------------------------------------------
(* backup Restore.                                                         *)

\* The candidate is written and opened.  A write that fails part way leaves
\* what it wrote; a candidate that does not open is removed.
WriteCandidate ==
    /\ AtStep("restore", "candidate")
    /\ inodes' = inodes + 1
    /\ disk' = [disk EXCEPT ![inodes + 1] = admin.snapshot]
    /\ \/ /\ files' = [files EXCEPT !["tmp"] = inodes + 1]
          /\ Goto("aside")
          /\ UNCHANGED <<used, hist>>
       \/ /\ Fault /\ Goto("reopen")
          /\ \/ /\ files' = [files EXCEPT !["tmp"] = inodes + 1]
                /\ hist' = [hist EXCEPT !.leftover = TRUE]
             \/ /\ files' = [files EXCEPT !["tmp"] = 0]
                /\ UNCHANGED hist
    /\ UNCHANGED <<proc, handle, svc, container, waiting, confirmed, writer, alarm>>

\* A connection still open keeps its log after os.Remove(-wal); what the log held
\* is then no longer in any named file, the vault row too if it was in no other.
InFlight(i) == writer.pc = "tx" /\ writer.ino = i /\ ~writer.detached
LogLost(i) == IF i # 0 /\ InFlight(i) THEN {i} ELSE {}
Unlink(i) ==
    IF LogLost(i) # {}
    THEN /\ \E c \in disk[i].flushed..disk[i].counter :
               disk' = [disk EXCEPT ![i].counter = c, ![i].flushed = c,
                                    ![i].vault = IF c < disk[i].born THEN 0 ELSE @]
         /\ writer' = [writer EXCEPT !.detached = TRUE, !.vault = disk[i].vault,
                                     !.stamped = disk[i].counter]
    ELSE UNCHANGED <<disk, writer>>

\* Mutant: the previous database is removed.
SetAsideGone(f) == [f EXCEPT !["db"] = 0]
\* os.Rename(dbPath, recovery).
SetAside(f) == [f EXCEPT !["recovery"] = f["db"], !["db"] = 0]

\* The database becomes .recovery and its -wal and -shm are removed.  When os.Stat
\* fails, for whatever reason, nothing is renamed and the database is still there.
\* (A log whose removal fails is left out: SQLite would replay it into another file.)
MoveAside ==
    /\ AtStep("restore", "aside")
    /\ \/ LET i == files["db"]
              moved == files'["db"] # i
          IN  /\ \/ files' = (IF i = 0 THEN files ELSE SetAside(files)) /\ UNCHANGED used
                 \/ i # 0 /\ Fault /\ UNCHANGED files
              /\ Unlink(i)
              /\ hist' = [hist EXCEPT !.prev = IF moved THEN i ELSE @,
                                      !.clobbered = \/ @
                                                    \/ hist.cut /\ moved /\ disk[i].vault = 0
                                                    \/ i # 0 /\ disk'[i].vault # disk[i].vault,
                                      !.lost = @ \cup LogLost(i)]
              /\ Goto("install")
       \/ /\ Fault /\ Goto("reopen")
          /\ files' = [files EXCEPT !["tmp"] = 0]
          /\ UNCHANGED <<disk, writer, hist>>
    /\ UNCHANGED <<inodes, proc, handle, svc, container, waiting, confirmed, alarm>>

\* Mutant: the previous database is not put back.
PutBackNot(f) == f
\* os.Rename(candidate, dbPath), and back: os.Rename(recovery, dbPath).
Installed(f) == [f EXCEPT !["db"] = f["tmp"], !["tmp"] = 0]
PutBack(f) ==
    IF f["recovery"] = 0 THEN f ELSE [f EXCEPT !["db"] = f["recovery"], !["recovery"] = 0]

\* A rename onto the database's name replaces one that was not moved aside.
Overwritten == files'["db"] # files["db"] /\ files["db"] # 0

\* The candidate becomes the database.  If that fails .recovery is put back, which
\* may fail too and is not checked; it is the previous database only if that was
\* moved aside.
Install ==
    /\ AtStep("restore", "install")
    /\ \/ /\ files' = Installed(files)
          /\ Goto("migrate")
          /\ hist' = [hist EXCEPT !.vault = admin.snapshot.vault,
                                  !.prev = IF hist.vault = 0 THEN files["tmp"] ELSE @,
                                  !.clobbered = @ \/ (Overwritten /\ disk[files["db"]].vault # 0)]
          /\ UNCHANGED used
       \/ /\ Fault /\ Goto("reopen")
          /\ \/ /\ files' = [PutBack(files) EXCEPT !["tmp"] = 0]
                /\ hist' = [hist EXCEPT !.late = @ \/ Overwritten,
                               !.clobbered = @ \/ (Overwritten /\ disk[files["db"]].vault # 0)]
             \/ /\ files' = [files EXCEPT !["tmp"] = 0]
                /\ hist' = [hist EXCEPT !.cut = @ \/ files["db"] = 0]
    /\ UNCHANGED <<disk, inodes, proc, handle, svc, container, waiting, confirmed, writer, alarm>>

\* Mutant: the store stays closed.
SwapForgotten(i) == handle' = handle
\* Store.Swap: the handle is the database just opened.
Swap(i) == handle' = i

\* The error path of restoreVault: whatever is on disk is opened, not migrated,
\* and the cached row stays.
Reopen ==
    /\ AtStep("restore", "reopen")
    /\ \/ LET o == OpenDB(disk, files, inodes)
          IN  /\ disk' = o.disk /\ files' = o.files /\ inodes' = o.inodes
              /\ Swap(o.files["db"])
              /\ admin' = NoReplacement
              /\ UNCHANGED <<used, hist>>
       \/ /\ Fault /\ GiveUp
          /\ UNCHANGED <<disk, files, inodes, handle>>
    /\ UNCHANGED <<proc, svc, container, waiting, confirmed, writer, alarm>>

-------------------------------------------------------------------------------
(* destroyVault.                                                           *)

\* The database, its log and .recovery: every removal is attempted, and any
\* error ends the request with the store closed.
RemoveDB ==
    /\ AtStep("destroy", "remove")
    /\ LET i == files["db"]
           kept == files'["db"] # 0 /\ disk'[i].vault # disk[i].vault
       IN  /\ Unlink(i)
           /\ \/ /\ files' = [files EXCEPT !["db"] = 0]
                 /\ Goto("removeRecovery")
                 /\ UNCHANGED used
              \/ /\ Fault /\ Goto("removeFailed")
                 /\ UNCHANGED files
           /\ hist' = [hist EXCEPT !.vault = 0, !.clobbered = @ \/ kept,
                                   !.lost = @ \cup LogLost(i)]
    /\ UNCHANGED <<inodes, proc, handle, svc, container, waiting, confirmed, alarm>>

\* Mutant: .recovery is not in the list of suffixes.
WithRecovery(f) == f
WithoutRecovery(f) == [f EXCEPT !["recovery"] = 0]

RemoveRecovery ==
    /\ Running /\ admin.op = "destroy" /\ admin.pc \in {"removeRecovery", "removeFailed"}
    /\ \/ /\ files' = WithoutRecovery(files)
          /\ IF admin.pc = "removeFailed" THEN GiveUp
             ELSE /\ Goto("migrate")
                  /\ hist' = [hist EXCEPT !.gone = @ \cup 1..used.vaults]
          /\ UNCHANGED used
       \/ /\ Fault /\ GiveUp
          /\ UNCHANGED files
    /\ UNCHANGED <<disk, inodes, proc, handle, svc, container, waiting, confirmed, writer, alarm>>

-------------------------------------------------------------------------------
(* The end of both.                                                        *)

\* Open, Migrate and Swap; a failure returns with the store closed.
OpenMigrated ==
    /\ Running /\ admin.pc = "migrate"
    /\ LET o == OpenDB(disk, files, inodes)
       IN  /\ files' = o.files /\ inodes' = o.inodes
           /\ \/ /\ disk' = Migrate(o.disk, o.files["db"])
                 /\ Swap(o.files["db"])
                 /\ Goto("reset")
                 /\ UNCHANGED <<used, hist>>
              \/ /\ Fault /\ GiveUp
                 /\ disk' = o.disk
                 /\ UNCHANGED handle
    /\ UNCHANGED <<proc, svc, container, waiting, confirmed, writer, alarm>>

\* Mutant: the high-water mark survives.
ForgetRow(sv) == [LockedOut EXCEPT !.mark = sv.mark]
\* Service.Reset forgets the cached row and the high-water mark.
Forget(sv) == LockedOut

\* A destruction also asks the daemon to stop.
Reset ==
    /\ Running /\ admin.pc = "reset"
    /\ svc' = Forget(svc)
    /\ proc' = IF admin.op = "destroy" THEN "stopping" ELSE proc
    /\ hist' = [hist EXCEPT !.late = writer.pc \in {"tx", "note"} /\ writer.ino # handle,
                            !.failed = FALSE]
    /\ admin' = NoReplacement
    /\ UNCHANGED <<disk, files, inodes, handle, container, waiting, confirmed, writer, alarm, used>>

\* OnDestroy's callback cancels the context of Serve in a goroutine of its own
\* and run returns; connections already open are served until then.
Shutdown == proc = "stopping" /\ Stop /\ UNCHANGED used

-------------------------------------------------------------------------------
Next ==
    \/ Crash \/ Panic \/ Start
    \/ InitVault \/ Unlock \/ Backup
    \/ WriteKeys \/ WriteBegin \/ WriteCommit \/ WriteNote
    \/ RestoreVerify \/ RestoreBegin \/ DestroyVerify \/ DestroyBegin \/ Close
    \/ WriteCandidate \/ MoveAside \/ Install \/ Reopen
    \/ RemoveDB \/ RemoveRecovery
    \/ OpenMigrated \/ Reset \/ Shutdown

Spec == Init /\ [][Next]_vars

-------------------------------------------------------------------------------
(* Properties.                                                             *)

Holds(n, v) == files[n] # 0 /\ disk[files[n]].vault = v

\* Restore keeps the previous database (backup.go: "The previous database is kept
\* at dbPath+.recovery"): at every instant, mid-restore and after a crash too, a
\* vault nobody asked to destroy is under one of the two names, and the database
\* that was replaced last still has every write that was acknowledged, except
\* when a transaction was in flight while its log was removed, which a vault
\* initialised since the last close does not survive.  Two more ways lose a vault
\* (clobbered): after a restore that stopped between its renames, a second one, verified
\* before, moves the empty database over the only copy; and a database that os.Stat
\* could not see is replaced without having been moved aside.
PreviousKept ==
    hist.vault # 0 /\ ~hist.clobbered =>
        /\ \E n \in {"db", "recovery"} : Holds(n, hist.vault)
        /\ hist.prev \in {files["db"], files["recovery"]}
        /\ disk[hist.prev].counter >= hist.acked[hist.prev] \/ hist.prev \in hist.lost

\* Between replacements the open database is the vault's, and the cached row is of
\* that vault ("restore atomically installs"), unless a replacement failed before
\* Reset could drop it.  The exception is a restore that stopped between its two
\* renames: then an empty database may be served, while .recovery has the vault.
ServesTheVault ==
    Running /\ handle # 0 /\ admin.pc = "idle" /\ hist.vault # 0 /\ ~hist.clobbered =>
        \/ Served.vault = hist.vault /\ (svc.loaded \in {0, hist.vault} \/ hist.failed)
        \/ hist.cut /\ Served.vault = 0 /\ Holds("recovery", hist.vault)

\* The store is open on the file that has the database's name, never on one that was
\* moved, replaced or removed.  It is closed, so that a request panics, only during a
\* replacement, or after one that ended with an error and until the next that does not
\* (restoreVault: "so the daemon stays alive", destroyVault: "instead of crashing").
StoreOpenBetween ==
    Running =>
        IF handle # 0 THEN handle = files["db"]
        ELSE admin.pc # "idle" \/ hist.failed

\* An unlock calls a rollback only what is one: never a vault just restored
\* (Service.Reset), unless a write to the replaced database notes its counter after
\* Reset has cleared the mark (late), a restore failed after the rename and before
\* Reset, or the file put back after a failed restore had lost its log or was an older
\* .recovery, put over a database that had not been moved aside (late too).  (Between
\* Swap and Reset an unlock still compares with the old mark.)
AlarmIsRollback ==
    [][alarm' # alarm /\ alarm' = "served" =>
           hist.late \/ hist.failed \/ handle \in hist.lost]_vars

\* Once a destruction has removed its files no file has a vault that existed then
\* (destroyVault: "every copy"), except the candidate that an interrupted restore
\* left behind, or when a restore verified before the destruction runs after it.
DestroyComplete ==
    \A n \in Names, v \in hist.gone :
        Holds(n, v) => (n = "tmp" /\ hist.leftover) \/ hist.revived
===============================================================================
