--------------------------------- MODULE Vault ---------------------------------
(***************************************************************************)
(* The vault daemon, one request at a time: the vault service              *)
(* (internal/vault/application), the record commands and their index       *)
(* (internal/records/application), client approval and revocation          *)
(* (internal/access/application), backup and restore                       *)
(* (internal/backup/application, internal/daemon/server.go), over the      *)
(* database of module Database.                                            *)
(*                                                                         *)
(* Every action is a whole request handler.  A request that is refused     *)
(* before it changes anything (vault locked, record not found, revision    *)
(* conflict, wrong current password) is a stuttering step.  The session    *)
(* table, which the second lock hook empties, is not part of this module.  *)
(***************************************************************************)
EXTENDS Database, FiniteSets

CONSTANTS
    Passwords,      \* master passwords a user may type
    RecordIDs,      \* record identifiers; a name is reused only once it is free
    Payloads,       \* contents of a record
    ClientIDs,      \* identifiers of paired browser clients
    MaxVaults,      \* bound: vaults created in one behaviour
    MaxEnvelope,    \* bound: envelope versions (password changes + 1)
    MaxRevision,    \* bound: revisions of a record
    MaxCounter,     \* bound: catalog counter
    MaxEpoch,       \* bound: vault epoch
    MaxFailed,      \* bound: consecutive failed unlocks
    LegacyPassword  \* the master password of a vault made before vault_state

ASSUME BoundsAssumption ==
    /\ MaxVaults \in Nat /\ MaxEnvelope \in Nat /\ MaxRevision \in Nat
    /\ MaxCounter \in Nat /\ MaxEpoch \in Nat /\ MaxFailed \in Nat
    /\ LegacyPassword \in Passwords

VARIABLES
    db,         \* the committed database
    svc,        \* fields of vaultapp.Service
    index,      \* records Index: id -> [revision, payload]
    container,  \* the last backup container written
    born,       \* number of vaults ever created: the next vault ID and root key
    outcome     \* how the last vault.unlock request ended

vars == <<db, svc, index, container, born, outcome>>

NoContainer == [mac |-> NoKey, vault |-> NoVault, snapshot |-> EmptyDB]

Outcomes == {"none", "ok", "rate_limited", "auth_failed", "integrity_failure"}

-------------------------------------------------------------------------------
(* The vault service.                                                      *)

\* NewService: what a daemon process starts with.
NewService ==
    [id |-> NoVault, state |-> "locked", epoch |-> 0, env |-> 0,
     keyring |-> NoKey, failed |-> 0, wait |-> 0, highWater |-> 0]

\* s.vault # nil: the vault row is cached.
Cached(s) == s.id # NoVault

\* There is a vault to load, or it is loaded already.
VaultFound == Cached(svc) \/ db.vault # NoVault

\* loadVault caches the vault row on first use.
loadVault(s) ==
    IF Cached(s) THEN s
    ELSE [s EXCEPT !.id = db.vault, !.state = "locked", !.epoch = 0, !.env = db.active]

\* Keys() hands out the keyring.
HasKeys(s) == s.keyring # NoKey /\ s.state = "unlocked"

\* Mutation of lockLocked: a lock of a locked vault advances the epoch too.
lockLockedAlways(s) ==
    [s EXCEPT !.keyring = NoKey, !.state = "locked", !.epoch = @ + 1]

\* Mutation of lockLocked: locking also forgets the failed attempts.
lockLockedForgiving(s) ==
    [s EXCEPT !.keyring = NoKey, !.state = "locked", !.failed = 0,
              !.epoch = IF s.state = "unlocked" THEN @ + 1 ELSE @]

\* lockLocked without its hooks.
lockLocked(s) ==
    [s EXCEPT !.keyring = NoKey, !.state = "locked",
              !.epoch = IF s.state = "unlocked" THEN @ + 1 ELSE @]

\* Mutation of Reset: the high-water mark survives.
ResetKeepingMark(s) ==
    [lockLocked(s) EXCEPT !.id = NoVault, !.state = "locked", !.epoch = 0, !.env = 0]

Reset(s) ==
    [lockLocked(s) EXCEPT !.id = NoVault, !.state = "locked", !.epoch = 0, !.env = 0,
                          !.highWater = 0]

noteCounterLocked(s, counter) ==
    [s EXCEPT !.highWater = IF counter > @ THEN counter ELSE @]

\* Seconds to wait after the n-th consecutive failure.
Delay(n) ==
    CASE n \in 0..3  -> 0
      [] n \in 4..5  -> 2
      [] n \in 6..10 -> (n - 5) * 5
      [] n > 10      -> 60

unlockFailed(s) == [s EXCEPT !.failed = @ + 1, !.wait = Delay(s.failed + 1)]

\* The service side of a successful unlock.
UnlockWith(s, key) ==
    [s EXCEPT !.keyring = key, !.failed = 0, !.wait = 0,
              !.state = "unlocked", !.epoch = @ + 1]

-------------------------------------------------------------------------------
(* Record payloads and the index.                                          *)

\* Mutation of encryptRecord: the payload is bound to the revision it replaces.
encryptAtOldRevision(s, id, revision, payload) ==
    Seal(s.keyring, payload, RecordAAD(s.id, id, revision - 1, s.env))

encryptRecord(s, id, revision, payload) ==
    Seal(s.keyring, payload, RecordAAD(s.id, id, revision, s.env))

\* LoadIndex and Reveal open a row under the key_version its column holds.
RowOpens(d, key, vault, id) ==
    Opens(key, d.records[id].sealed,
          RecordAAD(vault, id, d.records[id].revision, d.records[id].keyVersion))

IndexLoads(d, s) == \A id \in DOMAIN d.records : RowOpens(d, s.keyring, s.id, id)

LoadIndex(d) ==
    [id \in DOMAIN d.records |->
        [revision |-> d.records[id].revision, payload |-> d.records[id].sealed.payload]]

-------------------------------------------------------------------------------
(* Initial states.                                                         *)

\* A file written before table vault_state existed, after its migration.
LegacyDB ==
    InsertKeyEnvelope(InsertVault(EmptyDB, 1, 1), 1, buildEnvelope(1, 1, 1, LegacyPassword))

Init ==
    /\ \/ db = EmptyDB /\ born = 0
       \/ db = LegacyDB /\ born = 1
    /\ svc = NewService
    /\ index = EmptyTable
    /\ container = NoContainer
    /\ outcome = "none"

-------------------------------------------------------------------------------
(* Lifecycle requests.                                                     *)

\* vault.status, and every request that loads the vault and is then refused.
Status ==
    /\ ~Cached(svc) /\ db.vault # NoVault
    /\ svc' = loadVault(svc)
    /\ UNCHANGED <<db, index, container, born, outcome>>

opInit(password) ==
    /\ ~VaultFound
    /\ born < MaxVaults
    /\ LET vault == born + 1
           d == Stamp(InsertKeyEnvelope(InsertVault(db, vault, 1), 1,
                                        buildEnvelope(vault, 1, vault, password)),
                      vault, vault, 1)
       IN  /\ db' = d
           /\ svc' = [noteCounterLocked(svc, Counter(d)) EXCEPT
                         !.id = vault, !.state = "locked", !.epoch = 0, !.env = 1]
           /\ born' = vault
    /\ UNCHANGED <<index, container, outcome>>

\* Mutation of UnlockRateLimited: a refused attempt starts the delay again.
UnlockRestartsDelay ==
    /\ svc.wait > 0
    /\ svc' = [svc EXCEPT !.wait = Delay(svc.failed)]
    /\ outcome' = "rate_limited"
    /\ UNCHANGED <<db, index, container, born>>

\* vault.unlock before the backoff has elapsed.
UnlockRateLimited ==
    /\ svc.wait > 0
    /\ outcome' = "rate_limited"
    /\ UNCHANGED <<db, svc, index, container, born>>

\* Unlock is past the rate limit, the vault is there and the password is judged
\* against the envelope of the version the service has cached.
UnlockAdmitted(s, password, opens) ==
    /\ svc.wait = 0
    /\ VaultFound
    /\ HasEnvelope(db, s.env)
    /\ EnvelopeOpens(db.envelopes[s.env], s.id, s.env, password) = opens

\* The cached envelope version has no row any more.
UnlockWithoutEnvelope ==
    /\ svc.wait = 0 /\ VaultFound
    /\ ~HasEnvelope(db, loadVault(svc).env)
    /\ svc' = loadVault(svc)
    /\ outcome' = "integrity_failure"
    /\ UNCHANGED <<db, index, container, born>>

UnlockRefused(password) ==
    LET s == loadVault(svc) IN
    /\ UnlockAdmitted(s, password, FALSE)
    /\ s.failed < MaxFailed
    /\ svc' = unlockFailed(s)
    /\ outcome' = "auth_failed"
    /\ UNCHANGED <<db, index, container, born>>

\* The verdict of VerifyCatalog on the service state s.
CatalogVerdict(d, s) ==
    IF d.state = NoState THEN "absent"
    ELSE IF ~Verify(d, s.keyring, s.id, s.env) \/ Counter(d) < s.highWater
    THEN "integrity_failure" ELSE "ok"

\* opUnlock with the right password: unlock, build the index, check the anchor.
opUnlock(password) ==
    LET loaded == loadVault(svc)
        s == UnlockWith(loaded, db.envelopes[loaded.env].rootKey)
        Fail == /\ svc' = lockLocked(s)            \* PanicLock
                /\ index' = EmptyTable
                /\ outcome' = "integrity_failure"
                /\ db' = db
        Succeed(d, t) == /\ db' = d
                         /\ svc' = t
                         /\ index' = LoadIndex(d)
                         /\ outcome' = "ok"
        stamped == Stamp(db, s.keyring, s.id, s.env)
    IN  /\ UnlockAdmitted(loaded, password, TRUE)
        /\ loaded.epoch + 2 <= MaxEpoch
        /\ \/ ~IndexLoads(db, s) /\ Fail
           \/ IndexLoads(db, s) /\ CatalogVerdict(db, s) = "integrity_failure" /\ Fail
           \/ /\ IndexLoads(db, s) /\ CatalogVerdict(db, s) = "ok"
              /\ Succeed(db, [s EXCEPT !.highWater = Counter(db)])
           \/ /\ IndexLoads(db, s) /\ CatalogVerdict(db, s) = "absent"
              /\ Succeed(stamped, noteCounterLocked(s, Counter(stamped)))
        /\ UNCHANGED <<container, born>>

\* vault.lock, and the idle-lock loop.
Lock ==
    /\ svc' = lockLocked(svc)
    /\ index' = EmptyTable
    /\ UNCHANGED <<db, container, born, outcome>>

ChangeMasterPassword(current, next) ==
    LET s == loadVault(svc)
        old == s.env
        new == old + 1
        rootKey == db.envelopes[old].rootKey
        rewrapped == InsertKeyEnvelope(db, new, buildEnvelope(s.id, new, rootKey, next))
        d == Stamp(DeleteKeyEnvelope(SetActiveEnvelope(rewrapped, new), old),
                   rootKey, s.id, new)
    IN  /\ VaultFound /\ HasEnvelope(db, old)
        /\ EnvelopeOpens(db.envelopes[old], s.id, old, current)
        /\ new <= MaxEnvelope /\ Counter(db) < MaxCounter
        /\ db' = d
        /\ svc' = lockLocked([noteCounterLocked(s, Counter(d)) EXCEPT !.env = new])
        /\ index' = EmptyTable
        /\ UNCHANGED <<container, born, outcome>>

-------------------------------------------------------------------------------
(* Requests that need the keyring.  Their transaction ends with Stamp, and *)
(* fails as a whole when Stamp does.                                       *)

\* Mutation of StampAndNote: the counter that was stamped is not noted.
StampOnly(d) ==
    /\ HasKeys(svc)
    /\ HasEnvelope(d, svc.env)
    /\ Counter(d) < MaxCounter
    /\ db' = Stamp(d, svc.keyring, svc.id, svc.env)
    /\ UNCHANGED <<svc, container, born, outcome>>

\* Commit the changed tables d and note the counter that was stamped.
StampAndNote(d) ==
    /\ HasKeys(svc)
    /\ HasEnvelope(d, svc.env)
    /\ Counter(d) < MaxCounter
    /\ db' = Stamp(d, svc.keyring, svc.id, svc.env)
    /\ svc' = noteCounterLocked(svc, Counter(db'))
    /\ UNCHANGED <<container, born, outcome>>

Create(id, payload) ==
    /\ id \notin DOMAIN db.records
    /\ StampAndNote(InsertRecord(db, id, svc.env, 1, encryptRecord(svc, id, 1, payload)))
    /\ index' = Put(index, id, [revision |-> 1, payload |-> payload])

Update(id, expected, payload) ==
    LET revision == expected + 1 IN
    /\ id \in DOMAIN index
    /\ MatchesRevision(db, id, expected)
    /\ revision <= MaxRevision
    /\ StampAndNote(UpdateRecord(db, id, revision, encryptRecord(svc, id, revision, payload)))
    /\ index' = Put(index, id, [revision |-> revision, payload |-> payload])

\* Mutation of Delete: the row goes after the tables were stamped.
DeleteAfterStamp(id) ==
    /\ id \in DOMAIN db.records /\ HasKeys(svc) /\ Counter(db) < MaxCounter
    /\ db' = DeleteRecord(Stamp(db, svc.keyring, svc.id, svc.env), id)
    /\ svc' = noteCounterLocked(svc, Counter(db'))
    /\ index' = Remove(index, id)
    /\ UNCHANGED <<container, born, outcome>>

\* Mutation of Delete: the index keeps the deleted record.
DeleteRowOnly(id) ==
    /\ id \in DOMAIN db.records
    /\ StampAndNote(DeleteRecord(db, id))
    /\ UNCHANGED index

Delete(id) ==
    /\ id \in DOMAIN db.records
    /\ StampAndNote(DeleteRecord(db, id))
    /\ index' = Remove(index, id)

Approve(client) ==
    /\ client \notin DOMAIN db.clients
    /\ StampAndNote(InsertClient(db, client))
    /\ UNCHANGED index

Revoke(client) ==
    /\ client \in DOMAIN db.clients
    /\ StampAndNote(UpdateClientStatus(db, client, "revoked"))
    /\ UNCHANGED index

-------------------------------------------------------------------------------
(* Backup, restore, destruction and the life of the process.               *)

BackupCreate ==
    /\ HasKeys(svc)
    /\ container' = [mac |-> svc.keyring, vault |-> svc.id, snapshot |-> db]
    /\ UNCHANGED <<db, svc, index, born, outcome>>

\* backup.Verify: authenticated by this vault's backup key, and of this vault.
ContainerVerifies ==
    /\ HasKeys(svc)
    /\ container # NoContainer
    /\ container.mac = svc.keyring
    /\ container.vault = svc.id

\* opBackupRestore.  An I/O error in Restore puts the old file back: the vault
\* has been locked, and is not reset.
BackupRestore ==
    /\ ContainerVerifies
    /\ \/ db' = container.snapshot /\ svc' = Reset(svc)
       \/ db' = db /\ svc' = lockLocked(svc)
    /\ index' = EmptyTable
    /\ UNCHANGED <<container, born, outcome>>

\* opDestroy, after the password has been verified.
Destroy(password) ==
    LET s == loadVault(svc) IN
    /\ VaultFound /\ HasEnvelope(db, s.env)
    /\ EnvelopeOpens(db.envelopes[s.env], s.id, s.env, password)
    /\ db' = EmptyDB
    /\ svc' = Reset(svc)
    /\ index' = EmptyTable
    /\ UNCHANGED <<container, born, outcome>>

\* The daemon exits or is killed and is started again.
Restart ==
    /\ svc' = NewService
    /\ index' = EmptyTable
    /\ outcome' = "none"
    /\ UNCHANGED <<db, container, born>>

\* A second passes.
Tick ==
    /\ svc.wait > 0
    /\ svc' = [svc EXCEPT !.wait = @ - 1]
    /\ UNCHANGED <<db, index, container, born, outcome>>

-------------------------------------------------------------------------------
(* Specifications.                                                         *)

Next ==
    \/ Status
    \/ UnlockRateLimited
    \/ \E p \in Passwords : opInit(p) \/ UnlockRefused(p) \/ opUnlock(p) \/ Destroy(p)
    \/ \E p, q \in Passwords : ChangeMasterPassword(p, q)
    \/ Lock
    \/ \E id \in RecordIDs : Delete(id) \/ \E x \in Payloads : Create(id, x)
    \/ \E id \in RecordIDs, n \in 1..MaxRevision, x \in Payloads : Update(id, n, x)
    \/ \E c \in ClientIDs : Approve(c) \/ Revoke(c)
    \/ BackupCreate \/ BackupRestore
    \/ Restart \/ Tick

Spec == Init /\ [][Next]_vars

\* Time does not stop.
FairSpec == Spec /\ WF_vars(Tick)

-------------------------------------------------------------------------------
(* Properties.                                                             *)

\* Type correctness of the service, the tables and the index.
TypeOK ==
    /\ DOMAIN svc = DOMAIN NewService
    /\ svc.state \in {"locked", "unlocked"}
    /\ svc.id \in Nat /\ svc.epoch \in 0..MaxEpoch /\ svc.env \in Nat
    /\ svc.keyring \in Nat /\ svc.failed \in 0..MaxFailed /\ svc.wait \in 0..60
    /\ svc.highWater \in Nat
    /\ db.vault \in 0..born /\ Counter(db) \in Nat
    /\ DOMAIN db.records \subseteq RecordIDs /\ DOMAIN db.clients \subseteq ClientIDs
    /\ DOMAIN index \subseteq RecordIDs
    /\ outcome \in Outcomes

\* Every committed state verifies: no request leaves the tables and the anchor
\* that Stamp wrote in the same transaction out of step (catalog.Stamp, and
\* every transaction that ends with it), whichever envelope version and key the
\* service had cached.
AnchorCurrent ==
    db.state # NoState => Verify(db, db.vault, db.vault, db.active)

\* The in-process high-water mark never passes the counter in the file, so no
\* authorized restore, destruction or restart makes VerifyCatalog report a
\* rollback (Reset, NoteCatalogCounter).
HighWaterNotAhead == svc.highWater <= Counter(db)

\* While unlocked the index holds exactly the rows of the table, with their
\* current revision and contents; while locked it holds nothing (Index, ClearIndex).
IndexMirrorsRecords ==
    index = IF HasKeys(svc) THEN LoadIndex(db) ELSE EmptyTable

\* A password change leaves one envelope, the active one, around the root key
\* the vault was created with: the old password is retired and every ciphertext
\* keeps its key (ChangeMasterPassword).
OnlyActiveEnvelope ==
    db.vault # NoVault =>
        /\ DOMAIN db.envelopes = {db.active}
        /\ db.envelopes[db.active].rootKey = db.vault

\* A record that was never updated, or that was created under the active
\* envelope, opens under the key_version its row holds (InsertRecord, Update).
RowsOpenUnlessResealed ==
    \A id \in DOMAIN db.records :
        (db.records[id].revision = 1 \/ db.records[id].keyVersion = db.active)
            => RowOpens(db, db.vault, db.vault, id)

\* Whatever the service has cached, the next unlock with the right password finds
\* its envelope, and the catalog it checks is accepted: VerifyCatalog blames no
\* sequence of requests, restores, destructions and restarts of the daemon itself.
CatalogAccepted ==
    VaultFound =>
        LET s == loadVault(svc) IN
        /\ HasEnvelope(db, s.env)
        /\ CatalogVerdict(db, UnlockWith(s, db.envelopes[s.env].rootKey))
              # "integrity_failure"

\* A container made by this vault is accepted by it whatever password changes
\* came in between, and installs a state that verifies (BackupCreate, Verify).
BackupSound ==
    container # NoContainer =>
        /\ HasKeys(svc) /\ container.vault = svc.id => ContainerVerifies
        /\ LET d == container.snapshot IN
           /\ d.vault = container.vault
           /\ d.state # NoState
           /\ Verify(d, container.mac, d.vault, d.active)

\* Unlocking a vault nobody touched never ends in an integrity failure (opUnlock).
NoFalseAlarm == outcome # "integrity_failure"

\* Nothing but the right password or the end of the process forgets failed
\* attempts: locking, a password change, a restore and a destruction keep them.
FailuresRemembered ==
    [][svc'.failed < svc.failed => Restart \/ \E p \in Passwords : opUnlock(p)]_vars

\* However often the user retries while the backoff runs, it ends (Unlock's early
\* return does not count the attempt).
BackoffEnds == (svc.wait > 0) ~> (svc.wait = 0)
===============================================================================
