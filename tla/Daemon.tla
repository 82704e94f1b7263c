-------------------------------- MODULE Daemon --------------------------------
(***************************************************************************)
(* The requests of module Vault as the daemon really runs them: one        *)
(* goroutine per connection (Server.handleConn) and the idle-lock ticker,  *)
(* interleaved wherever the code gives up a lock.  Three things are        *)
(* shared:                                                                 *)
(*   mu    the mutex of vaultapp.Service;                                  *)
(*   conn  the only SQLite connection (SetMaxOpenConns(1)), which a        *)
(*         transaction keeps until it commits and a query needs for one    *)
(*         statement;                                                      *)
(*   the keyring, which Keys() hands out as a pointer and lock wipes in    *)
(*         place.                                                          *)
(* A step is what a goroutine does between two points where it may wait or *)
(* be overtaken.  Backoff, epochs and sessions are left to other modules;  *)
(* every password here is the right one.                                   *)
(***************************************************************************)
EXTENDS Database, FiniteSets

CONSTANTS
    Threads,        \* goroutines, numbered
    RecordIDs,      \* record identifiers
    Existing,       \* the records the vault already holds
    Payloads,       \* contents of a record
    Ops,            \* the requests that may arrive
    MaxRequests     \* bound: requests served in one behaviour

AllOps == {"create", "update", "delete", "reveal", "status", "unlock", "lock", "change"}

ASSUME DaemonAssumption ==
    /\ Existing \subseteq RecordIDs /\ Ops \subseteq AllOps
    /\ MaxRequests \in Nat
    /\ Threads \subseteq Nat \ {0}

VARIABLES
    db,         \* the committed database
    svc,        \* loaded vault row, lock state, keyring pointer, high-water mark
    rings,      \* every keyring ever allocated: its root key, or ZeroKey once wiped
    index,      \* records Index
    mu, conn,   \* the holder of the mutex and of the connection
    th,         \* the local variables of each goroutine
    minted,     \* record identifiers handed out: crypto.NewID never repeats one
    served,     \* requests accepted so far
    alarms,     \* the checks that have reported an integrity failure
    overlap     \* a step has touched what another goroutine is about to publish, and no
                \* lock has emptied the index for good since

vars == <<db, svc, rings, index, mu, conn, th, minted, served, alarms, overlap>>
shared == <<db, svc, rings, index>>

Free == 0
RootKey == 1    \* the root key of vault 1
Rings == 1..(MaxRequests + 1)

\* A goroutine between two requests.
Idle == [pc |-> "idle"]

-------------------------------------------------------------------------------
(* The state after an unlock, which is where a behaviour starts.           *)

NewRow(id, x) ==
    [keyVersion |-> 1, revision |-> 1, sealed |-> Seal(RootKey, x, RecordAAD(1, id, 1, 1))]

StartDB ==
    LET x == CHOOSE y \in Payloads : TRUE
        d == [EmptyDB EXCEPT !.vault = 1, !.active = 1,
                !.envelopes = Put(EmptyTable, 1, buildEnvelope(1, 1, RootKey, "password")),
                !.records = [id \in Existing |-> NewRow(id, x)]]
    IN  Stamp(d, RootKey, 1, 1)

Entry(row) == [revision |-> row.revision, payload |-> row.sealed.payload]

Init ==
    /\ db = StartDB
    /\ svc = [id |-> 1, env |-> 1, state |-> "unlocked", ring |-> 1, highWater |-> 1]
    /\ rings = [g \in Rings |-> IF g = 1 THEN RootKey ELSE NoKey]
    /\ index = [id \in Existing |-> Entry(db.records[id])]
    /\ mu = Free /\ conn = Free
    /\ th = [t \in Threads |-> Idle]
    /\ minted = Existing
    /\ served = 0
    /\ alarms = {}
    /\ overlap = FALSE

-------------------------------------------------------------------------------
(* Locks and control.                                                      *)

At(t, label) == th[t].pc = label
Goto(t, label) == th' = [th EXCEPT ![t].pc = label]
Finish(t) == th' = [th EXCEPT ![t] = Idle]

HasKeys == svc.ring # 0 /\ svc.state = "unlocked"

\* The key a goroutine sees through the keyring pointer it holds.
KeyOf(t) == rings[th[t].ring]

\* lockLocked and its hooks, run by whoever holds mu: the keyring is wiped in
\* place, so whoever still holds a pointer to it now holds zeroes.
LockEffect ==
    /\ rings' = IF svc.ring = 0 THEN rings ELSE [rings EXCEPT ![svc.ring] = ZeroKey]
    /\ svc' = [svc EXCEPT !.ring = 0, !.state = "locked"]
    /\ index' = EmptyTable

\* A request arrives at an idle goroutine: the first one, as they are all alike.
Accept(t, local, ids) ==
    /\ At(t, "idle") /\ (\A u \in Threads : u < t => ~At(u, "idle"))
    /\ served < MaxRequests
    /\ local.op \in Ops
    /\ served' = served + 1
    /\ minted' = minted \cup ids
    /\ th' = [th EXCEPT ![t] = local]
    /\ UNCHANGED <<shared, mu, conn, alarms, overlap>>

Write(op, id, base, x) ==
    [pc |-> "keys", op |-> op, id |-> id, base |-> base, payload |-> x,
     ring |-> 0, sealed |-> NoState, keyVersion |-> 0, stamped |-> 0]

\* A record is created under a new identifier; an update names a revision that
\* its client has seen.
AcceptWrite(t) ==
    \E x \in Payloads :
        \/ \E id \in RecordIDs \ minted : Accept(t, Write("create", id, 0, x), {id})
        \/ \E id \in DOMAIN db.records :
             Accept(t, Write("update", id, db.records[id].revision, x), {})

AcceptOther(t) ==
    \/ \E op \in {"delete", "reveal"}, id \in minted :
          Accept(t, [pc |-> "keys", op |-> op, id |-> id, ring |-> 0, stamped |-> 0], {})
    \/ \E op \in {"status", "lock", "change"} : Accept(t, [pc |-> op, op |-> op], {})
    \/ Accept(t, [pc |-> "unlock", op |-> "unlock", ring |-> 0, rows |-> EmptyTable], {})

-------------------------------------------------------------------------------
(* Create, Update, Delete and Reveal.                                      *)

\* Keys(): a pointer to the keyring, or the request is refused.
Keys(t) ==
    /\ At(t, "keys") /\ mu = Free
    /\ IF HasKeys
       THEN th' = [th EXCEPT ![t].ring = svc.ring,
                             ![t].pc = CASE th[t].op = "create" -> "encrypt"
                                         [] th[t].op = "update" -> "lookup"
                                         [] th[t].op = "delete" -> "begin"
                                         [] th[t].op = "reveal" -> "open"]
       ELSE Finish(t)
    /\ UNCHANGED <<shared, mu, conn, minted, served, alarms>>

\* Update looks the record up in the index.
LookUp(t) ==
    /\ At(t, "lookup")
    /\ IF th[t].id \in DOMAIN index THEN Goto(t, "encrypt") ELSE Finish(t)
    /\ UNCHANGED <<shared, mu, conn, minted, served, alarms>>

\* Mutation of Encrypt: the index is updated before the transaction.
EncryptAndPublish(t) ==
    LET l == th[t] IN
    /\ At(t, "encrypt") /\ mu = Free
    /\ th' = [th EXCEPT
          ![t].sealed = Seal(KeyOf(t), l.payload, RecordAAD(svc.id, l.id, l.base + 1, svc.env)),
          ![t].pc = IF l.op = "create" THEN "keyVersion" ELSE "begin"]
    /\ index' = Put(index, l.id, [revision |-> l.base + 1, payload |-> l.payload])
    /\ UNCHANGED <<db, svc, rings, mu, conn, minted, served, alarms>>

\* encryptRecord: VaultInfo, and Seal through the keyring pointer.
Encrypt(t) ==
    LET l == th[t] IN
    /\ At(t, "encrypt") /\ mu = Free
    /\ th' = [th EXCEPT
          ![t].sealed = Seal(KeyOf(t), l.payload, RecordAAD(svc.id, l.id, l.base + 1, svc.env)),
          ![t].pc = IF l.op = "create" THEN "keyVersion" ELSE "begin"]
    /\ UNCHANGED <<shared, mu, conn, minted, served, alarms>>

\* Create asks VaultInfo again for the key_version column.
KeyVersion(t) ==
    /\ At(t, "keyVersion") /\ mu = Free
    /\ th' = [th EXCEPT ![t].keyVersion = svc.env, ![t].pc = "begin"]
    /\ UNCHANGED <<shared, mu, conn, minted, served, alarms>>

\* The rows the statement of a write affects.
Affects(l) ==
    CASE l.op = "create" -> TRUE
      [] l.op = "update" -> MatchesRevision(db, l.id, l.base)
      [] l.op = "delete" -> l.id \in DOMAIN db.records

Mutate(l) ==
    CASE l.op = "create" -> InsertRecord(db, l.id, l.keyVersion, 1, l.sealed)
      [] l.op = "update" -> UpdateRecord(db, l.id, l.base + 1, l.sealed)
      [] l.op = "delete" -> DeleteRecord(db, l.id)

\* Mutation of Begin: the counter is noted before the transaction commits.
BeginNoting(t) ==
    /\ At(t, "begin") /\ conn = Free
    /\ Affects(th[t]) /\ conn' = t /\ Goto(t, "stamp")
    /\ svc' = [svc EXCEPT !.highWater = Counter(db) + 1]
    /\ UNCHANGED <<db, rings, index, mu, minted, served, alarms>>

\* Mutation of Begin: a statement that affects no row leaves the transaction open.
BeginLeaking(t) ==
    /\ At(t, "begin") /\ conn = Free
    /\ conn' = t
    /\ IF Affects(th[t]) THEN Goto(t, "stamp") ELSE Finish(t)
    /\ UNCHANGED <<shared, mu, minted, served, alarms>>

\* BeginTx takes the connection; a statement that affects no row ends the
\* transaction, and the request, at once.
Begin(t) ==
    /\ At(t, "begin") /\ conn = Free
    /\ IF Affects(th[t]) THEN conn' = t /\ Goto(t, "stamp") ELSE conn' = conn /\ Finish(t)
    /\ UNCHANGED <<shared, mu, minted, served, alarms>>

\* Mutation of StampCommit: the tables change after they were stamped.
CommitAfterStamp(t) ==
    /\ At(t, "stamp") /\ mu = Free
    /\ db' = [Mutate(th[t]) EXCEPT !.state = Stamp(db, KeyOf(t), svc.id, svc.env).state]
    /\ conn' = Free
    /\ th' = [th EXCEPT ![t].stamped = Counter(db'), ![t].pc = "note"]
    /\ UNCHANGED <<svc, rings, index, mu, minted, served, alarms>>

\* Still inside the transaction: VaultInfo, catalog.Stamp, commit.
StampCommit(t) ==
    /\ At(t, "stamp") /\ mu = Free
    /\ db' = Stamp(Mutate(th[t]), KeyOf(t), svc.id, svc.env)
    /\ conn' = Free
    /\ th' = [th EXCEPT ![t].stamped = Counter(db'), ![t].pc = "note"]
    /\ UNCHANGED <<svc, rings, index, mu, minted, served, alarms>>

\* noteStamped.
Note(t) ==
    /\ At(t, "note") /\ mu = Free
    /\ svc' = [svc EXCEPT !.highWater = IF th[t].stamped > @ THEN th[t].stamped ELSE @]
    /\ Goto(t, "publish")
    /\ UNCHANGED <<db, rings, index, mu, conn, minted, served, alarms>>

\* index.Put or index.Remove.
Publish(t) ==
    LET l == th[t] IN
    /\ At(t, "publish")
    /\ index' = IF l.op = "delete" THEN Remove(index, l.id)
                ELSE Put(index, l.id, [revision |-> l.base + 1, payload |-> l.payload])
    /\ Finish(t)
    /\ UNCHANGED <<db, svc, rings, mu, conn, minted, served, alarms>>

\* LoadIndex and Reveal open a row under the key_version its column holds.
RowOpens(key, id, row) ==
    Opens(key, row.sealed, RecordAAD(svc.id, id, row.revision, row.keyVersion))

\* Reveal: VaultInfo, GetRecord, and Open through the keyring pointer.
Reveal(t) ==
    LET id == th[t].id IN
    /\ At(t, "open") /\ mu = Free /\ conn = Free
    /\ alarms' = IF id \in DOMAIN db.records /\ ~RowOpens(KeyOf(t), id, db.records[id])
                 THEN alarms \cup {"reveal"} ELSE alarms
    /\ Finish(t)
    /\ UNCHANGED <<shared, mu, conn, minted, served>>

-------------------------------------------------------------------------------
(* Lock, and the requests that hold mu while they use the connection.      *)

\* vault.lock and the idle-lock loop; also the PanicLock of a failed unlock.
Lock(t) ==
    /\ At(t, "lock") /\ mu = Free
    /\ LockEffect
    /\ Finish(t)
    /\ UNCHANGED <<db, mu, conn, minted, served, alarms>>

\* Status, Unlock, ChangeMasterPassword and VerifyCatalog take mu first.
TakeMu(t) ==
    /\ th[t].pc \in {"status", "unlock", "change", "verify"} /\ mu = Free
    /\ mu' = t
    /\ Goto(t, CASE At(t, "status") -> "statusQuery"
                 [] At(t, "unlock") -> "unlockQuery"
                 [] At(t, "change") -> "changeQuery"
                 [] At(t, "verify") -> "verifyQuery")
    /\ UNCHANGED <<shared, conn, minted, served, alarms>>

\* Mutation of StatusQuery: a locked vault is reported without releasing mu.
StatusQueryLeaking(t) ==
    /\ At(t, "statusQuery")
    /\ svc.state = "unlocked" => conn = Free
    /\ mu' = IF svc.state = "unlocked" THEN Free ELSE mu
    /\ Finish(t)
    /\ UNCHANGED <<shared, conn, minted, served, alarms>>

\* Status counts the records of an unlocked vault.
StatusQuery(t) ==
    /\ At(t, "statusQuery")
    /\ svc.state = "unlocked" => conn = Free
    /\ mu' = Free
    /\ Finish(t)
    /\ UNCHANGED <<shared, conn, minted, served, alarms>>

\* Unlock reads the envelope, derives a new keyring and drops the old pointer.
UnlockQuery(t) ==
    LET g == CHOOSE r \in Rings : rings[r] = NoKey IN
    /\ At(t, "unlockQuery") /\ conn = Free
    /\ rings' = [rings EXCEPT ![g] = db.envelopes[svc.env].rootKey]
    /\ svc' = [svc EXCEPT !.ring = g, !.state = "unlocked"]
    /\ mu' = Free
    /\ Goto(t, "loadKeys")
    /\ UNCHANGED <<db, index, conn, minted, served, alarms>>

ChangeQuery(t) ==
    LET old == svc.env
        new == old + 1
        key == db.envelopes[old].rootKey
        rewrapped == InsertKeyEnvelope(db, new, buildEnvelope(svc.id, new, key, "password"))
        d == Stamp(DeleteKeyEnvelope(SetActiveEnvelope(rewrapped, new), old), key, svc.id, new)
    IN  /\ At(t, "changeQuery") /\ conn = Free
        /\ db' = d
        /\ rings' = IF svc.ring = 0 THEN rings ELSE [rings EXCEPT ![svc.ring] = ZeroKey]
        /\ svc' = [svc EXCEPT !.ring = 0, !.state = "locked", !.env = new,
                              !.highWater = IF Counter(d) > @ THEN Counter(d) ELSE @]
        /\ index' = EmptyTable
        /\ mu' = Free
        /\ Finish(t)
        /\ UNCHANGED <<conn, minted, served, alarms>>

-------------------------------------------------------------------------------
(* What opUnlock does after Unlock has returned.                           *)

\* LoadIndex asks for the keyring; a vault locked in the meantime fails it.
LoadKeys(t) ==
    /\ At(t, "loadKeys") /\ mu = Free
    /\ th' = IF HasKeys THEN [th EXCEPT ![t].ring = svc.ring, ![t].pc = "list"]
                        ELSE [th EXCEPT ![t].pc = "lock"]
    /\ UNCHANGED <<shared, mu, conn, minted, served, alarms>>

ListRecords(t) ==
    /\ At(t, "list") /\ conn = Free
    /\ th' = [th EXCEPT ![t].rows = db.records, ![t].pc = "clear"]
    /\ UNCHANGED <<shared, mu, conn, minted, served, alarms>>

ClearIndex(t) ==
    /\ At(t, "clear")
    /\ index' = EmptyTable
    /\ Goto(t, IF th[t].rows = EmptyTable THEN "verify" ELSE "fill")
    /\ UNCHANGED <<db, svc, rings, mu, conn, minted, served, alarms>>

\* One row of the loop in LoadIndex.
FillIndex(t) ==
    \E id \in DOMAIN th[t].rows :
        LET row == th[t].rows[id]
            rest == Remove(th[t].rows, id)
        IN  /\ IF RowOpens(KeyOf(t), id, row)
               THEN /\ index' = Put(index, id, Entry(row))
                    /\ th' = [th EXCEPT ![t].rows = rest,
                                        ![t].pc = IF rest = EmptyTable THEN "verify" ELSE "fill"]
                    /\ alarms' = alarms
               ELSE /\ index' = EmptyTable
                    /\ th' = [th EXCEPT ![t].rows = EmptyTable, ![t].pc = "lock"]
                    /\ alarms' = alarms \cup {"index"}
            /\ UNCHANGED <<db, svc, rings, mu, conn, minted, served>>

Fill(t) == At(t, "fill") /\ FillIndex(t)

\* VerifyCatalog, under mu.
VerifyQuery(t) ==
    LET sound == /\ Verify(db, rings[svc.ring], svc.id, svc.env)
                 /\ Counter(db) >= svc.highWater
    IN  /\ At(t, "verifyQuery")
        /\ HasKeys => conn = Free
        /\ mu' = Free
        /\ \/ /\ ~HasKeys
              /\ Goto(t, "lock") /\ UNCHANGED <<svc, alarms>>
           \/ /\ HasKeys /\ ~sound
              /\ Goto(t, "lock") /\ alarms' = alarms \cup {"catalog"} /\ UNCHANGED svc
           \/ /\ HasKeys /\ sound
              /\ svc' = [svc EXCEPT !.highWater = Counter(db)]
              /\ Finish(t) /\ UNCHANGED alarms
        /\ UNCHANGED <<db, rings, index, conn, minted, served>>

-------------------------------------------------------------------------------
(* Specification.                                                          *)

\* The bound on requests is reached and all of them are answered.
Quiescent == served = MaxRequests /\ (\A t \in Threads : At(t, "idle"))
Done == Quiescent /\ UNCHANGED vars

\* From its commit to its index.Put a writer, and from its list of the rows to the
\* last Put LoadIndex, is about to publish what it saw of the tables; a lock matters
\* to whoever was handed the keyring before it.
Publishing(t) == th[t].pc \in {"note", "publish", "clear", "fill"}
HandedKeys(t) ==
    Publishing(t) \/ th[t].pc \in {"lookup", "encrypt", "keyVersion", "begin", "stamp", "list"}

Overlaps(t) ==
    \E u \in Threads \ {t} :
        \/ Publishing(u) /\ (db' # db \/ index' # index)
        \/ HandedKeys(u) /\ svc.ring # 0 /\ svc'.ring = 0

\* A lock, or the one of a password change, that nobody with keys overlaps empties
\* the index for good: whatever was published late is gone.
Settles(t) ==
    th[t].pc \in {"lock", "changeQuery"} /\ \A u \in Threads \ {t} : ~HandedKeys(u)

\* What a goroutine does once it has accepted a request.
Work(t) ==
    \/ Keys(t) \/ LookUp(t) \/ Encrypt(t) \/ KeyVersion(t) \/ Begin(t) \/ StampCommit(t)
    \/ Note(t) \/ Publish(t) \/ Reveal(t)
    \/ Lock(t) \/ TakeMu(t) \/ StatusQuery(t) \/ UnlockQuery(t) \/ ChangeQuery(t)
    \/ LoadKeys(t) \/ ListRecords(t) \/ ClearIndex(t) \/ Fill(t) \/ VerifyQuery(t)

Serve(t) == Work(t) /\ overlap' = ((overlap \/ Overlaps(t)) /\ ~Settles(t))

Next ==
    \/ \E t \in Threads : AcceptWrite(t) \/ AcceptOther(t) \/ Serve(t)
    \/ Done

Spec == Init /\ [][Next]_vars

\* A goroutine that can move does: the Go scheduler is fair, sync.Mutex hands a
\* starving waiter the lock and database/sql serves its waiters in order.
FairSpec == Spec /\ \A t \in Threads : WF_vars(Serve(t))

-------------------------------------------------------------------------------
(* Properties.                                                             *)

\* Type correctness, and the two locks are held exactly where the code holds them.
TypeOK ==
    /\ mu \in Threads \cup {Free} /\ conn \in Threads \cup {Free}
    /\ \A t \in Threads :
        /\ mu = t <=> th[t].pc \in {"statusQuery", "unlockQuery", "changeQuery", "verifyQuery"}
        /\ conn = t <=> At(t, "stamp")
    /\ svc.ring \in {0} \cup Rings /\ svc.state \in {"locked", "unlocked"}
    /\ \A g \in Rings : rings[g] \in {NoKey, RootKey, ZeroKey}
    /\ DOMAIN index \subseteq RecordIDs /\ DOMAIN db.records \subseteq RecordIDs
    /\ alarms \subseteq {"reveal", "index", "catalog"}

\* However writers interleave, the anchor in the file describes the tables it was
\* committed with: only the key it was made under can be wrong (catalog.Stamp runs
\* inside the transaction it anchors).
AnchorCoversTables == Verify(db, db.state.root.key, db.vault, db.active)

\* A counter is noted only after the transaction that wrote it has committed, and
\* out-of-order notes do not move the mark back (NoteCatalogCounter).
HighWaterNotAhead == svc.highWater <= Counter(db)

\* Of all the writers that read one revision of a record, at most one replaces it,
\* and the record then has the next revision (Update's WHERE clause).
RevisionsAdvance ==
    [][\A id \in DOMAIN db.records \cap DOMAIN db'.records :
          db'.records[id] # db.records[id]
              => db'.records[id].revision = db.records[id].revision + 1]_vars

\* No goroutine holds mu and waits for the connection while another holds the
\* connection and waits for mu.
NoCircularWait ==
    \A t, u \in Threads :
        ~ /\ conn = t /\ At(t, "stamp")
          /\ mu = u /\ \/ th[u].pc \in {"unlockQuery", "changeQuery"}
                       \/ th[u].pc \in {"statusQuery", "verifyQuery"} /\ HasKeys

\* Every accepted request is answered, unless that circular wait arises: no other
\* order of locks, transactions and refusals leaves a goroutine waiting.
RequestsAnswered ==
    \A t \in Threads : th[t].pc # "idle" ~> th[t].pc = "idle" \/ ~NoCircularWait

\* Once every request is answered the index shows the records of an unlocked vault
\* and nothing of a locked one, whatever was refused, failed or rolled back.  The
\* exception is overlap: a write commits and calls index.Put in two steps, and
\* LoadIndex lists and publishes in two, with no lock held in between, so that a
\* second write or an unlock between them is undone by the late publication; and a
\* write that was handed its keys before a lock publishes to the locked vault's index.
\* What such a publication leaves lasts until the next lock that nobody with keys
\* overlaps, and no longer.
IndexSettles ==
    (\A t \in Threads : At(t, "idle")) /\ ~overlap
        => index = IF HasKeys THEN [id \in DOMAIN db.records |-> Entry(db.records[id])]
                   ELSE EmptyTable
===============================================================================
