------------------------------ MODULE VaultProofs ------------------------------
(***************************************************************************)
(* Proofs about module Vault, for every set of passwords, records and      *)
(* clients and every value of the bounds: its safety properties, and that  *)
(* it implements module RecordStore; and, with earlier copies of the file  *)
(* put in place (module Rollback), that an older file is noticed.          *)
(***************************************************************************)
EXTENDS VaultRefinement, Rollback, TLAPS

-------------------------------------------------------------------------------
(* The inductive invariant.                                                *)

DBFields == {"vault", "active", "envelopes", "records", "clients", "state"}
SvcFields == {"id", "state", "epoch", "env", "keyring", "failed", "wait", "highWater"}

\* A row holds a payload sealed for its own identity and revision, under an
\* envelope version between the one in its column and the active one.
RowOK(d, id) ==
    LET row == d.records[id] IN
    \E v \in Nat :
        /\ row.keyVersion \in Nat /\ row.revision \in Nat \ {0}
        /\ row.keyVersion <= v /\ v <= d.active
        /\ row.revision = 1 => v = row.keyVersion
        /\ row.sealed.key = d.vault
        /\ row.sealed.aad = RecordAAD(d.vault, id, row.revision, v)

\* What the tables of a committed database satisfy.
TablesOK(d) ==
    /\ DOMAIN d = DBFields
    /\ d.vault \in Nat /\ d.active \in Nat /\ Counter(d) \in Nat
    /\ DOMAIN d.records \subseteq RecordIDs /\ DOMAIN d.clients \subseteq ClientIDs
    /\ d.vault # NoVault =>
        /\ DOMAIN d.envelopes = {d.active}
        /\ d.envelopes[d.active].rootKey = d.vault
    /\ \A id \in DOMAIN d.records : RowOK(d, id)

\* What every committed database, and every snapshot of one, satisfies.
DBOK(d) ==
    /\ TablesOK(d)
    /\ d.vault = NoVault => d = EmptyDB
    /\ d.state # NoState => Verify(d, d.vault, d.vault, d.active)

SvcTypeOK ==
    /\ DOMAIN svc = SvcFields
    /\ svc.state \in {"locked", "unlocked"}
    /\ svc.id \in Nat /\ svc.epoch \in 0..MaxEpoch /\ svc.env \in Nat
    /\ svc.keyring \in Nat /\ svc.failed \in 0..MaxFailed /\ svc.wait \in 0..60
    /\ svc.highWater \in Nat

\* What the service has cached agrees with the file.
SvcAgrees ==
    /\ Cached(svc) => svc.id = db.vault /\ svc.env = db.active
    /\ svc.state = "locked" => svc.keyring = NoKey
    /\ svc.state = "unlocked" =>
        /\ Cached(svc) /\ svc.keyring = db.vault
        /\ svc.epoch < MaxEpoch
        /\ db.state # NoState
    /\ svc.highWater <= Counter(db)

ContainerOK ==
    container # NoContainer =>
        /\ DBOK(container.snapshot)
        /\ container.snapshot.vault # NoVault /\ container.snapshot.vault <= born
        /\ container.snapshot.state # NoState
        /\ container.vault = container.snapshot.vault
        /\ container.mac = container.snapshot.vault

IInv ==
    /\ SvcTypeOK
    /\ DBOK(db) /\ db.vault <= born /\ born \in Nat
    /\ SvcAgrees
    /\ ContainerOK
    /\ IndexMirrorsRecords
    /\ outcome \in Outcomes

-------------------------------------------------------------------------------
(* Facts about the statements and the anchor.                              *)

\* Stamping sound tables yields a sound database with the next counter.
LEMMA StampSound ==
    ASSUME NEW d, TablesOK(d), d.vault # NoVault
    PROVE  LET e == Stamp(d, d.vault, d.vault, d.active) IN
           /\ DBOK(e) /\ e.state # NoState
           /\ Counter(e) = Counter(d) + 1
           /\ e.vault = d.vault /\ e.active = d.active
           /\ e.records = d.records
<1> DEFINE e == Stamp(d, d.vault, d.vault, d.active)
<1>1. /\ DOMAIN e = DBFields
      /\ e.vault = d.vault /\ e.active = d.active /\ e.envelopes = d.envelopes
      /\ e.records = d.records /\ e.clients = d.clients
      /\ e.state = [counter |-> Counter(d) + 1,
                    root |-> Root(d, d.vault, d.vault, d.active, Counter(d) + 1)]
  BY DEF TablesOK, DBFields, Stamp
<1> HIDE DEF e
<1>2. Counter(e) = Counter(d) + 1 /\ Counter(e) \in Nat
  BY <1>1 DEF Counter, TablesOK
<1>3. e.state # NoState
  BY <1>1, <1>2 DEF Counter, NoState, TablesOK
<1>4. TablesOK(e)
  BY <1>1, <1>2 DEF TablesOK, RowOK
<1>5. Verify(e, e.vault, e.vault, e.active)
  BY <1>1, <1>2 DEF Verify, HasEnvelope, Root, Counter, TablesOK
<1>6. DBOK(e)
  BY <1>1, <1>4, <1>5 DEF DBOK
<1> QED
  BY <1>1, <1>2, <1>3, <1>6 DEF e

\* LoadIndex depends on the record table only.
LEMMA LoadIndexSame ==
    ASSUME NEW d, NEW e, e.records = d.records
    PROVE  LoadIndex(e) = LoadIndex(d)
BY DEF LoadIndex

\* Writing one row changes one entry of the index that LoadIndex builds.
LEMMA LoadIndexPut ==
    ASSUME NEW d, NEW e, NEW id, NEW row, e.records = Put(d.records, id, row)
    PROVE  LoadIndex(e) = Put(LoadIndex(d), id,
               [revision |-> row.revision, payload |-> row.sealed.payload])
BY DEF LoadIndex, Put

\* Deleting one row removes one entry of that index.
LEMMA LoadIndexRemove ==
    ASSUME NEW d, NEW e, NEW id, e.records = Remove(d.records, id)
    PROVE  LoadIndex(e) = Remove(LoadIndex(d), id)
BY DEF LoadIndex, Remove

-------------------------------------------------------------------------------
(* Facts about the service.                                                *)

\* The service once the vault row is cached agrees with the file.
LEMMA Loaded ==
    ASSUME IInv, VaultFound
    PROVE  LET s == loadVault(svc) IN
           /\ DOMAIN s = SvcFields
           /\ s.state \in {"locked", "unlocked"}
           /\ s.epoch \in 0..MaxEpoch /\ s.id \in Nat /\ s.env \in Nat
           /\ s.keyring = svc.keyring /\ s.failed = svc.failed
           /\ s.wait = svc.wait /\ s.highWater = svc.highWater
           /\ s.id = db.vault /\ s.env = db.active /\ db.vault # NoVault
           /\ s.state = "locked" => s.keyring = NoKey
           /\ s.state = "unlocked" => s = svc
<1>1. CASE Cached(svc)
  BY <1>1 DEF Cached, IInv, SvcTypeOK, SvcAgrees, loadVault
<1>2. CASE ~Cached(svc)
  <2>1. svc.state = "locked" /\ svc.keyring = NoKey
    BY <1>2 DEF IInv, SvcTypeOK, SvcAgrees, Cached
  <2>2. db.vault # NoVault /\ db.vault \in Nat /\ db.active \in Nat
    BY <1>2 DEF Cached, VaultFound, IInv, DBOK, TablesOK
  <2> QED
    BY <1>2, <2>1, <2>2, BoundsAssumption DEF IInv, SvcTypeOK, SvcFields, loadVault, Cached
<1> QED
  BY <1>1, <1>2

\* lockLocked wipes the keyring, locks, and keeps the rest.
LEMMA Locked ==
    ASSUME NEW s, DOMAIN s = SvcFields, s.state \in {"locked", "unlocked"},
           s.epoch \in 0..MaxEpoch, s.state = "unlocked" => s.epoch < MaxEpoch
    PROVE  LET t == lockLocked(s) IN
           /\ DOMAIN t = SvcFields
           /\ t.state = "locked" /\ t.keyring = NoKey /\ t.epoch \in 0..MaxEpoch
           /\ t.id = s.id /\ t.env = s.env
           /\ t.failed = s.failed /\ t.wait = s.wait /\ t.highWater = s.highWater
BY BoundsAssumption DEF lockLocked, SvcFields

\* The waiting times of unlockFailed.
LEMMA DelayRange == \A n \in Nat : Delay(n) \in 0..60
<1> SUFFICES ASSUME NEW n \in Nat PROVE Delay(n) \in 0..60
  OBVIOUS
<1>1. CASE n \in 0..3
  BY <1>1 DEF Delay
<1>2. CASE n \in 4..5
  BY <1>2 DEF Delay
<1>3. CASE n \in 6..10
  BY <1>3 DEF Delay
<1>4. CASE n > 10
  BY <1>4 DEF Delay
<1> QED
  BY <1>1, <1>2, <1>3, <1>4

\* A transaction that changes the tables to d and stamps them.
LEMMA Commit ==
    ASSUME IInv, NEW d, TablesOK(d), StampAndNote(d),
           d.vault = db.vault, d.active = db.active, Counter(d) = Counter(db)
    PROVE  /\ SvcTypeOK' /\ DBOK(db)' /\ (db.vault <= born)' /\ (born \in Nat)'
           /\ SvcAgrees' /\ ContainerOK' /\ outcome' \in Outcomes
           /\ HasKeys(svc) /\ HasKeys(svc') /\ db'.records = d.records
<1>1. HasKeys(svc)
  BY DEF StampAndNote
<1>2. /\ Cached(svc) /\ svc.state = "unlocked" /\ svc.id = d.vault /\ svc.env = d.active
      /\ svc.keyring = d.vault /\ svc.keyring # NoKey /\ d.vault # NoVault
  BY <1>1 DEF HasKeys, IInv, SvcAgrees, Cached
<1>3. /\ DBOK(db') /\ db'.state # NoState /\ Counter(db') = Counter(d) + 1
      /\ db'.vault = d.vault /\ db'.active = d.active /\ db'.records = d.records
  BY <1>2, StampSound DEF StampAndNote
<1>4. Counter(db') \in Nat /\ Counter(db) \in Nat
  BY <1>3 DEF DBOK, TablesOK, IInv
<1>5. /\ DOMAIN svc' = SvcFields
      /\ svc'.id = svc.id /\ svc'.state = svc.state
      /\ svc'.epoch = svc.epoch /\ svc'.env = svc.env /\ svc'.keyring = svc.keyring
      /\ svc'.failed = svc.failed /\ svc'.wait = svc.wait
      /\ svc'.highWater \in Nat /\ svc'.highWater <= Counter(db')
  BY <1>3, <1>4 DEF StampAndNote, noteCounterLocked, IInv, SvcTypeOK, SvcAgrees, Cached, SvcFields
<1>6. SvcTypeOK'
  BY <1>5 DEF SvcTypeOK, IInv
<1>7. SvcAgrees'
  BY <1>2, <1>3, <1>5 DEF SvcAgrees, Cached, IInv
<1>8. HasKeys(svc')
  BY <1>2, <1>5 DEF HasKeys
<1>9. ContainerOK' /\ outcome' \in Outcomes /\ (db.vault <= born)' /\ (born \in Nat)'
  BY <1>3 DEF StampAndNote, ContainerOK, IInv
<1> QED
  BY <1>1, <1>3, <1>6, <1>7, <1>8, <1>9

-------------------------------------------------------------------------------
(* The invariant is inductive: one lemma per group of actions.             *)

\* Nothing of the file, the container or the vaults born has changed.
StorageSame == UNCHANGED <<db, container, born>>

\* A step that leaves the file alone and the service locked or reset.
LEMMA LockedStep ==
    ASSUME IInv, StorageSame, SvcTypeOK', SvcAgrees', svc'.state = "locked",
           index' = EmptyTable, outcome' \in Outcomes
    PROVE  IInv'
BY DEF IInv, StorageSame, ContainerOK, IndexMirrorsRecords, HasKeys

\* A step that leaves the file and the index alone and keeps keyring and state.
LEMMA QuietStep ==
    ASSUME IInv, StorageSame, SvcTypeOK', SvcAgrees', index' = index,
           svc'.state = svc.state, svc'.keyring = svc.keyring, outcome' \in Outcomes
    PROVE  IInv'
BY DEF IInv, StorageSame, ContainerOK, IndexMirrorsRecords, HasKeys

\* What a process starts with agrees with any sound file.
LEMMA NewServiceOK ==
    ASSUME DBOK(db)', svc' = NewService
    PROVE  SvcTypeOK' /\ SvcAgrees' /\ svc'.state = "locked"
BY BoundsAssumption
   DEF NewService, SvcTypeOK, SvcFields, SvcAgrees, Cached, DBOK, TablesOK, NoKey, NoVault

\* The empty database is sound.
LEMMA EmptyDBOK == DBOK(EmptyDB)
BY DEF EmptyDB, EmptyTable, DBOK, TablesOK, DBFields, NoVault, NoState, Counter

\* The database of a vault made before table vault_state existed is sound.
LEMMA LegacyDBOK == DBOK(LegacyDB) /\ LegacyDB.vault = 1
<1> DEFINE d == LegacyDB
<1>1. /\ DOMAIN d = DBFields
      /\ d.vault = 1 /\ d.active = 1 /\ d.records = EmptyTable /\ d.clients = EmptyTable
      /\ d.state = NoState /\ d.envelopes = Put(EmptyTable, 1, buildEnvelope(1, 1, 1, LegacyPassword))
  BY DEF LegacyDB, InsertKeyEnvelope, InsertVault, EmptyDB, DBFields
<1>2. DOMAIN d.envelopes = {1} /\ d.envelopes[1].rootKey = 1
  BY <1>1 DEF Put, EmptyTable, buildEnvelope
<1> HIDE DEF d
<1>3. TablesOK(d)
  BY <1>1, <1>2 DEF TablesOK, EmptyTable, NoState, Counter
<1> QED
  BY <1>1, <1>3 DEF DBOK, NoVault, d

\* A new file and a legacy file are sound.
LEMMA InitIInv == Init => IInv
<1> SUFFICES ASSUME Init PROVE IInv
  OBVIOUS
<1>1. DBOK(db) /\ born \in Nat /\ db.vault <= born
  <2>1. CASE db = EmptyDB /\ born = 0
    BY <2>1, EmptyDBOK DEF EmptyDB, NoVault
  <2>2. CASE db = LegacyDB /\ born = 1
    BY <2>2, LegacyDBOK
  <2> QED
    BY <2>1, <2>2 DEF Init
<1>2. SvcTypeOK /\ SvcAgrees /\ svc.state = "locked"
  BY <1>1, BoundsAssumption
     DEF Init, NewService, SvcTypeOK, SvcFields, SvcAgrees, Cached, DBOK, TablesOK, NoKey, NoVault
<1>3. ContainerOK
  BY DEF Init, ContainerOK
<1>4. IndexMirrorsRecords
  BY <1>2 DEF Init, IndexMirrorsRecords, HasKeys
<1> QED
  BY <1>1, <1>2, <1>3, <1>4 DEF IInv, Init, Outcomes

\* vault.status only caches the vault row.
LEMMA StatusStep == IInv /\ Status => IInv'
<1> SUFFICES ASSUME IInv, Status PROVE IInv'
  OBVIOUS
<1> DEFINE s == loadVault(svc)
<1>1. VaultFound /\ svc' = s /\ UNCHANGED <<db, index, container, born, outcome>>
  BY DEF Status, VaultFound
<1>2. svc.state = "locked"
  BY DEF Status, IInv, SvcTypeOK, SvcAgrees, Cached
<1>3. s.state = "locked"
  BY DEF Status, loadVault, IInv, SvcTypeOK, SvcFields
<1> HIDE DEF s
<1>4. SvcTypeOK'
  BY <1>1, Loaded DEF s, SvcTypeOK, IInv
<1>5. SvcAgrees'
  BY <1>1, <1>3, Loaded DEF s, SvcAgrees, Cached, IInv
<1> QED
  BY <1>1, <1>2, <1>3, <1>4, <1>5, Loaded, QuietStep DEF s, StorageSame, IInv

\* A new vault is anchored in the transaction that creates it.
LEMMA InitStep == ASSUME NEW p \in Passwords, IInv, opInit(p) PROVE IInv'
<1> DEFINE vault == born + 1
           d0 == InsertKeyEnvelope(InsertVault(db, vault, 1), 1,
                                   buildEnvelope(vault, 1, vault, p))
           d == Stamp(d0, vault, vault, 1)
<1>1. db = EmptyDB /\ ~Cached(svc) /\ svc.highWater = 0
  BY DEF opInit, VaultFound, IInv, DBOK, SvcAgrees, Cached, SvcTypeOK, EmptyDB, Counter, NoState
<1>2. vault \in Nat \ {0} /\ born \in Nat
  BY DEF IInv
<1>3. /\ DOMAIN d0 = DBFields
      /\ d0.vault = vault /\ d0.active = 1 /\ d0.records = EmptyTable /\ d0.clients = EmptyTable
      /\ d0.state = NoState
      /\ d0.envelopes = Put(EmptyTable, 1, buildEnvelope(vault, 1, vault, p))
  BY <1>1 DEF InsertKeyEnvelope, InsertVault, EmptyDB, DBFields
<1>4. DOMAIN d0.envelopes = {1} /\ d0.envelopes[1].rootKey = vault
  BY <1>3 DEF Put, EmptyTable, buildEnvelope
<1>5. /\ db' = d /\ born' = vault /\ UNCHANGED <<index, container, outcome>>
      /\ svc' = [noteCounterLocked(svc, Counter(d)) EXCEPT
                    !.id = vault, !.state = "locked", !.epoch = 0, !.env = 1]
  BY DEF opInit
<1> HIDE DEF vault, d0
<1>6. TablesOK(d0) /\ d0.vault # NoVault /\ Counter(d0) = 0
  BY <1>2, <1>3, <1>4 DEF TablesOK, EmptyTable, NoState, Counter, NoVault
<1>7. /\ DBOK(d) /\ d.state # NoState /\ Counter(d) = 1 /\ d.vault = vault /\ d.active = 1
  BY <1>3, <1>6, StampSound
<1> HIDE DEF d
<1>8. svc.state = "locked" /\ svc.keyring = NoKey
  BY <1>1 DEF IInv, SvcTypeOK, SvcAgrees, Cached
<1>9. /\ DOMAIN svc' = SvcFields
      /\ svc'.id = vault /\ svc'.state = "locked"
      /\ svc'.epoch = 0 /\ svc'.env = 1 /\ svc'.keyring = NoKey
      /\ svc'.failed = svc.failed /\ svc'.wait = svc.wait /\ svc'.highWater = 1
  BY <1>1, <1>5, <1>7, <1>8 DEF noteCounterLocked, IInv, SvcTypeOK, SvcFields
<1>10. SvcTypeOK'
  BY <1>2, <1>9, BoundsAssumption DEF SvcTypeOK, IInv, NoKey
<1>11. SvcAgrees'
  BY <1>2, <1>5, <1>7, <1>9 DEF SvcAgrees, Cached, NoVault
<1>12. ContainerOK'
  BY <1>2, <1>5 DEF ContainerOK, IInv, DBOK, TablesOK, vault
<1>13. IndexMirrorsRecords'
  BY <1>5, <1>8, <1>9 DEF IndexMirrorsRecords, IInv, HasKeys
<1> QED
  BY <1>2, <1>5, <1>7, <1>10, <1>11, <1>12, <1>13 DEF IInv

\* A failed unlock counts, and changes nothing else.
LEMMA UnlockRefusedStep == ASSUME NEW p \in Passwords, IInv, UnlockRefused(p) PROVE IInv'
<1> DEFINE s == loadVault(svc)
<1>1. /\ VaultFound /\ s.failed < MaxFailed
      /\ svc' = unlockFailed(s) /\ outcome' = "auth_failed"
      /\ UNCHANGED <<db, index, container, born>>
  BY DEF UnlockRefused, UnlockAdmitted
<1>2. /\ DOMAIN s = SvcFields
      /\ s.state \in {"locked", "unlocked"}
      /\ s.epoch \in 0..MaxEpoch /\ s.id \in Nat /\ s.env \in Nat
      /\ s.keyring = svc.keyring /\ s.failed = svc.failed /\ s.highWater = svc.highWater
      /\ s.id = db.vault /\ s.env = db.active /\ db.vault # NoVault
      /\ s.state = "locked" => s.keyring = NoKey
      /\ s.state = "unlocked" => s = svc
  BY <1>1, Loaded
<1> HIDE DEF s
<1>3. s.state = svc.state
  <2>1. CASE s.state = "unlocked"
    BY <1>2, <2>1
  <2>2. CASE s.state = "locked"
    <3>1. svc.keyring = NoKey
      BY <1>2, <2>2
    <3>2. svc.state # "unlocked"
      BY <3>1 DEF IInv, SvcAgrees, Cached, NoKey, NoVault
    <3> QED
      BY <2>2, <3>2 DEF IInv, SvcTypeOK
  <2> QED
    BY <1>2, <2>1, <2>2
<1>4. /\ DOMAIN svc' = SvcFields
      /\ svc'.id = s.id /\ svc'.state = s.state
      /\ svc'.epoch = s.epoch /\ svc'.env = s.env /\ svc'.keyring = s.keyring
      /\ svc'.failed \in 0..MaxFailed /\ svc'.wait \in 0..60 /\ svc'.highWater = s.highWater
  <2>1. s.failed + 1 \in 0..MaxFailed /\ s.failed + 1 \in Nat
    BY <1>1, <1>2, BoundsAssumption DEF IInv, SvcTypeOK
  <2>2. Delay(s.failed + 1) \in 0..60
    BY <2>1, DelayRange
  <2> QED
    BY <1>1, <1>2, <2>1, <2>2 DEF unlockFailed, SvcFields
<1>5. SvcTypeOK'
  BY <1>2, <1>4 DEF SvcTypeOK, IInv
<1>6. SvcAgrees'
  BY <1>1, <1>2, <1>4 DEF SvcAgrees, Cached, IInv
<1> QED
  BY <1>1, <1>2, <1>3, <1>4, <1>5, <1>6, QuietStep DEF StorageSame, Outcomes

\* An unlock builds the index from a file whose anchor it then checks or writes.
LEMMA UnlockStep == ASSUME NEW p \in Passwords, IInv, opUnlock(p) PROVE IInv'
<1> DEFINE loaded == loadVault(svc)
           key == db.envelopes[loaded.env].rootKey
           s == UnlockWith(loaded, key)
           stamped == Stamp(db, s.keyring, s.id, s.env)
<1>1. /\ VaultFound /\ HasEnvelope(db, loaded.env) /\ loaded.epoch + 2 <= MaxEpoch
      /\ UNCHANGED <<container, born>>
  BY DEF opUnlock, UnlockAdmitted
<1>2. /\ DOMAIN loaded = SvcFields
      /\ loaded.epoch \in 0..MaxEpoch
      /\ loaded.highWater = svc.highWater
      /\ loaded.id = db.vault /\ loaded.env = db.active /\ db.vault # NoVault
  BY <1>1, Loaded
<1>3. key = db.vault
  BY <1>2 DEF IInv, DBOK, TablesOK
<1>4. \/ svc' = lockLocked(s) /\ index' = EmptyTable /\ outcome' = "integrity_failure" /\ db' = db
      \/ /\ CatalogVerdict(db, s) = "ok" /\ db' = db /\ outcome' = "ok"
         /\ svc' = [s EXCEPT !.highWater = Counter(db)] /\ index' = LoadIndex(db)
      \/ /\ db' = stamped /\ outcome' = "ok"
         /\ svc' = noteCounterLocked(s, Counter(stamped)) /\ index' = LoadIndex(stamped)
  BY DEF opUnlock
<1> HIDE DEF loaded, key
<1>5. /\ DOMAIN s = SvcFields
      /\ s.state = "unlocked" /\ s.epoch \in 0..MaxEpoch /\ s.epoch < MaxEpoch
      /\ s.id = db.vault /\ s.env = db.active /\ s.keyring = db.vault
      /\ s.failed = 0 /\ s.wait = 0 /\ s.highWater = svc.highWater
  BY <1>1, <1>2, <1>3, BoundsAssumption DEF UnlockWith, SvcFields
<1> HIDE DEF s
<1>6. /\ db.vault \in Nat /\ db.active \in Nat /\ Counter(db) \in Nat /\ svc.highWater \in Nat
      /\ svc.highWater <= Counter(db)
  BY DEF IInv, DBOK, TablesOK, SvcTypeOK, SvcAgrees, Cached
<1>7. CASE svc' = lockLocked(s) /\ index' = EmptyTable /\ outcome' = "integrity_failure" /\ db' = db
  <2>1. /\ DOMAIN svc' = SvcFields
        /\ svc'.state = "locked" /\ svc'.keyring = NoKey /\ svc'.epoch \in 0..MaxEpoch
        /\ svc'.id = s.id /\ svc'.env = s.env
        /\ svc'.failed = s.failed /\ svc'.wait = s.wait /\ svc'.highWater = s.highWater
    BY <1>5, <1>7, Locked
  <2>2. SvcTypeOK'
    BY <1>5, <1>6, <2>1, BoundsAssumption DEF SvcTypeOK, NoKey
  <2>3. SvcAgrees'
    BY <1>2, <1>5, <1>6, <1>7, <2>1 DEF SvcAgrees, Cached
  <2> QED
    BY <1>1, <1>7, <2>1, <2>2, <2>3, LockedStep DEF StorageSame, Outcomes
<1>8. ASSUME DBOK(db'), db'.state # NoState, db'.vault = db.vault, db'.active = db.active,
             Counter(db') \in Nat, index' = LoadIndex(db'), outcome' = "ok",
             DOMAIN svc' = SvcFields, svc'.id = s.id,
             svc'.state = s.state, svc'.epoch = s.epoch, svc'.env = s.env,
             svc'.keyring = s.keyring, svc'.failed = s.failed, svc'.wait = s.wait,
             svc'.highWater \in Nat, svc'.highWater <= Counter(db')
      PROVE  IInv'
  <2>1. SvcTypeOK'
    BY <1>5, <1>6, <1>8, BoundsAssumption DEF SvcTypeOK
  <2>2. SvcAgrees'
    BY <1>2, <1>5, <1>8 DEF SvcAgrees, Cached
  <2>3. IndexMirrorsRecords'
    BY <1>2, <1>5, <1>8 DEF IndexMirrorsRecords, HasKeys, NoKey, NoVault
  <2>4. ContainerOK' /\ (db.vault <= born)' /\ (born \in Nat)'
    BY <1>1, <1>8 DEF ContainerOK, IInv
  <2> QED
    BY <1>8, <2>1, <2>2, <2>3, <2>4 DEF IInv, Outcomes
<1>9. CASE /\ CatalogVerdict(db, s) = "ok" /\ db' = db /\ outcome' = "ok"
           /\ svc' = [s EXCEPT !.highWater = Counter(db)] /\ index' = LoadIndex(db)
  <2>1. db.state # NoState
    BY <1>9 DEF CatalogVerdict
  <2>2. DBOK(db')
    BY <1>9 DEF IInv
  <2> QED
    BY <1>5, <1>6, <1>8, <1>9, <2>1, <2>2 DEF SvcFields
<1>10. CASE /\ db' = stamped /\ outcome' = "ok"
            /\ svc' = noteCounterLocked(s, Counter(stamped)) /\ index' = LoadIndex(stamped)
  <2>1. /\ DBOK(stamped) /\ stamped.state # NoState /\ Counter(stamped) = Counter(db) + 1
        /\ stamped.vault = db.vault /\ stamped.active = db.active
    BY <1>2, <1>5, StampSound DEF IInv, DBOK
  <2> HIDE DEF stamped
  <2>2. /\ DOMAIN svc' = SvcFields /\ svc'.id = s.id
        /\ svc'.state = s.state /\ svc'.epoch = s.epoch /\ svc'.env = s.env
        /\ svc'.keyring = s.keyring /\ svc'.failed = s.failed /\ svc'.wait = s.wait
        /\ svc'.highWater \in Nat /\ svc'.highWater <= Counter(db')
    BY <1>5, <1>6, <1>10, <2>1 DEF noteCounterLocked, SvcFields
  <2> QED
    BY <1>6, <1>8, <1>10, <2>1, <2>2
<1> QED
  BY <1>4, <1>7, <1>9, <1>10

\* A lock wipes the keyring and empties the index.
LEMMA LockStep == IInv /\ Lock => IInv'
<1> SUFFICES ASSUME IInv, Lock PROVE IInv'
  OBVIOUS
<1>1. svc' = lockLocked(svc) /\ index' = EmptyTable /\ UNCHANGED <<db, container, born, outcome>>
  BY DEF Lock
<1>2. /\ DOMAIN svc' = SvcFields
      /\ svc'.state = "locked" /\ svc'.keyring = NoKey /\ svc'.epoch \in 0..MaxEpoch
      /\ svc'.id = svc.id /\ svc'.env = svc.env
      /\ svc'.failed = svc.failed /\ svc'.wait = svc.wait /\ svc'.highWater = svc.highWater
  BY <1>1, Locked DEF IInv, SvcTypeOK, SvcAgrees, Cached
<1>3. SvcTypeOK'
  BY <1>2 DEF SvcTypeOK, IInv, NoKey
<1>4. SvcAgrees'
  BY <1>1, <1>2 DEF SvcAgrees, Cached, IInv
<1> QED
  BY <1>1, <1>2, <1>3, <1>4, LockedStep DEF StorageSame, IInv

\* A password change moves file and cached row to the next envelope together.
LEMMA ChangeStep ==
    ASSUME NEW p \in Passwords, NEW q \in Passwords, IInv, ChangeMasterPassword(p, q)
    PROVE  IInv'
<1> DEFINE s == loadVault(svc)
           old == s.env
           new == old + 1
           rootKey == db.envelopes[old].rootKey
           env == buildEnvelope(s.id, new, rootKey, q)
           d0 == DeleteKeyEnvelope(SetActiveEnvelope(InsertKeyEnvelope(db, new, env), new), old)
           d == Stamp(d0, rootKey, s.id, new)
           t == [noteCounterLocked(s, Counter(d)) EXCEPT !.env = new]
<1>1. /\ VaultFound /\ HasEnvelope(db, old)
      /\ db' = d /\ svc' = lockLocked(t) /\ index' = EmptyTable
      /\ UNCHANGED <<container, born, outcome>>
  BY DEF ChangeMasterPassword
<1>2. /\ DOMAIN s = SvcFields /\ s.state \in {"locked", "unlocked"}
      /\ s.epoch \in 0..MaxEpoch
      /\ s.failed = svc.failed /\ s.wait = svc.wait /\ s.highWater = svc.highWater
      /\ s.id = db.vault /\ s.env = db.active /\ db.vault # NoVault
      /\ s.state = "unlocked" => s = svc
  BY <1>1, Loaded
<1>3. /\ TablesOK(db) /\ db.vault \in Nat /\ db.active \in Nat /\ Counter(db) \in Nat
      /\ DOMAIN db = DBFields /\ DOMAIN db.envelopes = {db.active}
      /\ db.vault <= born /\ born \in Nat
  BY <1>2 DEF IInv, DBOK, TablesOK
<1>4. rootKey = db.vault /\ old = db.active /\ new = db.active + 1 /\ new \in Nat
  BY <1>2, <1>3 DEF TablesOK
<1>5. env.rootKey = db.vault
  BY <1>4 DEF buildEnvelope
<1> HIDE DEF s, old, new, rootKey, env
<1>6. /\ DOMAIN d0 = DBFields
      /\ d0.vault = db.vault /\ d0.active = new /\ d0.records = db.records
      /\ d0.clients = db.clients /\ d0.state = db.state
      /\ d0.envelopes = Remove(Put(db.envelopes, new, env), old)
  BY <1>3 DEF DeleteKeyEnvelope, SetActiveEnvelope, InsertKeyEnvelope, DBFields
<1>7. DOMAIN d0.envelopes = {new} /\ d0.envelopes[new] = env
  <2> DEFINE both == Put(db.envelopes, new, env)
  <2>1. DOMAIN both = {old, new} /\ both[new] = env
    BY <1>3, <1>4 DEF Put
  <2> HIDE DEF both
  <2>2. old # new
    BY <1>3, <1>4
  <2>3. DOMAIN Remove(both, old) = {new} /\ Remove(both, old)[new] = both[new]
    BY <2>1, <2>2 DEF Remove
  <2> QED
    BY <1>6, <2>1, <2>3 DEF both
<1> HIDE DEF d0
<1>8. \A id \in DOMAIN d0.records : RowOK(d0, id)
  <2> SUFFICES ASSUME NEW id \in DOMAIN db.records PROVE RowOK(d0, id)
    BY <1>6
  <2>1. RowOK(db, id)
    BY <1>3 DEF TablesOK
  <2> QED
    BY <1>3, <1>4, <1>6, <2>1 DEF RowOK
<1>9. TablesOK(d0) /\ d0.vault # NoVault /\ Counter(d0) = Counter(db)
  BY <1>2, <1>3, <1>4, <1>5, <1>6, <1>7, <1>8 DEF TablesOK, Counter
<1>10. /\ DBOK(d) /\ d.state # NoState /\ Counter(d) = Counter(db) + 1
       /\ d.vault = db.vault /\ d.active = new
  BY <1>2, <1>4, <1>6, <1>9, StampSound DEF s
<1> HIDE DEF d
<1>11. /\ DOMAIN t = SvcFields
       /\ t.id = s.id /\ t.state = s.state /\ t.epoch = s.epoch /\ t.env = new
       /\ t.failed = s.failed /\ t.wait = s.wait
       /\ t.highWater \in Nat /\ t.highWater <= Counter(d)
  BY <1>2, <1>3, <1>10 DEF noteCounterLocked, SvcFields, IInv, SvcTypeOK, SvcAgrees
<1>12. t.state = "unlocked" => t.epoch < MaxEpoch
  BY <1>2, <1>11 DEF IInv, SvcAgrees
<1> HIDE DEF t
<1>13. /\ DOMAIN svc' = SvcFields
       /\ svc'.state = "locked" /\ svc'.keyring = NoKey /\ svc'.epoch \in 0..MaxEpoch
       /\ svc'.id = t.id /\ svc'.env = t.env
       /\ svc'.failed = t.failed /\ svc'.wait = t.wait /\ svc'.highWater = t.highWater
  BY <1>1, <1>2, <1>11, <1>12, Locked
<1>14. SvcTypeOK'
  BY <1>2, <1>3, <1>4, <1>11, <1>13 DEF SvcTypeOK, IInv, NoKey
<1>15. SvcAgrees'
  BY <1>1, <1>2, <1>10, <1>11, <1>13 DEF SvcAgrees
<1>16. IndexMirrorsRecords'
  BY <1>1, <1>13 DEF IndexMirrorsRecords, HasKeys
<1>17. ContainerOK' /\ outcome' \in Outcomes
  BY <1>1 DEF ContainerOK, IInv
<1> QED
  BY <1>1, <1>3, <1>10, <1>14, <1>15, <1>16, <1>17 DEF IInv

\* A new row is sealed at revision 1 under the version in its column.
LEMMA CreateStep ==
    ASSUME NEW id \in RecordIDs, NEW x \in Payloads, IInv, Create(id, x)
    PROVE  IInv'
<1> DEFINE sealed == encryptRecord(svc, id, 1, x)
           row == [keyVersion |-> svc.env, revision |-> 1, sealed |-> sealed]
           d == InsertRecord(db, id, svc.env, 1, sealed)
<1>1. StampAndNote(d) /\ index' = Put(index, id, [revision |-> 1, payload |-> x])
  BY DEF Create
<1>2. /\ HasKeys(svc) /\ svc.id = db.vault /\ svc.env = db.active /\ svc.keyring = db.vault
      /\ db.vault # NoVault
  BY <1>1 DEF StampAndNote, HasKeys, IInv, SvcAgrees, NoKey, NoVault
<1>3. TablesOK(db) /\ DOMAIN db = DBFields /\ db.active \in Nat
  BY DEF IInv, DBOK, TablesOK
<1>4. /\ row.keyVersion = db.active /\ row.revision = 1
      /\ row.sealed.key = db.vault /\ row.sealed.payload = x
      /\ row.sealed.aad = RecordAAD(db.vault, id, 1, db.active)
  BY <1>2 DEF encryptRecord, Seal
<1>5. /\ DOMAIN d = DBFields
      /\ d.vault = db.vault /\ d.active = db.active /\ d.envelopes = db.envelopes
      /\ d.records = Put(db.records, id, row)
      /\ d.clients = db.clients /\ d.state = db.state
  BY <1>3 DEF InsertRecord, DBFields
<1> HIDE DEF sealed, row, d
<1>6. /\ DOMAIN d.records = DOMAIN db.records \cup {id} /\ d.records[id] = row
      /\ \A i \in DOMAIN db.records \ {id} : d.records[i] = db.records[i]
  BY <1>5 DEF Put
<1>7. \A i \in DOMAIN d.records : RowOK(d, i)
  <2>1. RowOK(d, id)
    BY <1>3, <1>4, <1>5, <1>6 DEF RowOK
  <2>2. ASSUME NEW i \in DOMAIN db.records \ {id} PROVE RowOK(d, i)
    BY <1>3, <1>5, <1>6 DEF RowOK, TablesOK
  <2> QED
    BY <1>6, <2>1, <2>2
<1>8. TablesOK(d) /\ Counter(d) = Counter(db)
  BY <1>3, <1>5, <1>6, <1>7 DEF TablesOK, Counter
<1>9. LoadIndex(d) = Put(LoadIndex(db), id, [revision |-> 1, payload |-> x])
  BY <1>4, <1>5, LoadIndexPut
<1>10. /\ SvcTypeOK' /\ DBOK(db)' /\ (db.vault <= born)' /\ (born \in Nat)'
       /\ SvcAgrees' /\ ContainerOK' /\ outcome' \in Outcomes
       /\ HasKeys(svc') /\ db'.records = d.records
  BY <1>1, <1>5, <1>8, Commit
<1>11. LoadIndex(db') = LoadIndex(d)
  BY <1>10, LoadIndexSame
<1>12. IndexMirrorsRecords'
  BY <1>1, <1>2, <1>9, <1>10, <1>11 DEF IndexMirrorsRecords, IInv
<1> QED
  BY <1>10, <1>12 DEF IInv

\* An updated row is sealed under the active version, which is not below its column's.
LEMMA UpdateStep ==
    ASSUME NEW id \in RecordIDs, NEW n \in 1..MaxRevision, NEW x \in Payloads,
           IInv, Update(id, n, x)
    PROVE  IInv'
<1> DEFINE revision == n + 1
           sealed == encryptRecord(svc, id, revision, x)
           row == [keyVersion |-> db.records[id].keyVersion, revision |-> revision,
                   sealed |-> sealed]
           d == UpdateRecord(db, id, revision, sealed)
<1>1. /\ id \in DOMAIN db.records /\ StampAndNote(d)
      /\ index' = Put(index, id, [revision |-> revision, payload |-> x])
  BY DEF Update, MatchesRevision
<1>2. /\ HasKeys(svc) /\ svc.id = db.vault /\ svc.env = db.active /\ svc.keyring = db.vault
      /\ db.vault # NoVault
  BY <1>1 DEF StampAndNote, HasKeys, IInv, SvcAgrees, NoKey, NoVault
<1>3. TablesOK(db) /\ DOMAIN db = DBFields /\ db.active \in Nat
  BY DEF IInv, DBOK, TablesOK
<1>4. /\ row.keyVersion = db.records[id].keyVersion /\ row.revision = revision
      /\ row.sealed.key = db.vault /\ row.sealed.payload = x
      /\ row.sealed.aad = RecordAAD(db.vault, id, revision, db.active)
  BY <1>2 DEF encryptRecord, Seal
<1>5. /\ DOMAIN d = DBFields
      /\ d.vault = db.vault /\ d.active = db.active /\ d.envelopes = db.envelopes
      /\ d.records = Put(db.records, id, row)
      /\ d.clients = db.clients /\ d.state = db.state
  BY <1>3 DEF UpdateRecord, DBFields
<1>6. revision \in Nat \ {0} /\ revision # 1
  BY BoundsAssumption
<1> HIDE DEF revision, sealed, row, d
<1>7. /\ DOMAIN d.records = DOMAIN db.records /\ d.records[id] = row
      /\ \A i \in DOMAIN db.records \ {id} : d.records[i] = db.records[i]
  BY <1>1, <1>5 DEF Put
<1>8. \A i \in DOMAIN d.records : RowOK(d, i)
  <2>1. row.keyVersion \in Nat /\ row.keyVersion <= db.active
    BY <1>1, <1>3, <1>4 DEF TablesOK, RowOK
  <2>2. RowOK(d, id)
    BY <1>3, <1>4, <1>5, <1>6, <1>7, <2>1 DEF RowOK
  <2>3. ASSUME NEW i \in DOMAIN db.records \ {id} PROVE RowOK(d, i)
    BY <1>3, <1>5, <1>7 DEF RowOK, TablesOK
  <2> QED
    BY <1>7, <2>2, <2>3
<1>9. TablesOK(d) /\ Counter(d) = Counter(db)
  BY <1>3, <1>5, <1>7, <1>8 DEF TablesOK, Counter
<1>10. LoadIndex(d) = Put(LoadIndex(db), id, [revision |-> revision, payload |-> x])
  BY <1>4, <1>5, LoadIndexPut
<1>11. /\ SvcTypeOK' /\ DBOK(db)' /\ (db.vault <= born)' /\ (born \in Nat)'
       /\ SvcAgrees' /\ ContainerOK' /\ outcome' \in Outcomes
       /\ HasKeys(svc') /\ db'.records = d.records
  BY <1>1, <1>5, <1>9, Commit
<1>12. LoadIndex(db') = LoadIndex(d)
  BY <1>11, LoadIndexSame
<1>13. IndexMirrorsRecords'
  BY <1>1, <1>2, <1>10, <1>11, <1>12 DEF IndexMirrorsRecords, IInv
<1> QED
  BY <1>11, <1>13 DEF IInv

\* Row and index entry go together.
LEMMA DeleteStep == ASSUME NEW id \in RecordIDs, IInv, Delete(id) PROVE IInv'
<1> DEFINE d == DeleteRecord(db, id)
<1>1. StampAndNote(d) /\ index' = Remove(index, id)
  BY DEF Delete
<1>2. TablesOK(db) /\ DOMAIN db = DBFields
  BY DEF IInv, DBOK, TablesOK
<1>3. /\ DOMAIN d = DBFields
      /\ d.vault = db.vault /\ d.active = db.active /\ d.envelopes = db.envelopes
      /\ d.records = Remove(db.records, id)
      /\ d.clients = db.clients /\ d.state = db.state
  BY <1>2 DEF DeleteRecord, DBFields
<1> HIDE DEF d
<1>4. /\ DOMAIN d.records = DOMAIN db.records \ {id}
      /\ \A i \in DOMAIN d.records : d.records[i] = db.records[i]
  BY <1>3 DEF Remove
<1>5. TablesOK(d) /\ Counter(d) = Counter(db)
  BY <1>2, <1>3, <1>4 DEF TablesOK, RowOK, Counter
<1>6. LoadIndex(d) = Remove(LoadIndex(db), id)
  BY <1>3, LoadIndexRemove
<1>7. /\ SvcTypeOK' /\ DBOK(db)' /\ (db.vault <= born)' /\ (born \in Nat)'
      /\ SvcAgrees' /\ ContainerOK' /\ outcome' \in Outcomes
      /\ HasKeys(svc) /\ HasKeys(svc') /\ db'.records = d.records
  BY <1>1, <1>3, <1>5, Commit
<1>8. LoadIndex(db') = LoadIndex(d)
  BY <1>7, LoadIndexSame
<1>9. IndexMirrorsRecords'
  BY <1>1, <1>6, <1>7, <1>8 DEF IndexMirrorsRecords, IInv
<1> QED
  BY <1>7, <1>9 DEF IInv

\* Approve and Revoke write one row of table clients.
LEMMA ClientStep ==
    ASSUME NEW c \in ClientIDs, IInv, Approve(c) \/ Revoke(c)
    PROVE  IInv'
<1>1. PICK status : /\ StampAndNote([db EXCEPT !.clients = Put(@, c, status)])
                    /\ index' = index
  <2>1. CASE Approve(c)
    BY <2>1 DEF Approve, InsertClient
  <2>2. CASE Revoke(c)
    BY <2>2 DEF Revoke, UpdateClientStatus
  <2> QED
    BY <2>1, <2>2
<1> DEFINE d == [db EXCEPT !.clients = Put(@, c, status)]
<1>2. TablesOK(db) /\ DOMAIN db = DBFields
  BY DEF IInv, DBOK, TablesOK
<1>3. /\ DOMAIN d = DBFields
      /\ d.vault = db.vault /\ d.active = db.active /\ d.envelopes = db.envelopes
      /\ d.records = db.records /\ d.clients = Put(db.clients, c, status)
      /\ d.state = db.state
  BY <1>2 DEF DBFields
<1>4. StampAndNote(d)
  BY <1>1
<1> HIDE DEF d
<1>5. DOMAIN d.clients \subseteq ClientIDs
  BY <1>2, <1>3 DEF Put, TablesOK
<1>6. TablesOK(d) /\ Counter(d) = Counter(db)
  BY <1>2, <1>3, <1>5 DEF TablesOK, RowOK, Counter
<1>7. /\ SvcTypeOK' /\ DBOK(db)' /\ (db.vault <= born)' /\ (born \in Nat)'
      /\ SvcAgrees' /\ ContainerOK' /\ outcome' \in Outcomes
      /\ HasKeys(svc) /\ HasKeys(svc') /\ db'.records = d.records
  BY <1>3, <1>4, <1>6, Commit
<1>8. LoadIndex(db') = LoadIndex(db)
  BY <1>3, <1>7, LoadIndexSame
<1>9. IndexMirrorsRecords'
  BY <1>1, <1>7, <1>8 DEF IndexMirrorsRecords, IInv
<1> QED
  BY <1>7, <1>9 DEF IInv

\* A container holds a committed, anchored database.
LEMMA BackupCreateStep == IInv /\ BackupCreate => IInv'
<1> SUFFICES ASSUME IInv, BackupCreate PROVE IInv'
  OBVIOUS
<1>1. /\ svc.state = "unlocked" /\ UNCHANGED <<db, svc, index, born, outcome>>
      /\ container' = [mac |-> svc.keyring, vault |-> svc.id, snapshot |-> db]
  BY DEF BackupCreate, HasKeys
<1>2. /\ svc.keyring = db.vault /\ svc.id = db.vault /\ db.vault # NoVault
      /\ db.state # NoState /\ DBOK(db) /\ db.vault <= born
  BY <1>1 DEF IInv, SvcAgrees, Cached
<1>3. ContainerOK'
  BY <1>1, <1>2 DEF ContainerOK
<1>4. SvcTypeOK' /\ SvcAgrees' /\ IndexMirrorsRecords'
  BY <1>1 DEF IInv, SvcTypeOK, SvcAgrees, IndexMirrorsRecords
<1> QED
  BY <1>1, <1>3, <1>4 DEF IInv

\* Reset forgets the cached vault and the high-water mark, so it agrees with
\* whatever sound file is put in place.
LEMMA ResetStep ==
    ASSUME IInv, DBOK(db)', (db.vault <= born)', svc' = Reset(svc),
           index' = EmptyTable, UNCHANGED <<container, born, outcome>>
    PROVE  IInv'
<1> DEFINE t == lockLocked(svc)
<1>1. /\ DOMAIN t = SvcFields /\ t.keyring = NoKey
      /\ t.failed = svc.failed /\ t.wait = svc.wait
  BY Locked DEF IInv, SvcTypeOK, SvcAgrees
<1> HIDE DEF t
<1>2. /\ DOMAIN svc' = SvcFields
      /\ svc'.id = NoVault /\ svc'.state = "locked" /\ svc'.epoch = 0 /\ svc'.env = 0
      /\ svc'.keyring = NoKey /\ svc'.failed = svc.failed /\ svc'.wait = svc.wait
      /\ svc'.highWater = 0
  BY <1>1 DEF Reset, t, SvcFields
<1>3. SvcTypeOK'
  BY <1>2, BoundsAssumption DEF SvcTypeOK, IInv, NoKey, NoVault
<1>4. SvcAgrees'
  BY <1>2 DEF SvcAgrees, Cached, DBOK, TablesOK
<1>5. IndexMirrorsRecords'
  BY <1>2 DEF IndexMirrorsRecords, HasKeys
<1> QED
  BY <1>3, <1>4, <1>5 DEF IInv, ContainerOK

\* A restore installs a sound snapshot, or leaves the file as it was.
LEMMA RestoreStep == IInv /\ BackupRestore => IInv'
<1> SUFFICES ASSUME IInv, BackupRestore PROVE IInv'
  OBVIOUS
<1>1. CASE db' = container.snapshot /\ svc' = Reset(svc)
  <2>1. DBOK(container.snapshot) /\ container.snapshot.vault <= born
    BY DEF BackupRestore, ContainerVerifies, IInv, ContainerOK
  <2> QED
    BY <1>1, <2>1, ResetStep DEF BackupRestore
<1>2. CASE db' = db /\ svc' = lockLocked(svc)
  BY <1>2, LockStep DEF BackupRestore, Lock
<1> QED
  BY <1>1, <1>2 DEF BackupRestore

\* Destruction leaves an empty database and a service that has forgotten it.
LEMMA DestroyStep == ASSUME NEW p \in Passwords, IInv, Destroy(p) PROVE IInv'
<1>1. /\ db' = EmptyDB /\ svc' = Reset(svc) /\ index' = EmptyTable
      /\ UNCHANGED <<container, born, outcome>>
  BY DEF Destroy
<1>2. EmptyDB.vault <= born
  BY DEF EmptyDB, NoVault, IInv
<1> QED
  BY <1>1, <1>2, EmptyDBOK, ResetStep

\* A new process has cached nothing.
LEMMA RestartStep == IInv /\ Restart => IInv'
<1> SUFFICES ASSUME IInv, Restart PROVE IInv'
  OBVIOUS
<1>1. DBOK(db)' /\ svc' = NewService /\ StorageSame /\ index' = EmptyTable /\ outcome' = "none"
  BY DEF Restart, StorageSame, IInv
<1> QED
  BY <1>1, NewServiceOK, LockedStep DEF Outcomes

\* Time only shortens the backoff.
LEMMA TickStep == IInv /\ Tick => IInv'
<1> SUFFICES ASSUME IInv, Tick PROVE IInv'
  OBVIOUS
<1>1. /\ svc.wait > 0 /\ svc' = [svc EXCEPT !.wait = @ - 1]
      /\ UNCHANGED <<db, index, container, born, outcome>>
  BY DEF Tick
<1>2. /\ DOMAIN svc' = SvcFields
      /\ svc'.id = svc.id /\ svc'.state = svc.state /\ svc'.epoch = svc.epoch
      /\ svc'.env = svc.env /\ svc'.keyring = svc.keyring /\ svc'.failed = svc.failed
      /\ svc'.wait \in 0..60 /\ svc'.highWater = svc.highWater
  BY <1>1 DEF IInv, SvcTypeOK, SvcFields
<1>3. SvcTypeOK'
  BY <1>2 DEF SvcTypeOK, IInv
<1>4. SvcAgrees'
  BY <1>1, <1>2 DEF SvcAgrees, Cached, IInv
<1> QED
  BY <1>1, <1>2, <1>3, <1>4, QuietStep DEF StorageSame, IInv

\* The invariant is about the variables below and the outcome's type.
LEMMA StutterStep == IInv /\ UNCHANGED <<db, svc, index, container, born>>
                          /\ outcome' \in Outcomes => IInv'
BY DEF IInv, SvcTypeOK, SvcAgrees, Cached, ContainerOK, IndexMirrorsRecords

\* Every step of the daemon preserves the invariant.
LEMMA NextIInv == IInv /\ [Next]_vars => IInv'
<1> SUFFICES ASSUME IInv, [Next]_vars PROVE IInv'
  OBVIOUS
<1>1. CASE Status
  BY <1>1, StatusStep
<1>2. CASE UnlockRateLimited
  BY <1>2, StutterStep DEF UnlockRateLimited, Outcomes
<1>3. ASSUME NEW p \in Passwords, opInit(p) \/ UnlockRefused(p) \/ opUnlock(p) \/ Destroy(p)
      PROVE  IInv'
  BY <1>3, InitStep, UnlockRefusedStep, UnlockStep, DestroyStep
<1>4. ASSUME NEW p \in Passwords, NEW q \in Passwords, ChangeMasterPassword(p, q)
      PROVE  IInv'
  BY <1>4, ChangeStep
<1>5. CASE Lock
  BY <1>5, LockStep
<1>6. ASSUME NEW id \in RecordIDs, Delete(id) \/ \E x \in Payloads : Create(id, x)
      PROVE  IInv'
  BY <1>6, DeleteStep, CreateStep
<1>7. ASSUME NEW id \in RecordIDs, NEW n \in 1..MaxRevision, NEW x \in Payloads,
             Update(id, n, x)
      PROVE  IInv'
  BY <1>7, UpdateStep
<1>8. ASSUME NEW c \in ClientIDs, Approve(c) \/ Revoke(c) PROVE IInv'
  BY <1>8, ClientStep
<1>9. CASE BackupCreate \/ BackupRestore
  BY <1>9, BackupCreateStep, RestoreStep
<1>10. CASE Restart \/ Tick
  BY <1>10, RestartStep, TickStep
<1>11. CASE UNCHANGED vars
  BY <1>11, StutterStep DEF vars, IInv
<1> QED
  BY <1>1, <1>2, <1>3, <1>4, <1>5, <1>6, <1>7, <1>8, <1>9, <1>10, <1>11 DEF Next

\* IInv holds in every reachable state.
LEMMA Invariance == Spec => []IInv
BY InitIInv, NextIInv, PTL DEF Spec

-------------------------------------------------------------------------------
(* Theorems.                                                               *)

\* The service, the tables and the index keep their types.
THEOREM TypeCorrect == Spec => []TypeOK
<1>1. IInv => TypeOK
  <2> SUFFICES ASSUME IInv PROVE TypeOK
    OBVIOUS
  <2>1. DOMAIN svc = DOMAIN NewService
    BY DEF IInv, SvcTypeOK, SvcFields, NewService
  <2>2. DOMAIN index \subseteq RecordIDs
    BY DEF IInv, IndexMirrorsRecords, LoadIndex, EmptyTable, DBOK, TablesOK
  <2> QED
    BY <2>1, <2>2 DEF IInv, SvcTypeOK, DBOK, TablesOK, TypeOK
<1> QED
  BY <1>1, Invariance, PTL

\* No sequence of requests, restores, destructions and restarts leaves a file
\* whose anchor does not verify (catalog.Stamp, catalog.Verify).
THEOREM AnchorAlwaysCurrent == Spec => []AnchorCurrent
<1>1. IInv => AnchorCurrent
  BY DEF IInv, DBOK, AnchorCurrent
<1> QED
  BY <1>1, Invariance, PTL

\* The high-water mark never passes the counter in the file (Reset,
\* NoteCatalogCounter): an authorized restore is never taken for a rollback.
THEOREM HighWaterSafe == Spec => []HighWaterNotAhead
<1>1. IInv => HighWaterNotAhead
  BY DEF IInv, SvcAgrees, HighWaterNotAhead
<1> QED
  BY <1>1, Invariance, PTL

\* The index is the table while the vault is unlocked and empty while it is
\* locked (LoadIndex, Put, Remove, ClearIndex).
THEOREM IndexCorrect == Spec => []IndexMirrorsRecords
<1>1. IInv => IndexMirrorsRecords
  BY DEF IInv
<1> QED
  BY <1>1, Invariance, PTL

\* After any number of password changes one envelope is left, around the root
\* key the vault was created with (ChangeMasterPassword).
THEOREM OldPasswordRetired == Spec => []OnlyActiveEnvelope
<1>1. IInv => OnlyActiveEnvelope
  BY DEF IInv, DBOK, TablesOK, OnlyActiveEnvelope
<1> QED
  BY <1>1, Invariance, PTL

\* The only rows that can fail to open are those an update resealed after a
\* password change (Update, UpdateRecord).
THEOREM OnlyResealedRowsFail == Spec => []RowsOpenUnlessResealed
<1>1. IInv => RowsOpenUnlessResealed
  <2> SUFFICES ASSUME IInv, NEW id \in DOMAIN db.records,
                      db.records[id].revision = 1 \/ db.records[id].keyVersion = db.active
               PROVE  RowOpens(db, db.vault, db.vault, id)
    BY DEF RowsOpenUnlessResealed
  <2>1. RowOK(db, id) /\ db.active \in Nat
    BY DEF IInv, DBOK, TablesOK
  <2> QED
    BY <2>1 DEF RowOK, RowOpens, Opens
<1> QED
  BY <1>1, Invariance, PTL

\* The check an unlock makes accepts every state the daemon itself can reach,
\* whatever the service has cached (VerifyCatalog): a catalog alarm is never false.
THEOREM NoCatalogFalseAlarm == Spec => []CatalogAccepted
<1>1. IInv => CatalogAccepted
  <2> SUFFICES ASSUME IInv, VaultFound
               PROVE  LET s == loadVault(svc) IN
                      /\ HasEnvelope(db, s.env)
                      /\ CatalogVerdict(db, UnlockWith(s, db.envelopes[s.env].rootKey))
                            # "integrity_failure"
    BY DEF CatalogAccepted
  <2> DEFINE s == loadVault(svc)
             u == UnlockWith(s, db.envelopes[s.env].rootKey)
  <2>1. /\ DOMAIN s = SvcFields /\ s.highWater = svc.highWater
        /\ s.id = db.vault /\ s.env = db.active /\ db.vault # NoVault
    BY Loaded
  <2> HIDE DEF s
  <2>2. DOMAIN db.envelopes = {db.active} /\ db.envelopes[db.active].rootKey = db.vault
    BY <2>1 DEF IInv, DBOK, TablesOK
  <2>3. /\ u.keyring = db.vault /\ u.id = db.vault /\ u.env = db.active
        /\ u.highWater = svc.highWater
    BY <2>1, <2>2 DEF UnlockWith, SvcFields
  <2>4. db.state # NoState => Verify(db, db.vault, db.vault, db.active)
    BY DEF IInv, DBOK
  <2>5. ~(Counter(db) < svc.highWater)
    BY DEF IInv, SvcAgrees, SvcTypeOK, DBOK, TablesOK
  <2> HIDE DEF u
  <2>6. CatalogVerdict(db, u) # "integrity_failure"
    BY <2>3, <2>4, <2>5 DEF CatalogVerdict
  <2> QED
    BY <2>1, <2>2, <2>6 DEF HasEnvelope, s, u
<1> QED
  BY <1>1, Invariance, PTL

\* A container is accepted by the vault that wrote it and installs a database
\* that verifies, whatever happened since (BackupCreate, Verify, Restore).
THEOREM BackupsSound == Spec => []BackupSound
<1>1. IInv => BackupSound
  <2> SUFFICES ASSUME IInv, container # NoContainer PROVE
               /\ HasKeys(svc) /\ container.vault = svc.id => ContainerVerifies
               /\ container.snapshot.vault = container.vault
               /\ container.snapshot.state # NoState
               /\ Verify(container.snapshot, container.mac, container.snapshot.vault,
                         container.snapshot.active)
    BY DEF BackupSound
  <2>1. HasKeys(svc) => svc.keyring = svc.id
    BY DEF IInv, SvcAgrees, HasKeys, Cached
  <2> QED
    BY <2>1 DEF IInv, ContainerOK, DBOK, ContainerVerifies
<1> QED
  BY <1>1, Invariance, PTL

\* Only the right password or the end of the process forgets failed attempts
\* (unlockFailed, lockLocked, Reset, ChangeMasterPassword).
THEOREM FailuresKept == Spec => FailuresRemembered
<1> DEFINE Kept == svc'.failed < svc.failed => Restart \/ \E p \in Passwords : opUnlock(p)
<1>1. IInv /\ [Next]_vars => [Kept]_vars
  <2> SUFFICES ASSUME IInv, Next, ~Restart, ~\E p \in Passwords : opUnlock(p)
               PROVE  ~(svc'.failed < svc.failed)
    BY DEF Kept
  <2>1. svc.failed \in Nat /\ DOMAIN svc = SvcFields
    BY BoundsAssumption DEF IInv, SvcTypeOK
  <2>2. VaultFound => loadVault(svc).failed = svc.failed /\ DOMAIN loadVault(svc) = SvcFields
    BY Loaded
  <2>3. \A s : DOMAIN s = SvcFields => lockLocked(s).failed = s.failed /\ DOMAIN lockLocked(s) = SvcFields
    BY DEF lockLocked, SvcFields
  <2>4. \A s, n : DOMAIN s = SvcFields =>
            noteCounterLocked(s, n).failed = s.failed /\ DOMAIN noteCounterLocked(s, n) = SvcFields
    BY DEF noteCounterLocked, SvcFields
  <2>5. Reset(svc).failed = svc.failed
    BY <2>1, <2>3 DEF Reset, SvcFields
  <2> SUFFICES svc'.failed = svc.failed \/ svc'.failed = svc.failed + 1
    BY <2>1
  <2>6. CASE Status
    BY <2>2, <2>6 DEF Status, VaultFound
  <2>7. CASE UnlockRateLimited \/ BackupCreate
    BY <2>7 DEF UnlockRateLimited, BackupCreate
  <2>8. ASSUME NEW p \in Passwords, opInit(p) PROVE svc'.failed = svc.failed
    <3>1. PICK n : svc' = [noteCounterLocked(svc, n) EXCEPT
                             !.id = born + 1, !.state = "locked", !.epoch = 0, !.env = 1]
      BY <2>8 DEF opInit
    <3> QED
      BY <2>1, <2>4, <3>1 DEF SvcFields
  <2>9. ASSUME NEW p \in Passwords, UnlockRefused(p) PROVE svc'.failed = svc.failed + 1
    BY <2>2, <2>9 DEF UnlockRefused, UnlockAdmitted, unlockFailed, SvcFields
  <2>10. ASSUME NEW p \in Passwords, Destroy(p) PROVE svc'.failed = svc.failed
    BY <2>5, <2>10 DEF Destroy
  <2>11. ASSUME NEW p \in Passwords, NEW q \in Passwords, ChangeMasterPassword(p, q)
         PROVE  svc'.failed = svc.failed
    <3> DEFINE s == loadVault(svc)
    <3>1. PICK n : VaultFound /\ svc' = lockLocked([noteCounterLocked(s, n) EXCEPT !.env = s.env + 1])
      BY <2>11 DEF ChangeMasterPassword
    <3>2. DOMAIN s = SvcFields /\ s.failed = svc.failed
      BY <2>2, <3>1
    <3> HIDE DEF s
    <3> DEFINE t == [noteCounterLocked(s, n) EXCEPT !.env = s.env + 1]
    <3>3. DOMAIN t = SvcFields /\ t.failed = s.failed
      BY <2>4, <3>2 DEF SvcFields
    <3> QED
      BY <2>3, <3>1, <3>2, <3>3
  <2>12. CASE Lock
    BY <2>1, <2>3, <2>12 DEF Lock
  <2>13. ASSUME NEW d, StampAndNote(d) PROVE svc'.failed = svc.failed
    BY <2>1, <2>4, <2>13 DEF StampAndNote
  <2>14. ASSUME NEW id \in RecordIDs, Delete(id) \/ \E x \in Payloads : Create(id, x)
         PROVE  svc'.failed = svc.failed
    BY <2>13, <2>14 DEF Delete, Create
  <2>15. ASSUME NEW id \in RecordIDs, NEW n \in 1..MaxRevision, NEW x \in Payloads, Update(id, n, x)
         PROVE  svc'.failed = svc.failed
    BY <2>13, <2>15 DEF Update
  <2>16. ASSUME NEW c \in ClientIDs, Approve(c) \/ Revoke(c) PROVE svc'.failed = svc.failed
    BY <2>13, <2>16 DEF Approve, Revoke
  <2>17. CASE BackupRestore
    BY <2>1, <2>3, <2>5, <2>17 DEF BackupRestore
  <2>18. CASE Tick
    BY <2>1, <2>18 DEF Tick, SvcFields
  <2> QED
    BY <2>6, <2>7, <2>8, <2>9, <2>10, <2>11, <2>12, <2>14, <2>15, <2>16, <2>17, <2>18 DEF Next
<1> QED
  BY <1>1, Invariance, PTL DEF Spec, FailuresRemembered

-------------------------------------------------------------------------------
(* The refinement of RecordStore: one lemma per action, from IInv.         *)

\* PasswordOf reads the vault row and its active envelope only.
LEMMA PasswordSame ==
    ASSUME NEW d, NEW e, e.vault = d.vault, e.active = d.active, e.envelopes = d.envelopes
    PROVE  PasswordOf(e) = PasswordOf(d)
BY DEF PasswordOf

\* The index of a table with no rows is the empty table.
LEMMA LoadIndexEmpty ==
    ASSUME NEW d, d.records = EmptyTable
    PROVE  LoadIndex(d) = EmptyTable
BY DEF LoadIndex, EmptyTable

\* A step that leaves the file, the index and the keyring alone is invisible.
LEMMA StoreStutter ==
    ASSUME UNCHANGED <<db, index, container>>,
           svc'.keyring = svc.keyring, svc'.state = svc.state
    PROVE  UNCHANGED Store!vars
BY DEF Store!vars, HasKeys

\* A step that leaves the file alone and ends locked closes the store.
LEMMA StoreClose ==
    ASSUME UNCHANGED <<db, container>>, index' = EmptyTable, svc'.state = "locked"
    PROVE  Store!Next
<1>1. Store!Close
  BY DEF Store!Close, Store!Shut, HasKeys, Store!Nothing, EmptyTable
<1> QED
  BY <1>1 DEF Store!Next

\* A new file is no store, a legacy file an empty one.
LEMMA StoreInit == Init => Store!Init
<1> SUFFICES ASSUME Init PROVE Store!Init
  OBVIOUS
<1>1. LoadIndex(db) = EmptyTable /\ db.clients = EmptyTable
  <2>1. CASE db = EmptyDB
    BY <2>1, LoadIndexEmpty DEF EmptyDB
  <2>2. CASE db = LegacyDB
    <3>1. db.records = EmptyTable /\ db.clients = EmptyTable
      BY <2>2 DEF LegacyDB, InsertKeyEnvelope, InsertVault, EmptyDB
    <3> QED
      BY <3>1, LoadIndexEmpty
  <2> QED
    BY <2>1, <2>2 DEF Init
<1>2. \/ db.vault = NoVault /\ PasswordOf(db) = NoPassword
      \/ db.vault # NoVault /\ PasswordOf(db) \in Passwords
  <2>1. CASE db = EmptyDB
    BY <2>1 DEF EmptyDB, PasswordOf
  <2>2. CASE db = LegacyDB
    <3>1. /\ db.vault = 1 /\ db.active = 1
          /\ db.envelopes = Put(EmptyTable, 1, buildEnvelope(1, 1, 1, LegacyPassword))
      BY <2>2 DEF LegacyDB, InsertKeyEnvelope, InsertVault, EmptyDB
    <3>2. db.envelopes[1].password = LegacyPassword
      BY <3>1 DEF Put, buildEnvelope
    <3> QED
      BY <3>1, <3>2, BoundsAssumption DEF PasswordOf, NoVault
  <2> QED
    BY <2>1, <2>2 DEF Init
<1>3. ~HasKeys(svc) /\ index = EmptyTable
  BY DEF Init, NewService, HasKeys
<1>4. SavedBy(container) = Store!NoBackup
  <2>1. LoadIndex(EmptyDB) = EmptyTable
    BY LoadIndexEmpty DEF EmptyDB
  <2>2. PasswordOf(EmptyDB) = NoPassword /\ EmptyDB.clients = EmptyTable
    BY DEF EmptyDB, PasswordOf
  <2>3. container.vault = NoVault /\ container.snapshot = EmptyDB
    BY DEF Init, NoContainer
  <2> QED
    BY <2>1, <2>2, <2>3 DEF SavedBy, Store!NoBackup, Store!Nothing, EmptyTable
<1>5. HasKeys(svc) = FALSE
  BY <1>3 DEF HasKeys
<1> QED
  BY <1>1, <1>2, <1>3, <1>4, <1>5 DEF Store!Init, Store!Nothing, EmptyTable

\* Creating a vault founds a store that is neither there nor in the backup.
LEMMA InitFounds ==
    ASSUME NEW p \in Passwords, IInv, opInit(p)
    PROVE  Store!Next
<1> DEFINE vault == born + 1
           env == buildEnvelope(vault, 1, vault, p)
           d0 == InsertKeyEnvelope(InsertVault(db, vault, 1), 1, env)
<1>1. /\ db = EmptyDB /\ db' = Stamp(d0, vault, vault, 1)
      /\ UNCHANGED <<index, container>>
  BY DEF opInit, VaultFound, IInv, DBOK, Cached
<1>2. /\ DOMAIN d0 = DBFields
      /\ d0.vault = vault /\ d0.active = 1 /\ d0.records = EmptyTable /\ d0.clients = EmptyTable
      /\ d0.envelopes = Put(EmptyTable, 1, env)
  BY <1>1 DEF InsertKeyEnvelope, InsertVault, EmptyDB, DBFields
<1>3. d0.envelopes[1].password = p
  BY <1>2 DEF Put, EmptyTable, buildEnvelope
<1> HIDE DEF d0, env
<1>4. /\ db'.vault = vault /\ db'.active = 1 /\ db'.envelopes = d0.envelopes
      /\ db'.records = EmptyTable /\ db'.clients = EmptyTable
  BY <1>1, <1>2 DEF Stamp, DBFields
<1>5. vault # NoVault /\ vault # container.vault
  BY DEF IInv, ContainerOK, NoContainer, NoVault, DBOK, TablesOK
<1> HIDE DEF vault
<1>6. PasswordOf(db') = p
  BY <1>3, <1>4, <1>5 DEF PasswordOf
<1>7. db.vault = NoVault /\ db.clients = EmptyTable /\ db.records = EmptyTable
  BY <1>1 DEF EmptyDB
<1>8. LoadIndex(db) = EmptyTable /\ LoadIndex(db') = EmptyTable
  BY <1>4, <1>7, LoadIndexEmpty
<1>9. svc'.keyring = svc.keyring /\ svc'.state = "locked" /\ svc.state = "locked"
  <2>1. svc.state = "locked" /\ DOMAIN svc = SvcFields
    BY DEF opInit, VaultFound, IInv, SvcTypeOK, SvcAgrees
  <2>2. PICK n : svc' = [noteCounterLocked(svc, n) EXCEPT
                           !.id = born + 1, !.state = "locked", !.epoch = 0, !.env = 1]
    BY DEF opInit
  <2> QED
    BY <2>1, <2>2 DEF noteCounterLocked, SvcFields
<1>10. HasKeys(svc') = HasKeys(svc)
  BY <1>9 DEF HasKeys
<1>11. SavedBy(container).store = container.vault
  BY DEF SavedBy
<1>12. Store!Found
  BY <1>1, <1>4, <1>5, <1>6, <1>7, <1>8, <1>10, <1>11 DEF Store!Found
<1> QED
  BY <1>12 DEF Store!Next

\* A failed attempt is not visible in the store.
LEMMA RefusedStutters ==
    ASSUME NEW p \in Passwords, IInv, UnlockRefused(p)
    PROVE  UNCHANGED Store!vars
<1> DEFINE s == loadVault(svc)
<1>1. /\ VaultFound /\ svc' = unlockFailed(s) /\ UNCHANGED <<db, index, container>>
  BY DEF UnlockRefused, UnlockAdmitted
<1>2. DOMAIN s = SvcFields /\ s.keyring = svc.keyring /\ (s.state = "unlocked" => s = svc)
      /\ s.state \in {"locked", "unlocked"}
  BY <1>1, Loaded
<1> HIDE DEF s
<1>3. svc'.keyring = svc.keyring /\ svc'.state = s.state
  BY <1>1, <1>2 DEF unlockFailed, SvcFields
<1>4. s.state = svc.state
  <2>1. CASE s.state = "unlocked"
    BY <1>2, <2>1
  <2>2. CASE s.state = "locked"
    BY <1>1, <1>2, <2>2, Loaded DEF s, IInv, SvcTypeOK, SvcAgrees, Cached, NoKey, NoVault
  <2> QED
    BY <1>2, <2>1, <2>2
<1> QED
  BY <1>1, <1>3, <1>4, StoreStutter

\* The abstract state of a file that was stamped is that of the file before.
LEMMA StampedSame ==
    ASSUME NEW d, DOMAIN d = DBFields, NEW key, NEW vault, NEW version
    PROVE  LET e == Stamp(d, key, vault, version) IN
           /\ e.vault = d.vault /\ e.active = d.active /\ e.envelopes = d.envelopes
           /\ e.clients = d.clients /\ e.records = d.records
BY DEF Stamp, DBFields

\* An unlock opens the store, or closes it when the index or the anchor fails.
LEMMA UnlockOpens ==
    ASSUME NEW p \in Passwords, IInv, IInv', opUnlock(p)
    PROVE  Store!Next
<1> DEFINE loaded == loadVault(svc)
           s == UnlockWith(loaded, db.envelopes[loaded.env].rootKey)
           stamped == Stamp(db, s.keyring, s.id, s.env)
<1>1. /\ VaultFound /\ UNCHANGED container
  BY DEF opUnlock, UnlockAdmitted
<1>2. DOMAIN loaded = SvcFields /\ db.vault # NoVault
  BY <1>1, Loaded
<1>3. DOMAIN db = DBFields
  BY DEF IInv, DBOK, TablesOK
<1>4. \/ svc' = lockLocked(s) /\ index' = EmptyTable /\ db' = db
      \/ /\ db' = db \/ db' = stamped
         /\ \/ svc' = [s EXCEPT !.highWater = Counter(db)]
            \/ svc' = noteCounterLocked(s, Counter(stamped))
  BY DEF opUnlock
<1> HIDE DEF loaded
<1>5. DOMAIN s = SvcFields /\ s.state = "unlocked"
  BY <1>2 DEF UnlockWith, SvcFields
<1> HIDE DEF s
<1>6. CASE svc' = lockLocked(s) /\ index' = EmptyTable /\ db' = db
  <2>1. svc'.state = "locked"
    BY <1>5, <1>6 DEF lockLocked, SvcFields
  <2> QED
    BY <1>1, <1>6, <2>1, StoreClose
<1>7. CASE /\ db' = db \/ db' = stamped
           /\ \/ svc' = [s EXCEPT !.highWater = Counter(db)]
              \/ svc' = noteCounterLocked(s, Counter(stamped))
  <2>1. /\ db'.vault = db.vault /\ db'.active = db.active /\ db'.envelopes = db.envelopes
        /\ db'.clients = db.clients /\ db'.records = db.records
    BY <1>3, <1>7, StampedSame
  <2>2. PasswordOf(db') = PasswordOf(db) /\ LoadIndex(db') = LoadIndex(db)
    BY <2>1, PasswordSame, LoadIndexSame
  <2> HIDE DEF stamped
  <2>3. svc'.state = "unlocked"
    BY <1>5, <1>7 DEF noteCounterLocked, SvcFields
  <2>4. HasKeys(svc') = TRUE
    BY <1>2, <2>1, <2>3 DEF HasKeys, IInv, SvcAgrees, NoKey, NoVault
  <2>5. index' = LoadIndex(db')
    BY <2>4 DEF IInv, IndexMirrorsRecords
  <2>6. Store!Open
    BY <1>1, <1>2, <2>1, <2>2, <2>4, <2>5 DEF Store!Open
  <2> QED
    BY <2>6 DEF Store!Next
<1> QED
  BY <1>4, <1>6, <1>7

\* Any lock closes the store.
LEMMA LockCloses ==
    ASSUME IInv, svc' = lockLocked(svc), index' = EmptyTable, UNCHANGED <<db, container>>
    PROVE  Store!Next
<1>1. svc'.state = "locked"
  BY DEF lockLocked, IInv, SvcTypeOK, SvcFields
<1> QED
  BY <1>1, StoreClose

\* A password change replaces the password, closes the store and keeps the rest.
LEMMA ChangeRekeys ==
    ASSUME NEW p \in Passwords, NEW q \in Passwords, IInv, IInv', ChangeMasterPassword(p, q)
    PROVE  Store!Next
<1> DEFINE s == loadVault(svc)
           new == s.env + 1
           rootKey == db.envelopes[s.env].rootKey
           env == buildEnvelope(s.id, new, rootKey, q)
           d0 == DeleteKeyEnvelope(SetActiveEnvelope(InsertKeyEnvelope(db, new, env), new), s.env)
<1>1. /\ VaultFound
      /\ db' = Stamp(d0, rootKey, s.id, new) /\ index' = EmptyTable
      /\ UNCHANGED container
  BY DEF ChangeMasterPassword
<1>2. PICK t : DOMAIN t = SvcFields /\ svc' = lockLocked(t)
  <2>1. PICK n : svc' = lockLocked([noteCounterLocked(s, n) EXCEPT !.env = new])
    BY DEF ChangeMasterPassword
  <2>2. DOMAIN s = SvcFields
    BY <1>1, Loaded
  <2> DEFINE t == [noteCounterLocked(s, n) EXCEPT !.env = new]
  <2> HIDE DEF s, new
  <2>3. DOMAIN t = SvcFields
    BY <2>2 DEF noteCounterLocked, SvcFields
  <2> QED
    BY <2>1, <2>3
<1>3. s.env = db.active /\ db.vault # NoVault
  BY <1>1, Loaded
<1>4. DOMAIN db = DBFields /\ db.active \in Nat
  BY DEF IInv, DBOK, TablesOK
<1>5. env.password = q
  BY DEF buildEnvelope
<1> HIDE DEF s, new, rootKey, env
<1>6. /\ DOMAIN d0 = DBFields
      /\ d0.vault = db.vault /\ d0.active = new /\ d0.records = db.records
      /\ d0.clients = db.clients
      /\ d0.envelopes = Remove(Put(db.envelopes, new, env), s.env)
  BY <1>4 DEF DeleteKeyEnvelope, SetActiveEnvelope, InsertKeyEnvelope, DBFields
<1>7. d0.envelopes[new] = env
  <2> DEFINE both == Put(db.envelopes, new, env)
  <2>1. new \in DOMAIN both /\ both[new] = env
    BY DEF Put
  <2> HIDE DEF both
  <2>2. s.env # new
    BY <1>3, <1>4 DEF new
  <2>3. Remove(both, s.env)[new] = both[new]
    BY <2>1, <2>2 DEF Remove
  <2> QED
    BY <1>6, <2>1, <2>3 DEF both
<1> HIDE DEF d0
<1>8. /\ db'.vault = db.vault /\ db'.active = new /\ db'.envelopes = d0.envelopes
      /\ db'.records = db.records /\ db'.clients = db.clients
  BY <1>1, <1>6, StampedSame
<1>9. PasswordOf(db') = q
  BY <1>3, <1>5, <1>7, <1>8 DEF PasswordOf
<1>10. LoadIndex(db') = LoadIndex(db)
  BY <1>8, LoadIndexSame
<1>11. HasKeys(svc') = FALSE
  BY <1>2 DEF lockLocked, SvcFields, HasKeys
<1>12. Store!Rekey
  BY <1>1, <1>3, <1>8, <1>9, <1>10, <1>11
     DEF Store!Rekey, Store!Shut, Store!Nothing, EmptyTable
<1> QED
  BY <1>12 DEF Store!Next

\* What a committed transaction leaves of the abstract state: the record table
\* it wrote is shown as it is, and the rest is what it was.
LEMMA CommitMaps ==
    ASSUME IInv, IInv', NEW d, DOMAIN d = DBFields, StampAndNote(d),
           d.vault = db.vault, d.active = db.active, d.envelopes = db.envelopes
    PROVE  /\ db'.vault = db.vault /\ PasswordOf(db') = PasswordOf(db)
           /\ HasKeys(svc) = TRUE /\ HasKeys(svc') = TRUE
           /\ db'.records = d.records /\ db'.clients = d.clients
           /\ index' = LoadIndex(db') /\ index = LoadIndex(db)
           /\ SavedBy(container') = SavedBy(container)
<1>1. /\ HasKeys(svc) /\ UNCHANGED container
      /\ db' = Stamp(d, svc.keyring, svc.id, svc.env)
      /\ svc' = noteCounterLocked(svc, Counter(db'))
  BY DEF StampAndNote
<1>2. /\ db'.vault = d.vault /\ db'.active = d.active /\ db'.envelopes = d.envelopes
      /\ db'.records = d.records /\ db'.clients = d.clients
  BY <1>1, StampedSame
<1>3. svc'.keyring = svc.keyring /\ svc'.state = svc.state
  BY <1>1 DEF noteCounterLocked, IInv, SvcTypeOK, SvcFields
<1>4. HasKeys(svc) = TRUE /\ HasKeys(svc') = TRUE
  BY <1>1, <1>3 DEF HasKeys
<1>5. index' = LoadIndex(db') /\ index = LoadIndex(db)
  BY <1>4 DEF IInv, IndexMirrorsRecords
<1> QED
  BY <1>1, <1>2, <1>4, <1>5, PasswordSame

\* Creating a record writes it at revision 1.
LEMMA CreateWrites ==
    ASSUME NEW id \in RecordIDs, NEW x \in Payloads, IInv, IInv', Create(id, x)
    PROVE  Store!Next
<1> DEFINE sealed == encryptRecord(svc, id, 1, x)
           row == [keyVersion |-> svc.env, revision |-> 1, sealed |-> sealed]
           d == InsertRecord(db, id, svc.env, 1, sealed)
<1>1. id \notin DOMAIN db.records /\ StampAndNote(d)
  BY DEF Create
<1>2. DOMAIN db = DBFields
  BY DEF IInv, DBOK, TablesOK
<1>3. row.revision = 1 /\ row.sealed.payload = x
  BY DEF encryptRecord, Seal
<1>4. /\ DOMAIN d = DBFields
      /\ d.vault = db.vault /\ d.active = db.active /\ d.envelopes = db.envelopes
      /\ d.records = Put(db.records, id, row) /\ d.clients = db.clients
  BY <1>2 DEF InsertRecord, DBFields
<1> HIDE DEF sealed, row, d
<1>5. /\ db'.vault = db.vault /\ PasswordOf(db') = PasswordOf(db)
      /\ HasKeys(svc) = TRUE /\ HasKeys(svc') = TRUE
      /\ db'.records = Put(db.records, id, row) /\ db'.clients = db.clients
      /\ index' = LoadIndex(db') /\ SavedBy(container') = SavedBy(container)
  BY <1>1, <1>4, CommitMaps
<1>6. LoadIndex(db') = Put(LoadIndex(db), id, [revision |-> 1, payload |-> x])
  BY <1>3, <1>5, LoadIndexPut
<1>7. id \notin DOMAIN LoadIndex(db)
  BY <1>1 DEF LoadIndex
<1>8. Store!Write(id, x)
  BY <1>5, <1>6, <1>7 DEF Store!Write, Store!With, Put
<1> QED
  BY <1>8 DEF Store!Next

\* Updating a record writes it at the revision after the one that is there.
LEMMA UpdateWrites ==
    ASSUME NEW id \in RecordIDs, NEW n \in 1..MaxRevision, NEW x \in Payloads,
           IInv, IInv', Update(id, n, x)
    PROVE  Store!Next
<1> DEFINE sealed == encryptRecord(svc, id, n + 1, x)
           row == [keyVersion |-> db.records[id].keyVersion, revision |-> n + 1,
                   sealed |-> sealed]
           d == UpdateRecord(db, id, n + 1, sealed)
<1>1. id \in DOMAIN db.records /\ db.records[id].revision = n /\ StampAndNote(d)
  BY DEF Update, MatchesRevision
<1>2. DOMAIN db = DBFields
  BY DEF IInv, DBOK, TablesOK
<1>3. row.revision = n + 1 /\ row.sealed.payload = x
  BY DEF encryptRecord, Seal
<1>4. /\ DOMAIN d = DBFields
      /\ d.vault = db.vault /\ d.active = db.active /\ d.envelopes = db.envelopes
      /\ d.records = Put(db.records, id, row) /\ d.clients = db.clients
  BY <1>2 DEF UpdateRecord, DBFields
<1> HIDE DEF sealed, row, d
<1>5. /\ db'.vault = db.vault /\ PasswordOf(db') = PasswordOf(db)
      /\ HasKeys(svc) = TRUE /\ HasKeys(svc') = TRUE
      /\ db'.records = Put(db.records, id, row) /\ db'.clients = db.clients
      /\ index' = LoadIndex(db') /\ SavedBy(container') = SavedBy(container)
  BY <1>1, <1>4, CommitMaps
<1>6. LoadIndex(db') = Put(LoadIndex(db), id, [revision |-> n + 1, payload |-> x])
  BY <1>3, <1>5, LoadIndexPut
<1>7. id \in DOMAIN LoadIndex(db) /\ LoadIndex(db)[id].revision = n
  BY <1>1 DEF LoadIndex
<1>8. Store!Write(id, x)
  BY <1>5, <1>6, <1>7 DEF Store!Write, Store!With, Put
<1> QED
  BY <1>8 DEF Store!Next

\* Deleting a record erases it.
LEMMA DeleteErases ==
    ASSUME NEW id \in RecordIDs, IInv, IInv', Delete(id)
    PROVE  Store!Next
<1> DEFINE d == DeleteRecord(db, id)
<1>1. id \in DOMAIN db.records /\ StampAndNote(d)
  BY DEF Delete
<1>2. DOMAIN db = DBFields
  BY DEF IInv, DBOK, TablesOK
<1>3. /\ DOMAIN d = DBFields
      /\ d.vault = db.vault /\ d.active = db.active /\ d.envelopes = db.envelopes
      /\ d.records = Remove(db.records, id) /\ d.clients = db.clients
  BY <1>2 DEF DeleteRecord, DBFields
<1> HIDE DEF d
<1>4. /\ db'.vault = db.vault /\ PasswordOf(db') = PasswordOf(db)
      /\ HasKeys(svc) = TRUE /\ HasKeys(svc') = TRUE
      /\ db'.records = Remove(db.records, id) /\ db'.clients = db.clients
      /\ index' = LoadIndex(db') /\ SavedBy(container') = SavedBy(container)
  BY <1>1, <1>3, CommitMaps
<1>5. LoadIndex(db') = Remove(LoadIndex(db), id)
  BY <1>4, LoadIndexRemove
<1>6. id \in DOMAIN LoadIndex(db)
  BY <1>1 DEF LoadIndex
<1>7. Store!Erase(id)
  BY <1>4, <1>5, <1>6 DEF Store!Erase, Store!Without, Remove
<1> QED
  BY <1>7 DEF Store!Next

\* Approving and revoking a client write its status.
LEMMA ClientAdmits ==
    ASSUME NEW c \in ClientIDs, IInv, IInv', Approve(c) \/ Revoke(c)
    PROVE  Store!Next
<1>1. PICK status \in {"approved", "revoked"} :
          /\ StampAndNote([db EXCEPT !.clients = Put(@, c, status)])
          /\ index' = index
          /\ status = "revoked" => c \in DOMAIN db.clients
  <2>1. CASE Approve(c)
    BY <2>1 DEF Approve, InsertClient
  <2>2. CASE Revoke(c)
    BY <2>2 DEF Revoke, UpdateClientStatus
  <2> QED
    BY <2>1, <2>2
<1> DEFINE d == [db EXCEPT !.clients = Put(@, c, status)]
<1>2. DOMAIN db = DBFields
  BY DEF IInv, DBOK, TablesOK
<1>3. /\ DOMAIN d = DBFields
      /\ d.vault = db.vault /\ d.active = db.active /\ d.envelopes = db.envelopes
      /\ d.records = db.records /\ d.clients = Put(db.clients, c, status)
  BY <1>2 DEF DBFields
<1>4. StampAndNote(d)
  BY <1>1
<1> HIDE DEF d
<1>5. /\ db'.vault = db.vault /\ PasswordOf(db') = PasswordOf(db)
      /\ HasKeys(svc) = TRUE /\ HasKeys(svc') = TRUE
      /\ db'.records = db.records /\ db'.clients = Put(db.clients, c, status)
      /\ SavedBy(container') = SavedBy(container)
  BY <1>3, <1>4, CommitMaps
<1>6. LoadIndex(db') = LoadIndex(db)
  BY <1>5, LoadIndexSame
<1>7. Store!Admit(c, status)
  BY <1>1, <1>5, <1>6 DEF Store!Admit, Store!With, Put
<1> QED
  BY <1>7 DEF Store!Next

\* A backup saves the store as it is.
LEMMA BackupSaves == ASSUME IInv, BackupCreate PROVE Store!Next
<1>1. /\ HasKeys(svc) /\ UNCHANGED <<db, svc, index>>
      /\ container' = [mac |-> svc.keyring, vault |-> svc.id, snapshot |-> db]
  BY DEF BackupCreate
<1>2. svc.id = db.vault
  BY <1>1 DEF IInv, SvcAgrees, HasKeys
<1>3. container'.vault = db.vault /\ container'.snapshot = db
  BY <1>1, <1>2
<1>4. SavedBy(container') = [store |-> db.vault, password |-> PasswordOf(db),
                             records |-> LoadIndex(db), clients |-> db.clients]
  BY <1>3 DEF SavedBy
<1>5. Store!Save
  BY <1>1, <1>4 DEF Store!Save
<1> QED
  BY <1>5 DEF Store!Next

\* Reset leaves the service without a keyring.
LEMMA ResetShuts == ASSUME IInv, svc' = Reset(svc) PROVE HasKeys(svc') = FALSE
<1>1. DOMAIN svc = SvcFields
  BY DEF IInv, SvcTypeOK
<1> QED
  BY <1>1 DEF Reset, lockLocked, SvcFields, HasKeys

\* A restore brings back what was saved from this store, or fails and closes it.
LEMMA RestoreRestores == ASSUME IInv, BackupRestore PROVE Store!Next
<1>1. /\ HasKeys(svc) /\ container # NoContainer /\ container.vault = svc.id
      /\ index' = EmptyTable /\ UNCHANGED container
  BY DEF BackupRestore, ContainerVerifies
<1>2. CASE db' = container.snapshot /\ svc' = Reset(svc)
  <2>1. svc.id = db.vault
    BY <1>1 DEF IInv, SvcAgrees, HasKeys
  <2>2. container.vault = db.vault /\ container.snapshot.vault = db.vault
    BY <1>1, <2>1 DEF IInv, ContainerOK
  <2>3. HasKeys(svc') = FALSE
    BY <1>2, ResetShuts
  <2>4. /\ SavedBy(container).store = container.vault
        /\ SavedBy(container).password = PasswordOf(container.snapshot)
        /\ SavedBy(container).records = LoadIndex(container.snapshot)
        /\ SavedBy(container).clients = container.snapshot.clients
    BY DEF SavedBy
  <2>5. Store!Restore
    BY <1>1, <1>2, <2>2, <2>3, <2>4 DEF Store!Restore, Store!Shut, Store!Nothing, EmptyTable
  <2> QED
    BY <2>5 DEF Store!Next
<1>3. CASE db' = db /\ svc' = lockLocked(svc)
  BY <1>1, <1>3, LockCloses
<1> QED
  BY <1>2, <1>3 DEF BackupRestore

\* A destruction leaves no store.
LEMMA DestroyDestroys ==
    ASSUME NEW p \in Passwords, IInv, Destroy(p)
    PROVE  Store!Next
<1>1. /\ VaultFound /\ db' = EmptyDB /\ svc' = Reset(svc) /\ index' = EmptyTable
      /\ UNCHANGED container
  BY DEF Destroy
<1>2. db.vault # NoVault
  BY <1>1, Loaded
<1>3. /\ db'.vault = NoVault /\ db'.clients = EmptyTable /\ db'.records = EmptyTable
  BY <1>1 DEF EmptyDB
<1>4. PasswordOf(db') = NoPassword /\ LoadIndex(db') = EmptyTable
  BY <1>3, LoadIndexEmpty DEF PasswordOf
<1>5. HasKeys(svc') = FALSE
  BY <1>1, ResetShuts
<1>6. Store!Destroy
  BY <1>1, <1>2, <1>3, <1>4, <1>5 DEF Store!Destroy, Store!Shut, Store!Nothing, EmptyTable
<1> QED
  BY <1>6 DEF Store!Next

\* Every step of the daemon is a step of the store, or none.
LEMMA NextMaps == IInv /\ IInv' /\ [Next]_vars => [Store!Next]_Store!vars
<1> SUFFICES ASSUME IInv, IInv', [Next]_vars PROVE Store!Next \/ UNCHANGED Store!vars
  OBVIOUS
<1>1. CASE Status
  <2>1. svc.state = "locked" /\ svc.keyring = NoKey /\ DOMAIN svc = SvcFields
    BY <1>1 DEF Status, IInv, SvcTypeOK, SvcAgrees, Cached
  <2>2. svc'.state = svc.state /\ svc'.keyring = svc.keyring
    BY <1>1, <2>1 DEF Status, loadVault, SvcFields
  <2> QED
    BY <1>1, <2>2, StoreStutter DEF Status
<1>2. CASE UnlockRateLimited
  BY <1>2, StoreStutter DEF UnlockRateLimited
<1>3. ASSUME NEW p \in Passwords, opInit(p) \/ UnlockRefused(p) \/ opUnlock(p) \/ Destroy(p)
      PROVE  Store!Next \/ UNCHANGED Store!vars
  BY <1>3, InitFounds, RefusedStutters, UnlockOpens, DestroyDestroys
<1>4. ASSUME NEW p \in Passwords, NEW q \in Passwords, ChangeMasterPassword(p, q)
      PROVE  Store!Next
  BY <1>4, ChangeRekeys
<1>5. CASE Lock
  BY <1>5, LockCloses DEF Lock
<1>6. ASSUME NEW id \in RecordIDs, Delete(id) \/ \E x \in Payloads : Create(id, x)
      PROVE  Store!Next
  BY <1>6, DeleteErases, CreateWrites
<1>7. ASSUME NEW id \in RecordIDs, NEW n \in 1..MaxRevision, NEW x \in Payloads,
             Update(id, n, x)
      PROVE  Store!Next
  BY <1>7, UpdateWrites
<1>8. ASSUME NEW c \in ClientIDs, Approve(c) \/ Revoke(c) PROVE Store!Next
  BY <1>8, ClientAdmits
<1>9. CASE BackupCreate \/ BackupRestore
  BY <1>9, BackupSaves, RestoreRestores
<1>10. CASE Restart
  <2>1. svc'.state = "locked"
    BY <1>10 DEF Restart, NewService
  <2> QED
    BY <1>10, <2>1, StoreClose DEF Restart
<1>11. CASE Tick
  <2>1. svc'.keyring = svc.keyring /\ svc'.state = svc.state
    BY <1>11 DEF Tick, IInv, SvcTypeOK, SvcFields
  <2> QED
    BY <1>11, <2>1, StoreStutter DEF Tick
<1>12. CASE UNCHANGED vars
  BY <1>12, StoreStutter DEF vars
<1> QED
  BY <1>1, <1>2, <1>3, <1>4, <1>5, <1>6, <1>7, <1>8, <1>9, <1>10, <1>11, <1>12 DEF Next

\* The daemon implements RecordStore: whatever it does with keys, envelopes,
\* anchors, counters and caches, its user sees the store that module promises.
THEOREM Refinement == Spec => ImplementsRecordStore
BY StoreInit, NextMaps, Invariance, PTL DEF Spec, ImplementsRecordStore, Store!Spec

-------------------------------------------------------------------------------
(* The file replaced by an earlier copy (module Rollback).  IInv does not  *)
(* survive that; what does is that the mark covers every counter seen.     *)

\* The counters, and the mark above the counters seen.
MarkCovers ==
    /\ DOMAIN db = DBFields /\ DOMAIN copy = DBFields /\ DOMAIN container.snapshot = DBFields
    /\ Counter(db) \in Nat /\ Counter(copy) \in Nat /\ Counter(container.snapshot) \in Nat
    /\ DOMAIN svc = SvcFields /\ svc.highWater \in Nat
    /\ seen \in Nat /\ seen <= svc.highWater

\* A step of the daemon keeps the mark above what it has seen if it notes the
\* counter it commits or verifies.
LEMMA MarkKept ==
    ASSUME MarkCovers, DaemonStep,
           DOMAIN svc' = SvcFields, svc'.highWater \in Nat,
           DOMAIN db' = DBFields, Counter(db') \in Nat,
           DOMAIN container'.snapshot = DBFields, Counter(container'.snapshot) \in Nat,
           ~Cached(svc') \/ /\ svc'.highWater >= seen
                            /\ (db' = db /\ ~Unlocks) \/ svc'.highWater >= Counter(db')
    PROVE  MarkCovers'
<1>1. copy' = copy /\ DOMAIN copy' = DBFields /\ Counter(copy') \in Nat
  BY DEF DaemonStep, MarkCovers
<1>2. seen' \in Nat /\ seen' <= svc'.highWater
  <2>1. CASE ~Cached(svc')
    <3>1. seen' = 0
      BY <2>1 DEF DaemonStep
    <3> QED
      BY <3>1
  <2>2. CASE Cached(svc')
    <3>1. \/ seen' = seen
          \/ (Unlocks \/ db' # db) /\ seen' = Counter(db')
      BY <2>2 DEF DaemonStep
    <3> QED
      BY <2>2, <3>1 DEF MarkCovers
  <2> QED
    BY <2>1, <2>2
<1> QED
  BY <1>1, <1>2 DEF MarkCovers

\* What the functions on the service do to its fields.
LEMMA MarkFields ==
    ASSUME NEW s, DOMAIN s = SvcFields
    PROVE  /\ DOMAIN loadVault(s) = SvcFields /\ loadVault(s).highWater = s.highWater
           /\ HasKeys(loadVault(s)) => loadVault(s) = s
           /\ DOMAIN lockLocked(s) = SvcFields /\ lockLocked(s).highWater = s.highWater
           /\ ~HasKeys(lockLocked(s)) /\ lockLocked(s).id = s.id
           /\ DOMAIN Reset(s) = SvcFields /\ Reset(s).highWater = 0 /\ ~Cached(Reset(s))
           /\ ~HasKeys(Reset(s))
<1>1. /\ DOMAIN loadVault(s) = SvcFields /\ loadVault(s).highWater = s.highWater
      /\ HasKeys(loadVault(s)) => loadVault(s) = s
  BY DEF loadVault, SvcFields, HasKeys
<1>2. /\ DOMAIN lockLocked(s) = SvcFields /\ lockLocked(s).highWater = s.highWater
      /\ ~HasKeys(lockLocked(s)) /\ lockLocked(s).id = s.id
      /\ lockLocked(s).keyring = NoKey
  BY DEF lockLocked, SvcFields, HasKeys
<1>3. /\ DOMAIN Reset(s) = SvcFields /\ Reset(s).highWater = 0 /\ Reset(s).id = NoVault
      /\ Reset(s).keyring = NoKey
  BY <1>2 DEF Reset, SvcFields
<1> QED
  BY <1>1, <1>2, <1>3 DEF Cached, HasKeys

\* A counter that is noted raises the mark to it and changes nothing else.
LEMMA MarkNoted ==
    ASSUME NEW s, DOMAIN s = SvcFields, s.highWater \in Nat, NEW n \in Nat
    PROVE  /\ DOMAIN noteCounterLocked(s, n) = SvcFields
           /\ noteCounterLocked(s, n).highWater \in Nat
           /\ noteCounterLocked(s, n).highWater >= n
           /\ noteCounterLocked(s, n).highWater >= s.highWater
           /\ noteCounterLocked(s, n).id = s.id /\ noteCounterLocked(s, n).epoch = s.epoch
           /\ noteCounterLocked(s, n).env = s.env /\ noteCounterLocked(s, n).state = s.state
           /\ noteCounterLocked(s, n).keyring = s.keyring
<1>1. noteCounterLocked(s, n) = [s EXCEPT !.highWater = IF n > s.highWater THEN n ELSE s.highWater]
  BY DEF noteCounterLocked
<1> DEFINE m == IF n > s.highWater THEN n ELSE s.highWater
<1>2. m \in Nat /\ m >= n /\ m >= s.highWater
  OBVIOUS
<1>3. noteCounterLocked(s, n) = [s EXCEPT !.highWater = m]
  BY <1>1
<1> HIDE DEF m
<1> QED
  BY <1>2, <1>3 DEF SvcFields

\* A stamped file has the next counter.
LEMMA MarkStamped ==
    ASSUME NEW d, DOMAIN d = DBFields, Counter(d) \in Nat, NEW key, NEW vault, NEW version
    PROVE  /\ DOMAIN Stamp(d, key, vault, version) = DBFields
           /\ Counter(Stamp(d, key, vault, version)) = Counter(d) + 1
<1> DEFINE root == Root(d, key, vault, version, Counter(d) + 1)
           st == [counter |-> Counter(d) + 1, root |-> root]
<1>1. Stamp(d, key, vault, version) = [d EXCEPT !.state = st]
  BY DEF Stamp
<1>2. st.counter = Counter(d) + 1
  OBVIOUS
<1> HIDE DEF st
<1>3. Stamp(d, key, vault, version).state = st /\ DOMAIN Stamp(d, key, vault, version) = DBFields
  BY <1>1 DEF DBFields
<1> QED
  BY <1>2, <1>3 DEF Counter

\* The steps that leave the file alone.
LEMMA FileKeptMark ==
    ASSUME MarkCovers, DaemonStep, db' = db, UNCHANGED container,
           DOMAIN svc' = SvcFields, svc'.highWater \in Nat,
           ~Cached(svc') \/ svc'.highWater = svc.highWater,
           ~HasKeys(svc') \/ svc'.epoch = svc.epoch
    PROVE  MarkCovers' /\ ~Unlocks
<1>1. ~Unlocks
  BY DEF Unlocks
<1>2. svc.highWater >= seen
  BY DEF MarkCovers
<1>3. ~Cached(svc') \/ svc'.highWater >= seen
  BY <1>2
<1> QED
  BY <1>1, <1>3, MarkKept DEF MarkCovers

\* vault.status, the refused unlocks, lock, backup, restart and the clock.
LEMMA SmallStepsMark ==
    ASSUME MarkCovers, DaemonStep,
           \/ Status \/ UnlockRateLimited \/ UnlockWithoutEnvelope \/ Lock \/ Tick \/ Restart
           \/ \E p \in Passwords : UnlockRefused(p)
    PROVE  MarkCovers' /\ ~Unlocks
<1>1. db' = db /\ UNCHANGED container
  BY DEF Status, UnlockRateLimited, UnlockWithoutEnvelope, Lock, Tick, Restart, UnlockRefused
<1>2. DOMAIN svc = SvcFields /\ svc.highWater \in Nat
  BY DEF MarkCovers
<1>3. /\ DOMAIN loadVault(svc) = SvcFields /\ loadVault(svc).highWater = svc.highWater
      /\ HasKeys(loadVault(svc)) => loadVault(svc) = svc
      /\ DOMAIN lockLocked(svc) = SvcFields /\ lockLocked(svc).highWater = svc.highWater
      /\ ~HasKeys(lockLocked(svc))
  BY <1>2, MarkFields
<1>4. CASE Status \/ UnlockWithoutEnvelope
  <2>1. svc' = loadVault(svc)
    BY <1>4 DEF Status, UnlockWithoutEnvelope
  <2> QED
    BY <1>1, <1>2, <1>3, <2>1, FileKeptMark
<1>5. CASE UnlockRateLimited
  <2>1. svc' = svc
    BY <1>5 DEF UnlockRateLimited
  <2> QED
    BY <1>1, <1>2, <2>1, FileKeptMark
<1>6. CASE Lock
  <2>1. svc' = lockLocked(svc)
    BY <1>6 DEF Lock
  <2> QED
    BY <1>1, <1>2, <1>3, <2>1, FileKeptMark
<1>7. CASE Tick
  <2>1. DOMAIN svc' = SvcFields /\ svc'.highWater = svc.highWater /\ svc'.epoch = svc.epoch
    BY <1>2, <1>7 DEF Tick, SvcFields
  <2> QED
    BY <1>1, <1>2, <2>1, FileKeptMark
<1>8. CASE Restart
  <2>1. /\ DOMAIN svc' = SvcFields /\ svc'.highWater = 0 /\ ~Cached(svc') /\ ~HasKeys(svc')
    BY <1>8 DEF Restart, NewService, SvcFields, Cached, HasKeys
  <2> QED
    BY <1>1, <2>1, FileKeptMark
<1>9. ASSUME NEW p \in Passwords, UnlockRefused(p) PROVE MarkCovers' /\ ~Unlocks
  <2> DEFINE s == loadVault(svc)
  <2>1. svc' = unlockFailed(s)
    BY <1>9 DEF UnlockRefused
  <2>2. DOMAIN s = SvcFields /\ s.highWater = svc.highWater /\ (HasKeys(s) => s = svc)
    BY <1>3
  <2> HIDE DEF s
  <2>3. /\ DOMAIN svc' = SvcFields /\ svc'.highWater = s.highWater /\ svc'.epoch = s.epoch
        /\ svc'.state = s.state /\ svc'.keyring = s.keyring
    BY <2>1, <2>2 DEF unlockFailed, SvcFields
  <2> QED
    BY <1>1, <1>2, <2>2, <2>3, FileKeptMark DEF HasKeys
<1> QED
  BY <1>4, <1>5, <1>6, <1>7, <1>8, <1>9

\* A write notes the counter it has stamped.
LEMMA WriteMark ==
    ASSUME MarkCovers, DaemonStep, NEW d, DOMAIN d = DBFields, d.state = db.state, StampAndNote(d)
    PROVE  MarkCovers' /\ ~Unlocks
<1>1. /\ db' = Stamp(d, svc.keyring, svc.id, svc.env)
      /\ svc' = noteCounterLocked(svc, Counter(db')) /\ UNCHANGED container
  BY DEF StampAndNote
<1>2. Counter(d) = Counter(db) /\ Counter(d) \in Nat
  BY DEF Counter, MarkCovers
<1>3. DOMAIN db' = DBFields /\ Counter(db') \in Nat
  BY <1>1, <1>2, MarkStamped
<1>4. /\ DOMAIN svc' = SvcFields /\ svc'.highWater \in Nat /\ svc'.highWater >= Counter(db')
      /\ svc'.highWater >= svc.highWater /\ svc'.epoch = svc.epoch
  BY <1>1, <1>3, MarkNoted DEF MarkCovers
<1>5. svc'.highWater >= seen
  BY <1>4 DEF MarkCovers
<1> QED
  BY <1>1, <1>3, <1>4, <1>5, MarkKept DEF MarkCovers, Unlocks

\* The requests that need the keyring.
LEMMA RequestsMark ==
    ASSUME MarkCovers, DaemonStep,
           \/ \E id \in RecordIDs : Delete(id) \/ \E x \in Payloads : Create(id, x)
           \/ \E id \in RecordIDs, n \in 1..MaxRevision, x \in Payloads : Update(id, n, x)
           \/ \E c \in ClientIDs : Approve(c) \/ Revoke(c)
    PROVE  MarkCovers' /\ ~Unlocks
<1>1. DOMAIN db = DBFields
  BY DEF MarkCovers
<1>2. PICK d : DOMAIN d = DBFields /\ d.state = db.state /\ StampAndNote(d)
  <2>1. ASSUME NEW id \in RecordIDs, Delete(id)
        PROVE  \E d : DOMAIN d = DBFields /\ d.state = db.state /\ StampAndNote(d)
    <3>1. StampAndNote(DeleteRecord(db, id))
      BY <2>1 DEF Delete
    <3>2. DOMAIN DeleteRecord(db, id) = DBFields /\ DeleteRecord(db, id).state = db.state
      BY <1>1 DEF DeleteRecord, DBFields
    <3> QED
      BY <3>1, <3>2
  <2>2. ASSUME NEW id \in RecordIDs, NEW x \in Payloads, Create(id, x)
        PROVE  \E d : DOMAIN d = DBFields /\ d.state = db.state /\ StampAndNote(d)
    <3> DEFINE d == InsertRecord(db, id, svc.env, 1, encryptRecord(svc, id, 1, x))
    <3>1. StampAndNote(d)
      BY <2>2 DEF Create
    <3>2. DOMAIN d = DBFields /\ d.state = db.state
      BY <1>1 DEF InsertRecord, DBFields
    <3> QED
      BY <3>1, <3>2
  <2>3. ASSUME NEW id \in RecordIDs, NEW n \in 1..MaxRevision, NEW x \in Payloads, Update(id, n, x)
        PROVE  \E d : DOMAIN d = DBFields /\ d.state = db.state /\ StampAndNote(d)
    <3> DEFINE d == UpdateRecord(db, id, n + 1, encryptRecord(svc, id, n + 1, x))
    <3>1. StampAndNote(d)
      BY <2>3 DEF Update
    <3>2. DOMAIN d = DBFields /\ d.state = db.state
      BY <1>1 DEF UpdateRecord, DBFields
    <3> QED
      BY <3>1, <3>2
  <2>4. ASSUME NEW c \in ClientIDs, Approve(c) \/ Revoke(c)
        PROVE  \E d : DOMAIN d = DBFields /\ d.state = db.state /\ StampAndNote(d)
    <3>1. StampAndNote(InsertClient(db, c)) \/ StampAndNote(UpdateClientStatus(db, c, "revoked"))
      BY <2>4 DEF Approve, Revoke
    <3>2. /\ DOMAIN InsertClient(db, c) = DBFields /\ InsertClient(db, c).state = db.state
          /\ DOMAIN UpdateClientStatus(db, c, "revoked") = DBFields
          /\ UpdateClientStatus(db, c, "revoked").state = db.state
      BY <1>1 DEF InsertClient, UpdateClientStatus, DBFields
    <3> QED
      BY <3>1, <3>2
  <2> QED
    BY <2>1, <2>2, <2>3, <2>4
<1> QED
  BY <1>2, WriteMark

\* A new vault, and a password change.
LEMMA EnvelopeStepsMark ==
    ASSUME MarkCovers, DaemonStep,
           \/ \E p \in Passwords : opInit(p)
           \/ \E p, q \in Passwords : ChangeMasterPassword(p, q)
    PROVE  MarkCovers' /\ ~Unlocks
<1>1. DOMAIN db = DBFields /\ Counter(db) \in Nat
  BY DEF MarkCovers
<1>2. ASSUME NEW p \in Passwords, opInit(p) PROVE MarkCovers' /\ ~Unlocks
  <2> DEFINE vault == born + 1
             d == InsertKeyEnvelope(InsertVault(db, vault, 1), 1,
                                    buildEnvelope(vault, 1, vault, p))
             e == Stamp(d, vault, vault, 1)
  <2>1. /\ db' = e /\ UNCHANGED container
        /\ svc' = [noteCounterLocked(svc, Counter(e)) EXCEPT
                      !.id = vault, !.state = "locked", !.epoch = 0, !.env = 1]
    BY <1>2 DEF opInit
  <2> HIDE DEF vault
  <2>2. DOMAIN d = DBFields /\ d.state = db.state
    BY <1>1 DEF InsertKeyEnvelope, InsertVault, DBFields
  <2>3. Counter(d) \in Nat
    BY <1>1, <2>2 DEF Counter
  <2> HIDE DEF d
  <2>4. DOMAIN e = DBFields /\ Counter(e) \in Nat
    BY <2>2, <2>3, MarkStamped
  <2> HIDE DEF e
  <2>5. /\ DOMAIN noteCounterLocked(svc, Counter(e)) = SvcFields
        /\ noteCounterLocked(svc, Counter(e)).highWater \in Nat
        /\ noteCounterLocked(svc, Counter(e)).highWater >= Counter(e)
        /\ noteCounterLocked(svc, Counter(e)).highWater >= svc.highWater
    BY <2>4, MarkNoted DEF MarkCovers
  <2>6. /\ DOMAIN svc' = SvcFields /\ svc'.state = "locked"
        /\ svc'.highWater = noteCounterLocked(svc, Counter(e)).highWater
    BY <2>1, <2>5 DEF SvcFields
  <2>7. svc'.highWater \in Nat /\ svc'.highWater >= Counter(e) /\ svc'.highWater >= seen
    BY <2>5, <2>6 DEF MarkCovers
  <2>8. ~Unlocks
    BY <2>6 DEF Unlocks, HasKeys
  <2> QED
    BY <2>1, <2>4, <2>6, <2>7, <2>8, MarkKept DEF MarkCovers
<1>3. ASSUME NEW p \in Passwords, NEW q \in Passwords, ChangeMasterPassword(p, q)
      PROVE  MarkCovers' /\ ~Unlocks
  <2> DEFINE s == loadVault(svc)
             key == db.envelopes[s.env].rootKey
             d == DeleteKeyEnvelope(SetActiveEnvelope(
                      InsertKeyEnvelope(db, s.env + 1, buildEnvelope(s.id, s.env + 1, key, q)),
                      s.env + 1), s.env)
             e == Stamp(d, key, s.id, s.env + 1)
             t == [noteCounterLocked(s, Counter(e)) EXCEPT !.env = s.env + 1]
  <2>1. db' = e /\ UNCHANGED container /\ svc' = lockLocked(t)
    BY <1>3 DEF ChangeMasterPassword
  <2>2. DOMAIN d = DBFields /\ d.state = db.state
    BY <1>1 DEF InsertKeyEnvelope, SetActiveEnvelope, DeleteKeyEnvelope, DBFields
  <2>3. Counter(d) \in Nat
    BY <1>1, <2>2 DEF Counter
  <2> HIDE DEF d
  <2>4. DOMAIN e = DBFields /\ Counter(e) \in Nat
    BY <2>2, <2>3, MarkStamped
  <2> HIDE DEF e
  <2>5. DOMAIN s = SvcFields /\ s.highWater = svc.highWater /\ svc.highWater \in Nat
    BY MarkFields DEF MarkCovers
  <2> HIDE DEF s
  <2>6. /\ DOMAIN noteCounterLocked(s, Counter(e)) = SvcFields
        /\ noteCounterLocked(s, Counter(e)).highWater \in Nat
        /\ noteCounterLocked(s, Counter(e)).highWater >= Counter(e)
        /\ noteCounterLocked(s, Counter(e)).highWater >= svc.highWater
    BY <2>4, <2>5, MarkNoted
  <2>7. DOMAIN t = SvcFields /\ t.highWater = noteCounterLocked(s, Counter(e)).highWater
    BY <2>6 DEF SvcFields
  <2> HIDE DEF t
  <2>8. DOMAIN svc' = SvcFields /\ svc'.highWater = t.highWater /\ ~HasKeys(svc')
    BY <2>1, <2>7, MarkFields
  <2>9. svc'.highWater \in Nat /\ svc'.highWater >= Counter(e) /\ svc'.highWater >= seen
    BY <2>6, <2>7, <2>8 DEF MarkCovers
  <2>10. ~Unlocks
    BY <2>8 DEF Unlocks
  <2> QED
    BY <2>1, <2>4, <2>8, <2>9, <2>10, MarkKept DEF MarkCovers
<1> QED
  BY <1>2, <1>3

\* A backup, a restore and a destruction: the last two forget the mark with
\* everything that was seen.
LEMMA BackupStepsMark ==
    ASSUME MarkCovers, DaemonStep,
           BackupCreate \/ BackupRestore \/ \E p \in Passwords : Destroy(p)
    PROVE  MarkCovers' /\ ~Unlocks
<1>1. /\ DOMAIN svc = SvcFields /\ svc.highWater \in Nat /\ svc.highWater >= seen
      /\ DOMAIN db = DBFields /\ Counter(db) \in Nat
  BY DEF MarkCovers
<1>2. /\ DOMAIN lockLocked(svc) = SvcFields /\ lockLocked(svc).highWater = svc.highWater
      /\ ~HasKeys(lockLocked(svc))
      /\ DOMAIN Reset(svc) = SvcFields /\ Reset(svc).highWater = 0 /\ ~Cached(Reset(svc))
      /\ ~HasKeys(Reset(svc))
  BY <1>1, MarkFields
<1>3. CASE BackupCreate
  <2>1. db' = db /\ svc' = svc /\ container'.snapshot = db
    BY <1>3 DEF BackupCreate
  <2>2. ~Unlocks
    BY <2>1 DEF Unlocks
  <2> QED
    BY <1>1, <2>1, <2>2, MarkKept
<1>4. CASE BackupRestore
  <2>1. \/ db' = container.snapshot /\ svc' = Reset(svc)
        \/ db' = db /\ svc' = lockLocked(svc)
    BY <1>4 DEF BackupRestore
  <2>2. UNCHANGED container
    BY <1>4 DEF BackupRestore
  <2>3. ~Unlocks
    BY <1>2, <2>1 DEF Unlocks
  <2> QED
    BY <1>1, <1>2, <2>1, <2>2, <2>3, MarkKept DEF MarkCovers
<1>5. ASSUME NEW p \in Passwords, Destroy(p) PROVE MarkCovers' /\ ~Unlocks
  <2>1. db' = EmptyDB /\ svc' = Reset(svc) /\ UNCHANGED container
    BY <1>5 DEF Destroy
  <2>2. DOMAIN EmptyDB = DBFields /\ Counter(EmptyDB) \in Nat
    BY DEF EmptyDB, DBFields, Counter, NoState
  <2>3. ~Unlocks
    BY <1>2, <2>1 DEF Unlocks
  <2> QED
    BY <1>2, <2>1, <2>2, <2>3, MarkKept DEF MarkCovers
<1> QED
  BY <1>3, <1>4, <1>5

\* The file an unlock accepts has a counter no lower than the mark, hence than
\* any that was seen, or has none.
LEMMA UnlockMark ==
    ASSUME MarkCovers, DaemonStep, NEW p \in Passwords, opUnlock(p)
    PROVE  MarkCovers' /\ (Unlocks => Counter(db') >= seen \/ db.state = NoState)
<1> DEFINE loaded == loadVault(svc)
           s == UnlockWith(loaded, db.envelopes[loaded.env].rootKey)
           stamped == Stamp(db, s.keyring, s.id, s.env)
<1>1. UNCHANGED container
  BY DEF opUnlock
<1>2. \/ svc' = lockLocked(s) /\ db' = db
      \/ /\ CatalogVerdict(db, s) = "ok" /\ db' = db
         /\ svc' = [s EXCEPT !.highWater = Counter(db)]
      \/ /\ CatalogVerdict(db, s) = "absent" /\ db' = stamped
         /\ svc' = noteCounterLocked(s, Counter(stamped))
  BY DEF opUnlock
<1>3. DOMAIN loaded = SvcFields /\ loaded.highWater = svc.highWater
  BY MarkFields DEF MarkCovers
<1> HIDE DEF loaded
<1>4. DOMAIN s = SvcFields /\ s.highWater = svc.highWater
  BY <1>3 DEF UnlockWith, SvcFields
<1> HIDE DEF s
<1>5. /\ DOMAIN db = DBFields /\ Counter(db) \in Nat /\ seen \in Nat /\ seen <= svc.highWater
      /\ svc.highWater \in Nat
  BY DEF MarkCovers
<1>6. CASE svc' = lockLocked(s) /\ db' = db
  <2>1. DOMAIN svc' = SvcFields /\ svc'.highWater = svc.highWater /\ ~HasKeys(svc')
    BY <1>4, <1>6, MarkFields
  <2> QED
    BY <1>1, <1>5, <1>6, <2>1, FileKeptMark
<1>7. CASE /\ CatalogVerdict(db, s) = "ok" /\ db' = db
           /\ svc' = [s EXCEPT !.highWater = Counter(db)]
  <2>1. ~(Counter(db) < s.highWater)
    BY <1>7 DEF CatalogVerdict
  <2>2. Counter(db) >= seen
    BY <1>4, <1>5, <2>1
  <2>3. DOMAIN svc' = SvcFields /\ svc'.highWater = Counter(db)
    BY <1>4, <1>7 DEF SvcFields
  <2>4. svc'.highWater >= Counter(db') /\ svc'.highWater >= seen
    BY <1>5, <1>7, <2>2, <2>3
  <2> QED
    BY <1>1, <1>5, <1>7, <2>2, <2>3, <2>4, MarkKept DEF MarkCovers
<1>8. CASE /\ CatalogVerdict(db, s) = "absent" /\ db' = stamped
           /\ svc' = noteCounterLocked(s, Counter(stamped))
  <2>1. db.state = NoState
    BY <1>8 DEF CatalogVerdict
  <2>2. DOMAIN stamped = DBFields /\ Counter(stamped) \in Nat
    BY <1>5, MarkStamped
  <2> HIDE DEF stamped
  <2>3. /\ DOMAIN svc' = SvcFields /\ svc'.highWater \in Nat
        /\ svc'.highWater >= Counter(stamped) /\ svc'.highWater >= s.highWater
    BY <1>4, <1>5, <1>8, <2>2, MarkNoted
  <2>4. svc'.highWater >= seen
    BY <1>4, <1>5, <2>3
  <2> QED
    BY <1>1, <1>8, <2>1, <2>2, <2>3, <2>4, MarkKept DEF MarkCovers
<1> QED
  BY <1>2, <1>6, <1>7, <1>8

\* Every step of the daemon keeps the mark, and unlocks nothing older than it.
LEMMA DaemonStepMark ==
    ASSUME MarkCovers, DaemonStep
    PROVE  MarkCovers' /\ (Unlocks => Counter(db') >= seen \/ db.state = NoState)
<1>1. Next \/ UnlockWithoutEnvelope
  BY DEF DaemonStep
<1> QED
  BY <1>1, SmallStepsMark, RequestsMark, EnvelopeStepsMark, BackupStepsMark, UnlockMark DEF Next

\* Copying the file, and putting the copy back, changes no mark and unlocks nothing.
LEMMA FileStepMark ==
    ASSUME MarkCovers, CopyFile \/ SwapFile \/ UNCHANGED rvars
    PROVE  MarkCovers' /\ (svc' = svc)
BY DEF MarkCovers, CopyFile, SwapFile, rvars, vars

\* An older copy of the file, put in place while the daemon runs, is not served:
\* an unlock that succeeds finds a counter no lower than any the process has
\* committed or verified, or a file without a counter, for any number of copies,
\* writes, password changes and failed unlocks in between (VerifyCatalog,
\* NoteCatalogCounter).
THEOREM OlderFilesNoticed == RollbackSpec => RollbackDetected
<1> DEFINE Noticed == Unlocks => Counter(db') >= seen \/ db.state = NoState
<1>1. RollbackInit => MarkCovers
  <2> SUFFICES ASSUME RollbackInit PROVE MarkCovers
    OBVIOUS
  <2>1. DOMAIN EmptyDB = DBFields /\ Counter(EmptyDB) = 0
    BY DEF EmptyDB, DBFields, Counter, NoState
  <2>2. DOMAIN LegacyDB = DBFields /\ LegacyDB.state = NoState
    BY DEF LegacyDB, InsertKeyEnvelope, InsertVault, EmptyDB, DBFields
  <2>3. Counter(LegacyDB) = 0
    BY <2>2 DEF Counter, NoState
  <2> QED
    BY <2>1, <2>2, <2>3 DEF RollbackInit, Init, NewService, SvcFields, NoContainer, MarkCovers
<1>2. MarkCovers /\ [RollbackNext]_rvars => MarkCovers' /\ [Noticed]_rvars
  <2> SUFFICES ASSUME MarkCovers, [RollbackNext]_rvars PROVE MarkCovers' /\ Noticed
    OBVIOUS
  <2>1. CASE DaemonStep
    BY <2>1, DaemonStepMark
  <2>2. CASE CopyFile \/ SwapFile \/ UNCHANGED rvars
    <3>1. MarkCovers' /\ svc' = svc
      BY <2>2, FileStepMark
    <3>2. ~Unlocks
      BY <3>1 DEF Unlocks
    <3> QED
      BY <3>1, <3>2
  <2> QED
    BY <2>1, <2>2 DEF RollbackNext
<1> HIDE DEF Noticed
<1>3. RollbackSpec => [][Noticed]_rvars
  BY <1>1, <1>2, PTL DEF RollbackSpec
<1> QED
  BY <1>3 DEF RollbackDetected, Noticed
===============================================================================
