----------------------------- MODULE DaemonProofs -----------------------------
(***************************************************************************)
(* Proofs about module Daemon, for any number of goroutines, requests,     *)
(* records and payloads: who holds which lock, that the anchor covers the  *)
(* tables, that the high-water mark never runs ahead, that no write        *)
(* replaces a revision twice, and that the index settles.                  *)
(***************************************************************************)
EXTENDS Daemon, FiniteSetTheorems, TLAPS

-------------------------------------------------------------------------------
(* The inductive invariant.                                                *)

DBFields == {"vault", "active", "envelopes", "records", "clients", "state"}
SvcFields == {"id", "env", "state", "ring", "highWater"}
WriteFields == {"pc", "op", "id", "base", "payload", "ring", "sealed", "keyVersion", "stamped"}
ReadFields == {"pc", "op", "id", "ring", "stamped"}
LoadFields == {"pc", "op", "ring", "rows"}

MuPcs == {"statusQuery", "unlockQuery", "changeQuery", "verifyQuery"}
LoadPcs == {"unlock", "unlockQuery", "loadKeys", "list", "clear", "fill", "verify",
            "verifyQuery", "lock"}

\* The local variables of a goroutine have the shape of the request it serves.
LocalOK(l) ==
    \/ DOMAIN l = {"pc"} /\ l.pc = "idle"
    \/ /\ DOMAIN l = {"pc", "op"}
       /\ l.pc \in {"status", "lock", "change", "statusQuery", "changeQuery"}
    \/ /\ DOMAIN l = LoadFields
       /\ l.pc \in LoadPcs /\ DOMAIN l.rows \subseteq RecordIDs
    \/ /\ DOMAIN l = ReadFields /\ l.op \in {"delete", "reveal"}
       /\ l.id \in RecordIDs /\ l.stamped \in Nat
       /\ l.pc \in IF l.op = "reveal" THEN {"keys", "open"}
                   ELSE {"keys", "begin", "stamp", "note", "publish"}
    \/ /\ DOMAIN l = WriteFields /\ l.op \in {"create", "update"}
       /\ l.id \in RecordIDs /\ l.stamped \in Nat
       /\ l.op = "create" => l.base = 0
       /\ l.pc \in {"keys", "lookup", "encrypt", "keyVersion", "begin", "stamp", "note", "publish"}
       /\ l.pc \in {"keyVersion", "begin", "stamp"} => l.sealed.payload = l.payload

LocksOK ==
    /\ mu \in Threads \cup {Free} /\ conn \in Threads \cup {Free}
    /\ \A t \in Threads :
        /\ mu = t <=> th[t].pc \in MuPcs
        /\ conn = t <=> th[t].pc = "stamp"

ServiceOK ==
    /\ DOMAIN svc = SvcFields
    /\ svc.id = 1 /\ svc.env \in Nat /\ svc.highWater \in Nat
    /\ svc.ring \in {0} \cup Rings /\ svc.state \in {"locked", "unlocked"}
    /\ svc.ring # 0 <=> svc.state = "unlocked"
    /\ svc.ring # 0 => rings[svc.ring] # NoKey
    /\ DOMAIN rings = Rings /\ \A g \in Rings : rings[g] \in {NoKey, RootKey, ZeroKey}

\* There is a keyring left to allocate for every unlock that waits for one.
Used == {g \in Rings : rings[g] # NoKey}
Waiting == {t \in Threads : th[t].pc \in {"unlock", "unlockQuery"}}
RingsLeft ==
    /\ served \in 0..MaxRequests
    /\ IsFiniteSet(Waiting)
    /\ Cardinality(Used) + Cardinality(Waiting) <= served + 1

\* The file belongs to the vault and the envelope version the service has cached.
FileOK ==
    /\ DOMAIN db = DBFields
    /\ db.vault = 1 /\ db.active = svc.env /\ Counter(db) \in Nat
    /\ DOMAIN db.envelopes = {svc.env} /\ db.envelopes[svc.env].rootKey = RootKey
    /\ DOMAIN db.records \subseteq minted /\ minted \subseteq RecordIDs

\* A counter that is still to be noted has been committed.
NotesOK == \A t \in Threads : th[t].pc = "note" => th[t].stamped <= Counter(db)

\* The row a transaction is about to write is still the one its WHERE clause selected.
RowsHeld == \A t \in Threads : th[t].pc = "stamp" => Affects(th[t])

\* Two creations never meet in one identifier.
Creating(l) ==
    DOMAIN l = WriteFields /\ l.op = "create"
    /\ l.pc \in {"keys", "lookup", "encrypt", "keyVersion", "begin", "stamp"}
CreatesFresh ==
    \A t \in Threads : Creating(th[t]) =>
        /\ th[t].id \in minted \ DOMAIN db.records
        /\ \A u \in Threads \ {t} : Creating(th[u]) => th[u].id # th[t].id

IndexOK ==
    /\ index = [id \in DOMAIN index |-> index[id]]
    /\ DOMAIN index \subseteq RecordIDs

\* A write that is committed and not yet published is what the table holds.
Reflected(l) ==
    IF l.op = "delete" THEN l.id \notin DOMAIN db.records
    ELSE /\ l.id \in DOMAIN db.records
         /\ db.records[l.id].revision = l.base + 1
         /\ db.records[l.id].sealed.payload = l.payload

\* LoadIndex works on the rows the table still holds, and has published the others.
LoadsCurrent(l) ==
    /\ l.pc = "clear" => l.rows = db.records
    /\ l.pc = "fill" =>
        /\ DOMAIN l.rows \subseteq DOMAIN db.records
        /\ \A id \in DOMAIN l.rows : l.rows[id] = db.records[id]
        /\ index = [id \in DOMAIN db.records \ DOMAIN l.rows |-> Entry(db.records[id])]

\* The index shows of this record what it should.
Shown(id) ==
    IF HasKeys /\ id \in DOMAIN db.records
    THEN id \in DOMAIN index /\ index[id] = Entry(db.records[id])
    ELSE id \notin DOMAIN index

\* Where a goroutine will still rebuild or empty the index as a whole.
Rebuilding == {"loadKeys", "list", "clear", "fill", "lock"}
Unpublished == {"note", "publish"}

\* Unless overlap: whoever was handed keys finds the vault unlocked, what is about
\* to be published is current, and every record the index shows wrongly is about
\* to be published.
Settling ==
    ~overlap =>
        /\ \A t \in Threads : HandedKeys(t) => HasKeys
        /\ \A t \in Threads : th[t].pc \in Unpublished => Reflected(th[t])
        /\ \A t \in Threads : LoadsCurrent(th[t])
        /\ (\A t \in Threads : th[t].pc \notin Rebuilding) =>
              \A id \in RecordIDs :
                  Shown(id) \/ \E t \in Threads : th[t].pc \in Unpublished /\ th[t].id = id

IInv ==
    /\ DOMAIN th = Threads /\ \A t \in Threads : LocalOK(th[t])
    /\ LocksOK
    /\ ServiceOK /\ RingsLeft
    /\ FileOK /\ AnchorCoversTables /\ HighWaterNotAhead /\ NotesOK
    /\ RowsHeld /\ CreatesFresh
    /\ IndexOK /\ Settling
    /\ alarms \subseteq {"reveal", "index", "catalog"}

-------------------------------------------------------------------------------
(* Steps of one goroutine.                                                 *)

HandedPcs == {"note", "publish", "clear", "fill", "lookup", "encrypt", "keyVersion",
              "begin", "stamp", "list"}

\* Only goroutine t moves.
Moves(t) == DOMAIN th' = Threads /\ \A u \in Threads \ {t} : th'[u] = th[u]

\* All local variables but the program counter are what they were.
Kept(l, m) == DOMAIN m = DOMAIN l /\ \A f \in DOMAIN l \ {"pc"} : m[f] = l[f]

\* What Goto does.
LEMMA GotoMoves ==
    ASSUME IInv, NEW t \in Threads, NEW label, Goto(t, label)
    PROVE  Moves(t) /\ Kept(th[t], th'[t]) /\ th'[t].pc = label
<1>1. DOMAIN th = Threads /\ "pc" \in DOMAIN th[t]
  BY DEF IInv, LocalOK, LoadFields, ReadFields, WriteFields
<1>2. th' = [th EXCEPT ![t] = [th[t] EXCEPT !.pc = label]]
  BY DEF Goto
<1> DEFINE m == [th[t] EXCEPT !.pc = label]
<1>3. Kept(th[t], m) /\ m.pc = label
  BY <1>1 DEF Kept
<1>4. th' = [th EXCEPT ![t] = m]
  BY <1>2
<1> HIDE DEF m
<1> QED
  BY <1>1, <1>3, <1>4 DEF Moves

\* What Finish does.
LEMMA FinishMoves ==
    ASSUME IInv, NEW t \in Threads, Finish(t)
    PROVE  /\ Moves(t) /\ DOMAIN th'[t] = {"pc"} /\ th'[t].pc = "idle"
           /\ LocalOK(th'[t])
BY DEF IInv, Finish, Idle, Moves, LocalOK

\* The locks after a step that touches neither.
LEMMA LocksKept ==
    ASSUME IInv, NEW t \in Threads, Moves(t), mu' = mu, conn' = conn,
           th[t].pc \in MuPcs <=> th'[t].pc \in MuPcs,
           th[t].pc = "stamp" <=> th'[t].pc = "stamp"
    PROVE  LocksOK'
BY DEF IInv, LocksOK, Moves

\* There is one keyring more than requests.
LEMMA RingsFinite ==
    /\ IsFiniteSet(Rings) /\ Cardinality(Rings) = MaxRequests + 1
    /\ IsFiniteSet(Used) /\ Cardinality(Used) \in Nat
<1>1. MaxRequests + 1 \in Int /\ 1 \in Int /\ ~(1 > MaxRequests + 1)
      /\ MaxRequests + 1 - 1 + 1 = MaxRequests + 1
  BY DaemonAssumption
<1>2. IsFiniteSet(Rings) /\ Cardinality(Rings) = MaxRequests + 1
  BY <1>1, FS_Interval DEF Rings
<1>3. Used \subseteq Rings
  BY DEF Used
<1>4. IsFiniteSet(Used)
  BY <1>2, <1>3, FS_Subset
<1> QED
  BY <1>2, <1>4, FS_CardinalityType

\* Keyrings are left for the waiting unlocks when none is used and none waits anew.
LEMMA RingsKept ==
    ASSUME IInv, Used' = Used, Waiting' \subseteq Waiting, served' = served
    PROVE  RingsLeft'
<1>1. /\ IsFiniteSet(Waiting) /\ served \in 0..MaxRequests
      /\ Cardinality(Used) + Cardinality(Waiting) <= served + 1
  BY DEF IInv, RingsLeft
<1>2. IsFiniteSet(Waiting') /\ Cardinality(Waiting') <= Cardinality(Waiting)
  BY <1>1, FS_Subset
<1>3. IsFiniteSet(Used)
  BY RingsFinite
<1>4. Cardinality(Used) \in Nat /\ Cardinality(Waiting) \in Nat /\ Cardinality(Waiting') \in Nat
  BY <1>1, <1>2, <1>3, FS_CardinalityType
<1>5. Cardinality(Used') + Cardinality(Waiting') <= served' + 1
  BY <1>1, <1>2, <1>4, DaemonAssumption
<1> QED
  BY <1>1, <1>2, <1>5 DEF RingsLeft

\* A step that changes one goroutine and, at most, the high-water mark and the
\* identifiers handed out.
LEMMA QuietStep ==
    ASSUME IInv, NEW t \in Threads, Moves(t), LocalOK(th'[t]),
           UNCHANGED <<db, rings, index>>,
           minted \subseteq minted', minted' \subseteq RecordIDs,
           DOMAIN svc' = SvcFields, svc'.id = svc.id, svc'.env = svc.env,
           svc'.state = svc.state, svc'.ring = svc.ring,
           svc'.highWater \in Nat, svc'.highWater <= Counter(db),
           ~overlap' => ~overlap,
           alarms' \subseteq {"reveal", "index", "catalog"},
           LocksOK', RingsLeft',
           th'[t].pc # "note", th'[t].pc # "fill",
           th'[t].pc = "publish" => th[t].pc = "note" /\ Kept(th[t], th'[t]),
           th'[t].pc = "stamp" => Affects(th'[t]),
           Creating(th'[t]) => \/ Creating(th[t]) /\ th'[t].id = th[t].id
                               \/ th'[t].id \in minted' \ minted,
           th'[t].pc \in HandedPcs => HasKeys \/ th[t].pc \in HandedPcs,
           th'[t].pc = "clear" => th'[t].rows = db.records,
           th[t].pc \in Rebuilding => th'[t].pc \in Rebuilding,
           th[t].pc = "note" => th'[t].pc = "publish",
           th[t].pc # "publish"
    PROVE  IInv'
<1>1. DOMAIN th' = Threads /\ \A u \in Threads : LocalOK(th'[u])
  BY DEF IInv, Moves
<1>2. ServiceOK' /\ FileOK' /\ HighWaterNotAhead' /\ IndexOK'
  BY DEF IInv, ServiceOK, FileOK, HighWaterNotAhead, IndexOK, HasKeys
<1>3. AnchorCoversTables'
  BY DEF IInv, AnchorCoversTables
<1>4. NotesOK'
  BY DEF IInv, NotesOK, Moves
<1>5. RowsHeld'
  <2> SUFFICES ASSUME NEW u \in Threads, th'[u].pc = "stamp" PROVE Affects(th'[u])
    BY DEF RowsHeld, Affects, MatchesRevision
  <2> QED
    BY DEF IInv, RowsHeld, Moves
<1>6. CreatesFresh'
  <2>1. DOMAIN db'.records \subseteq minted
    BY DEF IInv, FileOK
  <2>2. ASSUME NEW u \in Threads, Creating(th'[u])
        PROVE  /\ th'[u].id \in minted' \ DOMAIN db'.records
               /\ u # t => Creating(th[u]) /\ th'[u].id = th[u].id /\ th[u].id \in minted
    BY <2>1, <2>2 DEF IInv, CreatesFresh, Moves
  <2>3. ASSUME NEW u \in Threads \ {t}, Creating(th'[u]), Creating(th'[t])
        PROVE  th'[u].id # th'[t].id
    BY <2>2, <2>3 DEF IInv, CreatesFresh
  <2>4. ASSUME NEW u \in Threads \ {t}, NEW w \in Threads \ {t, u},
               Creating(th'[u]), Creating(th'[w])
        PROVE  th'[u].id # th'[w].id
    BY <2>2, <2>4 DEF IInv, CreatesFresh
  <2>5. \A u \in Threads : \A w \in Threads \ {u} :
            Creating(th'[u]) /\ Creating(th'[w]) => th'[w].id # th'[u].id
    BY <2>3, <2>4
  <2> QED
    BY <2>2, <2>5 DEF CreatesFresh
<1>7. Settling'
  <2> SUFFICES ASSUME ~overlap' PROVE Settling'
    BY DEF Settling
  <2>1. /\ \A u \in Threads : HandedKeys(u) => HasKeys
        /\ \A u \in Threads : th[u].pc \in Unpublished => Reflected(th[u])
        /\ \A u \in Threads : LoadsCurrent(th[u])
    BY DEF IInv, Settling
  <2>2. HasKeys' <=> HasKeys
    BY DEF HasKeys
  <2>3. \A u \in Threads : HandedKeys(u)' => HasKeys'
    BY <2>1, <2>2 DEF HandedKeys, Publishing, HandedPcs, Moves
  <2>4. ASSUME NEW u \in Threads, th'[u].pc \in Unpublished PROVE Reflected(th'[u])
    <3>1. CASE u # t
      BY <2>1, <2>4, <3>1 DEF Moves
    <3>2. CASE u = t
      <4>1. th[t].pc = "note" /\ Kept(th[t], th'[t])
        BY <2>4, <3>2 DEF Unpublished
      <4>2. Reflected(th[t]) /\ LocalOK(th[t])
        BY <2>1, <4>1 DEF Unpublished, IInv
      <4>3. (DOMAIN th[t] = ReadFields /\ th[t].op = "delete") \/ DOMAIN th[t] = WriteFields
        BY <4>1, <4>2 DEF LocalOK, LoadPcs
      <4>4. th'[t].id = th[t].id /\ th'[t].op = th[t].op
        BY <4>1, <4>3 DEF Kept, ReadFields, WriteFields
      <4>5. th[t].op # "delete" => th'[t].base = th[t].base /\ th'[t].payload = th[t].payload
        BY <4>1, <4>3 DEF Kept, WriteFields
      <4> QED
        BY <3>2, <4>2, <4>4, <4>5 DEF Reflected
    <3> QED
      BY <3>1, <3>2
  <2>5. ASSUME NEW u \in Threads PROVE LoadsCurrent(th'[u])
    <3>1. CASE u # t
      BY <2>1, <3>1 DEF Moves
    <3>2. CASE u = t
      BY <3>2 DEF LoadsCurrent
    <3> QED
      BY <3>1, <3>2
  <2>6. ASSUME \A u \in Threads : th'[u].pc \notin Rebuilding, NEW id \in RecordIDs
        PROVE  Shown(id) \/ \E u \in Threads : th'[u].pc \in Unpublished /\ th'[u].id = id
    <3>1. \A u \in Threads : th[u].pc \notin Rebuilding
      BY <2>6 DEF Moves
    <3>2. Shown(id) \/ \E u \in Threads : th[u].pc \in Unpublished /\ th[u].id = id
      BY <3>1 DEF IInv, Settling
    <3>3. ASSUME NEW u \in Threads, th[u].pc \in Unpublished, th[u].id = id
          PROVE  th'[u].pc \in Unpublished /\ th'[u].id = id
      <4>1. CASE u # t
        BY <3>3, <4>1 DEF Moves
      <4>2. CASE u = t
        <5>1. th[t].pc = "note" /\ th'[t].pc = "publish" /\ Kept(th[t], th'[t]) /\ LocalOK(th[t])
          BY <3>3, <4>2 DEF Unpublished, IInv
        <5>2. th'[t].id = th[t].id
          BY <5>1 DEF LocalOK, Kept, ReadFields, WriteFields, LoadFields, LoadPcs
        <5> QED
          BY <3>3, <4>2, <5>1, <5>2 DEF Unpublished
      <4> QED
        BY <4>1, <4>2
    <3> QED
      BY <3>2, <3>3
  <2>7. \A u \in Threads : th'[u].pc \in Unpublished => Reflected(th[u])'
    BY <2>4 DEF Reflected
  <2>8. \A u \in Threads : LoadsCurrent(th[u])'
    BY <2>5 DEF LoadsCurrent
  <2>9. (\A u \in Threads : th'[u].pc \notin Rebuilding) =>
            \A id \in RecordIDs :
                Shown(id)' \/ \E u \in Threads : th'[u].pc \in Unpublished /\ th'[u].id = id
    BY <2>2, <2>6 DEF Shown
  <2> QED
    BY <2>3, <2>7, <2>8, <2>9 DEF Settling
<1> QED
  BY <1>1, <1>2, <1>3, <1>4, <1>5, <1>6, <1>7 DEF IInv

\* A step that changes one goroutine only, and neither writes nor publishes.
LEMMA LocalStep ==
    ASSUME IInv, NEW t \in Threads, Moves(t), LocalOK(th'[t]),
           UNCHANGED <<shared, minted, served>>, ~overlap' => ~overlap,
           alarms' \subseteq {"reveal", "index", "catalog"}, LocksOK',
           th'[t].pc \in {"unlock", "unlockQuery"} => th[t].pc \in {"unlock", "unlockQuery"},
           th'[t].pc \notin {"note", "publish", "fill"},
           th'[t].pc = "stamp" => Affects(th'[t]),
           Creating(th'[t]) => Creating(th[t]) /\ th'[t].id = th[t].id,
           th'[t].pc \in HandedPcs => HasKeys \/ th[t].pc \in HandedPcs,
           th'[t].pc = "clear" => th'[t].rows = db.records,
           th[t].pc \in Rebuilding => th'[t].pc \in Rebuilding,
           th[t].pc \notin {"note", "publish"}
    PROVE  IInv'
<1>1. Waiting' \subseteq Waiting
  BY DEF Waiting, Moves
<1>2. Used' = Used
  BY DEF Used, shared
<1>3. RingsLeft'
  BY <1>1, <1>2, RingsKept
<1>4. /\ DOMAIN svc' = SvcFields /\ svc' = svc
      /\ svc'.highWater \in Nat /\ svc'.highWater <= Counter(db)
      /\ UNCHANGED <<db, rings, index>>
      /\ minted \subseteq minted' /\ minted' \subseteq RecordIDs
  BY DEF shared, IInv, ServiceOK, HighWaterNotAhead, FileOK
<1> QED
  BY <1>3, <1>4, QuietStep

\* A request that is refused or answered without a further step.
LEMMA EndStep ==
    ASSUME IInv, NEW t \in Threads, Finish(t), UNCHANGED <<shared, mu, conn, minted, served>>,
           ~overlap' => ~overlap, alarms' \subseteq {"reveal", "index", "catalog"},
           th[t].pc \notin Rebuilding \cup MuPcs \cup {"note", "publish", "stamp"}
    PROVE  IInv'
<1>1. Moves(t) /\ DOMAIN th'[t] = {"pc"} /\ th'[t].pc = "idle" /\ LocalOK(th'[t])
  BY FinishMoves
<1>2. LocksOK'
  BY <1>1, LocksKept DEF MuPcs
<1>3. ~Creating(th'[t])
  BY <1>1 DEF Creating
<1>4. th'[t].pc \notin HandedPcs
  BY <1>1 DEF HandedPcs
<1> QED
  BY <1>1, <1>2, <1>3, <1>4, LocalStep

\* Keys(): handed out, or refused.
LEMMA KeysStep ==
    ASSUME IInv, NEW t \in Threads, Keys(t), ~overlap' => ~overlap
    PROVE  IInv'
<1>1. th[t].pc = "keys" /\ UNCHANGED <<shared, mu, conn, minted, served, alarms>>
  BY DEF Keys, At
<1>2. /\ alarms' \subseteq {"reveal", "index", "catalog"} /\ LocalOK(th[t])
      /\ DOMAIN th = Threads
  BY <1>1 DEF IInv
<1>3. CASE HasKeys
  <2> DEFINE label == CASE th[t].op = "create" -> "encrypt"
                         [] th[t].op = "update" -> "lookup"
                         [] th[t].op = "delete" -> "begin"
                         [] th[t].op = "reveal" -> "open"
             m == [th[t] EXCEPT !.ring = svc.ring, !.pc = label]
  <2>1. th' = [th EXCEPT ![t] = m]
    BY <1>2, <1>3 DEF Keys
  <2>2. DOMAIN th[t] = ReadFields \/ DOMAIN th[t] = WriteFields
    BY <1>1, <1>2 DEF LocalOK, LoadPcs
  <2>3. /\ DOMAIN m = DOMAIN th[t] /\ m.pc = label
        /\ \A f \in DOMAIN th[t] \ {"pc", "ring"} : m[f] = th[t][f]
    BY <2>2 DEF ReadFields, WriteFields
  <2>4. \/ th[t].op = "create" /\ label = "encrypt" /\ DOMAIN th[t] = WriteFields
        \/ th[t].op = "update" /\ label = "lookup" /\ DOMAIN th[t] = WriteFields
        \/ th[t].op = "delete" /\ label = "begin" /\ DOMAIN th[t] = ReadFields
        \/ th[t].op = "reveal" /\ label = "open" /\ DOMAIN th[t] = ReadFields
    BY <1>1, <1>2 DEF LocalOK, LoadPcs
  <2> HIDE DEF label, m
  <2>5. LocalOK(m)
    BY <1>1, <1>2, <2>3, <2>4 DEF LocalOK, ReadFields, WriteFields, LoadPcs, LoadFields
  <2>6. Moves(t) /\ th'[t] = m
    BY <1>2, <2>1 DEF Moves
  <2>7. th'[t].pc \in {"encrypt", "lookup", "begin", "open"}
    BY <2>3, <2>4, <2>6
  <2>8. LocksOK'
    BY <1>1, <2>6, <2>7, LocksKept DEF MuPcs
  <2>9. Creating(th'[t]) => Creating(th[t]) /\ th'[t].id = th[t].id
    BY <1>1, <2>3, <2>6 DEF Creating, WriteFields
  <2> QED
    BY <1>1, <1>2, <1>3, <2>5, <2>6, <2>7, <2>8, <2>9, LocalStep DEF Rebuilding
<1>4. CASE ~HasKeys
  BY <1>1, <1>2, <1>4, EndStep DEF Keys, Rebuilding, MuPcs
<1> QED
  BY <1>3, <1>4

\* A step of one goroutine to another program counter, its locals kept.
LEMMA GotoStep ==
    ASSUME IInv, NEW t \in Threads, NEW label, Goto(t, label), LocalOK(th'[t]),
           UNCHANGED <<shared, minted, served>>, ~overlap' => ~overlap,
           alarms' \subseteq {"reveal", "index", "catalog"}, LocksOK',
           label \in {"unlock", "unlockQuery"} => th[t].pc \in {"unlock", "unlockQuery"},
           label \notin {"note", "publish", "fill", "clear"},
           label = "stamp" => Affects(th'[t]),
           Creating(th'[t]) => th[t].pc \in {"keys", "lookup", "encrypt", "keyVersion", "begin"},
           label \in HandedPcs => HasKeys \/ th[t].pc \in HandedPcs,
           th[t].pc \in Rebuilding => label \in Rebuilding,
           th[t].pc \notin {"note", "publish"}
    PROVE  IInv'
<1>1. Moves(t) /\ Kept(th[t], th'[t]) /\ th'[t].pc = label
  BY GotoMoves
<1>2. Creating(th'[t]) => Creating(th[t]) /\ th'[t].id = th[t].id
  BY <1>1 DEF Creating, Kept, WriteFields
<1> QED
  BY <1>1, <1>2, LocalStep

\* Update's lookup in the index.
LEMMA LookUpStep ==
    ASSUME IInv, NEW t \in Threads, LookUp(t), ~overlap' => ~overlap
    PROVE  IInv'
<1>1. th[t].pc = "lookup" /\ UNCHANGED <<shared, mu, conn, minted, served, alarms>>
  BY DEF LookUp, At
<1>2. alarms' \subseteq {"reveal", "index", "catalog"} /\ LocalOK(th[t])
  BY <1>1 DEF IInv
<1>3. CASE Goto(t, "encrypt")
  <2>1. Moves(t) /\ Kept(th[t], th'[t]) /\ th'[t].pc = "encrypt"
    BY <1>3, GotoMoves
  <2>2. DOMAIN th[t] = WriteFields
    BY <1>1, <1>2 DEF LocalOK, LoadPcs
  <2>3. LocalOK(th'[t])
    BY <1>1, <1>2, <2>1, <2>2 DEF LocalOK, Kept, ReadFields, WriteFields, LoadFields, LoadPcs
  <2>4. LocksOK'
    BY <1>1, <2>1, LocksKept DEF MuPcs
  <2> QED
    BY <1>1, <1>2, <1>3, <2>3, <2>4, GotoStep DEF Rebuilding, HandedPcs
<1>4. CASE Finish(t)
  BY <1>1, <1>2, <1>4, EndStep DEF Rebuilding, MuPcs
<1> QED
  BY <1>3, <1>4 DEF LookUp

\* encryptRecord seals the payload of the request.
LEMMA EncryptStep ==
    ASSUME IInv, NEW t \in Threads, Encrypt(t), ~overlap' => ~overlap
    PROVE  IInv'
<1> DEFINE l == th[t]
           c == Seal(KeyOf(t), l.payload, RecordAAD(svc.id, l.id, l.base + 1, svc.env))
           label == IF l.op = "create" THEN "keyVersion" ELSE "begin"
           m == [l EXCEPT !.sealed = c, !.pc = label]
<1>1. l.pc = "encrypt" /\ UNCHANGED <<shared, mu, conn, minted, served, alarms>>
  BY DEF Encrypt, At
<1>2. /\ alarms' \subseteq {"reveal", "index", "catalog"} /\ LocalOK(l)
      /\ DOMAIN th = Threads
  BY <1>1 DEF IInv
<1>3. DOMAIN l = WriteFields
  BY <1>1, <1>2 DEF LocalOK, LoadPcs
<1>4. th' = [th EXCEPT ![t] = m]
  BY <1>2 DEF Encrypt
<1>5. /\ DOMAIN m = WriteFields /\ m.pc = label /\ m.sealed.payload = l.payload
      /\ \A f \in WriteFields \ {"pc", "sealed"} : m[f] = l[f]
  BY <1>3 DEF WriteFields, Seal
<1>6. label \in {"keyVersion", "begin"}
  OBVIOUS
<1> HIDE DEF m, label, c
<1>7. LocalOK(m)
  <2>1. /\ m.op = l.op /\ m.id = l.id /\ m.base = l.base /\ m.payload = l.payload
        /\ m.stamped = l.stamped
    BY <1>5 DEF WriteFields
  <2> QED
    BY <1>1, <1>2, <1>3, <1>5, <1>6, <2>1 DEF LocalOK, LoadPcs, WriteFields, ReadFields, LoadFields
<1>8. Moves(t) /\ th'[t] = m
  BY <1>2, <1>4 DEF Moves
<1>9. LocksOK'
  BY <1>1, <1>5, <1>6, <1>8, LocksKept DEF MuPcs
<1>10. Creating(th'[t]) => Creating(th[t]) /\ th'[t].id = th[t].id
  BY <1>1, <1>3, <1>5, <1>8 DEF Creating, WriteFields
<1> QED
  BY <1>1, <1>2, <1>5, <1>6, <1>7, <1>8, <1>9, <1>10, LocalStep DEF Rebuilding, HandedPcs

\* Create reads the key version.
LEMMA KeyVersionStep ==
    ASSUME IInv, NEW t \in Threads, KeyVersion(t), ~overlap' => ~overlap
    PROVE  IInv'
<1> DEFINE l == th[t]
           m == [l EXCEPT !.keyVersion = svc.env, !.pc = "begin"]
<1>1. l.pc = "keyVersion" /\ UNCHANGED <<shared, mu, conn, minted, served, alarms>>
  BY DEF KeyVersion, At
<1>2. /\ alarms' \subseteq {"reveal", "index", "catalog"} /\ LocalOK(l)
      /\ DOMAIN th = Threads
  BY <1>1 DEF IInv
<1>3. DOMAIN l = WriteFields
  BY <1>1, <1>2 DEF LocalOK, LoadPcs
<1>4. th' = [th EXCEPT ![t] = m]
  BY <1>2 DEF KeyVersion
<1>5. /\ DOMAIN m = WriteFields /\ m.pc = "begin"
      /\ \A f \in WriteFields \ {"pc", "keyVersion"} : m[f] = l[f]
  BY <1>3 DEF WriteFields
<1> HIDE DEF m
<1>6. /\ m.op = l.op /\ m.id = l.id /\ m.base = l.base /\ m.payload = l.payload
      /\ m.stamped = l.stamped /\ m.sealed = l.sealed
  BY <1>5 DEF WriteFields
<1>7. LocalOK(m)
  BY <1>1, <1>2, <1>3, <1>5, <1>6 DEF LocalOK, LoadPcs, WriteFields, ReadFields, LoadFields
<1>8. Moves(t) /\ th'[t] = m
  BY <1>2, <1>4 DEF Moves
<1>9. LocksOK'
  BY <1>1, <1>5, <1>8, LocksKept DEF MuPcs
<1>10. Creating(th'[t]) => Creating(th[t]) /\ th'[t].id = th[t].id
  BY <1>1, <1>3, <1>5, <1>6, <1>8 DEF Creating
<1> QED
  BY <1>1, <1>2, <1>5, <1>7, <1>8, <1>9, <1>10, LocalStep DEF Rebuilding, HandedPcs

\* BeginTx: the row is held from here to the commit.
LEMMA BeginStep ==
    ASSUME IInv, NEW t \in Threads, Begin(t), ~overlap' => ~overlap
    PROVE  IInv'
<1>1. th[t].pc = "begin" /\ conn = Free /\ UNCHANGED <<shared, mu, minted, served, alarms>>
  BY DEF Begin, At
<1>2. alarms' \subseteq {"reveal", "index", "catalog"} /\ LocalOK(th[t])
  BY <1>1 DEF IInv
<1>3. CASE Affects(th[t]) /\ conn' = t /\ Goto(t, "stamp")
  <2>1. Moves(t) /\ Kept(th[t], th'[t]) /\ th'[t].pc = "stamp"
    BY <1>3, GotoMoves
  <2>2. \/ DOMAIN th[t] = ReadFields /\ th[t].op = "delete"
        \/ DOMAIN th[t] = WriteFields /\ th[t].op \in {"create", "update"}
    BY <1>1, <1>2 DEF LocalOK, LoadPcs
  <2>3. th'[t].op = th[t].op /\ th'[t].id = th[t].id /\ th'[t].stamped = th[t].stamped
    BY <2>1, <2>2 DEF Kept, ReadFields, WriteFields
  <2>4. th[t].op # "delete" => /\ th'[t].base = th[t].base /\ th'[t].payload = th[t].payload
                               /\ th'[t].sealed = th[t].sealed
    BY <2>1, <2>2 DEF Kept, WriteFields
  <2>5. LocalOK(th'[t])
    BY <1>1, <1>2, <2>1, <2>2, <2>3, <2>4
       DEF LocalOK, Kept, ReadFields, WriteFields, LoadFields, LoadPcs
  <2>6. Affects(th'[t])
    BY <1>3, <2>2, <2>3, <2>4 DEF Affects
  <2>7. LocksOK'
    BY <1>1, <1>3, <2>1, DaemonAssumption DEF IInv, LocksOK, Moves, MuPcs, Free
  <2> QED
    BY <1>1, <1>2, <1>3, <2>5, <2>6, <2>7, GotoStep DEF Rebuilding, HandedPcs
<1>4. CASE conn' = conn /\ Finish(t)
  BY <1>1, <1>2, <1>4, EndStep DEF Rebuilding, MuPcs
<1> QED
  BY <1>3, <1>4 DEF Begin

\* Reveal changes nothing.
LEMMA RevealStep ==
    ASSUME IInv, NEW t \in Threads, Reveal(t), ~overlap' => ~overlap
    PROVE  IInv'
<1>1. th[t].pc = "open" /\ Finish(t) /\ UNCHANGED <<shared, mu, conn, minted, served>>
  BY DEF Reveal, At
<1>2. alarms' \subseteq {"reveal", "index", "catalog"}
  BY DEF Reveal, IInv
<1> QED
  BY <1>1, <1>2, EndStep DEF Rebuilding, MuPcs

\* Whoever takes mu holds it alone.
LEMMA TakeMuStep ==
    ASSUME IInv, NEW t \in Threads, TakeMu(t), ~overlap' => ~overlap
    PROVE  IInv'
<1>1. /\ th[t].pc \in {"status", "unlock", "change", "verify"} /\ mu = Free /\ mu' = t
      /\ UNCHANGED <<shared, conn, minted, served, alarms>>
  BY DEF TakeMu
<1>2. alarms' \subseteq {"reveal", "index", "catalog"} /\ LocalOK(th[t])
  BY <1>1 DEF IInv
<1>3. PICK label \in MuPcs :
          /\ Goto(t, label)
          /\ \/ th[t].pc = "status" /\ label = "statusQuery"
             \/ th[t].pc = "unlock" /\ label = "unlockQuery"
             \/ th[t].pc = "change" /\ label = "changeQuery"
             \/ th[t].pc = "verify" /\ label = "verifyQuery"
  BY <1>1 DEF TakeMu, At, MuPcs
<1>4. Moves(t) /\ Kept(th[t], th'[t]) /\ th'[t].pc = label
  BY <1>3, GotoMoves
<1>5. LocalOK(th'[t])
  <2>1. CASE DOMAIN th[t] = {"pc", "op"}
    BY <1>2, <1>3, <1>4, <2>1 DEF LocalOK, Kept, ReadFields, WriteFields, LoadFields, LoadPcs
  <2>2. CASE DOMAIN th[t] = LoadFields
    <3>1. th'[t].rows = th[t].rows
      BY <1>4, <2>2 DEF Kept, LoadFields
    <3> QED
      BY <1>2, <1>3, <1>4, <2>2, <3>1 DEF LocalOK, Kept, ReadFields, WriteFields, LoadFields, LoadPcs
  <2> QED
    BY <1>1, <1>2, <2>1, <2>2 DEF LocalOK
<1>6. LocksOK'
  BY <1>1, <1>4, DaemonAssumption DEF IInv, LocksOK, Moves, MuPcs, Free
<1> QED
  BY <1>1, <1>2, <1>3, <1>4, <1>5, <1>6, GotoStep DEF Rebuilding, HandedPcs, MuPcs, Creating

\* The holder of mu gives it back.
LEMMA MuReleased ==
    ASSUME IInv, NEW t \in Threads, Moves(t), th[t].pc \in MuPcs, mu' = Free, conn' = conn,
           th'[t].pc \notin MuPcs \cup {"stamp"}
    PROVE  LocksOK'
BY DaemonAssumption DEF IInv, LocksOK, Moves, MuPcs, Free

\* Status changes nothing.
LEMMA StatusQueryStep ==
    ASSUME IInv, NEW t \in Threads, StatusQuery(t), ~overlap' => ~overlap
    PROVE  IInv'
<1>1. /\ th[t].pc = "statusQuery" /\ mu' = Free /\ Finish(t)
      /\ UNCHANGED <<shared, conn, minted, served, alarms>>
  BY DEF StatusQuery, At
<1>2. Moves(t) /\ DOMAIN th'[t] = {"pc"} /\ th'[t].pc = "idle" /\ LocalOK(th'[t])
  BY <1>1, FinishMoves
<1>3. LocksOK'
  BY <1>1, <1>2, MuReleased DEF MuPcs
<1>4. ~Creating(th'[t]) /\ th'[t].pc \notin HandedPcs
  BY <1>2 DEF Creating, HandedPcs
<1>5. alarms' \subseteq {"reveal", "index", "catalog"}
  BY <1>1 DEF IInv
<1> QED
  BY <1>1, <1>2, <1>3, <1>4, <1>5, LocalStep DEF Rebuilding

\* LoadIndex is handed the keyring, or ends in a lock.
LEMMA LoadKeysStep ==
    ASSUME IInv, NEW t \in Threads, LoadKeys(t), ~overlap' => ~overlap
    PROVE  IInv'
<1> DEFINE l == th[t]
<1>1. l.pc = "loadKeys" /\ UNCHANGED <<shared, mu, conn, minted, served, alarms>>
  BY DEF LoadKeys, At
<1>2. /\ alarms' \subseteq {"reveal", "index", "catalog"} /\ LocalOK(l)
      /\ DOMAIN th = Threads
  BY <1>1 DEF IInv
<1>3. DOMAIN l = LoadFields /\ DOMAIN l.rows \subseteq RecordIDs
  BY <1>1, <1>2 DEF LocalOK, LoadPcs
<1>4. PICK m : /\ th' = [th EXCEPT ![t] = m]
               /\ DOMAIN m = LoadFields /\ m.rows = l.rows /\ m.pc \in {"list", "lock"}
               /\ m.pc = "list" => HasKeys
  <2>1. CASE HasKeys
    <3> DEFINE m == [l EXCEPT !.ring = svc.ring, !.pc = "list"]
    <3>1. th' = [th EXCEPT ![t] = m]
      BY <1>2, <2>1 DEF LoadKeys
    <3>2. DOMAIN m = LoadFields /\ m.rows = l.rows /\ m.pc = "list"
      BY <1>3 DEF LoadFields
    <3> HIDE DEF m
    <3> QED
      BY <2>1, <3>1, <3>2
  <2>2. CASE ~HasKeys
    <3> DEFINE m == [l EXCEPT !.pc = "lock"]
    <3>1. th' = [th EXCEPT ![t] = m]
      BY <1>2, <2>2 DEF LoadKeys
    <3>2. DOMAIN m = LoadFields /\ m.rows = l.rows /\ m.pc = "lock"
      BY <1>3 DEF LoadFields
    <3> HIDE DEF m
    <3> QED
      BY <3>1, <3>2
  <2> QED
    BY <2>1, <2>2
<1>5. Moves(t) /\ th'[t] = m
  BY <1>2, <1>4 DEF Moves
<1>6. LocalOK(m)
  BY <1>3, <1>4 DEF LocalOK, LoadPcs
<1>7. LocksOK'
  BY <1>1, <1>4, <1>5, LocksKept DEF MuPcs
<1>8. ~Creating(th'[t])
  BY <1>4, <1>5 DEF Creating
<1> QED
  BY <1>1, <1>2, <1>4, <1>5, <1>6, <1>7, <1>8, LocalStep DEF Rebuilding, HandedPcs

\* LoadIndex lists the rows of the table.
LEMMA ListRecordsStep ==
    ASSUME IInv, NEW t \in Threads, ListRecords(t), ~overlap' => ~overlap
    PROVE  IInv'
<1> DEFINE l == th[t]
           m == [l EXCEPT !.rows = db.records, !.pc = "clear"]
<1>1. l.pc = "list" /\ UNCHANGED <<shared, mu, conn, minted, served, alarms>>
  BY DEF ListRecords, At
<1>2. /\ alarms' \subseteq {"reveal", "index", "catalog"} /\ LocalOK(l)
      /\ DOMAIN th = Threads /\ DOMAIN db.records \subseteq RecordIDs
  BY <1>1 DEF IInv, FileOK
<1>3. DOMAIN l = LoadFields
  BY <1>1, <1>2 DEF LocalOK, LoadPcs
<1>4. th' = [th EXCEPT ![t] = m]
  BY <1>2 DEF ListRecords
<1>5. DOMAIN m = LoadFields /\ m.rows = db.records /\ m.pc = "clear"
  BY <1>3 DEF LoadFields
<1> HIDE DEF m
<1>6. Moves(t) /\ th'[t] = m
  BY <1>2, <1>4 DEF Moves
<1>7. LocalOK(m)
  BY <1>2, <1>5 DEF LocalOK, LoadPcs
<1>8. LocksOK'
  BY <1>1, <1>5, <1>6, LocksKept DEF MuPcs
<1>9. ~Creating(th'[t])
  BY <1>5, <1>6 DEF Creating
<1> QED
  BY <1>1, <1>2, <1>5, <1>6, <1>7, <1>8, <1>9, LocalStep DEF Rebuilding, HandedPcs

\* A committed counter is noted, and never moves the mark back.
LEMMA NoteStep ==
    ASSUME IInv, NEW t \in Threads, Note(t), ~overlap' => ~overlap
    PROVE  IInv'
<1>1. /\ th[t].pc = "note" /\ Goto(t, "publish")
      /\ svc' = [svc EXCEPT !.highWater = IF th[t].stamped > @ THEN th[t].stamped ELSE @]
      /\ UNCHANGED <<db, rings, index, mu, conn, minted, served, alarms>>
  BY DEF Note, At
<1>2. /\ LocalOK(th[t]) /\ DOMAIN svc = SvcFields /\ svc.highWater \in Nat
      /\ svc.highWater <= Counter(db) /\ th[t].stamped <= Counter(db)
      /\ alarms' \subseteq {"reveal", "index", "catalog"} /\ minted' \subseteq RecordIDs
  BY <1>1 DEF IInv, ServiceOK, HighWaterNotAhead, NotesOK, FileOK
<1>3. Moves(t) /\ Kept(th[t], th'[t]) /\ th'[t].pc = "publish"
  BY <1>1, GotoMoves
<1>4. \/ DOMAIN th[t] = ReadFields /\ th[t].op = "delete"
      \/ DOMAIN th[t] = WriteFields /\ th[t].op \in {"create", "update"}
  BY <1>1, <1>2 DEF LocalOK, LoadPcs
<1>5. th'[t].op = th[t].op /\ th'[t].id = th[t].id /\ th'[t].stamped = th[t].stamped
  BY <1>3, <1>4 DEF Kept, ReadFields, WriteFields
<1>6. th[t].op # "delete" => th'[t].base = th[t].base
  BY <1>3, <1>4 DEF Kept, WriteFields
<1>7. LocalOK(th'[t])
  BY <1>1, <1>2, <1>3, <1>4, <1>5, <1>6
     DEF LocalOK, Kept, ReadFields, WriteFields, LoadFields, LoadPcs
<1>8. th[t].stamped \in Nat
  BY <1>1, <1>2 DEF LocalOK, LoadPcs
<1>9. /\ DOMAIN svc' = SvcFields /\ svc'.id = svc.id /\ svc'.env = svc.env
      /\ svc'.state = svc.state /\ svc'.ring = svc.ring
      /\ svc'.highWater \in Nat /\ svc'.highWater <= Counter(db)
  BY <1>1, <1>2, <1>8 DEF SvcFields
<1>10. LocksOK'
  BY <1>1, <1>3, LocksKept DEF MuPcs
<1>11. RingsLeft'
  <2>1. Waiting' \subseteq Waiting
    BY <1>3 DEF Waiting, Moves
  <2>2. Used' = Used
    BY <1>1 DEF Used
  <2> QED
    BY <1>1, <2>1, <2>2, RingsKept
<1>12. ~Creating(th'[t])
  BY <1>3 DEF Creating
<1> QED
  BY <1>1, <1>2, <1>3, <1>7, <1>9, <1>10, <1>11, <1>12, QuietStep DEF Rebuilding, HandedPcs

\* VerifyCatalog moves the mark to the counter in the file, or ends in a lock.
LEMMA VerifyQueryStep ==
    ASSUME IInv, NEW t \in Threads, VerifyQuery(t), ~overlap' => ~overlap
    PROVE  IInv'
<1>1. /\ th[t].pc = "verifyQuery" /\ mu' = Free
      /\ UNCHANGED <<db, rings, index, conn, minted, served>>
      /\ svc' = svc \/ svc' = [svc EXCEPT !.highWater = Counter(db)]
      /\ Goto(t, "lock") \/ Finish(t)
  BY DEF VerifyQuery, At
<1>2. alarms' \subseteq {"reveal", "index", "catalog"}
  BY DEF VerifyQuery, IInv
<1>3. /\ LocalOK(th[t]) /\ DOMAIN svc = SvcFields /\ svc.highWater \in Nat
      /\ svc.highWater <= Counter(db) /\ Counter(db) \in Nat /\ minted' \subseteq RecordIDs
  BY <1>1 DEF IInv, ServiceOK, HighWaterNotAhead, FileOK
<1>4. DOMAIN th[t] = LoadFields /\ DOMAIN th[t].rows \subseteq RecordIDs
  BY <1>1, <1>3 DEF LocalOK, LoadPcs
<1>5. Moves(t) /\ LocalOK(th'[t]) /\ th'[t].pc \in {"lock", "idle"}
  <2>1. CASE Goto(t, "lock")
    <3>1. Moves(t) /\ Kept(th[t], th'[t]) /\ th'[t].pc = "lock"
      BY <2>1, GotoMoves
    <3>2. th'[t].rows = th[t].rows
      BY <1>4, <3>1 DEF Kept, LoadFields
    <3> QED
      BY <1>4, <3>1, <3>2 DEF LocalOK, Kept, LoadPcs
  <2>2. CASE Finish(t)
    BY <2>2, FinishMoves
  <2> QED
    BY <1>1, <2>1, <2>2
<1>6. /\ DOMAIN svc' = SvcFields /\ svc'.id = svc.id /\ svc'.env = svc.env
      /\ svc'.state = svc.state /\ svc'.ring = svc.ring
      /\ svc'.highWater \in Nat /\ svc'.highWater <= Counter(db)
  BY <1>1, <1>3 DEF SvcFields
<1>7. LocksOK'
  BY <1>1, <1>5, MuReleased DEF MuPcs
<1>8. RingsLeft'
  <2>1. Waiting' \subseteq Waiting
    BY <1>5 DEF Waiting, Moves
  <2>2. Used' = Used
    BY <1>1 DEF Used
  <2> QED
    BY <1>1, <2>1, <2>2, RingsKept
<1>9. ~Creating(th'[t])
  BY <1>5 DEF Creating
<1> QED
  BY <1>1, <1>2, <1>3, <1>5, <1>6, <1>7, <1>8, <1>9, QuietStep DEF Rebuilding, HandedPcs

\* A request that waits for a keyring is one of those the bound counts.
LEMMA RingsAccepted ==
    ASSUME IInv, NEW t \in Threads, Moves(t), Used' = Used,
           served < MaxRequests, served' = served + 1
    PROVE  RingsLeft'
<1>1. /\ IsFiniteSet(Waiting) /\ served \in 0..MaxRequests
      /\ Cardinality(Used) + Cardinality(Waiting) <= served + 1
  BY DEF IInv, RingsLeft
<1>2. Waiting' \subseteq Waiting \cup {t}
  BY DEF Waiting, Moves
<1>3. /\ IsFiniteSet(Waiting \cup {t})
      /\ \/ Cardinality(Waiting \cup {t}) = Cardinality(Waiting)
         \/ Cardinality(Waiting \cup {t}) = Cardinality(Waiting) + 1
  BY <1>1, FS_AddElement
<1>4. IsFiniteSet(Waiting') /\ Cardinality(Waiting') <= Cardinality(Waiting \cup {t})
  BY <1>2, <1>3, FS_Subset
<1>5. /\ Cardinality(Used) \in Nat /\ Cardinality(Waiting) \in Nat
      /\ Cardinality(Waiting') \in Nat
  BY <1>1, <1>4, RingsFinite, FS_CardinalityType
<1>6. Cardinality(Used') + Cardinality(Waiting') <= served' + 1
  BY <1>1, <1>3, <1>4, <1>5, DaemonAssumption
<1>7. served' \in 0..MaxRequests
  BY <1>1, DaemonAssumption
<1> QED
  BY <1>4, <1>6, <1>7 DEF RingsLeft

\* A request arrives; a creation brings a new identifier.
LEMMA AcceptStep ==
    ASSUME IInv, NEW t \in Threads, NEW local, NEW ids, Accept(t, local, ids),
           LocalOK(local), local.pc \in {"keys", "status", "lock", "change", "unlock"},
           ids \subseteq RecordIDs,
           Creating(local) => local.id \in ids \ minted
    PROVE  IInv'
<1>1. /\ th[t].pc = "idle" /\ served < MaxRequests /\ served' = served + 1
      /\ minted' = minted \cup ids /\ th' = [th EXCEPT ![t] = local]
      /\ UNCHANGED <<shared, mu, conn, alarms, overlap>>
  BY DEF Accept, At
<1>2. Moves(t) /\ th'[t] = local
  BY <1>1 DEF IInv, Moves
<1>3. /\ DOMAIN svc' = SvcFields /\ svc' = svc
      /\ svc'.highWater \in Nat /\ svc'.highWater <= Counter(db)
      /\ UNCHANGED <<db, rings, index>>
      /\ minted \subseteq minted' /\ minted' \subseteq RecordIDs
      /\ alarms' \subseteq {"reveal", "index", "catalog"}
  BY <1>1 DEF shared, IInv, ServiceOK, HighWaterNotAhead, FileOK
<1>4. LocksOK'
  BY <1>1, <1>2, LocksKept DEF MuPcs
<1>5. RingsLeft'
  BY <1>1, <1>2, <1>3, RingsAccepted DEF Used
<1>6. Creating(th'[t]) => th'[t].id \in minted' \ minted
  BY <1>1, <1>2
<1> QED
  BY <1>1, <1>2, <1>3, <1>4, <1>5, <1>6, QuietStep DEF Rebuilding, HandedPcs

\* Create and Update requests.
LEMMA AcceptWriteStep ==
    ASSUME IInv, NEW t \in Threads, AcceptWrite(t)
    PROVE  IInv'
<1>1. PICK x \in Payloads :
        \/ \E id \in RecordIDs \ minted : Accept(t, Write("create", id, 0, x), {id})
        \/ \E id \in DOMAIN db.records :
             Accept(t, Write("update", id, db.records[id].revision, x), {})
  BY DEF AcceptWrite
<1>2. ASSUME NEW op \in {"create", "update"}, NEW id \in RecordIDs, NEW n,
             op = "create" => n = 0
      PROVE  /\ LocalOK(Write(op, id, n, x)) /\ Write(op, id, n, x).pc = "keys"
             /\ Write(op, id, n, x).id = id /\ Write(op, id, n, x).op = op
  <2> DEFINE l == Write(op, id, n, x)
  <2>1. /\ DOMAIN l = WriteFields /\ l.pc = "keys" /\ l.op = op /\ l.id = id /\ l.base = n
        /\ l.stamped = 0
    BY DEF Write, WriteFields
  <2> HIDE DEF l
  <2>2. LocalOK(l)
    BY <1>2, <2>1 DEF LocalOK
  <2> QED
    BY <2>1, <2>2 DEF l
<1>3. ASSUME NEW id \in RecordIDs \ minted, Accept(t, Write("create", id, 0, x), {id})
      PROVE  IInv'
  <2> DEFINE l == Write("create", id, 0, x)
  <2>1. LocalOK(l) /\ l.pc = "keys" /\ l.id = id
    BY <1>2
  <2>2. Accept(t, l, {id})
    BY <1>3
  <2> HIDE DEF l
  <2> QED
    BY <2>1, <2>2, AcceptStep
<1>4. ASSUME NEW id \in DOMAIN db.records,
             Accept(t, Write("update", id, db.records[id].revision, x), {})
      PROVE  IInv'
  <2> DEFINE l == Write("update", id, db.records[id].revision, x)
  <2>1. id \in RecordIDs
    BY DEF IInv, FileOK
  <2>2. LocalOK(l) /\ l.pc = "keys" /\ l.op = "update"
    BY <1>2, <2>1
  <2>3. Accept(t, l, {})
    BY <1>4
  <2> HIDE DEF l
  <2>4. ~Creating(l)
    BY <2>2 DEF Creating
  <2> QED
    BY <2>2, <2>3, <2>4, AcceptStep
<1> QED
  BY <1>1, <1>3, <1>4

\* The other requests.
LEMMA AcceptOtherStep ==
    ASSUME IInv, NEW t \in Threads, AcceptOther(t)
    PROVE  IInv'
<1>1. ASSUME NEW op \in {"delete", "reveal"}, NEW id \in minted,
             Accept(t, [pc |-> "keys", op |-> op, id |-> id, ring |-> 0, stamped |-> 0], {})
      PROVE  IInv'
  <2> DEFINE l == [pc |-> "keys", op |-> op, id |-> id, ring |-> 0, stamped |-> 0]
  <2>1. DOMAIN l = ReadFields /\ l.pc = "keys" /\ l.op = op /\ l.id = id /\ l.stamped = 0
    BY DEF ReadFields
  <2>2. Accept(t, l, {})
    BY <1>1
  <2>3. id \in RecordIDs
    BY DEF IInv, FileOK
  <2> HIDE DEF l
  <2>4. LocalOK(l) /\ ~Creating(l)
    BY <2>1, <2>3 DEF LocalOK, Creating
  <2> QED
    BY <2>1, <2>2, <2>4, AcceptStep
<1>2. ASSUME NEW op \in {"status", "lock", "change"}, Accept(t, [pc |-> op, op |-> op], {})
      PROVE  IInv'
  <2> DEFINE l == [pc |-> op, op |-> op]
  <2>1. DOMAIN l = {"pc", "op"} /\ l.pc = op
    OBVIOUS
  <2>2. Accept(t, l, {})
    BY <1>2
  <2> HIDE DEF l
  <2>3. LocalOK(l) /\ ~Creating(l)
    BY <2>1 DEF LocalOK, Creating
  <2> QED
    BY <2>1, <2>2, <2>3, AcceptStep
<1>3. ASSUME Accept(t, [pc |-> "unlock", op |-> "unlock", ring |-> 0, rows |-> EmptyTable], {})
      PROVE  IInv'
  <2> DEFINE l == [pc |-> "unlock", op |-> "unlock", ring |-> 0, rows |-> EmptyTable]
  <2>1. DOMAIN l = LoadFields /\ l.pc = "unlock" /\ DOMAIN l.rows = {}
    BY DEF LoadFields, EmptyTable
  <2>2. Accept(t, l, {})
    BY <1>3
  <2> HIDE DEF l
  <2>3. LocalOK(l) /\ ~Creating(l)
    BY <2>1 DEF LocalOK, Creating, LoadPcs
  <2> QED
    BY <2>1, <2>2, <2>3, AcceptStep
<1> QED
  BY <1>1, <1>2, <1>3 DEF AcceptOther

-------------------------------------------------------------------------------
(* Steps that change the file, the service, the keyrings or the index.     *)

\* Stamping the tables of this vault anchors them, whatever the key.
LEMMA StampAnchors ==
    ASSUME NEW d, NEW key, NEW vault, NEW version, DOMAIN d = DBFields,
           d.vault = vault, d.active = version, version \in DOMAIN d.envelopes,
           Counter(d) \in Nat
    PROVE  LET e == Stamp(d, key, vault, version) IN
           /\ DOMAIN e = DBFields
           /\ e.vault = d.vault /\ e.active = d.active /\ e.envelopes = d.envelopes
           /\ e.records = d.records /\ Counter(e) = Counter(d) + 1
           /\ Verify(e, e.state.root.key, e.vault, e.active)
<1> DEFINE e == Stamp(d, key, vault, version)
<1>1. /\ DOMAIN e = DBFields
      /\ e.vault = d.vault /\ e.active = d.active /\ e.envelopes = d.envelopes
      /\ e.records = d.records /\ e.clients = d.clients
      /\ e.state = [counter |-> Counter(d) + 1,
                    root |-> Root(d, key, vault, version, Counter(d) + 1)]
  BY DEF DBFields, Stamp
<1> HIDE DEF e
<1>2. Counter(e) = Counter(d) + 1
  BY <1>1 DEF Counter
<1>3. e.state.root.key = key
  BY <1>1 DEF Root
<1>4. Verify(e, key, vault, version)
  BY <1>1, <1>2 DEF Verify, HasEnvelope, Root, Counter
<1> QED
  BY <1>1, <1>2, <1>3, <1>4 DEF e

\* What is about to be written survives a step that leaves the records alone.
LEMMA WritesKept ==
    ASSUME IInv, NEW t \in Threads, Moves(t), minted' = minted,
           db'.records = db.records, Counter(db') \in Nat, Counter(db) <= Counter(db'),
           th'[t].pc \notin {"note", "stamp"}, ~Creating(th'[t])
    PROVE  NotesOK' /\ RowsHeld' /\ CreatesFresh'
<1>1. NotesOK'
  <2> SUFFICES ASSUME NEW u \in Threads, th'[u].pc = "note"
               PROVE  th'[u].stamped <= Counter(db')
    BY DEF NotesOK
  <2>1. th'[u] = th[u] /\ th[u].pc = "note" /\ LocalOK(th[u])
    BY DEF Moves, IInv
  <2>2. th[u].stamped \in Nat /\ Counter(db) \in Nat /\ th[u].stamped <= Counter(db)
    BY <2>1 DEF LocalOK, LoadPcs, IInv, FileOK, NotesOK
  <2> QED
    BY <2>1, <2>2
<1>2. RowsHeld'
  <2> SUFFICES ASSUME NEW u \in Threads, th'[u].pc = "stamp" PROVE Affects(th[u])'
    BY DEF RowsHeld
  <2>1. th'[u] = th[u] /\ Affects(th[u])
    BY DEF Moves, IInv, RowsHeld
  <2> QED
    BY <2>1 DEF Affects, MatchesRevision
<1>3. CreatesFresh'
  BY DEF IInv, CreatesFresh, Moves
<1> QED
  BY <1>1, <1>2, <1>3

\* What the other goroutines are about to publish is undisturbed, or it is overlap.
LEMMA SettleStep ==
    ASSUME IInv, NEW t \in Threads, Moves(t), ServiceOK',
           ~overlap' => ~overlap /\ ~Overlaps(t),
           ~overlap' /\ th'[t].pc \in HandedPcs => HasKeys',
           ~overlap' /\ th'[t].pc \in Unpublished => Reflected(th[t])',
           ~overlap' => LoadsCurrent(th[t])',
           ~overlap' /\ (\A u \in Threads : th'[u].pc \notin Rebuilding) =>
               \A id \in RecordIDs :
                   Shown(id)' \/ \E u \in Threads : th'[u].pc \in Unpublished /\ th'[u].id = id
    PROVE  Settling'
<1> SUFFICES ASSUME ~overlap' PROVE Settling'
  BY DEF Settling
<1>1. /\ \A u \in Threads : HandedKeys(u) => HasKeys
      /\ \A u \in Threads : th[u].pc \in Unpublished => Reflected(th[u])
      /\ \A u \in Threads : LoadsCurrent(th[u])
  BY DEF IInv, Settling
<1>2. ASSUME NEW u \in Threads \ {t}
      PROVE  /\ th'[u] = th[u]
             /\ Publishing(u) => db' = db /\ index' = index
             /\ HandedKeys(u) /\ svc.ring # 0 => svc'.ring # 0
  BY DEF Moves, Overlaps
<1>3. ASSUME NEW u \in Threads, HandedKeys(u)' PROVE HasKeys'
  <2>1. CASE u = t
    BY <1>3, <2>1 DEF HandedKeys, Publishing, HandedPcs
  <2>2. CASE u # t
    <3>1. HandedKeys(u)
      BY <1>2, <1>3, <2>2 DEF HandedKeys, Publishing
    <3> QED
      BY <1>1, <1>2, <2>2, <3>1 DEF HasKeys, ServiceOK
  <2> QED
    BY <2>1, <2>2
<1>4. ASSUME NEW u \in Threads, th'[u].pc \in Unpublished PROVE Reflected(th[u])'
  <2>1. CASE u = t
    BY <1>4, <2>1
  <2>2. CASE u # t
    <3>1. th'[u] = th[u] /\ db' = db /\ Reflected(th[u])
      BY <1>1, <1>2, <1>4, <2>2 DEF Publishing, Unpublished
    <3> QED
      BY <3>1 DEF Reflected
  <2> QED
    BY <2>1, <2>2
<1>5. ASSUME NEW u \in Threads PROVE LoadsCurrent(th[u])'
  <2>1. CASE u = t
    BY <2>1
  <2>2. CASE u # t /\ th[u].pc \in {"clear", "fill"}
    <3>1. th'[u] = th[u] /\ db' = db /\ index' = index /\ LoadsCurrent(th[u])
      BY <1>1, <1>2, <2>2 DEF Publishing
    <3> QED
      BY <3>1 DEF LoadsCurrent
  <2>3. CASE u # t /\ th[u].pc \notin {"clear", "fill"}
    BY <1>2, <2>3 DEF LoadsCurrent
  <2> QED
    BY <2>1, <2>2, <2>3
<1> QED
  BY <1>3, <1>4, <1>5 DEF Settling

\* A lock leaves an empty index, and nobody to publish if nobody was handed keys.
LEMMA LockedSettles ==
    ASSUME IInv, NEW t \in Threads, Moves(t), ServiceOK', th'[t].pc = "idle",
           \/ ~overlap' => ~overlap /\ ~Overlaps(t)
           \/ \A u \in Threads \ {t} : ~HandedKeys(u),
           \A id \in RecordIDs : Shown(id)'
    PROVE  Settling'
<1>1. th'[t].pc \notin HandedPcs \cup Unpublished
  BY DEF HandedPcs, Unpublished
<1>2. LoadsCurrent(th[t])'
  BY DEF LoadsCurrent
<1>3. CASE ~overlap' => ~overlap /\ ~Overlaps(t)
  BY <1>1, <1>2, <1>3, SettleStep
<1>4. CASE \A u \in Threads \ {t} : ~HandedKeys(u)
  <2>1. ASSUME NEW u \in Threads
        PROVE  ~HandedKeys(u)' /\ th'[u].pc \notin Unpublished /\ LoadsCurrent(th[u])'
    BY <1>4, <2>1 DEF Moves, HandedKeys, Publishing, Unpublished, LoadsCurrent
  <2> QED
    BY <2>1 DEF Settling
<1> QED
  BY <1>3, <1>4

\* lockLocked wipes the keyring in place and empties the index.
LEMMA LockStep ==
    ASSUME IInv, NEW t \in Threads, Lock(t),
           \/ ~overlap' => ~overlap /\ ~Overlaps(t)
           \/ \A u \in Threads \ {t} : ~HandedKeys(u)
    PROVE  IInv'
<1>1. /\ th[t].pc = "lock" /\ Finish(t) /\ UNCHANGED <<db, mu, conn, minted, served, alarms>>
      /\ rings' = IF svc.ring = 0 THEN rings ELSE [rings EXCEPT ![svc.ring] = ZeroKey]
      /\ svc' = [svc EXCEPT !.ring = 0, !.state = "locked"] /\ index' = EmptyTable
  BY DEF Lock, LockEffect, At
<1>2. Moves(t) /\ DOMAIN th'[t] = {"pc"} /\ th'[t].pc = "idle" /\ LocalOK(th'[t])
  BY <1>1, FinishMoves
<1>3. LocksOK'
  BY <1>1, <1>2, LocksKept DEF MuPcs
<1>4. /\ DOMAIN svc' = SvcFields /\ svc'.id = svc.id /\ svc'.env = svc.env
      /\ svc'.highWater = svc.highWater /\ svc'.ring = 0 /\ svc'.state = "locked"
  BY <1>1 DEF IInv, ServiceOK, SvcFields
<1>5. /\ DOMAIN rings' = Rings
      /\ \A g \in Rings : \/ rings'[g] = rings[g]
                          \/ rings[g] # NoKey /\ rings'[g] = ZeroKey
  BY <1>1 DEF IInv, ServiceOK
<1>6. ServiceOK'
  BY <1>4, <1>5 DEF IInv, ServiceOK
<1>7. Used' = Used
  BY <1>5 DEF Used, NoKey, ZeroKey
<1>8. RingsLeft'
  <2>1. Waiting' \subseteq Waiting
    BY <1>2 DEF Waiting, Moves
  <2> QED
    BY <1>1, <1>7, <2>1, RingsKept
<1>9. ~Creating(th'[t]) /\ Counter(db) \in Nat /\ Counter(db) <= Counter(db')
  BY <1>1, <1>2 DEF Creating, IInv, FileOK
<1>10. NotesOK' /\ RowsHeld' /\ CreatesFresh'
  BY <1>1, <1>2, <1>9, WritesKept
<1>11. FileOK' /\ HighWaterNotAhead'
  BY <1>1, <1>4 DEF IInv, FileOK, HighWaterNotAhead
<1>12. AnchorCoversTables'
  BY <1>1 DEF IInv, AnchorCoversTables
<1>13. IndexOK' /\ DOMAIN index' = {}
  BY <1>1 DEF IndexOK, EmptyTable
<1>14. Settling'
  <2>1. \A id \in RecordIDs : Shown(id)'
    BY <1>4, <1>13 DEF Shown, HasKeys
  <2> QED
    BY <1>2, <1>6, <2>1, LockedSettles
<1>15. DOMAIN th' = Threads /\ \A u \in Threads : LocalOK(th'[u])
  BY <1>2 DEF IInv, Moves
<1> QED
  BY <1>1, <1>3, <1>6, <1>8, <1>10, <1>11, <1>12, <1>13, <1>14, <1>15 DEF IInv

\* Unlock allocates one of the keyrings that are left.
LEMMA UnlockQueryStep ==
    ASSUME IInv, NEW t \in Threads, UnlockQuery(t), ~overlap' => ~overlap /\ ~Overlaps(t)
    PROVE  IInv'
<1> DEFINE g == CHOOSE r \in Rings : rings[r] = NoKey
<1>1. /\ th[t].pc = "unlockQuery" /\ mu' = Free /\ Goto(t, "loadKeys")
      /\ rings' = [rings EXCEPT ![g] = db.envelopes[svc.env].rootKey]
      /\ svc' = [svc EXCEPT !.ring = g, !.state = "unlocked"]
      /\ UNCHANGED <<db, index, conn, minted, served, alarms>>
  BY DEF UnlockQuery, At
<1>2. /\ IsFiniteSet(Waiting) /\ served \in 0..MaxRequests
      /\ Cardinality(Used) + Cardinality(Waiting) <= served + 1
  BY DEF IInv, RingsLeft
<1>3. /\ t \in Waiting /\ IsFiniteSet(Waiting \ {t})
      /\ Cardinality(Waiting \ {t}) = Cardinality(Waiting) - 1
      /\ Cardinality(Waiting) \in Nat /\ Cardinality(Waiting \ {t}) \in Nat
  <2>1. t \in Waiting
    BY <1>1 DEF Waiting
  <2> QED
    BY <1>2, <2>1, FS_RemoveElement, FS_CardinalityType
<1>4. \E r \in Rings : rings[r] = NoKey
  <2> SUFFICES ASSUME \A r \in Rings : rings[r] # NoKey PROVE FALSE
    OBVIOUS
  <2>1. Used = Rings
    BY DEF Used
  <2> QED
    BY <1>2, <1>3, <2>1, RingsFinite, DaemonAssumption
<1>5. g \in Rings /\ rings[g] = NoKey
  BY <1>4
<1> HIDE DEF g
<1>6. g \in Nat /\ g # 0
  BY <1>5 DEF Rings
<1>7. Moves(t) /\ Kept(th[t], th'[t]) /\ th'[t].pc = "loadKeys"
  BY <1>1, GotoMoves
<1>8. DOMAIN th[t] = LoadFields /\ DOMAIN th[t].rows \subseteq RecordIDs
  BY <1>1 DEF IInv, LocalOK, LoadPcs
<1>9. LocalOK(th'[t])
  <2>1. th'[t].rows = th[t].rows
    BY <1>7, <1>8 DEF Kept, LoadFields
  <2> QED
    BY <1>7, <1>8, <2>1 DEF LocalOK, Kept, LoadPcs
<1>10. LocksOK'
  BY <1>1, <1>7, MuReleased DEF MuPcs
<1>11. db.envelopes[svc.env].rootKey = RootKey
  BY DEF IInv, FileOK
<1>12. /\ DOMAIN svc' = SvcFields /\ svc'.id = svc.id /\ svc'.env = svc.env
       /\ svc'.highWater = svc.highWater /\ svc'.ring = g /\ svc'.state = "unlocked"
  BY <1>1 DEF IInv, ServiceOK, SvcFields
<1>13. /\ DOMAIN rings' = Rings /\ rings'[g] = RootKey
       /\ \A r \in Rings \ {g} : rings'[r] = rings[r]
  BY <1>1, <1>5, <1>11 DEF IInv, ServiceOK
<1>14. ServiceOK'
  BY <1>5, <1>6, <1>12, <1>13 DEF IInv, ServiceOK, RootKey, NoKey
<1>15. RingsLeft'
  <2>1. Used' = Used \cup {g} /\ g \notin Used
    BY <1>5, <1>13 DEF Used, RootKey, NoKey
  <2>2. Cardinality(Used') = Cardinality(Used) + 1 /\ Cardinality(Used) \in Nat
    BY <2>1, RingsFinite, FS_AddElement
  <2>3. Waiting' = Waiting \ {t}
    BY <1>7 DEF Waiting, Moves
  <2>4. Cardinality(Used') + Cardinality(Waiting') <= served' + 1
    BY <1>1, <1>2, <1>3, <2>2, <2>3, DaemonAssumption
  <2> QED
    BY <1>1, <1>2, <1>3, <2>3, <2>4 DEF RingsLeft
<1>16. ~Creating(th'[t]) /\ Counter(db) \in Nat /\ Counter(db) <= Counter(db')
  BY <1>1, <1>7 DEF Creating, IInv, FileOK
<1>17. NotesOK' /\ RowsHeld' /\ CreatesFresh'
  BY <1>1, <1>7, <1>16, WritesKept
<1>18. FileOK' /\ HighWaterNotAhead' /\ IndexOK'
  BY <1>1, <1>12 DEF IInv, FileOK, HighWaterNotAhead, IndexOK
<1>19. AnchorCoversTables'
  BY <1>1 DEF IInv, AnchorCoversTables
<1>20. Settling'
  <2>1. th'[t].pc \notin HandedPcs \cup Unpublished /\ th'[t].pc \in Rebuilding
    BY <1>7 DEF HandedPcs, Unpublished, Rebuilding
  <2>2. LoadsCurrent(th[t])'
    BY <1>7 DEF LoadsCurrent
  <2> QED
    BY <1>7, <1>14, <2>1, <2>2, SettleStep
<1>21. DOMAIN th' = Threads /\ \A u \in Threads : LocalOK(th'[u])
  BY <1>7, <1>9 DEF IInv, Moves
<1> QED
  BY <1>1, <1>10, <1>14, <1>15, <1>17, <1>18, <1>19, <1>20, <1>21 DEF IInv

\* A password change moves the file and the cached version together, and locks.
LEMMA ChangeQueryStep ==
    ASSUME IInv, NEW t \in Threads, ChangeQuery(t),
           \/ ~overlap' => ~overlap /\ ~Overlaps(t)
           \/ \A u \in Threads \ {t} : ~HandedKeys(u)
    PROVE  IInv'
<1> DEFINE old == svc.env
           new == old + 1
           key == db.envelopes[old].rootKey
           env == buildEnvelope(svc.id, new, key, "password")
           d0 == DeleteKeyEnvelope(SetActiveEnvelope(InsertKeyEnvelope(db, new, env), new), old)
           d == Stamp(d0, key, svc.id, new)
<1>1. /\ th[t].pc = "changeQuery" /\ mu' = Free /\ Finish(t)
      /\ db' = d
      /\ rings' = IF svc.ring = 0 THEN rings ELSE [rings EXCEPT ![svc.ring] = ZeroKey]
      /\ svc' = [svc EXCEPT !.ring = 0, !.state = "locked", !.env = new,
                            !.highWater = IF Counter(d) > @ THEN Counter(d) ELSE @]
      /\ index' = EmptyTable /\ UNCHANGED <<conn, minted, served, alarms>>
  BY DEF ChangeQuery, At
<1>2. /\ DOMAIN db = DBFields /\ db.vault = 1 /\ svc.id = 1 /\ old \in Nat
      /\ DOMAIN db.envelopes = {old} /\ key = RootKey /\ Counter(db) \in Nat
      /\ DOMAIN svc = SvcFields /\ svc.highWater \in Nat /\ svc.highWater <= Counter(db)
  BY DEF IInv, FileOK, ServiceOK, HighWaterNotAhead
<1>3. env.rootKey = RootKey /\ new \in Nat /\ new # old
  BY <1>2 DEF buildEnvelope
<1> HIDE DEF old, new, key, env
<1>4. /\ DOMAIN d0 = DBFields
      /\ d0.vault = db.vault /\ d0.active = new /\ d0.records = db.records
      /\ d0.state = db.state
      /\ d0.envelopes = Remove(Put(db.envelopes, new, env), old)
  BY <1>2 DEF DeleteKeyEnvelope, SetActiveEnvelope, InsertKeyEnvelope, DBFields
<1>5. DOMAIN d0.envelopes = {new} /\ d0.envelopes[new] = env
  <2> DEFINE both == Put(db.envelopes, new, env)
  <2>1. DOMAIN both = {old, new} /\ both[new] = env
    BY <1>2 DEF Put
  <2> HIDE DEF both
  <2>2. DOMAIN Remove(both, old) = {new} /\ Remove(both, old)[new] = both[new]
    BY <1>3, <2>1 DEF Remove
  <2> QED
    BY <1>4, <2>1, <2>2 DEF both
<1>6. Counter(d0) = Counter(db)
  BY <1>4 DEF Counter
<1> HIDE DEF d0
<1>7. /\ DOMAIN d = DBFields
      /\ d.vault = 1 /\ d.active = new /\ d.envelopes = d0.envelopes
      /\ d.records = db.records /\ Counter(d) = Counter(db) + 1
      /\ Verify(d, d.state.root.key, d.vault, d.active)
  BY <1>2, <1>4, <1>5, <1>6, StampAnchors
<1> HIDE DEF d
<1>8. Moves(t) /\ DOMAIN th'[t] = {"pc"} /\ th'[t].pc = "idle" /\ LocalOK(th'[t])
  BY <1>1, FinishMoves
<1>9. LocksOK'
  BY <1>1, <1>8, MuReleased DEF MuPcs
<1>10. /\ DOMAIN svc' = SvcFields /\ svc'.id = svc.id /\ svc'.env = new
       /\ svc'.highWater = Counter(d) /\ svc'.ring = 0 /\ svc'.state = "locked"
  BY <1>1, <1>2, <1>7 DEF SvcFields
<1>11. /\ DOMAIN rings' = Rings
       /\ \A g \in Rings : \/ rings'[g] = rings[g]
                           \/ rings[g] # NoKey /\ rings'[g] = ZeroKey
  BY <1>1 DEF IInv, ServiceOK
<1>12. ServiceOK'
  BY <1>2, <1>3, <1>7, <1>10, <1>11 DEF IInv, ServiceOK
<1>13. Used' = Used
  BY <1>11 DEF Used, NoKey, ZeroKey
<1>14. RingsLeft'
  <2>1. Waiting' \subseteq Waiting
    BY <1>8 DEF Waiting, Moves
  <2> QED
    BY <1>1, <1>13, <2>1, RingsKept
<1>15. ~Creating(th'[t])
  BY <1>8 DEF Creating
<1>16. db'.records = db.records /\ Counter(db') \in Nat /\ Counter(db) <= Counter(db')
  BY <1>1, <1>2, <1>7
<1>17. NotesOK' /\ RowsHeld' /\ CreatesFresh'
  BY <1>1, <1>8, <1>15, <1>16, WritesKept
<1>18. FileOK' /\ HighWaterNotAhead'
  BY <1>1, <1>2, <1>3, <1>5, <1>7, <1>10 DEF IInv, FileOK, HighWaterNotAhead
<1>19. AnchorCoversTables'
  BY <1>1, <1>7 DEF AnchorCoversTables
<1>20. IndexOK' /\ DOMAIN index' = {}
  BY <1>1 DEF IndexOK, EmptyTable
<1>21. Settling'
  <2>1. \A id \in RecordIDs : Shown(id)'
    BY <1>10, <1>20 DEF Shown, HasKeys
  <2> QED
    BY <1>8, <1>12, <2>1, LockedSettles
<1>22. DOMAIN th' = Threads /\ \A u \in Threads : LocalOK(th'[u])
  BY <1>8 DEF IInv, Moves
<1> QED
  BY <1>1, <1>9, <1>12, <1>14, <1>17, <1>18, <1>19, <1>20, <1>21, <1>22 DEF IInv

\* A step that changes one goroutine and the index.
LEMMA IndexStep ==
    ASSUME IInv, NEW t \in Threads, Moves(t), LocalOK(th'[t]),
           UNCHANGED <<db, svc, rings, mu, conn, minted, served>>,
           alarms' \subseteq {"reveal", "index", "catalog"},
           ~overlap' => ~overlap /\ ~Overlaps(t),
           th[t].pc \notin MuPcs \cup {"stamp"},
           th'[t].pc \notin MuPcs \cup Unpublished \cup {"stamp", "unlock"},
           ~Creating(th'[t]), IndexOK',
           ~overlap' /\ th'[t].pc \in HandedPcs => HasKeys,
           ~overlap' => LoadsCurrent(th[t])',
           ~overlap' /\ (\A u \in Threads : th'[u].pc \notin Rebuilding) =>
               \A id \in RecordIDs :
                   Shown(id)' \/ \E u \in Threads : th'[u].pc \in Unpublished /\ th'[u].id = id
    PROVE  IInv'
<1>1. LocksOK'
  BY LocksKept DEF MuPcs
<1>2. ServiceOK' /\ FileOK' /\ HighWaterNotAhead'
  BY DEF IInv, ServiceOK, FileOK, HighWaterNotAhead
<1>3. AnchorCoversTables'
  BY DEF IInv, AnchorCoversTables
<1>4. RingsLeft'
  <2>1. Waiting' \subseteq Waiting
    BY DEF Waiting, Moves, MuPcs
  <2>2. Used' = Used
    BY DEF Used
  <2> QED
    BY <2>1, <2>2, RingsKept
<1>5. Counter(db) \in Nat /\ Counter(db) <= Counter(db')
  BY DEF IInv, FileOK
<1>6. NotesOK' /\ RowsHeld' /\ CreatesFresh'
  BY <1>5, WritesKept DEF Unpublished
<1>7. HasKeys' <=> HasKeys
  BY DEF HasKeys
<1>8. Settling'
  BY <1>2, <1>7, SettleStep
<1>9. DOMAIN th' = Threads /\ \A u \in Threads : LocalOK(th'[u])
  BY DEF IInv, Moves
<1> QED
  BY <1>1, <1>2, <1>3, <1>4, <1>6, <1>8, <1>9 DEF IInv

\* LoadIndex empties the index; with no rows to load it is done.
LEMMA ClearIndexStep ==
    ASSUME IInv, NEW t \in Threads, ClearIndex(t), ~overlap' => ~overlap /\ ~Overlaps(t)
    PROVE  IInv'
<1> DEFINE label == IF th[t].rows = EmptyTable THEN "verify" ELSE "fill"
<1>1. /\ th[t].pc = "clear" /\ index' = EmptyTable /\ Goto(t, label)
      /\ UNCHANGED <<db, svc, rings, mu, conn, minted, served, alarms>>
  BY DEF ClearIndex, At
<1>2. Moves(t) /\ Kept(th[t], th'[t]) /\ th'[t].pc = label
  BY <1>1, GotoMoves
<1>3. DOMAIN th[t] = LoadFields /\ DOMAIN th[t].rows \subseteq RecordIDs
  BY <1>1 DEF IInv, LocalOK, LoadPcs
<1>4. DOMAIN th'[t] = LoadFields /\ th'[t].rows = th[t].rows
  BY <1>2, <1>3 DEF Kept, LoadFields
<1>5. LocalOK(th'[t])
  BY <1>2, <1>3, <1>4 DEF LocalOK, LoadPcs
<1>6. ~Creating(th'[t]) /\ alarms' \subseteq {"reveal", "index", "catalog"}
  BY <1>1, <1>2 DEF Creating, IInv
<1>7. IndexOK' /\ DOMAIN index' = {}
  BY <1>1 DEF IndexOK, EmptyTable
<1>8. ASSUME ~overlap' PROVE HasKeys /\ th[t].rows = db.records
  BY <1>1, <1>8 DEF IInv, Settling, HandedKeys, Publishing, LoadsCurrent
<1>9. ASSUME ~overlap' PROVE LoadsCurrent(th[t])'
  <2>1. CASE label = "verify"
    BY <1>2, <2>1 DEF LoadsCurrent
  <2>2. CASE label = "fill"
    <3>1. index' = [id \in DOMAIN db.records \ DOMAIN db.records |-> Entry(db.records[id])]
      BY <1>1 DEF EmptyTable
    <3> QED
      BY <1>1, <1>2, <1>4, <1>8, <1>9, <2>2, <3>1 DEF LoadsCurrent
  <2> QED
    BY <2>1, <2>2
<1>10. ASSUME ~overlap', \A u \in Threads : th'[u].pc \notin Rebuilding, NEW id \in RecordIDs
       PROVE  Shown(id)'
  <2>1. label = "verify"
    BY <1>2, <1>10 DEF Rebuilding
  <2>2. DOMAIN db'.records = {}
    BY <1>1, <1>8, <1>10, <2>1 DEF EmptyTable
  <2> QED
    BY <1>7, <2>2 DEF Shown
<1>11. label \in {"verify", "fill"}
  OBVIOUS
<1> HIDE DEF label
<1> QED
  BY <1>1, <1>2, <1>5, <1>6, <1>7, <1>8, <1>9, <1>10, <1>11, IndexStep
     DEF MuPcs, Unpublished

\* One row of the loop in LoadIndex is published, or its failure empties the index.
LEMMA FillStep ==
    ASSUME IInv, NEW t \in Threads, Fill(t), ~overlap' => ~overlap /\ ~Overlaps(t)
    PROVE  IInv'
<1> DEFINE l == th[t]
<1>1. PICK id \in DOMAIN l.rows :
        LET row == l.rows[id]
            rest == Remove(l.rows, id)
        IN  /\ IF RowOpens(KeyOf(t), id, row)
               THEN /\ index' = Put(index, id, Entry(row))
                    /\ th' = [th EXCEPT ![t].rows = rest,
                                        ![t].pc = IF rest = EmptyTable THEN "verify" ELSE "fill"]
                    /\ alarms' = alarms
               ELSE /\ index' = EmptyTable
                    /\ th' = [th EXCEPT ![t].rows = EmptyTable, ![t].pc = "lock"]
                    /\ alarms' = alarms \cup {"index"}
            /\ UNCHANGED <<db, svc, rings, mu, conn, minted, served>>
  BY DEF Fill, FillIndex
<1>2. l.pc = "fill" /\ UNCHANGED <<db, svc, rings, mu, conn, minted, served>>
  BY <1>1 DEF Fill, At
<1>3. DOMAIN th = Threads /\ LocalOK(l) /\ DOMAIN l = LoadFields /\ DOMAIN l.rows \subseteq RecordIDs
  BY <1>2 DEF IInv, LocalOK, LoadPcs
<1>4. alarms' \subseteq {"reveal", "index", "catalog"}
  BY <1>1 DEF IInv
<1>5. ASSUME ~overlap'
      PROVE  /\ HasKeys
             /\ DOMAIN l.rows \subseteq DOMAIN db.records
             /\ \A i \in DOMAIN l.rows : l.rows[i] = db.records[i]
             /\ index = [i \in DOMAIN db.records \ DOMAIN l.rows |-> Entry(db.records[i])]
  BY <1>2, <1>5 DEF IInv, Settling, HandedKeys, Publishing, LoadsCurrent
<1>6. CASE index' = Put(index, id, Entry(l.rows[id]))
           /\ th' = [th EXCEPT ![t].rows = Remove(l.rows, id),
                               ![t].pc = IF Remove(l.rows, id) = EmptyTable THEN "verify" ELSE "fill"]
  <2> DEFINE rest == Remove(l.rows, id)
             label == IF rest = EmptyTable THEN "verify" ELSE "fill"
             m == [l EXCEPT !.rows = rest, !.pc = label]
  <2>1. th' = [th EXCEPT ![t] = m]
    BY <1>3, <1>6
  <2>2. DOMAIN m = LoadFields /\ m.rows = rest /\ m.pc = label
    BY <1>3 DEF LoadFields
  <2>3. /\ DOMAIN rest = DOMAIN l.rows \ {id}
        /\ \A i \in DOMAIN rest : rest[i] = l.rows[i]
    BY DEF Remove
  <2>4. label \in {"verify", "fill"} /\ (label = "verify" => DOMAIN rest = {})
    BY DEF EmptyTable
  <2> HIDE DEF m, rest, label
  <2>5. Moves(t) /\ th'[t] = m
    BY <1>3, <2>1 DEF Moves
  <2>6. LocalOK(m) /\ ~Creating(m)
    BY <1>3, <2>2, <2>3, <2>4 DEF LocalOK, LoadPcs, Creating
  <2>7. IndexOK'
    BY <1>3, <1>6 DEF IInv, IndexOK, Put
  <2>8. ASSUME ~overlap'
        PROVE  /\ DOMAIN rest \subseteq DOMAIN db.records
               /\ \A i \in DOMAIN rest : rest[i] = db.records[i]
               /\ index' = [i \in DOMAIN db.records \ DOMAIN rest |-> Entry(db.records[i])]
    BY <1>5, <1>6, <2>3, <2>8 DEF Put
  <2>9. ASSUME ~overlap' PROVE LoadsCurrent(th[t])'
    BY <1>2, <2>2, <2>4, <2>5, <2>8, <2>9 DEF LoadsCurrent
  <2>10. ASSUME ~overlap', \A u \in Threads : th'[u].pc \notin Rebuilding, NEW i \in RecordIDs
         PROVE  Shown(i)'
    <3>1. label = "verify"
      BY <2>2, <2>4, <2>5, <2>10 DEF Rebuilding
    <3>2. index' = [j \in DOMAIN db.records |-> Entry(db.records[j])]
      BY <2>4, <2>8, <2>10, <3>1
    <3>3. HasKeys'
      BY <1>2, <1>5, <2>10 DEF HasKeys
    <3> QED
      BY <1>2, <3>2, <3>3 DEF Shown
  <2> QED
    BY <1>2, <1>4, <1>5, <2>2, <2>4, <2>5, <2>6, <2>7, <2>9, <2>10, IndexStep
       DEF MuPcs, Unpublished
<1>7. CASE index' = EmptyTable /\ th' = [th EXCEPT ![t].rows = EmptyTable, ![t].pc = "lock"]
  <2> DEFINE m == [l EXCEPT !.rows = EmptyTable, !.pc = "lock"]
  <2>1. th' = [th EXCEPT ![t] = m]
    BY <1>3, <1>7
  <2>2. DOMAIN m = LoadFields /\ m.rows = EmptyTable /\ m.pc = "lock"
    BY <1>3 DEF LoadFields
  <2> HIDE DEF m
  <2>3. Moves(t) /\ th'[t] = m
    BY <1>3, <2>1 DEF Moves
  <2>4. LocalOK(m) /\ ~Creating(m)
    BY <2>2 DEF LocalOK, LoadPcs, Creating, EmptyTable
  <2>5. IndexOK'
    BY <1>7 DEF IndexOK, EmptyTable
  <2>6. LoadsCurrent(th[t])'
    BY <2>2, <2>3 DEF LoadsCurrent
  <2>7. th'[t].pc \in Rebuilding
    BY <2>2, <2>3 DEF Rebuilding
  <2> QED
    BY <1>2, <1>4, <2>2, <2>3, <2>4, <2>5, <2>6, <2>7, IndexStep DEF MuPcs, Unpublished, HandedPcs
<1> QED
  BY <1>1, <1>6, <1>7

\* index.Put and index.Remove bring the index up to a committed write.
LEMMA PublishStep ==
    ASSUME IInv, NEW t \in Threads, Publish(t), ~overlap' => ~overlap /\ ~Overlaps(t)
    PROVE  IInv'
<1> DEFINE l == th[t]
<1>1. /\ l.pc = "publish" /\ Finish(t)
      /\ index' = IF l.op = "delete" THEN Remove(index, l.id)
                  ELSE Put(index, l.id, [revision |-> l.base + 1, payload |-> l.payload])
      /\ UNCHANGED <<db, svc, rings, mu, conn, minted, served, alarms>>
  BY DEF Publish, At
<1>2. l.id \in RecordIDs /\ alarms' \subseteq {"reveal", "index", "catalog"}
  BY <1>1 DEF IInv, LocalOK, LoadPcs
<1>3. Moves(t) /\ DOMAIN th'[t] = {"pc"} /\ th'[t].pc = "idle" /\ LocalOK(th'[t])
  BY <1>1, FinishMoves
<1>4. ~Creating(th'[t]) /\ th'[t].pc \notin HandedPcs
  BY <1>3 DEF Creating, HandedPcs
<1>5. LoadsCurrent(th[t])'
  BY <1>3 DEF LoadsCurrent
<1>6. IndexOK'
  BY <1>1, <1>2 DEF IInv, IndexOK, Put, Remove
<1>7. ASSUME ~overlap', \A u \in Threads : th'[u].pc \notin Rebuilding, NEW id \in RecordIDs
      PROVE  Shown(id)' \/ \E u \in Threads : th'[u].pc \in Unpublished /\ th'[u].id = id
  <2>1. HasKeys /\ HasKeys' /\ Reflected(l)
    BY <1>1, <1>7 DEF IInv, Settling, HandedKeys, Publishing, Unpublished, HasKeys
  <2>2. \A u \in Threads : th[u].pc \notin Rebuilding
    BY <1>1, <1>3, <1>7 DEF Moves, Rebuilding
  <2>3. Shown(id) \/ \E u \in Threads : th[u].pc \in Unpublished /\ th[u].id = id
    BY <1>7, <2>2 DEF IInv, Settling
  <2>4. CASE id = l.id
    <3>1. CASE l.op = "delete"
      BY <1>1, <2>1, <2>4, <3>1 DEF Reflected, Remove, Shown
    <3>2. CASE l.op # "delete"
      BY <1>1, <2>1, <2>4, <3>2 DEF Reflected, Put, Shown, Entry
    <3> QED
      BY <3>1, <3>2
  <2>5. CASE id # l.id /\ Shown(id)
    <3>1. /\ id \in DOMAIN index' <=> id \in DOMAIN index
          /\ id \in DOMAIN index => index'[id] = index[id]
      BY <1>1, <2>5 DEF Put, Remove
    <3> QED
      BY <1>1, <2>1, <2>5, <3>1 DEF Shown
  <2>6. CASE id # l.id /\ \E u \in Threads : th[u].pc \in Unpublished /\ th[u].id = id
    BY <1>3, <2>6 DEF Moves
  <2> QED
    BY <2>3, <2>4, <2>5, <2>6
<1> QED
  BY <1>1, <1>2, <1>3, <1>4, <1>5, <1>6, <1>7, IndexStep DEF MuPcs, Unpublished

\* What the statement of a write does to the tables.
LEMMA MutateRows ==
    ASSUME IInv, NEW t \in Threads, th[t].pc = "stamp"
    PROVE  LET l == th[t]
               d == Mutate(l)
           IN  /\ DOMAIN d = DBFields /\ d.vault = db.vault /\ d.active = db.active
               /\ d.envelopes = db.envelopes /\ d.state = db.state
               /\ \A i : i # l.id =>
                     /\ i \in DOMAIN d.records <=> i \in DOMAIN db.records
                     /\ i \in DOMAIN db.records => d.records[i] = db.records[i]
               /\ l.op = "delete" => l.id \notin DOMAIN d.records
               /\ l.op # "delete" => /\ l.id \in DOMAIN d.records
                                     /\ d.records[l.id].revision = l.base + 1
                                     /\ d.records[l.id].sealed = l.sealed
<1> DEFINE l == th[t]
           d == Mutate(l)
<1>1. /\ LocalOK(l) /\ DOMAIN db = DBFields
  BY DEF IInv, FileOK
<1>2. /\ l.op \in {"create", "update", "delete"} /\ (l.op = "create" => l.base = 0)
  BY <1>1 DEF LocalOK, LoadPcs
<1>3. CASE l.op = "create"
  <2> DEFINE row == [keyVersion |-> l.keyVersion, revision |-> 1, sealed |-> l.sealed]
  <2>1. d = [db EXCEPT !.records = Put(@, l.id, row)]
    BY <1>3 DEF Mutate, InsertRecord
  <2>2. row.revision = l.base + 1 /\ row.sealed = l.sealed
    BY <1>2, <1>3
  <2> HIDE DEF row, d
  <2>3. /\ DOMAIN d = DBFields /\ d.vault = db.vault /\ d.active = db.active
        /\ d.envelopes = db.envelopes /\ d.state = db.state
        /\ d.records = Put(db.records, l.id, row)
    BY <1>1, <2>1 DEF DBFields
  <2> QED
    BY <1>3, <2>2, <2>3 DEF Put, d
<1>4. CASE l.op = "update"
  <2> DEFINE row == [keyVersion |-> db.records[l.id].keyVersion, revision |-> l.base + 1,
                     sealed |-> l.sealed]
  <2>1. d = [db EXCEPT !.records = Put(@, l.id, row)]
    BY <1>4 DEF Mutate, UpdateRecord
  <2>2. row.revision = l.base + 1 /\ row.sealed = l.sealed
    OBVIOUS
  <2> HIDE DEF row, d
  <2>3. /\ DOMAIN d = DBFields /\ d.vault = db.vault /\ d.active = db.active
        /\ d.envelopes = db.envelopes /\ d.state = db.state
        /\ d.records = Put(db.records, l.id, row)
    BY <1>1, <2>1 DEF DBFields
  <2> QED
    BY <1>4, <2>2, <2>3 DEF Put, d
<1>5. CASE l.op = "delete"
  <2>1. d = [db EXCEPT !.records = Remove(@, l.id)]
    BY <1>5 DEF Mutate, DeleteRecord
  <2> HIDE DEF d
  <2>2. /\ DOMAIN d = DBFields /\ d.vault = db.vault /\ d.active = db.active
        /\ d.envelopes = db.envelopes /\ d.state = db.state
        /\ d.records = Remove(db.records, l.id)
    BY <1>1, <2>1 DEF DBFields
  <2> QED
    BY <1>5, <2>2 DEF Remove, d
<1> QED
  BY <1>2, <1>3, <1>4, <1>5

\* What a commit leaves in the file.
LEMMA CommitFile ==
    ASSUME IInv, NEW t \in Threads, StampCommit(t)
    PROVE  /\ th[t].pc = "stamp"
           /\ DOMAIN db' = DBFields /\ db'.vault = 1 /\ db'.active = svc.env
           /\ db'.envelopes = db.envelopes /\ db'.records = Mutate(th[t]).records
           /\ Counter(db') = Counter(db) + 1
           /\ Verify(db', db'.state.root.key, db'.vault, db'.active)
<1> DEFINE d == Mutate(th[t])
<1>1. /\ th[t].pc = "stamp" /\ db' = Stamp(d, KeyOf(t), svc.id, svc.env)
  BY DEF StampCommit, At
<1>2. /\ DOMAIN d = DBFields /\ d.vault = db.vault /\ d.active = db.active
      /\ d.envelopes = db.envelopes /\ d.state = db.state
  BY <1>1, MutateRows
<1> HIDE DEF d
<1>3. /\ svc.id = d.vault /\ svc.env = d.active /\ d.vault = 1
      /\ svc.env \in DOMAIN d.envelopes
      /\ Counter(d) = Counter(db) /\ Counter(d) \in Nat
  BY <1>2 DEF IInv, FileOK, ServiceOK, Counter
<1> QED
  BY <1>1, <1>2, <1>3, StampAnchors DEF d

\* A write commits the tables and their anchor together.
LEMMA StampCommitStep ==
    ASSUME IInv, NEW t \in Threads, StampCommit(t), ~overlap' => ~overlap /\ ~Overlaps(t)
    PROVE  IInv'
<1> DEFINE l == th[t]
           d == Mutate(l)
           m == [l EXCEPT !.stamped = Counter(db'), !.pc = "note"]
<1>1. /\ l.pc = "stamp" /\ conn' = Free
      /\ UNCHANGED <<svc, rings, index, mu, minted, served, alarms>>
  BY DEF StampCommit, At
<1>2. /\ DOMAIN th = Threads /\ LocalOK(l)
  BY DEF IInv
<1>3. \/ DOMAIN l = ReadFields /\ l.op = "delete"
      \/ DOMAIN l = WriteFields /\ l.op \in {"create", "update"}
  BY <1>1, <1>2 DEF LocalOK, LoadPcs
<1>4. th' = [th EXCEPT ![t] = m]
  BY <1>2 DEF StampCommit
<1>5. /\ DOMAIN db' = DBFields /\ db'.vault = 1 /\ db'.active = svc.env
      /\ db'.envelopes = db.envelopes /\ db'.records = d.records
      /\ Counter(db') = Counter(db) + 1
      /\ Verify(db', db'.state.root.key, db'.vault, db'.active)
  BY CommitFile
<1>6. /\ \A i : i # l.id =>
            /\ i \in DOMAIN d.records <=> i \in DOMAIN db.records
            /\ i \in DOMAIN db.records => d.records[i] = db.records[i]
      /\ l.op = "delete" => l.id \notin DOMAIN d.records
      /\ l.op # "delete" => /\ l.id \in DOMAIN d.records
                            /\ d.records[l.id].revision = l.base + 1
                            /\ d.records[l.id].sealed = l.sealed
  BY <1>1, MutateRows
<1> HIDE DEF d
<1>7. Counter(db) \in Nat /\ Counter(db') \in Nat
  BY <1>5 DEF IInv, FileOK
<1>8. /\ DOMAIN m = DOMAIN l /\ m.pc = "note" /\ m.stamped = Counter(db')
      /\ \A f \in DOMAIN l \ {"pc", "stamped"} : m[f] = l[f]
  BY <1>3 DEF ReadFields, WriteFields
<1> HIDE DEF m
<1>9. /\ m.op = l.op /\ m.id = l.id
      /\ l.op # "delete" => m.base = l.base /\ m.payload = l.payload
  BY <1>3, <1>8 DEF ReadFields, WriteFields
<1>10. LocalOK(m)
  BY <1>1, <1>2, <1>3, <1>7, <1>8, <1>9 DEF LocalOK, ReadFields, WriteFields, LoadFields, LoadPcs
<1>11. Moves(t) /\ th'[t] = m
  BY <1>2, <1>4 DEF Moves
<1>12. LocksOK'
  BY <1>1, <1>8, <1>11, DaemonAssumption DEF IInv, LocksOK, Moves, MuPcs, Free
<1>13. ServiceOK'
  BY <1>1 DEF IInv, ServiceOK
<1>14. RingsLeft'
  <2>1. Waiting' \subseteq Waiting
    BY <1>8, <1>11 DEF Waiting, Moves
  <2>2. Used' = Used
    BY <1>1 DEF Used
  <2> QED
    BY <1>1, <2>1, <2>2, RingsKept
<1>15. Affects(l)
  BY <1>1 DEF IInv, RowsHeld
<1>16. l.op # "create" => l.id \in DOMAIN db.records
  BY <1>3, <1>15 DEF Affects, MatchesRevision
<1>17. l.op = "create" => Creating(l)
  BY <1>1, <1>3, <1>16 DEF Creating
<1>18. FileOK' /\ HighWaterNotAhead'
  <2>1. DOMAIN d.records \subseteq minted
    BY <1>6, <1>16, <1>17 DEF IInv, FileOK, CreatesFresh
  <2> QED
    BY <1>1, <1>5, <1>7, <2>1 DEF IInv, FileOK, HighWaterNotAhead, ServiceOK
<1>19. AnchorCoversTables'
  BY <1>5 DEF AnchorCoversTables
<1>20. NotesOK'
  <2> SUFFICES ASSUME NEW u \in Threads, th'[u].pc = "note"
               PROVE  th'[u].stamped <= Counter(db')
    BY DEF NotesOK
  <2>1. CASE u = t
    BY <1>7, <1>8, <1>11, <2>1
  <2>2. CASE u # t
    <3>1. th'[u] = th[u] /\ LocalOK(th[u])
      BY <1>11, <2>2 DEF Moves, IInv
    <3>2. th[u].stamped \in Nat /\ th[u].stamped <= Counter(db)
      BY <3>1 DEF LocalOK, LoadPcs, IInv, NotesOK
    <3> QED
      BY <1>5, <1>7, <3>1, <3>2
  <2> QED
    BY <2>1, <2>2
<1>21. RowsHeld'
  BY <1>1, <1>8, <1>11 DEF IInv, LocksOK, Moves, RowsHeld
<1>22. CreatesFresh'
  <2>1. ~Creating(th'[t])
    BY <1>8, <1>11 DEF Creating
  <2>2. ASSUME NEW u \in Threads \ {t}, Creating(th[u])
        PROVE  th[u].id \in minted \ DOMAIN d.records
    <3>1. th[u].id \in minted \ DOMAIN db.records
      BY <2>2 DEF IInv, CreatesFresh
    <3>2. th[u].id # l.id
      BY <1>16, <1>17, <2>2, <3>1 DEF IInv, CreatesFresh
    <3> QED
      BY <1>6, <3>1, <3>2
  <2> QED
    BY <1>1, <1>5, <1>11, <2>1, <2>2 DEF IInv, CreatesFresh, Moves
<1>23. IndexOK'
  BY <1>1 DEF IInv, IndexOK
<1>24. Settling'
  <2>1. ASSUME ~overlap' PROVE HasKeys /\ HasKeys'
    BY <1>1, <2>1 DEF IInv, Settling, HandedKeys, HasKeys
  <2>2. Reflected(th[t])'
    <3>1. l.op # "delete" => l.sealed.payload = l.payload
      BY <1>1, <1>2, <1>3 DEF LocalOK, LoadPcs
    <3> QED
      BY <1>5, <1>6, <1>9, <1>11, <3>1 DEF Reflected
  <2>3. LoadsCurrent(th[t])'
    BY <1>8, <1>11 DEF LoadsCurrent
  <2>4. ASSUME ~overlap', \A u \in Threads : th'[u].pc \notin Rebuilding, NEW id \in RecordIDs
        PROVE  Shown(id)' \/ \E u \in Threads : th'[u].pc \in Unpublished /\ th'[u].id = id
    <3>1. \A u \in Threads : th[u].pc \notin Rebuilding
      BY <1>1, <1>11, <2>4 DEF Moves, Rebuilding
    <3>2. Shown(id) \/ \E u \in Threads : th[u].pc \in Unpublished /\ th[u].id = id
      BY <2>4, <3>1 DEF IInv, Settling
    <3>3. CASE id = l.id
      BY <1>8, <1>9, <1>11, <3>3 DEF Unpublished
    <3>4. CASE id # l.id /\ Shown(id)
      BY <1>1, <1>5, <1>6, <2>1, <2>4, <3>4 DEF Shown
    <3>5. CASE \E u \in Threads : th[u].pc \in Unpublished /\ th[u].id = id
      <4>1. PICK u \in Threads : th[u].pc \in Unpublished /\ th[u].id = id
        BY <3>5
      <4>2. u # t
        BY <1>1, <4>1 DEF Unpublished
      <4> QED
        BY <1>11, <4>1, <4>2 DEF Moves
    <3> QED
      BY <3>2, <3>3, <3>4, <3>5
  <2> QED
    BY <1>11, <1>13, <2>1, <2>2, <2>3, <2>4, SettleStep
<1>25. DOMAIN th' = Threads /\ \A u \in Threads : LocalOK(th'[u])
  BY <1>10, <1>11 DEF IInv, Moves
<1> QED
  BY <1>1, <1>12, <1>13, <1>14, <1>18, <1>19, <1>20, <1>21, <1>22, <1>23, <1>24, <1>25 DEF IInv

-------------------------------------------------------------------------------
(* The invariant is inductive.                                             *)

\* The state after an unlock, with no request in progress.
LEMMA InitIInv == Init => IInv
<1> SUFFICES ASSUME Init PROVE IInv
  OBVIOUS
<1> DEFINE x == CHOOSE y \in Payloads : TRUE
           env == buildEnvelope(1, 1, RootKey, "password")
           rows == [id \in Existing |-> NewRow(id, x)]
           d == [EmptyDB EXCEPT !.vault = 1, !.active = 1,
                   !.envelopes = Put(EmptyTable, 1, env), !.records = rows]
<1>1. db = Stamp(d, RootKey, 1, 1)
  BY DEF Init, StartDB
<1>2. /\ DOMAIN d = DBFields /\ d.vault = 1 /\ d.active = 1
      /\ d.envelopes = Put(EmptyTable, 1, env) /\ d.records = rows /\ d.state = NoState
  BY DEF EmptyDB, DBFields
<1>3. env.rootKey = RootKey
  BY DEF buildEnvelope
<1>4. DOMAIN rows = Existing
  OBVIOUS
<1> HIDE DEF env, rows, d
<1>5. DOMAIN d.envelopes = {1} /\ d.envelopes[1] = env
  BY <1>2 DEF Put, EmptyTable
<1>6. Counter(d) = 0
  BY <1>2 DEF Counter, NoState
<1>7. /\ DOMAIN db = DBFields
      /\ db.vault = 1 /\ db.active = 1 /\ db.envelopes = d.envelopes
      /\ db.records = rows /\ Counter(db) = 1
      /\ Verify(db, db.state.root.key, db.vault, db.active)
  BY <1>1, <1>2, <1>5, <1>6, StampAnchors
<1>8. /\ svc = [id |-> 1, env |-> 1, state |-> "unlocked", ring |-> 1, highWater |-> 1]
      /\ rings = [g \in Rings |-> IF g = 1 THEN RootKey ELSE NoKey]
      /\ index = [id \in Existing |-> Entry(db.records[id])]
      /\ mu = Free /\ conn = Free /\ th = [t \in Threads |-> Idle] /\ minted = Existing
      /\ served = 0 /\ alarms = {} /\ overlap = FALSE
  BY DEF Init
<1>9. \A t \in Threads : th[t].pc = "idle" /\ DOMAIN th[t] = {"pc"}
  BY <1>8 DEF Idle
<1>10. DOMAIN th = Threads /\ \A t \in Threads : LocalOK(th[t])
  BY <1>8, <1>9 DEF LocalOK
<1>11. LocksOK
  BY <1>8, <1>9, DaemonAssumption DEF LocksOK, MuPcs, Free
<1>12. 1 \in Rings
  BY DaemonAssumption DEF Rings
<1>13. ServiceOK
  BY <1>8, <1>12 DEF ServiceOK, SvcFields, RootKey, NoKey
<1>14. RingsLeft
  <2>1. Waiting = {}
    BY <1>9 DEF Waiting
  <2>2. Used = {1}
    BY <1>8, <1>12 DEF Used, RootKey, NoKey
  <2>3. IsFiniteSet(Waiting) /\ Cardinality(Waiting) = 0 /\ Cardinality(Used) = 1
    BY <2>1, <2>2, FS_EmptySet, FS_Singleton
  <2> QED
    BY <1>8, <2>3, DaemonAssumption DEF RingsLeft
<1>15. FileOK /\ AnchorCoversTables /\ HighWaterNotAhead
  BY <1>3, <1>4, <1>5, <1>7, <1>8, DaemonAssumption DEF FileOK, AnchorCoversTables, HighWaterNotAhead
<1>16. NotesOK /\ RowsHeld /\ CreatesFresh
  BY <1>9 DEF NotesOK, RowsHeld, CreatesFresh, Creating
<1>17. IndexOK
  BY <1>8, DaemonAssumption DEF IndexOK
<1>18. Settling
  <2>1. \A t \in Threads : ~HandedKeys(t) /\ th[t].pc \notin Unpublished /\ LoadsCurrent(th[t])
    BY <1>9 DEF HandedKeys, Publishing, Unpublished, LoadsCurrent
  <2>2. \A id \in RecordIDs : Shown(id)
    BY <1>4, <1>7, <1>8 DEF Shown, HasKeys
  <2> QED
    BY <2>1, <2>2 DEF Settling
<1> QED
  BY <1>8, <1>10, <1>11, <1>13, <1>14, <1>15, <1>16, <1>17, <1>18 DEF IInv

\* Every step of a goroutine preserves the invariant.
LEMMA ServeStep == ASSUME IInv, NEW t \in Threads, Serve(t) PROVE IInv'
<1>1. Work(t) /\ overlap' = ((overlap \/ Overlaps(t)) /\ ~Settles(t))
  BY DEF Serve
<1>2. CASE Settles(t)
  <2>1. Lock(t) \/ ChangeQuery(t)
    BY <1>1, <1>2 DEF Settles, Work, At, Keys, LookUp, Encrypt, KeyVersion, Begin, StampCommit,
       Note, Publish, Reveal, TakeMu, StatusQuery, UnlockQuery, LoadKeys, ListRecords,
       ClearIndex, Fill, VerifyQuery
  <2>2. \A u \in Threads \ {t} : ~HandedKeys(u)
    BY <1>2 DEF Settles
  <2> QED
    BY <2>1, <2>2, LockStep, ChangeQueryStep
<1>3. CASE ~Settles(t)
  <2>1. ~overlap' => ~overlap /\ ~Overlaps(t)
    BY <1>1, <1>3
  <2> QED
    BY <1>1, <2>1, KeysStep, LookUpStep, EncryptStep, KeyVersionStep, BeginStep, StampCommitStep,
       NoteStep, PublishStep, RevealStep, LockStep, TakeMuStep, StatusQueryStep,
       UnlockQueryStep, ChangeQueryStep, LoadKeysStep, ListRecordsStep, ClearIndexStep,
       FillStep, VerifyQueryStep DEF Work
<1> QED
  BY <1>2, <1>3

\* The invariant is a formula about these variables.
LEMMA StutterStep == IInv /\ UNCHANGED vars => IInv'
<1> SUFFICES ASSUME IInv, UNCHANGED vars PROVE IInv'
  OBVIOUS
<1>1. LocksOK' /\ ServiceOK' /\ FileOK' /\ HighWaterNotAhead' /\ NotesOK' /\ CreatesFresh' /\ IndexOK'
  BY DEF vars, IInv, LocksOK, ServiceOK, FileOK, HighWaterNotAhead, NotesOK, CreatesFresh, IndexOK
<1>2. AnchorCoversTables'
  BY DEF vars, IInv, AnchorCoversTables
<1>3. RingsLeft'
  BY DEF vars, IInv, RingsLeft, Used, Waiting
<1>4. RowsHeld'
  BY DEF vars, IInv, RowsHeld, Affects, MatchesRevision
<1>5. Settling'
  <2>1. HasKeys' <=> HasKeys
    BY DEF vars, HasKeys
  <2>2. \A t \in Threads :
            /\ HandedKeys(t)' => HandedKeys(t)
            /\ Reflected(th[t]) => Reflected(th[t])'
            /\ LoadsCurrent(th[t]) => LoadsCurrent(th[t])'
    BY DEF vars, HandedKeys, Publishing, Reflected, LoadsCurrent
  <2>3. \A id \in RecordIDs : Shown(id) => Shown(id)'
    BY <2>1 DEF vars, Shown
  <2> QED
    BY <2>1, <2>2, <2>3 DEF vars, IInv, Settling
<1> QED
  BY <1>1, <1>2, <1>3, <1>4, <1>5 DEF vars, IInv

\* Every step preserves the invariant.
LEMMA NextIInv == IInv /\ [Next]_vars => IInv'
BY AcceptWriteStep, AcceptOtherStep, ServeStep, StutterStep DEF Next, Done

\* IInv holds in every reachable state.
LEMMA Invariance == Spec => []IInv
BY InitIInv, NextIInv, PTL DEF Spec

-------------------------------------------------------------------------------
(* Theorems.                                                               *)

\* The two locks are held exactly where the code holds them, and there is always a
\* keyring to allocate (Service.mu, SetMaxOpenConns(1), Unlock).
THEOREM TypeCorrect == Spec => []TypeOK
<1>1. IInv => TypeOK
  BY DEF IInv, TypeOK, LocksOK, MuPcs, At, ServiceOK, FileOK, IndexOK
<1> QED
  BY <1>1, Invariance, PTL

\* However many writers interleave, the anchor in the file describes the tables it
\* was committed with (catalog.Stamp inside the transaction).
THEOREM AnchorAlwaysCovers == Spec => []AnchorCoversTables
<1>1. IInv => AnchorCoversTables
  BY DEF IInv
<1> QED
  BY <1>1, Invariance, PTL

\* No order of commits and notes puts the mark ahead of the file (NoteCatalogCounter).
THEOREM HighWaterSafe == Spec => []HighWaterNotAhead
<1>1. IInv => HighWaterNotAhead
  BY DEF IInv
<1> QED
  BY <1>1, Invariance, PTL

\* Once all requests are answered, and unless two of them have overlapped since the
\* last lock that nobody with keys overlapped, the index shows the records of an
\* unlocked vault and nothing of a locked one (LoadIndex, index.Put, index.Remove,
\* ClearIndex).
THEOREM IndexAlwaysSettles == Spec => []IndexSettles
<1>1. IInv => IndexSettles
  <2> SUFFICES ASSUME IInv, \A t \in Threads : th[t].pc = "idle", ~overlap
               PROVE  index = IF HasKeys THEN [id \in DOMAIN db.records |-> Entry(db.records[id])]
                              ELSE EmptyTable
    BY DEF IndexSettles, At
  <2>1. \A id \in RecordIDs : Shown(id)
    BY DEF IInv, Settling, Rebuilding, Unpublished
  <2>2. /\ DOMAIN index \subseteq RecordIDs /\ DOMAIN db.records \subseteq RecordIDs
        /\ index = [id \in DOMAIN index |-> index[id]]
    BY DEF IInv, IndexOK, FileOK
  <2>3. CASE HasKeys
    BY <2>1, <2>2, <2>3 DEF Shown
  <2>4. CASE ~HasKeys
    BY <2>1, <2>2, <2>4 DEF Shown, EmptyTable
  <2> QED
    BY <2>3, <2>4
<1> QED
  BY <1>1, Invariance, PTL

\* Only a commit changes a row.
LEMMA RowsChangeByCommit ==
    ASSUME Next, ~\E t \in Threads : StampCommit(t)
    PROVE  db' = db \/ db'.records = db.records \/ \E t \in Threads : ChangeQuery(t)
BY DEF Next, AcceptWrite, AcceptOther, Accept, Serve, Work, Done, vars, shared, Keys, LookUp,
       Encrypt, KeyVersion, Begin, Note, Publish, Reveal, Lock, TakeMu, StatusQuery,
       UnlockQuery, LoadKeys, ListRecords, ClearIndex, Fill, FillIndex, VerifyQuery

\* However many writers read one revision of a record, one replaces it and the
\* record then has the next revision (UpdateRecord's WHERE clause, crypto.NewID).
THEOREM OneWriterPerRevision == Spec => RevisionsAdvance
<1> DEFINE Advance ==
        \A id \in DOMAIN db.records \cap DOMAIN db'.records :
            db'.records[id] # db.records[id]
                => db'.records[id].revision = db.records[id].revision + 1
<1>1. IInv /\ [Next]_vars => [Advance]_vars
  <2> SUFFICES ASSUME IInv, Next PROVE Advance
    OBVIOUS
  <2>1. ASSUME NEW t \in Threads, StampCommit(t) PROVE Advance
    <3> DEFINE l == th[t]
    <3>1. l.pc = "stamp" /\ db'.records = Mutate(l).records
      BY <2>1, CommitFile
    <3>2. /\ \A i \in DOMAIN db.records : i # l.id => Mutate(l).records[i] = db.records[i]
          /\ l.op = "delete" => l.id \notin DOMAIN Mutate(l).records
          /\ l.op # "delete" => Mutate(l).records[l.id].revision = l.base + 1
      BY <3>1, MutateRows
    <3>3. Affects(l) /\ LocalOK(l)
      BY <3>1 DEF IInv, RowsHeld
    <3>4. /\ l.op \in {"create", "update", "delete"}
          /\ l.op = "create" => Creating(l)
      BY <3>1, <3>3 DEF LocalOK, LoadPcs, Creating
    <3>5. l.op = "create" => l.id \notin DOMAIN db.records
      BY <3>4 DEF IInv, CreatesFresh
    <3>6. l.op = "update" => db.records[l.id].revision = l.base
      BY <3>3 DEF Affects, MatchesRevision
    <3> QED
      BY <3>1, <3>2, <3>4, <3>5, <3>6
  <2>2. ASSUME NEW t \in Threads, ChangeQuery(t) PROVE db'.records = db.records
    BY <2>2 DEF ChangeQuery, Stamp, DeleteKeyEnvelope, SetActiveEnvelope, InsertKeyEnvelope,
                IInv, FileOK, DBFields
  <2> QED
    BY <2>1, <2>2, RowsChangeByCommit
<1> QED
  BY <1>1, Invariance, PTL DEF Spec, RevisionsAdvance
=============================================================================
