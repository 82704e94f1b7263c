----------------------------- MODULE PairingProofs -----------------------------
(***************************************************************************)
(* What holds of Pairing for every number of extensions, slots, attempts,  *)
(* clients and faults.                                                     *)
(***************************************************************************)
EXTENDS Pairing, FiniteSetTheorems, TLAPS

Calls ==
    [op : {"none", "pair", "claim"}, id : Nat,
     answer : {"waiting", "ok", "not_found", "denied"}, client : Nat,
     live : BOOLEAN, overtaken : BOOLEAN]
Identities == [client : Nat, key : Nat, overtaken : BOOLEAN]
Memories == [mem : Nat, open : BOOLEAN, stored : Nat, identity : Identities]
Rows == [key : Nat, status : {"approved", "revoked"}]

Types ==
    /\ attempts \in Nat /\ minted \in Nat
    /\ pending \in [DOMAIN pending -> Nat] /\ DOMAIN pending \subseteq Nat
    /\ clients \in [DOMAIN clients -> Rows] /\ DOMAIN clients \subseteq Nat
    /\ backup \in [DOMAIN backup -> Rows] /\ DOMAIN backup \subseteq Nat
    /\ ext \in [Extensions -> Memories]
    /\ call \in [Extensions -> [Slots -> Calls]]

\* The table in use or the one in the backup holds client c with key k.
RowFor(c, k) ==
    \/ c \in DOMAIN clients /\ clients[c].key = k
    \/ c \in DOMAIN backup /\ backup[c].key = k

\* Identifiers that are in use have been given out.
Bounds ==
    /\ \A id \in DOMAIN pending : id # None /\ id <= attempts /\ pending[id] <= minted
    /\ \A c, k \in Nat : RowFor(c, k) => c # None /\ c <= minted /\ k # None /\ k <= attempts
    /\ \A e \in Extensions :
          /\ ext[e].mem <= attempts /\ ext[e].stored <= attempts
          /\ ext[e].identity.client <= minted
    /\ \A e \in Extensions, s \in Slots :
          /\ call[e][s].id <= attempts /\ call[e][s].client <= minted
          /\ call[e][s].op # "none" => call[e][s].id # None

\* An answer has a receiver, and a client is only in an accepted claim, whose
\* pairing the daemon has forgotten.
CallOK(l) ==
    /\ l.op = "none" => l.answer = "waiting"
    /\ l.answer # "waiting" => l.live
    /\ l.client # None => l.op = "claim" /\ l.answer = "ok"
    /\ l.op = "claim" /\ l.answer = "ok" => l.client # None /\ l.id \notin DOMAIN pending
CallsOK == \A e \in Extensions, s \in Slots : CallOK(call[e][s])

\* A claim that nothing overtook is one of the current pairing, unless another
\* claim has ended it.
Current(e, l) ==
    l.op = "claim" /\ l.live /\ ~l.overtaken =>
        ext[e].mem = l.id \/ (ext[e].mem = None /\ ext[e].identity # NoIdentity)
ClaimsCurrent == \A e \in Extensions, s \in Slots : Current(e, call[e][s])

\* The current pairing is in storage; a stored identity names a client.
ExtOK(x) ==
    /\ x.mem # None => x.stored = x.mem
    /\ x.identity # NoIdentity => x.identity.client # None
ExtsOK == \A e \in Extensions : ExtOK(ext[e])

\* A clients.pair call that the daemon has not read: nobody else has its identifier.
Unread(l) == l.op = "pair" /\ l.answer = "waiting"
Fresh(e, s, id) ==
    /\ id \notin DOMAIN pending
    /\ \A c \in Nat : ~RowFor(c, id)
    /\ \A f \in Extensions : ext[f].mem # id /\ ext[f].stored # id
    /\ \A f \in Extensions, t \in Slots :
          call[f][t].op # "none" /\ call[f][t].id = id => f = e /\ t = s
UnreadFresh ==
    \A e \in Extensions, s \in Slots : Unread(call[e][s]) => Fresh(e, s, call[e][s].id)

\* A request that is not approved has no row, one that is approved names its row.
PendingOK ==
    \A id \in DOMAIN pending : \A c, k \in Nat : RowFor(c, k) =>
        /\ pending[id] = None => k # id
        /\ pending[id] = c => k = id

\* The two tables together: one row per key and one key per client.
RowsOK ==
    \A c, d, k, l \in Nat : RowFor(c, k) /\ RowFor(d, l) => (c = d <=> k = l)

\* A client under way, and one that is stored, is the client of the pairing named.
Pinned ==
    /\ \A e \in Extensions, s \in Slots : \A k \in Nat :
          RowFor(call[e][s].client, k) => k = call[e][s].id
    /\ \A e \in Extensions : \A k \in Nat :
          RowFor(ext[e].identity.client, k) /\ ~ext[e].identity.overtaken
              => k = ext[e].identity.key

\* No two places hold one client.
Once ==
    /\ \A i, j \in DOMAIN pending : pending[i] = pending[j] /\ pending[i] # None => i = j
    /\ \A i \in DOMAIN pending : \A e \in Extensions, s \in Slots :
          pending[i] = call[e][s].client => pending[i] = None
    /\ \A i \in DOMAIN pending : \A e \in Extensions :
          pending[i] = ext[e].identity.client => pending[i] = None
    /\ \A e, f \in Extensions, s, t \in Slots :
          call[e][s].client = call[f][t].client /\ call[e][s].client # None => e = f /\ s = t
    /\ \A e, f \in Extensions, s \in Slots :
          call[e][s].client = ext[f].identity.client => call[e][s].client = None
    /\ \A e, f \in Extensions :
          ext[e].identity.client = ext[f].identity.client /\ ext[e].identity.client # None
              => e = f

IInv ==
    /\ Types /\ Bounds /\ CallsOK /\ ClaimsCurrent /\ ExtsOK /\ UnreadFresh
    /\ PendingOK /\ RowsOK /\ Pinned /\ Once

-------------------------------------------------------------------------------
(* The initial state.                                                      *)

\* Before the first request nothing is held anywhere.
LEMMA Initially == Init => IInv
  <1> SUFFICES ASSUME Init PROVE IInv
    OBVIOUS
  <1>1. Types
    BY DEF Init, Types, EmptyTable, NewExtension, NoIdentity, NoCall, None, Calls, Memories,
           Identities, Rows
  <1>2. /\ pending = EmptyTable /\ DOMAIN pending = {}
        /\ \A c, k : ~RowFor(c, k)
        /\ attempts = 0 /\ minted = 0
    BY DEF Init, EmptyTable, RowFor
  <1>3. ASSUME NEW e \in Extensions
        PROVE  /\ ext[e].mem = 0 /\ ext[e].stored = 0
               /\ ext[e].identity = NoIdentity /\ ext[e].identity.client = 0
    BY DEF Init, NewExtension, NoIdentity, None
  <1>4. ASSUME NEW e \in Extensions, NEW s \in Slots
        PROVE  /\ call[e][s].op = "none" /\ call[e][s].id = 0 /\ call[e][s].client = 0
               /\ call[e][s].answer = "waiting"
    BY DEF Init, NoCall, None
  <1>5. Bounds
    BY <1>2, <1>3, <1>4 DEF Bounds
  <1>6. CallsOK /\ ClaimsCurrent /\ ExtsOK /\ UnreadFresh
    BY <1>3, <1>4 DEF CallsOK, CallOK, ClaimsCurrent, Current, ExtsOK, ExtOK, UnreadFresh,
                      Unread, None
  <1>7. PendingOK /\ RowsOK /\ Pinned /\ Once
    BY <1>2, <1>3, <1>4 DEF PendingOK, RowsOK, Pinned, Once, None
  <1> QED
    BY <1>1, <1>5, <1>6, <1>7 DEF IInv

-------------------------------------------------------------------------------
(* Steps on which calls end or lose their receiver, and nothing is gained. *)

\* The slot is cleared, or the call goes on, perhaps without a receiver or overtaken.
Fades(l, m) ==
    \/ m = NoCall
    \/ /\ m.op = l.op /\ m.id = l.id /\ m.answer = l.answer /\ m.client = l.client
       /\ m.live => l.live
       /\ l.op = "claim" /\ l.overtaken => m.overtaken
       /\ m.answer # "waiting" => m.live

CallsFade == \A e \in Extensions, s \in Slots : Fades(call[e][s], call'[e][s])
RowsShrink == \A c, k \in Nat : RowFor(c, k)' => RowFor(c, k)
PendingShrinks ==
    /\ DOMAIN pending' \subseteq DOMAIN pending
    /\ \A id \in DOMAIN pending' : pending'[id] = pending[id]

\* An extension learns no identifier but from a call that was answered, and no
\* client but from a claim that it ends.
Learns ==
    \A e \in Extensions :
        /\ \A id \in {ext'[e].mem, ext'[e].stored} :
              \/ id \in {None, ext[e].mem, ext[e].stored}
              \/ \E s \in Slots : /\ call[e][s].op # "none" /\ ~Unread(call[e][s])
                                  /\ call[e][s].id = id
        /\ \/ ext'[e].identity = ext[e].identity
           \/ \E s \in Slots :
                 /\ call'[e][s] = NoCall
                 /\ ext'[e].identity.client = call[e][s].client
                 /\ ext'[e].identity.overtaken \/ ext'[e].identity.key = call[e][s].id

\* An extension may forget its current pairing when no claim of it goes on.
Forgets ==
    \A e \in Extensions :
        /\ ext'[e].identity = ext[e].identity
        /\ ext'[e].stored \in {ext[e].stored, None}
        /\ ext'[e].mem \in {ext[e].mem, None}
        /\ ext'[e].mem # None => ext'[e].stored = ext[e].stored
        /\ ext'[e].mem # ext[e].mem => \A s \in Slots :
              call'[e][s].op = "claim" /\ call'[e][s].live => call'[e][s].overtaken

\* The fields of a free slot.
LEMMA NoCallFields ==
    /\ NoCall \in Calls
    /\ NoCall.op = "none" /\ NoCall.id = None /\ NoCall.answer = "waiting"
    /\ NoCall.client = None /\ NoCall.live = FALSE /\ NoCall.overtaken = FALSE
  BY DEF NoCall, Calls, None

\* The fields of what a new extension remembers.
LEMMA NewExtensionFields ==
    /\ NewExtension \in Memories
    /\ NewExtension.mem = None /\ NewExtension.stored = None
    /\ NewExtension.identity = NoIdentity
    /\ NoIdentity \in Identities /\ NoIdentity.client = None
  BY DEF NewExtension, NoIdentity, Memories, Identities, None

\* A step on which the calls fade and the tables and the requests shrink keeps the
\* invariant if the extensions keep theirs.
LEMMA FadeStep ==
    ASSUME IInv, Types', attempts' = attempts, minted' = minted,
           CallsFade, RowsShrink, PendingShrinks, Learns, ExtsOK', ClaimsCurrent'
    PROVE  IInv'
  <1> USE NoCallFields DEF None
  <1>0. Types /\ Bounds /\ CallsOK /\ ClaimsCurrent /\ ExtsOK /\ UnreadFresh /\ PendingOK
        /\ RowsOK /\ Pinned /\ Once
    BY DEF IInv
  <1>1. Bounds'
    <2>1. \A id \in DOMAIN pending' : id # None /\ id <= attempts' /\ pending'[id] <= minted'
      BY <1>0 DEF Bounds, PendingShrinks
    <2>2. \A c, k \in Nat : RowFor(c, k)' =>
              c # None /\ c <= minted' /\ k # None /\ k <= attempts'
      BY <1>0 DEF Bounds, RowsShrink
    <2>3. ASSUME NEW e \in Extensions
          PROVE  /\ ext'[e].mem <= attempts' /\ ext'[e].stored <= attempts'
                 /\ ext'[e].identity.client <= minted'
      <3>1. attempts' \in Nat
        BY DEF Types
      <3>2. ASSUME NEW id \in {ext'[e].mem, ext'[e].stored} PROVE id <= attempts'
        BY <1>0, <3>1 DEF Bounds, Learns
      <3> QED
        BY <1>0, <3>2 DEF Bounds, Learns
    <2>4. ASSUME NEW e \in Extensions, NEW s \in Slots
          PROVE  /\ call'[e][s].id <= attempts' /\ call'[e][s].client <= minted'
                 /\ call'[e][s].op # "none" => call'[e][s].id # None
      <3>1. Fades(call[e][s], call'[e][s])
        BY DEF CallsFade
      <3> QED
        BY <1>0, <3>1 DEF Fades, Bounds, Types
    <2> QED
      BY <2>1, <2>2, <2>3, <2>4 DEF Bounds
  <1>2. CallsOK'
    <2> SUFFICES ASSUME NEW e \in Extensions, NEW s \in Slots PROVE CallOK(call[e][s])'
      BY DEF CallsOK
    <2>1. Fades(call[e][s], call'[e][s]) /\ CallOK(call[e][s])
      BY <1>0 DEF CallsFade, CallsOK
    <2> QED
      BY <2>1 DEF Fades, CallOK, PendingShrinks
  <1>5. UnreadFresh'
    <2> SUFFICES ASSUME NEW e \in Extensions, NEW s \in Slots, Unread(call'[e][s])
                 PROVE  Fresh(e, s, call[e][s].id)'
      BY DEF UnreadFresh
    <2> DEFINE id == call[e][s].id
    <2>1. Unread(call[e][s]) /\ call'[e][s].id = id /\ id \in Nat /\ id # None
      <3>1. Fades(call[e][s], call'[e][s])
        BY DEF CallsFade
      <3> QED
        BY <1>0, <3>1 DEF Fades, Unread, Bounds, Types, Calls
    <2>2. Fresh(e, s, id)
      BY <1>0, <2>1 DEF UnreadFresh
    <2>3. id \notin DOMAIN pending' /\ (\A c \in Nat : ~RowFor(c, id)')
      BY <2>1, <2>2 DEF Fresh, PendingShrinks, RowsShrink
    <2>4. \A f \in Extensions : ext'[f].mem # id /\ ext'[f].stored # id
      BY <2>1, <2>2 DEF Fresh, Learns
    <2>5. ASSUME NEW f \in Extensions, NEW t \in Slots,
                 call'[f][t].op # "none", call'[f][t].id = id
          PROVE  f = e /\ t = s
      <3>1. Fades(call[f][t], call'[f][t])
        BY DEF CallsFade
      <3> QED
        BY <2>2, <2>5, <3>1 DEF Fades, Fresh
    <2> QED
      BY <2>1, <2>3, <2>4, <2>5 DEF Fresh
  <1>6. PendingOK' /\ RowsOK'
    BY <1>0 DEF PendingOK, RowsOK, PendingShrinks, RowsShrink
  <1>7. Pinned'
    <2>1. ASSUME NEW e \in Extensions, NEW s \in Slots, NEW k \in Nat,
                 NEW c \in Nat, c = call'[e][s].client, RowFor(c, k)'
          PROVE  k = call'[e][s].id
      <3>1. Fades(call[e][s], call'[e][s])
        BY DEF CallsFade
      <3>2. RowFor(c, k) /\ c # None
        BY <1>0, <2>1 DEF RowsShrink, Bounds
      <3> QED
        BY <1>0, <2>1, <3>1, <3>2 DEF Fades, Pinned
    <2>2. ASSUME NEW e \in Extensions, NEW k \in Nat, ~ext'[e].identity.overtaken,
                 NEW c \in Nat, c = ext'[e].identity.client, RowFor(c, k)'
          PROVE  k = ext'[e].identity.key
      <3>1. RowFor(c, k)
        BY <2>2 DEF RowsShrink
      <3>2. CASE ext'[e].identity = ext[e].identity
        BY <1>0, <2>2, <3>1, <3>2 DEF Pinned
      <3>3. ASSUME NEW s \in Slots, c = call[e][s].client,
                   ext'[e].identity.key = call[e][s].id
            PROVE  k = ext'[e].identity.key
        BY <1>0, <3>1, <3>3 DEF Pinned
      <3> QED
        BY <2>2, <3>2, <3>3 DEF Learns
    <2>3. /\ \A e \in Extensions, s \in Slots : call'[e][s].client \in Nat
          /\ \A e \in Extensions : ext'[e].identity.client \in Nat
      BY DEF Types, Calls, Memories, Identities
    <2> QED
      BY <2>1, <2>2, <2>3 DEF Pinned
  <1>8. Once'
    <2>1. \A e \in Extensions, s \in Slots : call'[e][s].client \in {call[e][s].client, None}
      BY DEF CallsFade, Fades
    <2>2. \A e \in Extensions :
             \/ ext'[e].identity.client = ext[e].identity.client
             \/ \E s \in Slots : /\ call'[e][s].client = None
                                 /\ ext'[e].identity.client = call[e][s].client
      BY DEF Learns
    <2>3. \A i \in DOMAIN pending' : i \in DOMAIN pending /\ pending'[i] = pending[i]
      BY DEF PendingShrinks
    <2>4. \A i, j \in DOMAIN pending' :
             pending'[i] = pending'[j] /\ pending'[i] # None => i = j
      BY <1>0, <2>3 DEF Once
    <2>5. \A i \in DOMAIN pending' : \A e \in Extensions, s \in Slots :
             pending'[i] = call'[e][s].client => pending'[i] = None
      BY <1>0, <2>1, <2>3 DEF Once
    <2>6. \A i \in DOMAIN pending' : \A e \in Extensions :
             pending'[i] = ext'[e].identity.client => pending'[i] = None
      BY <1>0, <2>2, <2>3 DEF Once
    <2>7. \A e, f \in Extensions, s, t \in Slots :
             call'[e][s].client = call'[f][t].client /\ call'[e][s].client # None
                 => e = f /\ s = t
      BY <1>0, <2>1 DEF Once
    <2>8. \A e, f \in Extensions, s \in Slots :
             call'[e][s].client = ext'[f].identity.client => call'[e][s].client = None
      BY <1>0, <2>1, <2>2 DEF Once
    <2>9. \A e, f \in Extensions :
             ext'[e].identity.client = ext'[f].identity.client
               /\ ext'[e].identity.client # None => e = f
      BY <1>0, <2>2 DEF Once
    <2> QED
      BY <2>4, <2>5, <2>6, <2>7, <2>8, <2>9 DEF Once
  <1> QED
    BY <1>1, <1>2, <1>5, <1>6, <1>7, <1>8 DEF IInv

\* A step on which the extensions only forget keeps the invariant.
LEMMA QuietStep ==
    ASSUME IInv, Types', attempts' = attempts, minted' = minted,
           CallsFade, RowsShrink, PendingShrinks, Forgets
    PROVE  IInv'
  <1>1. Learns
    BY DEF Learns, Forgets
  <1>2. ExtsOK'
    BY DEF IInv, ExtsOK, ExtOK, Forgets
  <1>3. ClaimsCurrent'
    <2> SUFFICES ASSUME NEW e \in Extensions, NEW s \in Slots PROVE Current(e, call[e][s])'
      BY DEF ClaimsCurrent
    <2>1. Fades(call[e][s], call'[e][s]) /\ Current(e, call[e][s])
      BY DEF CallsFade, ClaimsCurrent, IInv
    <2> QED
      BY <2>1, NoCallFields DEF Fades, Current, Forgets
  <1> QED
    BY <1>1, <1>2, <1>3, FadeStep

\* A step that leaves the calls alone lets them fade.
LEMMA SameCalls == ASSUME IInv, call' = call PROVE CallsFade
  BY DEF IInv, CallsOK, CallOK, CallsFade, Fades

\* A step that leaves the tables, or the requests, or the extensions alone.
LEMMA SameRows == ASSUME clients' = clients, backup' = backup PROVE RowsShrink
  BY DEF RowsShrink, RowFor
LEMMA SamePending == ASSUME pending' = pending PROVE PendingShrinks
  BY DEF PendingShrinks
LEMMA SameExt == ASSUME IInv, ext' = ext PROVE Forgets
  BY DEF IInv, ExtsOK, ExtOK, Forgets

\* Sever clears slots or takes their receiver away.
LEMMA SeverFades ==
    ASSUME IInv, NEW e \in Extensions, NEW lost \in SUBSET Slots,
           call' = [call EXCEPT ![e] = Sever(e, lost)]
    PROVE  /\ call' \in [Extensions -> [Slots -> Calls]]
           /\ CallsFade
           /\ \A s \in lost : ~call'[e][s].live
  <1> USE NoCallFields
  <1>1. call \in [Extensions -> [Slots -> Calls]] /\ CallsOK
    BY DEF IInv, Types
  <1>2. ASSUME NEW s \in Slots
        PROVE  /\ Sever(e, lost)[s] \in Calls
               /\ Fades(call[e][s], Sever(e, lost)[s])
               /\ s \in lost => ~Sever(e, lost)[s].live
    <2>1. call[e][s] \in Calls /\ CallOK(call[e][s])
      BY <1>1 DEF CallsOK
    <2>2. CASE s \notin lost
      <3>1. Sever(e, lost)[s] = call[e][s]
        BY <2>2 DEF Sever
      <3> QED
        BY <2>1, <2>2, <3>1 DEF Fades, CallOK
    <2>3. CASE s \in lost /\ call[e][s].op # "none" /\ call[e][s].answer = "waiting"
      <3> DEFINE m == [call[e][s] EXCEPT !.live = FALSE]
      <3>1. Sever(e, lost)[s] = m
        BY <2>3 DEF Sever
      <3>2. /\ m \in Calls /\ m.op = call[e][s].op /\ m.id = call[e][s].id
            /\ m.answer = call[e][s].answer /\ m.client = call[e][s].client
            /\ m.live = FALSE /\ m.overtaken = call[e][s].overtaken
        BY <2>1 DEF Calls
      <3> HIDE DEF m
      <3> QED
        BY <2>3, <3>1, <3>2 DEF Fades
    <2>4. CASE s \in lost /\ ~(call[e][s].op # "none" /\ call[e][s].answer = "waiting")
      <3>1. Sever(e, lost)[s] = NoCall
        BY <2>4 DEF Sever
      <3> QED
        BY <3>1 DEF Fades
    <2> QED
      BY <2>2, <2>3, <2>4
  <1>3. /\ \A f \in Extensions : f # e => call'[f] = call[f]
        /\ call'[e] = Sever(e, lost)
        /\ DOMAIN Sever(e, lost) = Slots
    BY <1>1 DEF Sever
  <1>4. Sever(e, lost) \in [Slots -> Calls]
    BY <1>2 DEF Sever
  <1>5. call' \in [Extensions -> [Slots -> Calls]]
    BY <1>1, <1>4
  <1>6. CallsFade
    <2> SUFFICES ASSUME NEW f \in Extensions, NEW s \in Slots
                 PROVE  Fades(call[f][s], call'[f][s])
      BY DEF CallsFade
    <2>1. CASE f = e
      BY <1>2, <1>3, <2>1
    <2>2. CASE f # e
      BY <1>1, <1>3, <2>2 DEF Fades, CallsOK, CallOK
    <2> QED
      BY <2>1, <2>2
  <1> QED
    BY <1>2, <1>3, <1>5, <1>6

\* Clearing one slot.
LEMMA ClearFades ==
    ASSUME IInv, NEW e \in Extensions, NEW s \in Slots,
           call' = [call EXCEPT ![e][s] = NoCall]
    PROVE  call' \in [Extensions -> [Slots -> Calls]] /\ CallsFade
  <1>1. call \in [Extensions -> [Slots -> Calls]] /\ CallsOK
    BY DEF IInv, Types
  <1>2. call' \in [Extensions -> [Slots -> Calls]]
    BY <1>1, NoCallFields
  <1>3. \A f \in Extensions, t \in Slots : call'[f][t] \in {call[f][t], NoCall}
    BY <1>1
  <1> QED
    BY <1>1, <1>2, <1>3 DEF CallsFade, Fades, CallsOK, CallOK

\* A restart closes every connection; the answers that are under way stay.
LEMMA EndFades ==
    ASSUME IInv, ProcessEnds
    PROVE  /\ call' \in [Extensions -> [Slots -> Calls]] /\ CallsFade
           /\ ext' \in [Extensions -> Memories] /\ Forgets
           /\ pending' = EmptyTable /\ DOMAIN pending' = {}
           /\ \A e \in Extensions, s \in Slots : ~Unread(call'[e][s])
  <1> USE NoCallFields
  <1>1. /\ call \in [Extensions -> [Slots -> Calls]] /\ CallsOK
        /\ ext \in [Extensions -> Memories] /\ ExtsOK
    BY DEF IInv, Types
  <1>2. \A e \in Extensions, s \in Slots :
           call'[e][s] = IF call[e][s].answer = "waiting" THEN NoCall ELSE call[e][s]
    BY DEF ProcessEnds
  <1>3. call' \in [Extensions -> [Slots -> Calls]]
    BY <1>1 DEF ProcessEnds
  <1>4. CallsFade
    BY <1>1, <1>2 DEF CallsFade, Fades, CallsOK, CallOK
  <1>5. ext' \in [Extensions -> Memories]
    BY <1>1 DEF ProcessEnds, Memories
  <1>6. Forgets
    BY <1>1 DEF ProcessEnds, Forgets, Memories, ExtsOK, ExtOK
  <1>7. \A e \in Extensions, s \in Slots : ~Unread(call'[e][s])
    BY <1>2 DEF Unread
  <1>8. pending' = EmptyTable /\ DOMAIN pending' = {}
    BY DEF ProcessEnds, EmptyTable
  <1> QED
    BY <1>3, <1>4, <1>5, <1>6, <1>7, <1>8

\* The user's Cancel, a lost connection, a reaped worker, an unread request, a
\* cancellation, a revocation, a lock, a backup, a restore and a restart.
LEMMA QuietSteps ==
    ASSUME IInv,
           \/ \E e \in Extensions : \/ resetPairing(e) \/ Disconnect(e)
                                    \/ ReapBusyWorker(e) \/ ReapIdleWorker(e)
           \/ \E e \in Extensions, s \in Slots : Vanish(e, s)
           \/ \E id \in Attempts : opCancel(id)
           \/ \E c \in ClientIDs : Revoke(c)
           \/ ToggleLock \/ BackupCreate \/ BackupRestore \/ Restart
    PROVE  IInv'
  <1>0. Types
    BY DEF IInv
  <1>1. ASSUME NEW e \in Extensions, resetPairing(e) PROVE IInv'
    <2> DEFINE lost == {s \in Slots : call[e][s].id = ext[e].mem}
    <2>1. call' = [call EXCEPT ![e] = Sever(e, lost)]
      BY <1>1 DEF resetPairing
    <2>2. /\ call' \in [Extensions -> [Slots -> Calls]] /\ CallsFade
          /\ \A s \in lost : ~call'[e][s].live
      <3> HIDE DEF lost
      <3>1. lost \in SUBSET Slots
        BY DEF lost
      <3> QED
        BY <2>1, <3>1, SeverFades
    <2>3. Types'
      BY <1>0, <1>1, <2>2, NewExtensionFields DEF Types, resetPairing
    <2>4. Forgets
      <3>1. /\ ext'[e] = NewExtension /\ ext[e].identity = NoIdentity
            /\ \A f \in Extensions : f # e => ext'[f] = ext[f]
        BY <1>0, <1>1 DEF resetPairing, Types
      <3>2. ASSUME NEW s \in Slots, call'[e][s].op = "claim", call'[e][s].live
            PROVE  call'[e][s].overtaken
        <4>1. Fades(call[e][s], call'[e][s]) /\ Current(e, call[e][s]) /\ s \notin lost
          BY <2>2, <3>2 DEF CallsFade, IInv, ClaimsCurrent
        <4>2. call[e][s].id # ext[e].mem
          BY <4>1
        <4> QED
          BY <3>1, <3>2, <4>1, <4>2, NoCallFields DEF Fades, Current
      <3> QED
        BY <3>1, <3>2, NewExtensionFields DEF Forgets, IInv, ExtsOK, ExtOK
    <2>5. RowsShrink /\ PendingShrinks /\ attempts' = attempts /\ minted' = minted
      BY <1>1, SameRows, SamePending DEF resetPairing
    <2> QED
      BY <2>2, <2>3, <2>4, <2>5, QuietStep
  <1>2. ASSUME NEW e \in Extensions, Disconnect(e) \/ ReapBusyWorker(e) PROVE IInv'
    <2>1. call' = [call EXCEPT ![e] = Sever(e, Slots)]
      BY <1>2 DEF Disconnect, ReapBusyWorker
    <2>2. /\ call' \in [Extensions -> [Slots -> Calls]] /\ CallsFade
          /\ \A s \in Slots : ~call'[e][s].live
      BY <2>1, SeverFades
    <2>3. ext' \in [Extensions -> Memories]
      <3>1. CASE Disconnect(e)
        BY <1>0, <3>1 DEF Types, Disconnect, Memories
      <3>2. CASE ReapBusyWorker(e)
        BY <1>0, <3>2 DEF Types, ReapBusyWorker, Memories, None
      <3> QED
        BY <1>2, <3>1, <3>2
    <2>4. /\ \A f \in Extensions : f # e => ext'[f] = ext[f]
          /\ ext'[e].identity = ext[e].identity /\ ext'[e].stored = ext[e].stored
          /\ ext'[e].mem \in {ext[e].mem, None}
      BY <1>0, <1>2 DEF Types, Disconnect, ReapBusyWorker, Memories
    <2>5. Forgets
      BY <2>2, <2>4 DEF Forgets, IInv, ExtsOK, ExtOK
    <2>6. Types'
      BY <1>0, <1>2, <2>2, <2>3 DEF Types, Disconnect, ReapBusyWorker
    <2>7. RowsShrink /\ PendingShrinks /\ attempts' = attempts /\ minted' = minted
      BY <1>2, SameRows, SamePending DEF Disconnect, ReapBusyWorker
    <2> QED
      BY <2>2, <2>5, <2>6, <2>7, QuietStep
  <1>3. ASSUME NEW e \in Extensions, ReapIdleWorker(e) PROVE IInv'
    <2>1. call' = call /\ CallsFade /\ (\A s \in Slots : ~call[e][s].live)
      BY <1>3, SameCalls DEF ReapIdleWorker
    <2>3. ext' \in [Extensions -> Memories]
      BY <1>0, <1>3 DEF Types, ReapIdleWorker, Memories, None
    <2>4. /\ \A f \in Extensions : f # e => ext'[f] = ext[f]
          /\ ext'[e].identity = ext[e].identity /\ ext'[e].stored = ext[e].stored
          /\ ext'[e].mem = None
      BY <1>0, <1>3 DEF Types, ReapIdleWorker, Memories
    <2>5. Forgets
      BY <2>1, <2>4 DEF Forgets, IInv, ExtsOK, ExtOK
    <2>6. Types'
      BY <1>0, <1>3, <2>3 DEF Types, ReapIdleWorker
    <2>7. RowsShrink /\ PendingShrinks /\ attempts' = attempts /\ minted' = minted
      BY <1>3, SameRows, SamePending DEF ReapIdleWorker
    <2> QED
      BY <2>1, <2>5, <2>6, <2>7, QuietStep
  <1>4. ASSUME NEW e \in Extensions, NEW s \in Slots, Vanish(e, s) PROVE IInv'
    <2>1. call' \in [Extensions -> [Slots -> Calls]] /\ CallsFade
      BY <1>4, ClearFades DEF Vanish
    <2>2. Types'
      BY <1>0, <1>4, <2>1 DEF Types, Vanish
    <2>3. /\ RowsShrink /\ PendingShrinks /\ Forgets
          /\ attempts' = attempts /\ minted' = minted
      BY <1>4, SameRows, SamePending, SameExt DEF Vanish
    <2> QED
      BY <2>1, <2>2, <2>3, QuietStep
  <1>5. ASSUME NEW id \in Attempts, opCancel(id) PROVE IInv'
    <2>1. DOMAIN pending' = DOMAIN pending \ {id}
          /\ \A i \in DOMAIN pending' : pending'[i] = pending[i]
      BY <1>5 DEF opCancel, Drop
    <2>2. pending' \in [DOMAIN pending' -> Nat]
      BY <1>0, <1>5 DEF opCancel, Drop, Types
    <2>3. Types'
      BY <1>0, <1>5, <2>1, <2>2 DEF Types, opCancel
    <2>4. /\ RowsShrink /\ PendingShrinks /\ Forgets /\ CallsFade
          /\ attempts' = attempts /\ minted' = minted
      BY <1>5, <2>1, SameRows, SameCalls, SameExt DEF opCancel, PendingShrinks
    <2> QED
      BY <2>3, <2>4, QuietStep
  <1>6. ASSUME NEW c \in ClientIDs, Revoke(c) PROVE IInv'
    <2>1. clients' \in [DOMAIN clients -> Rows] /\ DOMAIN clients' = DOMAIN clients
      BY <1>0, <1>6 DEF Revoke, Types, Rows
    <2>2. \A d \in DOMAIN clients : clients'[d].key = clients[d].key
      BY <1>0, <1>6 DEF Revoke, Types, Rows
    <2>3. Types'
      BY <1>0, <1>6, <2>1 DEF Types, Revoke
    <2>4. RowsShrink
      BY <1>6, <2>1, <2>2 DEF RowsShrink, RowFor, Revoke
    <2>5. /\ PendingShrinks /\ Forgets /\ CallsFade
          /\ attempts' = attempts /\ minted' = minted
      BY <1>6, SamePending, SameCalls, SameExt DEF Revoke
    <2> QED
      BY <2>3, <2>4, <2>5, QuietStep
  <1>7. ASSUME ToggleLock \/ BackupCreate \/ BackupRestore PROVE IInv'
    <2>1. Types'
      BY <1>0, <1>7 DEF Types, ToggleLock, BackupCreate, BackupRestore
    <2>2. RowsShrink
      BY <1>7 DEF RowsShrink, RowFor, ToggleLock, BackupCreate, BackupRestore
    <2>3. /\ PendingShrinks /\ Forgets /\ CallsFade
          /\ attempts' = attempts /\ minted' = minted
      BY <1>7, SamePending, SameCalls, SameExt DEF ToggleLock, BackupCreate, BackupRestore
    <2> QED
      BY <2>1, <2>2, <2>3, QuietStep
  <1>8. ASSUME Restart PROVE IInv'
    <2>1. /\ call' \in [Extensions -> [Slots -> Calls]] /\ CallsFade
          /\ ext' \in [Extensions -> Memories] /\ Forgets
          /\ pending' = EmptyTable /\ DOMAIN pending' = {}
      BY <1>8, EndFades DEF Restart
    <2>2. pending' \in [DOMAIN pending' -> Nat]
      BY <2>1 DEF EmptyTable
    <2>3. Types'
      BY <1>0, <1>8, <2>1, <2>2 DEF Types, Restart, ProcessEnds
    <2>4. RowsShrink /\ PendingShrinks /\ attempts' = attempts /\ minted' = minted
      BY <1>8, <2>1, SameRows DEF Restart, ProcessEnds, PendingShrinks
    <2> QED
      BY <2>1, <2>3, <2>4, QuietStep
  <1> QED
    BY <1>1, <1>2, <1>3, <1>4, <1>5, <1>6, <1>7, <1>8

-------------------------------------------------------------------------------
(* Steps that end a call of the extension.                                 *)

\* startPairing goes on: the pairing that was answered becomes the current one.
LEMMA PairAnsweredStep ==
    ASSUME IInv, NEW e \in Extensions, NEW s \in Slots, PairAnswered(e, s)
    PROVE  IInv'
  <1> USE NoCallFields
  <1> DEFINE id == call[e][s].id
             over(t) == [call[e][t] EXCEPT !.overtaken = Overtakes(e, t)]
             new == [t \in Slots |-> IF t = s THEN NoCall ELSE over(t)]
  <1>0. /\ Types /\ CallsOK /\ ClaimsCurrent /\ ExtsOK
        /\ call[e][s] \in Calls /\ ext[e] \in Memories
    BY DEF IInv, Types
  <1>1. /\ call[e][s].op = "pair" /\ call[e][s].answer # "waiting"
        /\ id \in Nat /\ id # None
    BY <1>0 DEF PairAnswered, Answered, IInv, Bounds, Calls
  <1>2. ASSUME NEW t \in Slots
        PROVE  /\ over(t) \in Calls /\ over(t).op = call[e][t].op /\ over(t).id = call[e][t].id
               /\ over(t).answer = call[e][t].answer /\ over(t).client = call[e][t].client
               /\ over(t).live = call[e][t].live
               /\ Overtakes(e, t) => over(t).overtaken
               /\ over(t).overtaken => Overtakes(e, t)
    <2>1. Overtakes(e, t) \in BOOLEAN /\ call[e][t] \in Calls
      BY <1>0 DEF Overtakes, Types
    <2>2. /\ over(t) \in Calls /\ over(t).op = call[e][t].op /\ over(t).id = call[e][t].id
          /\ over(t).answer = call[e][t].answer /\ over(t).client = call[e][t].client
          /\ over(t).live = call[e][t].live
      BY <2>1 DEF Calls
    <2>3. CASE Overtakes(e, t) = TRUE
      BY <2>1, <2>2, <2>3 DEF Calls
    <2>4. CASE Overtakes(e, t) = FALSE
      BY <2>1, <2>2, <2>4 DEF Calls
    <2> QED
      BY <2>1, <2>3, <2>4
  <1>3. \A t \in Slots : call[e][t].overtaken /\ call[e][t].op = "claim" => Overtakes(e, t)
    BY DEF Overtakes
  <1>4. call' = [call EXCEPT ![e] = new]
    BY DEF PairAnswered
  <1>5. /\ \A f \in Extensions : f # e => call'[f] = call[f]
        /\ \A t \in Slots : call'[e][t] = IF t = s THEN NoCall ELSE over(t)
    BY <1>0, <1>4 DEF Types
  <1>6. call' \in [Extensions -> [Slots -> Calls]]
    <2> HIDE DEF over
    <2>1. new \in [Slots -> Calls]
      BY <1>2
    <2> HIDE DEF new
    <2> QED
      BY <1>0, <1>4, <2>1 DEF Types
  <1> HIDE DEF over, new
  <1>7. /\ ext' \in [Extensions -> Memories]
        /\ \A f \in Extensions : f # e => ext'[f] = ext[f]
        /\ ext'[e].mem = id /\ ext'[e].stored = id /\ ext'[e].identity = ext[e].identity
    BY <1>0, <1>1 DEF PairAnswered, Types, Memories
  <1>8. Types' /\ attempts' = attempts /\ minted' = minted
    BY <1>0, <1>6, <1>7 DEF PairAnswered, Types
  <1>9. CallsFade
    <2> SUFFICES ASSUME NEW f \in Extensions, NEW t \in Slots
                 PROVE  Fades(call[f][t], call'[f][t])
      BY DEF CallsFade
    <2>1. CallOK(call[f][t])
      BY <1>0 DEF CallsOK
    <2>2. CASE f # e
      BY <1>5, <2>1, <2>2 DEF Fades, CallOK
    <2>3. CASE f = e /\ t = s
      BY <1>5, <2>3 DEF Fades
    <2>4. CASE f = e /\ t # s
      <3>1. call'[e][t] = over(t) /\ (call[e][t].answer # "waiting" => call[e][t].live)
        BY <1>5, <2>1, <2>4 DEF CallOK
      <3> QED
        BY <1>2, <1>3, <2>4, <3>1 DEF Fades
    <2> QED
      BY <2>2, <2>3, <2>4
  <1>10. RowsShrink /\ PendingShrinks
    BY SameRows, SamePending DEF PairAnswered
  <1>11. Learns
    BY <1>1, <1>7 DEF Learns, Unread
  <1>12. ExtsOK'
    BY <1>0, <1>7 DEF ExtsOK, ExtOK
  <1>13. ClaimsCurrent'
    <2> SUFFICES ASSUME NEW f \in Extensions, NEW t \in Slots PROVE Current(f, call[f][t])'
      BY DEF ClaimsCurrent
    <2>1. Current(f, call[f][t])
      BY <1>0 DEF ClaimsCurrent
    <2>2. CASE f # e
      BY <1>5, <1>7, <2>1, <2>2 DEF Current
    <2>3. CASE f = e /\ t = s
      BY <1>5, <2>3 DEF Current
    <2>4. CASE f = e /\ t # s
      <3>1. call'[e][t] = over(t)
        BY <1>5, <2>4
      <3>2. ~(call[e][t].op = "claim" /\ call[e][t].live /\ ~Overtakes(e, t))
        <4>1. call[e][t].op = "claim" => call[e][t].id # None
          BY DEF IInv, Bounds
        <4> QED
          BY <2>1, <2>4, <4>1 DEF Current, Overtakes
      <3> QED
        BY <1>2, <2>4, <3>1, <3>2 DEF Current
    <2> QED
      BY <2>2, <2>3, <2>4
  <1> QED
    BY <1>8, <1>9, <1>10, <1>11, <1>12, <1>13, FadeStep

\* claimPairing goes on: the identity is saved with the key of the current pairing.
LEMMA ClaimAnsweredStep ==
    ASSUME IInv, NEW e \in Extensions, NEW s \in Slots, ClaimAnswered(e, s)
    PROVE  IInv'
  <1> USE NoCallFields, NewExtensionFields
  <1> DEFINE l == call[e][s]
             identity == [client |-> l.client, key |-> ext[e].mem, overtaken |-> l.overtaken]
             fresh == [NewExtension EXCEPT !.identity = identity]
  <1>0. /\ Types /\ CallsOK /\ ClaimsCurrent /\ ExtsOK
        /\ l \in Calls /\ ext[e] \in Memories
    BY DEF IInv, Types
  <1>1. l.op = "claim" /\ l.live
    BY DEF ClaimAnswered, Answered
  <1>2. call' \in [Extensions -> [Slots -> Calls]] /\ CallsFade
    BY ClearFades DEF ClaimAnswered
  <1>3. /\ call'[e][s] = NoCall
        /\ \A f \in Extensions, t \in Slots : call'[f][t] \in {call[f][t], NoCall}
        /\ \A f \in Extensions : f # e => call'[f] = call[f]
    BY <1>0 DEF ClaimAnswered, Types
  <1>4. RowsShrink /\ PendingShrinks /\ attempts' = attempts /\ minted' = minted
    BY SameRows, SamePending DEF ClaimAnswered
  <1>5. CASE ~(l.answer = "ok" /\ ext[e].mem # None)
    <2>1. ext' = ext
      BY <1>5 DEF ClaimAnswered
    <2>2. Types'
      BY <1>0, <1>2, <2>1 DEF ClaimAnswered, Types
    <2> QED
      BY <1>2, <1>4, <2>1, <2>2, SameExt, QuietStep
  <1>6. CASE l.answer = "ok" /\ ext[e].mem # None
    <2>1. ext' = [ext EXCEPT ![e] = fresh]
      BY <1>6 DEF ClaimAnswered
    <2>2. identity \in Identities /\ identity # NoIdentity /\ identity.client = l.client
          /\ identity.key = ext[e].mem /\ identity.overtaken = l.overtaken /\ l.client # None
      <3>1. l.client # None
        BY <1>0, <1>1, <1>6 DEF CallsOK, CallOK
      <3> QED
        BY <1>0, <3>1 DEF Identities, Calls, Memories, NoIdentity
    <2> HIDE DEF identity
    <2>3. fresh \in Memories /\ fresh.mem = None /\ fresh.stored = None
          /\ fresh.identity = identity
      BY <2>2 DEF Memories, NewExtension, None
    <2> HIDE DEF fresh
    <2>4. /\ ext' \in [Extensions -> Memories] /\ ext'[e] = fresh
          /\ \A f \in Extensions : f # e => ext'[f] = ext[f]
      BY <1>0, <2>1, <2>3 DEF Types
    <2>5. Types'
      BY <1>0, <1>2, <2>4 DEF ClaimAnswered, Types
    <2>6. l.overtaken \/ ext[e].mem = l.id
      BY <1>0, <1>1, <1>6 DEF ClaimsCurrent, Current
    <2>7. Learns
      BY <1>3, <2>2, <2>3, <2>4, <2>6 DEF Learns
    <2>8. ExtsOK'
      BY <1>0, <2>2, <2>3, <2>4 DEF ExtsOK, ExtOK
    <2>9. ClaimsCurrent'
      <3> SUFFICES ASSUME NEW f \in Extensions, NEW t \in Slots PROVE Current(f, call[f][t])'
        BY DEF ClaimsCurrent
      <3>1. Current(f, call[f][t])
        BY <1>0 DEF ClaimsCurrent
      <3>2. CASE f = e
        BY <2>2, <2>3, <2>4, <3>2 DEF Current
      <3>3. CASE f # e
        BY <1>3, <2>4, <3>1, <3>3 DEF Current
      <3> QED
        BY <3>2, <3>3
    <2> QED
      BY <1>2, <1>4, <2>5, <2>7, <2>8, <2>9, FadeStep
  <1> QED
    BY <1>5, <1>6

-------------------------------------------------------------------------------
(* Steps that make a call or answer one.                                   *)

\* The call in slot s of e is now m.
Becomes(e, s, m) ==
    /\ call' \in [Extensions -> [Slots -> Calls]]
    /\ call'[e][s] = m
    /\ \A f \in Extensions, t \in Slots : f # e \/ t # s => call'[f][t] = call[f][t]

\* One slot is written.
LEMMA SlotWritten ==
    ASSUME Types, NEW e \in Extensions, NEW s \in Slots, NEW m \in Calls,
           call' = [call EXCEPT ![e][s] = m]
    PROVE  Becomes(e, s, m)
  BY DEF Types, Becomes

\* Send fills a slot with a call that waits for its answer.
LEMMA Sends ==
    ASSUME Types, NEW e \in Extensions, NEW s \in Slots, NEW op \in {"pair", "claim"},
           NEW id \in Nat, Send(e, s, op, id)
    PROVE  \E m \in Calls :
              /\ Becomes(e, s, m)
              /\ m.op = op /\ m.id = id /\ m.answer = "waiting" /\ m.client = None
              /\ m.live = TRUE /\ m.overtaken = FALSE
  <1> DEFINE m == [NoCall EXCEPT !.op = op, !.id = id, !.live = TRUE]
  <1>1. /\ m \in Calls /\ m.op = op /\ m.id = id /\ m.answer = "waiting" /\ m.client = None
        /\ m.live = TRUE /\ m.overtaken = FALSE
    BY DEF NoCall, Calls, None
  <1>2. call' = [call EXCEPT ![e][s] = m]
    BY DEF Send
  <1> HIDE DEF m
  <1> QED
    BY <1>1, <1>2, SlotWritten

\* Answer reaches the caller, or clears the slot of a caller that has gone.
LEMMA Answers ==
    ASSUME Types, NEW e \in Extensions, NEW s \in Slots, NEW client \in Nat,
           NEW answer \in {"ok", "not_found", "denied"}, Answer(e, s, answer, client)
    PROVE  \E m \in Calls :
              /\ Becomes(e, s, m)
              /\ ~call[e][s].live => m = NoCall
              /\ call[e][s].live =>
                    /\ m.op = call[e][s].op /\ m.id = call[e][s].id /\ m.answer = answer
                    /\ m.client = client /\ m.live
                    /\ call[e][s].overtaken => m.overtaken
                    /\ m.overtaken => call[e][s].overtaken
  <1> USE NoCallFields
  <1> DEFINE m == [call[e][s] EXCEPT !.answer = answer, !.client = client]
  <1>0. call \in [Extensions -> [Slots -> Calls]] /\ call[e][s] \in Calls
    BY DEF Types
  <1>1. /\ m \in Calls /\ m.op = call[e][s].op /\ m.id = call[e][s].id /\ m.answer = answer
        /\ m.client = client /\ m.live = call[e][s].live
        /\ m.overtaken = call[e][s].overtaken
    BY <1>0 DEF Calls
  <1>2. CASE call[e][s].live
    <2>1. call' = [call EXCEPT ![e][s] = m]
      BY <1>0, <1>2 DEF Answer
    <2> HIDE DEF m
    <2> QED
      BY <1>1, <1>2, <2>1, SlotWritten
  <1>3. CASE ~call[e][s].live
    <2>1. call' = [call EXCEPT ![e][s] = NoCall]
      BY <1>0, <1>3 DEF Answer
    <2> QED
      BY <1>3, <2>1, SlotWritten
  <1> QED
    BY <1>2, <1>3

\* The popup starts a pairing with an identifier nobody has seen.
LEMMA startPairingStep ==
    ASSUME IInv, NEW e \in Extensions, NEW s \in Slots, startPairing(e, s)
    PROVE  IInv'
  <1> USE DEF None
  <1>0. Types /\ Bounds /\ CallsOK /\ ClaimsCurrent /\ ExtsOK /\ UnreadFresh /\ PendingOK
        /\ RowsOK /\ Pinned /\ Once
    BY DEF IInv
  <1>a. PICK n \in Nat : n = attempts + 1
    BY <1>0 DEF Types
  <1>1. /\ n \in Nat /\ n # None /\ attempts' = n /\ minted' = minted /\ attempts \in Nat
        /\ pending' = pending /\ clients' = clients /\ backup' = backup /\ ext' = ext
        /\ Send(e, s, "pair", n) /\ call[e][s] = NoCall
    BY <1>0, <1>a DEF Types, startPairing, Free
  <1>2. PICK m \in Calls :
              /\ Becomes(e, s, m)
              /\ m.op = "pair" /\ m.id = n /\ m.answer = "waiting" /\ m.client = None
              /\ m.live = TRUE /\ m.overtaken = FALSE
    BY <1>0, <1>1, Sends
  <1>n. \A i \in Nat : i <= attempts => i <= n /\ i # n
    BY <1>1, <1>a
  <1>t. Types'
    BY <1>0, <1>1, <1>2 DEF Types, Becomes
  <1>3. \A c, k \in Nat : RowFor(c, k)' => RowFor(c, k)
    BY <1>1 DEF RowFor
  <1>4. /\ call'[e][s] = m
        /\ \A f \in Extensions, u \in Slots : f # e \/ u # s => call'[f][u] = call[f][u]
    BY <1>2 DEF Becomes
  <1>5. /\ \A f \in Extensions : ext[f].mem \in Nat /\ ext[f].stored \in Nat
        /\ \A f \in Extensions, u \in Slots : call[f][u].id \in Nat
    BY <1>0 DEF Types, Memories, Calls
  <1>6. Bounds'
    <2>1. \A id \in DOMAIN pending' : id # None /\ id <= attempts' /\ pending'[id] <= minted'
      BY <1>0, <1>1, <1>n DEF Bounds, Types
    <2>2. \A c, k \in Nat : RowFor(c, k)' =>
              c # None /\ c <= minted' /\ k # None /\ k <= attempts'
      BY <1>0, <1>1, <1>3, <1>n DEF Bounds
    <2>3. \A f \in Extensions : /\ ext'[f].mem <= attempts' /\ ext'[f].stored <= attempts'
                                /\ ext'[f].identity.client <= minted'
      BY <1>0, <1>1, <1>5, <1>n DEF Bounds
    <2>4. ASSUME NEW f \in Extensions, NEW u \in Slots
          PROVE  /\ call'[f][u].id <= attempts' /\ call'[f][u].client <= minted'
                 /\ call'[f][u].op # "none" => call'[f][u].id # None
      <3>1. CASE f = e /\ u = s
        <4>1. minted \in Nat /\ n <= n
          BY <1>0, <1>1 DEF Types
        <4> QED
          BY <1>1, <1>2, <1>4, <3>1, <4>1
      <3>2. CASE f # e \/ u # s
        BY <1>0, <1>1, <1>4, <1>5, <1>n, <3>2 DEF Bounds
      <3> QED
        BY <3>1, <3>2
    <2> QED
      BY <2>1, <2>2, <2>3, <2>4 DEF Bounds
  <1>7. CallsOK' /\ ClaimsCurrent' /\ ExtsOK'
    <2>1. ASSUME NEW f \in Extensions, NEW u \in Slots
          PROVE  CallOK(call[f][u])' /\ Current(f, call[f][u])'
      <3>1. CASE f = e /\ u = s
        BY <1>2, <1>4, <3>1 DEF CallOK, Current
      <3>2. CASE f # e \/ u # s
        BY <1>0, <1>1, <1>4, <3>2 DEF CallOK, Current, CallsOK, ClaimsCurrent
      <3> QED
        BY <3>1, <3>2
    <2> QED
      BY <1>0, <1>1, <2>1 DEF CallsOK, ClaimsCurrent, ExtsOK, ExtOK
  <1>8. UnreadFresh'
    <2> SUFFICES ASSUME NEW f \in Extensions, NEW u \in Slots, Unread(call'[f][u])
                 PROVE  Fresh(f, u, call[f][u].id)'
      BY DEF UnreadFresh
    <2>1. CASE f = e /\ u = s
      <3>1. n \notin DOMAIN pending' /\ (\A c \in Nat : ~RowFor(c, n)')
        BY <1>0, <1>1, <1>3, <1>n DEF Bounds, Types
      <3>2. \A g \in Extensions : ext'[g].mem # n /\ ext'[g].stored # n
        BY <1>0, <1>1, <1>5, <1>n DEF Bounds
      <3>3. \A g \in Extensions, v \in Slots : call'[g][v].id = n => g = e /\ v = s
        BY <1>0, <1>4, <1>5, <1>n DEF Bounds
      <3> QED
        BY <1>2, <1>4, <2>1, <3>1, <3>2, <3>3 DEF Fresh
    <2>2. CASE f # e \/ u # s
      <3>0. call'[f][u] = call[f][u]
        BY <1>4, <2>2
      <3>1. Unread(call[f][u]) /\ call'[f][u].id = call[f][u].id /\ call[f][u].id # n
        BY <1>0, <1>5, <1>n, <3>0 DEF Bounds
      <3>2. Fresh(f, u, call[f][u].id) /\ call[f][u].id \in Nat
        BY <1>0, <1>5, <3>1 DEF UnreadFresh
      <3>3. \A g \in Extensions, v \in Slots :
               call'[g][v].op # "none" /\ call'[g][v].id = call[f][u].id => g = f /\ v = u
        BY <1>2, <1>4, <3>1, <3>2 DEF Fresh
      <3> QED
        BY <1>1, <1>3, <3>1, <3>2, <3>3 DEF Fresh
    <2> QED
      BY <2>1, <2>2
  <1>9. PendingOK' /\ RowsOK'
    BY <1>0, <1>1, <1>3 DEF PendingOK, RowsOK
  <1>10. \A f \in Extensions, u \in Slots :
            /\ call'[f][u].client = call[f][u].client
            /\ call'[f][u].client # None => call'[f][u].id = call[f][u].id
    BY <1>1, <1>2, <1>4, NoCallFields
  <1>11. Pinned'
    <2>1. ASSUME NEW f \in Extensions, NEW u \in Slots, NEW k \in Nat,
                 NEW c \in Nat, c = call'[f][u].client, RowFor(c, k)'
          PROVE  k = call'[f][u].id
      <3>1. RowFor(c, k) /\ c # None
        BY <1>0, <1>3, <2>1 DEF Bounds
      <3> QED
        BY <1>0, <1>10, <2>1, <3>1 DEF Pinned
    <2>2. \A f \in Extensions, u \in Slots : call'[f][u].client \in Nat
      BY <1>t DEF Types, Calls
    <2>3. \A f \in Extensions : ext'[f].identity.client \in Nat
      BY <1>t DEF Types, Memories, Identities
    <2> QED
      BY <1>0, <1>1, <1>3, <2>1, <2>2, <2>3 DEF Pinned
  <1>12. Once'
    BY <1>0, <1>1, <1>10 DEF Once
  <1> QED
    BY <1>t, <1>6, <1>7, <1>8, <1>9, <1>11, <1>12 DEF IInv

\* The requests after the call in slot s of e was handled: the one it asks for may be
\* new, the others are as before or gone.
Handled(e, s) ==
    \A i \in DOMAIN pending' :
        \/ i \in DOMAIN pending /\ pending'[i] = pending[i]
        \/ Unread(call[e][s]) /\ i = call[e][s].id /\ pending'[i] = None

\* A claim begins, or a call is answered.
LEMMA CallStep ==
    ASSUME IInv, Types', NEW e \in Extensions, NEW s \in Slots, NEW m \in Calls,
           Becomes(e, s, m), ~Unread(m), CallOK(m)', Handled(e, s),
           attempts' = attempts, minted' = minted, clients' = clients, backup' = backup,
           \A f \in Extensions : /\ ext'[f].identity = ext[f].identity
                                 /\ ext'[f].stored = ext[f].stored
                                 /\ ext'[f].mem \in {ext[f].mem, ext[f].stored},
           m.op = "none" => m = NoCall,
           m.op # "none" => /\ m.id # None
                            /\ \/ call[e][s].op # "none" /\ m.id = call[e][s].id
                               \/ m.id \in {ext[e].mem, ext[e].stored},
           m.client # None => /\ m.id \in DOMAIN pending \ DOMAIN pending'
                              /\ pending[m.id] = m.client,
           ExtsOK', ClaimsCurrent'
    PROVE  IInv'
  <1> USE NoCallFields DEF None
  <1>0. Types /\ Bounds /\ CallsOK /\ ClaimsCurrent /\ ExtsOK /\ UnreadFresh /\ PendingOK
        /\ RowsOK /\ Pinned /\ Once
    BY DEF IInv
  <1>1. /\ call'[e][s] = m
        /\ \A f \in Extensions, u \in Slots : f # e \/ u # s => call'[f][u] = call[f][u]
    BY DEF Becomes
  <1>2. \A c, k \in Nat : RowFor(c, k)' => RowFor(c, k)
    BY DEF RowFor
  <1>3. /\ attempts \in Nat /\ minted \in Nat
        /\ m.id \in Nat /\ m.client \in Nat
        /\ \A f \in Extensions, u \in Slots : call[f][u].id \in Nat
    BY <1>0 DEF Types, Calls
  <1>4. Unread(call[e][s]) => Fresh(e, s, call[e][s].id)
    BY <1>0 DEF UnreadFresh
  <1>m. m.op = "none" => m.client = None
    BY DEF CallOK
  <1>5. Bounds'
    <2>1. \A id \in DOMAIN pending' : id # None /\ id <= attempts' /\ pending'[id] <= minted'
      BY <1>0, <1>3 DEF Bounds, Handled, Unread
    <2>2. \A c, k \in Nat : RowFor(c, k)' =>
              c # None /\ c <= minted' /\ k # None /\ k <= attempts'
      BY <1>0, <1>2 DEF Bounds
    <2>3. \A f \in Extensions : /\ ext'[f].mem <= attempts' /\ ext'[f].stored <= attempts'
                                /\ ext'[f].identity.client <= minted'
      BY <1>0 DEF Bounds
    <2>4. m.id <= attempts
      BY <1>0, <1>3 DEF Bounds
    <2>5. m.client <= minted
      BY <1>0, <1>3 DEF Bounds
    <2> QED
      BY <1>0, <1>1, <2>1, <2>2, <2>3, <2>4, <2>5 DEF Bounds
  <1>6. CallsOK'
    <2> SUFFICES ASSUME NEW f \in Extensions, NEW u \in Slots PROVE CallOK(call[f][u])'
      BY DEF CallsOK
    <2>1. CASE f = e /\ u = s
      BY <1>1, <2>1 DEF CallOK
    <2>2. CASE f # e \/ u # s
      <3>1. call'[f][u] = call[f][u] /\ CallOK(call[f][u])
        BY <1>0, <1>1, <2>2 DEF CallsOK
      <3>2. ASSUME call[f][u].op = "claim", call[f][u].id \notin DOMAIN pending
            PROVE  call[f][u].id \notin DOMAIN pending'
        BY <1>4, <2>2, <3>2 DEF Handled, Fresh
      <3> QED
        BY <3>1, <3>2 DEF CallOK
    <2> QED
      BY <2>1, <2>2
  <1>7. UnreadFresh'
    <2> SUFFICES ASSUME NEW f \in Extensions, NEW u \in Slots, Unread(call'[f][u])
                 PROVE  Fresh(f, u, call[f][u].id)'
      BY DEF UnreadFresh
    <2>1. PICK id \in Nat : id = call[f][u].id
      BY <1>3
    <2>2. f # e \/ u # s
      BY <1>1
    <2>3. Unread(call[f][u]) /\ call'[f][u].id = id
      BY <1>1, <2>1, <2>2
    <2>4. Fresh(f, u, id)
      BY <1>0, <2>1, <2>3 DEF UnreadFresh
    <2>5. id \notin DOMAIN pending'
      BY <2>2, <2>4 DEF Fresh, Handled, Unread
    <2>6. \A c \in Nat : ~RowFor(c, id)'
      BY <1>2, <2>4 DEF Fresh
    <2>7. \A g \in Extensions : ext'[g].mem # id /\ ext'[g].stored # id
      BY <2>4 DEF Fresh
    <2>8. ASSUME NEW g \in Extensions, NEW v \in Slots, call'[g][v].op # "none",
                 call'[g][v].id = id
          PROVE  g = f /\ v = u
      BY <1>1, <2>2, <2>4, <2>8 DEF Fresh
    <2> QED
      BY <2>3, <2>5, <2>6, <2>7, <2>8 DEF Fresh
  <1>8. PendingOK' /\ RowsOK'
    <2>1. ASSUME NEW i \in DOMAIN pending', NEW c \in Nat, NEW k \in Nat, RowFor(c, k)'
          PROVE  (pending'[i] = None => k # i) /\ (pending'[i] = c => k = i)
      <3>1. RowFor(c, k) /\ c # None
        BY <1>0, <1>2, <2>1 DEF Bounds
      <3>2. CASE i \in DOMAIN pending /\ pending'[i] = pending[i]
        BY <1>0, <3>1, <3>2 DEF PendingOK
      <3>3. CASE Unread(call[e][s]) /\ i = call[e][s].id /\ pending'[i] = None
        BY <1>4, <3>1, <3>3 DEF Fresh
      <3> QED
        BY <3>2, <3>3 DEF Handled
    <2>2. RowsOK'
      BY <1>0, <1>2 DEF RowsOK
    <2> QED
      BY <2>1, <2>2 DEF PendingOK
  <1>9. Pinned'
    <2>1. ASSUME NEW f \in Extensions, NEW u \in Slots, NEW k \in Nat,
                 NEW c \in Nat, c = call'[f][u].client, RowFor(c, k)'
          PROVE  k = call'[f][u].id
      <3>1. RowFor(c, k) /\ c # None
        BY <1>0, <1>2, <2>1 DEF Bounds
      <3>2. CASE f = e /\ u = s
        BY <1>0, <1>1, <2>1, <3>1, <3>2 DEF PendingOK
      <3>3. CASE f # e \/ u # s
        BY <1>0, <1>1, <2>1, <3>1, <3>3 DEF Pinned
      <3> QED
        BY <3>2, <3>3
    <2>2. \A f \in Extensions, u \in Slots : call'[f][u].client \in Nat
      BY DEF Types, Calls
    <2>3. \A f \in Extensions : ext'[f].identity.client \in Nat
      BY DEF Types, Memories, Identities
    <2> QED
      BY <1>0, <1>2, <2>1, <2>2, <2>3 DEF Pinned
  <1>10. Once'
    <2>1. \A i \in DOMAIN pending' :
             pending'[i] # None => i \in DOMAIN pending /\ pending'[i] = pending[i]
      BY DEF Handled
    <2>2. \A f \in Extensions, u \in Slots : f # e \/ u # s =>
             call'[f][u].client = call[f][u].client
      BY <1>1
    <2>3. \A f \in Extensions : ext'[f].identity.client = ext[f].identity.client
      OBVIOUS
    <2>4. \A i, j \in DOMAIN pending' :
             pending'[i] = pending'[j] /\ pending'[i] # None => i = j
      BY <1>0, <2>1 DEF Once
    <2>5. ASSUME NEW i \in DOMAIN pending', NEW f \in Extensions, NEW u \in Slots,
                 pending'[i] = call'[f][u].client
          PROVE  pending'[i] = None
      BY <1>0, <1>1, <2>1, <2>2, <2>5 DEF Once
    <2>6. \A i \in DOMAIN pending' : \A f \in Extensions :
             pending'[i] = ext'[f].identity.client => pending'[i] = None
      BY <1>0, <2>1, <2>3 DEF Once
    <2>7. ASSUME NEW f \in Extensions, NEW g \in Extensions, NEW u \in Slots, NEW v \in Slots,
                 call'[f][u].client = call'[g][v].client, call'[f][u].client # None
          PROVE  f = g /\ u = v
      BY <1>0, <1>1, <2>2, <2>7 DEF Once
    <2>8. ASSUME NEW f \in Extensions, NEW g \in Extensions, NEW u \in Slots,
                 call'[f][u].client = ext'[g].identity.client
          PROVE  call'[f][u].client = None
      BY <1>0, <1>1, <2>2, <2>3, <2>8 DEF Once
    <2>9. \A f, g \in Extensions :
             ext'[f].identity.client = ext'[g].identity.client
               /\ ext'[f].identity.client # None => f = g
      BY <1>0, <2>3 DEF Once
    <2> QED
      BY <2>4, <2>5, <2>6, <2>7, <2>8, <2>9 DEF Once
  <1> QED
    BY <1>5, <1>6, <1>7, <1>8, <1>9, <1>10 DEF IInv

\* claimPairing asks for the pairing in memory, or for the one in storage.
LEMMA claimPairingStep ==
    ASSUME IInv, NEW e \in Extensions, NEW s \in Slots, claimPairing(e, s)
    PROVE  IInv'
  <1>0. /\ Types /\ ClaimsCurrent /\ ExtsOK /\ ext[e] \in Memories
        /\ ext[e].identity = NoIdentity /\ call[e][s] = NoCall
    BY DEF IInv, Types, claimPairing, Free
  <1>i. PICK id \in Nat : id = ext[e].stored
    BY <1>0 DEF Memories
  <1>1. /\ ext[e].mem # None => ext[e].mem = id
        /\ id \in Nat /\ id # None /\ id = ext[e].stored /\ Send(e, s, "claim", id)
        /\ attempts' = attempts /\ minted' = minted /\ clients' = clients
        /\ backup' = backup /\ pending' = pending
    BY <1>0, <1>i DEF claimPairing, ExtsOK, ExtOK
  <1>2. PICK m \in Calls :
              /\ Becomes(e, s, m)
              /\ m.op = "claim" /\ m.id = id /\ m.answer = "waiting" /\ m.client = None
              /\ m.live = TRUE /\ m.overtaken = FALSE
    <2>1. Types /\ Send(e, s, "claim", id)
      BY <1>0, <1>1
    <2> QED
      BY <2>1, Sends
  <1>3. /\ ext' \in [Extensions -> Memories]
        /\ \A f \in Extensions : f # e => ext'[f] = ext[f]
        /\ ext'[e].mem = id /\ ext'[e].stored = ext[e].stored
        /\ ext'[e].identity = ext[e].identity
    <2>1. CASE ext[e].mem # None
      <3>1. ext' = ext
        BY <2>1 DEF claimPairing
      <3> QED
        BY <1>0, <1>1, <2>1, <3>1 DEF Types
    <2>2. CASE ext[e].mem = None
      <3>1. ext' = [ext EXCEPT ![e].mem = ext[e].stored, ![e].open = TRUE]
        BY <2>2 DEF claimPairing
      <3> QED
        BY <1>0, <1>1, <2>2, <3>1 DEF Types, Memories
    <2> QED
      BY <2>1, <2>2
  <1>4. \A f \in Extensions : f # e \/ ext[e].mem # None => ext'[f].mem = ext[f].mem
    BY <1>1, <1>3
  <1>5. Types'
    BY <1>0, <1>1, <1>2, <1>3 DEF Types, Becomes
  <1>6. ExtsOK'
    BY <1>0, <1>1, <1>3 DEF ExtsOK, ExtOK
  <1>7. ClaimsCurrent'
    <2> SUFFICES ASSUME NEW f \in Extensions, NEW u \in Slots PROVE Current(f, call[f][u])'
      BY DEF ClaimsCurrent
    <2>1. Current(f, call[f][u])
      BY <1>0 DEF ClaimsCurrent
    <2>2. CASE f = e /\ u = s
      BY <1>2, <1>3, <2>2 DEF Current, Becomes
    <2>3. CASE f # e \/ u # s
      <3>1. call'[f][u] = call[f][u] /\ (call[f][u].op = "claim" => call[f][u].id # None)
        BY <1>2, <2>3 DEF Becomes, IInv, Bounds
      <3> QED
        BY <1>0, <1>3, <1>4, <2>1, <3>1 DEF Current
    <2> QED
      BY <2>2, <2>3
  <1>8. ~Unread(m) /\ CallOK(m)' /\ Handled(e, s)
    BY <1>1, <1>2 DEF Unread, CallOK, Handled
  <1>9. \A f \in Extensions : /\ ext'[f].identity = ext[f].identity
                              /\ ext'[f].stored = ext[f].stored
                              /\ ext'[f].mem \in {ext[f].mem, ext[f].stored}
    BY <1>1, <1>3
  <1> QED
    BY <1>1, <1>2, <1>5, <1>6, <1>7, <1>8, <1>9, CallStep

\* An answered claim is as current as it was before.
LEMMA AnsweredCurrent ==
    ASSUME IInv, NEW e \in Extensions, NEW s \in Slots, NEW m \in Calls, Becomes(e, s, m),
           ext' = ext,
           \/ m = NoCall
           \/ /\ m.op = call[e][s].op /\ m.id = call[e][s].id /\ call[e][s].live
              /\ call[e][s].overtaken => m.overtaken
    PROVE  ExtsOK' /\ ClaimsCurrent'
  <1>1. ClaimsCurrent /\ ExtsOK
    BY DEF IInv
  <1>2. ASSUME NEW f \in Extensions, NEW u \in Slots PROVE Current(f, call[f][u])'
    <2>1. Current(f, call[f][u])
      BY <1>1 DEF ClaimsCurrent
    <2>2. CASE f = e /\ u = s
      BY <2>1, <2>2, NoCallFields DEF Current, Becomes
    <2>3. CASE f # e \/ u # s
      BY <2>1, <2>3 DEF Current, Becomes
    <2> QED
      BY <2>2, <2>3
  <1> QED
    BY <1>1, <1>2 DEF ClaimsCurrent, ExtsOK

\* The daemon reads clients.pair.
LEMMA opPairStep ==
    ASSUME IInv, NEW e \in Extensions, NEW s \in Slots, opPair(e, s)
    PROVE  IInv'
  <1> USE NoCallFields
  <1>0. /\ Types /\ Unread(call[e][s]) /\ call[e][s].id \in Nat /\ call[e][s].id # None
        /\ call[e][s].op # "none" /\ None \in Nat
    BY DEF IInv, Types, Calls, Bounds, opPair, Waiting, Unread, None
  <1>1. /\ attempts' = attempts /\ minted' = minted /\ clients' = clients
        /\ backup' = backup /\ ext' = ext /\ Answer(e, s, "ok", None)
        /\ pending' = Put(pending, call[e][s].id, None)
    BY DEF opPair
  <1>2. PICK m \in Calls :
              /\ Becomes(e, s, m)
              /\ ~call[e][s].live => m = NoCall
              /\ call[e][s].live =>
                    /\ m.op = call[e][s].op /\ m.id = call[e][s].id /\ m.answer = "ok"
                    /\ m.client = None /\ m.live
                    /\ call[e][s].overtaken => m.overtaken
                    /\ m.overtaken => call[e][s].overtaken
    BY <1>0, <1>1, Answers
  <1>3. /\ DOMAIN pending' = DOMAIN pending \cup {call[e][s].id}
        /\ \A i \in DOMAIN pending' :
              pending'[i] = IF i = call[e][s].id THEN None ELSE pending[i]
        /\ pending' \in [DOMAIN pending' -> Nat]
    BY <1>0, <1>1 DEF Put, Types
  <1>4. Types'
    BY <1>0, <1>1, <1>2, <1>3 DEF Types, Becomes
  <1>5. Handled(e, s)
    BY <1>0, <1>3 DEF Handled
  <1>6. /\ ~Unread(m) /\ CallOK(m)' /\ m.client = None
        /\ m.op = "none" => m = NoCall
        /\ m.op # "none" => m.id = call[e][s].id
    BY <1>0, <1>2 DEF Unread, CallOK
  <1>7. ExtsOK' /\ ClaimsCurrent'
    BY <1>1, <1>2, AnsweredCurrent
  <1> QED
    BY <1>0, <1>1, <1>2, <1>4, <1>5, <1>6, <1>7, CallStep

\* The daemon reads clients.claim.
LEMMA opClaimStep ==
    ASSUME IInv, NEW e \in Extensions, NEW s \in Slots, opClaim(e, s)
    PROVE  IInv'
  <1> USE NoCallFields
  <1> DEFINE id == call[e][s].id
  <1>0. /\ Types /\ call[e][s].op = "claim" /\ id \in Nat /\ id # None /\ None \in Nat
    BY DEF IInv, Types, Calls, Bounds, opClaim, Waiting, None
  <1>1. /\ attempts' = attempts /\ minted' = minted /\ clients' = clients
        /\ backup' = backup /\ ext' = ext
    BY DEF opClaim
  <1>2. \E answer \in {"ok", "not_found", "denied"}, c \in Nat :
           /\ Answer(e, s, answer, c)
           /\ \/ answer # "ok" /\ c = None /\ pending' = pending
              \/ /\ answer = "ok" /\ c # None /\ id \in DOMAIN pending /\ c = pending[id]
                 /\ pending' = Drop(pending, id)
    <2>1. \A i \in DOMAIN pending : pending[i] \in Nat
      BY <1>0 DEF Types
    <2> QED
      BY <1>0, <2>1 DEF opClaim
  <1>3. PICK answer \in {"ok", "not_found", "denied"}, c \in Nat :
           /\ Answer(e, s, answer, c)
           /\ \/ answer # "ok" /\ c = None /\ pending' = pending
              \/ /\ answer = "ok" /\ c # None /\ id \in DOMAIN pending /\ c = pending[id]
                 /\ pending' = Drop(pending, id)
    BY <1>2
  <1>4. PICK m \in Calls :
              /\ Becomes(e, s, m)
              /\ ~call[e][s].live => m = NoCall
              /\ call[e][s].live =>
                    /\ m.op = call[e][s].op /\ m.id = call[e][s].id /\ m.answer = answer
                    /\ m.client = c /\ m.live
                    /\ call[e][s].overtaken => m.overtaken
                    /\ m.overtaken => call[e][s].overtaken
    BY <1>0, <1>3, Answers
  <1>5. /\ DOMAIN pending' \subseteq DOMAIN pending
        /\ \A i \in DOMAIN pending' : pending'[i] = pending[i]
        /\ pending' \in [DOMAIN pending' -> Nat]
        /\ answer = "ok" => id \in DOMAIN pending \ DOMAIN pending' /\ c = pending[id]
        /\ answer = "ok" => c # None
        /\ answer # "ok" => c = None
    <2>1. CASE pending' = pending /\ answer # "ok" /\ c = None
      BY <1>0, <2>1 DEF Types
    <2>2. CASE /\ answer = "ok" /\ c # None /\ id \in DOMAIN pending /\ c = pending[id]
               /\ pending' = Drop(pending, id)
      BY <1>0, <2>2 DEF Types, Drop
    <2> QED
      BY <1>3, <2>1, <2>2
  <1>6. Types'
    BY <1>0, <1>1, <1>4, <1>5 DEF Types, Becomes
  <1>7. Handled(e, s)
    BY <1>5 DEF Handled
  <1>8. /\ ~Unread(m) /\ CallOK(m)'
        /\ m.op = "none" => m = NoCall
        /\ m.op # "none" => m.id = id
        /\ m.client # None => m.id \in DOMAIN pending \ DOMAIN pending' /\ pending[m.id] = m.client
    BY <1>0, <1>4, <1>5 DEF Unread, CallOK
  <1>9. ExtsOK' /\ ClaimsCurrent'
    BY <1>1, <1>4, AnsweredCurrent
  <1> QED
    BY <1>0, <1>1, <1>4, <1>6, <1>7, <1>8, <1>9, CallStep

-------------------------------------------------------------------------------
(* Approval.                                                               *)

\* An approval makes the one row of its request; the request is marked, or the
\* daemon stops with the row committed and forgets every request.
LEMMA RegisterStep ==
    ASSUME IInv, Types', NEW id \in DOMAIN pending, pending[id] = None, Register(id),
           backup' = backup, attempts' = attempts, CallsFade, Forgets,
           DOMAIN pending' \subseteq DOMAIN pending,
           \A i \in DOMAIN pending' :
              pending'[i] = IF i = id THEN minted + 1 ELSE pending[i]
    PROVE  IInv'
  <1> USE NoCallFields DEF None
  <1>0. Types /\ Bounds /\ CallsOK /\ ClaimsCurrent /\ ExtsOK /\ UnreadFresh /\ PendingOK
        /\ RowsOK /\ Pinned /\ Once
    BY DEF IInv
  <1>a. PICK n \in Nat : n = minted + 1
    BY <1>0 DEF Types
  <1>1. /\ minted' = n /\ minted \in Nat /\ n # None /\ id \in Nat /\ id # None
        /\ id <= attempts
        /\ clients' = Put(clients, n, [key |-> id, status |-> "approved"])
    BY <1>0, <1>a DEF Types, Register, Bounds
  <1>n. \A c \in Nat : c <= minted => c <= n /\ c # n
    BY <1>1, <1>a
  <1>2. \A c, k \in Nat : RowFor(c, k)' => RowFor(c, k) \/ (c = n /\ k = id)
    BY <1>1 DEF RowFor, Put
  <1>3. /\ \A c, k \in Nat : RowFor(c, k) => c <= minted /\ c # n /\ c # None
        /\ \A c \in Nat : ~RowFor(c, id)
    BY <1>0, <1>1, <1>n DEF Bounds, PendingOK
  <1>4. \A i \in DOMAIN pending' : i \in DOMAIN pending /\ i \in Nat /\ pending[i] \in Nat
                                   /\ pending[i] <= minted /\ pending[i] # n
    BY <1>0, <1>n DEF Types, Bounds
  <1>5. ASSUME NEW e \in Extensions, NEW s \in Slots
        PROVE  /\ call'[e][s].client \in {call[e][s].client, None}
               /\ call'[e][s].client # None => call'[e][s].id = call[e][s].id
               /\ call'[e][s].client \in Nat /\ call'[e][s].client <= minted
               /\ call'[e][s].client # n
               /\ call'[e][s].id <= attempts
               /\ call'[e][s].op # "none" => /\ call'[e][s].id # None
                                             /\ call'[e][s].id = call[e][s].id
                                             /\ call'[e][s].op = call[e][s].op
                                             /\ call'[e][s].answer = call[e][s].answer
    <2>1. Fades(call[e][s], call'[e][s])
      BY DEF CallsFade
    <2>2. call'[e][s].client \in Nat /\ attempts \in Nat
      BY <1>0 DEF Types, Calls
    <2>3. call'[e][s].client <= minted
      BY <1>0, <1>1, <2>1 DEF Bounds, Fades
    <2>4. call'[e][s].id <= attempts
      BY <1>0, <2>1, <2>2 DEF Bounds, Fades
    <2> QED
      BY <1>0, <1>n, <2>1, <2>2, <2>3, <2>4 DEF Bounds, Fades
  <1>6. ASSUME NEW e \in Extensions
        PROVE  /\ ext'[e].identity = ext[e].identity
               /\ ext'[e].identity.client \in Nat /\ ext'[e].identity.client <= minted
               /\ ext'[e].identity.client # n
               /\ ext'[e].mem <= attempts /\ ext'[e].stored <= attempts
    <2>1. ext[e].identity.client \in Nat /\ attempts \in Nat
      BY <1>0 DEF Types, Memories, Identities
    <2> QED
      BY <1>0, <1>n, <2>1 DEF Bounds, Forgets
  <1>7. Bounds'
    <2>1. ASSUME NEW i \in DOMAIN pending'
          PROVE  i # None /\ i <= attempts' /\ pending'[i] <= minted'
      BY <1>0, <1>1, <1>4, <1>a, <1>n DEF Bounds
    <2>2. \A c, k \in Nat : RowFor(c, k)' =>
              c # None /\ c <= minted' /\ k # None /\ k <= attempts'
      BY <1>0, <1>1, <1>2, <1>n DEF Bounds
    <2>3. \A f \in Extensions : /\ ext'[f].mem <= attempts' /\ ext'[f].stored <= attempts'
                                /\ ext'[f].identity.client <= minted'
      BY <1>1, <1>6, <1>n
    <2>4. \A e \in Extensions, s \in Slots :
             /\ call'[e][s].id <= attempts' /\ call'[e][s].client <= minted'
             /\ call'[e][s].op # "none" => call'[e][s].id # None
      BY <1>1, <1>5, <1>n
    <2> QED
      BY <2>1, <2>2, <2>3, <2>4 DEF Bounds
  <1>8. CallsOK'
    <2> SUFFICES ASSUME NEW e \in Extensions, NEW s \in Slots PROVE CallOK(call[e][s])'
      BY DEF CallsOK
    <2>1. Fades(call[e][s], call'[e][s]) /\ CallOK(call[e][s])
      BY <1>0 DEF CallsFade, CallsOK
    <2> QED
      BY <2>1 DEF Fades, CallOK
  <1>9. ExtsOK' /\ ClaimsCurrent'
    <2>1. ASSUME NEW e \in Extensions, NEW s \in Slots PROVE Current(e, call[e][s])'
      <3>1. Fades(call[e][s], call'[e][s]) /\ Current(e, call[e][s])
        BY <1>0 DEF CallsFade, ClaimsCurrent
      <3> QED
        BY <3>1 DEF Fades, Current, Forgets
    <2>2. ExtsOK'
      BY <1>0 DEF ExtsOK, ExtOK, Forgets
    <2> QED
      BY <2>1, <2>2 DEF ClaimsCurrent
  <1>10. UnreadFresh'
    <2> SUFFICES ASSUME NEW e \in Extensions, NEW s \in Slots, Unread(call'[e][s])
                 PROVE  Fresh(e, s, call[e][s].id)'
      BY DEF UnreadFresh
    <2>1. PICK j \in Nat : j = call[e][s].id
      BY <1>0 DEF Types, Calls
    <2>2. Unread(call[e][s]) /\ call'[e][s].id = j /\ j # None
      BY <1>5, <2>1 DEF Unread
    <2>3. Fresh(e, s, j)
      BY <1>0, <2>1, <2>2 DEF UnreadFresh
    <2>4. j \notin DOMAIN pending' /\ j # id
      BY <2>3 DEF Fresh
    <2>5. \A c \in Nat : ~RowFor(c, j)'
      BY <1>2, <2>3, <2>4 DEF Fresh
    <2>6. \A f \in Extensions : ext'[f].mem # j /\ ext'[f].stored # j
      BY <2>2, <2>3 DEF Fresh, Forgets
    <2>7. \A f \in Extensions, t \in Slots :
             call'[f][t].op # "none" /\ call'[f][t].id = j => f = e /\ t = s
      BY <1>5, <2>3 DEF Fresh
    <2> QED
      BY <2>2, <2>4, <2>5, <2>6, <2>7 DEF Fresh
  <1>11. PendingOK'
    <2> SUFFICES ASSUME NEW i \in DOMAIN pending', NEW c \in Nat, NEW k \in Nat, RowFor(c, k)'
                 PROVE  (pending'[i] = None => k # i) /\ (pending'[i] = c => k = i)
      BY DEF PendingOK
    <2>1. CASE i = id
      BY <1>1, <1>2, <1>3, <1>a, <2>1
    <2>2. CASE i # id
      BY <1>0, <1>1, <1>2, <1>4, <2>2 DEF PendingOK
    <2> QED
      BY <2>1, <2>2
  <1>12. RowsOK'
    <2> SUFFICES ASSUME NEW c \in Nat, NEW d \in Nat, NEW k \in Nat, NEW l \in Nat,
                        RowFor(c, k)', RowFor(d, l)'
                 PROVE  c = d <=> k = l
      BY DEF RowsOK
    <2>1. CASE RowFor(c, k) /\ RowFor(d, l)
      BY <1>0, <2>1 DEF RowsOK
    <2> QED
      BY <1>2, <1>3, <2>1
  <1>13. Pinned'
    <2>1. ASSUME NEW f \in Extensions, NEW u \in Slots, NEW k \in Nat,
                 NEW c \in Nat, c = call'[f][u].client, RowFor(c, k)'
          PROVE  k = call'[f][u].id
      <3>1. c # n
        BY <1>5, <2>1
      <3>2. RowFor(c, k) /\ c # None
        BY <1>2, <1>3, <2>1, <3>1
      <3> QED
        BY <1>0, <1>5, <2>1, <3>2 DEF Pinned
    <2>2. ASSUME NEW e \in Extensions, NEW k \in Nat, ~ext'[e].identity.overtaken,
                 NEW c \in Nat, c = ext'[e].identity.client, RowFor(c, k)'
          PROVE  k = ext'[e].identity.key
      <3>1. c # n
        BY <1>6, <2>2
      <3>2. RowFor(c, k)
        BY <1>2, <2>2, <3>1
      <3> QED
        BY <1>0, <1>6, <2>2, <3>2 DEF Pinned
    <2> QED
      BY <1>5, <1>6, <2>1, <2>2 DEF Pinned
  <1>14. Once'
    <2>1. \A i \in DOMAIN pending' : \/ i = id /\ pending'[i] = n
                                     \/ i # id /\ pending'[i] = pending[i]
      BY <1>a
    <2>2. \A i, j \in DOMAIN pending' :
             pending'[i] = pending'[j] /\ pending'[i] # None => i = j
      BY <1>0, <1>4, <2>1 DEF Once
    <2>3. \A i \in DOMAIN pending' : \A f \in Extensions, u \in Slots :
             pending'[i] = call'[f][u].client => pending'[i] = None
      BY <1>0, <1>4, <1>5, <2>1 DEF Once
    <2>4. \A i \in DOMAIN pending' : \A f \in Extensions :
             pending'[i] = ext'[f].identity.client => pending'[i] = None
      BY <1>0, <1>4, <1>6, <2>1 DEF Once
    <2>5. \A e, f \in Extensions, s, t \in Slots :
             call'[e][s].client = call'[f][t].client /\ call'[e][s].client # None
                 => e = f /\ s = t
      BY <1>0, <1>5 DEF Once
    <2>6. \A e, f \in Extensions, s \in Slots :
             call'[e][s].client = ext'[f].identity.client => call'[e][s].client = None
      BY <1>0, <1>5, <1>6 DEF Once
    <2>7. \A e, f \in Extensions :
             ext'[e].identity.client = ext'[f].identity.client
               /\ ext'[e].identity.client # None => e = f
      BY <1>0, <1>6 DEF Once
    <2> QED
      BY <2>2, <2>3, <2>4, <2>5, <2>6, <2>7 DEF Once
  <1> QED
    BY <1>7, <1>8, <1>9, <1>10, <1>11, <1>12, <1>13, <1>14 DEF IInv

\* Register writes a row of the right shape.
LEMMA RegisterTypes ==
    ASSUME Types, NEW id \in Nat, Register(id)
    PROVE  /\ clients' \in [DOMAIN clients' -> Rows] /\ DOMAIN clients' \subseteq Nat
           /\ minted' \in Nat /\ minted' = minted + 1
  <1> DEFINE r == [key |-> id, status |-> "approved"]
  <1>1. r \in Rows
    BY DEF Rows
  <1>2. clients' = Put(clients, minted + 1, r) /\ minted + 1 \in Nat /\ minted' = minted + 1
    BY DEF Register, Types
  <1> HIDE DEF r
  <1> QED
    BY <1>1, <1>2 DEF Put, Types

\* Approve, and a daemon that stops right after its commit.
LEMMA ApproveSteps ==
    ASSUME IInv, NEW id \in Attempts, Approve(id) \/ ApproveThenStop(id)
    PROVE  IInv'
  <1>0. /\ Types /\ id \in Nat /\ id \in DOMAIN pending /\ pending[id] = None /\ Register(id)
    BY DEF IInv, Attempts, Approve, ApproveThenStop
  <1>1. /\ clients' \in [DOMAIN clients' -> Rows] /\ DOMAIN clients' \subseteq Nat
        /\ minted' \in Nat /\ minted' = minted + 1
    BY <1>0, RegisterTypes
  <1>2. CASE Approve(id)
    <2>1. pending' = [pending EXCEPT ![id] = minted + 1] /\ ext' = ext /\ call' = call
          /\ backup' = backup /\ attempts' = attempts
      BY <1>2 DEF Approve
    <2>2. /\ DOMAIN pending' = DOMAIN pending
          /\ \A i \in DOMAIN pending' :
                pending'[i] = IF i = id THEN minted + 1 ELSE pending[i]
          /\ pending' \in [DOMAIN pending' -> Nat]
      BY <1>0, <1>1, <2>1 DEF Types
    <2>3. Types'
      BY <1>0, <1>1, <2>1, <2>2 DEF Types
    <2> QED
      BY <1>0, <2>1, <2>2, <2>3, SameCalls, SameExt, RegisterStep
  <1>3. CASE ApproveThenStop(id)
    <2>1. ProcessEnds
      BY <1>3 DEF ApproveThenStop
    <2>2. /\ call' \in [Extensions -> [Slots -> Calls]] /\ CallsFade
          /\ ext' \in [Extensions -> Memories] /\ Forgets
          /\ pending' = EmptyTable /\ DOMAIN pending' = {}
      BY <2>1, EndFades
    <2>3. pending' \in [DOMAIN pending' -> Nat] /\ backup' = backup /\ attempts' = attempts
      BY <2>1, <2>2 DEF EmptyTable, ProcessEnds
    <2>4. Types'
      BY <1>0, <1>1, <2>2, <2>3 DEF Types
    <2> QED
      BY <1>0, <2>2, <2>3, <2>4, RegisterStep
  <1> QED
    BY <1>2, <1>3

-------------------------------------------------------------------------------
(* Every step.                                                             *)

\* Every step of the daemon, the operator, an extension or a fault.
LEMMA NextStep == ASSUME IInv, Next PROVE IInv'
  BY QuietSteps, PairAnsweredStep, ClaimAnsweredStep, startPairingStep, claimPairingStep,
     opPairStep, opClaimStep, ApproveSteps DEF Next, Extension, Daemon

\* A step that changes nothing.
LEMMA StutterStep == ASSUME IInv, UNCHANGED vars PROVE IInv'
  <1>1. /\ unlocked' = unlocked /\ pending' = pending /\ clients' = clients
        /\ backup' = backup /\ ext' = ext /\ call' = call /\ attempts' = attempts
        /\ minted' = minted
    BY DEF vars
  <1>2. Types'
    BY <1>1 DEF IInv, Types
  <1> QED
    BY <1>1, <1>2, SameCalls, SameRows, SamePending, SameExt, QuietStep

\* The invariant holds throughout.
LEMMA Invariance == Spec => []IInv
  <1>1. IInv /\ [Next]_vars => IInv'
    BY NextStep, StutterStep
  <1> QED
    BY Initially, <1>1, PTL DEF Spec

-------------------------------------------------------------------------------
(* The properties.                                                         *)

\* Two places that hold one client are the same place.
LEMMA OneHolder ==
    ASSUME IInv, NEW c \in 1..minted, NEW x \in Holders(c), NEW y \in Holders(c)
    PROVE  x = y
  <1>0. Once /\ c # None
    BY DEF IInv, Types, None
  <1> DEFINE P(z) == \E i \in DOMAIN pending : pending[i] = c /\ z = <<"pending", i>>
             Q(z) == \E e \in Extensions, s \in Slots : call[e][s].client = c /\ z = <<e, s>>
             R(z) == \E e \in Extensions : ext[e].identity.client = c /\ z = <<"identity", e>>
  <1>1. ASSUME NEW z \in Holders(c) PROVE P(z) \/ Q(z) \/ R(z)
    BY <1>1 DEF Holders
  <1>2. P(x) /\ P(y) => x = y
    BY <1>0 DEF Once
  <1>3. Q(x) /\ Q(y) => x = y
    BY <1>0 DEF Once
  <1>4. R(x) /\ R(y) => x = y
    BY <1>0 DEF Once
  <1>5. \A u, v : ~(P(u) /\ Q(v)) /\ ~(P(u) /\ R(v)) /\ ~(Q(u) /\ R(v))
    BY <1>0 DEF Once
  <1> HIDE DEF P, Q, R
  <1> QED
    BY <1>1, <1>2, <1>3, <1>4, <1>5

\* A credential is handed out once, however claims race.
THEOREM CredentialsHandedOutOnce == Spec => []HandedOutOnce
  <1>1. IInv => HandedOutOnce
    <2> SUFFICES ASSUME IInv, NEW c \in 1..minted PROVE Cardinality(Holders(c)) <= 1
      BY DEF HandedOutOnce
    <2>1. CASE Holders(c) = {}
      BY <2>1, FS_EmptySet
    <2>2. CASE Holders(c) # {}
      <3>1. PICK x : x \in Holders(c)
        BY <2>2
      <3>2. Holders(c) = {x}
        BY <3>1, OneHolder
      <3>3. Cardinality({x}) = 1
        BY FS_Singleton
      <3> QED
        BY <3>2, <3>3
    <2> QED
      BY <2>1, <2>2
  <1> QED
    BY <1>1, Invariance, PTL

\* No pairing request yields two client rows, whatever is approved, restored and
\* restarted in between.
THEOREM OneClientPerRequest == Spec => []OneClientPerPairing
  <1>1. IInv => OneClientPerPairing
    <2> SUFFICES ASSUME IInv, NEW c \in DOMAIN clients, NEW d \in DOMAIN clients,
                        clients[c].key = clients[d].key
                 PROVE  c = d
      BY DEF OneClientPerPairing
    <2>1. c \in Nat /\ d \in Nat /\ clients[c].key \in Nat
      BY DEF IInv, Types, Rows
    <2>2. RowFor(c, clients[c].key) /\ RowFor(d, clients[c].key)
      BY DEF RowFor
    <2> QED
      BY <2>1, <2>2 DEF IInv, RowsOK
  <1> QED
    BY <1>1, Invariance, PTL

\* A stored identity names the key pinned for its client, unless another pairing
\* overtook its claim.
THEOREM IdentityMatches == Spec => []IdentityMatchesRow
  <1>1. IInv => IdentityMatchesRow
    <2> SUFFICES ASSUME IInv, NEW e \in Extensions,
                        ext[e].identity.client \in DOMAIN clients,
                        ~ext[e].identity.overtaken
                 PROVE  clients[ext[e].identity.client].key = ext[e].identity.key
      BY DEF IdentityMatchesRow
    <2>1. clients[ext[e].identity.client].key \in Nat
      BY DEF IInv, Types, Rows
    <2> QED
      BY <2>1 DEF IInv, Pinned, RowFor
  <1> QED
    BY <1>1, Invariance, PTL

-------------------------------------------------------------------------------
(* What a step may never do.                                               *)

\* The client is with the daemon, under way, or with an extension.
Held(c) ==
    \/ \E i \in DOMAIN pending : pending[i] = c
    \/ \E e \in Extensions, s \in Slots : call[e][s].client = c
    \/ \E e \in Extensions : ext[e].identity.client = c

\* Held is what Holders counts.
LEMMA HeldHolders ==
    ASSUME NEW c
    PROVE  /\ Holders(c) # {} => Held(c)
           /\ Holders(c)' = {} => ~Held(c)'
  <1>1. Holders(c) # {} => Held(c)
    BY DEF Holders, Held
  <1>2. ASSUME NEW i \in DOMAIN pending', pending'[i] = c PROVE Holders(c)' # {}
    <2>1. <<"pending", i>> \in Holders(c)'
      BY <1>2 DEF Holders
    <2> QED
      BY <2>1
  <1>3. ASSUME NEW e \in Extensions, NEW s \in Slots, call'[e][s].client = c
        PROVE  Holders(c)' # {}
    <2>1. <<e, s>> \in Holders(c)'
      BY <1>3 DEF Holders
    <2> QED
      BY <2>1
  <1>4. ASSUME NEW e \in Extensions, ext'[e].identity.client = c PROVE Holders(c)' # {}
    <2>1. <<"identity", e>> \in Holders(c)'
      BY <1>4 DEF Holders
    <2> QED
      BY <2>1
  <1> QED
    BY <1>1, <1>2, <1>3, <1>4 DEF Held

\* A client is still held if its requests, calls and identities are as before.
LEMMA StillHeld ==
    ASSUME NEW c, Held(c),
           \A i \in DOMAIN pending : pending[i] = c =>
              i \in DOMAIN pending' /\ pending'[i] = c,
           \A e \in Extensions, s \in Slots :
              call[e][s].client = c => call'[e][s].client = c,
           \A e \in Extensions : ext[e].identity.client = c => ext'[e].identity.client = c
    PROVE  Held(c)'
  BY DEF Held

\* Faults are counted.
FaultsOK == faults \in Nat
LEMMA FaultsCounted == Spec => []FaultsOK
  <1>1. Init => FaultsOK
    BY DEF Init, FaultsOK
  <1>2. FaultsOK /\ [Next]_vars => FaultsOK'
    <2> SUFFICES ASSUME FaultsOK, [Next]_vars PROVE faults' = faults \/ faults' = faults + 1
      BY DEF FaultsOK
    <2>1. ASSUME NEW e \in Extensions, NEW s \in Slots,
                 Extension(e, s) \/ Daemon(e, s) \/ Vanish(e, s)
          PROVE  faults' = faults
      BY <2>1 DEF Extension, Daemon, startPairing, PairAnswered, claimPairing, ClaimAnswered,
                  opPair, opClaim, Vanish
    <2>2. ASSUME NEW e \in Extensions, \/ resetPairing(e) \/ Disconnect(e)
                                       \/ ReapBusyWorker(e) \/ ReapIdleWorker(e)
          PROVE  faults' = faults \/ faults' = faults + 1
      BY <2>2 DEF resetPairing, Disconnect, ReapBusyWorker, ReapIdleWorker, Fault
    <2>3. ASSUME \/ \E id \in Attempts : opCancel(id) \/ Approve(id) \/ ApproveThenStop(id)
                 \/ \E c \in ClientIDs : Revoke(c)
                 \/ ToggleLock \/ BackupCreate \/ BackupRestore \/ Restart
          PROVE  faults' = faults \/ faults' = faults + 1
      BY <2>3 DEF opCancel, Approve, ApproveThenStop, Revoke, ToggleLock, BackupCreate,
                  BackupRestore, Restart, ProcessEnds, Fault
    <2> QED
      BY <2>1, <2>2, <2>3 DEF Next, vars
  <1> QED
    BY <1>1, <1>2, PTL DEF Spec

\* The steps of the daemon and the extension but for the answers to a claim.
LEMMA StepKeepsHeld ==
    ASSUME IInv, NEW c, c # None, Held(c),
           \/ \E e \in Extensions, s \in Slots :
                 \/ startPairing(e, s) \/ PairAnswered(e, s) \/ claimPairing(e, s)
                 \/ opPair(e, s) \/ Vanish(e, s)
           \/ \E e \in Extensions : ReapIdleWorker(e)
           \/ \E id \in Attempts : opCancel(id) \/ Approve(id)
           \/ \E d \in ClientIDs : Revoke(d)
           \/ ToggleLock \/ BackupCreate \/ BackupRestore
    PROVE  Held(c)'
  <1> USE NoCallFields
  <1>0. Types /\ CallsOK /\ call \in [Extensions -> [Slots -> Calls]]
        /\ ext \in [Extensions -> Memories]
    BY DEF IInv, Types
  <1>c. ASSUME NEW e \in Extensions, NEW s \in Slots, call[e][s].client = c
        PROVE  call[e][s].op = "claim" /\ call[e][s].answer = "ok" /\ call[e][s].live
    BY <1>0, <1>c DEF CallsOK, CallOK
  <1>1. ASSUME NEW e \in Extensions, NEW s \in Slots, startPairing(e, s) \/ claimPairing(e, s)
        PROVE  Held(c)'
    <2>1. PICK m : call' = [call EXCEPT ![e][s] = m]
      BY <1>1 DEF startPairing, claimPairing, Send
    <2>2. pending' = pending /\ call[e][s] = NoCall
      BY <1>1 DEF startPairing, claimPairing, Free
    <2>3. \A f \in Extensions : ext'[f].identity = ext[f].identity
      <3>1. CASE ext' = ext
        BY <3>1
      <3>2. CASE ext' = [ext EXCEPT ![e].mem = ext[e].stored, ![e].open = TRUE]
        BY <1>0, <3>2 DEF Memories
      <3> QED
        BY <1>1, <3>1, <3>2 DEF startPairing, claimPairing
    <2>4. ASSUME NEW f \in Extensions, NEW u \in Slots, call[f][u].client = c
          PROVE  call'[f][u].client = c
      <3>1. f # e \/ u # s
        BY <2>2, <2>4
      <3>2. call'[f][u] = call[f][u]
        BY <1>0, <2>1, <3>1
      <3> QED
        BY <2>4, <3>2
    <2> QED
      BY <2>2, <2>3, <2>4, StillHeld
  <1>2. ASSUME NEW e \in Extensions, NEW s \in Slots, PairAnswered(e, s) PROVE Held(c)'
    <2>1. \A f \in Extensions : ext'[f].identity = ext[f].identity
      BY <1>0, <1>2 DEF PairAnswered, Memories
    <2>2. ASSUME NEW f \in Extensions, NEW u \in Slots, call[f][u].client = c
          PROVE  call'[f][u].client = c
      <3>1. f # e \/ u # s
        BY <1>2, <1>c, <2>2 DEF PairAnswered, Answered
      <3>2. CASE f # e
        BY <1>0, <1>2, <2>2, <3>2 DEF PairAnswered
      <3>3. CASE f = e
        <4>1. call'[e][u] = [call[e][u] EXCEPT !.overtaken = Overtakes(e, u)]
          BY <1>0, <1>2, <3>1, <3>3 DEF PairAnswered
        <4>2. call[e][u] \in Calls
          BY <1>0
        <4> QED
          BY <2>2, <3>3, <4>1, <4>2 DEF Calls
      <3> QED
        BY <3>2, <3>3
    <2> QED
      BY <1>2, <2>1, <2>2, StillHeld DEF PairAnswered
  <1>3. ASSUME NEW e \in Extensions, NEW s \in Slots, opPair(e, s) PROVE Held(c)'
    <2>1. ext' = ext /\ pending' = Put(pending, call[e][s].id, None)
          /\ Answer(e, s, "ok", None) /\ call[e][s].answer = "waiting" /\ Unread(call[e][s])
      BY <1>3 DEF opPair, Waiting, Unread
    <2>2. ASSUME NEW i \in DOMAIN pending, pending[i] = c
          PROVE  i \in DOMAIN pending' /\ pending'[i] = c
      <3>1. i # call[e][s].id
        BY <2>1 DEF IInv, UnreadFresh, Fresh
      <3> QED
        BY <2>1, <2>2, <3>1 DEF Put
    <2>3. ASSUME NEW f \in Extensions, NEW u \in Slots, call[f][u].client = c
          PROVE  call'[f][u].client = c
      <3>1. f # e \/ u # s
        BY <1>c, <2>1, <2>3
      <3>2. PICK m : call' = [call EXCEPT ![e][s] = m]
        BY <1>0, <2>1 DEF Answer
      <3>3. call'[f][u] = call[f][u]
        BY <1>0, <3>1, <3>2
      <3> QED
        BY <2>3, <3>3
    <2> QED
      BY <2>1, <2>2, <2>3, StillHeld
  <1>4. ASSUME NEW e \in Extensions, NEW s \in Slots, Vanish(e, s) PROVE Held(c)'
    <2>1. ext' = ext /\ pending' = pending /\ call' = [call EXCEPT ![e][s] = NoCall]
          /\ ~call[e][s].live
      BY <1>4 DEF Vanish
    <2>2. ASSUME NEW f \in Extensions, NEW u \in Slots, call[f][u].client = c
          PROVE  call'[f][u].client = c
      <3>1. f # e \/ u # s
        BY <1>c, <2>1, <2>2
      <3>2. call'[f][u] = call[f][u]
        BY <1>0, <2>1, <3>1
      <3> QED
        BY <2>2, <3>2
    <2> QED
      BY <2>1, <2>2, StillHeld
  <1>5. ASSUME NEW e \in Extensions, ReapIdleWorker(e) PROVE Held(c)'
    <2>1. \A f \in Extensions : ext'[f].identity = ext[f].identity
      BY <1>0, <1>5 DEF ReapIdleWorker, Memories
    <2> QED
      BY <1>5, <2>1, StillHeld DEF ReapIdleWorker
  <1>6. ASSUME NEW id \in Attempts, opCancel(id) \/ Approve(id) PROVE Held(c)'
    <2>1. pending[id] = None /\ ext' = ext /\ call' = call
      BY <1>6 DEF opCancel, Approve
    <2>2. ASSUME NEW i \in DOMAIN pending, pending[i] = c
          PROVE  i \in DOMAIN pending' /\ pending'[i] = c
      BY <1>6, <2>1, <2>2 DEF opCancel, Approve, Drop
    <2> QED
      BY <2>1, <2>2, StillHeld
  <1>7. ASSUME \/ \E d \in ClientIDs : Revoke(d)
               \/ ToggleLock \/ BackupCreate \/ BackupRestore
        PROVE  Held(c)'
    <2>1. pending' = pending /\ ext' = ext /\ call' = call
      BY <1>7 DEF Revoke, ToggleLock, BackupCreate, BackupRestore
    <2> QED
      BY <2>1, StillHeld
  <1> QED
    BY <1>1, <1>2, <1>3, <1>4, <1>5, <1>6, <1>7

\* The credential of an approved client is only lost by a fault, the user's Cancel, a
\* claim whose receiver has gone, or an overtaken or second claim.
THEOREM CredentialsKept == Spec => CredentialKept
  <1> DEFINE Lost ==
          \/ faults' # faults
          \/ \E e \in Extensions : resetPairing(e)
          \/ \E e \in Extensions, s \in Slots : opClaim(e, s) /\ ~call[e][s].live
          \/ \E e \in Extensions, s \in Slots :
                /\ ClaimAnswered(e, s)
                /\ ext[e].identity # NoIdentity \/ call[e][s].overtaken
  <1>1. ASSUME IInv, FaultsOK, Next, NEW c \in ClientIDs, Holders(c) # {},
               Holders(c)' = {}
        PROVE  Lost
    <2> USE NoCallFields
    <2>0. Held(c) /\ ~Held(c)' /\ c # None
      BY <1>1, HeldHolders DEF ClientIDs, None
    <2>1. Types /\ CallsOK /\ ClaimsCurrent /\ call \in [Extensions -> [Slots -> Calls]]
          /\ ext \in [Extensions -> Memories]
      BY <1>1 DEF IInv, Types
    <2>2. ASSUME NEW e \in Extensions, NEW s \in Slots, opClaim(e, s), call[e][s].live
          PROVE  FALSE
      <3>1. call[e][s].client = None /\ call[e][s] \in Calls
        BY <2>1, <2>2 DEF opClaim, Waiting, CallsOK, CallOK
      <3>2. ext' = ext
        BY <2>2 DEF opClaim
      <3>3. ASSUME NEW f \in Extensions, NEW u \in Slots, call[f][u].client = c
            PROVE  call'[f][u].client = c
        <4>1. f # e \/ u # s
          BY <2>0, <3>1, <3>3
        <4>2. PICK m : call' = [call EXCEPT ![e][s] = m]
          BY <2>1, <2>2 DEF opClaim, Answer
        <4>3. call'[f][u] = call[f][u]
          BY <2>1, <4>1, <4>2
        <4> QED
          BY <3>3, <4>3
      <3>4. CASE pending' = pending
        BY <2>0, <3>2, <3>3, <3>4, StillHeld
      <3>5. CASE /\ call[e][s].id \in DOMAIN pending
                 /\ Answer(e, s, "ok", pending[call[e][s].id])
                 /\ pending' = Drop(pending, call[e][s].id)
        <4>1. CASE pending[call[e][s].id] = c
          <5>1. call'[e][s] = [call[e][s] EXCEPT !.answer = "ok", !.client = c]
            BY <2>1, <2>2, <3>5, <4>1 DEF Answer
          <5>2. call'[e][s].client = c
            BY <3>1, <5>1 DEF Calls
          <5> QED
            BY <2>0, <5>2 DEF Held
        <4>2. CASE pending[call[e][s].id] # c
          <5>1. ASSUME NEW i \in DOMAIN pending, pending[i] = c
                PROVE  i \in DOMAIN pending' /\ pending'[i] = c
            BY <3>5, <4>2, <5>1 DEF Drop
          <5> QED
            BY <2>0, <3>2, <3>3, <5>1, StillHeld
        <4> QED
          BY <4>1, <4>2
      <3> QED
        BY <2>2, <3>4, <3>5 DEF opClaim
    <2>3. ASSUME NEW e \in Extensions, NEW s \in Slots, ClaimAnswered(e, s),
                 ext[e].identity = NoIdentity, ~call[e][s].overtaken
          PROVE  FALSE
      <3>1. /\ pending' = pending /\ call' = [call EXCEPT ![e][s] = NoCall]
            /\ call[e][s].op = "claim" /\ call[e][s].live /\ call[e][s].id # None
        BY <1>1, <2>3 DEF ClaimAnswered, Answered, IInv, Bounds
      <3>2. ext[e].mem # None /\ NoIdentity.client = None
        BY <2>1, <2>3, <3>1, NewExtensionFields DEF ClaimsCurrent, Current
      <3>3. \A f \in Extensions : f # e => ext'[f] = ext[f]
        BY <2>1, <2>3 DEF ClaimAnswered
      <3>4. ext[e].identity.client # c
        BY <2>0, <2>3, <3>2
      <3>5. \A f \in Extensions, u \in Slots : f # e \/ u # s => call'[f][u] = call[f][u]
        BY <2>1, <3>1
      <3>6. CASE call[e][s].client # c
        BY <2>0, <3>1, <3>3, <3>4, <3>5, <3>6, StillHeld
      <3>7. CASE call[e][s].client = c
        <4> DEFINE i == [client |-> call[e][s].client, key |-> ext[e].mem,
                         overtaken |-> call[e][s].overtaken]
        <4>1. call[e][s].answer = "ok"
          BY <2>0, <2>1, <3>7 DEF CallsOK, CallOK
        <4>2. ext' = [ext EXCEPT ![e] = [NewExtension EXCEPT !.identity = i]]
          BY <2>3, <3>2, <4>1 DEF ClaimAnswered
        <4>3. i.client = c
          BY <3>7
        <4> HIDE DEF i
        <4>4. ext'[e].identity = i
          BY <2>1, <4>2 DEF NewExtension
        <4> QED
          BY <2>0, <4>3, <4>4 DEF Held
      <3> QED
        BY <3>6, <3>7
    <2>4. ASSUME \/ \E e \in Extensions : Disconnect(e) \/ ReapBusyWorker(e)
                 \/ Restart \/ \E id \in Attempts : ApproveThenStop(id)
          PROVE  faults' # faults
      <3>1. faults' = faults + 1
        BY <2>4 DEF Disconnect, ReapBusyWorker, Restart, ApproveThenStop, ProcessEnds, Fault
      <3> QED
        BY <1>1, <3>1 DEF FaultsOK
    <2> QED
      BY <1>1, <2>0, <2>2, <2>3, <2>4, StepKeepsHeld DEF Next, Extension, Daemon
  <1>2. IInv /\ FaultsOK /\ [Next]_vars =>
           [\A c \in ClientIDs : Holders(c) # {} /\ Holders(c)' = {} => Lost]_vars
    BY <1>1
  <1> HIDE DEF Lost
  <1>3. Spec => [][\A c \in ClientIDs : Holders(c) # {} /\ Holders(c)' = {} => Lost]_vars
    BY <1>2, Invariance, FaultsCounted, PTL DEF Spec
  <1> QED
    BY <1>3 DEF CredentialKept, Lost

\* A request that is in storage, or in a clients.pair call with a receiver, stays known
\* while it stays there.
LEMMA StillKnown ==
    ASSUME IInv, NEW id, id # None, Known(id),
           \A e \in Extensions : ext[e].stored = id => ext'[e].stored = id,
           \A e \in Extensions, s \in Slots :
              call[e][s].op = "pair" /\ call[e][s].id = id /\ call[e][s].live =>
                 call'[e][s].op = "pair" /\ call'[e][s].id = id /\ call'[e][s].live
    PROVE  Known(id)'
  <1>1. \/ \E e \in Extensions : ext[e].stored = id
        \/ \E e \in Extensions, s \in Slots :
              call[e][s].op = "pair" /\ call[e][s].id = id /\ call[e][s].live
    BY DEF Known, IInv, ExtsOK, ExtOK
  <1> QED
    BY <1>1 DEF Known

\* A request that waits for approval is not forgotten by its extension but for a
\* fault, the user's Cancel, and a second pairing of the same extension.
THEOREM RequestsNotLeftPending == Spec => NotLeftPending
  <1> DEFINE Left(id) ==
          \/ faults' # faults
          \/ \E e \in Extensions : resetPairing(e)
          \/ \E e \in Extensions, s \in Slots :
                (PairAnswered(e, s) \/ ClaimAnswered(e, s)) /\ call[e][s].id # id
  <1>1. ASSUME IInv, FaultsOK, Next, NEW id \in DOMAIN pending', Known(id), ~Known(id)'
        PROVE  Left(id)
    <2> USE NoCallFields
    <2>0. /\ Types /\ CallsOK /\ call \in [Extensions -> [Slots -> Calls]]
          /\ ext \in [Extensions -> Memories] /\ IInv'
      BY <1>1, NextStep DEF IInv, Types
    <2>i. id # None
      BY <2>0 DEF IInv, Bounds
    <2>1. ASSUME NEW e \in Extensions, NEW s \in Slots, startPairing(e, s) \/ claimPairing(e, s)
          PROVE  FALSE
      <3>1. PICK m : call' = [call EXCEPT ![e][s] = m]
        BY <2>1 DEF startPairing, claimPairing, Send
      <3>2. call[e][s].op = "none"
        BY <2>1 DEF startPairing, claimPairing, Free
      <3>3. \A f \in Extensions : ext'[f].stored = ext[f].stored
        <4>1. CASE ext' = ext
          BY <4>1
        <4>2. CASE ext' = [ext EXCEPT ![e].mem = ext[e].stored, ![e].open = TRUE]
          BY <2>0, <4>2 DEF Memories
        <4> QED
          BY <2>1, <4>1, <4>2 DEF startPairing, claimPairing
      <3>4. ASSUME NEW f \in Extensions, NEW u \in Slots, call[f][u].op = "pair"
            PROVE  call'[f][u] = call[f][u]
        <4>1. f # e \/ u # s
          BY <3>2, <3>4
        <4> QED
          BY <2>0, <3>1, <4>1
      <3> QED
        BY <1>1, <2>i, <3>3, <3>4, StillKnown
    <2>2. ASSUME NEW e \in Extensions, NEW s \in Slots, PairAnswered(e, s),
                 call[e][s].id = id
          PROVE  FALSE
      <3>1. ext'[e].mem = id
        BY <2>0, <2>2 DEF PairAnswered, Memories
      <3> QED
        BY <1>1, <3>1 DEF Known
    <2>3. ASSUME NEW e \in Extensions, NEW s \in Slots, ClaimAnswered(e, s),
                 call[e][s].id = id
          PROVE  FALSE
      <3>1. /\ call[e][s].op = "claim" /\ call' = [call EXCEPT ![e][s] = NoCall]
            /\ pending' = pending
        BY <2>3 DEF ClaimAnswered, Answered
      <3>2. call[e][s].answer # "ok"
        BY <1>1, <2>0, <2>3, <3>1 DEF CallsOK, CallOK
      <3>3. ext' = ext
        BY <2>3, <3>2 DEF ClaimAnswered
      <3>4. ASSUME NEW f \in Extensions, NEW u \in Slots, call[f][u].op = "pair"
            PROVE  call'[f][u] = call[f][u]
        <4>1. f # e \/ u # s
          BY <3>1, <3>4
        <4> QED
          BY <2>0, <3>1, <4>1
      <3> QED
        BY <1>1, <2>i, <3>3, <3>4, StillKnown
    <2>4. ASSUME NEW e \in Extensions, NEW s \in Slots, opPair(e, s) \/ opClaim(e, s)
          PROVE  FALSE
      <3>1. PICK answer, c : Answer(e, s, answer, c)
        BY <2>4 DEF opPair, opClaim
      <3>2. ext' = ext
        BY <2>4 DEF opPair, opClaim
      <3>3. ASSUME NEW f \in Extensions, NEW u \in Slots, call[f][u].op = "pair",
                   call[f][u].live
            PROVE  /\ call'[f][u].op = "pair" /\ call'[f][u].id = call[f][u].id
                   /\ call'[f][u].live
        <4>1. CASE f = e /\ u = s
          <5>1. call'[e][s] = [call[e][s] EXCEPT !.answer = answer, !.client = c]
            BY <2>0, <3>1, <3>3, <4>1 DEF Answer
          <5>2. call[e][s] \in Calls
            BY <2>0
          <5>3. /\ call'[e][s].op = call[e][s].op /\ call'[e][s].id = call[e][s].id
                /\ call'[e][s].live = call[e][s].live
            BY <5>1, <5>2 DEF Calls
          <5> QED
            BY <3>3, <4>1, <5>3
        <4>2. CASE f # e \/ u # s
          <5>1. PICK m : call' = [call EXCEPT ![e][s] = m]
            BY <2>0, <3>1 DEF Answer
          <5>2. call'[f][u] = call[f][u]
            BY <2>0, <4>2, <5>1
          <5> QED
            BY <3>3, <5>2
        <4> QED
          BY <4>1, <4>2
      <3> QED
        BY <1>1, <2>i, <3>2, <3>3, StillKnown
    <2>5. ASSUME NEW e \in Extensions, NEW s \in Slots, Vanish(e, s) PROVE FALSE
      <3>1. ext' = ext /\ call' = [call EXCEPT ![e][s] = NoCall] /\ ~call[e][s].live
        BY <2>5 DEF Vanish
      <3>2. ASSUME NEW f \in Extensions, NEW u \in Slots, call[f][u].live
            PROVE  call'[f][u] = call[f][u]
        <4>1. f # e \/ u # s
          BY <3>1, <3>2
        <4> QED
          BY <2>0, <3>1, <4>1
      <3> QED
        BY <1>1, <2>i, <3>1, <3>2, StillKnown
    <2>6. ASSUME NEW e \in Extensions, ReapIdleWorker(e) PROVE FALSE
      <3>1. call' = call /\ \A f \in Extensions : ext'[f].stored = ext[f].stored
        BY <2>0, <2>6 DEF ReapIdleWorker, Memories
      <3> QED
        BY <1>1, <2>i, <3>1, StillKnown
    <2>7. ASSUME \/ \E i \in Attempts : opCancel(i) \/ Approve(i)
                 \/ \E d \in ClientIDs : Revoke(d)
                 \/ ToggleLock \/ BackupCreate \/ BackupRestore
          PROVE  FALSE
      <3>1. ext' = ext /\ call' = call
        BY <2>7 DEF opCancel, Approve, Revoke, ToggleLock, BackupCreate, BackupRestore
      <3> QED
        BY <1>1, <2>i, <3>1, StillKnown
    <2>8. ASSUME \/ \E e \in Extensions : Disconnect(e) \/ ReapBusyWorker(e)
                 \/ Restart \/ \E i \in Attempts : ApproveThenStop(i)
          PROVE  faults' # faults
      <3>1. faults' = faults + 1
        BY <2>8 DEF Disconnect, ReapBusyWorker, Restart, ApproveThenStop, ProcessEnds, Fault
      <3> QED
        BY <1>1, <3>1 DEF FaultsOK
    <2> QED
      BY <1>1, <2>1, <2>2, <2>3, <2>4, <2>5, <2>6, <2>7, <2>8 DEF Next, Extension, Daemon
  <1>2. IInv /\ FaultsOK /\ [Next]_vars =>
           [\A id \in DOMAIN pending' : Known(id) /\ ~Known(id)' => Left(id)]_vars
    BY <1>1
  <1> HIDE DEF Left
  <1>3. Spec => [][\A id \in DOMAIN pending' : Known(id) /\ ~Known(id)' => Left(id)]_vars
    BY <1>2, Invariance, FaultsCounted, PTL DEF Spec
  <1> QED
    BY <1>3 DEF NotLeftPending, Left
===============================================================================
