-------------------------------- MODULE Pairing --------------------------------
(***************************************************************************)
(* Pairing a browser with the daemon: the pending requests and client rows *)
(* of internal/access/application/service.go, the pairing operations of    *)
(* internal/daemon/handlers.go, the operator who approves, and the         *)
(* extension (extension/src/background/index.ts), which must get from its  *)
(* request to a stored identity across lost answers, a reaped service      *)
(* worker, a daemon that restarts and a database that is restored.         *)
(*                                                                         *)
(* Every clients.pair call carries a new static key and yields a new       *)
(* pairing identifier; the call, the key and the identifier are one number *)
(* here.  A client identifier stands for the credential issued with it.    *)
(***************************************************************************)
EXTENDS Integers, FiniteSets

CONSTANTS
    Extensions,     \* browser profiles
    Slots,          \* calls one extension may have in flight
    MaxAttempts,    \* bound: clients.pair calls
    MaxClients,     \* bound: client identifiers minted
    MaxFaults       \* bound: faults

ASSUME PairingAssumption ==
    MaxAttempts \in Nat /\ MaxClients \in Nat /\ MaxFaults \in Nat

VARIABLES
    unlocked,   \* the lock state of the vault
    pending,    \* Service.pending: identifier -> the approved client, or None
    clients,    \* table clients: identifier -> [key, status]
    backup,     \* table clients as the last backup container holds it
    ext,        \* what each extension remembers
    call,       \* the calls in flight
    attempts, minted, faults

vars == <<unlocked, pending, clients, backup, ext, call, attempts, minted, faults>>

None == 0
Attempts == 1..MaxAttempts
ClientIDs == 1..MaxClients
EmptyTable == [x \in {} |-> x]
Put(f, k, v) == [i \in DOMAIN f \cup {k} |-> IF i = k THEN v ELSE f[i]]
Drop(f, k) == [i \in DOMAIN f \ {k} |-> f[i]]

\* No identity in chrome.storage.local, and a free slot.
NoIdentity == [client |-> None, key |-> None, overtaken |-> FALSE]
NoCall == [op |-> "none", id |-> None, answer |-> "waiting", client |-> None,
           live |-> FALSE, overtaken |-> FALSE]

\* mem and open: the global "pairing" of the service worker and whether its
\* transport is still connected; stored and identity: chrome.storage.local.
NewExtension == [mem |-> None, open |-> FALSE, stored |-> None, identity |-> NoIdentity]

Init ==
    /\ unlocked = TRUE
    /\ pending = EmptyTable /\ clients = EmptyTable /\ backup = EmptyTable
    /\ ext = [e \in Extensions |-> NewExtension]
    /\ call = [e \in Extensions |-> [s \in Slots |-> NoCall]]
    /\ attempts = 0 /\ minted = 0 /\ faults = 0

-------------------------------------------------------------------------------
(* Calls.                                                                  *)

Free(e, s) == call[e][s] = NoCall
Waiting(e, s, op) == call[e][s].op = op /\ call[e][s].answer = "waiting"
Answered(e, s, op) ==
    call[e][s].op = op /\ call[e][s].live /\ call[e][s].answer # "waiting"

Send(e, s, op, id) ==
    call' = [call EXCEPT ![e][s] = [NoCall EXCEPT !.op = op, !.id = id, !.live = TRUE]]

\* The daemon answers; nobody receives the answer to a call whose port is gone.
Answer(e, s, answer, client) ==
    call' = [call EXCEPT ![e][s] =
                IF @.live THEN [@ EXCEPT !.answer = answer, !.client = client] ELSE NoCall]

\* The calls of e in the slots lost have no receiver any more; the daemon may
\* still read a request it has not answered.
Sever(e, lost) ==
    [s \in Slots |-> IF s \notin lost THEN call[e][s]
                     ELSE IF call[e][s].op # "none" /\ call[e][s].answer = "waiting"
                     THEN [call[e][s] EXCEPT !.live = FALSE] ELSE NoCall]

-------------------------------------------------------------------------------
(* The extension.                                                          *)

\* The popup offers to start a pairing while there is no identity and no
\* pairing in storage.
startPairing(e, s) ==
    /\ Free(e, s) /\ attempts < MaxAttempts
    /\ ext[e].identity = NoIdentity /\ ext[e].stored = None
    /\ attempts' = attempts + 1
    /\ Send(e, s, "pair", attempts + 1)
    /\ UNCHANGED <<unlocked, pending, clients, backup, ext, minted, faults>>

\* The pairing a claim in flight was made for is replaced, or was ended by the
\* claim that gave the extension its identity.
Overtakes(e, s) ==
    /\ call[e][s].op = "claim"
    /\ call[e][s].overtaken \/ ext[e].mem # None \/ ext[e].identity # NoIdentity

\* Mutation of PairAnswered: the pairing is not saved.
PairAnsweredUnsaved(e, s) ==
    /\ Answered(e, s, "pair")
    /\ ext' = [ext EXCEPT ![e].mem = call[e][s].id, ![e].open = TRUE]
    /\ call' = [call EXCEPT ![e] =
          [t \in Slots |-> IF t = s THEN NoCall
                           ELSE [call[e][t] EXCEPT !.overtaken = Overtakes(e, t)]]]
    /\ UNCHANGED <<unlocked, pending, clients, backup, attempts, minted, faults>>

\* startPairing goes on: the pairing becomes the current one, also under a claim
\* of another pairing that is still in flight, and is saved.
PairAnswered(e, s) ==
    /\ Answered(e, s, "pair")
    /\ ext' = [ext EXCEPT ![e].mem = call[e][s].id, ![e].open = TRUE,
                          ![e].stored = call[e][s].id]
    /\ call' = [call EXCEPT ![e] =
          [t \in Slots |-> IF t = s THEN NoCall
                           ELSE [call[e][t] EXCEPT !.overtaken = Overtakes(e, t)]]]
    /\ UNCHANGED <<unlocked, pending, clients, backup, attempts, minted, faults>>

\* Mutation of claimPairing: the pairing is not read back from storage.
claimFromMemory(e, s) ==
    /\ Free(e, s) /\ ext[e].identity = NoIdentity
    /\ ext[e].mem # None /\ ext[e].open
    /\ Send(e, s, "claim", ext[e].mem)
    /\ UNCHANGED <<unlocked, pending, clients, backup, ext, attempts, minted, faults>>

\* claimPairing: the worker uses the pairing it has in memory, or reads it back
\* from storage and connects again; a transport that is closed fails the call.
claimPairing(e, s) ==
    /\ Free(e, s) /\ ext[e].identity = NoIdentity
    /\ \/ /\ ext[e].mem # None /\ ext[e].open
          /\ Send(e, s, "claim", ext[e].mem)
          /\ UNCHANGED ext
       \/ /\ ext[e].mem = None /\ ext[e].stored # None
          /\ Send(e, s, "claim", ext[e].stored)
          /\ ext' = [ext EXCEPT ![e].mem = ext[e].stored, ![e].open = TRUE]
    /\ UNCHANGED <<unlocked, pending, clients, backup, attempts, minted, faults>>

\* claimPairing goes on.  The key is read from the current pairing now, not from
\* the one the call was made for.
ClaimAnswered(e, s) ==
    LET c == call[e][s]
        identity == [client |-> c.client, key |-> ext[e].mem, overtaken |-> c.overtaken]
    IN  /\ Answered(e, s, "claim")
        /\ ext' = IF c.answer = "ok" /\ ext[e].mem # None
                  THEN [ext EXCEPT ![e] = [NewExtension EXCEPT !.identity = identity]]
                  ELSE ext
        /\ call' = [call EXCEPT ![e][s] = NoCall]
        /\ UNCHANGED <<unlocked, pending, clients, backup, attempts, minted, faults>>

\* Mutation of resetPairing: the transport of the pairing stays open.
resetKeepingTransport(e) ==
    /\ ext[e].stored # None /\ ext[e].identity = NoIdentity
    /\ ext' = [ext EXCEPT ![e] = NewExtension]
    /\ UNCHANGED <<unlocked, pending, clients, backup, call, attempts, minted, faults>>

\* The popup's Cancel: storage is cleared first, so the pairing that would be
\* cancelled at the daemon is never found there.
resetPairing(e) ==
    /\ ext[e].stored # None /\ ext[e].identity = NoIdentity
    /\ ext' = [ext EXCEPT ![e] = NewExtension]
    /\ call' = [call EXCEPT ![e] = Sever(e, {s \in Slots : call[e][s].id = ext[e].mem})]
    /\ UNCHANGED <<unlocked, pending, clients, backup, attempts, minted, faults>>

-------------------------------------------------------------------------------
(* The pairing operations of the daemon, each under Service.mu.            *)

opPair(e, s) ==
    /\ Waiting(e, s, "pair")
    /\ pending' = Put(pending, call[e][s].id, None)
    /\ Answer(e, s, "ok", None)
    /\ UNCHANGED <<unlocked, clients, backup, ext, attempts, minted, faults>>

\* Mutation of opClaim: the pending entry is not deleted.
opClaimAgain(e, s) ==
    LET id == call[e][s].id IN
    /\ Waiting(e, s, "claim")
    /\ IF id \notin DOMAIN pending THEN Answer(e, s, "not_found", None)
       ELSE IF pending[id] = None THEN Answer(e, s, "denied", None)
       ELSE Answer(e, s, "ok", pending[id])
    /\ UNCHANGED <<unlocked, pending, clients, backup, ext, attempts, minted, faults>>

\* ClaimCredential.
opClaim(e, s) ==
    LET id == call[e][s].id IN
    /\ Waiting(e, s, "claim")
    /\ \/ /\ id \notin DOMAIN pending
          /\ Answer(e, s, "not_found", None) /\ UNCHANGED pending
       \/ /\ id \in DOMAIN pending /\ pending[id] = None
          /\ Answer(e, s, "denied", None) /\ UNCHANGED pending
       \/ /\ id \in DOMAIN pending /\ pending[id] # None
          /\ Answer(e, s, "ok", pending[id]) /\ pending' = Drop(pending, id)
    /\ UNCHANGED <<unlocked, clients, backup, ext, attempts, minted, faults>>

\* Mutation of opCancel: an approved pairing is dropped too.
opCancelAny(id) ==
    /\ id \in DOMAIN pending
    /\ pending' = Drop(pending, id)
    /\ UNCHANGED <<unlocked, clients, backup, ext, call, attempts, minted, faults>>

\* clients.cancel from a client of the pairing channel that knows the identifier
\* (the extension never gets this far): an unknown identifier and an approved
\* request are refused.
opCancel(id) ==
    /\ id \in DOMAIN pending /\ pending[id] = None
    /\ pending' = Drop(pending, id)
    /\ UNCHANGED <<unlocked, clients, backup, ext, call, attempts, minted, faults>>

-------------------------------------------------------------------------------
(* The operator.                                                           *)

\* The client row of an approval, with the static key of the request pinned.
Register(id) ==
    /\ minted < MaxClients
    /\ minted' = minted + 1
    /\ clients' = Put(clients, minted + 1, [key |-> id, status |-> "approved"])

\* Mutation of Approve: an approved request is approved again.
ApproveAgain(id) ==
    /\ unlocked /\ id \in DOMAIN pending
    /\ Register(id)
    /\ pending' = [pending EXCEPT ![id] = minted + 1]
    /\ UNCHANGED <<unlocked, backup, ext, call, attempts, faults>>

\* Approve a request of the list that ListPending gives.
Approve(id) ==
    /\ unlocked
    /\ id \in DOMAIN pending /\ pending[id] = None
    /\ Register(id)
    /\ pending' = [pending EXCEPT ![id] = minted + 1]
    /\ UNCHANGED <<unlocked, backup, ext, call, attempts, faults>>

Revoke(c) ==
    /\ unlocked /\ c \in DOMAIN clients /\ clients[c].status = "approved"
    /\ clients' = [clients EXCEPT ![c].status = "revoked"]
    /\ UNCHANGED <<unlocked, pending, backup, ext, call, attempts, minted, faults>>

\* vault.lock and vault.unlock.
ToggleLock ==
    /\ unlocked' = ~unlocked
    /\ UNCHANGED <<pending, clients, backup, ext, call, attempts, minted, faults>>

BackupCreate ==
    /\ unlocked
    /\ backup' = clients
    /\ UNCHANGED <<unlocked, pending, clients, ext, call, attempts, minted, faults>>

\* A restore replaces the table and locks the vault; the pending requests, the
\* approved ones included, are kept.
BackupRestore ==
    /\ unlocked /\ clients # backup
    /\ clients' = backup /\ unlocked' = FALSE
    /\ UNCHANGED <<pending, backup, ext, call, attempts, minted, faults>>

-------------------------------------------------------------------------------
(* Faults.                                                                 *)

Fault == faults < MaxFaults /\ faults' = faults + 1

\* The native host or its connection to the daemon goes away.
Disconnect(e) ==
    /\ Fault
    /\ \E s \in Slots : call[e][s].live
    /\ ext' = [ext EXCEPT ![e].open = FALSE]
    /\ call' = [call EXCEPT ![e] = Sever(e, Slots)]
    /\ UNCHANGED <<unlocked, pending, clients, backup, attempts, minted>>

\* Chrome stops the service worker.
ReapBusyWorker(e) ==
    /\ Fault
    /\ \/ ext[e].open
       \/ \E s \in Slots : call[e][s].live
    /\ ext' = [ext EXCEPT ![e].mem = None, ![e].open = FALSE]
    /\ call' = [call EXCEPT ![e] = Sever(e, Slots)]
    /\ UNCHANGED <<unlocked, pending, clients, backup, attempts, minted>>

\* ... and does so for certain once it has no open port.
ReapIdleWorker(e) ==
    /\ ext[e].mem # None /\ ~ext[e].open
    /\ \A s \in Slots : ~call[e][s].live
    /\ ext' = [ext EXCEPT ![e].mem = None]
    /\ UNCHANGED <<unlocked, pending, clients, backup, call, attempts, minted, faults>>

\* A request without a receiver is not read by the daemon at all.
Vanish(e, s) ==
    /\ call[e][s].op # "none" /\ ~call[e][s].live
    /\ call' = [call EXCEPT ![e][s] = NoCall]
    /\ UNCHANGED <<unlocked, pending, clients, backup, ext, attempts, minted, faults>>

\* The daemon stops and starts again: every connection is closed, answers that
\* are already under way may still arrive.
ProcessEnds ==
    /\ Fault
    /\ pending' = EmptyTable /\ unlocked' = FALSE
    /\ ext' = [e \in Extensions |-> [ext[e] EXCEPT !.open = FALSE]]
    /\ call' = [e \in Extensions |-> [s \in Slots |->
                  IF call[e][s].answer = "waiting" THEN NoCall ELSE call[e][s]]]
    /\ UNCHANGED <<backup, attempts>>

Restart == ProcessEnds /\ UNCHANGED <<clients, minted>>

\* The daemon stops after Approve has committed the row.
ApproveThenStop(id) ==
    /\ unlocked /\ id \in DOMAIN pending /\ pending[id] = None
    /\ Register(id)
    /\ ProcessEnds

-------------------------------------------------------------------------------
(* Specification.                                                          *)

Extension(e, s) ==
    \/ startPairing(e, s) \/ PairAnswered(e, s) \/ claimPairing(e, s) \/ ClaimAnswered(e, s)

Daemon(e, s) == opPair(e, s) \/ opClaim(e, s)

Next ==
    \/ \E e \in Extensions, s \in Slots : Extension(e, s) \/ Daemon(e, s) \/ Vanish(e, s)
    \/ \E e \in Extensions :
          resetPairing(e) \/ Disconnect(e) \/ ReapBusyWorker(e) \/ ReapIdleWorker(e)
    \/ \E id \in Attempts : opCancel(id) \/ Approve(id) \/ ApproveThenStop(id)
    \/ \E c \in ClientIDs : Revoke(c)
    \/ ToggleLock \/ BackupCreate \/ BackupRestore \/ Restart

Spec == Init /\ [][Next]_vars

\* The daemon serves its connections, the worker resumes when an answer is there
\* and is stopped when it is idle, and the user selects Finish pairing again.
FairSpec ==
    /\ Spec
    /\ \A e \in Extensions :
          WF_vars(ReapIdleWorker(e)) /\ WF_vars(\E s \in Slots : claimPairing(e, s))
    /\ \A e \in Extensions, s \in Slots :
          /\ WF_vars(Daemon(e, s)) /\ WF_vars(Vanish(e, s))
          /\ WF_vars(PairAnswered(e, s) \/ ClaimAnswered(e, s))

-------------------------------------------------------------------------------
(* Properties.                                                             *)

\* One approval makes one client: however approvals, claims, cancellations and
\* restarts are ordered, no pairing request yields two rows (Approve).
OneClientPerPairing ==
    \A c, d \in DOMAIN clients : clients[c].key = clients[d].key => c = d

\* Where the credential of c is: with the daemon, under way, or with an extension.
Holders(c) ==
    {<<"pending", id>> : id \in {i \in DOMAIN pending : pending[i] = c}}
      \cup {p \in Extensions \X Slots : call[p[1]][p[2]].client = c}
      \cup {<<"identity", e>> : e \in {x \in Extensions : ext[x].identity.client = c}}

\* A credential is handed out once: two claims of one pairing that race, over one
\* channel or two, never both get it (ClaimCredential).
HandedOutOnce == \A c \in 1..minted : Cardinality(Holders(c)) <= 1

\* A stored identity names the static key that the daemon pinned for its client,
\* whatever cancellations and restarts lie between the request and the claim.  Only
\* a claim that another startPairing overtook is saved with the key of the other.
IdentityMatchesRow ==
    \A e \in Extensions :
        LET i == ext[e].identity IN
        i.client \in DOMAIN clients /\ ~i.overtaken => clients[i.client].key = i.key

\* The credential of an approved client is never lost by the protocol itself: only
\* a fault, the user's Cancel, a request nobody waits for any more, or a claim that
\* another pairing of the same extension overtook, leaves the row without a holder
\* (Cancel refuses an approved pairing, claimPairing reads it back from storage).
CredentialKept ==
    [][\A c \in ClientIDs : Holders(c) # {} /\ Holders(c)' = {} =>
          \/ faults' # faults
          \/ \E e \in Extensions : resetPairing(e)
          \/ \E e \in Extensions, s \in Slots : opClaim(e, s) /\ ~call[e][s].live
          \/ \E e \in Extensions, s \in Slots :
                /\ ClaimAnswered(e, s)
                /\ ext[e].identity # NoIdentity \/ call[e][s].overtaken]_vars

\* The extension that made a request, or is about to learn of it, can name it.
Known(id) ==
    \E e \in Extensions :
        \/ id \in {ext[e].mem, ext[e].stored}
        \/ \E s \in Slots : call[e][s].op = "pair" /\ call[e][s].id = id /\ call[e][s].live

\* A request that waits for approval is not forgotten by its extension, and left in
\* the daemon's list, but for a fault, the user's Cancel, and a second pairing that
\* replaces it or whose claim ends the first.
NotLeftPending ==
    [][\A id \in DOMAIN pending' : Known(id) /\ ~Known(id)' =>
          \/ faults' # faults
          \/ \E e \in Extensions : resetPairing(e)
          \/ \E e \in Extensions, s \in Slots :
                (PairAnswered(e, s) \/ ClaimAnswered(e, s)) /\ call[e][s].id # id]_vars

\* An approved pairing that an unpaired extension has in storage ends in a claim,
\* whatever faults come in between, because the worker recovers it from storage.
PairingCompletes ==
    \A e \in Extensions, id \in Attempts :
        ext[e].stored = id /\ id \in DOMAIN pending /\ pending[id] # None
            ~> \/ id \notin DOMAIN pending \/ ext[e].stored # id
               \/ ext[e].identity # NoIdentity
===============================================================================
