-------------------------------- MODULE Sessions -------------------------------
(***************************************************************************)
(* Who may act: connections, their sessions and the vault epoch            *)
(* (internal/daemon/server.go and handlers.go,                             *)
(* internal/access/application).  Each connection is a goroutine; a step   *)
(* is what it does under one lock or one query, so a lock, a revocation or *)
(* a restore can fall between the check of a session and its use.          *)
(*                                                                         *)
(* The session table is kept per connection: a session that no connection  *)
(* names can never be presented again.  Time is left to module IdleLock,   *)
(* so sessions do not expire here.                                         *)
(***************************************************************************)
EXTENDS Integers, FiniteSets

CONSTANTS
    Conns,      \* connections
    Clients,    \* paired browser clients
    CLI,        \* the identity of a direct connection (the zero client ID)
    Ops,        \* the operations that may be requested
    MaxPeriod,  \* bound: locks and resets in one behaviour
    MaxEpoch    \* bound: vault epoch

LockedStateOps == {"status", "unlock"}
BrowserOps == LockedStateOps \cup {"lock", "use"}
CLIOps == BrowserOps \cup {"revoke", "reset"}

ASSUME SessionsAssumption ==
    /\ CLI \notin Clients /\ Ops \subseteq CLIOps /\ MaxPeriod \in Nat /\ MaxEpoch \in Nat

VARIABLES
    vault,      \* lock state and epoch
    status,     \* table clients: approved or revoked
    conn,       \* the local variables of each connection's goroutine
    sess,       \* the session each connection holds, and whether it is in the table
    period,     \* history: locks and resets so far
    lastReset   \* history: the period the last reset began

vars == <<vault, status, conn, sess, period, lastReset>>

\* Where a goroutine may be: between two requests, inside authorize or dispatch.
Labels == CLIOps \cup {"closed", "build", "admit", "ready", "validate", "gate", "lookup",
                       "issue", "rebind", "reissue", "drop"}

\* No session in the table, and a goroutine between two requests.
NoSession == [epoch |-> 0, period |-> 0, live |-> FALSE, late |-> FALSE]
Local(pc, who) == [pc |-> pc, who |-> who, op |-> "status", target |-> CLI,
                   epoch |-> 0, period |-> 0]

Init ==
    /\ vault = [state |-> "locked", epoch |-> 0]
    /\ status = [k \in Clients |-> "approved"]
    /\ conn = [c \in Conns |-> Local("closed", CLI)]
    /\ sess = [c \in Conns |-> NoSession]
    /\ period = 0 /\ lastReset = 0

-------------------------------------------------------------------------------
(* The session manager.                                                    *)

At(c, label) == conn[c].pc = label
Goto(c, label) == conn' = [conn EXCEPT ![c].pc = label]

\* The request is answered; its local variables are gone.
Ready(c) == conn' = [conn EXCEPT ![c] = Local("ready", conn[c].who)]

\* A goroutine reads the epoch, and binds what it issues later to it.
ReadEpoch(c, op, label) ==
    conn' = [conn EXCEPT ![c] = [pc |-> label, who |-> conn[c].who, op |-> op, target |-> CLI,
                                 epoch |-> vault.epoch, period |-> period]]

\* The client is revoked, whatever its goroutine has seen of it.
Revoked(who) == who \in Clients /\ status[who] = "revoked"

\* A session for the epoch the goroutine has read; late is history.
Issue(c) ==
    sess' = [sess EXCEPT ![c] =
                [epoch |-> conn[c].epoch, period |-> conn[c].period, live |-> TRUE,
                 late |-> Revoked(conn[c].who)]]

\* The session is in the table and of the given epoch.
ValidAt(c, epoch) == sess[c].live /\ sess[c].epoch = epoch

InvalidateAll == sess' = [c \in Conns |-> NoSession]

\* Session.Authorize on the capabilities of the client.
MayDo(who, op) == op \in (IF who = CLI THEN CLIOps ELSE BrowserOps)
Proceed(c) == IF MayDo(conn[c].who, conn[c].op) THEN Goto(c, conn[c].op) ELSE Ready(c)

\* Mutation of lockVault: the epoch stays, the hooks drop the sessions.
lockVaultSameEpoch ==
    /\ vault' = [vault EXCEPT !.state = "locked"]
    /\ period' = IF vault.state = "unlocked" THEN period + 1 ELSE period
    /\ InvalidateAll

\* lockLocked with its hooks.
lockVault ==
    /\ vault' = [state |-> "locked",
                 epoch |-> vault.epoch + IF vault.state = "unlocked" THEN 1 ELSE 0]
    /\ period' = IF vault.state = "unlocked" THEN period + 1 ELSE period
    /\ InvalidateAll

-------------------------------------------------------------------------------
(* Connecting.                                                             *)

\* ServerHandshake: lookupClient refuses a client that is not approved.
Handshake(c, who) ==
    /\ At(c, "closed")
    /\ who # CLI => status[who] = "approved"
    /\ conn' = [conn EXCEPT ![c] = Local("build", who)]
    /\ UNCHANGED <<vault, status, sess, period, lastReset>>

\* buildConnState reads the epoch, and the client row for its capabilities.
buildConnState(c) ==
    /\ At(c, "build")
    /\ ReadEpoch(c, "status", "admit")
    /\ UNCHANGED <<vault, status, sess, period, lastReset>>

Admit(c) ==
    /\ At(c, "admit")
    /\ Issue(c)
    /\ Ready(c)
    /\ UNCHANGED <<vault, status, period, lastReset>>

\* Mutation of Disconnect: the session goes on to the next connection.
DisconnectKeepingSession(c) ==
    /\ At(c, "ready")
    /\ conn' = [conn EXCEPT ![c] = Local("closed", CLI)]
    /\ UNCHANGED <<vault, status, sess, period, lastReset>>

\* handleConn returns, and nobody names the session any more.
Disconnect(c) ==
    /\ At(c, "ready")
    /\ conn' = [conn EXCEPT ![c] = Local("closed", CLI)]
    /\ sess' = [sess EXCEPT ![c] = NoSession]
    /\ UNCHANGED <<vault, status, period, lastReset>>

-------------------------------------------------------------------------------
(* authorize.                                                              *)

Request(c, op) ==
    /\ At(c, "ready") /\ op \in Ops
    /\ ReadEpoch(c, op, "validate")
    /\ UNCHANGED <<vault, status, sess, period, lastReset>>

Validate(c) ==
    /\ At(c, "validate")
    /\ IF ValidAt(c, conn[c].epoch)
       THEN Proceed(c) /\ sess' = sess
       ELSE Goto(c, "gate") /\ sess' = [sess EXCEPT ![c] = NoSession]
    /\ UNCHANGED <<vault, status, period, lastReset>>

\* No replacement session while the vault is locked, but for lockedStateOps.
Gate(c) ==
    /\ At(c, "gate")
    /\ IF vault.state = "locked" /\ conn[c].op \notin LockedStateOps
       THEN Ready(c)
       ELSE Goto(c, IF conn[c].who = CLI THEN "issue" ELSE "lookup")
    /\ UNCHANGED <<vault, status, sess, period, lastReset>>

Lookup(c) ==
    /\ At(c, "lookup")
    /\ IF status[conn[c].who] = "approved" THEN Goto(c, "issue") ELSE Ready(c)
    /\ UNCHANGED <<vault, status, sess, period, lastReset>>

Replace(c) ==
    /\ At(c, "issue")
    /\ Issue(c)
    /\ Proceed(c)
    /\ UNCHANGED <<vault, status, period, lastReset>>

-------------------------------------------------------------------------------
(* dispatch.                                                               *)

\* vault.status, an operation on records, and an unlock that is refused: no
\* effect on sessions.
Answer(c) ==
    /\ conn[c].pc \in {"status", "use", "unlock"}
    /\ Ready(c)
    /\ UNCHANGED <<vault, status, sess, period, lastReset>>

Lock(c) ==
    /\ At(c, "lock") /\ period < MaxPeriod
    /\ lockVault
    /\ Ready(c)
    /\ UNCHANGED <<status, lastReset>>

\* opUnlock with the right password: either the vault stays unlocked or a failed
\* integrity check panic-locks it.
Unlock(c) ==
    /\ At(c, "unlock") /\ vault.epoch < MaxEpoch
    /\ vault' = [state |-> "unlocked", epoch |-> vault.epoch + 1]
    /\ Goto(c, "rebind")
    /\ UNCHANGED <<status, sess, period, lastReset>>

PanicLock(c) ==
    /\ At(c, "rebind") /\ period < MaxPeriod
    /\ lockVault
    /\ Ready(c)
    /\ UNCHANGED <<status, lastReset>>

\* opUnlock gives the connection a session of the new epoch.
Rebind(c) ==
    /\ At(c, "rebind")
    /\ ReadEpoch(c, "unlock", "reissue")
    /\ UNCHANGED <<vault, status, sess, period, lastReset>>

Reissue(c) ==
    /\ At(c, "reissue")
    /\ Issue(c)
    /\ Ready(c)
    /\ UNCHANGED <<vault, status, period, lastReset>>

\* opRevoke: the row changes in a transaction that needs the keyring, then
\* DropClient removes the sessions.
Revoke(c) ==
    /\ At(c, "revoke")
    /\ \/ /\ vault.state = "unlocked"
          /\ \E k \in Clients :
                /\ status' = [status EXCEPT ![k] = "revoked"]
                /\ conn' = [conn EXCEPT ![c] = [Local("drop", conn[c].who) EXCEPT !.target = k]]
       \/ /\ vault.state = "locked"
          /\ Ready(c)
          /\ UNCHANGED status
    /\ UNCHANGED <<vault, sess, period, lastReset>>

\* Mutation of DropClient: the sessions of the caller go, not the target's.
DropCaller(c) ==
    /\ At(c, "drop")
    /\ sess' = [d \in Conns |->
          IF conn[d].who = conn[c].who THEN NoSession ELSE sess[d]]
    /\ Ready(c)
    /\ UNCHANGED <<vault, status, period, lastReset>>

DropClient(c) ==
    /\ At(c, "drop")
    /\ sess' = [d \in Conns |->
          IF conn[d].who = conn[c].target THEN NoSession ELSE sess[d]]
    /\ Ready(c)
    /\ UNCHANGED <<vault, status, period, lastReset>>

\* opBackupRestore: Verify needs the keyring.  Reset forgets the vault row, the
\* epoch with it; the snapshot may predate a revocation.
RestoreRefused(c) ==
    /\ At(c, "reset") /\ vault.state = "locked"
    /\ Ready(c)
    /\ UNCHANGED <<vault, status, sess, period, lastReset>>

Reset(c) ==
    /\ At(c, "reset") /\ vault.state = "unlocked" /\ period < MaxPeriod
    /\ vault' = [state |-> "locked", epoch |-> 0]
    /\ period' = period + 1
    /\ lastReset' = period + 1
    /\ InvalidateAll
    /\ \E old \in SUBSET Clients :
          status' = [k \in Clients |-> IF k \in old THEN "approved" ELSE status[k]]
    /\ Ready(c)

\* The idle-lock loop.
IdleLock ==
    /\ vault.state = "unlocked" /\ period < MaxPeriod
    /\ lockVault
    /\ UNCHANGED <<status, conn, lastReset>>

-------------------------------------------------------------------------------
(* Specification.                                                          *)

authorize(c) == Validate(c) \/ Gate(c) \/ Lookup(c) \/ Replace(c)

dispatch(c) ==
    \/ Answer(c) \/ Lock(c) \/ Unlock(c) \/ PanicLock(c) \/ Rebind(c) \/ Reissue(c)
    \/ Revoke(c) \/ DropClient(c) \/ RestoreRefused(c) \/ Reset(c)

Next ==
    \/ \E c \in Conns :
        \/ \E who \in Clients \cup {CLI} : Handshake(c, who)
        \/ buildConnState(c) \/ Admit(c) \/ Disconnect(c)
        \/ \E op \in Ops : Request(c, op)
        \/ authorize(c) \/ dispatch(c)
    \/ IdleLock

Spec == Init /\ [][Next]_vars

-------------------------------------------------------------------------------
(* Properties.                                                             *)

\* Type correctness.
TypeOK ==
    /\ vault.state \in {"locked", "unlocked"} /\ vault.epoch \in Nat
    /\ period \in 0..MaxPeriod /\ lastReset \in 0..period
    /\ \A c \in Conns : /\ conn[c].who \in Clients \cup {CLI} /\ conn[c].op \in CLIOps
                        /\ conn[c].pc \in Labels
    /\ \A c \in Conns : sess[c].live => ~At(c, "closed")

\* A session that is accepted at the current epoch belongs to the current period:
\* even one that was issued after a lock, by a goroutine that had read the epoch
\* before it, is dead (Vault.Lock bumps the epoch, Session.ValidAt).  Only a
\* session of before a restore escapes it.
SessionsDieAtLock ==
    \A c \in Conns :
        ValidAt(c, vault.epoch) => sess[c].period = period \/ sess[c].period < lastReset

\* Once a revocation is complete the client has no session that is accepted, on any
\* of its connections (DropClient).  The exception is late: opUnlock issues without
\* looking at the client's status, buildConnState and authorize some time after they
\* looked, so a session may enter the table when DropClient has already emptied it.
RevokedHaveNoSession ==
    \A c \in Conns :
        LET beingDropped == \E d \in Conns : At(d, "drop") /\ conn[d].target = conn[c].who
        IN  Revoked(conn[c].who) /\ ~beingDropped /\ ~sess[c].late
                => ~ValidAt(c, vault.epoch)
===============================================================================
