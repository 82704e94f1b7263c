---------------------------- MODULE SessionsProofs -----------------------------
(***************************************************************************)
(* Proofs about module Sessions: no session outlives the unlocked period   *)
(* it was bound to, for any number of connections and clients and however  *)
(* far a goroutine lags behind the epoch it has read; and none outlives    *)
(* the revocation of its client.                                           *)
(***************************************************************************)
EXTENDS Sessions, TLAPS

\* The shapes of the variables.  A session is in the table only while its
\* connection is open.
ConnType ==
    [pc : Labels, who : Clients \cup {CLI}, op : CLIOps, target : Clients \cup {CLI},
     epoch : Nat, period : Nat]

SessType == [epoch : Nat, period : Nat, live : BOOLEAN, late : BOOLEAN]

Shapes ==
    /\ vault \in [state : {"locked", "unlocked"}, epoch : Nat]
    /\ period \in 0..MaxPeriod /\ lastReset \in 0..period
    /\ conn \in [Conns -> ConnType]
    /\ sess \in [Conns -> SessType]
    /\ \A c \in Conns : sess[c].live => conn[c].pc # "closed"

\* An epoch that was read in a period, as a goroutine or a session carries it:
\* since the last reset, one of this period is not ahead of the vault's and one
\* of an earlier period is behind it.
Fresh(e, p) ==
    /\ p <= period
    /\ p >= lastReset => /\ p = period => e <= vault.epoch
                         /\ p < period => e < vault.epoch

\* The inductive invariant: everything that carries an epoch is fresh, cleared
\* local variables and cleared sessions included.
IInv ==
    /\ Shapes
    /\ Fresh(0, 0)
    /\ \A c \in Conns : Fresh(conn[c].epoch, conn[c].period)
    /\ \A c \in Conns : Fresh(sess[c].epoch, sess[c].period)

-------------------------------------------------------------------------------
(* The values the variables take.                                          *)

USE SessionsAssumption
USE DEF LockedStateOps, BrowserOps, CLIOps, Labels

\* The local variables of a goroutine with nothing read.
LEMMA LocalShape ==
    ASSUME NEW pc \in Labels, NEW who \in Clients \cup {CLI}
    PROVE  /\ Local(pc, who) \in ConnType
           /\ Local(pc, who).pc = pc
           /\ Local(pc, who).epoch = 0 /\ Local(pc, who).period = 0
  BY DEF Local, ConnType

\* No session.
LEMMA NoSessionShape ==
    NoSession \in SessType /\ ~NoSession.live /\ NoSession.epoch = 0 /\ NoSession.period = 0
  BY DEF NoSession, SessType

\* The daemon starts fresh.
LEMMA InitFresh == Init => IInv
  <1> SUFFICES ASSUME Init PROVE IInv
    OBVIOUS
  <1>0. /\ Local("closed", CLI) \in ConnType
        /\ Local("closed", CLI).epoch = 0 /\ Local("closed", CLI).period = 0
    BY LocalShape
  <1>1. /\ \A c \in Conns : conn[c] = Local("closed", CLI)
        /\ \A c \in Conns : sess[c] = NoSession
    BY DEF Init
  <1>2. conn \in [Conns -> ConnType] /\ sess \in [Conns -> SessType]
    <2>1. /\ conn = [c \in Conns |-> Local("closed", CLI)]
          /\ sess = [c \in Conns |-> NoSession]
      BY DEF Init
    <2>2. \A k \in ConnType : [c \in Conns |-> k] \in [Conns -> ConnType]
      OBVIOUS
    <2>3. \A s \in SessType : [c \in Conns |-> s] \in [Conns -> SessType]
      OBVIOUS
    <2> HIDE DEF Local, NoSession
    <2> QED BY <1>0, <2>1, <2>2, <2>3, NoSessionShape
  <1>3. Shapes
    BY <1>1, <1>2, NoSessionShape DEF Init, Shapes
  <1>4. Fresh(0, 0)
    BY DEF Init, Fresh
  <1>5. ASSUME NEW c \in Conns
        PROVE  conn[c].epoch = 0 /\ conn[c].period = 0 /\ sess[c].epoch = 0 /\ sess[c].period = 0
    BY <1>0, <1>1, <1>5, NoSessionShape
  <1> QED BY <1>3, <1>4, <1>5 DEF IInv

-------------------------------------------------------------------------------
(* Two kinds of step.                                                      *)

\* A goroutine clears, keeps or reads an epoch; its session is cleared, is kept or
\* takes the epoch the goroutine had read; the vault is left alone.
LEMMA GoroutineStep ==
    ASSUME IInv, UNCHANGED <<vault, period, lastReset>>,
           NEW c \in Conns, NEW k \in ConnType, NEW s \in SessType,
           conn' = [conn EXCEPT ![c] = k], sess' = [sess EXCEPT ![c] = s],
           s.live => k.pc # "closed",
           \/ k.epoch = 0 /\ k.period = 0
           \/ k.epoch = conn[c].epoch /\ k.period = conn[c].period
           \/ k.epoch = vault.epoch /\ k.period = period,
           \/ s.epoch = 0 /\ s.period = 0
           \/ s.epoch = sess[c].epoch /\ s.period = sess[c].period
           \/ s.epoch = conn[c].epoch /\ s.period = conn[c].period
    PROVE  IInv'
  <1>1. ASSUME NEW e, NEW p, Fresh(e, p)
        PROVE  Fresh(e, p)'
    BY <1>1 DEF Fresh
  <1>2. Fresh(0, 0)' /\ Fresh(0, 0) /\ Fresh(vault.epoch, period)
    BY <1>1 DEF IInv, Shapes, Fresh
  <1>3. /\ conn' \in [Conns -> ConnType] /\ sess' \in [Conns -> SessType]
        /\ conn'[c] = k /\ sess'[c] = s
        /\ \A d \in Conns \ {c} : conn'[d] = conn[d] /\ sess'[d] = sess[d]
    BY DEF IInv, Shapes
  <1>4. Shapes'
    BY <1>3 DEF IInv, Shapes
  <1>5. Fresh(k.epoch, k.period) /\ Fresh(s.epoch, s.period)
    BY <1>2 DEF IInv
  <1>6. ASSUME NEW d \in Conns
        PROVE  /\ Fresh(conn'[d].epoch, conn'[d].period)
               /\ Fresh(sess'[d].epoch, sess'[d].period)
    BY <1>3, <1>5 DEF IInv
  <1>7. \A d \in Conns : /\ Fresh(conn[d].epoch, conn[d].period)'
                          /\ Fresh(sess[d].epoch, sess[d].period)'
    BY <1>6 DEF Fresh
  <1> QED BY <1>2, <1>4, <1>7 DEF IInv

\* The vault locks, unlocks or is reset, while every goroutine and session keeps
\* what it carries or is cleared: the period moves only together with the epoch,
\* or what was read before is disowned.
LEMMA VaultStep ==
    ASSUME IInv, Shapes',
           \/ period' = period /\ lastReset' = lastReset /\ vault'.epoch >= vault.epoch
           \/ period' = period + 1 /\ lastReset' = lastReset /\ vault'.epoch = vault.epoch + 1
           \/ period' = period + 1 /\ lastReset' = period + 1,
           \A d \in Conns :
              /\ \/ conn'[d].epoch = 0 /\ conn'[d].period = 0
                 \/ conn'[d].epoch = conn[d].epoch /\ conn'[d].period = conn[d].period
              /\ \/ sess'[d].epoch = 0 /\ sess'[d].period = 0
                 \/ sess'[d].epoch = sess[d].epoch /\ sess'[d].period = sess[d].period
    PROVE  IInv'
  <1>1. ASSUME NEW e \in Nat, NEW p \in Nat, Fresh(e, p)
        PROVE  Fresh(e, p)'
    BY <1>1 DEF IInv, Shapes, Fresh
  <1>2. Fresh(0, 0)'
    BY <1>1 DEF IInv
  <1>3. ASSUME NEW d \in Conns
        PROVE  /\ Fresh(conn[d].epoch, conn[d].period)'
               /\ Fresh(sess[d].epoch, sess[d].period)'
    <2>1. /\ conn[d].epoch \in Nat /\ conn[d].period \in Nat
          /\ sess[d].epoch \in Nat /\ sess[d].period \in Nat
          /\ Fresh(conn[d].epoch, conn[d].period) /\ Fresh(sess[d].epoch, sess[d].period)
      BY <1>3 DEF IInv, Shapes, ConnType, SessType
    <2>2. Fresh(conn[d].epoch, conn[d].period)'
      BY <1>1, <1>2, <1>3, <2>1 DEF Fresh
    <2>3. Fresh(sess[d].epoch, sess[d].period)'
      BY <1>1, <1>2, <1>3, <2>1 DEF Fresh
    <2> QED BY <2>2, <2>3
  <1> QED BY <1>2, <1>3 DEF IInv

-------------------------------------------------------------------------------
(* The actions.                                                            *)

\* What the invariant says of one connection.
LEMMA ConnShape ==
    ASSUME IInv, NEW c \in Conns
    PROVE  /\ conn[c] \in ConnType /\ sess[c] \in SessType
           /\ sess = [sess EXCEPT ![c] = sess[c]]
           /\ Local("ready", conn[c].who) \in ConnType
           /\ Local("ready", conn[c].who).pc = "ready"
           /\ Local("ready", conn[c].who).epoch = 0 /\ Local("ready", conn[c].who).period = 0
  <1>1. conn[c] \in ConnType /\ sess[c] \in SessType /\ sess = [sess EXCEPT ![c] = sess[c]]
    BY DEF IInv, Shapes
  <1>2. conn[c].who \in Clients \cup {CLI}
    BY <1>1 DEF ConnType
  <1> QED BY <1>1, <1>2, LocalShape

\* What a goroutine may do to its own session.
SessStep(c) ==
    sess' = sess \/ sess' = [sess EXCEPT ![c] = NoSession] \/ Issue(c)

\* The session it is left with.
LEMMA OwnSession ==
    ASSUME IInv, NEW c \in Conns, SessStep(c)
    PROVE  \E s \in SessType :
              /\ sess' = [sess EXCEPT ![c] = s]
              /\ \/ s.epoch = 0 /\ s.period = 0
                 \/ s.epoch = sess[c].epoch /\ s.period = sess[c].period
                 \/ s.epoch = conn[c].epoch /\ s.period = conn[c].period
  <1>1. CASE sess' = sess
    BY <1>1, ConnShape
  <1>2. CASE sess' = [sess EXCEPT ![c] = NoSession]
    BY <1>2, NoSessionShape
  <1>3. CASE Issue(c)
    <2> DEFINE b == Revoked(conn[c].who)
               s == [epoch |-> conn[c].epoch, period |-> conn[c].period, live |-> TRUE,
                     late |-> b]
    <2>1. b \in BOOLEAN
      BY DEF Revoked
    <2>2. sess' = [sess EXCEPT ![c] = s]
      BY <1>3 DEF Issue
    <2> HIDE DEF b
    <2>3. s \in SessType
      BY <2>1, ConnShape DEF SessType, ConnType
    <2> QED BY <2>2, <2>3
  <1> QED BY <1>1, <1>2, <1>3 DEF SessStep

\* A request is answered and leaves the vault alone.
LEMMA ReadyStep ==
    ASSUME IInv, NEW c \in Conns, UNCHANGED <<vault, period, lastReset>>, SessStep(c), Ready(c)
    PROVE  IInv'
  BY ConnShape, OwnSession, GoroutineStep DEF Ready

\* A goroutine goes on, to a place that is not "closed".
LEMMA GotoStep ==
    ASSUME IInv, NEW c \in Conns, UNCHANGED <<vault, period, lastReset>>, SessStep(c),
           NEW label \in Labels, label # "closed", Goto(c, label)
    PROVE  IInv'
  <1>1. PICK k \in ConnType :
          /\ conn' = [conn EXCEPT ![c] = k] /\ k.pc = label
          /\ k.epoch = conn[c].epoch /\ k.period = conn[c].period
    <2> DEFINE k == [conn[c] EXCEPT !.pc = label]
    <2>1. k \in ConnType /\ k.pc = label /\ k.epoch = conn[c].epoch /\ k.period = conn[c].period
      BY ConnShape DEF ConnType
    <2>2. conn' = [conn EXCEPT ![c] = k]
      BY DEF Goto
    <2> HIDE DEF k
    <2> QED BY <2>1, <2>2
  <1> QED BY <1>1, OwnSession, GoroutineStep

\* A goroutine reads the epoch.
LEMMA ReadEpochStep ==
    ASSUME IInv, NEW c \in Conns, UNCHANGED <<vault, period, lastReset, sess>>,
           NEW label \in Labels, label # "closed", NEW op \in CLIOps,
           ReadEpoch(c, op, label)
    PROVE  IInv'
  <1> DEFINE k == [pc |-> label, who |-> conn[c].who, op |-> op, target |-> CLI,
                   epoch |-> vault.epoch, period |-> period]
  <1>1. k \in ConnType
    BY ConnShape DEF ConnType, IInv, Shapes
  <1> QED BY <1>1, ConnShape, GoroutineStep DEF ReadEpoch

\* lockLocked, run by a goroutine that answers or by the idle-lock loop.
LEMMA LockStep ==
    ASSUME IInv, lockVault, lastReset' = lastReset, period < MaxPeriod,
           conn' = conn \/ \E c \in Conns : Ready(c)
    PROVE  IInv'
  <1>1. /\ sess' = [c \in Conns |-> NoSession]
        /\ \A d \in Conns : sess'[d] = NoSession
    BY DEF lockVault, InvalidateAll
  <1>2. /\ conn' \in [Conns -> ConnType]
        /\ \A d \in Conns :
              \/ conn'[d].epoch = 0 /\ conn'[d].period = 0
              \/ conn'[d].epoch = conn[d].epoch /\ conn'[d].period = conn[d].period
    BY ConnShape DEF Ready, IInv, Shapes
  <1>3. /\ vault' \in [state : {"locked", "unlocked"}, epoch : Nat]
        /\ \/ period' = period /\ vault'.epoch >= vault.epoch
           \/ period' = period + 1 /\ vault'.epoch = vault.epoch + 1
        /\ period' \in 0..MaxPeriod /\ lastReset' \in 0..period'
    BY DEF lockVault, IInv, Shapes
  <1>4. Shapes'
    BY <1>1, <1>2, <1>3, NoSessionShape DEF Shapes
  <1> QED BY <1>1, <1>2, <1>3, <1>4, NoSessionShape, VaultStep

\* A goroutine that has been authorized, or not, goes on.
LEMMA ProceedStep ==
    ASSUME IInv, NEW c \in Conns, UNCHANGED <<vault, period, lastReset>>, SessStep(c), Proceed(c)
    PROVE  IInv'
  <1>1. conn[c].op \in Labels /\ conn[c].op # "closed"
    BY ConnShape DEF ConnType
  <1> QED BY <1>1, ReadyStep, GotoStep DEF Proceed

\* The steps of authorize.
LEMMA AuthorizeStep ==
    ASSUME IInv, NEW c \in Conns, authorize(c)
    PROVE  IInv'
  <1>1. CASE Validate(c)
    BY <1>1, ProceedStep, GotoStep DEF Validate, SessStep
  <1>2. CASE Gate(c)
    BY <1>2, ReadyStep, GotoStep DEF Gate, SessStep
  <1>3. CASE Lookup(c)
    BY <1>3, ReadyStep, GotoStep DEF Lookup, SessStep
  <1>4. CASE Replace(c)
    BY <1>4, ProceedStep DEF Replace, SessStep
  <1> QED BY <1>1, <1>2, <1>3, <1>4 DEF authorize

\* Connecting, disconnecting and receiving a request.
LEMMA ConnectStep ==
    ASSUME IInv, NEW c \in Conns,
           \/ \E who \in Clients \cup {CLI} : Handshake(c, who)
           \/ buildConnState(c) \/ Admit(c) \/ Disconnect(c)
           \/ \E op \in Ops : Request(c, op)
    PROVE  IInv'
  <1>1. ASSUME NEW who \in Clients \cup {CLI}, Handshake(c, who)
        PROVE  IInv'
    <2>1. /\ Local("build", who) \in ConnType /\ Local("build", who).pc = "build"
          /\ Local("build", who).epoch = 0 /\ Local("build", who).period = 0
      BY LocalShape
    <2> QED BY <1>1, <2>1, ConnShape, GoroutineStep DEF Handshake
  <1>2. CASE buildConnState(c)
    BY <1>2, ReadEpochStep DEF buildConnState
  <1>3. CASE Admit(c)
    BY <1>3, ReadyStep DEF Admit, SessStep
  <1>4. CASE Disconnect(c)
    <2>1. /\ Local("closed", CLI) \in ConnType
          /\ Local("closed", CLI).epoch = 0 /\ Local("closed", CLI).period = 0
      BY LocalShape
    <2> QED BY <1>4, <2>1, NoSessionShape, GoroutineStep DEF Disconnect
  <1>5. ASSUME NEW op \in Ops, Request(c, op)
        PROVE  IInv'
    BY <1>5, ReadEpochStep DEF Request
  <1> QED BY <1>1, <1>2, <1>3, <1>4, <1>5

\* The steps of dispatch.
LEMMA DispatchStep ==
    ASSUME IInv, NEW c \in Conns, dispatch(c)
    PROVE  IInv'
  <1>1. CASE Answer(c) \/ RestoreRefused(c)
    BY <1>1, ReadyStep DEF Answer, RestoreRefused, SessStep
  <1>2. CASE Lock(c) \/ PanicLock(c)
    BY <1>2, LockStep DEF Lock, PanicLock
  <1>3. CASE Unlock(c)
    <2>1. PICK k \in ConnType :
            /\ conn' = [conn EXCEPT ![c] = k] /\ k.pc = "rebind"
            /\ k.epoch = conn[c].epoch /\ k.period = conn[c].period
      <3> DEFINE k == [conn[c] EXCEPT !.pc = "rebind"]
      <3>1. /\ k \in ConnType /\ k.pc = "rebind"
            /\ k.epoch = conn[c].epoch /\ k.period = conn[c].period
        BY ConnShape DEF ConnType
      <3>2. conn' = [conn EXCEPT ![c] = k]
        BY <1>3 DEF Unlock, Goto
      <3> HIDE DEF k
      <3> QED BY <3>1, <3>2
    <2>2. /\ conn' \in [Conns -> ConnType] /\ conn'[c] = k
          /\ \A d \in Conns \ {c} : conn'[d] = conn[d]
      BY <2>1 DEF IInv, Shapes
    <2>3. /\ vault' \in [state : {"locked", "unlocked"}, epoch : Nat]
          /\ vault'.epoch >= vault.epoch
          /\ UNCHANGED <<sess, period, lastReset>>
      BY <1>3 DEF Unlock, IInv, Shapes
    <2>4. Shapes'
      BY <2>1, <2>2, <2>3 DEF IInv, Shapes
    <2> QED BY <2>1, <2>2, <2>3, <2>4, VaultStep
  <1>4. CASE Rebind(c)
    BY <1>4, ReadEpochStep DEF Rebind
  <1>5. CASE Reissue(c)
    BY <1>5, ReadyStep DEF Reissue, SessStep
  <1>6. CASE Revoke(c)
    <2>1. CASE Ready(c)
      BY <1>6, <2>1, ReadyStep DEF Revoke, SessStep
    <2>2. ASSUME NEW t \in Clients,
                 conn' = [conn EXCEPT ![c] = [Local("drop", conn[c].who) EXCEPT !.target = t]]
          PROVE  IInv'
      <3> DEFINE k == [Local("drop", conn[c].who) EXCEPT !.target = t]
      <3>1. k \in ConnType /\ k.pc = "drop" /\ k.epoch = 0 /\ k.period = 0
        BY ConnShape DEF Local, ConnType
      <3>2. UNCHANGED <<vault, sess, period, lastReset>> /\ conn' = [conn EXCEPT ![c] = k]
        BY <1>6, <2>2 DEF Revoke
      <3> HIDE DEF k
      <3> QED BY <3>1, <3>2, ConnShape, GoroutineStep
    <2> QED BY <1>6, <2>1, <2>2 DEF Revoke
  <1>7. CASE DropClient(c)
    <2>1. /\ \A d \in Conns : sess'[d] = NoSession \/ sess'[d] = sess[d]
          /\ sess' \in [Conns -> SessType]
      BY <1>7, NoSessionShape, ConnShape DEF DropClient
    <2>2. /\ conn' \in [Conns -> ConnType] /\ conn'[c] = Local("ready", conn[c].who)
          /\ \A d \in Conns \ {c} : conn'[d] = conn[d]
          /\ UNCHANGED <<vault, period, lastReset>>
      BY <1>7, ConnShape DEF DropClient, Ready, IInv, Shapes
    <2>3. Shapes'
      BY <2>1, <2>2, ConnShape, NoSessionShape DEF IInv, Shapes
    <2>4. vault'.epoch >= vault.epoch
      BY <2>2 DEF IInv, Shapes
    <2> QED BY <2>1, <2>2, <2>3, <2>4, ConnShape, NoSessionShape, VaultStep
  <1>8. CASE Reset(c)
    <2>1. \A d \in Conns : sess'[d] = NoSession
      BY <1>8 DEF Reset, InvalidateAll
    <2>2. sess' \in [Conns -> SessType]
      BY <1>8, NoSessionShape DEF Reset, InvalidateAll
    <2>3. /\ conn' \in [Conns -> ConnType] /\ conn'[c] = Local("ready", conn[c].who)
          /\ \A d \in Conns \ {c} : conn'[d] = conn[d]
      BY <1>8, ConnShape DEF Reset, Ready, IInv, Shapes
    <2>4. /\ vault' \in [state : {"locked", "unlocked"}, epoch : Nat]
          /\ period' = period + 1 /\ lastReset' = period + 1 /\ period' \in 0..MaxPeriod
          /\ lastReset' \in 0..period'
      BY <1>8 DEF Reset, IInv, Shapes
    <2>5. Shapes'
      BY <2>1, <2>2, <2>3, <2>4, NoSessionShape DEF Shapes
    <2> QED BY <2>1, <2>3, <2>4, <2>5, ConnShape, NoSessionShape, VaultStep
  <1> QED BY <1>1, <1>2, <1>3, <1>4, <1>5, <1>6, <1>7, <1>8 DEF dispatch

\* Every step keeps the invariant.
LEMMA NextFresh == IInv /\ [Next]_vars => IInv'
  <1> SUFFICES ASSUME IInv, [Next]_vars PROVE IInv'
    OBVIOUS
  <1>1. CASE UNCHANGED vars
    BY <1>1 DEF vars, IInv, Shapes, Fresh
  <1>2. CASE IdleLock
    BY <1>2, LockStep DEF IdleLock
  <1>3. ASSUME NEW c \in Conns,
               \/ \E who \in Clients \cup {CLI} : Handshake(c, who)
               \/ buildConnState(c) \/ Admit(c) \/ Disconnect(c)
               \/ \E op \in Ops : Request(c, op)
        PROVE  IInv'
    BY <1>3, ConnectStep
  <1>4. ASSUME NEW c \in Conns, authorize(c) \/ dispatch(c)
        PROVE  IInv'
    BY <1>4, AuthorizeStep, DispatchStep
  <1> QED BY <1>1, <1>2, <1>3, <1>4 DEF Next

\* The invariant holds throughout.
LEMMA Invariance == Spec => []IInv
  BY InitFresh, NextFresh, PTL DEF Spec

-------------------------------------------------------------------------------
(* Theorems.                                                               *)

\* Type correctness of module Sessions.
THEOREM SessionsTypeCorrect == Spec => []TypeOK
  <1>1. IInv => TypeOK
    BY DEF IInv, Shapes, ConnType, SessType, TypeOK, At
  <1> QED BY <1>1, Invariance, PTL

\* Sessions die at lock, for any number of connections and clients: whichever
\* goroutines had read the epoch before the lock and issue their sessions after
\* it, no session is accepted outside the period its epoch was read in, unless a
\* restore came in between (Vault.Lock, Session.ValidAt, Reset).
THEOREM StaleSessionsRefused == Spec => []SessionsDieAtLock
  <1>1. IInv => SessionsDieAtLock
    <2> SUFFICES ASSUME IInv, NEW c \in Conns, ValidAt(c, vault.epoch)
                 PROVE  sess[c].period = period \/ sess[c].period < lastReset
      BY DEF SessionsDieAtLock
    <2>1. /\ sess[c].period \in Nat /\ period \in Nat /\ lastReset \in Nat
          /\ sess[c].epoch = vault.epoch /\ vault.epoch \in Nat
          /\ Fresh(sess[c].epoch, sess[c].period)
      BY DEF IInv, Shapes, SessType, ValidAt
    <2> QED BY <2>1 DEF Fresh
  <1> QED BY <1>1, Invariance, PTL

-------------------------------------------------------------------------------
(* Revocation.                                                             *)

\* Some goroutine has revoked the client and is about to drop its sessions.
BeingDropped(who) == \E d \in Conns : At(d, "drop") /\ conn[d].target = who

\* The inductive invariant: a session that was in the table before its client was
\* revoked is there only until the revoking goroutine has run DropClient.
Dropping ==
    \A c \in Conns :
        Revoked(conn[c].who) /\ sess[c].live /\ ~sess[c].late => BeingDropped(conn[c].who)

RInv ==
    /\ IInv
    /\ status \in [Clients -> {"approved", "revoked"}]
    /\ Dropping

\* The session a goroutine leaves itself with is its old one, none, or late.
LEMMA OwnSessionLate ==
    ASSUME IInv, NEW c \in Conns, SessStep(c)
    PROVE  /\ \A d \in Conns \ {c} : sess'[d] = sess[d]
           /\ \/ sess'[c] = sess[c]
              \/ ~sess'[c].live
              \/ Revoked(conn[c].who) => sess'[c].late
  <1>1. sess \in [Conns -> SessType]
    BY DEF IInv, Shapes
  <1>2. CASE sess' = sess
    BY <1>2
  <1>3. CASE sess' = [sess EXCEPT ![c] = NoSession]
    BY <1>1, <1>3, NoSessionShape
  <1>4. CASE Issue(c)
    <2> DEFINE b == Revoked(conn[c].who)
    <2>1. sess' = [sess EXCEPT ![c] = [epoch |-> conn[c].epoch, period |-> conn[c].period,
                                       live |-> TRUE, late |-> b]]
      BY <1>4 DEF Issue
    <2> HIDE DEF b
    <2>2. sess'[c].late = b /\ \A d \in Conns \ {c} : sess'[d] = sess[d]
      BY <1>1, <2>1
    <2> QED BY <2>2 DEF b
  <1> QED BY <1>2, <1>3, <1>4 DEF SessStep

\* A step of a goroutine that is not about to drop anything, and that changes
\* only itself and its own session.
LEMMA OwnStep ==
    ASSUME RInv, IInv', UNCHANGED status, NEW c \in Conns, ~At(c, "drop"),
           NEW k \in ConnType, conn' = [conn EXCEPT ![c] = k],
           k.who = conn[c].who \/ ~sess'[c].live, SessStep(c)
    PROVE  RInv'
  <1>1. conn'[c] = k /\ \A d \in Conns \ {c} : conn'[d] = conn[d]
    BY DEF RInv, IInv, Shapes
  <1>2. /\ \A d \in Conns \ {c} : sess'[d] = sess[d]
        /\ sess'[c] = sess[c] \/ ~sess'[c].live \/ (Revoked(conn[c].who) => sess'[c].late)
    BY OwnSessionLate DEF RInv
  <1>3. ASSUME NEW d \in Conns, Revoked(conn[d].who), sess[d].live, ~sess[d].late
        PROVE  \E e \in Conns : conn'[e].pc = "drop" /\ conn'[e].target = conn[d].who
    <2>1. PICK e \in Conns : conn[e].pc = "drop" /\ conn[e].target = conn[d].who
      BY <1>3 DEF RInv, Dropping, BeingDropped, At
    <2>2. e # c
      BY <2>1 DEF At
    <2> QED BY <1>1, <2>1, <2>2
  <1>4. ASSUME NEW d \in Conns, Revoked(conn'[d].who), sess'[d].live, ~sess'[d].late
        PROVE  \E e \in Conns : conn'[e].pc = "drop" /\ conn'[e].target = conn'[d].who
    <2>1. CASE d # c
      BY <1>1, <1>2, <1>3, <1>4, <2>1
    <2>2. CASE d = c
      <3>1. conn'[d].who = conn[d].who
        BY <1>1, <1>4, <2>2
      <3>2. Revoked(conn[d].who)
        BY <1>4, <3>1
      <3>3. sess'[d] = sess[d]
        BY <1>2, <1>4, <2>2, <3>2
      <3> QED BY <1>3, <1>4, <3>1, <3>2, <3>3
    <2> QED BY <2>1, <2>2
  <1>5. Dropping'
    BY <1>4 DEF Dropping, Revoked, BeingDropped, At
  <1> QED BY <1>5 DEF RInv

\* A goroutine that answers, goes on or reads the epoch remains the same client's.
LEMMA SameClient ==
    ASSUME RInv, IInv', UNCHANGED status, NEW c \in Conns, ~At(c, "drop"), SessStep(c),
           \/ Ready(c) \/ Proceed(c)
           \/ \E label \in Labels : Goto(c, label)
           \/ \E label \in Labels, op \in CLIOps : ReadEpoch(c, op, label)
    PROVE  RInv'
  <1>1. \E k : conn' = [conn EXCEPT ![c] = k] /\ k.who = conn[c].who
    <2>1. CASE Ready(c)
      <3>1. Local("ready", conn[c].who).who = conn[c].who
        BY DEF Local
      <3> QED BY <2>1, <3>1 DEF Ready
    <2>2. ASSUME NEW label, Goto(c, label)
          PROVE  \E k : conn' = [conn EXCEPT ![c] = k] /\ k.who = conn[c].who
      <3>1. [conn[c] EXCEPT !.pc = label].who = conn[c].who
        BY ConnShape DEF RInv, ConnType
      <3> QED BY <2>2, <3>1 DEF Goto
    <2>3. ASSUME NEW label, NEW op, ReadEpoch(c, op, label)
          PROVE  \E k : conn' = [conn EXCEPT ![c] = k] /\ k.who = conn[c].who
      <3> DEFINE k == [pc |-> label, who |-> conn[c].who, op |-> op, target |-> CLI,
                       epoch |-> vault.epoch, period |-> period]
      <3>1. conn' = [conn EXCEPT ![c] = k] /\ k.who = conn[c].who
        BY <2>3 DEF ReadEpoch
      <3> HIDE DEF k
      <3> QED BY <3>1
    <2> QED BY <2>1, <2>2, <2>3 DEF Proceed
  <1>2. PICK k : conn' = [conn EXCEPT ![c] = k] /\ k.who = conn[c].who
    BY <1>1
  <1>3. k \in ConnType
    BY <1>2 DEF RInv, IInv, Shapes
  <1> QED BY <1>2, <1>3, OwnStep

\* No session is left in the table.
LEMMA EmptiedStep ==
    ASSUME IInv', status' \in [Clients -> {"approved", "revoked"}],
           \A d \in Conns : sess'[d] = NoSession
    PROVE  RInv'
  <1>1. \A d \in Conns : ~sess'[d].live
    BY NoSessionShape
  <1> QED BY <1>1 DEF RInv, Dropping

\* The row changes and the goroutine that changed it is about to drop: whoever's
\* session was in order until now is being dropped.
LEMMA RevokeStep ==
    ASSUME RInv, IInv', NEW c \in Conns, Revoke(c)
    PROVE  RInv'
  <1>1. CASE Ready(c) /\ UNCHANGED status
    BY <1>1, SameClient DEF Revoke, SessStep, At
  <1>2. ASSUME NEW t \in Clients, status' = [status EXCEPT ![t] = "revoked"],
               conn' = [conn EXCEPT ![c] = [Local("drop", conn[c].who) EXCEPT !.target = t]]
        PROVE  RInv'
    <2>1. /\ conn'[c].pc = "drop" /\ conn'[c].target = t /\ conn'[c].who = conn[c].who
          /\ \A d \in Conns \ {c} : conn'[d] = conn[d]
      BY <1>2 DEF RInv, IInv, Shapes, Local
    <2>2. sess' = sess /\ conn[c].pc = "revoke"
      BY DEF Revoke, At
    <2>3. /\ status' \in [Clients -> {"approved", "revoked"}]
          /\ \A k \in Clients \ {t} : status'[k] = status[k]
      BY <1>2 DEF RInv
    <2>4. ASSUME NEW d \in Conns, conn'[d].who \in Clients, status'[conn'[d].who] = "revoked",
                 sess'[d].live, ~sess'[d].late
          PROVE  \E e \in Conns : conn'[e].pc = "drop" /\ conn'[e].target = conn'[d].who
      <3>1. conn'[d].who = conn[d].who
        BY <2>1
      <3>2. CASE conn[d].who = t
        BY <2>1, <3>1, <3>2
      <3>3. CASE conn[d].who # t
        <4>1. Revoked(conn[d].who)
          BY <2>3, <2>4, <3>1, <3>3 DEF Revoked
        <4>2. PICK e \in Conns : conn[e].pc = "drop" /\ conn[e].target = conn[d].who
          BY <2>2, <2>4, <4>1 DEF RInv, Dropping, BeingDropped, At
        <4>3. e # c
          BY <2>2, <4>2
        <4> QED BY <2>1, <3>1, <4>2, <4>3
      <3> QED BY <3>2, <3>3
    <2>5. Dropping'
      BY <2>4 DEF Dropping, Revoked, BeingDropped, At
    <2> QED BY <2>3, <2>5 DEF RInv
  <1> QED BY <1>1, <1>2 DEF Revoke

\* The sessions of the target go; those of the others wait for their own drop.
LEMMA DropStep ==
    ASSUME RInv, IInv', NEW c \in Conns, DropClient(c)
    PROVE  RInv'
  <1>1. /\ conn'[c].who = conn[c].who
        /\ \A d \in Conns \ {c} : conn'[d] = conn[d]
    BY DEF DropClient, Ready, Local, RInv, IInv, Shapes
  <1>2. \A d \in Conns : sess'[d] = IF conn[d].who = conn[c].target THEN NoSession ELSE sess[d]
    BY DEF DropClient
  <1>3. ASSUME NEW d \in Conns, Revoked(conn[d].who), sess'[d].live, ~sess'[d].late
        PROVE  \E e \in Conns : conn'[e].pc = "drop" /\ conn'[e].target = conn'[d].who
    <2>1. conn[d].who # conn[c].target /\ sess'[d] = sess[d] /\ conn'[d].who = conn[d].who
      BY <1>1, <1>2, <1>3, NoSessionShape
    <2>2. PICK e \in Conns : conn[e].pc = "drop" /\ conn[e].target = conn[d].who
      BY <1>3, <2>1 DEF RInv, Dropping, BeingDropped, At
    <2>3. e # c
      BY <2>1, <2>2
    <2> QED BY <1>1, <2>1, <2>2, <2>3
  <1>4. UNCHANGED status
    BY DEF DropClient
  <1>5. \A d \in Conns : conn'[d].who = conn[d].who
    BY <1>1
  <1>6. Dropping'
    BY <1>3, <1>4, <1>5 DEF Dropping, Revoked, BeingDropped, At
  <1> QED BY <1>4, <1>6 DEF RInv

\* Every step keeps the invariant.
LEMMA NextDropping == RInv /\ [Next]_vars => RInv'
  <1> SUFFICES ASSUME RInv, [Next]_vars PROVE RInv'
    OBVIOUS
  <1>0. IInv'
    BY NextFresh DEF RInv
  <1>1. CASE UNCHANGED vars
    BY <1>0, <1>1 DEF vars, RInv, Dropping, Revoked, BeingDropped, At
  <1>2. CASE IdleLock
    BY <1>0, <1>2, EmptiedStep DEF IdleLock, lockVault, InvalidateAll, RInv
  <1>3. ASSUME NEW c \in Conns, NEW who \in Clients \cup {CLI}, Handshake(c, who)
        PROVE  RInv'
    <2>1. Local("build", who) \in ConnType
      BY LocalShape
    <2>2. ~sess'[c].live
      BY <1>3 DEF Handshake, At, RInv, IInv, Shapes
    <2> QED BY <1>0, <1>3, <2>1, <2>2, OwnStep DEF Handshake, SessStep, At
  <1>4. ASSUME NEW c \in Conns, Disconnect(c)
        PROVE  RInv'
    <2>1. Local("closed", CLI) \in ConnType
      BY LocalShape
    <2>2. ~sess'[c].live
      BY <1>4, NoSessionShape DEF Disconnect, RInv, IInv, Shapes
    <2> QED BY <1>0, <1>4, <2>1, <2>2, OwnStep DEF Disconnect, SessStep, At
  <1>5. ASSUME NEW c \in Conns,
               \/ buildConnState(c) \/ Admit(c) \/ Rebind(c) \/ Reissue(c)
               \/ \E op \in Ops : Request(c, op)
        PROVE  RInv'
    BY <1>0, <1>5, SameClient
       DEF buildConnState, Admit, Rebind, Reissue, Request, SessStep, At
  <1>6. ASSUME NEW c \in Conns, authorize(c)
        PROVE  RInv'
    BY <1>0, <1>6, SameClient
       DEF authorize, Validate, Gate, Lookup, Replace, SessStep, At
  <1>7. ASSUME NEW c \in Conns, Answer(c) \/ RestoreRefused(c) \/ Unlock(c)
        PROVE  RInv'
    BY <1>0, <1>7, SameClient DEF Answer, RestoreRefused, Unlock, SessStep, At
  <1>8. ASSUME NEW c \in Conns, Lock(c) \/ PanicLock(c)
        PROVE  RInv'
    BY <1>0, <1>8, EmptiedStep DEF Lock, PanicLock, lockVault, InvalidateAll, RInv
  <1>9. ASSUME NEW c \in Conns, Reset(c)
        PROVE  RInv'
    <2>1. PICK old \in SUBSET Clients :
            status' = [k \in Clients |-> IF k \in old THEN "approved" ELSE status[k]]
      BY <1>9 DEF Reset
    <2>2. status' \in [Clients -> {"approved", "revoked"}]
      BY <2>1 DEF RInv
    <2>3. \A d \in Conns : sess'[d] = NoSession
      BY <1>9 DEF Reset, InvalidateAll
    <2> QED BY <1>0, <2>2, <2>3, EmptiedStep
  <1> QED BY <1>0, <1>1, <1>2, <1>3, <1>4, <1>5, <1>6, <1>7, <1>8, <1>9, RevokeStep, DropStep
          DEF Next, dispatch

\* Once a revocation is complete the client is out, for any number of connections
\* and clients and however many revocations overlap: DropClient leaves it no
\* session but one that opUnlock, authorize or buildConnState issued after the row
\* had changed.
THEOREM RevokedClientsAreOut == Spec => []RevokedHaveNoSession
  <1>1. Init => RInv
    <2> SUFFICES ASSUME Init PROVE RInv
      OBVIOUS
    <2>1. \A c \in Conns : ~sess[c].live
      BY NoSessionShape DEF Init
    <2> QED BY <2>1, InitFresh DEF RInv, Dropping, Init
  <1>2. RInv => RevokedHaveNoSession
    BY DEF RInv, Dropping, BeingDropped, RevokedHaveNoSession, ValidAt
  <1> QED BY <1>1, <1>2, NextDropping, PTL DEF Spec
===============================================================================
