-------------------------------- MODULE IdleLock -------------------------------
(***************************************************************************)
(* The idle auto-lock (internal/daemon/server.go) over the activity times  *)
(* and lifetimes of sessions (internal/access/application/sessions.go).    *)
(*                                                                         *)
(* Requests are atomic here; module Sessions interleaves them.  The check  *)
(* of the idle-lock loop and the lock it decides on are two steps, with    *)
(* requests between them.  Clients are not told apart, so the sessions a   *)
(* revocation drops are not modelled: whoever revokes has just been active.*)
(*                                                                         *)
(* Times are kept relative to the clock, as ages and remaining lifetimes,  *)
(* and stop growing where the code no longer tells them apart: a behaviour *)
(* is not bounded.                                                         *)
(***************************************************************************)
EXTENDS Integers

CONSTANTS
    Conns,      \* connections
    Window,     \* LockPolicy.AutoLockAfter
    Interval,   \* idleLockInterval
    TTL         \* DefaultSessionTTL

ASSUME IdleAssumption ==
    /\ Interval \in Nat \ {0} /\ Window \in Nat /\ TTL \in Nat
    /\ Interval <= Window /\ Window < TTL

\* Times since an event are not told apart from here on, nor lifetimes that are over.
MaxAge == Window + Interval + 1
Expired == -1

VARIABLES
    unlocked,   \* whether the vault is unlocked
    sess,       \* the session each connection names, in the table or not
    orphans,    \* sessions in the table that no connection names
    untilCheck, \* time until the ticker fires
    locking,    \* the idle-lock loop is past its checks and about to lock
    sinceUse,   \* history: time since the last capability-using request
    sinceIssue, \* history: time since a session was issued
    usedLeft    \* history: what is left of the session of that request

vars == <<unlocked, sess, orphans, untilCheck, locking, sinceUse, sinceIssue, usedLeft>>
history == <<sinceUse, sinceIssue, usedLeft>>

\* No connection.
NoSession == [open |-> FALSE, live |-> FALSE, current |-> FALSE, idle |-> 0, left |-> Expired]

Init ==
    /\ unlocked = FALSE
    /\ sess = [c \in Conns |-> NoSession]
    /\ orphans = {}
    /\ untilCheck = Interval /\ locking = FALSE
    /\ sinceUse = 0 /\ sinceIssue = 0 /\ usedLeft = Expired

-------------------------------------------------------------------------------
(* The session manager.                                                    *)

\* A session for the current epoch.
Issue == [open |-> TRUE, live |-> TRUE, current |-> TRUE, idle |-> 0, left |-> TTL]

ValidAt(s) == s.live /\ s.current /\ s.left # Expired

\* Mutation of Touch: polling counts as activity.
TouchAlways(s, activity) == [s EXCEPT !.idle = 0]

\* What Validate does to a valid session.
Touch(s, activity) == [s EXCEPT !.idle = IF activity THEN 0 ELSE @]

\* The session authorize leaves the connection with: its own, or a new one.
authorize(s, activity) == IF ValidAt(s) THEN Touch(s, activity) ELSE Issue

Issued(s) == sinceIssue' = IF ValidAt(s) THEN sinceIssue ELSE 0

\* The request used a capability through the session s.
Used(s) == sinceUse' = 0 /\ usedLeft' = s.left

\* A session in the table, without the connection that names it.
Entry(s) == [idle |-> s.idle, left |-> s.left]
Table == orphans \cup {Entry(sess[c]) : c \in {d \in Conns : sess[d].live}}

\* A session whose connection goes, or takes another, stays in the table.
Orphaned(s) == orphans' = orphans \cup IF s.live THEN {Entry(s)} ELSE {}

\* InvalidateAll, the hook of every lock.
InvalidateAll ==
    /\ sess' = [c \in Conns |-> [sess[c] EXCEPT !.live = FALSE]]
    /\ orphans' = {}

-------------------------------------------------------------------------------
(* Connections and requests.                                               *)

Connect(c) ==
    /\ ~sess[c].open
    /\ sess' = [sess EXCEPT ![c] = Issue]
    /\ sinceIssue' = 0
    /\ UNCHANGED <<unlocked, orphans, untilCheck, locking, sinceUse, usedLeft>>

\* Mutation of Close: the session stays the connection's.
CloseKeepingSession(c) ==
    /\ sess[c].open
    /\ sess' = [sess EXCEPT ![c].open = FALSE]
    /\ UNCHANGED <<unlocked, orphans, untilCheck, locking, history>>

\* handleConn returns: nothing drops the session.
Close(c) ==
    /\ sess[c].open
    /\ sess' = [sess EXCEPT ![c] = NoSession]
    /\ Orphaned(sess[c])
    /\ UNCHANGED <<unlocked, untilCheck, locking, history>>

\* vault.status: in lockedStateOps and in idleExemptOps.
Poll(c) ==
    /\ sess[c].open
    /\ sess' = [sess EXCEPT ![c] = authorize(@, FALSE)]
    /\ Issued(sess[c])
    /\ UNCHANGED <<unlocked, orphans, untilCheck, locking, sinceUse, usedLeft>>

\* Any request that is not in lockedStateOps.
Use(c) ==
    LET s == authorize(sess[c], TRUE) IN
    /\ sess[c].open
    /\ \/ /\ unlocked
          /\ sess' = [sess EXCEPT ![c] = s]
          /\ Issued(sess[c]) /\ Used(s)
       \/ /\ ~unlocked /\ ValidAt(sess[c])        \* refused by Keys()
          /\ sess' = [sess EXCEPT ![c] = s]
          /\ UNCHANGED history
       \/ /\ ~unlocked /\ ~ValidAt(sess[c])       \* refused by authorize
          /\ sess' = [sess EXCEPT ![c].live = FALSE]
          /\ UNCHANGED history
    /\ UNCHANGED <<unlocked, orphans, untilCheck, locking>>

\* opUnlock: authorized with one session and answered with another.  The epoch
\* moves, and every other session is of an earlier one.
Unlock(c) ==
    /\ sess[c].open
    /\ unlocked' = TRUE
    /\ sess' = [d \in Conns |-> IF d = c THEN Issue ELSE [sess[d] EXCEPT !.current = FALSE]]
    /\ Orphaned(authorize(sess[c], TRUE))
    /\ sinceIssue' = 0 /\ Used(Issue)
    /\ UNCHANGED <<untilCheck, locking>>

Lock(c) ==
    /\ sess[c].open
    /\ unlocked \/ ValidAt(sess[c])
    /\ unlocked' = FALSE
    /\ InvalidateAll
    /\ UNCHANGED <<untilCheck, locking, history>>

-------------------------------------------------------------------------------
(* The idle-lock loop.                                                     *)

\* Mutation of IsIdle: one idle session is enough.
IsIdleAny == \E s \in Table : s.left # Expired /\ s.idle >= Window

\* enforceIdleLock's verdict: no live session, or none active within the window.
IsIdle == \A s \in Table : s.left # Expired => s.idle >= Window

IdleCheck ==
    /\ untilCheck = 0 /\ ~locking
    /\ untilCheck' = Interval
    /\ locking' = (unlocked /\ IsIdle)
    /\ UNCHANGED <<unlocked, sess, orphans, history>>

IdleLock ==
    /\ locking
    /\ locking' = FALSE
    /\ unlocked' = FALSE
    /\ InvalidateAll
    /\ UNCHANGED <<untilCheck, history>>

Older(age, cap) == IF age < cap THEN age + 1 ELSE age
Shorter(left) == IF left > Expired THEN left - 1 ELSE left
Aged(s) == [s EXCEPT !.idle = Older(@, Window), !.left = Shorter(@)]

\* Time passes; the loop is not late.
Tick ==
    /\ untilCheck > 0 /\ ~locking
    /\ untilCheck' = untilCheck - 1
    /\ sess' = [c \in Conns |-> Aged(sess[c])]
    /\ orphans' = {Aged(s) : s \in orphans}
    /\ sinceUse' = Older(sinceUse, MaxAge) /\ sinceIssue' = Older(sinceIssue, MaxAge)
    /\ usedLeft' = Shorter(usedLeft)
    /\ UNCHANGED <<unlocked, locking>>

-------------------------------------------------------------------------------
(* Specification.                                                          *)

Next ==
    \/ \E c \in Conns :
          Connect(c) \/ Close(c) \/ Poll(c) \/ Use(c) \/ Unlock(c) \/ Lock(c)
    \/ IdleCheck \/ IdleLock \/ Tick

Spec == Init /\ [][Next]_vars

-------------------------------------------------------------------------------
(* Properties.                                                             *)

\* Type correctness.  Only open connections name a session of the table.
TypeOK ==
    /\ unlocked \in BOOLEAN /\ locking \in BOOLEAN /\ untilCheck \in 0..Interval
    /\ \A s \in Table : s.idle \in 0..Window /\ s.left \in Expired..TTL
    /\ \A c \in Conns : sess[c].live => sess[c].open

\* An unlocked vault is never left alone for longer than the window and one tick
\* of the loop, once no request uses it and no session is issued: whatever is
\* polled, closed or left behind in the table (Validate, LastActivity,
\* enforceIdleLock).
UnattendedLocks ==
    unlocked => sinceUse <= Window + Interval \/ sinceIssue <= Window + Interval

\* The loop decides to lock only when no request has used the vault for the
\* window, or the session of the last one has expired (LastActivity).
NotLockedInUse ==
    [][locking' /\ ~locking => sinceUse >= Window \/ usedLeft = Expired]_vars
===============================================================================
