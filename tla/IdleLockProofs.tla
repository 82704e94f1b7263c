---------------------------- MODULE IdleLockProofs -----------------------------
(***************************************************************************)
(* Proofs about module IdleLock, for any number of connections and any     *)
(* window, interval and session lifetime that IdleAssumption allows.       *)
(***************************************************************************)
EXTENDS IdleLock, TLAPS

\* The shapes of the variables.
EntryType == [idle : 0..Window, left : Expired..TTL]
SessType == [open : BOOLEAN, live : BOOLEAN, current : BOOLEAN,
             idle : 0..Window, left : Expired..TTL]

Shapes ==
    /\ unlocked \in BOOLEAN /\ locking \in BOOLEAN
    /\ sess \in [Conns -> SessType]
    /\ \A c \in Conns : sess[c].live => sess[c].open
    /\ orphans \subseteq EntryType
    /\ untilCheck \in 0..Interval
    /\ sinceUse \in 0..MaxAge /\ sinceIssue \in 0..MaxAge /\ usedLeft \in Expired..TTL

\* A session of an unlocked vault has been idle for as long as nothing has used
\* the vault and no session was issued, as far as the window reaches.
Tracks(s, use, issue) == s.idle >= Window \/ s.idle >= use \/ s.idle >= issue

Tracked ==
    unlocked => /\ \A c \in Conns : sess[c].live => Tracks(sess[c], sinceUse, sinceIssue)
                /\ \A s \in orphans : Tracks(s, sinceUse, sinceIssue)

\* An unlocked vault that the loop has not condemned is due a check in time.
InTime ==
    unlocked =>
        LET due == IF locking THEN Window + Interval ELSE Window + Interval - untilCheck
        IN  sinceUse <= due \/ sinceIssue <= due

\* The session of the last use is in the table until it expires.
Holds(s, use, left) == s.idle <= use /\ s.left = left

LastUseKept ==
    unlocked =>
        \/ usedLeft = Expired
        \/ \E c \in Conns :
              sess[c].live /\ sess[c].current /\ Holds(sess[c], sinceUse, usedLeft)
        \/ \E s \in orphans : Holds(s, sinceUse, usedLeft)

\* The inductive invariant.
IInv == Shapes /\ Tracked /\ InTime /\ LastUseKept

USE IdleAssumption
USE DEF MaxAge, Expired

-------------------------------------------------------------------------------
(* The session values.                                                     *)

\* A new session.
LEMMA IssueShape ==
    /\ Issue \in SessType /\ Issue.open /\ Issue.live /\ Issue.current
    /\ Issue.idle = 0 /\ Issue.left = TTL
  BY DEF Issue, SessType

\* A connection that is not there.
LEMMA NoSessionShape == NoSession \in SessType /\ ~NoSession.live
  BY DEF NoSession, SessType

\* A session that was active n ago.
LEMMA WithIdle ==
    ASSUME NEW s \in SessType, NEW n \in 0..Window
    PROVE  /\ [s EXCEPT !.idle = n] \in SessType
           /\ [s EXCEPT !.idle = n].idle = n /\ [s EXCEPT !.idle = n].left = s.left
           /\ [s EXCEPT !.idle = n].open = s.open /\ [s EXCEPT !.idle = n].live = s.live
           /\ [s EXCEPT !.idle = n].current = s.current
  BY DEF SessType

\* A session that is dropped from the table.
LEMMA Dropped ==
    ASSUME NEW s \in SessType
    PROVE  [s EXCEPT !.live = FALSE] \in SessType /\ ~[s EXCEPT !.live = FALSE].live
  <1>1. [s EXCEPT !.live = FALSE] \in SessType
    BY DEF SessType
  <1>2. ~[s EXCEPT !.live = FALSE].live
    BY DEF SessType
  <1> QED BY <1>1, <1>2

\* A session that an unlock leaves behind.
LEMMA Outdated ==
    ASSUME NEW s \in SessType
    PROVE  /\ [s EXCEPT !.current = FALSE] \in SessType
           /\ [s EXCEPT !.current = FALSE].live = s.live
           /\ [s EXCEPT !.current = FALSE].open = s.open
           /\ [s EXCEPT !.current = FALSE].idle = s.idle
  <1>1. [s EXCEPT !.current = FALSE] \in SessType
    BY DEF SessType
  <1>2. [s EXCEPT !.current = FALSE].live = s.live /\ [s EXCEPT !.current = FALSE].open = s.open
    BY DEF SessType
  <1>3. [s EXCEPT !.current = FALSE].idle = s.idle
    BY DEF SessType
  <1> QED BY <1>1, <1>2, <1>3

\* A session as the table keeps it without its connection.
LEMMA EntryShape ==
    ASSUME NEW s \in SessType
    PROVE  Entry(s) \in EntryType /\ Entry(s).idle = s.idle /\ Entry(s).left = s.left
  BY DEF Entry, SessType, EntryType

\* Time moves ages and lifetimes together, and nothing else.
LEMMA AgedShape ==
    /\ \A s \in SessType :
          /\ Aged(s) \in SessType
          /\ Aged(s).open = s.open /\ Aged(s).live = s.live /\ Aged(s).current = s.current
          /\ Aged(s).idle = Older(s.idle, Window) /\ Aged(s).left = Shorter(s.left)
    /\ \A s \in EntryType :
          /\ Aged(s) \in EntryType
          /\ Aged(s).idle = Older(s.idle, Window) /\ Aged(s).left = Shorter(s.left)
  <1>1. /\ \A n \in 0..Window : Older(n, Window) \in 0..Window
        /\ \A m \in Expired..TTL : Shorter(m) \in Expired..TTL
    BY DEF Older, Shorter
  <1>2. ASSUME NEW s \in SessType PROVE s.idle \in 0..Window /\ s.left \in Expired..TTL
    BY <1>2 DEF SessType
  <1>3. ASSUME NEW s \in EntryType PROVE s.idle \in 0..Window /\ s.left \in Expired..TTL
    BY <1>3 DEF EntryType
  <1>4. ASSUME NEW s PROVE Aged(s) = [s EXCEPT !.idle = Older(s.idle, Window), !.left = Shorter(s.left)]
    BY DEF Aged
  <1>5. ASSUME NEW s \in SessType
        PROVE  /\ Aged(s) \in SessType
               /\ Aged(s).open = s.open /\ Aged(s).live = s.live
               /\ Aged(s).current = s.current
               /\ Aged(s).idle = Older(s.idle, Window) /\ Aged(s).left = Shorter(s.left)
    <2>1. PICK n \in 0..Window, m \in Expired..TTL :
            n = Older(s.idle, Window) /\ m = Shorter(s.left)
      BY <1>1, <1>2, <1>5
    <2>2. PICK t : t = Aged(s)
      OBVIOUS
    <2>3. t = [s EXCEPT !.idle = n, !.left = m]
      BY <1>4, <2>1, <2>2
    <2>4. /\ t \in SessType /\ t.open = s.open /\ t.live = s.live
          /\ t.current = s.current /\ t.idle = n /\ t.left = m
      BY <2>3 DEF SessType
    <2> QED BY <2>1, <2>2, <2>4, Zenon
  <1>6. ASSUME NEW s \in EntryType
        PROVE  /\ Aged(s) \in EntryType
               /\ Aged(s).idle = Older(s.idle, Window) /\ Aged(s).left = Shorter(s.left)
    <2>1. PICK n \in 0..Window, m \in Expired..TTL :
            n = Older(s.idle, Window) /\ m = Shorter(s.left)
      BY <1>1, <1>3, <1>6
    <2>2. PICK t : t = Aged(s)
      OBVIOUS
    <2>3. t = [s EXCEPT !.idle = n, !.left = m]
      BY <1>4, <2>1, <2>2
    <2>4. t \in EntryType /\ t.idle = n /\ t.left = m
      BY <2>3 DEF EntryType
    <2> QED BY <2>1, <2>2, <2>4, Zenon
  <1> QED BY <1>5, <1>6

\* The session authorize leaves the connection with.
LEMMA AuthorizeShape ==
    ASSUME NEW s \in SessType, NEW b \in BOOLEAN, s.live => s.open
    PROVE  /\ authorize(s, b) \in SessType /\ authorize(s, b).open
           /\ authorize(s, b).live /\ authorize(s, b).current
           /\ b => authorize(s, b).idle = 0
           /\ ValidAt(s) => authorize(s, b).left = s.left /\ authorize(s, b).idle <= s.idle
           /\ ValidAt(s) /\ ~b => authorize(s, b).idle = s.idle
           /\ ~ValidAt(s) => authorize(s, b).idle = 0
  <1>1. CASE ValidAt(s)
    <2>1. s.live /\ s.current /\ s.open /\ s.idle \in 0..Window
      BY <1>1 DEF ValidAt, SessType
    <2>2. CASE b
      <3>1. authorize(s, b) = [s EXCEPT !.idle = 0]
        BY <1>1, <2>2 DEF authorize, Touch
      <3>2. PICK n \in 0..Window : n = 0
        OBVIOUS
      <3>3. /\ authorize(s, b) = [s EXCEPT !.idle = n]
            /\ [s EXCEPT !.idle = n] \in SessType
            /\ [s EXCEPT !.idle = n].idle = n /\ [s EXCEPT !.idle = n].left = s.left
            /\ [s EXCEPT !.idle = n].open = s.open /\ [s EXCEPT !.idle = n].live = s.live
            /\ [s EXCEPT !.idle = n].current = s.current
        BY <3>1, <3>2, WithIdle
      <3>4. /\ authorize(s, b) \in SessType
            /\ authorize(s, b).idle = n /\ authorize(s, b).left = s.left
            /\ authorize(s, b).open = s.open /\ authorize(s, b).live = s.live
            /\ authorize(s, b).current = s.current
        BY <3>3, Zenon
      <3>5. authorize(s, b).idle = 0 /\ authorize(s, b).idle <= s.idle
        BY <2>1, <3>2, <3>4
      <3> QED BY <1>1, <2>1, <2>2, <3>4, <3>5, Zenon
    <2>3. CASE ~b
      <3>1. authorize(s, b) = [s EXCEPT !.idle = s.idle]
        BY <1>1, <2>3 DEF authorize, Touch
      <3> QED BY <1>1, <2>1, <2>3, <3>1, WithIdle
    <2> QED BY <2>2, <2>3
  <1>2. CASE ~ValidAt(s)
    <2>1. authorize(s, b) = Issue
      BY <1>2 DEF authorize
    <2> QED BY <1>2, <2>1, IssueShape
  <1> QED BY <1>1, <1>2

-------------------------------------------------------------------------------
(* The steps.                                                              *)

\* A behaviour starts locked.
LEMMA InitIInv == Init => IInv
  <1> SUFFICES ASSUME Init PROVE IInv
    OBVIOUS
  <1>1. sess = [c \in Conns |-> NoSession]
    BY DEF Init
  <1>2. sess \in [Conns -> SessType] /\ \A c \in Conns : ~sess[c].live
    BY <1>1, NoSessionShape
  <1>3. Shapes
    <2>1. /\ unlocked = FALSE /\ locking = FALSE /\ orphans = {} /\ untilCheck = Interval
          /\ sinceUse = 0 /\ sinceIssue = 0 /\ usedLeft = Expired
      BY DEF Init
    <2>2. /\ untilCheck \in 0..Interval /\ sinceUse \in 0..MaxAge /\ sinceIssue \in 0..MaxAge
          /\ usedLeft \in Expired..TTL
      BY <2>1
    <2> QED BY <1>2, <2>1, <2>2 DEF Shapes
  <1> QED BY <1>3 DEF Init, IInv, Tracked, InTime, LastUseKept

\* What the invariant says of the sessions, without the Boolean fields.
LEMMA Typed ==
    ASSUME IInv
    PROVE  /\ \A c \in Conns : /\ sess[c] \in SessType
                               /\ sess[c].live => sess[c].open
                               /\ sess[c].idle \in 0..Window /\ sess[c].left \in Expired..TTL
           /\ \A s \in orphans : s.idle \in 0..Window /\ s.left \in Expired..TTL
  BY DEF IInv, Shapes, SessType, EntryType

\* A request that leaves its connection c with the session s.
LEMMA OneSession ==
    ASSUME IInv, NEW c \in Conns, NEW s \in SessType, s.live => s.open,
           sess' = [sess EXCEPT ![c] = s],
           UNCHANGED <<unlocked, orphans, untilCheck, locking>>,
           sinceUse' = sinceUse \/ sinceUse' = 0,
           sinceIssue' = sinceIssue \/ sinceIssue' = 0,
           usedLeft' \in Expired..TTL,
           unlocked /\ s.live => Tracks(s, sinceUse', sinceIssue'),
           unlocked =>
              \/ s.live /\ s.current /\ s.idle = 0 /\ s.left = usedLeft'
              \/ /\ sinceUse' = sinceUse /\ usedLeft' = usedLeft
                 /\ ValidAt(sess[c]) =>
                       s.live /\ s.current /\ s.left = sess[c].left /\ s.idle <= sess[c].idle
    PROVE  IInv'
  <1>1. /\ sess' \in [Conns -> SessType] /\ sess'[c] = s
        /\ \A d \in Conns \ {c} : sess'[d] = sess[d]
    BY DEF IInv, Shapes
  <1>2. /\ sinceUse \in 0..MaxAge /\ sinceIssue \in 0..MaxAge
        /\ sinceUse' \in 0..MaxAge /\ sinceIssue' \in 0..MaxAge
    BY DEF IInv, Shapes
  <1>3. Shapes'
    BY <1>1, <1>2 DEF IInv, Shapes
  <1>4. ASSUME NEW x, x.idle \in 0..Window, Tracks(x, sinceUse, sinceIssue)
        PROVE  Tracks(x, sinceUse', sinceIssue')
    BY <1>2, <1>4 DEF Tracks
  <1>5. Tracked'
    <2> SUFFICES ASSUME unlocked
                 PROVE  /\ \A d \in Conns :
                              sess'[d].live => Tracks(sess'[d], sinceUse', sinceIssue')
                        /\ \A x \in orphans : Tracks(x, sinceUse', sinceIssue')
      BY DEF Tracked
    <2>1. \A x \in orphans : Tracks(x, sinceUse', sinceIssue')
      BY <1>4, Typed DEF IInv, Tracked
    <2>2. ASSUME NEW d \in Conns, sess'[d].live, d # c
          PROVE  Tracks(sess'[d], sinceUse', sinceIssue')
      BY <1>1, <1>4, <2>2, Typed DEF IInv, Tracked
    <2>3. ASSUME sess'[c].live PROVE Tracks(sess'[c], sinceUse', sinceIssue')
      BY <1>1, <2>3
    <2> QED BY <2>1, <2>2, <2>3
  <1>6. InTime'
    BY <1>2 DEF IInv, Shapes, InTime
  <1>7. LastUseKept'
    <2> SUFFICES ASSUME unlocked, usedLeft' # Expired
                 PROVE  \/ \E d \in Conns : /\ sess'[d].live /\ sess'[d].current
                                            /\ Holds(sess'[d], sinceUse', usedLeft')
                        \/ \E x \in orphans : Holds(x, sinceUse', usedLeft')
      BY DEF LastUseKept
    <2>1. CASE s.live /\ s.current /\ s.idle = 0 /\ s.left = usedLeft'
      BY <1>1, <1>2, <2>1 DEF Holds
    <2>2. CASE /\ sinceUse' = sinceUse /\ usedLeft' = usedLeft
               /\ ValidAt(sess[c]) =>
                     s.live /\ s.current /\ s.left = sess[c].left /\ s.idle <= sess[c].idle
      <3>1. CASE \E x \in orphans : Holds(x, sinceUse, usedLeft)
        BY <2>2, <3>1
      <3>2. ASSUME NEW d \in Conns, sess[d].live, sess[d].current,
                   Holds(sess[d], sinceUse, usedLeft)
            PROVE  /\ sess'[d].live /\ sess'[d].current
                   /\ Holds(sess'[d], sinceUse', usedLeft')
        <4>1. CASE d # c
          BY <1>1, <2>2, <3>2, <4>1
        <4>2. CASE d = c
          <5>1. ValidAt(sess[c])
            BY <2>2, <3>2, <4>2 DEF ValidAt, Holds
          <5>2. sess[c].idle \in 0..Window /\ s.idle \in 0..Window
            BY Typed DEF SessType
          <5> QED BY <1>1, <1>2, <2>2, <3>2, <4>2, <5>1, <5>2 DEF Holds
        <4> QED BY <4>1, <4>2
      <3> QED BY <2>2, <3>1, <3>2 DEF IInv, LastUseKept
    <2> QED BY <2>1, <2>2
  <1> QED BY <1>3, <1>5, <1>6, <1>7 DEF IInv

\* Connect, Poll and Use.
LEMMA RequestStep ==
    ASSUME IInv, NEW c \in Conns, Connect(c) \/ Poll(c) \/ Use(c)
    PROVE  IInv'
  <1>0. /\ sess[c] \in SessType
        /\ sess[c].live => sess[c].open
        /\ sess[c].idle \in 0..Window /\ sess[c].left \in Expired..TTL
        /\ usedLeft \in Expired..TTL
    BY Typed DEF IInv, Shapes
  <1>1. CASE Connect(c)
    <2>1. ~ValidAt(sess[c])
      BY <1>0, <1>1 DEF Connect, ValidAt
    <2>2. Tracks(Issue, sinceUse', sinceIssue')
      BY <1>1, IssueShape DEF Connect, Tracks
    <2> QED BY <1>0, <1>1, <2>1, <2>2, IssueShape, OneSession DEF Connect
  <1>2. CASE Poll(c)
    <2> DEFINE s == authorize(sess[c], FALSE)
    <2>1. /\ s \in SessType /\ s.open /\ s.live /\ s.current
          /\ ValidAt(sess[c]) => s.left = sess[c].left /\ s.idle = sess[c].idle
          /\ ~ValidAt(sess[c]) => s.idle = 0
      BY <1>0, AuthorizeShape
    <2>2. /\ sess' = [sess EXCEPT ![c] = s]
          /\ UNCHANGED <<unlocked, orphans, untilCheck, locking, sinceUse, usedLeft>>
          /\ sinceIssue' = IF ValidAt(sess[c]) THEN sinceIssue ELSE 0
      BY <1>2 DEF Poll, Issued
    <2>3. unlocked => Tracks(s, sinceUse', sinceIssue')
      <3>1. CASE ValidAt(sess[c])
        BY <2>1, <2>2, <3>1 DEF ValidAt, IInv, Tracked, Tracks
      <3>2. CASE ~ValidAt(sess[c])
        <4>1. s.idle = 0 /\ sinceIssue' = 0
          BY <2>1, <2>2, <3>2
        <4> HIDE DEF s
        <4> QED BY <4>1 DEF Tracks
      <3> QED BY <3>1, <3>2
    <2> HIDE DEF s
    <2>4. /\ ValidAt(sess[c]) =>
                s.live /\ s.current /\ s.left = sess[c].left /\ s.idle <= sess[c].idle
          /\ sinceUse' = sinceUse /\ usedLeft' = usedLeft /\ usedLeft' \in Expired..TTL
          /\ sinceIssue' = sinceIssue \/ sinceIssue' = 0
      BY <1>0, <2>1, <2>2
    <2>5. UNCHANGED <<unlocked, orphans, untilCheck, locking>>
      BY <2>2
    <2> QED BY <2>1, <2>2, <2>3, <2>4, <2>5, OneSession
  <1>3. CASE Use(c)
    <2> DEFINE s == authorize(sess[c], TRUE)
    <2>1. /\ s \in SessType /\ s.open /\ s.live /\ s.current /\ s.idle = 0
          /\ s.left \in Expired..TTL
      BY <1>0, AuthorizeShape DEF SessType
    <2>2. UNCHANGED <<unlocked, orphans, untilCheck, locking>>
      BY <1>3 DEF Use
    <2>3. CASE unlocked
      <3>1. /\ sess' = [sess EXCEPT ![c] = s]
            /\ sinceIssue' = IF ValidAt(sess[c]) THEN sinceIssue ELSE 0
            /\ sinceUse' = 0 /\ usedLeft' = s.left
        BY <1>3, <2>3 DEF Use, Issued, Used
      <3> HIDE DEF s
      <3>2. Tracks(s, sinceUse', sinceIssue')
        BY <2>1, <3>1 DEF Tracks
      <3> QED BY <1>0, <2>1, <2>2, <2>3, <3>1, <3>2, OneSession
    <2>4. CASE ~unlocked /\ ValidAt(sess[c])
      <3>1. sess' = [sess EXCEPT ![c] = s] /\ UNCHANGED history
        BY <1>3, <2>4 DEF Use
      <3> HIDE DEF s
      <3> QED BY <1>0, <2>1, <2>2, <2>4, <3>1, OneSession DEF history
    <2>5. CASE ~unlocked /\ ~ValidAt(sess[c])
      <3> DEFINE t == [sess[c] EXCEPT !.live = FALSE]
      <3>1. sess' = [sess EXCEPT ![c] = t] /\ UNCHANGED history
        BY <1>3, <2>5 DEF Use
      <3>2. t \in SessType /\ ~t.live
        BY <1>0, Dropped
      <3> HIDE DEF t
      <3> QED BY <1>0, <2>2, <2>5, <3>1, <3>2, OneSession DEF history
    <2> QED BY <2>3, <2>4, <2>5
  <1> QED BY <1>1, <1>2, <1>3

\* The sessions of a closed connection, and of an earlier epoch, stay in the table.
LEMMA CloseStep ==
    ASSUME IInv, NEW c \in Conns, Close(c)
    PROVE  IInv'
  <1>0. /\ sess[c] \in SessType
        /\ Entry(sess[c]) \in EntryType
        /\ Entry(sess[c]).idle = sess[c].idle /\ Entry(sess[c]).left = sess[c].left
    BY Typed, EntryShape
  <1>1. /\ sess' = [sess EXCEPT ![c] = NoSession]
        /\ orphans' = orphans \cup IF sess[c].live THEN {Entry(sess[c])} ELSE {}
        /\ UNCHANGED <<unlocked, untilCheck, locking, sinceUse, sinceIssue, usedLeft>>
    BY DEF Close, Orphaned, history
  <1>2. /\ sess' \in [Conns -> SessType] /\ ~sess'[c].live
        /\ \A d \in Conns \ {c} : sess'[d] = sess[d]
    BY <1>1, NoSessionShape DEF IInv, Shapes
  <1>3. Shapes'
    BY <1>0, <1>1, <1>2 DEF IInv, Shapes
  <1>4. Tracked'
    <2> SUFFICES ASSUME unlocked
                 PROVE  /\ \A d \in Conns : sess'[d].live => Tracks(sess'[d], sinceUse, sinceIssue)
                        /\ \A x \in orphans' : Tracks(x, sinceUse, sinceIssue)
      BY <1>1 DEF Tracked
    <2>1. \A d \in Conns : sess'[d].live => Tracks(sess'[d], sinceUse, sinceIssue)
      BY <1>2 DEF IInv, Tracked
    <2>2. ASSUME NEW x \in orphans' PROVE Tracks(x, sinceUse, sinceIssue)
      <3>1. CASE x \in orphans
        BY <3>1 DEF IInv, Tracked
      <3>2. CASE sess[c].live /\ x = Entry(sess[c])
        BY <1>0, <3>2 DEF IInv, Tracked, Tracks
      <3> QED BY <1>1, <2>2, <3>1, <3>2
    <2> QED BY <2>1, <2>2
  <1>5. InTime'
    BY <1>1 DEF IInv, InTime
  <1>6. LastUseKept'
    <2> SUFFICES ASSUME unlocked, usedLeft # Expired
                 PROVE  \/ \E d \in Conns : /\ sess'[d].live /\ sess'[d].current
                                            /\ Holds(sess'[d], sinceUse, usedLeft)
                        \/ \E x \in orphans' : Holds(x, sinceUse, usedLeft)
      BY <1>1 DEF LastUseKept
    <2>1. CASE \E x \in orphans : Holds(x, sinceUse, usedLeft)
      BY <1>1, <2>1
    <2>2. ASSUME NEW d \in Conns, sess[d].live, sess[d].current,
                 Holds(sess[d], sinceUse, usedLeft), d # c
          PROVE  sess'[d].live /\ sess'[d].current /\ Holds(sess'[d], sinceUse, usedLeft)
      BY <1>2, <2>2
    <2>3. ASSUME sess[c].live, Holds(sess[c], sinceUse, usedLeft)
          PROVE  Entry(sess[c]) \in orphans' /\ Holds(Entry(sess[c]), sinceUse, usedLeft)
      BY <1>0, <1>1, <2>3 DEF Holds
    <2> QED BY <2>1, <2>2, <2>3 DEF IInv, LastUseKept
  <1> QED BY <1>3, <1>4, <1>5, <1>6 DEF IInv

\* The session an unlock issues is the youngest there is, and the last one used.
LEMMA UnlockStep ==
    ASSUME IInv, NEW c \in Conns, Unlock(c)
    PROVE  IInv'
  <1> DEFINE a == authorize(sess[c], TRUE)
  <1>0. a \in SessType /\ a.live /\ Entry(a) \in EntryType
    BY Typed, AuthorizeShape, EntryShape
  <1>1. /\ unlocked' = TRUE /\ orphans' = orphans \cup {Entry(a)}
        /\ sinceIssue' = 0 /\ sinceUse' = 0 /\ usedLeft' = TTL
        /\ UNCHANGED <<untilCheck, locking>>
    BY <1>0, IssueShape DEF Unlock, Orphaned, Used
  <1> HIDE DEF a
  <1>2. sess' = [d \in Conns |-> IF d = c THEN Issue ELSE [sess[d] EXCEPT !.current = FALSE]]
    BY DEF Unlock
  <1>3. ASSUME NEW d \in Conns
        PROVE  sess'[d] \in SessType /\ (sess'[d].live => sess'[d].open)
    <2>1. CASE d = c
      BY <1>2, <2>1, IssueShape
    <2>2. CASE d # c
      <3>1. PICK t : t = sess'[d]
        OBVIOUS
      <3>2. t = [sess[d] EXCEPT !.current = FALSE]
        BY <1>2, <2>2, <3>1
      <3>3. t \in SessType /\ (t.live => t.open)
        BY <3>2, Typed, Outdated
      <3> QED BY <3>1, <3>3
    <2> QED BY <2>1, <2>2
  <1>4. sess' \in [Conns -> SessType]
    <2>1. sess' = [d \in Conns |-> sess'[d]]
      BY <1>2
    <2> QED BY <1>3, <2>1
  <1>5. Shapes'
    BY <1>0, <1>1, <1>3, <1>4 DEF IInv, Shapes
  <1>6. Tracked'
    <2>1. ASSUME NEW d \in Conns PROVE Tracks(sess'[d], sinceUse', sinceIssue')
      BY <1>1, <1>3 DEF Tracks, SessType
    <2>2. ASSUME NEW x \in orphans' PROVE Tracks(x, sinceUse', sinceIssue')
      BY <1>1, <1>5 DEF Shapes, Tracks, EntryType
    <2> QED BY <2>1, <2>2 DEF Tracked
  <1>7. InTime'
    BY <1>1 DEF IInv, Shapes, InTime
  <1>8. LastUseKept'
    <2>1. sess'[c] = Issue
      BY <1>2
    <2>2. sess'[c].live /\ sess'[c].current /\ Holds(sess'[c], sinceUse', usedLeft')
      BY <1>1, <2>1, IssueShape DEF Holds
    <2> QED BY <2>2 DEF LastUseKept
  <1> QED BY <1>5, <1>6, <1>7, <1>8 DEF IInv

\* A lock, of a request or of the loop, empties the table.
LEMMA LockStep ==
    ASSUME IInv, IdleLock \/ \E c \in Conns : Lock(c)
    PROVE  IInv'
  <1>1. /\ unlocked' = FALSE /\ orphans' = {} /\ locking' \in BOOLEAN
        /\ sess' = [c \in Conns |-> [sess[c] EXCEPT !.live = FALSE]]
        /\ UNCHANGED <<untilCheck, sinceUse, sinceIssue, usedLeft>>
    BY DEF IInv, Shapes, Lock, IdleLock, InvalidateAll, history
  <1>2. ASSUME NEW d \in Conns PROVE sess'[d] \in SessType /\ ~sess'[d].live
    <2>1. PICK t : t = sess'[d]
      OBVIOUS
    <2>2. t = [sess[d] EXCEPT !.live = FALSE]
      BY <1>1, <2>1
    <2>3. t \in SessType /\ ~t.live
      BY <2>2, Typed, Dropped
    <2> QED BY <2>1, <2>3
  <1>3. sess' \in [Conns -> SessType]
    <2>1. sess' = [d \in Conns |-> sess'[d]]
      BY <1>1
    <2> QED BY <1>2, <2>1
  <1>4. Shapes'
    BY <1>1, <1>2, <1>3 DEF IInv, Shapes
  <1> QED BY <1>1, <1>4 DEF IInv, Tracked, InTime, LastUseKept

\* A check that spares the vault has seen a session younger than the window.
LEMMA IdleCheckStep ==
    ASSUME IInv, IdleCheck
    PROVE  IInv'
  <1>1. /\ untilCheck = 0 /\ locking = FALSE /\ untilCheck' = Interval
        /\ UNCHANGED <<unlocked, sess, orphans, sinceUse, sinceIssue, usedLeft>>
        /\ locking' = (unlocked /\ IsIdle)
    BY DEF IInv, Shapes, IdleCheck, history
  <1>2. Shapes'
    BY <1>1 DEF IInv, Shapes
  <1>3. Tracked' /\ LastUseKept'
    BY <1>1 DEF IInv, Tracked, LastUseKept
  <1>4. sinceUse \in 0..MaxAge /\ sinceIssue \in 0..MaxAge
    BY DEF IInv, Shapes
  <1>5. InTime'
    <2>1. CASE ~unlocked
      BY <1>1, <2>1 DEF InTime
    <2>2. CASE unlocked /\ IsIdle
      <3>1. sinceUse <= Window + Interval \/ sinceIssue <= Window + Interval
        BY <1>1, <2>2 DEF IInv, InTime
      <3>2. locking' = TRUE
        BY <1>1, <2>2
      <3> QED BY <1>1, <3>1, <3>2 DEF InTime
    <2>3. CASE unlocked /\ ~IsIdle
      <3>1. PICK x \in Table : ~(x.left # Expired => x.idle >= Window)
        BY <2>3 DEF IsIdle
      <3>2. x.idle \in 0..Window /\ Tracks(x, sinceUse, sinceIssue)
        <4>1. CASE x \in orphans
          BY <2>3, <4>1, Typed DEF IInv, Tracked
        <4>2. ASSUME NEW d \in Conns, sess[d].live, x = Entry(sess[d])
              PROVE  x.idle \in 0..Window /\ Tracks(x, sinceUse, sinceIssue)
          <5>1. x.idle = sess[d].idle /\ sess[d].idle \in 0..Window
            BY <4>2, Typed, EntryShape
          <5>2. Tracks(sess[d], sinceUse, sinceIssue)
            BY <2>3, <4>2 DEF IInv, Tracked
          <5> QED BY <5>1, <5>2 DEF Tracks
        <4> QED BY <3>1, <4>1, <4>2 DEF Table
      <3>3. sinceUse < Window \/ sinceIssue < Window
        BY <1>4, <3>1, <3>2 DEF Tracks
      <3>4. locking' = FALSE
        BY <1>1, <2>3
      <3> QED BY <1>1, <1>4, <3>3, <3>4 DEF InTime
    <2> QED BY <2>1, <2>2, <2>3
  <1> QED BY <1>2, <1>3, <1>5 DEF IInv

\* Time: ages keep their order, up to the caps.
LEMMA TickStep ==
    ASSUME IInv, Tick
    PROVE  IInv'
  <1>1. /\ untilCheck > 0 /\ locking = FALSE /\ locking' = FALSE
        /\ untilCheck' = untilCheck - 1 /\ unlocked' = unlocked
        /\ sess' = [c \in Conns |-> Aged(sess[c])] /\ orphans' = {Aged(s) : s \in orphans}
        /\ sinceUse' = Older(sinceUse, MaxAge) /\ sinceIssue' = Older(sinceIssue, MaxAge)
        /\ usedLeft' = Shorter(usedLeft)
    BY DEF IInv, Shapes, Tick
  <1>2. /\ sinceUse \in 0..MaxAge /\ sinceIssue \in 0..MaxAge /\ usedLeft \in Expired..TTL
        /\ untilCheck \in 0..Interval /\ unlocked \in BOOLEAN /\ orphans \subseteq EntryType
    BY DEF IInv, Shapes
  <1>3. ASSUME NEW d \in Conns
        PROVE  /\ sess'[d] \in SessType
               /\ sess'[d].open = sess[d].open /\ sess'[d].live = sess[d].live
               /\ sess'[d].current = sess[d].current
               /\ sess'[d].idle = Older(sess[d].idle, Window)
               /\ sess'[d].left = Shorter(sess[d].left)
    <2>1. sess'[d] = Aged(sess[d]) /\ sess[d] \in SessType
      BY <1>1, Typed
    <2> QED BY <2>1, AgedShape, Zenon
  <1>4. ASSUME NEW x \in orphans
        PROVE  /\ Aged(x) \in orphans' /\ Aged(x) \in EntryType
               /\ Aged(x).idle = Older(x.idle, Window) /\ Aged(x).left = Shorter(x.left)
    <2>1. x \in EntryType /\ Aged(x) \in orphans'
      BY <1>1, <1>2
    <2> QED BY <2>1, AgedShape, Zenon
  <1>5. Shapes'
    <2>1. sess' \in [Conns -> SessType]
      <3>1. sess' = [d \in Conns |-> sess'[d]]
        BY <1>1
      <3> QED BY <1>3, <3>1
    <2>2. \A d \in Conns : sess'[d].live => sess'[d].open
      BY <1>3, Typed
    <2>3. orphans' \subseteq EntryType
      BY <1>1, <1>4
    <2>4. /\ sinceUse' \in 0..MaxAge /\ sinceIssue' \in 0..MaxAge
          /\ usedLeft' \in Expired..TTL /\ untilCheck' \in 0..Interval
      BY <1>1, <1>2 DEF Older, Shorter
    <2> QED BY <1>1, <1>2, <2>1, <2>2, <2>3, <2>4 DEF Shapes
  <1>6. ASSUME NEW x, NEW y, x.idle \in 0..Window, y.idle = Older(x.idle, Window),
               Tracks(x, sinceUse, sinceIssue)
        PROVE  Tracks(y, sinceUse', sinceIssue')
    BY <1>1, <1>2, <1>6 DEF Tracks, Older
  <1>7. Tracked'
    <2> SUFFICES ASSUME unlocked
                 PROVE  /\ \A d \in Conns :
                              sess'[d].live => Tracks(sess'[d], sinceUse', sinceIssue')
                        /\ \A y \in orphans' : Tracks(y, sinceUse', sinceIssue')
      BY <1>1 DEF Tracked
    <2>1. ASSUME NEW d \in Conns, sess'[d].live
          PROVE  Tracks(sess'[d], sinceUse', sinceIssue')
      <3>1. sess[d].idle \in 0..Window /\ Tracks(sess[d], sinceUse, sinceIssue)
        BY <1>3, <2>1, Typed DEF IInv, Tracked
      <3> QED BY <1>3, <1>6, <3>1
    <2>2. ASSUME NEW y \in orphans' PROVE Tracks(y, sinceUse', sinceIssue')
      <3>1. PICK x \in orphans : y = Aged(x)
        BY <1>1, <2>2
      <3>2. x.idle \in 0..Window /\ Tracks(x, sinceUse, sinceIssue)
        BY Typed DEF IInv, Tracked
      <3> QED BY <1>4, <1>6, <3>1, <3>2
    <2> QED BY <2>1, <2>2
  <1>8. InTime'
    <2>1. CASE ~unlocked
      BY <1>1, <2>1 DEF InTime
    <2>2. CASE unlocked
      <3>1. sinceUse <= Window + Interval - untilCheck \/ sinceIssue <= Window + Interval - untilCheck
        BY <1>1, <2>2 DEF IInv, InTime
      <3>2. \/ sinceUse' <= Window + Interval - untilCheck'
            \/ sinceIssue' <= Window + Interval - untilCheck'
        BY <1>1, <1>2, <3>1 DEF Older
      <3> QED BY <1>1, <3>2 DEF InTime
    <2> QED BY <2>1, <2>2
  <1>9. ASSUME NEW x, NEW y, x.idle \in 0..Window, y.idle = Older(x.idle, Window),
               y.left = Shorter(x.left), Holds(x, sinceUse, usedLeft)
        PROVE  Holds(y, sinceUse', usedLeft')
    BY <1>1, <1>2, <1>9 DEF Holds, Older
  <1>10. LastUseKept'
    <2> SUFFICES ASSUME unlocked, usedLeft' # Expired
                 PROVE  \/ \E d \in Conns : /\ sess'[d].live /\ sess'[d].current
                                            /\ Holds(sess'[d], sinceUse', usedLeft')
                        \/ \E y \in orphans' : Holds(y, sinceUse', usedLeft')
      BY <1>1 DEF LastUseKept
    <2>1. usedLeft # Expired
      BY <1>1 DEF Shorter
    <2>2. ASSUME NEW x \in orphans, Holds(x, sinceUse, usedLeft)
          PROVE  Aged(x) \in orphans' /\ Holds(Aged(x), sinceUse', usedLeft')
      BY <1>4, <1>9, <2>2, Typed
    <2>3. ASSUME NEW d \in Conns, sess[d].live, sess[d].current,
                 Holds(sess[d], sinceUse, usedLeft)
          PROVE  /\ sess'[d].live /\ sess'[d].current
                 /\ Holds(sess'[d], sinceUse', usedLeft')
      BY <1>3, <1>9, <2>3, Typed
    <2> QED BY <2>1, <2>2, <2>3 DEF IInv, LastUseKept
  <1> QED BY <1>5, <1>7, <1>8, <1>10 DEF IInv

\* Every step preserves the invariant.
LEMMA NextIInv == IInv /\ [Next]_vars => IInv'
  <1> SUFFICES ASSUME IInv, [Next]_vars PROVE IInv'
    OBVIOUS
  <1>1. ASSUME NEW c \in Conns, Connect(c) \/ Close(c) \/ Poll(c) \/ Use(c) \/ Unlock(c) \/ Lock(c)
        PROVE  IInv'
    BY <1>1, RequestStep, CloseStep, UnlockStep, LockStep
  <1>2. CASE UNCHANGED vars
    BY <1>2 DEF vars, IInv, Shapes, Tracked, InTime, LastUseKept
  <1> QED BY <1>1, <1>2, LockStep, IdleCheckStep, TickStep DEF Next

\* The inductive invariant holds throughout.
LEMMA Invariance == Spec => []IInv
  BY InitIInv, NextIInv, PTL DEF Spec

-------------------------------------------------------------------------------
(* Theorems.                                                               *)

\* Type correctness; only open connections name a session of the table.
THEOREM IdleTypeCorrect == Spec => []TypeOK
  <1>1. IInv => TypeOK
    <2> SUFFICES ASSUME IInv PROVE TypeOK
      OBVIOUS
    <2>1. ASSUME NEW s \in Table PROVE s.idle \in 0..Window /\ s.left \in Expired..TTL
      <3>1. CASE s \in orphans
        BY <3>1, Typed
      <3>2. ASSUME NEW d \in Conns, s = Entry(sess[d])
            PROVE  s.idle \in 0..Window /\ s.left \in Expired..TTL
        BY <3>2, Typed, EntryShape
      <3> QED BY <2>1, <3>1, <3>2 DEF Table
    <2> QED BY <2>1 DEF IInv, Shapes, TypeOK
  <1> QED BY <1>1, Invariance, PTL

\* Whatever clients poll, open, close or abandon, the loop locks a vault that
\* nothing has used, and for which no session was issued, within the window and
\* one tick (enforceIdleLock, LastActivity, Validate).
THEOREM UnattendedVaultLocks == Spec => []UnattendedLocks
  <1>1. IInv => UnattendedLocks
    <2> SUFFICES ASSUME IInv, unlocked
                 PROVE  sinceUse <= Window + Interval \/ sinceIssue <= Window + Interval
      BY DEF UnattendedLocks
    <2>1. /\ sinceUse \in 0..MaxAge /\ sinceIssue \in 0..MaxAge /\ untilCheck \in 0..Interval
          /\ locking \in BOOLEAN
      BY DEF IInv, Shapes
    <2>2. CASE locking
      BY <2>2 DEF IInv, InTime
    <2>3. CASE ~locking
      <3>1. sinceUse <= Window + Interval - untilCheck \/ sinceIssue <= Window + Interval - untilCheck
        BY <2>3 DEF IInv, InTime
      <3> QED BY <2>1, <3>1
    <2> QED BY <2>2, <2>3
  <1> QED BY <1>1, Invariance, PTL

\* The loop condemns no vault that was used within the window, as long as the
\* session of that use has not expired (enforceIdleLock, LastActivity).
THEOREM ActiveVaultKept == Spec => NotLockedInUse
  <1>1. IInv /\ [Next]_vars => [locking' /\ ~locking => sinceUse >= Window \/ usedLeft = Expired]_vars
    <2> SUFFICES ASSUME IInv, Next, locking', ~locking, usedLeft # Expired
                 PROVE  sinceUse >= Window
      BY DEF vars
    <2>1. IdleCheck
      BY DEF Next, Connect, Close, Poll, Use, Unlock, Lock, IdleLock, Tick
    <2>2. unlocked /\ IsIdle
      BY <2>1 DEF IdleCheck
    <2>3. sinceUse \in 0..MaxAge
      BY DEF IInv, Shapes
    <2>4. ASSUME NEW x \in Table, x.idle \in 0..Window, Holds(x, sinceUse, usedLeft)
          PROVE  sinceUse >= Window
      BY <2>2, <2>3, <2>4 DEF IsIdle, Holds
    <2>5. ASSUME NEW d \in Conns, sess[d].live, Holds(sess[d], sinceUse, usedLeft)
          PROVE  sinceUse >= Window
      <3>1. Entry(sess[d]) \in Table
        BY <2>5 DEF Table
      <3>2. /\ Entry(sess[d]).idle = sess[d].idle /\ Entry(sess[d]).left = sess[d].left
            /\ sess[d].idle \in 0..Window
        BY Typed, EntryShape
      <3> QED BY <2>4, <2>5, <3>1, <3>2 DEF Holds
    <2>6. ASSUME NEW x \in orphans, Holds(x, sinceUse, usedLeft) PROVE sinceUse >= Window
      BY <2>4, <2>6, Typed DEF Table
    <2> QED BY <2>2, <2>5, <2>6 DEF IInv, LastUseKept
  <1> QED BY <1>1, Invariance, PTL DEF Spec, NotLockedInUse
===============================================================================
