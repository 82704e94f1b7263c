----------------------------- MODULE ChannelProofs -----------------------------
(***************************************************************************)
(* The proof that the two ends of a channel stay in step, for any number   *)
(* of requests, any rekey interval and any number of faults.               *)
(*                                                                         *)
(* A cipher's key follows from its counter (Regular), so that it is enough *)
(* to number the messages.  Seen from the daemon a connection is one       *)
(* stream, hello, message 1, message 3 and then requests: what is still to *)
(* come of it (Up) is the part that starts where the daemon is (Stage),    *)
(* whether or not its end was cut off with a client or a relay.            *)
(***************************************************************************)
EXTENDS Channel, TLAPS, SequenceTheorems

\* A cipher that was rekeyed after every RekeyInterval messages.
Regular(c) == c.k = c.n \div RekeyInterval
Ciphers == [n : Nat, k : Nat]

DataFrames == [msg : {"data"}, n : Nat, k : Nat, id : Requests, size : Sizes]
Handshakes == [msg : {"hello", "msg1", "msg2", "msg3", "error"}]
Frames == DataFrames \cup Handshakes

\* What the daemon may still read of the connection, and where it stands in it.
Up == IF Unbroken THEN sockUp \o portUp ELSE sockUp
Down == portDown \o sockDown
Stage ==
  IF daemon.at \in {"recv", "handle"} THEN 3
  ELSE IF daemon.at = "msg3" THEN 2
  ELSE IF daemon.at = "msg1" THEN 1
  ELSE 0
Expected(p) ==
  IF p = 1 THEN "hello" ELSE IF p = 2 THEN "msg1" ELSE IF p = 3 THEN "msg3" ELSE "data"

\* The daemon reads, or will once the relay has dialled.
Live == daemon.at # "closed" \/ relay.reader = "first"

\* The types of the variables.
Types ==
  /\ kind \in Kinds /\ pinned \in BOOLEAN /\ listening \in BOOLEAN /\ skipped \in BOOLEAN
  /\ call \in [Requests -> {"new", "queued", "sent", "answered", "failed"}]
  /\ client \in [at : {"off", "hello", "open"}, send : Ciphers, recv : Ciphers]
  /\ relay \in [reader : {"off", "first", "pump", "drain"}, writer : {"pump", "ended"}]
  /\ daemon \in [at : {"closed", "hello", "msg1", "msg3", "recv", "handle"},
                 send : Ciphers, recv : Ciphers, id : Requests \cup {0}]
  /\ portUp \in Seq(Frames) /\ sockUp \in Seq(Frames)
  /\ portDown \in Seq(Frames) /\ sockDown \in Seq(Frames)

\* Every key is the one its counter calls for.
Keyed ==
  /\ Regular(client.send) /\ Regular(client.recv)
  /\ Regular(daemon.send) /\ Regular(daemon.recv)
  /\ \A i \in 1..Len(sockUp) : sockUp[i].msg = "data" => Regular(sockUp[i])
  /\ \A i \in 1..Len(portUp) : portUp[i].msg = "data" => Regular(portUp[i])
  /\ \A i \in 1..Len(sockDown) : sockDown[i].msg = "data" => Regular(sockDown[i])
  /\ \A i \in 1..Len(portDown) : portDown[i].msg = "data" => Regular(portDown[i])

\* Who may be where: the phases of the client, the relay and the daemon.
Phases ==
  /\ client.at = "hello" => client.send = NewCipher /\ client.recv = NewCipher
  /\ daemon.at \notin {"recv", "handle"} => daemon.send = NewCipher /\ daemon.recv = NewCipher
  /\ daemon.at = "handle" => daemon.id \in Requests
  /\ ~listening => daemon.at = "closed"
  /\ ~relayed => relay = NoRelay /\ portUp = << >> /\ portDown = << >>
  /\ ~relayed => \A q, r \in In("sent") : q = r
  /\ relay.reader = "first" =>
       /\ client.at # "open" /\ daemon.at = "closed" /\ ~skipped
       /\ sockUp = << >> /\ portDown = << >> /\ sockDown = << >> /\ portUp # << >>

\* The stream to the daemon.
UpOK ==
  Live =>
    /\ \A i \in 1..Len(Up) :
         /\ Up[i].msg = Expected(Stage + i)
         /\ ~skipped /\ Up[i].msg = "data" => Up[i].n = daemon.recv.n + Stage + i - 4
    /\ Unbroken /\ client.at = "hello" => Stage + Len(Up) = 2 /\ ~skipped
    /\ Unbroken /\ client.at = "open" =>
         /\ Stage + Len(Up) >= 3
         /\ ~skipped => client.send.n = daemon.recv.n + Stage + Len(Up) - 3

\* The stream to the client.
DownOK ==
  /\ Unbroken /\ client.at = "hello" =>
       /\ daemon.at \in {"hello", "msg1"} => Down = << >>
       /\ daemon.at = "msg3" => Len(Down) = 1
       /\ Len(Down) <= 1
       /\ \A i \in 1..Len(Down) : Down[i].msg = "msg2"
  /\ Unbroken /\ client.at = "open" =>
       /\ daemon.at \notin {"hello", "msg1"}
       /\ \A i \in 1..Len(Down) : Down[i].msg = "data" /\ Down[i].n = client.recv.n + i - 1
       /\ daemon.at # "closed" => daemon.send.n = client.recv.n + Len(Down)

\* Every request under way, in the daemon's hands or answered was made once and its
\* caller still waits.
AwaitedOK ==
  Unbroken /\ client.at = "open" =>
    /\ \A i \in 1..Len(Down) : call[Down[i].id] = "sent"
    /\ \A i, j \in 1..Len(Down) : Down[i].id = Down[j].id => i = j
    /\ daemon.at # "closed" =>
         /\ \A i \in 1..Len(Up) : Up[i].msg = "data" =>
              /\ call[Up[i].id] = "sent"
              /\ \A j \in 1..Len(Up) : Up[j].msg = "data" /\ Up[i].id = Up[j].id => i = j
              /\ \A j \in 1..Len(Down) : Up[i].id # Down[j].id
              /\ daemon.at = "handle" => Up[i].id # daemon.id
         /\ daemon.at = "handle" =>
              /\ call[daemon.id] = "sent"
              /\ \A j \in 1..Len(Down) : daemon.id # Down[j].id

\* The inductive invariant.
IInv == Types /\ Keyed /\ Phases /\ UpOK /\ DownOK /\ AwaitedOK

-------------------------------------------------------------------------------
(* Counters and keys.                                                      *)

\* What quotient and remainder are.
LEMMA Divided ==
  ASSUME NEW n \in Nat, NEW d \in Nat, d # 0
  PROVE  /\ n \div d \in Nat /\ n % d \in Nat
         /\ n = (d * (n \div d)) + (n % d) /\ n % d < d
  OBVIOUS

\* The larger of two numbers has the larger quotient.
LEMMA QuotientsOrdered ==
  ASSUME NEW d \in Nat, NEW p \in Nat, NEW q \in Nat, NEW r \in Nat, NEW s \in Nat,
         r < d, s < d, d * p + r <= d * q + s
  PROVE  p <= q
<1> SUFFICES ASSUME q + 1 <= p PROVE FALSE
  OBVIOUS
<1>1. d * (q + 1) <= d * p /\ d * (q + 1) = d * q + d
  OBVIOUS
<1> QED
  BY <1>1

\* One more: the quotient grows when the remainder comes back to zero.
LEMMA DivStep ==
  ASSUME NEW n \in Nat, NEW d \in Nat, d # 0
  PROVE  (n + 1) \div d = IF (n + 1) % d = 0 THEN n \div d + 1 ELSE n \div d
  BY Divided

\* A cipher that is ahead has been rekeyed at least as often.
LEMMA DivMonotonic ==
  ASSUME NEW m \in Nat, NEW n \in Nat, NEW d \in Nat, d # 0, m <= n
  PROVE  m \div d <= n \div d
  BY Divided, QuotientsOrdered

\* EncryptWithAd and DecryptWithAd followed by the rekey keep a cipher regular.
LEMMA AdvanceRegular ==
  ASSUME NEW c \in Ciphers, Regular(c)
  PROVE  Advance(c) \in Ciphers /\ Regular(Advance(c)) /\ Advance(c).n = c.n + 1
<1> DEFINE m == c.n + 1
<1>1. /\ m \in Nat /\ c.n \in Nat /\ c.k \in Nat
      /\ RekeyInterval \in Nat /\ RekeyInterval # 0
  BY ChannelAssumption DEF Ciphers
<1>2. m \div RekeyInterval = IF m % RekeyInterval = 0 THEN c.k + 1 ELSE c.k
  BY <1>1, DivStep DEF Regular
<1>3. Advance(c) = [n |-> m, k |-> IF m % RekeyInterval = 0 THEN c.k + 1 ELSE c.k]
  BY DEF Advance
<1> HIDE DEF m
<1> QED
  BY <1>1, <1>2, <1>3 DEF Ciphers, Regular, m

\* A new cipher is regular.
LEMMA NewRegular ==
  NewCipher \in Ciphers /\ NewCipher.n = 0 /\ Regular(NewCipher)
<1>1. 0 \div RekeyInterval = 0
  BY ChannelAssumption
<1> QED
  BY <1>1 DEF NewCipher, Ciphers, Regular

-------------------------------------------------------------------------------
(* Queues.                                                                 *)

\* A queue loses its head.
LEMMA TookHead ==
  ASSUME NEW S, NEW s \in Seq(S), NEW t \in Seq(S), s # << >>
  PROVE  /\ Head(s) = (s \o t)[1] /\ Head(s) = s[1] /\ Head(s) \in S
         /\ Tail(s) \in Seq(S) /\ Len(Tail(s)) = Len(s) - 1 /\ Len(s) >= 1
         /\ Len(Tail(s) \o t) = Len(s \o t) - 1
         /\ \A i \in 1..Len(Tail(s) \o t) : (Tail(s) \o t)[i] = (s \o t)[i + 1]
         /\ \A i \in 1..Len(Tail(s)) : Tail(s)[i] = s[i + 1]
<1>1. /\ Tail(s) \in Seq(S) /\ Len(Tail(s)) = Len(s) - 1 /\ Len(s) \in Nat /\ Len(s) # 0
      /\ \A i \in 1..Len(Tail(s)) : Tail(s)[i] = s[i + 1]
  OBVIOUS
<1>2. ASSUME NEW i \in 1..Len(Tail(s) \o t)
      PROVE  (Tail(s) \o t)[i] = (s \o t)[i + 1]
  <2>1. CASE i <= Len(Tail(s))
    BY <1>1, <2>1
  <2>2. CASE ~(i <= Len(Tail(s)))
    BY <1>1, <2>2
  <2> QED
    BY <2>1, <2>2
<1> QED
  BY <1>1, <1>2

\* A frame is put at the end.
LEMMA PutLast ==
  ASSUME NEW S, NEW s \in Seq(S), NEW t \in Seq(S), NEW e \in S
  PROVE  /\ Append(t, e) \in Seq(S) /\ Len(Append(t, e)) = Len(t) + 1
         /\ \A i \in 1..Len(t) : Append(t, e)[i] = t[i]
         /\ Append(t, e)[Len(t) + 1] = e
         /\ s \o Append(t, e) \in Seq(S) /\ Len(s \o Append(t, e)) = Len(s \o t) + 1
         /\ \A i \in 1..Len(s \o t) : (s \o Append(t, e))[i] = (s \o t)[i]
         /\ (s \o Append(t, e))[Len(s \o t) + 1] = e
  OBVIOUS

\* The relay takes a frame from one queue and puts it into the next: the frames
\* under way are the same.
LEMMA Moved ==
  ASSUME NEW S, NEW s \in Seq(S), NEW t \in Seq(S), t # << >>
  PROVE  Append(s, Head(t)) \o Tail(t) = s \o t
<1>1. t = <<Head(t)>> \o Tail(t) /\ Head(t) \in S /\ Tail(t) \in Seq(S)
  OBVIOUS
<1>2. Append(s, Head(t)) = s \o <<Head(t)>>
  BY <1>1
<1>3. (s \o <<Head(t)>>) \o Tail(t) = s \o (<<Head(t)>> \o Tail(t))
  BY <1>1, ConcatAssociative
<1> QED
  BY <1>1, <1>2, <1>3

-------------------------------------------------------------------------------
(* What several actions share.                                             *)

\* A queue of frames whose keys are right.
GoodQueue(q) ==
  q \in Seq(Frames) /\ \A i \in 1..Len(q) : q[i].msg = "data" => Regular(q[i])

\* The four queues are good.
LEMMA Queues ==
  ASSUME IInv
  PROVE  GoodQueue(portUp) /\ GoodQueue(portDown) /\ GoodQueue(sockUp) /\ GoodQueue(sockDown)
BY DEF IInv, Types, Keyed, GoodQueue

\* A queue stays good when a frame is taken from it.
LEMMA GoodTail ==
  ASSUME NEW q, GoodQueue(q), q # << >>
  PROVE  GoodQueue(Tail(q)) /\ Head(q) \in Frames /\ (Head(q).msg = "data" => Regular(Head(q)))
<1>1. q \in Seq(Frames)
  BY DEF GoodQueue
<1>2. /\ Tail(q) \in Seq(Frames) /\ Head(q) = q[1] /\ Head(q) \in Frames /\ Len(q) >= 1
      /\ Len(Tail(q)) = Len(q) - 1 /\ Len(q) \in Nat
      /\ \A i \in 1..Len(Tail(q)) : Tail(q)[i] = q[i + 1]
  BY <1>1, TookHead
<1> QED
  BY <1>2 DEF GoodQueue

\* A queue stays good when a good frame is put into it.
LEMMA GoodAppend ==
  ASSUME NEW q, GoodQueue(q), NEW f \in Frames, f.msg = "data" => Regular(f)
  PROVE  GoodQueue(Append(q, f))
<1>1. q \in Seq(Frames)
  BY DEF GoodQueue
<1>2. /\ Append(q, f) \in Seq(Frames) /\ Len(Append(q, f)) = Len(q) + 1 /\ Len(q) \in Nat
      /\ \A i \in 1..Len(q) : Append(q, f)[i] = q[i]
      /\ Append(q, f)[Len(q) + 1] = f
  BY <1>1
<1> QED
  BY <1>2 DEF GoodQueue

\* The streams are queues too.
LEMMA Streams ==
  ASSUME IInv
  PROVE  /\ Up \in Seq(Frames) /\ Len(Up) \in Nat /\ \A i \in 1..Len(Up) : Up[i] \in Frames
         /\ Down \in Seq(Frames) /\ Len(Down) \in Nat
         /\ \A i \in 1..Len(Down) : Down[i] \in Frames
         /\ Stage \in 0..3
BY DEF IInv, Types, Up, Down, Stage

\* The fields of a request or an answer.
LEMMA DataFields ==
  ASSUME NEW f \in Frames, f.msg = "data"
  PROVE  f.n \in Nat /\ f.k \in Nat /\ f.id \in Requests /\ f.size \in Sizes
<1>1. f \in DataFrames
  BY DEF Frames, Handshakes
<1> QED
  BY <1>1 DEF DataFrames

\* A handshake message is a frame.
LEMMA HandshakeFrame ==
  ASSUME NEW m \in {"hello", "msg1", "msg2", "msg3", "error"}
  PROVE  /\ Handshake(m) \in Frames /\ Handshake(m).msg = m
         /\ Handshake(m).msg # "data"
BY DEF Handshake, Frames, Handshakes

\* What a regular cipher seals is a frame with its number and its key.
LEMMA SealedFrame ==
  ASSUME NEW c \in Ciphers, Regular(c), NEW r \in Requests, NEW size \in Sizes
  PROVE  /\ Sealed(c, r, size) \in Frames /\ Sealed(c, r, size).msg = "data"
         /\ Sealed(c, r, size).n = c.n /\ Sealed(c, r, size).id = r
         /\ Regular(Sealed(c, r, size))
BY DEF Sealed, Frames, DataFrames, Ciphers, Regular

\* A regular frame opens under a regular cipher when its number is next.
LEMMA NumberOpens ==
  ASSUME NEW c \in Ciphers, Regular(c), NEW f \in Frames, f.msg = "data", Regular(f), f.n = c.n
  PROVE  Opens(c, f)
BY DEF Opens, Regular

\* Nobody who was not waiting waits after a failure.
LEMMA Failed ==
  ASSUME Types, NEW S
  PROVE  /\ Fail(S) \in [Requests -> {"new", "queued", "sent", "answered", "failed"}]
         /\ \A r \in Requests : Fail(S)[r] = "sent" => call[r] = "sent"
         /\ \A r \in Requests : r \notin S => Fail(S)[r] = call[r]
BY DEF Types, Fail

\* The client takes the frame that is next.
LEMMA DownTook ==
  ASSUME IInv, Inbound # << >>, Took
  PROVE  /\ GoodQueue(portDown') /\ GoodQueue(sockDown')
         /\ Head(Inbound) = Down[1] /\ Down # << >> /\ Len(Down) >= 1
         /\ Len(Down') = Len(Down) - 1
         /\ \A i \in 1..Len(Down') : Down'[i] = Down[i + 1]
         /\ relay.reader # "first" /\ (~relayed => portDown' = << >>)
         /\ Head(Inbound) \in Frames /\ (Head(Inbound).msg = "data" => Regular(Head(Inbound)))
<1>1. GoodQueue(portDown) /\ GoodQueue(sockDown)
  BY Queues
<1>2. portDown \in Seq(Frames) /\ sockDown \in Seq(Frames)
  BY <1>1 DEF GoodQueue
<1>3. relay.reader # "first"
  BY DEF Inbound, IInv, Phases
<1>4. CASE relayed
  <2>1. portDown # << >> /\ portDown' = Tail(portDown) /\ sockDown' = sockDown
    BY <1>4 DEF Inbound, Took
  <2>2. Len(Down) \in Nat /\ Len(Down) = Len(portDown) + Len(sockDown)
    BY <1>2 DEF Down
  <2> QED
    BY <1>1, <1>2, <1>3, <1>4, <2>1, <2>2, GoodTail, TookHead DEF Down, Inbound
<1>5. CASE ~relayed
  <2>1. sockDown # << >> /\ sockDown' = Tail(sockDown) /\ portDown' = portDown
    BY <1>5 DEF Inbound, Took
  <2>2. portDown = << >> /\ Down = sockDown /\ Down' = sockDown'
    <3>1. portDown = << >>
      BY <1>5 DEF IInv, Phases
    <3>2. sockDown' \in Seq(Frames)
      BY <1>2, <2>1
    <3> QED
      BY <1>2, <2>1, <3>1, <3>2 DEF Down
  <2> QED
    BY <1>1, <1>2, <1>3, <1>5, <2>1, <2>2, GoodTail, TookHead DEF Inbound
<1> QED
  BY <1>4, <1>5

\* The client writes a frame.  If the link is cut it will not get to the daemon.
LEMMA Posted ==
  ASSUME IInv, NEW f \in Frames, f.msg = "data" => Regular(f), Post(f), UNCHANGED <<kind, relay>>
  PROVE  /\ GoodQueue(portUp') /\ GoodQueue(sockUp')
         /\ ~relayed => portUp' = << >>
         /\ Unbroken' = Unbroken
         /\ ~Unbroken => Up' = Up
         /\ Unbroken =>
              /\ Len(Up') = Len(Up) + 1 /\ Up'[Len(Up) + 1] = f
              /\ \A i \in 1..Len(Up) : Up'[i] = Up[i]
<1>1. GoodQueue(portUp) /\ GoodQueue(sockUp)
  BY Queues
<1>2. portUp \in Seq(Frames) /\ sockUp \in Seq(Frames)
  BY <1>1 DEF GoodQueue
<1>3. Unbroken' = Unbroken
  BY DEF Unbroken, relayed
<1>4. CASE relayed
  <2>1. portUp' = Append(portUp, f) /\ sockUp' = sockUp
    BY <1>4 DEF Post
  <2> QED
    BY <1>1, <1>2, <1>3, <1>4, <2>1, GoodAppend, PutLast DEF Up
<1>5. CASE ~relayed
  <2>1. sockUp' = Append(sockUp, f) /\ portUp' = portUp /\ portUp = << >> /\ Unbroken
    BY <1>5 DEF Post, IInv, Phases, Unbroken
  <2>2. Up = sockUp /\ Up' = sockUp'
    BY <1>2, <1>3, <2>1 DEF Up
  <2> QED
    BY <1>1, <1>2, <1>3, <1>5, <2>1, <2>2, GoodAppend, PutLast
<1> QED
  BY <1>4, <1>5

\* The daemon takes the frame that is next.
LEMMA UpTook ==
  ASSUME IInv, sockUp # << >>, sockUp' = Tail(sockUp), UNCHANGED <<kind, relay, portUp>>
  PROVE  /\ GoodQueue(sockUp') /\ relay.reader # "first"
         /\ Head(sockUp) \in Frames /\ (Head(sockUp).msg = "data" => Regular(Head(sockUp)))
         /\ Unbroken' = Unbroken
         /\ Up[1] = Head(sockUp) /\ Len(Up) >= 1
         /\ Len(Up') = Len(Up) - 1
         /\ \A i \in 1..Len(Up') : Up'[i] = Up[i + 1]
<1>1. GoodQueue(portUp) /\ GoodQueue(sockUp)
  BY Queues
<1>2. portUp \in Seq(Frames) /\ sockUp \in Seq(Frames)
  BY <1>1 DEF GoodQueue
<1>3. Unbroken' = Unbroken /\ relay.reader # "first"
  BY DEF Unbroken, relayed, IInv, Phases
<1>4. Len(sockUp \o portUp) = Len(sockUp) + Len(portUp)
  BY <1>2
<1> QED
  BY <1>1, <1>2, <1>3, <1>4, GoodTail, TookHead DEF Up

-------------------------------------------------------------------------------
(* The actions.                                                            *)

\* Nothing moves on the connection.
LEMMA QuietStep ==
    ASSUME IInv,
           UNCHANGED <<kind, pinned, client, relay, daemon, portUp, portDown, sockUp, sockDown,
                       skipped>>,
           listening' \in BOOLEAN, ~listening' => daemon.at = "closed",
           call' \in [Requests -> {"new", "queued", "sent", "answered", "failed"}],
           \A r \in Requests : call'[r] = "sent" <=> call[r] = "sent"
    PROVE  IInv'
<1>1. /\ Up' = Up /\ Down' = Down /\ Stage' = Stage /\ Live' = Live /\ Unbroken' = Unbroken
  BY DEF Up, Down, Stage, Live, Unbroken, relayed
<1>2. /\ \A i \in 1..Len(Down) : Down[i].msg = "data" => Down[i].id \in Requests
      /\ \A i \in 1..Len(Up) : Up[i].msg = "data" => Up[i].id \in Requests
  BY Streams, DataFields
<1>3. Types'
  BY <1>1 DEF Types, IInv
<1>4. Keyed'
  BY <1>1 DEF Keyed, IInv
<1>5. Phases'
  BY <1>1 DEF Phases, relayed, In, IInv
<1>6. UpOK'
  BY <1>1 DEF UpOK, IInv
<1>7. DownOK'
  BY <1>1 DEF DownOK, IInv
<1>8. AwaitedOK'
  BY <1>1, <1>2 DEF AwaitedOK, IInv, DownOK, Phases
<1> QED
  BY <1>3, <1>4, <1>5, <1>6, <1>7, <1>8 DEF IInv

\* The client leaves: what it has written may still be read.
LEMMA ClientOffStep ==
    ASSUME IInv,
           client.at # "off", client' = NoConn,
           UNCHANGED <<kind, pinned, listening, relay, daemon, portUp, sockUp>>,
           call' \in [Requests -> {"new", "queued", "sent", "answered", "failed"}],
           \A r \in Requests : call'[r] = "sent" => call[r] = "sent",
           skipped' \in BOOLEAN, skipped => skipped', skipped' => skipped \/ client.at = "open",
           \/ UNCHANGED <<portDown, sockDown>>
           \/ Inbound # << >> /\ Took
    PROVE  IInv'
<1>1. /\ Up' = Up /\ Stage' = Stage /\ Live' = Live /\ Unbroken' = Unbroken
  BY DEF Up, Stage, Live, Unbroken, relayed
<1>2. /\ client' \in [at : {"off", "hello", "open"}, send : Ciphers, recv : Ciphers]
      /\ client'.at = "off" /\ Regular(client'.send) /\ Regular(client'.recv)
  BY NewRegular DEF NoConn
<1>3. /\ GoodQueue(portDown') /\ GoodQueue(sockDown') /\ (~relayed => portDown' = << >>)
      /\ relay.reader = "first" => portDown' = << >> /\ sockDown' = << >>
  BY Queues, DownTook DEF IInv, Phases
<1>4. (~skipped' => ~skipped) /\ (relay.reader = "first" => ~skipped')
  BY DEF IInv, Phases
<1>5. Types'
  BY <1>2, <1>3, <1>4 DEF Types, IInv, GoodQueue
<1>6. Keyed'
  BY <1>2, <1>3 DEF Keyed, IInv, GoodQueue
<1>7. Phases'
  BY <1>1, <1>2, <1>3, <1>4 DEF Phases, relayed, In, IInv
<1>8. UpOK'
  BY <1>1, <1>2, <1>3, <1>4 DEF UpOK, IInv
<1>9. DownOK'
  BY <1>2 DEF DownOK
<1>10. AwaitedOK'
  BY <1>2 DEF AwaitedOK
<1> QED
  BY <1>5, <1>6, <1>7, <1>8, <1>9, <1>10 DEF IInv

\* The daemon leaves: what it has sent may still be read.
LEMMA ShutStep ==
    ASSUME IInv,
           daemon' = NoDaemon,
           UNCHANGED <<kind, pinned, call, client, relay, portUp, portDown, sockDown, skipped>>,
           listening' \in BOOLEAN, GoodQueue(sockUp'), relay.reader = "first" => sockUp' = sockUp
    PROVE  IInv'
<1>1. /\ Down' = Down /\ Unbroken' = Unbroken
      /\ Stage' = 0 /\ (Live' => relay.reader = "first" /\ Live /\ Up' = Up /\ Stage = 0)
  BY DEF Up, Down, Stage, Live, Unbroken, relayed, NoDaemon, IInv, Phases
<1>2. /\ daemon' \in [at : {"closed", "hello", "msg1", "msg3", "recv", "handle"},
                      send : Ciphers, recv : Ciphers, id : Requests \cup {0}]
      /\ daemon'.at = "closed" /\ daemon'.send = NewCipher /\ daemon'.recv = NewCipher
      /\ Regular(daemon'.send) /\ Regular(daemon'.recv)
  BY NewRegular DEF NoDaemon
<1>3. Live' => daemon.recv = NewCipher
  BY <1>1 DEF IInv, Phases
<1>4. Types'
  BY <1>2 DEF Types, IInv, GoodQueue
<1>5. Keyed'
  BY <1>2 DEF Keyed, IInv, GoodQueue
<1>6. Phases'
  BY <1>1, <1>2 DEF Phases, relayed, In, IInv
<1>7. UpOK'
  BY <1>1, <1>2, <1>3 DEF UpOK, IInv
<1>8. DownOK'
  BY <1>1, <1>2 DEF DownOK, IInv
<1>9. AwaitedOK'
  BY <1>1, <1>2 DEF AwaitedOK, IInv
<1> QED
  BY <1>4, <1>5, <1>6, <1>7, <1>8, <1>9 DEF IInv

\* The relay reads no more: the daemon still gets what is on the socket.
LEMMA CutStep ==
    ASSUME IInv,
           relayed, relay' \in [reader : {"off", "drain"}, writer : {"pump", "ended"}],
           UNCHANGED <<kind, pinned, listening, call, client, daemon, sockUp, sockDown, skipped>>,
           GoodQueue(portUp'), GoodQueue(portDown')
    PROVE  IInv'
<1>1. /\ Stage' = Stage /\ ~Unbroken' /\ (Live' => Live) /\ relay'.reader \notin {"first", "pump"}
  BY DEF Stage, Unbroken, relayed, Live
<1>2. /\ Up' = sockUp /\ Len(Up') <= Len(Up) /\ Len(Up') \in Nat
      /\ \A i \in 1..Len(Up') : i \in 1..Len(Up) /\ Up'[i] = Up[i]
  BY <1>1 DEF Up, IInv, Types
<1>3. Types'
  BY DEF Types, IInv, GoodQueue
<1>4. Keyed'
  BY DEF Keyed, IInv, GoodQueue
<1>5. Phases'
  BY <1>1, <1>2 DEF Phases, relayed, In, IInv
<1>6. UpOK'
  BY <1>1, <1>2 DEF UpOK, IInv
<1>7. DownOK'
  BY <1>1 DEF DownOK
<1>8. AwaitedOK'
  BY <1>1 DEF AwaitedOK
<1> QED
  BY <1>3, <1>4, <1>5, <1>6, <1>7, <1>8 DEF IInv

\* A request is made.
LEMMA AskStep == IInv /\ (\E r \in Requests : Ask(r)) => IInv'
<1> SUFFICES ASSUME IInv, (\E r \in Requests : Ask(r)) PROVE IInv'
  OBVIOUS
<1>1. /\ UNCHANGED <<kind, pinned, listening, client, relay, daemon, portUp, portDown, sockUp,
                     sockDown, skipped>>
      /\ call' \in [Requests -> {"new", "queued", "sent", "answered", "failed"}]
      /\ \A r \in Requests : call'[r] = "sent" <=> call[r] = "sent"
  BY DEF Ask, IInv, Types
<1>2. listening \in BOOLEAN /\ (~listening => daemon.at = "closed")
  BY DEF IInv, Types, Phases
<1> QED
  BY <1>1, <1>2, QuietStep

\* A connection begins.
LEMMA DialledStep ==
    ASSUME IInv,
           client.at = "off", client' = [NoConn EXCEPT !.at = "hello"],
           daemon' = NoDaemon \/ (daemon' = [NoDaemon EXCEPT !.at = "hello"] /\ listening),
           UNCHANGED <<kind, pinned, listening, call>>, ~skipped', skipped' \in BOOLEAN,
           portDown' = << >>, sockDown' = << >>,
           NEW opening, opening = <<Handshake("hello"), Handshake("msg1")>>,
           \/ /\ relayed /\ relay' = [reader |-> "first", writer |-> "ended"]
              /\ portUp' = opening /\ sockUp' = << >> /\ daemon' = NoDaemon
           \/ ~relayed /\ UNCHANGED <<relay, portUp>> /\ sockUp' = opening
    PROVE  IInv'
<1>1. /\ opening \in Seq(Frames) /\ Len(opening) = 2
      /\ opening[1].msg = "hello" /\ opening[2].msg = "msg1"
  <2>1. /\ Handshake("hello") \in Frames /\ Handshake("hello").msg = "hello"
        /\ Handshake("msg1") \in Frames /\ Handshake("msg1").msg = "msg1"
    BY HandshakeFrame
  <2> QED
    BY <2>1
<1>2. GoodQueue(opening) /\ GoodQueue(<< >>) /\ opening # << >>
  BY <1>1 DEF GoodQueue
<1>3. (~relayed => portUp = << >> /\ relay = NoRelay)
  BY DEF IInv, Phases
<1>4. /\ Up' = opening /\ Down' = << >> /\ Unbroken'
      /\ relay' \in [reader : {"off", "first", "pump", "drain"}, writer : {"pump", "ended"}]
  <2>1. CASE relayed
    <3>1. Unbroken' /\ << >> \o opening = opening /\ << >> \o << >> = << >>
      BY <1>1, <2>1 DEF Unbroken, relayed
    <3>2. portDown' = << >> /\ sockDown' = << >> /\ sockUp' = << >> /\ portUp' = opening
      BY <2>1
    <3>3. Up' = opening /\ Down' = << >>
      BY <3>1, <3>2 DEF Up, Down
    <3>4. relay' \in [reader : {"off", "first", "pump", "drain"}, writer : {"pump", "ended"}]
      BY <2>1
    <3> QED
      BY <3>1, <3>3, <3>4
  <2>2. CASE ~relayed
    <3>1. Unbroken' /\ opening \o << >> = opening /\ << >> \o << >> = << >>
      BY <1>1, <2>2 DEF Unbroken, relayed
    <3> QED
      BY <2>2, <3>1, <1>3 DEF Up, Down, IInv, Types
  <2> QED
    BY <2>1, <2>2
<1>5. /\ daemon' \in [at : {"closed", "hello", "msg1", "msg3", "recv", "handle"},
                      send : Ciphers, recv : Ciphers, id : Requests \cup {0}]
      /\ daemon'.at \in {"closed", "hello"}
      /\ daemon'.send = NewCipher /\ daemon'.recv = NewCipher
      /\ Regular(daemon'.send) /\ Regular(daemon'.recv)
      /\ daemon' = NoDaemon => daemon'.at = "closed"
      /\ Stage' = 0
  BY NewRegular DEF NoDaemon, Stage
<1>6. /\ client' \in [at : {"off", "hello", "open"}, send : Ciphers, recv : Ciphers]
      /\ client'.at = "hello" /\ client'.send = NewCipher /\ client'.recv = NewCipher
      /\ Regular(client'.send) /\ Regular(client'.recv)
  BY NewRegular DEF NoConn
<1>7. Types'
  BY <1>2, <1>4, <1>5, <1>6, Queues DEF Types, IInv, GoodQueue
<1>8. Keyed'
  BY <1>2, <1>5, <1>6, Queues DEF Keyed, IInv, GoodQueue
<1>9. Phases'
  <2>1. ~relayed => \A q, r \in In("sent") : q = r
    BY DEF IInv, Phases
  <2>2. /\ ~listening => daemon'.at = "closed"
        /\ ~relayed => relay' = NoRelay /\ portUp' = << >>
        /\ relay'.reader = "first" => relayed /\ portUp' # << >> /\ sockUp' = << >> /\ daemon'.at = "closed"
    BY <1>2, <1>3, <1>5 DEF NoRelay, IInv, Phases
  <2> QED
    BY <2>1, <2>2, <1>5, <1>6 DEF Phases, relayed, In
<1>10. UpOK'
  BY <1>1, <1>4, <1>5, <1>6 DEF UpOK, Expected
<1>11. DownOK'
  BY <1>4, <1>5, <1>6 DEF DownOK
<1>12. AwaitedOK'
  BY <1>6 DEF AwaitedOK
<1> QED
  BY <1>7, <1>8, <1>9, <1>10, <1>11, <1>12 DEF IInv

\* A connection begins, or the daemon is not there.
LEMMA ConnectStep == IInv /\ Connect => IInv'
<1> SUFFICES ASSUME IInv, Connect PROVE IInv'
  OBVIOUS
<1> DEFINE opening == <<Handshake("hello"), Handshake("msg1")>>
<1>1. /\ client.at = "off" /\ portDown' = << >> /\ sockDown' = << >> /\ skipped' = FALSE
      /\ UNCHANGED <<kind, pinned, listening>>
  BY DEF Connect
<1>2. CASE relayed
  <2>1. /\ client' = [NoConn EXCEPT !.at = "hello"]
        /\ relay' = [reader |-> "first", writer |-> "ended"]
        /\ portUp' = opening /\ daemon' = NoDaemon /\ sockUp' = << >> /\ call' = call
    BY <1>2 DEF Connect
  <2>2. opening = <<Handshake("hello"), Handshake("msg1")>>
    OBVIOUS
  <2> HIDE DEF opening
  <2> QED
    BY <1>1, <1>2, <2>1, <2>2, DialledStep
<1>3. CASE ~relayed /\ listening
  <2>1. /\ client' = [NoConn EXCEPT !.at = "hello"]
        /\ daemon' = [NoDaemon EXCEPT !.at = "hello"]
        /\ sockUp' = opening /\ UNCHANGED <<call, relay, portUp>>
    BY <1>3 DEF Connect
  <2>2. opening = <<Handshake("hello"), Handshake("msg1")>>
    OBVIOUS
  <2> HIDE DEF opening
  <2> QED
    BY <1>1, <1>3, <2>1, <2>2, DialledStep
<1>4. CASE ~relayed /\ ~listening
  <2>1. call' = Fail(Connecting) /\ UNCHANGED <<client, daemon, relay, sockUp, portUp>>
    BY <1>4 DEF Connect
  <2>2. daemon.at = "closed" /\ relay.reader = "off"
    BY <1>4 DEF IInv, Phases, NoRelay
  <2>3. ~Live'
    BY <2>1, <2>2 DEF Live
  <2>4. /\ call' \in [Requests -> {"new", "queued", "sent", "answered", "failed"}]
        /\ \A r \in Requests : call'[r] = "sent" => call[r] = "sent"
    BY <2>1, Failed DEF IInv
  <2>5. << >> \in Seq(Frames)
    OBVIOUS
  <2>6. Types'
    BY <1>1, <2>1, <2>4, <2>5 DEF IInv, Types
  <2>7. Keyed'
    BY <1>1, <2>1 DEF IInv, Keyed
  <2>8. Phases'
    BY <1>1, <2>1, <2>2, <2>4 DEF IInv, Phases, relayed, In
  <2>9. UpOK' /\ DownOK' /\ AwaitedOK'
    BY <1>1, <2>1, <2>3 DEF UpOK, DownOK, AwaitedOK
  <2> QED
    BY <2>6, <2>7, <2>8, <2>9 DEF IInv
<1> QED
  BY <1>2, <1>3, <1>4

\* The client has read message 2 and writes message 3.
LEMMA ReadMsg2OpenStep ==
    ASSUME IInv,
           client.at = "hello", Inbound # << >>, Head(Inbound).msg = "msg2", Took,
           client' = [client EXCEPT !.at = "open"], Post(Handshake("msg3")),
           UNCHANGED <<kind, pinned, listening, call, relay, daemon, skipped>>
    PROVE  IInv'
<1> DEFINE f == Handshake("msg3")
<1>1. f \in Frames /\ f.msg = "msg3"
  BY HandshakeFrame
<1> HIDE DEF f
<1>2. /\ GoodQueue(portDown') /\ GoodQueue(sockDown') /\ Down # << >> /\ Len(Down) >= 1
      /\ Len(Down') = Len(Down) - 1
      /\ \A i \in 1..Len(Down') : Down'[i] = Down[i + 1]
      /\ relay.reader # "first" /\ (~relayed => portDown' = << >>)
  BY DownTook
<1>3. Post(f)
  BY DEF f
<1>4. /\ GoodQueue(portUp') /\ GoodQueue(sockUp')
      /\ ~relayed => portUp' = << >>
      /\ Unbroken' = Unbroken
      /\ ~Unbroken => Up' = Up
      /\ Unbroken =>
           /\ Len(Up') = Len(Up) + 1 /\ Up'[Len(Up) + 1] = f
           /\ \A i \in 1..Len(Up) : Up'[i] = Up[i]
  BY <1>1, <1>3, Posted
<1>5. /\ client' \in [at : {"off", "hello", "open"}, send : Ciphers, recv : Ciphers]
      /\ client'.at = "open" /\ client'.send = NewCipher /\ client'.recv = NewCipher
  BY DEF IInv, Types, Phases
<1>6. Stage' = Stage /\ Live' = Live
  BY DEF Stage, Live
<1>7. Unbroken /\ daemon.at # "closed" =>
        /\ daemon.at = "msg3" /\ Stage = 2 /\ Len(Up) = 0 /\ Len(Down) = 1
        /\ daemon.send = NewCipher /\ daemon.recv = NewCipher /\ ~skipped
  <2>1. SUFFICES ASSUME Unbroken, daemon.at # "closed"
                 PROVE  /\ daemon.at = "msg3" /\ Stage = 2 /\ Len(Up) = 0 /\ Len(Down) = 1
                        /\ daemon.send = NewCipher /\ daemon.recv = NewCipher /\ ~skipped
    OBVIOUS
  <2>2. Stage + Len(Up) = 2 /\ ~skipped
    BY <2>1 DEF IInv, UpOK, Live
  <2>3. daemon.at = "msg3" /\ Stage = 2
    BY <2>1, <2>2, <1>2, Streams DEF IInv, Types, DownOK, Stage
  <2> QED
    BY <2>1, <2>2, <2>3, Streams DEF IInv, DownOK, Phases
<1>8. Unbroken => Len(Down') = 0
  BY <1>2, Streams DEF IInv, DownOK
<1>9. Types'
  BY <1>2, <1>4, <1>5 DEF Types, IInv, GoodQueue
<1>10. Keyed'
  BY <1>2, <1>4, <1>5, NewRegular DEF Keyed, IInv, GoodQueue
<1>11. Phases'
  BY <1>1, <1>2, <1>4, <1>5, <1>6, <1>7, <1>8 DEF Phases, relayed, In, IInv
<1>12. UpOK'
  <2>1. CASE Unbroken /\ Live
    <3>1. daemon.at # "closed"
      BY <2>1, <1>2 DEF Live
    <3>2. /\ Stage' = 2 /\ Len(Up') = 1 /\ Up'[1] = f /\ client'.send.n = 0
          /\ daemon'.recv.n = 0 /\ ~skipped'
      BY <2>1, <3>1, <1>4, <1>5, <1>6, <1>7, NewRegular
    <3> QED
      BY <3>2, <1>1, <1>5 DEF UpOK, Expected
  <2>2. CASE ~Unbroken /\ Live
    BY <2>2, <1>4, <1>6 DEF IInv, UpOK
  <2> QED
    BY <2>1, <2>2, <1>6 DEF UpOK
<1>13. DownOK'
  <2>1. Unbroken => daemon.at \in {"closed", "msg3"}
    BY <1>7
  <2> QED
    BY <2>1, <1>4, <1>5, <1>7, <1>8, NewRegular DEF DownOK
<1>14. AwaitedOK'
  BY <1>1, <1>4, <1>5, <1>7, <1>8 DEF AwaitedOK
<1> QED
  BY <1>9, <1>10, <1>11, <1>12, <1>13, <1>14 DEF IInv

\* The client reads message 2 and goes on if the pin is the daemon's.
LEMMA ReadMsg2Step == IInv /\ ReadMsg2 => IInv'
<1> SUFFICES ASSUME IInv, ReadMsg2 PROVE IInv'
  OBVIOUS
<1>1. CASE pinned
  BY <1>1, ReadMsg2OpenStep DEF ReadMsg2
<1>2. CASE ~pinned
  <2>1. /\ client.at # "off" /\ client' = NoConn /\ call' = Fail(Awaiting)
        /\ UNCHANGED <<kind, pinned, listening, relay, daemon, portUp, sockUp, skipped>>
        /\ Inbound # << >> /\ Took
    BY <1>2 DEF ReadMsg2, Teardown
  <2>2. /\ call' \in [Requests -> {"new", "queued", "sent", "answered", "failed"}]
        /\ \A r \in Requests : call'[r] = "sent" => call[r] = "sent"
    BY <2>1, Failed DEF IInv
  <2>3. skipped' \in BOOLEAN
    BY <2>1 DEF IInv, Types
  <2> QED
    BY <2>1, <2>2, <2>3, ClientOffStep
<1> QED
  BY <1>1, <1>2

\* The relay could not dial.
LEMMA ReadErrorStep == IInv /\ ReadError => IInv'
<1> SUFFICES ASSUME IInv, ReadError PROVE IInv'
  OBVIOUS
<1>1. /\ client.at # "off" /\ client' = NoConn /\ call' = Fail(Awaiting)
      /\ UNCHANGED <<kind, pinned, listening, relay, daemon, portUp, sockUp, skipped>>
      /\ Inbound # << >> /\ Took
  BY DEF ReadError, Teardown
<1>2. /\ call' \in [Requests -> {"new", "queued", "sent", "answered", "failed"}]
      /\ \A r \in Requests : call'[r] = "sent" => call[r] = "sent"
  BY <1>1, Failed DEF IInv
<1>3. skipped' \in BOOLEAN
  BY <1>1 DEF IInv, Types
<1> QED
  BY <1>1, <1>2, <1>3, ClientOffStep

\* The connection is given up: its end, the desktop's timer, or the process ends.
LEMMA HangupTimeoutQuitStep == IInv /\ (Hangup \/ Timeout \/ Quit) => IInv'
<1> SUFFICES ASSUME IInv, (Hangup \/ Timeout \/ Quit) PROVE IInv'
  OBVIOUS
<1>1. /\ client.at # "off" /\ client' = NoConn
      /\ call' = Fail(Awaiting) \/ call' = Fail(In("queued") \cup In("sent"))
      /\ UNCHANGED <<kind, pinned, listening, relay, daemon, portUp, sockUp, portDown, sockDown,
                     skipped>>
  BY DEF Hangup, Timeout, Quit, Teardown
<1>2. /\ call' \in [Requests -> {"new", "queued", "sent", "answered", "failed"}]
      /\ \A r \in Requests : call'[r] = "sent" => call[r] = "sent"
  BY <1>1, Failed DEF IInv
<1>3. skipped' \in BOOLEAN
  BY <1>1 DEF IInv, Types
<1> QED
  BY <1>1, <1>2, <1>3, ClientOffStep

\* A request is written.
LEMMA Posted1Step ==
    ASSUME IInv,
           NEW r \in Requests, NEW size \in Sizes, client.at = "open", call[r] = "queued",
           ~relayed => In("sent") = {}, call' = [call EXCEPT ![r] = "sent"],
           client' = [client EXCEPT !.send = Advance(@)], Post(Sealed(client.send, r, size)),
           UNCHANGED <<kind, pinned, listening, relay, daemon, skipped, portDown, sockDown>>
    PROVE  IInv'
<1> DEFINE f == Sealed(client.send, r, size)
<1>1. client.send \in Ciphers /\ Regular(client.send) /\ client.send.n \in Nat
  BY DEF IInv, Types, Keyed, Ciphers
<1>2. f \in Frames /\ f.msg = "data" /\ f.n = client.send.n /\ f.id = r /\ Regular(f)
  BY <1>1, SealedFrame
<1>3. Post(f)
  OBVIOUS
<1> HIDE DEF f
<1>4. /\ GoodQueue(portUp') /\ GoodQueue(sockUp')
      /\ ~relayed => portUp' = << >>
      /\ Unbroken' = Unbroken
      /\ ~Unbroken => Up' = Up
      /\ Unbroken =>
           /\ Len(Up') = Len(Up) + 1 /\ Up'[Len(Up) + 1] = f
           /\ \A i \in 1..Len(Up) : Up'[i] = Up[i]
  BY <1>2, <1>3, Posted
<1>5. /\ client' \in [at : {"off", "hello", "open"}, send : Ciphers, recv : Ciphers]
      /\ client'.at = "open" /\ client'.recv = client.recv
      /\ client'.send.n = client.send.n + 1 /\ Regular(client'.send)
  BY <1>1, AdvanceRegular DEF IInv, Types
<1>6. Stage' = Stage /\ Live' = Live /\ Down' = Down /\ relay.reader # "first"
  BY DEF Stage, Live, Down, IInv, Phases
<1>7. /\ call' \in [Requests -> {"new", "queued", "sent", "answered", "failed"}]
      /\ call'[r] = "sent" /\ \A q \in Requests : q # r => call'[q] = call[q]
      /\ \A q \in Requests : call[q] = "sent" => q # r
  BY DEF IInv, Types
<1>8. Types'
  BY <1>4, <1>5, <1>7 DEF Types, IInv, GoodQueue
<1>9. Keyed'
  BY <1>4, <1>5 DEF Keyed, IInv, GoodQueue
<1>10. Phases'
  BY <1>4, <1>5, <1>6, <1>7 DEF Phases, relayed, In, IInv
<1>11. UpOK'
  <2>1. CASE Unbroken /\ Live
    <3>1. /\ Stage + Len(Up) >= 3 /\ Stage \in 0..3 /\ Len(Up) \in Nat
          /\ ~skipped => client.send.n = daemon.recv.n + Stage + Len(Up) - 3
          /\ daemon.recv.n \in Nat
      BY <2>1, Streams DEF IInv, UpOK, Types, Ciphers
    <3>2. Expected(Stage + (Len(Up) + 1)) = "data"
      BY <3>1 DEF Expected
    <3>3. ASSUME NEW i \in 1..Len(Up')
          PROVE  /\ Up'[i].msg = Expected(Stage + i)
                 /\ ~skipped /\ Up'[i].msg = "data" => Up'[i].n = daemon.recv.n + Stage + i - 4
      <4>1. CASE i = Len(Up) + 1
        BY <2>1, <3>1, <3>2, <4>1, <1>2, <1>4
      <4>2. CASE i # Len(Up) + 1
        <5>1. i \in 1..Len(Up) /\ Up'[i] = Up[i]
          BY <2>1, <3>1, <4>2, <1>4
        <5> QED
          BY <2>1, <5>1 DEF IInv, UpOK
      <4> QED
        BY <4>1, <4>2
    <3>4. /\ Stage + Len(Up') >= 3
          /\ ~skipped => client'.send.n = daemon.recv.n + Stage + Len(Up') - 3
      <4>1. Len(Up') = Len(Up) + 1 /\ client'.send.n = client.send.n + 1
        BY <2>1, <1>4, <1>5
      <4>2. Stage + Len(Up') >= 3
        BY <4>1, <3>1
      <4>3. ASSUME ~skipped
            PROVE  client'.send.n = daemon.recv.n + Stage + Len(Up') - 3
        <5>1. client.send.n = daemon.recv.n + Stage + Len(Up) - 3
          BY <4>3, <3>1
        <5> QED
          BY <4>1, <3>1, <5>1
      <4> QED
        BY <4>2, <4>3
    <3> QED
      BY <3>3, <3>4, <1>5, <1>6 DEF UpOK
  <2>2. CASE ~Unbroken /\ Live
    BY <2>2, <1>4, <1>6 DEF IInv, UpOK
  <2> QED
    BY <2>1, <2>2, <1>6 DEF UpOK
<1>12. DownOK'
  BY <1>4, <1>5, <1>6 DEF DownOK, IInv
<1>13. AwaitedOK'
  <2>1. SUFFICES ASSUME Unbroken PROVE AwaitedOK'
    BY <1>4 DEF AwaitedOK
  <2>2. /\ \A i \in 1..Len(Down) : Down[i].id \in Requests /\ Down[i].id # r
        /\ \A i \in 1..Len(Down) : call'[Down[i].id] = "sent"
    BY <2>1, <1>7, Streams, DataFields DEF IInv, DownOK, AwaitedOK
  <2>3. daemon.at # "closed" =>
          \A i \in 1..Len(Up) : Up[i].msg = "data" =>
             Up[i].id \in Requests /\ Up[i].id # r /\ call'[Up[i].id] = "sent"
    BY <2>1, <1>7, Streams, DataFields DEF IInv, AwaitedOK
  <2>4. daemon.at = "handle" => daemon.id \in Requests /\ daemon.id # r /\ call'[daemon.id] = "sent"
    BY <2>1, <1>7 DEF IInv, AwaitedOK, Phases
  <2>5. \A i \in 1..Len(Up') : (i \in 1..Len(Up) /\ Up'[i] = Up[i]) \/ (i = Len(Up) + 1 /\ Up'[i] = f)
    BY <2>1, <1>4, Streams
  <2> QED
    BY <2>1, <2>2, <2>3, <2>4, <2>5, <1>2, <1>6, <1>7 DEF IInv, AwaitedOK
<1> QED
  BY <1>8, <1>9, <1>10, <1>11, <1>12, <1>13 DEF IInv

\* A request that is too large has advanced the cipher.
LEMMA UnwrittenStep ==
    ASSUME IInv,
           NEW r \in Requests, client.at = "open", call[r] = "queued", ~relayed, call' = Fail({r}),
           client' = [client EXCEPT !.send = Advance(@)], skipped' \in BOOLEAN, skipped',
           UNCHANGED <<kind, pinned, listening, relay, daemon, portUp, sockUp, portDown, sockDown>>
    PROVE  IInv'
<1>1. /\ client' \in [at : {"off", "hello", "open"}, send : Ciphers, recv : Ciphers]
      /\ client'.at = "open" /\ client'.recv = client.recv /\ Regular(client'.send)
  BY AdvanceRegular DEF IInv, Types, Keyed
<1>2. /\ Up' = Up /\ Down' = Down /\ Stage' = Stage /\ Live' = Live /\ Unbroken' = Unbroken
      /\ relay.reader # "first"
  BY DEF Up, Down, Stage, Live, Unbroken, relayed, IInv, Phases
<1>3. /\ call' \in [Requests -> {"new", "queued", "sent", "answered", "failed"}]
      /\ \A q \in Requests : call'[q] = "sent" <=> call[q] = "sent"
  BY Failed DEF IInv
<1>4. /\ \A i \in 1..Len(Down) : Down[i].msg = "data" => Down[i].id \in Requests
      /\ \A i \in 1..Len(Up) : Up[i].msg = "data" => Up[i].id \in Requests
  BY Streams, DataFields
<1>5. Types'
  BY <1>1, <1>3 DEF Types, IInv
<1>6. Keyed'
  BY <1>1, <1>2, <1>3 DEF Keyed, IInv
<1>7. Phases'
  BY <1>1, <1>2, <1>3 DEF Phases, relayed, In, IInv
<1>8. UpOK'
  BY <1>1, <1>2, <1>3 DEF UpOK, IInv
<1>9. DownOK'
  BY <1>1, <1>2, <1>3 DEF DownOK, IInv
<1>10. AwaitedOK'
  <2>1. SUFFICES ASSUME Unbroken PROVE AwaitedOK'
    BY <1>2 DEF AwaitedOK
  <2>2. /\ \A i \in 1..Len(Down) : call'[Down[i].id] = "sent"
    BY <2>1, <1>3, <1>4 DEF IInv, DownOK, AwaitedOK
  <2>3. daemon.at # "closed" =>
          \A i \in 1..Len(Up) : Up[i].msg = "data" => call'[Up[i].id] = "sent"
    BY <2>1, <1>3, <1>4 DEF IInv, AwaitedOK
  <2>4. daemon.at = "handle" => call'[daemon.id] = "sent"
    BY <2>1, <1>3 DEF IInv, AwaitedOK, Phases
  <2> QED
    BY <2>1, <2>2, <2>3, <2>4, <1>2 DEF IInv, AwaitedOK
<1> QED
  BY <1>5, <1>6, <1>7, <1>8, <1>9, <1>10 DEF IInv

\* A request is written, or was too large, or the tool found the socket closed.
LEMMA SendStep == IInv /\ (\E r \in Requests, size \in Sizes : Send(r, size)) => IInv'
<1> SUFFICES ASSUME IInv, (\E r \in Requests, size \in Sizes : Send(r, size)) PROVE IInv'
  OBVIOUS
<1> SUFFICES ASSUME NEW r \in Requests, NEW size \in Sizes, Send(r, size) PROVE IInv'
  OBVIOUS
<1>1. /\ client.at = "open" /\ call[r] = "queued" /\ (~relayed => In("sent") = {})
      /\ UNCHANGED <<kind, pinned, listening, relay, daemon, portDown, sockDown>>
  BY DEF Send
<1> DEFINE lost == (~relayed /\ size # "fits") \/ (kind = "cli" /\ daemon.at = "closed")
<1>2. CASE ~lost
  <2>1. /\ call' = [call EXCEPT ![r] = "sent"] /\ client' = [client EXCEPT !.send = Advance(@)]
        /\ Post(Sealed(client.send, r, size)) /\ skipped' = skipped
    BY <1>2 DEF Send, SendNext
  <2> QED
    BY <1>1, <2>1, Posted1Step
<1>3. CASE lost /\ kind # "cli"
  <2>1. /\ call' = Fail({r}) /\ client' = [client EXCEPT !.send = Advance(@)] /\ skipped' = TRUE
        /\ UNCHANGED <<portUp, sockUp>> /\ ~relayed
    BY <1>3 DEF Send, SendNext
  <2> QED
    BY <1>1, <2>1, UnwrittenStep
<1>4. CASE lost /\ kind = "cli"
  <2>1. /\ call' = Fail({r}) /\ client' = NoConn /\ skipped' = TRUE
        /\ UNCHANGED <<portUp, sockUp>>
    BY <1>4 DEF Send
  <2>2. /\ call' \in [Requests -> {"new", "queued", "sent", "answered", "failed"}]
        /\ \A q \in Requests : call'[q] = "sent" => call[q] = "sent"
    BY <2>1, Failed DEF IInv
  <2> QED
    BY <1>1, <2>1, <2>2, ClientOffStep
<1> QED
  BY <1>2, <1>3, <1>4

\* An answer opens and its caller has it.
LEMMA AnsweredStep ==
    ASSUME IInv,
           client.at = "open", Inbound # << >>, Took, NEW f, f = Down[1],
           Opens(client.recv, f),
           NEW T, T = (IF kind = "cli" THEN In("sent") ELSE {f.id} \cap In("sent")),
           call' = [r \in Requests |-> IF r \in T THEN "answered" ELSE call[r]],
           client' = [client EXCEPT !.recv = Advance(@)],
           UNCHANGED <<kind, pinned, listening, relay, daemon, portUp, sockUp, skipped>>
    PROVE  IInv'
<1>1. /\ GoodQueue(portDown') /\ GoodQueue(sockDown') /\ Len(Down) >= 1
      /\ Len(Down') = Len(Down) - 1
      /\ \A i \in 1..Len(Down') : Down'[i] = Down[i + 1]
      /\ relay.reader # "first" /\ (~relayed => portDown' = << >>)
  BY DownTook
<1>2. /\ client' \in [at : {"off", "hello", "open"}, send : Ciphers, recv : Ciphers]
      /\ client'.at = "open" /\ client'.send = client.send /\ client'.recv.n = client.recv.n + 1
      /\ Regular(client'.recv)
  BY AdvanceRegular DEF IInv, Types, Keyed
<1>3. /\ Up' = Up /\ Stage' = Stage /\ Live' = Live /\ Unbroken' = Unbroken
  BY DEF Up, Stage, Live, Unbroken, relayed
<1>4. /\ call' \in [Requests -> {"new", "queued", "sent", "answered", "failed"}]
      /\ \A r \in Requests : call'[r] = "sent" => call[r] = "sent"
      /\ \A r \in Requests : r \notin T => call'[r] = call[r]
  BY DEF IInv, Types
<1>5. /\ client.recv.n \in Nat /\ daemon.send.n \in Nat /\ Len(Down) \in Nat
  BY Streams DEF IInv, Types, Ciphers
<1>6. \A i \in 1..Len(Down') : i \in 1..Len(Down) /\ i + 1 \in 1..Len(Down) /\ i + 1 # 1
  BY <1>1, <1>5
<1>7. Types'
  BY <1>1, <1>2, <1>4 DEF Types, IInv, GoodQueue
<1>8. Keyed'
  BY <1>1, <1>2 DEF Keyed, IInv, GoodQueue
<1>9. Phases'
  BY <1>1, <1>2, <1>3, <1>4 DEF Phases, relayed, In, IInv
<1>10. UpOK'
  BY <1>1, <1>2, <1>3, <1>4 DEF UpOK, IInv
<1>11. DownOK'
  <2>1. SUFFICES ASSUME Unbroken PROVE DownOK'
    BY <1>2, <1>3 DEF DownOK
  <2>2. /\ \A i \in 1..Len(Down) : Down[i].msg = "data" /\ Down[i].n = client.recv.n + i - 1
        /\ daemon.at \notin {"hello", "msg1"}
        /\ daemon.at # "closed" => daemon.send.n = client.recv.n + Len(Down)
    BY <2>1 DEF IInv, DownOK
  <2>3. ASSUME NEW i \in 1..Len(Down')
        PROVE  Down'[i].msg = "data" /\ Down'[i].n = client'.recv.n + i - 1
    <3>1. Down'[i] = Down[i + 1] /\ i + 1 \in 1..Len(Down) /\ i \in Nat
      BY <1>1, <1>6
    <3>2. Down[i + 1].n = client.recv.n + (i + 1) - 1 /\ Down[i + 1].msg = "data"
      BY <3>1, <2>2
    <3> QED
      BY <3>1, <3>2, <1>2, <1>5
  <2>4. daemon.at # "closed" => daemon.send.n = client'.recv.n + Len(Down')
    <3>1. client'.recv.n + Len(Down') = client.recv.n + Len(Down)
      BY <1>1, <1>2, <1>5
    <3> QED
      BY <3>1, <2>2
  <2> QED
    BY <2>2, <2>3, <2>4, <1>2 DEF DownOK
<1>12. AwaitedOK'
  <2>1. SUFFICES ASSUME Unbroken PROVE AwaitedOK'
    BY <1>3 DEF AwaitedOK
  <2>2. 1 \in 1..Len(Down) /\ f \in Frames /\ f.msg = "data" /\ f.id \in Requests
    <3>1. 1 \in 1..Len(Down)
      BY <1>1, <1>5
    <3> QED
      BY <3>1, Streams, DataFields DEF Opens
  <2>3. call[f.id] = "sent"
    BY <2>1, <2>2 DEF IInv, AwaitedOK
  <2>4. T \subseteq {f.id}
    <3>1. CASE kind = "cli"
      <4>1. \A q, r \in In("sent") : q = r
        BY <3>1 DEF IInv, Phases, relayed
      <4>2. f.id \in In("sent")
        BY <2>2, <2>3 DEF In
      <4> QED
        BY <3>1, <4>1, <4>2
    <3>2. CASE kind # "cli"
      BY <3>2
    <3> QED
      BY <3>1, <3>2
  <2>5. \A i \in 1..Len(Down') : /\ Down'[i] = Down[i + 1] /\ Down[i + 1].id \in Requests
                                 /\ Down[i + 1].id # f.id /\ call'[Down[i + 1].id] = "sent"
    <3>1. SUFFICES ASSUME NEW i \in 1..Len(Down')
                   PROVE  /\ Down'[i] = Down[i + 1] /\ Down[i + 1].id \in Requests
                          /\ Down[i + 1].id # f.id /\ call'[Down[i + 1].id] = "sent"
      OBVIOUS
    <3>2. i + 1 \in 1..Len(Down) /\ i + 1 # 1
      BY <1>6
    <3>3. Down[i + 1].id \in Requests /\ call[Down[i + 1].id] = "sent" /\ Down[i + 1].id # Down[1].id
      BY <3>2, <2>1, <2>2, Streams, DataFields DEF IInv, DownOK, AwaitedOK
    <3> QED
      BY <3>3, <2>4, <1>1, <1>4
  <2>6. \A i, j \in 1..Len(Down') : Down'[i].id = Down'[j].id => i = j
    <3>1. SUFFICES ASSUME NEW i \in 1..Len(Down'), NEW j \in 1..Len(Down'), Down'[i].id = Down'[j].id
                   PROVE  i = j
      OBVIOUS
    <3>2. i + 1 \in 1..Len(Down) /\ j + 1 \in 1..Len(Down) /\ i \in Int /\ j \in Int
      BY <1>6
    <3>3. i + 1 = j + 1
      BY <3>1, <3>2, <2>1, <2>5 DEF IInv, AwaitedOK
    <3> QED
      BY <3>2, <3>3
  <2>7. daemon.at # "closed" =>
          \A i \in 1..Len(Up) : Up[i].msg = "data" =>
             /\ Up[i].id # f.id /\ call'[Up[i].id] = "sent"
             /\ \A j \in 1..Len(Down') : Up[i].id # Down'[j].id
    <3>1. SUFFICES ASSUME daemon.at # "closed", NEW i \in 1..Len(Up), Up[i].msg = "data"
                   PROVE  /\ Up[i].id # f.id /\ call'[Up[i].id] = "sent"
                          /\ \A j \in 1..Len(Down') : Up[i].id # Down'[j].id
      OBVIOUS
    <3>2. Up[i].id \in Requests
      BY <3>1, Streams, DataFields
    <3>3. call[Up[i].id] = "sent" /\ \A j \in 1..Len(Down) : Up[i].id # Down[j].id
      BY <3>1, <2>1 DEF IInv, AwaitedOK
    <3>4. Up[i].id # f.id
      BY <3>3, <2>2
    <3>5. call'[Up[i].id] = "sent"
      BY <3>2, <3>3, <3>4, <2>4, <1>4
    <3>6. ASSUME NEW j \in 1..Len(Down')
          PROVE  Up[i].id # Down'[j].id
      BY <3>3, <3>6, <2>5, <1>6
    <3> QED
      BY <3>4, <3>5, <3>6
  <2>8. daemon.at = "handle" =>
          /\ call'[daemon.id] = "sent" /\ \A j \in 1..Len(Down') : daemon.id # Down'[j].id
    <3>1. SUFFICES ASSUME daemon.at = "handle"
                   PROVE  /\ call'[daemon.id] = "sent"
                          /\ \A j \in 1..Len(Down') : daemon.id # Down'[j].id
      OBVIOUS
    <3>2. /\ daemon.id \in Requests /\ call[daemon.id] = "sent"
          /\ \A j \in 1..Len(Down) : daemon.id # Down[j].id
      BY <3>1, <2>1 DEF IInv, AwaitedOK, Phases
    <3> QED
      BY <3>2, <2>2, <2>4, <2>5, <1>4, <1>6
  <2> QED
    BY <2>1, <2>5, <2>6, <2>7, <2>8, <1>3 DEF IInv, AwaitedOK
<1> QED
  BY <1>7, <1>8, <1>9, <1>10, <1>11, <1>12 DEF IInv

\* An answer arrives, and either has its caller or ends the connection.
LEMMA ReceiveStep == IInv /\ Receive => IInv'
<1> SUFFICES ASSUME IInv, Receive PROVE IInv'
  OBVIOUS
<1>1. /\ client.at = "open" /\ Inbound # << >> /\ Took /\ Head(Inbound) = Down[1]
      /\ UNCHANGED <<kind, pinned, listening, relay, daemon, portUp, sockUp, skipped>>
  BY DownTook DEF Receive
<1> DEFINE f == Head(Inbound)
           T == IF kind = "cli" THEN In("sent") ELSE {f.id} \cap In("sent")
<1>2. \/ /\ Opens(client.recv, f)
         /\ call' = [r \in Requests |-> IF r \in T THEN "answered" ELSE call[r]]
         /\ client' = [client EXCEPT !.recv = Advance(@)]
      \/ Teardown
  BY DEF Receive, RecvNext
<1>3. T = IF kind = "cli" THEN In("sent") ELSE {f.id} \cap In("sent")
  OBVIOUS
<1>4. f = Down[1]
  BY <1>1
<1> HIDE DEF f, T
<1>5. CASE /\ Opens(client.recv, f)
           /\ call' = [r \in Requests |-> IF r \in T THEN "answered" ELSE call[r]]
           /\ client' = [client EXCEPT !.recv = Advance(@)]
  BY <1>1, <1>3, <1>4, <1>5, AnsweredStep
<1>6. CASE Teardown
  <2>1. client' = NoConn /\ call' = Fail(Awaiting)
    BY <1>6 DEF Teardown
  <2>2. /\ call' \in [Requests -> {"new", "queued", "sent", "answered", "failed"}]
        /\ \A r \in Requests : call'[r] = "sent" => call[r] = "sent"
    BY <2>1, Failed DEF IInv
  <2>3. skipped' \in BOOLEAN
    BY <1>1 DEF IInv, Types
  <2> QED
    BY <1>1, <2>1, <2>2, <2>3, ClientOffStep
<1> QED
  BY <1>2, <1>5, <1>6

\* The relay dials for the first message.
LEMMA RelayHelloStep == IInv /\ RelayHello => IInv'
<1> SUFFICES ASSUME IInv, RelayHello PROVE IInv'
  OBVIOUS
<1>1. /\ relay.reader = "first" /\ portUp # << >> /\ portUp' = Tail(portUp)
      /\ UNCHANGED <<kind, pinned, listening, call, client, sockDown, skipped>>
      /\ relayed /\ client.at # "open" /\ daemon.at = "closed" /\ ~skipped
      /\ sockUp = << >> /\ portDown = << >> /\ sockDown = << >>
      /\ daemon.send = NewCipher /\ daemon.recv = NewCipher
  BY DEF RelayHello, IInv, Phases, NoRelay
<1>2. /\ GoodQueue(portUp) /\ GoodQueue(portUp') /\ GoodQueue(portDown)
      /\ Head(portUp) \in Frames /\ (Head(portUp).msg = "data" => Regular(Head(portUp)))
  BY <1>1, Queues, GoodTail
<1>3. CASE listening
  <2>1. /\ relay' = [reader |-> "pump", writer |-> "pump"]
        /\ daemon' = [NoDaemon EXCEPT !.at = "hello"]
        /\ sockUp' = <<Head(portUp)>> /\ portDown' = portDown
    BY <1>3 DEF RelayHello
  <2>2. /\ << >> \in Seq(Frames) /\ portUp \in Seq(Frames) /\ sockUp' = Append(<< >>, Head(portUp))
        /\ GoodQueue(<< >>)
    BY <1>2, <2>1 DEF GoodQueue
  <2>3. GoodQueue(sockUp')
    BY <1>2, <2>2, GoodAppend
  <2>4. sockUp' \o portUp' = << >> \o portUp
    BY <1>1, <2>2, Moved
  <2>5. Unbroken /\ Unbroken' /\ Live' /\ Live /\ Down' = Down
    BY <1>1, <2>1 DEF Unbroken, Live, Down, NoDaemon
  <2>6. Up' = Up
    BY <1>1, <2>4, <2>5 DEF Up
  <2>7. /\ daemon' \in [at : {"closed", "hello", "msg1", "msg3", "recv", "handle"},
                        send : Ciphers, recv : Ciphers, id : Requests \cup {0}]
        /\ daemon'.at = "hello" /\ daemon'.send = NewCipher /\ daemon'.recv = NewCipher
    BY <2>1, NewRegular DEF NoDaemon
  <2>8. Stage' = Stage
    BY <1>1, <2>7 DEF Stage
  <2>9. Down = << >>
    BY <1>1 DEF Down
  <2>10. Types' /\ Keyed'
    BY <1>1, <1>2, <2>1, <2>3, <2>7, NewRegular DEF IInv, Types, Keyed, GoodQueue
  <2>11. Phases'
    BY <1>1, <1>3, <2>1, <2>7 DEF IInv, Phases, relayed, In
  <2>12. UpOK'
    BY <1>1, <2>5, <2>6, <2>7, <2>8 DEF IInv, UpOK
  <2>13. DownOK' /\ AwaitedOK'
    BY <1>1, <2>5, <2>7, <2>9 DEF IInv, DownOK, AwaitedOK
  <2> QED
    BY <2>10, <2>11, <2>12, <2>13 DEF IInv
<1>4. CASE ~listening
  <2>1. /\ portDown' = Append(portDown, Handshake("error")) /\ relay' = NoRelay
        /\ UNCHANGED <<daemon, sockUp>>
    BY <1>4 DEF RelayHello
  <2>2. GoodQueue(portDown')
    BY <1>2, <2>1, HandshakeFrame, GoodAppend
  <2>3. relay' \in [reader : {"off", "drain"}, writer : {"pump", "ended"}]
    BY <2>1 DEF NoRelay
  <2> QED
    BY <1>1, <1>2, <2>1, <2>2, <2>3, CutStep
<1> QED
  BY <1>3, <1>4

\* The relay passes a frame on to the socket, or ends or drains.
LEMMA RelayUpStep == IInv /\ RelayUp => IInv'
<1> SUFFICES ASSUME IInv, RelayUp PROVE IInv'
  OBVIOUS
<1>1. /\ relay.reader = "pump" /\ portUp # << >> /\ portUp' = Tail(portUp)
      /\ UNCHANGED <<kind, pinned, listening, call, client, daemon, portDown, sockDown, skipped>>
      /\ relayed
  BY DEF RelayUp, IInv, Phases, NoRelay
<1>2. /\ GoodQueue(portUp) /\ GoodQueue(portUp') /\ GoodQueue(portDown') /\ GoodQueue(sockUp)
      /\ Head(portUp) \in Frames /\ (Head(portUp).msg = "data" => Regular(Head(portUp)))
  BY <1>1, Queues, GoodTail
<1>3. ASSUME sockUp' = sockUp, relay' = NoRelay \/ relay' = [relay EXCEPT !.reader = "drain"]
      PROVE  IInv'
  <2>1. relay' \in [reader : {"off", "drain"}, writer : {"pump", "ended"}]
    BY <1>3 DEF NoRelay, IInv, Types
  <2> QED
    BY <1>1, <1>2, <1>3, <2>1, CutStep
<1>4. ASSUME sockUp' = Append(sockUp, Head(portUp)), relay' = relay, daemon.at # "closed"
      PROVE  IInv'
  <2>1. portUp \in Seq(Frames) /\ sockUp \in Seq(Frames)
    BY <1>2 DEF GoodQueue
  <2>2. GoodQueue(sockUp')
    BY <1>2, <1>4, GoodAppend
  <2>3. sockUp' \o portUp' = sockUp \o portUp
    BY <1>1, <1>4, <2>1, Moved
  <2>4. /\ Unbroken /\ Unbroken' /\ Live' = Live /\ Down' = Down /\ Stage' = Stage
    BY <1>1, <1>4 DEF Unbroken, Live, Down, Stage
  <2>5. Up' = Up
    BY <2>3, <2>4 DEF Up
  <2>6. Types' /\ Keyed'
    BY <1>1, <1>2, <1>4, <2>2 DEF IInv, Types, Keyed, GoodQueue
  <2>7. Phases'
    BY <1>1, <1>4 DEF IInv, Phases, relayed, In
  <2>8. UpOK' /\ DownOK' /\ AwaitedOK'
    BY <1>1, <1>4, <2>4, <2>5 DEF IInv, UpOK, DownOK, AwaitedOK
  <2> QED
    BY <2>6, <2>7, <2>8 DEF IInv
<1>5. \/ sockUp' = sockUp /\ (relay' = NoRelay \/ relay' = [relay EXCEPT !.reader = "drain"])
      \/ sockUp' = Append(sockUp, Head(portUp)) /\ relay' = relay /\ daemon.at # "closed"
  BY DEF RelayUp
<1> QED
  BY <1>3, <1>4, <1>5

\* The relay passes a frame on to the extension, or its loop ends.
LEMMA RelayDownStep == IInv /\ RelayDown => IInv'
<1> SUFFICES ASSUME IInv, RelayDown PROVE IInv'
  OBVIOUS
<1>1. /\ relay.writer = "pump" /\ relayed
      /\ UNCHANGED <<kind, pinned, listening, call, client, daemon, portUp, sockUp, skipped>>
  BY DEF RelayDown, IInv, Phases, NoRelay
<1>2. /\ GoodQueue(portDown) /\ GoodQueue(sockDown)
      /\ portDown \in Seq(Frames) /\ sockDown \in Seq(Frames)
  BY Queues DEF GoodQueue
<1>3. /\ GoodQueue(portDown') /\ GoodQueue(sockDown') /\ Down' = Down
      /\ relay'.reader = relay.reader
      /\ relay' \in [reader : {"off", "first", "pump", "drain"}, writer : {"pump", "ended"}]
      /\ relay.reader = "first" => portDown' = << >> /\ sockDown' = << >>
  <2>1. CASE /\ sockDown # << >> /\ portDown' = Append(portDown, Head(sockDown))
             /\ sockDown' = Tail(sockDown) /\ relay' = relay
    <3>1. relay.reader # "first"
      BY <2>1 DEF IInv, Phases
    <3>2. /\ GoodQueue(Tail(sockDown)) /\ Head(sockDown) \in Frames
          /\ (Head(sockDown).msg = "data" => Regular(Head(sockDown)))
      BY <1>2, <2>1, GoodTail
    <3>3. GoodQueue(Append(portDown, Head(sockDown)))
      BY <1>2, <3>2, GoodAppend
    <3>4. Append(portDown, Head(sockDown)) \o Tail(sockDown) = portDown \o sockDown
      BY <1>2, <2>1, Moved
    <3>5. Down' = Down
      BY <2>1, <3>4 DEF Down
    <3>6. relay' \in [reader : {"off", "first", "pump", "drain"}, writer : {"pump", "ended"}]
      BY <2>1 DEF IInv, Types
    <3> QED
      BY <2>1, <3>1, <3>2, <3>3, <3>5, <3>6
  <2>2. CASE relay' = [relay EXCEPT !.writer = "ended"] /\ UNCHANGED <<portDown, sockDown>>
    BY <1>2, <2>2 DEF Down, IInv, Types, Phases
  <2> QED
    BY <2>1, <2>2 DEF RelayDown
<1>4. /\ Unbroken' = Unbroken /\ Live' = Live /\ Stage' = Stage
  BY <1>1, <1>3 DEF Unbroken, Live, Stage, relayed
<1>5. Up' = Up
  BY <1>1, <1>4 DEF Up
<1>6. Types'
  BY <1>1, <1>3 DEF Types, IInv, GoodQueue
<1>7. Keyed'
  BY <1>1, <1>3 DEF Keyed, IInv, GoodQueue
<1>8. Phases'
  BY <1>1, <1>3, <1>4, <1>5 DEF Phases, relayed, In, IInv
<1>9. UpOK'
  BY <1>1, <1>3, <1>4, <1>5 DEF UpOK, IInv
<1>10. DownOK'
  BY <1>1, <1>3, <1>4, <1>5 DEF DownOK, IInv
<1>11. AwaitedOK'
  BY <1>1, <1>3, <1>4, <1>5 DEF AwaitedOK, IInv
<1> QED
  BY <1>6, <1>7, <1>8, <1>9, <1>10, <1>11 DEF IInv

\* The relay ends, or is killed.
LEMMA RelayEndCrashStep == IInv /\ (RelayEnd \/ RelayCrash) => IInv'
<1> SUFFICES ASSUME IInv, (RelayEnd \/ RelayCrash) PROVE IInv'
  OBVIOUS
<1>1. /\ relay.reader # "off" /\ relay' = NoRelay
      /\ UNCHANGED <<kind, pinned, listening, call, client, daemon, portUp, portDown, sockUp, sockDown,
                     skipped>>
  BY DEF RelayEnd, RelayCrash
<1>2. relayed /\ relay' \in [reader : {"off", "drain"}, writer : {"pump", "ended"}]
  BY <1>1 DEF IInv, Phases, NoRelay
<1> QED
  BY <1>1, <1>2, Queues, CutStep

\* The daemon's end of the connection goes.
LEMMA DaemonLeavesStep == IInv /\ (DaemonEOF \/ DaemonDown) => IInv'
<1> SUFFICES ASSUME IInv, (DaemonEOF \/ DaemonDown) PROVE IInv'
  OBVIOUS
<1>1. /\ daemon' = NoDaemon
      /\ UNCHANGED <<kind, pinned, call, client, relay, portUp, portDown, sockUp, sockDown, skipped>>
      /\ listening' = listening \/ listening' = FALSE
  BY DEF DaemonEOF, DaemonDown, ShutConn
<1>2. listening' \in BOOLEAN
  BY <1>1 DEF IInv, Types
<1>3. GoodQueue(sockUp')
  BY <1>1, Queues
<1> QED
  BY <1>1, <1>2, <1>3, ShutStep

\* The daemon is started again, or the client's row is lost: no connection knows of it yet.
LEMMA DaemonUpRowLostStep == IInv /\ (DaemonUp \/ \E status \in {"revoked", "gone"} : RowLost(status)) => IInv'
<1> SUFFICES ASSUME IInv, (DaemonUp \/ \E status \in {"revoked", "gone"} : RowLost(status)) PROVE IInv'
  OBVIOUS
<1>1. /\ UNCHANGED <<kind, pinned, call, client, relay, daemon, portUp, portDown, sockUp, sockDown,
                     skipped>>
      /\ listening' = listening \/ listening' = TRUE
  BY DEF DaemonUp, RowLost
<1>2. listening' \in BOOLEAN /\ (~listening' => daemon.at = "closed")
  BY <1>1 DEF IInv, Types, Phases
<1>3. /\ call' \in [Requests -> {"new", "queued", "sent", "answered", "failed"}]
      /\ \A r \in Requests : call'[r] = "sent" <=> call[r] = "sent"
  BY <1>1 DEF IInv, Types
<1> QED
  BY <1>1, <1>2, <1>3, QuietStep

\* The daemon goes on to the next message of the handshake.
LEMMA WentStep ==
    ASSUME IInv,
           sockUp # << >>, sockUp' = Tail(sockUp), Head(sockUp).msg = daemon.at,
           daemon.at \in {"hello", "msg1", "msg3"}, NEW at \in {"msg1", "msg3", "recv"},
           (daemon.at = "hello" /\ at = "msg1") \/ (daemon.at = "msg1" /\ at = "msg3")
              \/ (daemon.at = "msg3" /\ at = "recv"),
           daemon' = [daemon EXCEPT !.at = at],
           IF at = "msg3" THEN sockDown' = Append(sockDown, Handshake("msg2")) ELSE sockDown' = sockDown,
           UNCHANGED <<kind, pinned, listening, call, client, relay, portUp, portDown, skipped>>
    PROVE  IInv'
<1>1. /\ GoodQueue(sockUp') /\ relay.reader # "first" /\ Unbroken' = Unbroken /\ Len(Up) >= 1
      /\ Len(Up') = Len(Up) - 1
      /\ \A i \in 1..Len(Up') : Up'[i] = Up[i + 1]
  BY UpTook
<1>2. /\ daemon' \in [at : {"closed", "hello", "msg1", "msg3", "recv", "handle"},
                      send : Ciphers, recv : Ciphers, id : Requests \cup {0}]
      /\ daemon'.at = at /\ daemon'.send = NewCipher /\ daemon'.recv = NewCipher
      /\ daemon.send = NewCipher /\ daemon.recv = NewCipher
  BY DEF IInv, Types, Phases
<1>3. /\ Stage' = Stage + 1 /\ Live /\ Live' /\ Stage \in 0..2 /\ listening
      /\ at = "msg3" => Stage = 1
  BY <1>2 DEF Stage, Live, IInv, Phases, Types
<1>4. GoodQueue(sockDown') /\ GoodQueue(portDown') /\ Down \in Seq(Frames) /\ Len(Down) \in Nat
  BY Queues, HandshakeFrame, GoodAppend, Streams
<1>5. at # "msg3" => Down' = Down
  BY DEF Down
<1>6. at = "msg3" /\ Down = << >> => Len(Down') = 1 /\ Down'[1].msg = "msg2"
  <2>1. SUFFICES ASSUME at = "msg3", Down = << >> PROVE Len(Down') = 1 /\ Down'[1].msg = "msg2"
    OBVIOUS
  <2>2. portDown \in Seq(Frames) /\ sockDown \in Seq(Frames) /\ Len(portDown \o sockDown) = 0
    BY <2>1 DEF IInv, Types, Down
  <2>3. Handshake("msg2") \in Frames /\ Handshake("msg2").msg = "msg2"
    BY HandshakeFrame
  <2>4. Down' = portDown \o Append(sockDown, Handshake("msg2"))
    BY <2>1 DEF Down
  <2> QED
    BY <2>2, <2>3, <2>4, PutLast
<1>7. Unbroken /\ client.at = "open" => at = "recv"
  BY DEF IInv, DownOK
<1>8. Len(Up) \in Nat /\ \A i \in 1..Len(Up') : i \in Nat /\ i + 1 \in 1..Len(Up)
  BY <1>1, Streams
<1>9. Types'
  BY <1>1, <1>2, <1>4 DEF Types, IInv, GoodQueue
<1>10. Keyed'
  BY <1>1, <1>2, <1>4, NewRegular DEF Keyed, IInv, GoodQueue
<1>11. Phases'
  BY <1>1, <1>2, <1>3, Streams DEF Phases, relayed, In, IInv
<1>12. UpOK'
  <2>1. /\ \A i \in 1..Len(Up) :
           /\ Up[i].msg = Expected(Stage + i)
           /\ ~skipped /\ Up[i].msg = "data" => Up[i].n = daemon.recv.n + Stage + i - 4
        /\ Unbroken /\ client.at = "hello" => Stage + Len(Up) = 2 /\ ~skipped
        /\ Unbroken /\ client.at = "open" =>
           /\ Stage + Len(Up) >= 3
           /\ ~skipped => client.send.n = daemon.recv.n + Stage + Len(Up) - 3
    BY <1>3 DEF IInv, UpOK
  <2>2. Stage' + Len(Up') = Stage + Len(Up)
    BY <1>1, <1>3, <1>8
  <2>3. daemon'.recv.n + Stage' + Len(Up') - 3 = daemon.recv.n + Stage + Len(Up) - 3
    BY <1>1, <1>2, <1>3, <1>8, NewRegular
  <2>4. ASSUME NEW i \in 1..Len(Up')
        PROVE  /\ Up'[i].msg = Expected(Stage' + i)
               /\ ~skipped' /\ Up'[i].msg = "data" => Up'[i].n = daemon'.recv.n + Stage' + i - 4
    <3>1. /\ Up'[i] = Up[i + 1] /\ i + 1 \in 1..Len(Up) /\ Stage' + i = Stage + (i + 1)
          /\ daemon'.recv.n + Stage' + i - 4 = daemon.recv.n + Stage + (i + 1) - 4
      BY <1>1, <1>2, <1>3, <1>8, NewRegular
    <3> QED
      BY <2>1, <3>1
  <2> QED
    BY <2>1, <2>2, <2>3, <2>4, <1>1 DEF UpOK
<1>13. DownOK'
  <2>1. Unbroken /\ client.at = "hello" /\ at = "msg3" => Down = << >>
    BY DEF IInv, DownOK
  <2>2. Unbroken /\ client.at = "hello" /\ at = "msg1" => Down = << >>
    BY DEF IInv, DownOK
  <2>3. /\ Unbroken /\ client.at = "hello" =>
             /\ Len(Down) <= 1 /\ \A i \in 1..Len(Down) : Down[i].msg = "msg2"
        /\ Unbroken /\ client.at = "open" =>
             /\ \A i \in 1..Len(Down) : Down[i].msg = "data" /\ Down[i].n = client.recv.n + i - 1
             /\ daemon.send.n = client.recv.n + Len(Down)
    BY DEF IInv, DownOK
  <2>4. CASE Unbroken /\ client.at = "open"
    <3>1. at = "recv" /\ Down' = Down /\ daemon'.send = daemon.send
      BY <2>4, <1>2, <1>5, <1>7
    <3> QED
      BY <2>3, <2>4, <3>1, <1>1, <1>2 DEF DownOK
  <2>5. CASE Unbroken /\ client.at = "hello" /\ at = "msg3"
    <3>1. Len(Down') = 1 /\ Down'[1].msg = "msg2"
      BY <2>1, <2>5, <1>6
    <3> QED
      BY <2>5, <3>1, <1>1, <1>2 DEF DownOK
  <2>6. CASE Unbroken /\ client.at = "hello" /\ at # "msg3"
    BY <2>2, <2>3, <2>6, <1>1, <1>2, <1>5 DEF DownOK
  <2> QED
    BY <2>4, <2>5, <2>6, <1>1 DEF DownOK
<1>14. AwaitedOK'
  <2>1. SUFFICES ASSUME Unbroken, client.at = "open" PROVE AwaitedOK'
    BY <1>1 DEF AwaitedOK
  <2>2. Down' = Down /\ daemon'.at = "recv" /\ daemon.at # "closed"
    BY <2>1, <1>2, <1>5, <1>7
  <2>3. \A i \in 1..Len(Up') : Up'[i] = Up[i + 1] /\ i + 1 \in 1..Len(Up) /\ i \in Nat
    BY <1>1, <1>8
  <2>4. ASSUME NEW i \in 1..Len(Up'), Up'[i].msg = "data"
        PROVE  /\ call[Up'[i].id] = "sent"
               /\ \A j \in 1..Len(Up') : Up'[j].msg = "data" /\ Up'[i].id = Up'[j].id => i = j
               /\ \A j \in 1..Len(Down) : Up'[i].id # Down[j].id
    <3>1. /\ call[Up[i + 1].id] = "sent"
          /\ \A j \in 1..Len(Up) : Up[j].msg = "data" /\ Up[i + 1].id = Up[j].id => i + 1 = j
          /\ \A j \in 1..Len(Down) : Up[i + 1].id # Down[j].id
      BY <2>1, <2>2, <2>3, <2>4 DEF IInv, AwaitedOK
    <3>2. ASSUME NEW j \in 1..Len(Up'), Up'[j].msg = "data", Up'[i].id = Up'[j].id
          PROVE  i = j
      <4>1. i + 1 = j + 1 /\ i \in Nat /\ j \in Nat
        BY <2>3, <3>1, <3>2
      <4> QED
        BY <4>1
    <3> QED
      BY <2>3, <3>1, <3>2
  <2> QED
    BY <2>1, <2>2, <2>4 DEF IInv, AwaitedOK
<1> QED
  BY <1>9, <1>10, <1>11, <1>12, <1>13, <1>14 DEF IInv

\* The daemon reads a message of the handshake, or gives the connection up over it.
LEMMA DaemonHandshakeStep == IInv /\ DaemonHandshake => IInv'
<1> SUFFICES ASSUME IInv, DaemonHandshake PROVE IInv'
  OBVIOUS
<1>1. /\ sockUp # << >> /\ sockUp' = Tail(sockUp) /\ Head(sockUp).msg = daemon.at
      /\ daemon.at \in {"hello", "msg1", "msg3"}
      /\ UNCHANGED <<kind, pinned, listening, call, client, relay, portUp, portDown, skipped>>
  BY DEF DaemonHandshake
<1>2. ASSUME daemon' = NoDaemon, sockDown' = sockDown PROVE IInv'
  <2>1. listening' \in BOOLEAN /\ GoodQueue(sockUp') /\ relay.reader # "first"
    BY <1>1, UpTook DEF IInv, Types
  <2> QED
    BY <1>1, <1>2, <2>1, ShutStep
<1>3. ASSUME daemon.at = "hello", daemon' = [daemon EXCEPT !.at = "msg1"], sockDown' = sockDown
      PROVE  IInv'
  BY <1>1, <1>3, WentStep
<1>4. ASSUME daemon.at = "msg1", daemon' = [daemon EXCEPT !.at = "msg3"],
             sockDown' = Append(sockDown, Handshake("msg2"))
      PROVE  IInv'
  BY <1>1, <1>4, WentStep
<1>5. ASSUME daemon.at = "msg3", daemon' = [daemon EXCEPT !.at = "recv"], sockDown' = sockDown
      PROVE  IInv'
  BY <1>1, <1>5, WentStep
<1>6. \/ daemon' = NoDaemon /\ sockDown' = sockDown
      \/ daemon.at = "hello" /\ daemon' = [daemon EXCEPT !.at = "msg1"] /\ sockDown' = sockDown
      \/ daemon.at = "msg1" /\ daemon' = [daemon EXCEPT !.at = "msg3"]
           /\ sockDown' = Append(sockDown, Handshake("msg2"))
      \/ daemon.at = "msg3" /\ daemon' = [daemon EXCEPT !.at = "recv"] /\ sockDown' = sockDown
  BY DEF DaemonHandshake, ShutConn
<1> QED
  BY <1>2, <1>3, <1>4, <1>5, <1>6

\* A request opens.
LEMMA OpenedStep ==
    ASSUME IInv,
           daemon.at = "recv", sockUp # << >>, sockUp' = Tail(sockUp), NEW f, f = Head(sockUp),
           Opens(daemon.recv, f),
           daemon' \in [at : {"closed", "hello", "msg1", "msg3", "recv", "handle"},
                        send : Ciphers, recv : Ciphers, id : Requests \cup {0}],
           daemon'.at = "handle", daemon'.id = f.id, daemon'.send = daemon.send,
           daemon'.recv = Advance(daemon.recv),
           UNCHANGED <<kind, pinned, listening, call, client, relay, portUp, portDown, sockDown, skipped>>
    PROVE  IInv'
<1>1. /\ GoodQueue(sockUp') /\ relay.reader # "first" /\ Unbroken' = Unbroken /\ Len(Up) >= 1
      /\ Len(Up') = Len(Up) - 1 /\ Up[1] = f /\ f \in Frames
      /\ \A i \in 1..Len(Up') : Up'[i] = Up[i + 1]
  BY UpTook
<1>2. f.msg = "data" /\ f.id \in Requests
  BY <1>1, DataFields DEF Opens
<1>3. Regular(daemon'.recv) /\ daemon'.recv.n = daemon.recv.n + 1 /\ daemon.recv.n \in Nat
  BY AdvanceRegular DEF IInv, Types, Keyed, Ciphers
<1>4. daemon'.recv.n = daemon.recv.n + 1 /\ daemon.recv.n \in Nat
  BY <1>3
<1>5. /\ Stage' = 3 /\ Stage = 3 /\ Live' /\ Live /\ Down' = Down
  BY <1>3 DEF Stage, Live, Down
<1>6. /\ Len(Up) \in Nat /\ Len(Up') = Len(Up) - 1 /\ Len(Up) >= 1
      /\ \A i \in 1..Len(Up') : i \in Nat /\ i + 1 \in 1..Len(Up) /\ i + 1 # 1
  BY <1>1, Streams
<1>7. 1 \in 1..Len(Up)
  BY <1>1, <1>6
<1>8. Types'
  BY <1>1, <1>3 DEF Types, IInv, GoodQueue
<1>9. Keyed'
  BY <1>1, <1>3 DEF Keyed, IInv, GoodQueue
<1>10. Phases'
  BY <1>1, <1>2, <1>3, <1>5 DEF Phases, relayed, In, IInv
<1>11. UpOK'
  <2>1. /\ \A i \in 1..Len(Up) :
           /\ Up[i].msg = Expected(3 + i)
           /\ ~skipped /\ Up[i].msg = "data" => Up[i].n = daemon.recv.n + 3 + i - 4
        /\ Unbroken /\ client.at = "hello" => 3 + Len(Up) = 2
        /\ Unbroken /\ client.at = "open" /\ ~skipped =>
             client.send.n = daemon.recv.n + 3 + Len(Up) - 3
    BY <1>5 DEF IInv, UpOK
  <2>2. ~(Unbroken /\ client.at = "hello")
    BY <2>1, <1>6
  <2>3. ASSUME NEW i \in 1..Len(Up')
        PROVE  /\ Up'[i].msg = Expected(3 + i)
               /\ ~skipped' /\ Up'[i].msg = "data" => Up'[i].n = daemon'.recv.n + 3 + i - 4
    <3>1. Up'[i] = Up[i + 1] /\ i + 1 \in 1..Len(Up) /\ i \in Nat /\ i + 1 # 1
      BY <1>1, <1>6
    <3>2. Expected(3 + i) = "data" /\ Expected(3 + (i + 1)) = "data"
      <4>1. 3 + i \notin 1..3 /\ 3 + (i + 1) \notin 1..3
        BY <3>1
      <4> QED
        BY <4>1 DEF Expected
    <3>3. daemon'.recv.n + 3 + i - 4 = daemon.recv.n + 3 + (i + 1) - 4
      <4>1. i \in Nat
        BY <3>1
      <4>2. daemon.recv.n + 1 + 3 + i - 4 = daemon.recv.n + 3 + (i + 1) - 4
        BY <4>1, <1>4
      <4> QED
        BY <4>2, <1>4
    <3> QED
      BY <2>1, <3>1, <3>2, <3>3
  <2>4. 3 + Len(Up') >= 3 /\ daemon'.recv.n + 3 + Len(Up') - 3 = daemon.recv.n + 3 + Len(Up) - 3
    BY <1>3, <1>6
  <2> QED
    BY <2>1, <2>2, <2>3, <2>4, <1>1, <1>5 DEF UpOK
<1>12. DownOK'
  BY <1>1, <1>2, <1>3, <1>5 DEF DownOK, IInv
<1>13. AwaitedOK'
  <2>1. SUFFICES ASSUME Unbroken, client.at = "open" PROVE AwaitedOK'
    BY <1>1 DEF AwaitedOK
  <2>2. \A i \in 1..Len(Up') : Up'[i] = Up[i + 1] /\ i + 1 \in 1..Len(Up) /\ i \in Nat /\ i + 1 # 1
    BY <1>1, <1>6
  <2>3. ASSUME NEW i \in 1..Len(Up), Up[i].msg = "data"
        PROVE  /\ call[Up[i].id] = "sent"
               /\ \A j \in 1..Len(Up) : Up[j].msg = "data" /\ Up[i].id = Up[j].id => i = j
               /\ \A j \in 1..Len(Down) : Up[i].id # Down[j].id
    BY <2>1, <2>3 DEF IInv, AwaitedOK
  <2>4. call[f.id] = "sent" /\ \A j \in 1..Len(Down) : f.id # Down[j].id
    BY <2>3, <1>1, <1>2, <1>7
  <2>5. ASSUME NEW i \in 1..Len(Up'), Up'[i].msg = "data"
        PROVE  /\ call[Up'[i].id] = "sent"
               /\ \A j \in 1..Len(Up') : Up'[j].msg = "data" /\ Up'[i].id = Up'[j].id => i = j
               /\ \A j \in 1..Len(Down) : Up'[i].id # Down[j].id
               /\ Up'[i].id # f.id
    <3>1. Up'[i] = Up[i + 1] /\ i + 1 \in 1..Len(Up) /\ i + 1 # 1 /\ i \in Nat
      BY <2>2
    <3>2. Up'[i].id # f.id
      BY <2>3, <2>5, <3>1, <1>1, <1>2, <1>7
    <3>3. ASSUME NEW j \in 1..Len(Up'), Up'[j].msg = "data", Up'[i].id = Up'[j].id
          PROVE  i = j
      <4>1. i + 1 = j + 1 /\ i \in Nat /\ j \in Nat
        BY <2>2, <2>3, <2>5, <3>3
      <4> QED
        BY <4>1
    <3> QED
      BY <2>3, <2>5, <3>1, <3>2, <3>3
  <2>6. /\ \A i \in 1..Len(Down) : call[Down[i].id] = "sent"
        /\ \A i, j \in 1..Len(Down) : Down[i].id = Down[j].id => i = j
    BY <2>1 DEF IInv, AwaitedOK
  <2> QED
    BY <2>4, <2>5, <2>6, <1>3, <1>5 DEF AwaitedOK
<1> QED
  BY <1>8, <1>9, <1>10, <1>11, <1>12, <1>13 DEF IInv

\* The daemon reads a request, or gives the connection up over it.
LEMMA DaemonRecvStep == IInv /\ DaemonRecv => IInv'
<1> SUFFICES ASSUME IInv, DaemonRecv PROVE IInv'
  OBVIOUS
<1> DEFINE f == Head(sockUp)
<1>1. /\ daemon.at = "recv" /\ sockUp # << >> /\ sockUp' = Tail(sockUp)
      /\ UNCHANGED <<kind, pinned, listening, call, client, relay, portUp, portDown, sockDown, skipped>>
  BY DEF DaemonRecv
<1>2. \/ /\ Opens(daemon.recv, f)
         /\ daemon' = [daemon EXCEPT !.at = "handle", !.id = f.id, !.recv = Advance(@)]
      \/ daemon' = NoDaemon
  BY DEF DaemonRecv, ShutConn, RecvNext
<1>3. f = Head(sockUp)
  OBVIOUS
<1> HIDE DEF f
<1>4. ASSUME Opens(daemon.recv, f),
             daemon' = [daemon EXCEPT !.at = "handle", !.id = f.id, !.recv = Advance(@)]
      PROVE  IInv'
  <2>1. f.id \in Requests
    <3>1. f \in Frames
      BY <1>1, <1>3, UpTook
    <3> QED
      BY <3>1, <1>4, DataFields DEF Opens
  <2>2. Advance(daemon.recv) \in Ciphers
    BY AdvanceRegular DEF IInv, Types, Keyed
  <2>3. /\ daemon' \in [at : {"closed", "hello", "msg1", "msg3", "recv", "handle"},
                        send : Ciphers, recv : Ciphers, id : Requests \cup {0}]
        /\ daemon'.at = "handle" /\ daemon'.id = f.id /\ daemon'.send = daemon.send
        /\ daemon'.recv = Advance(daemon.recv)
    BY <1>4, <2>1, <2>2 DEF IInv, Types
  <2> QED
    BY <1>1, <1>3, <1>4, <2>3, OpenedStep
<1>5. ASSUME daemon' = NoDaemon PROVE IInv'
  <2>1. listening' \in BOOLEAN /\ GoodQueue(sockUp') /\ relay.reader # "first"
    BY <1>1, UpTook DEF IInv, Types
  <2> QED
    BY <1>1, <1>5, <2>1, ShutStep
<1> QED
  BY <1>2, <1>4, <1>5

\* An answer is written.
LEMMA RepliedStep ==
    ASSUME IInv,
           daemon.at = "handle", NEW f \in Frames, f.msg = "data", f.n = daemon.send.n, f.id = daemon.id,
           Regular(f), sockDown' = Append(sockDown, f),
           daemon' \in [at : {"closed", "hello", "msg1", "msg3", "recv", "handle"},
                        send : Ciphers, recv : Ciphers, id : Requests \cup {0}],
           daemon'.at = "recv", daemon'.recv = daemon.recv, daemon'.send = Advance(daemon.send),
           UNCHANGED <<kind, pinned, listening, call, client, relay, portUp, portDown, sockUp, skipped>>
    PROVE  IInv'
<1>1. daemon.send.n \in Nat /\ daemon.id \in Requests
  BY DEF IInv, Types, Phases, Ciphers
<1>2. daemon'.send.n = daemon.send.n + 1 /\ Regular(daemon'.send)
  BY AdvanceRegular DEF IInv, Types, Keyed
<1>3. /\ Stage' = Stage /\ Live /\ Live' /\ Unbroken' = Unbroken /\ relay.reader # "first"
      /\ Up' = Up /\ Stage = 3
  BY <1>2 DEF Stage, Live, Up, Unbroken, relayed, IInv, Phases
<1>4. GoodQueue(sockDown') /\ Down \in Seq(Frames) /\ Len(Down) \in Nat
  BY <1>1, Queues, GoodAppend, Streams
<1>5. /\ Len(Down') = Len(Down) + 1 /\ Down'[Len(Down) + 1] = f
      /\ \A i \in 1..Len(Down) : Down'[i] = Down[i]
  <2>1. portDown \in Seq(Frames) /\ sockDown \in Seq(Frames)
    BY DEF IInv, Types
  <2>2. Down' = portDown \o Append(sockDown, f)
    BY DEF Down
  <2> QED
    BY <1>1, <2>1, <2>2, PutLast DEF Down
<1>6. \A i \in 1..Len(Down') : i \in 1..Len(Down) \/ i = Len(Down) + 1
  BY <1>4, <1>5
<1>7. Unbroken => client.at # "hello"
  <2>1. Unbroken /\ client.at = "hello" => Stage + Len(Up) = 2
    BY <1>3 DEF IInv, UpOK
  <2> QED
    BY <2>1, <1>3, Streams
<1>8. Types'
  BY <1>2, <1>4 DEF Types, IInv, GoodQueue
<1>9. Keyed'
  BY <1>2, <1>4 DEF Keyed, IInv, GoodQueue
<1>10. Phases'
  BY <1>1, <1>2, <1>3, <1>4 DEF Phases, relayed, In, IInv
<1>11. UpOK'
  BY <1>1, <1>2, <1>3, <1>4 DEF UpOK, IInv
<1>12. DownOK'
  <2>1. SUFFICES ASSUME Unbroken, client.at = "open" PROVE DownOK'
    BY <1>3, <1>7 DEF DownOK
  <2>2. /\ \A i \in 1..Len(Down) : Down[i].msg = "data" /\ Down[i].n = client.recv.n + i - 1
        /\ daemon.send.n = client.recv.n + Len(Down)
    BY <2>1 DEF IInv, DownOK
  <2>3. client.recv.n \in Nat
    BY DEF IInv, Types, Ciphers
  <2>4. daemon'.send.n = client.recv.n + Len(Down')
    <3>1. daemon'.send.n = client.recv.n + Len(Down) + 1
      BY <2>2, <1>2
    <3>2. Len(Down') = Len(Down) + 1 /\ Len(Down) \in Nat
      BY <1>4, <1>5
    <3>3. client.recv.n + Len(Down') = client.recv.n + Len(Down) + 1
      BY <2>3, <3>2
    <3> QED
      BY <3>1, <3>3
  <2>5. f.n = client.recv.n + (Len(Down) + 1) - 1
    BY <2>2, <2>3, <1>1, <1>4
  <2>6. ASSUME NEW i \in 1..Len(Down')
        PROVE  Down'[i].msg = "data" /\ Down'[i].n = client.recv.n + i - 1
    BY <2>2, <2>5, <1>1, <1>5, <1>6
  <2> QED
    BY <2>1, <2>4, <2>6, <1>2 DEF DownOK
<1>13. AwaitedOK'
  <2>1. SUFFICES ASSUME Unbroken, client.at = "open" PROVE AwaitedOK'
    BY <1>3 DEF AwaitedOK
  <2>2. /\ call[daemon.id] = "sent" /\ \A j \in 1..Len(Down) : daemon.id # Down[j].id
        /\ \A i \in 1..Len(Down) : call[Down[i].id] = "sent"
        /\ \A i, j \in 1..Len(Down) : Down[i].id = Down[j].id => i = j
    BY <2>1 DEF IInv, AwaitedOK
  <2>3. ASSUME NEW i \in 1..Len(Up), Up[i].msg = "data"
        PROVE  /\ call[Up[i].id] = "sent"
               /\ \A j \in 1..Len(Up) : Up[j].msg = "data" /\ Up[i].id = Up[j].id => i = j
               /\ \A j \in 1..Len(Down) : Up[i].id # Down[j].id
               /\ Up[i].id # daemon.id
    BY <2>1, <2>3 DEF IInv, AwaitedOK
  <2>4. \A i \in 1..Len(Down') : call[Down'[i].id] = "sent"
    BY <2>2, <1>1, <1>5, <1>6
  <2>5. \A i, j \in 1..Len(Down') : Down'[i].id = Down'[j].id => i = j
    BY <2>2, <1>1, <1>5, <1>6
  <2>6. ASSUME NEW i \in 1..Len(Up), Up[i].msg = "data", NEW j \in 1..Len(Down')
        PROVE  Up[i].id # Down'[j].id
    BY <2>3, <2>6, <1>1, <1>5, <1>6
  <2> QED
    BY <2>3, <2>4, <2>5, <2>6, <1>2, <1>3 DEF AwaitedOK
<1> QED
  BY <1>8, <1>9, <1>10, <1>11, <1>12, <1>13 DEF IInv

\* The daemon answers, or gives the connection up over the answer.
LEMMA DaemonSendStep == IInv /\ (\E size \in {"fits", "big"} : DaemonSend(size)) => IInv'
<1> SUFFICES ASSUME IInv, (\E size \in {"fits", "big"} : DaemonSend(size)) PROVE IInv'
  OBVIOUS
<1>1. /\ daemon.at = "handle"
      /\ UNCHANGED <<kind, pinned, listening, call, client, relay, portUp, portDown, sockUp, skipped>>
  BY DEF DaemonSend
<1>2. \/ /\ sockDown' = Append(sockDown, Sealed(daemon.send, daemon.id, "fits"))
         /\ daemon' = [daemon EXCEPT !.at = "recv", !.send = Advance(@)]
      \/ daemon' = NoDaemon /\ sockDown' = sockDown
  BY DEF DaemonSend, ShutConn, SendNext
<1>3. listening' \in BOOLEAN /\ GoodQueue(sockUp')
  BY <1>1, Queues DEF IInv, Types
<1>4. ASSUME sockDown' = Append(sockDown, Sealed(daemon.send, daemon.id, "fits")),
             daemon' = [daemon EXCEPT !.at = "recv", !.send = Advance(@)]
      PROVE  IInv'
  <2>1. Advance(daemon.send) \in Ciphers
    BY AdvanceRegular DEF IInv, Types, Keyed
  <2> DEFINE f == Sealed(daemon.send, daemon.id, "fits")
  <2>3. /\ f \in Frames /\ f.msg = "data" /\ f.n = daemon.send.n /\ f.id = daemon.id
        /\ Regular(f)
    <3>1. daemon.send \in Ciphers /\ Regular(daemon.send) /\ daemon.id \in Requests
      BY <1>1 DEF IInv, Types, Keyed, Phases
    <3> QED
      BY <3>1, SealedFrame DEF Sizes
  <2>2. /\ daemon' \in [at : {"closed", "hello", "msg1", "msg3", "recv", "handle"},
                        send : Ciphers, recv : Ciphers, id : Requests \cup {0}]
        /\ daemon'.at = "recv" /\ daemon'.recv = daemon.recv /\ daemon'.send = Advance(daemon.send)
    BY <1>4, <2>1 DEF IInv, Types
  <2>4. sockDown' = Append(sockDown, f)
    BY <1>4
  <2> HIDE DEF f
  <2> QED
    BY <1>1, <2>2, <2>3, <2>4, RepliedStep
<1> QED
  BY <1>1, <1>2, <1>3, <1>4, ShutStep

-------------------------------------------------------------------------------
(* The invariant.                                                          *)

\* No connection yet: the cipher states are new and the queues empty.
LEMMA InitIInv == Init => IInv
<1> SUFFICES ASSUME Init PROVE IInv
  OBVIOUS
<1>1. /\ client.at = "off" /\ daemon.at = "closed" /\ relay.reader = "off"
      /\ client.send = NewCipher /\ client.recv = NewCipher
      /\ daemon.send = NewCipher /\ daemon.recv = NewCipher
      /\ \A r \in Requests : call[r] = "new"
  BY DEF Init, NoConn, NoDaemon, NoRelay
<1>2. Types
  <2>1. /\ kind \in Kinds /\ pinned \in BOOLEAN /\ listening \in BOOLEAN /\ skipped \in BOOLEAN
        /\ call \in [Requests -> {"new", "queued", "sent", "answered", "failed"}]
    BY DEF Init
  <2>2. client \in [at : {"off", "hello", "open"}, send : Ciphers, recv : Ciphers]
    BY NewRegular DEF Init, NoConn
  <2>3. relay \in [reader : {"off", "first", "pump", "drain"}, writer : {"pump", "ended"}]
    BY DEF Init, NoRelay
  <2>4. daemon \in [at : {"closed", "hello", "msg1", "msg3", "recv", "handle"},
                    send : Ciphers, recv : Ciphers, id : Requests \cup {0}]
    BY NewRegular DEF Init, NoDaemon
  <2>5. << >> \in Seq(Frames)
    OBVIOUS
  <2>6. /\ portUp \in Seq(Frames) /\ sockUp \in Seq(Frames)
        /\ portDown \in Seq(Frames) /\ sockDown \in Seq(Frames)
    BY <2>5 DEF Init
  <2> QED
    BY <2>1, <2>2, <2>3, <2>4, <2>6 DEF Types
<1>3. Keyed
  BY <1>1, NewRegular DEF Init, Keyed
<1>4. Phases
  BY <1>1 DEF Init, Phases, In
<1>5. UpOK /\ DownOK /\ AwaitedOK
  BY <1>1 DEF UpOK, DownOK, AwaitedOK, Live
<1> QED
  BY <1>2, <1>3, <1>4, <1>5 DEF IInv

\* Every action keeps the invariant.
LEMMA NextIInv == IInv /\ [Next]_vars => IInv'
<1> SUFFICES ASSUME IInv, [Next]_vars PROVE IInv'
  OBVIOUS
<1>1. CASE UNCHANGED vars
  <2>1. /\ UNCHANGED <<kind, pinned, client, relay, daemon, portUp, portDown, sockUp, sockDown,
                       skipped, listening, call>>
    BY <1>1 DEF vars
  <2>2. /\ listening' \in BOOLEAN /\ (~listening' => daemon.at = "closed")
        /\ call' \in [Requests -> {"new", "queued", "sent", "answered", "failed"}]
        /\ \A r \in Requests : call'[r] = "sent" <=> call[r] = "sent"
    BY <2>1 DEF IInv, Types, Phases
  <2> QED
    BY <2>1, <2>2, QuietStep
<1>2. CASE \E r \in Requests : Ask(r)
  BY <1>2, AskStep
<1>3. CASE ClientStep
  BY <1>3, ConnectStep, ReadMsg2Step, ReadErrorStep, ReceiveStep, HangupTimeoutQuitStep, SendStep
     DEF ClientStep
<1>4. CASE RelayStep
  BY <1>4, RelayHelloStep, RelayUpStep, RelayDownStep, RelayEndCrashStep DEF RelayStep
<1>5. CASE DaemonStep
  BY <1>5, DaemonHandshakeStep, DaemonRecvStep, DaemonLeavesStep, DaemonSendStep DEF DaemonStep
<1>6. CASE Timeout \/ Quit \/ RelayCrash
  BY <1>6, HangupTimeoutQuitStep, RelayEndCrashStep
<1>7. CASE DaemonDown \/ DaemonUp \/ \E status \in {"revoked", "gone"} : RowLost(status)
  BY <1>7, DaemonLeavesStep, DaemonUpRowLostStep
<1> QED
  BY <1>1, <1>2, <1>3, <1>4, <1>5, <1>6, <1>7 DEF Next

\* Along every behaviour of a channel the ciphers are regular and what is
\* under way continues, in either direction, where the receiver is.
THEOREM Invariance == Spec => []IInv
<1> QED
  BY InitIInv, NextIInv, PTL DEF Spec

\* Two ciphers with the same number are the same.
LEMMA SameCipher ==
  ASSUME NEW c \in Ciphers, NEW d \in Ciphers, Regular(c), Regular(d), c.n = d.n
  PROVE  c = d
BY DEF Ciphers, Regular

\* The first of the frames to the daemon is the one it expects.
LEMMA FirstOpens ==
  ASSUME IInv, daemon.at \in {"recv", "handle"}, ~skipped, Up # << >>
  PROVE  Opens(daemon.recv, Up[1])
<1>1. Live /\ Stage = 3 /\ 1 \in 1..Len(Up) /\ Up[1] \in Frames
  <2>1. Up \in Seq(Frames) /\ Len(Up) \in Nat
    BY Streams
  <2>2. Len(Up) # 0
    BY <2>1
  <2> QED
    BY <2>1, <2>2 DEF Live, Stage
<1>2. daemon.recv \in Ciphers /\ daemon.recv.n \in Nat /\ Regular(daemon.recv)
  BY DEF IInv, Types, Keyed, Ciphers
<1>3. Up[1].msg = Expected(3 + 1) /\ (Up[1].msg = "data" => Up[1].n = daemon.recv.n + 3 + 1 - 4)
  BY <1>1 DEF IInv, UpOK
<1>4. Up[1].msg = "data" /\ Up[1].n = daemon.recv.n
  BY <1>2, <1>3 DEF Expected
<1>5. Regular(Up[1])
  <2>1. GoodQueue(portUp) /\ GoodQueue(sockUp)
    BY Queues
  <2>2. /\ portUp \in Seq(Frames) /\ sockUp \in Seq(Frames)
        /\ \A i \in 1..Len(sockUp) : sockUp[i].msg = "data" => Regular(sockUp[i])
        /\ \A i \in 1..Len(portUp) : portUp[i].msg = "data" => Regular(portUp[i])
    BY <2>1 DEF GoodQueue
  <2>3. CASE sockUp # << >>
    <3>1. 1 \in 1..Len(sockUp) /\ Up[1] = sockUp[1]
      BY <2>2, <2>3 DEF Up
    <3> QED
      BY <3>1, <2>2, <1>4
  <2>4. CASE sockUp = << >>
    <3>1. Up = portUp
      BY <2>2, <2>4 DEF Up
    <3> QED
      BY <3>1, <2>2, <1>1, <1>4
  <2> QED
    BY <2>3, <2>4
<1> QED
  BY <1>1, <1>2, <1>4, <1>5, NumberOpens

\* The first of the frames to a client with an open connection is the one it expects.
LEMMA FirstAnswerOpens ==
  ASSUME IInv, client.at = "open", Unbroken, Down # << >>
  PROVE  Opens(client.recv, Down[1])
<1>1. 1 \in 1..Len(Down) /\ Down[1] \in Frames
  <2>1. Down \in Seq(Frames) /\ Len(Down) \in Nat
    BY Streams
  <2>2. Len(Down) # 0
    BY <2>1
  <2> QED
    BY <2>1, <2>2
<1>2. client.recv \in Ciphers /\ client.recv.n \in Nat /\ Regular(client.recv)
  BY DEF IInv, Types, Keyed, Ciphers
<1>3. Down[1].msg = "data" /\ Down[1].n = client.recv.n + 1 - 1
  BY <1>1 DEF IInv, DownOK
<1>4. Down[1].n = client.recv.n
  BY <1>2, <1>3
<1>5. Regular(Down[1])
  <2>1. GoodQueue(portDown) /\ GoodQueue(sockDown)
    BY Queues
  <2>2. /\ portDown \in Seq(Frames) /\ sockDown \in Seq(Frames)
        /\ \A i \in 1..Len(sockDown) : sockDown[i].msg = "data" => Regular(sockDown[i])
        /\ \A i \in 1..Len(portDown) : portDown[i].msg = "data" => Regular(portDown[i])
    BY <2>1 DEF GoodQueue
  <2>3. CASE portDown # << >>
    <3>1. 1 \in 1..Len(portDown) /\ Down[1] = portDown[1]
      BY <2>2, <2>3 DEF Down
    <3> QED
      BY <3>1, <2>2, <1>3
  <2>4. CASE portDown = << >>
    <3>1. Down = sockDown
      BY <2>2, <2>4 DEF Down
    <3> QED
      BY <3>1, <2>2, <1>1, <1>3
  <2> QED
    BY <2>3, <2>4
<1> QED
  BY <1>1, <1>2, <1>3, <1>4, <1>5, NumberOpens

\* The sender is as far ahead of the daemon as there are frames under way.
LEMMA AsFarAhead ==
  ASSUME IInv, client.at = "open", Unbroken, daemon.at \in {"recv", "handle"}, ~skipped
  PROVE  /\ client.send.n = daemon.recv.n + Len(Up)
         /\ client.send.k >= daemon.recv.k
         /\ Up = << >> => client.send = daemon.recv
<1>1. /\ client.send \in Ciphers /\ Regular(client.send)
      /\ daemon.recv \in Ciphers /\ Regular(daemon.recv)
      /\ client.send.n \in Nat /\ daemon.recv.n \in Nat /\ Len(Up) \in Nat
  BY Streams DEF IInv, Types, Keyed, Ciphers
<1>2. Live /\ Stage = 3
  BY DEF Live, Stage
<1>3. client.send.n = daemon.recv.n + 3 + Len(Up) - 3
  BY <1>2 DEF IInv, UpOK
<1>4. client.send.n = daemon.recv.n + Len(Up)
  BY <1>1, <1>3
<1>5. client.send.k >= daemon.recv.k
  <2>1. daemon.recv.n <= client.send.n
    BY <1>1, <1>4
  <2>2. RekeyInterval \in Nat /\ RekeyInterval # 0
    BY ChannelAssumption
  <2>3. daemon.recv.n \div RekeyInterval <= client.send.n \div RekeyInterval
    BY <1>1, <2>1, <2>2, DivMonotonic
  <2>4. client.send.k \in Nat /\ daemon.recv.k \in Nat
    BY <1>1 DEF Ciphers
  <2> QED
    BY <1>1, <2>3, <2>4 DEF Regular
<1>6. ASSUME Up = << >> PROVE client.send = daemon.recv
  <2>1. client.send.n = daemon.recv.n
    BY <1>1, <1>4, <1>6
  <2> QED
    BY <1>1, <2>1, SameCipher
<1> QED
  BY <1>4, <1>5, <1>6

\* Whatever requests are made, however often the ciphers are rekeyed, and
\* wherever the client, the relay or the daemon stops: the frames under way
\* to a daemon that has finished the handshake are the ones its cipher
\* expects next, in that order and under that key, a client is ahead of it by
\* exactly the frames under way, and every answer under way opens for a
\* caller that still waits.  Only a frame that Send encrypted and did not
\* write breaks this.
THEOREM InStepHolds == Spec => []InStep
<1>1. IInv => InStep
  <2> SUFFICES ASSUME IInv PROVE InStep
    OBVIOUS
  <2>1. /\ sockUp \in Seq(Frames) /\ Up \in Seq(Frames) /\ Down \in Seq(Frames)
        /\ portUp \in Seq(Frames)
    BY Streams DEF IInv, Types
  <2>2. Down = DownFrames /\ (Unbroken => Up = UpFrames)
    BY DEF Up, Down, UpFrames, DownFrames
  <2>3. /\ Up # << >> => Head(Up) = Up[1]
        /\ Down # << >> => Head(Down) = Down[1]
    BY <2>1
  <2>4. ASSUME client.at = "open", Unbroken
        PROVE  /\ daemon.at \in {"recv", "handle"} /\ ~skipped =>
                    /\ client.send.n = daemon.recv.n + Len(UpFrames)
                    /\ client.send.k >= daemon.recv.k
                    /\ UpFrames # << >> => Opens(daemon.recv, Head(UpFrames))
                    /\ UpFrames = << >> => client.send = daemon.recv
               /\ DownFrames # << >> => Opens(client.recv, Head(DownFrames))
               /\ \A i \in 1..Len(DownFrames) : call[DownFrames[i].id] = "sent"
    <3>1. \A i \in 1..Len(Down) : call[Down[i].id] = "sent"
      BY <2>4 DEF IInv, AwaitedOK
    <3> QED
      BY <2>2, <2>3, <2>4, <3>1, FirstOpens, FirstAnswerOpens, AsFarAhead
  <2>5. ASSUME daemon.at = "recv", sockUp # << >>, ~skipped
        PROVE  Opens(daemon.recv, Head(sockUp))
    <3>1. Up # << >> /\ Up[1] = Head(sockUp)
      BY <2>1, <2>5 DEF Up
    <3> QED
      BY <2>5, <3>1, FirstOpens
  <2> QED
    BY <2>4, <2>5 DEF InStep
<1> QED
  BY <1>1, Invariance, PTL
===============================================================================
