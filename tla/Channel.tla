------------------------------ MODULE Channel ------------------------------
(***************************************************************************)
(* One client's encrypted channel to vaultd.  The command line tool and    *)
(* the desktop application dial the socket themselves; the extension goes  *)
(* through vault-native, the relay that pumps opaque frames between the    *)
(* browser's native messaging port and the socket.  The model keeps the    *)
(* order of the handshake, the position of each cipher, every queue a      *)
(* frame can be in, and what each process does when a peer goes away.      *)
(*                                                                         *)
(* A connection that its client has left has no further effect on it, so   *)
(* only the current one is kept.                                           *)
(***************************************************************************)
EXTENDS Integers, Sequences, FiniteSets, FiniteSetsExt

CONSTANTS
  Requests,       \* the requests, numbered as Client.counter numbers them
  RekeyInterval,  \* messages between two rekeys of one direction
  MaxFaults       \* bound on stops, crashes, revocations and quits

ASSUME ChannelAssumption ==
  /\ Requests = 1..Cardinality(Requests)
  /\ RekeyInterval \in Nat \ {0}
  /\ MaxFaults \in Nat

VARIABLES
  kind,       \* who the client is, and with it the mode of its hello
  pinned,     \* the daemon still has the static key the extension pinned
  row,        \* the paired client's row in the daemon's database
  listening,  \* the daemon runs
  faults,
  call,       \* what has become of every request
  client,     \* the client's end
  relay,      \* vault-native's two loops
  daemon,     \* the goroutine of handleConn
  portUp, portDown,  \* native messages: extension to relay and back
  sockUp, sockDown,  \* frames on the socket: to the daemon and from it
  skipped     \* the client encrypted a frame it could not write

vars == <<kind, pinned, row, listening, faults, call, client, relay, daemon,
          portUp, portDown, sockUp, sockDown, skipped>>

Kinds == {"cli", "desktop", "paired", "pair"}

relayed == kind \in {"paired", "pair"}

\* A frame above MaxFrameSize is "big"; one whose native message is above
\* MaxNativeMessage too is "huge".
Sizes == {"fits", "big", "huge"}

-----------------------------------------------------------------------------
\* A cipher state: messages so far, and how often it was rekeyed.
NewCipher == [n |-> 0, k |-> 0]

Advance(c) ==
  LET n == c.n + 1
  IN  [n |-> n, k |-> IF n % RekeyInterval = 0 THEN c.k + 1 ELSE c.k]

\* A cipher of the other end that is rekeyed one message late.
AdvanceLate(c) ==
  [n |-> c.n + 1, k |-> IF c.n > 0 /\ c.n % RekeyInterval = 0 THEN c.k + 1 ELSE c.k]

SendNext(c) == Advance(c)

RecvNext(c) == Advance(c)

Handshake(m) == [msg |-> m]

Sealed(cipher, r, size) ==
  [msg |-> "data", n |-> cipher.n, k |-> cipher.k, id |-> r, size |-> size]

Opens(cipher, frame) ==
  /\ frame.msg = "data"
  /\ frame.n = cipher.n
  /\ frame.k = cipher.k

NoConn == [at |-> "off", send |-> NewCipher, recv |-> NewCipher]

NoDaemon == [at |-> "closed", send |-> NewCipher, recv |-> NewCipher, id |-> 0]

NoRelay == [reader |-> "off", writer |-> "ended"]

Init ==
  /\ kind \in Kinds
  /\ pinned \in (IF kind = "paired" THEN BOOLEAN ELSE {TRUE})
  /\ row = "approved"
  /\ listening \in BOOLEAN
  /\ faults = 0
  /\ call = [r \in Requests |-> "new"]
  /\ client = NoConn
  /\ relay = NoRelay
  /\ daemon = NoDaemon
  /\ portUp = << >> /\ portDown = << >>
  /\ sockUp = << >> /\ sockDown = << >>
  /\ skipped = FALSE

In(state) == {r \in Requests : call[r] = state}

\* The requests a connection attempt is made for: the extension's share the
\* promise "connecting", the desktop's wait for their turn in the chain.
Connecting ==
  IF relayed \/ In("queued") = {} THEN In("queued") ELSE {Min(In("queued"))}

Awaiting == IF client.at = "hello" THEN Connecting ELSE In("sent")

Fail(S) == [r \in Requests |-> IF r \in S THEN "failed" ELSE call[r]]

\* The daemon's peer has closed its end of the socket.
PeerGone == IF relayed THEN relay.reader = "off" ELSE client.at = "off"

-----------------------------------------------------------------------------
(* The client. *)

\* A request is made.  The tool makes one at a time and exits at the first
\* that fails.
Ask(r) ==
  /\ call[r] = "new"
  /\ \A q \in Requests : q < r => call[q] # "new"
  /\ kind = "cli" => \A q \in Requests : q < r => call[q] = "answered"
  /\ call' = [call EXCEPT ![r] = "queued"]
  /\ UNCHANGED <<kind, pinned, row, listening, faults, client, relay, daemon,
                 portUp, portDown, sockUp, sockDown, skipped>>

\* dial, connect and connectPaired up to the wait for message 2.
Connect ==
  /\ client.at = "off"
  /\ In("queued") # {}
  /\ LET opening == <<Handshake("hello"), Handshake("msg1")>>
     IN  IF relayed
         THEN /\ client' = [NoConn EXCEPT !.at = "hello"]
              /\ relay' = [reader |-> "first", writer |-> "ended"]
              /\ portUp' = opening
              /\ daemon' = NoDaemon
              /\ sockUp' = << >>
              /\ UNCHANGED call
         ELSE IF listening
              THEN /\ client' = [NoConn EXCEPT !.at = "hello"]
                   /\ daemon' = [NoDaemon EXCEPT !.at = "hello"]
                   /\ sockUp' = opening
                   /\ UNCHANGED <<call, relay, portUp>>
              ELSE /\ call' = Fail(Connecting)
                   /\ UNCHANGED <<client, daemon, relay, sockUp, portUp>>
  /\ portDown' = << >> /\ sockDown' = << >>
  /\ skipped' = FALSE
  /\ UNCHANGED <<kind, pinned, row, listening, faults>>

Inbound == IF relayed THEN portDown ELSE sockDown

Took == IF relayed THEN portDown' = Tail(portDown) /\ UNCHANGED sockDown
                   ELSE sockDown' = Tail(sockDown) /\ UNCHANGED portDown

Post(frame) == IF relayed THEN portUp' = Append(portUp, frame) /\ UNCHANGED sockUp
                          ELSE sockUp' = Append(sockUp, frame) /\ UNCHANGED portUp

\* The client gives its connection up and forgets the waiter.
TeardownQuiet ==
  /\ client' = NoConn
  /\ call' = Fail(IF client.at = "hello" THEN Connecting ELSE {})

\* The client gives its connection up and everything that waits on it fails.
\* The desktop's queued requests will connect again.
Teardown ==
  /\ client' = NoConn
  /\ call' = Fail(Awaiting)

\* Message 2 arrives: the pin is checked before message 3 is written.
ReadMsg2 ==
  /\ client.at = "hello"
  /\ Inbound # << >> /\ Head(Inbound).msg = "msg2"
  /\ IF pinned
     THEN /\ client' = [client EXCEPT !.at = "open"]
          /\ Post(Handshake("msg3"))
          /\ Took
          /\ UNCHANGED call
     ELSE /\ Teardown
          /\ Took
          /\ UNCHANGED <<portUp, sockUp>>
  /\ UNCHANGED <<kind, pinned, row, listening, faults, relay, daemon, skipped>>

\* The relay's error message: the extension's queue of frames fails.
ReadError ==
  /\ client.at = "hello"
  /\ Inbound # << >> /\ Head(Inbound).msg = "error"
  /\ Teardown
  /\ Took
  /\ UNCHANGED <<kind, pinned, row, listening, faults, relay, daemon, portUp, sockUp,
                 skipped>>

\* Call, doCall and VaultTransport.call up to the wait for the answer.  The
\* cipher has advanced by the time the frame turns out to be too large, or
\* the socket to be closed: the tool exits, the desktop goes on with the
\* connection it has, the extension leaves the size to the relay.
Send(r, size) ==
  /\ client.at = "open"
  /\ call[r] = "queued"
  /\ ~relayed => In("sent") = {} /\ r = Min(In("queued"))
  /\ LET frame == Sealed(client.send, r, size)
         unwritten == ~relayed /\ size # "fits"
         closed == kind = "cli" /\ daemon.at = "closed"
     IN  IF unwritten \/ closed
         THEN /\ call' = Fail({r})
              /\ client' = IF kind = "cli" THEN NoConn
                           ELSE [client EXCEPT !.send = SendNext(@)]
              /\ skipped' = TRUE
              /\ UNCHANGED <<portUp, sockUp>>
         ELSE /\ call' = [call EXCEPT ![r] = "sent"]
              /\ client' = [client EXCEPT !.send = SendNext(@)]
              /\ Post(frame)
              /\ UNCHANGED skipped
  /\ UNCHANGED <<kind, pinned, row, listening, faults, relay, daemon, portDown, sockDown>>

\* An answer arrives.  The extension looks its request up by number, the
\* desktop compares the number, the tool takes the frame for its answer.
Receive ==
  /\ client.at = "open"
  /\ Inbound # << >>
  /\ LET frame == Head(Inbound)
         known == call[frame.id] = "sent"
         taker == IF kind = "cli" THEN In("sent") ELSE {frame.id} \cap In("sent")
     IN  IF Opens(client.recv, frame) /\ (kind = "desktop" => known)
         THEN /\ call' = [r \in Requests |-> IF r \in taker THEN "answered" ELSE call[r]]
              /\ client' = [client EXCEPT !.recv = RecvNext(@)]
         ELSE Teardown
  /\ Took
  /\ UNCHANGED <<kind, pinned, row, listening, faults, relay, daemon, portUp, sockUp,
                 skipped>>

\* End of the stream, the socket's close event, or the port's onDisconnect.
Hangup ==
  /\ client.at # "off"
  /\ Inbound = << >>
  /\ IF relayed THEN relay.reader = "off" ELSE daemon.at = "closed"
  /\ kind = "cli" => Awaiting # {}
  /\ Teardown
  /\ UNCHANGED <<kind, pinned, row, listening, faults, relay, daemon, portUp, portDown,
                 sockUp, sockDown, skipped>>

\* The desktop's timer: the connection is dropped with the request.
Timeout ==
  /\ kind = "desktop"
  /\ client.at # "off"
  /\ Awaiting # {}
  /\ Teardown
  /\ UNCHANGED <<kind, pinned, row, listening, faults, relay, daemon, portUp, portDown,
                 sockUp, sockDown, skipped>>

\* The process ends: a signal, the window closed, the worker reaped.
Quit ==
  /\ faults < MaxFaults
  /\ client.at # "off"
  /\ client' = NoConn
  /\ call' = Fail(In("queued") \cup In("sent"))
  /\ faults' = faults + 1
  /\ UNCHANGED <<kind, pinned, row, listening, relay, daemon, portUp, portDown,
                 sockUp, sockDown, skipped>>

-----------------------------------------------------------------------------
(* The relay. *)

\* The first message: the relay dials for it and writes the hello.
RelayHello ==
  /\ relay.reader = "first"
  /\ portUp # << >>
  /\ IF listening
     THEN /\ relay' = [reader |-> "pump", writer |-> "pump"]
          /\ daemon' = [NoDaemon EXCEPT !.at = "hello"]
          /\ sockUp' = <<Head(portUp)>>
          /\ UNCHANGED portDown
     ELSE /\ portDown' = Append(portDown, Handshake("error"))
          /\ relay' = NoRelay
          /\ UNCHANGED <<daemon, sockUp>>
  /\ portUp' = Tail(portUp)
  /\ UNCHANGED <<kind, pinned, row, listening, faults, call, client, sockDown, skipped>>

\* Extension to daemon.  A message that cannot be read ends the relay; a
\* frame that cannot be written makes it wait for the other loop, with the
\* socket still open.
RelayUp ==
  /\ relay.reader = "pump"
  /\ portUp # << >>
  /\ LET frame == Head(portUp)
         size == IF frame.msg = "data" THEN frame.size ELSE "fits"
     IN  \/ /\ size = "huge"
            /\ relay' = NoRelay
            /\ UNCHANGED sockUp
         \/ /\ size # "huge"
            /\ size = "big" \/ daemon.at = "closed"
            /\ relay' = [relay EXCEPT !.reader = "drain"]
            /\ UNCHANGED sockUp
         \/ /\ size = "fits" /\ daemon.at # "closed"
            /\ sockUp' = Append(sockUp, frame)
            /\ UNCHANGED relay
  /\ portUp' = Tail(portUp)
  /\ UNCHANGED <<kind, pinned, row, listening, faults, call, client, daemon, portDown,
                 sockDown, skipped>>

\* Daemon to extension.
RelayDown ==
  /\ relay.writer = "pump"
  /\ \/ /\ sockDown # << >>
        /\ portDown' = Append(portDown, Head(sockDown))
        /\ sockDown' = Tail(sockDown)
        /\ UNCHANGED relay
     \/ /\ sockDown = << >>
        /\ daemon.at = "closed"
        /\ relay' = [relay EXCEPT !.writer = "ended"]
        /\ UNCHANGED <<portDown, sockDown>>
  /\ UNCHANGED <<kind, pinned, row, listening, faults, call, client, daemon, portUp,
                 sockUp, skipped>>

\* The extension's end is gone, or the wait for the other loop is over.
RelayEnd ==
  /\ \/ relay.reader # "off" /\ client.at = "off"
     \/ relay.reader = "drain" /\ relay.writer = "ended"
  /\ relay' = NoRelay
  /\ UNCHANGED <<kind, pinned, row, listening, faults, call, client, daemon, portUp,
                 portDown, sockUp, sockDown, skipped>>

\* The relay's process is killed.
RelayCrash ==
  /\ faults < MaxFaults
  /\ relay.reader # "off"
  /\ relay' = NoRelay
  /\ faults' = faults + 1
  /\ UNCHANGED <<kind, pinned, row, listening, call, client, daemon, portUp, portDown,
                 sockUp, sockDown, skipped>>

-----------------------------------------------------------------------------
(* The daemon. *)

ShutConn == daemon' = NoDaemon

\* ServerHandshake and buildConnState, one frame at a time.
DaemonHandshake ==
  /\ daemon.at \in {"hello", "msg1", "msg3"}
  /\ sockUp # << >> /\ Head(sockUp).msg = daemon.at
  /\ sockUp' = Tail(sockUp)
  /\ \/ /\ daemon.at = "hello"
        /\ IF kind = "paired" /\ row # "approved" THEN ShutConn
           ELSE daemon' = [daemon EXCEPT !.at = "msg1"]
        /\ UNCHANGED sockDown
     \/ /\ daemon.at = "msg1"
        /\ IF PeerGone THEN ShutConn /\ UNCHANGED sockDown
           ELSE /\ daemon' = [daemon EXCEPT !.at = "msg3"]
                /\ sockDown' = Append(sockDown, Handshake("msg2"))
     \/ /\ daemon.at = "msg3"
        /\ IF kind = "paired" /\ row = "gone" THEN ShutConn
           ELSE daemon' = [daemon EXCEPT !.at = "recv"]
        /\ UNCHANGED sockDown
  /\ UNCHANGED <<kind, pinned, row, listening, faults, call, client, relay, portUp,
                 portDown, skipped>>

\* Recv: a frame that does not open is recorded and ends the connection.
DaemonRecv ==
  /\ daemon.at = "recv"
  /\ sockUp # << >>
  /\ LET frame == Head(sockUp)
     IN  IF Opens(daemon.recv, frame)
         THEN daemon' = [daemon EXCEPT !.at = "handle", !.id = frame.id,
                                       !.recv = RecvNext(@)]
         ELSE ShutConn
  /\ sockUp' = Tail(sockUp)
  /\ UNCHANGED <<kind, pinned, row, listening, faults, call, client, relay, portUp,
                 portDown, sockDown, skipped>>

\* The request is handled and its answer sent; an answer that cannot be
\* written ends the connection.
DaemonSend(size) ==
  /\ daemon.at = "handle"
  /\ IF size = "fits" /\ ~PeerGone
     THEN /\ sockDown' = Append(sockDown, Sealed(daemon.send, daemon.id, size))
          /\ daemon' = [daemon EXCEPT !.at = "recv", !.send = SendNext(@)]
     ELSE ShutConn /\ UNCHANGED sockDown
  /\ UNCHANGED <<kind, pinned, row, listening, faults, call, client, relay, portUp,
                 portDown, sockUp, skipped>>

DaemonEOF ==
  /\ daemon.at \in {"hello", "msg1", "msg3", "recv"}
  /\ sockUp = << >>
  /\ PeerGone
  /\ ShutConn
  /\ UNCHANGED <<kind, pinned, row, listening, faults, call, client, relay, portUp,
                 portDown, sockUp, sockDown, skipped>>

\* The daemon stops or crashes, and is started again.
DaemonDown ==
  /\ faults < MaxFaults
  /\ listening
  /\ listening' = FALSE
  /\ ShutConn
  /\ faults' = faults + 1
  /\ UNCHANGED <<kind, pinned, row, call, client, relay, portUp, portDown, sockUp,
                 sockDown, skipped>>

DaemonUp ==
  /\ ~listening
  /\ listening' = TRUE
  /\ UNCHANGED <<kind, pinned, row, faults, call, client, relay, daemon, portUp,
                 portDown, sockUp, sockDown, skipped>>

\* The client is revoked, or its row goes with the vault.
RowLost(status) ==
  /\ faults < MaxFaults
  /\ kind = "paired"
  /\ row = "approved"
  /\ row' = status
  /\ faults' = faults + 1
  /\ UNCHANGED <<kind, pinned, listening, call, client, relay, daemon, portUp, portDown,
                 sockUp, sockDown, skipped>>

-----------------------------------------------------------------------------
\* The extension waits on a relay that will not move: the daemon closed the
\* connection and the relay still waits for the extension's next message, or
\* a frame was too large for the socket and the relay waits for a daemon
\* that has no reason to close.
Stranded ==
  /\ relayed
  /\ client.at # "off"
  /\ \/ relay.reader = "pump" /\ relay.writer = "ended"
     \/ relay.reader = "drain" /\ relay.writer = "pump"

ClientStep ==
  \/ Connect \/ ReadMsg2 \/ ReadError \/ Receive \/ Hangup
  \/ \E r \in Requests, size \in Sizes : Send(r, size)

RelayStep == RelayHello \/ RelayUp \/ RelayDown \/ RelayEnd

DaemonStep ==
  \/ DaemonHandshake \/ DaemonRecv \/ DaemonEOF
  \/ \E size \in {"fits", "big"} : DaemonSend(size)

Next ==
  \/ \E r \in Requests : Ask(r)
  \/ ClientStep
  \/ RelayStep
  \/ DaemonStep
  \/ Timeout \/ Quit
  \/ RelayCrash \/ DaemonDown \/ DaemonUp
  \/ \E status \in {"revoked", "gone"} : RowLost(status)

Spec == Init /\ [][Next]_vars

\* The event loops, the relay's two loops and the connection's goroutine run
\* when they have something to do.  Nothing promises another request, a
\* fault or a restart of the daemon.  The relay's loops run independently.
FairSpec ==
  /\ Spec
  /\ WF_vars(ClientStep)
  /\ WF_vars(RelayHello \/ RelayUp \/ RelayEnd) /\ WF_vars(RelayDown)
  /\ WF_vars(DaemonStep)

-----------------------------------------------------------------------------
\* What is still under way in one direction, oldest first: only requests or
\* answers, once both ends are past the handshake.
UpFrames == sockUp \o portUp

DownFrames == portDown \o sockDown

\* A frame the relay refused, or lost with its process, never arrives.
Unbroken == relayed => relay.reader \in {"first", "pump"}

\* Whatever the interleaving of requests, answers, rekeys and timeouts, the
\* frames under way are the ones the receiving cipher expects next, in that
\* order and under that key, and a sender is as far ahead as there are
\* frames under way; every answer under way still has its caller waiting.
\* The exception is Send's: an oversized request has advanced the desktop's
\* cipher and was never written, so the next request does not open, and the
\* daemon takes it for a tampered frame.
InStep ==
  /\ client.at = "open" /\ Unbroken =>
       /\ daemon.at \in {"recv", "handle"} /\ ~skipped =>
            /\ client.send.n = daemon.recv.n + Len(UpFrames)
            /\ client.send.k >= daemon.recv.k
            /\ UpFrames # << >> => Opens(daemon.recv, Head(UpFrames))
            /\ UpFrames = << >> => client.send = daemon.recv
       /\ DownFrames # << >> => Opens(client.recv, Head(DownFrames))
       /\ \A i \in 1..Len(DownFrames) : call[DownFrames[i].id] = "sent"
  /\ daemon.at = "recv" /\ sockUp # << >> /\ ~skipped =>
       Opens(daemon.recv, Head(sockUp))

\* A request that was made ends, with an answer or an error, whoever closes,
\* crashes or restarts in between.  The exception is Stranded: the relay
\* does not tell the extension, whose calls and whose shared "connecting"
\* promise have no timeout.
CallsEnd ==
  \A r \in Requests :
    call[r] \in {"queued", "sent"} ~> (call[r] \in {"answered", "failed"} \/ Stranded)
=============================================================================
