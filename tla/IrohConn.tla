------------------------------ MODULE IrohConn ------------------------------
(***************************************************************************)
(* The connection of a node to one iroh relay server (irohrelay.go): the   *)
(* run loop that dials, authenticates, pings and shuts down, the read loop *)
(* started by every connection, and the signal between them.  A read loop  *)
(* looks up the socket before each frame, so one that outlives its         *)
(* connection goes on with the next.                                       *)
(*                                                                         *)
(* Sequence numbers of pings are abstracted to whether a ping is pending:  *)
(* no ping is sent while one is, so no pong with another number exists.    *)
(***************************************************************************)
EXTENDS Naturals

CONSTANTS MaxSockets,  \* slots for web sockets, reused once nobody refers to them
          MaxReaders,  \* slots for read loops, reused once they have exited
          PingTimeout, \* ticks without a frame until the connection counts as lost;
                       \* time.Since(lastRecv) > 3*relayPingInterval holds at the fourth
          MaxFaults    \* failures of a dial, a handshake or the network

ASSUME IrohConnAssumption ==
    /\ MaxSockets \in Nat \ {0} /\ MaxReaders \in Nat \ {0}
    /\ PingTimeout \in Nat \ {0} /\ MaxFaults \in Nat

Sockets == 1 .. MaxSockets
Readers == 1 .. MaxReaders

None == 0

\* The first slot of a set that is not empty.
Slot(S) == CHOOSE i \in S : \A j \in S : i <= j

VARIABLES
    rpc,       \* where the run loop is
    initial,   \* the connect in progress is the first one, outside the backoff loop
    state,     \* IrohRelayState
    ws,        \* the current socket, or None
    sock,      \* of each slot: "closed" by us, "up", "silent" or "dead"
    answer,    \* the server's part of the handshake is still to be read
    echo,      \* sockets on which the server owes a pong
    reconnectNow, \* the channel of capacity one
    reader,    \* of each read loop: where it is
    at,        \* of each read loop: the socket it reads
    tick,      \* the keep-alive ticker has fired
    quiet,     \* ticks since the last frame (lastRecv)
    pendingPing,
    stopped,   \* stopCh is closed
    faults

loopVars == <<rpc, initial, state>>
netVars  == <<sock, answer, echo>>
readVars == <<reader, at>>
timeVars == <<tick, quiet>>
vars == <<loopVars, ws, netVars, reconnectNow, readVars, timeVars, pendingPing, stopped, faults>>

Init ==
    /\ rpc = "connect" /\ initial = TRUE /\ state = "Disconnected"
    /\ ws = None
    /\ sock = [i \in Sockets |-> "closed"] /\ answer = FALSE /\ echo = {}
    /\ reconnectNow = FALSE
    /\ reader = [r \in Readers |-> "idle"] /\ at = [r \in Readers |-> None]
    /\ tick = FALSE /\ quiet = 0
    /\ pendingPing = FALSE
    /\ stopped = FALSE /\ faults = 0

Fault == faults < MaxFaults /\ faults' = faults + 1

-----------------------------------------------------------------------------
(* The run loop.                                                           *)

\* rc.ws.Close(), when there is a socket.
CloseSocket ==
    /\ sock' = [i \in Sockets |-> IF i = ws THEN "closed" ELSE sock[i]]
    /\ echo' = echo \ {ws}

shutdown == CloseSocket /\ ws' = None /\ state' = "Disconnected" /\ UNCHANGED answer

\* A new lifecycle: the signal left by the previous one is drained.  (lastRecv
\* is not read before the end of connect, which sets it.)
Connect ==
    /\ rpc = "connect"
    /\ rpc' = "dial" /\ state' = "Connecting" /\ reconnectNow' = FALSE
    /\ quiet' = 0
    /\ UNCHANGED <<initial, ws, netVars, readVars, tick, pendingPing, stopped, faults>>

\* A slot no variable and no read loop refers to.
FreeSockets ==
    {i \in Sockets : sock[i] = "closed" /\ i # ws /\ \A r \in Readers : at[r] # i}

\* The relay accepts the connection and completes TLS and the upgrade.
DialOk ==
    /\ rpc = "dial" /\ FreeSockets # {}
    /\ LET i == Slot(FreeSockets)
       IN  ws' = i /\ sock' = [sock EXCEPT ![i] = "up"]
    /\ answer' = TRUE
    /\ rpc' = "handshake" /\ state' = "Authenticating"
    /\ UNCHANGED <<initial, echo, reconnectNow, readVars, timeVars, pendingPing, stopped, faults>>

\* After a failed connect: the first one returns to the run loop, another one
\* backs off.
Retry == rpc' = IF initial THEN "loop" ELSE "backoff"

\* The backoff elapses, or stopCh ends it.
Backoff ==
    /\ rpc = "backoff"
    /\ \/ rpc' = "connect"
       \/ stopped /\ rpc' = "loop"
    /\ UNCHANGED <<initial, state, ws, netVars, reconnectNow, readVars, timeVars, pendingPing, stopped, faults>>

DialFails ==
    /\ rpc = "dial" /\ Fault
    /\ state' = "Disconnected" /\ Retry /\ initial' = FALSE
    /\ UNCHANGED <<ws, netVars, reconnectNow, readVars, timeVars, pendingPing, stopped>>

\* The relay accepts the connection and says no more: the Dialer has no
\* HandshakeTimeout, Dial no context, and nothing looks at stopCh meanwhile.
DialHangs ==
    /\ rpc = "dial" /\ Fault
    /\ rpc' = "hung"
    /\ UNCHANGED <<initial, state, ws, netVars, reconnectNow, readVars, timeVars, pendingPing, stopped>>

\* The relay goes on after all, or the connection breaks.  Neither has to happen.
HungEnds ==
    /\ rpc = "hung"
    /\ \/ rpc' = "dial" /\ UNCHANGED <<initial, state>>
       \/ state' = "Disconnected" /\ Retry /\ initial' = FALSE
    /\ UNCHANGED <<ws, netVars, reconnectNow, readVars, timeVars, pendingPing, stopped, faults>>

FreeReaders == {r \in Readers : reader[r] = "idle"}

\* Mutant: the state is not set to Alive.
HandshakeOkUnset ==
    /\ rpc = "handshake" /\ sock[ws] = "up" /\ answer /\ FreeReaders # {}
    /\ answer' = FALSE /\ reader' = [reader EXCEPT ![Slot(FreeReaders)] = "top"]
    /\ quiet' = 0 /\ rpc' = "loop" /\ initial' = FALSE
    /\ UNCHANGED <<state, ws, sock, echo, reconnectNow, at, tick, pendingPing, stopped, faults>>

\* The handshake is read from the socket; then a read loop starts and lastRecv is set.
HandshakeOk ==
    /\ rpc = "handshake" /\ sock[ws] = "up" /\ answer /\ FreeReaders # {}
    /\ answer' = FALSE /\ reader' = [reader EXCEPT ![Slot(FreeReaders)] = "top"]
    /\ quiet' = 0 /\ state' = "Alive" /\ rpc' = "loop" /\ initial' = FALSE
    /\ UNCHANGED <<ws, sock, echo, reconnectNow, at, tick, pendingPing, stopped, faults>>

\* A read error, or an answer other than a confirmation.
HandshakeError ==
    \/ sock[ws] = "dead" /\ UNCHANGED faults
    \/ sock[ws] = "up" /\ answer /\ Fault

\* Mutant: the socket of a failed handshake stays open.
HandshakeFailsOpen ==
    /\ rpc = "handshake"
    /\ HandshakeError
    /\ answer' = FALSE
    /\ state' = "Disconnected" /\ Retry /\ initial' = FALSE
    /\ UNCHANGED <<ws, sock, echo, reconnectNow, readVars, timeVars, pendingPing, stopped>>

\* The socket is closed and stays in rc.ws.
HandshakeFails ==
    /\ rpc = "handshake"
    /\ HandshakeError
    /\ CloseSocket /\ answer' = FALSE
    /\ state' = "Disconnected" /\ Retry /\ initial' = FALSE
    /\ UNCHANGED <<ws, reconnectNow, readVars, timeVars, pendingPing, stopped>>

\* Mutant: the head of the loop dials without a look at stopCh.
LoopUnchecked ==
    /\ rpc = "loop"
    /\ IF state = "Alive"
       THEN rpc' = "select" /\ UNCHANGED <<state, ws, netVars>>
       ELSE shutdown /\ rpc' = "connect"
    /\ UNCHANGED <<initial, reconnectNow, readVars, timeVars, pendingPing, stopped, faults>>

\* The head of the loop.
Loop ==
    /\ rpc = "loop"
    /\ IF state = "Alive"
       THEN rpc' = "select" /\ UNCHANGED <<state, ws, netVars>>
       ELSE shutdown /\ rpc' = IF stopped THEN "done" ELSE "connect"
    /\ UNCHANGED <<initial, reconnectNow, readVars, timeVars, pendingPing, stopped, faults>>

SelectStop ==
    /\ rpc = "select" /\ stopped
    /\ shutdown /\ rpc' = "done"
    /\ UNCHANGED <<initial, reconnectNow, readVars, timeVars, pendingPing, stopped, faults>>

SelectReconnect ==
    /\ rpc = "select" /\ reconnectNow
    /\ reconnectNow' = FALSE
    /\ shutdown /\ rpc' = "loop"
    /\ UNCHANGED <<initial, readVars, timeVars, pendingPing, stopped, faults>>

\* Mutant: pings, and no timeout.
TimedOutNever == FALSE

TimedOut == quiet >= PingTimeout

SelectTimeout ==
    /\ rpc = "select" /\ tick /\ TimedOut
    /\ tick' = FALSE
    /\ shutdown /\ rpc' = "loop"
    /\ UNCHANGED <<initial, reconnectNow, readVars, quiet, pendingPing, stopped, faults>>

\* No ping while one is outstanding.
SelectSkip ==
    /\ rpc = "select" /\ tick /\ ~TimedOut /\ pendingPing
    /\ tick' = FALSE /\ rpc' = "loop"
    /\ UNCHANGED <<initial, state, ws, netVars, reconnectNow, readVars, quiet, pendingPing, stopped, faults>>

\* A write to a dead socket may succeed or fail; one to a silent socket is lost.
SelectPing ==
    /\ rpc = "select" /\ tick /\ ~TimedOut /\ ~pendingPing
    /\ tick' = FALSE /\ pendingPing' = TRUE /\ rpc' = "loop"
    /\ \/ /\ echo' = echo \cup {i \in {ws} : sock[i] = "up"}
          /\ UNCHANGED <<state, ws, sock, answer>>
       \/ sock[ws] = "dead" /\ shutdown
    /\ UNCHANGED <<initial, reconnectNow, readVars, quiet, stopped, faults>>

-----------------------------------------------------------------------------
(* A read loop.                                                            *)

GoesTo(r, pc) == reader' = [reader EXCEPT ![r] = pc]

\* ReadMessage has returned: the socket is looked up again before the next frame.
Leaves(r, pc) == GoesTo(r, pc) /\ at' = [at EXCEPT ![r] = None]

ReadTop(r) ==
    /\ reader[r] = "top"
    /\ IF stopped \/ ws = None
       THEN GoesTo(r, "idle") /\ UNCHANGED at
       ELSE at' = [at EXCEPT ![r] = ws] /\ GoesTo(r, "read")
    /\ UNCHANGED <<loopVars, ws, netVars, reconnectNow, timeVars, pendingPing, stopped, faults>>

\* ReadMessage returns a frame of the server: a pong it owes, a ping, or
\* another frame.  During a handshake it may be the answer that belongs to it.
ReadFrame(r) ==
    /\ reader[r] = "read" /\ sock[at[r]] = "up"
    /\ quiet' = 0
    /\ \/ at[r] \in echo /\ echo' = echo \ {at[r]} /\ Leaves(r, "pong") /\ UNCHANGED answer
       \/ at[r] = ws /\ answer /\ answer' = FALSE /\ Leaves(r, "frame") /\ UNCHANGED echo
       \/ \E kind \in {"ping", "frame"} : Leaves(r, kind) /\ UNCHANGED <<echo, answer>>
    /\ UNCHANGED <<loopVars, ws, sock, reconnectNow, tick, pendingPing, stopped, faults>>

HandlePong(r) ==
    /\ reader[r] = "pong"
    /\ pendingPing' = FALSE /\ GoesTo(r, "top")
    /\ UNCHANGED <<loopVars, ws, netVars, reconnectNow, at, timeVars, stopped, faults>>

\* sendPong writes to the current socket; when it fails the loop exits unheard.
HandlePing(r) ==
    /\ reader[r] = "ping"
    /\ \/ (\E i \in Sockets : i = ws /\ sock[i] # "closed") /\ GoesTo(r, "top")
       \/ (\A i \in Sockets : i = ws => sock[i] \in {"closed", "dead"}) /\ GoesTo(r, "idle")
    /\ UNCHANGED <<loopVars, ws, netVars, reconnectNow, at, timeVars, pendingPing, stopped, faults>>

\* A datagram, an EndpointGone, a status: dispatched to the streams.
HandleFrame(r) ==
    /\ reader[r] = "frame" /\ GoesTo(r, "top")
    /\ UNCHANGED <<loopVars, ws, netVars, reconnectNow, at, timeVars, pendingPing, stopped, faults>>

ReadFails(r) ==
    /\ reader[r] = "read" /\ sock[at[r]] \in {"dead", "closed"}
    /\ Leaves(r, "failed")
    /\ UNCHANGED <<loopVars, ws, netVars, reconnectNow, timeVars, pendingPing, stopped, faults>>

\* The signal is not sent to a stopped run loop, and lost when one is waiting.
ReadSignals(r) ==
    /\ reader[r] = "failed" /\ GoesTo(r, "idle")
    /\ reconnectNow' = (reconnectNow \/ ~stopped)
    /\ UNCHANGED <<loopVars, ws, netVars, at, timeVars, pendingPing, stopped, faults>>

-----------------------------------------------------------------------------
(* Time, the network and the caller.                                       *)

Clock ==
    /\ rpc # "done" /\ (tick => state = "Alive" /\ quiet < PingTimeout)
    /\ tick' = TRUE
    /\ quiet' = IF state = "Alive" /\ quiet < PingTimeout THEN quiet + 1 ELSE quiet
    /\ UNCHANGED <<loopVars, ws, netVars, reconnectNow, readVars, pendingPing, stopped, faults>>

\* The connection breaks, or nothing passes any more and no error shows.
Break(i) ==
    /\ sock[i] \in {"up", "silent"} /\ Fault
    /\ sock' = [sock EXCEPT ![i] = "dead"] /\ echo' = echo \ {i}
    /\ UNCHANGED <<loopVars, ws, answer, reconnectNow, readVars, timeVars, pendingPing, stopped>>

Silence(i) ==
    /\ sock[i] = "up" /\ Fault
    /\ sock' = [sock EXCEPT ![i] = "silent"] /\ echo' = echo \ {i}
    /\ UNCHANGED <<loopVars, ws, answer, reconnectNow, readVars, timeVars, pendingPing, stopped>>

stop ==
    /\ ~stopped /\ stopped' = TRUE
    /\ UNCHANGED <<loopVars, ws, netVars, reconnectNow, readVars, timeVars, pendingPing, faults>>

RunLoop ==
    \/ Connect \/ Backoff \/ DialOk \/ DialFails \/ HandshakeOk \/ HandshakeFails
    \/ Loop \/ SelectStop \/ SelectReconnect \/ SelectTimeout \/ SelectSkip \/ SelectPing

ReadLoop(r) ==
    \/ ReadTop(r) \/ ReadFrame(r) \/ HandlePong(r) \/ HandlePing(r) \/ HandleFrame(r)
    \/ ReadFails(r) \/ ReadSignals(r)

Next ==
    \/ RunLoop \/ DialHangs \/ HungEnds
    \/ \E r \in Readers : ReadLoop(r)
    \/ \E i \in Sockets : Break(i) \/ Silence(i)
    \/ Clock \/ stop

Spec == Init /\ [][Next]_vars

\* Goroutines are scheduled, time passes and select is fair to stopCh.  Nothing
\* makes a dial end that hangs.
FairSpec ==
    /\ Spec
    /\ WF_vars(RunLoop) /\ SF_vars(SelectStop) /\ WF_vars(Clock)
    /\ \A r \in Readers :
          /\ WF_vars(ReadTop(r)) /\ WF_vars(ReadFails(r)) /\ WF_vars(ReadSignals(r))
          /\ WF_vars(HandlePong(r) \/ HandlePing(r) \/ HandleFrame(r))

\* And a pong the server owes is not overtaken for ever by other frames.
Pong(r) == ReadFrame(r) /\ at[r] \in echo /\ at[r] \notin echo'
AnsweredSpec == FairSpec /\ \A r \in Readers : SF_vars(Pong(r))

-----------------------------------------------------------------------------
(* Properties.                                                             *)

TypeOK ==
    /\ rpc \in {"connect", "dial", "hung", "handshake", "backoff", "loop", "select", "done"}
    /\ state \in {"Disconnected", "Connecting", "Authenticating", "Alive"}
    /\ ws \in Sockets \cup {None}
    /\ sock \in [Sockets -> {"closed", "up", "silent", "dead"}] /\ echo \subseteq Sockets
    /\ reader \in [Readers -> {"idle", "top", "read", "pong", "ping", "frame", "failed"}]
    /\ at \in [Readers -> Sockets \cup {None}]
    /\ quiet \in 0 .. PingTimeout /\ faults \in 0 .. MaxFaults
    /\ {initial, answer, reconnectNow, tick, pendingPing, stopped} \subseteq BOOLEAN

\* No socket leaks: whatever dials, failed handshakes, signals and timeouts
\* came before, every socket but the current one has been closed, and a run
\* loop that has returned leaves none open (connect, shutdown and the returns
\* of runLoop).
OneSocket ==
    /\ \A i \in Sockets : sock[i] # "closed" => i = ws
    /\ rpc = "done" => \A i \in Sockets : sock[i] = "closed"

\* Connecting has no deadline.  The dial waits for ever when the relay does not
\* complete TLS or the upgrade, and the handshake when the network has gone
\* silent, or when a read loop of an earlier connection has taken the answer.
\* (When all slots for read loops are taken the model ends there.)
Stalled ==
    \/ rpc = "hung"
    \/ rpc = "handshake" /\ (sock[ws] = "silent" \/ ~answer \/ FreeReaders = {})

\* A connection that broke or fell silent does not stay Alive: the read loop's
\* signal, a failed write or the ping timeout ends it, also when the read loop
\* has exited without a signal (sendPong failed) or was not the only one.
NoZombie ==
    (state = "Alive" /\ sock[ws] \in {"silent", "dead"}) ~> (state # "Alive")

\* The run loop does not give up and does not wait for a signal that is gone:
\* once the failures are over it is Alive again and again, unless it has been
\* stopped, or its dial or its handshake hangs, which nothing in the code ends.
Recovers == []<>(state = "Alive" \/ stopped \/ Stalled)

\* stop ends the run loop wherever it is, except in a dial or a handshake that
\* hangs, and ends it for good: out of a connect it does not begin another one.
StopReturns ==
    /\ stopped ~> (rpc = "done" \/ Stalled)
    /\ [][stopped /\ rpc \in {"loop", "select"} => rpc' # "connect"]_vars

\* What the keep-alive is for: a pending ping is answered or the connection
\* is dropped.  Not so: pendingPing outlives the connection it was sent on.
PingSettled ==
    (state = "Alive" /\ pendingPing) ~> (~pendingPing \/ state # "Alive")

=============================================================================
