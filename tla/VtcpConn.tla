------------------------------ MODULE VtcpConn ------------------------------
(***************************************************************************)
(* The life of a vtcp connection (conn.go): opening, data, closing, reset  *)
(* and the timers of both ends, over a network that loses, duplicates and  *)
(* reorders.  A Conn is a record; the handlers of the code that run under  *)
(* c.mu are operators on it that collect the segments to send in its field *)
(* outgoing, and each action drains them into the network as the code does *)
(* before it returns.  The network keeps the order of segments except for  *)
(* a bounded number of faults: loss, duplication, overtaking.              *)
(*                                                                         *)
(* Configuration: SACK, timestamps and keepalive off (their default), and  *)
(* receive buffers that hold the whole stream, so that windows stay open   *)
(* and the persist timer never starts.  VtcpTransfer has SACK and windows. *)
(***************************************************************************)
EXTENDS VtcpBuf, SequencesExt

CONSTANTS
    End,            \* the two ends
    Active,         \* the ends that may call Connect; both may AcceptSYN
    Source,         \* Source[e]: the bytes e's application writes
    ISS,            \* ISS[e]: the initial sequence number e draws
    Cwnds,          \* values CongestionController.SendWindow may return
    MaxRetries,     \* retransmissions before the connection is given up
    MaxFaults,      \* bound: segments lost, duplicated or overtaken
    MaxTimeouts,    \* bound: expirations of rtoTimer
    MaxAborts       \* bound: calls of Abort

ASSUME ConnAssumption ==
    /\ Cardinality(End) = 2
    /\ Active \subseteq End
    /\ Source \in [End -> Seq(Nat)]
    /\ ISS \in [End -> Nat]
    /\ Cwnds \subseteq Nat
    /\ {MaxRetries, MaxFaults, MaxTimeouts, MaxAborts} \subseteq Nat

VARIABLES
    conn,           \* conn[e]: the Conn of e
    wlen,           \* wlen[e]: how much of Source[e] Write has accepted
    delivered,      \* delivered[e]: what e's application has read
    net,            \* net[e]: the segments on their way to e
    faults, timeouts, aborts    \* what the bounds above have counted so far

vars == <<conn, wlen, delivered, net, faults, timeouts, aborts>>

Peer(e) == CHOOSE p \in End : p # e

\* A Conn as NewConn leaves it.
NewConn(e) ==
    [state       |-> "Closed",
     snd         |-> NewSendBuf(ISS[e]),
     rcv         |-> NewRecvBuf(0),
     finPending  |-> FALSE,
     finSeq      |-> 0,          \* pendingFinSeq
     rto         |-> "nil",      \* rtoTimer
     calls       |-> 0,          \* onRTOTimeout goroutines waiting for c.mu
     retries     |-> 0,
     timeWait    |-> FALSE,      \* timeWaitTimer runs
     closed      |-> FALSE,
     established |-> FALSE,      \* channel established is closed
     finRecvd    |-> FALSE,      \* channel finRecvd is closed
     fresh       |-> TRUE,       \* neither Connect nor AcceptSYN called yet
     outgoing    |-> << >>]

-----------------------------------------------------------------------------
\* Segments

Segment(flags, seq, ack, bytes) == [flags |-> flags, seq |-> seq, ack |-> ack, bytes |-> bytes]

Has(m, flag) == flag \in m.flags

SegLen(m) == Len(m.bytes) + Cardinality(m.flags \cap {"SYN", "FIN"})

Queue(c, m) == [c EXCEPT !.outgoing = Append(@, m)]

QueueACK(c) == Queue(c, Segment({"ACK"}, c.snd.nxt, c.rcv.nxt, << >>))

QueueData(c, segs) ==
    LET order == SetToSortSeq(segs, LAMBDA s, t : s.seq < t.seq)
        Labelled(i) == Segment({"ACK"}, order[i].seq, c.rcv.nxt, order[i].bytes)
    IN  [c EXCEPT !.outgoing = @ \o [i \in DOMAIN order |-> Labelled(i)]]

QueueRST(c, seq) == Queue(c, Segment({"RST"}, seq, 0, << >>))

QueueSYN(c) == Queue(c, Segment({"SYN"}, c.snd.una, 0, << >>))

QueueSYNACK(c) == Queue(c, Segment({"SYN", "ACK"}, c.snd.una, c.rcv.nxt, << >>))

\* A FIN takes the sequence number nxt, also when it is sent again.
QueueFIN(c) ==
    [Queue(c, Segment({"FIN", "ACK"}, c.snd.nxt, c.rcv.nxt, << >>))
        EXCEPT !.snd = AdvanceSent(@, 1)]

-----------------------------------------------------------------------------
\* Timers and lifecycle helpers

StartRTO(c) == [c EXCEPT !.rto = "armed"]
StopRTO(c)  == [c EXCEPT !.rto = "nil"]

StartTimeWait(c) == [c EXCEPT !.timeWait = TRUE]

\* The teardown shared by RST, timeout and Abort.
Shutdown(c) == [StopRTO(c) EXCEPT !.state = "Closed", !.closed = TRUE]

SafeCloseEstablished(c) == [c EXCEPT !.established = TRUE]
SafeCloseFinRecvd(c)    == [c EXCEPT !.finRecvd = TRUE]

-----------------------------------------------------------------------------
\* Sending

FlushSendQueue(c, cwnd) ==
    LET n == FlushLen(c.snd, cwnd)
        d == [QueueData(c, FlushSegments(c.snd, n)) EXCEPT !.snd = AdvanceSent(@, n)]
    IN  IF n > 0 /\ c.rto = "nil" THEN StartRTO(d) ELSE d

Retransmit(c) ==
    LET segs == Retransmission(c.snd)
    IN  IF segs = {} THEN c ELSE StartRTO(QueueData(c, segs))

\* processACK; fast: the congestion controller asks for fast retransmit.
ProcessACK(c, ack, fast, cwnd) ==
    IF ~SeqAfter(ack, c.snd.una) THEN IF fast THEN Retransmit(c) ELSE c
    ELSE IF SeqAfter(ack, c.snd.nxt) THEN QueueACK(c)
    ELSE LET d == [c EXCEPT !.snd = Acknowledge(@, ack), !.retries = 0]
         IN  FlushSendQueue(IF Unacked(d.snd) > 0 THEN StartRTO(d) ELSE StopRTO(d), cwnd)

-----------------------------------------------------------------------------
\* Receiving data and FIN

ProcessFINStateTransition(c) ==
    CASE c.state = "Established" ->
            SafeCloseFinRecvd([c EXCEPT !.state = "CloseWait"])
      [] c.state = "FinWait1" /\ Unacked(c.snd) # 0 ->
            SafeCloseFinRecvd([c EXCEPT !.state = "Closing"])
      [] (c.state = "FinWait1" /\ Unacked(c.snd) = 0) \/ c.state = "FinWait2" ->
            SafeCloseFinRecvd(StartTimeWait(StopRTO([c EXCEPT !.state = "TimeWait"])))
      [] OTHER -> c

\* Mutant: the FIN takes no number.
ConsumeFINUncounted(c) == ProcessFINStateTransition(c)

\* A FIN takes one sequence number when it is in order.
ConsumeFIN(c) == ProcessFINStateTransition([c EXCEPT !.rcv.nxt = @ + 1])

ProcessData(c, m) ==
    LET d == [c EXCEPT !.rcv = RecvBufInsert(@, m.seq, m.bytes)]
    IN  IF d.finPending /\ d.finSeq = d.rcv.nxt
        THEN ConsumeFIN([d EXCEPT !.finPending = FALSE])
        ELSE d

\* Mutant: a FIN counts although data before it is missing.
ProcessFINAtOnce(c, m) == ConsumeFIN([c EXCEPT !.rcv.nxt = m.seq + Len(m.bytes)])

\* The FIN flag of a segment: taken in order, otherwise deferred.
ProcessFIN(c, m) ==
    LET seq == m.seq + Len(m.bytes)
    IN  IF seq = c.rcv.nxt THEN ConsumeFIN(c)
        ELSE [c EXCEPT !.finPending = TRUE, !.finSeq = seq]

\* handleDataState: states Established, FinWait1 and FinWait2.
HandleDataState(c, m, fast, cwnd) ==
    LET acked == ProcessACK(c, m.ack, fast, cwnd)
        fed   == IF m.bytes = << >> THEN acked ELSE ProcessData(acked, m)
        ended == CASE Has(m, "FIN") -> ProcessFIN(fed, m)
                   [] ~Has(m, "FIN") /\ fed.state = "FinWait1" /\ m.ack = fed.snd.nxt ->
                        [fed EXCEPT !.state = "FinWait2"]
                   [] OTHER -> fed
    IN  IF m.bytes # << >> \/ Has(m, "FIN") THEN QueueACK(ended) ELSE ended

-----------------------------------------------------------------------------
\* Handlers by state

HandleClosed(c, m) ==
    CASE Has(m, "RST") -> c
      [] ~Has(m, "RST") /\ Has(m, "ACK") -> QueueRST(c, m.ack)
      [] OTHER -> Queue(c, Segment({"RST", "ACK"}, 0, m.seq + SegLen(m), << >>))

\* Mutant: the SYN takes no number.
RecvBufAtSYN(m) == RecvBufInsert(NewRecvBuf(m.seq), m.seq, m.bytes)

\* A receive buffer that starts after the SYN m and holds the data it carries.
RecvBufAfter(m) == RecvBufInsert(NewRecvBuf(m.seq + 1), m.seq + 1, m.bytes)

HandleSynSent(c, m, cwnd) ==
    LET badAck == Has(m, "ACK") /\ (SeqBeforeEq(m.ack, c.snd.una) \/ SeqAfter(m.ack, c.snd.nxt))
        opened == [StopRTO(c) EXCEPT !.rcv = RecvBufAfter(m), !.retries = 0]
    IN  CASE badAck -> IF Has(m, "RST") THEN c ELSE QueueRST(c, m.ack)
          [] ~badAck /\ Has(m, "RST") ->
                IF Has(m, "ACK") THEN SafeCloseFinRecvd(SafeCloseEstablished(Shutdown(c))) ELSE c
          [] ~badAck /\ ~Has(m, "RST") /\ m.flags \cap {"SYN", "ACK"} = {"SYN", "ACK"} ->
                SafeCloseEstablished(FlushSendQueue(QueueACK(
                    [opened EXCEPT !.state = "Established",
                                   !.snd = Acknowledge(@, m.ack)]), cwnd))
          [] ~badAck /\ ~Has(m, "RST") /\ m.flags \cap {"SYN", "ACK"} = {"SYN"} ->
                StartRTO(QueueSYNACK([opened EXCEPT !.state = "SynReceived"]))
          [] OTHER -> c

HandleSynReceived(c, m, fast, cwnd) ==
    IF m.ack # c.snd.nxt
    THEN QueueRST(c, m.ack)
    ELSE HandleDataState(
            SafeCloseEstablished([StopRTO(c) EXCEPT !.state = "Established",
                                                    !.snd = Acknowledge(@, m.ack),
                                                    !.retries = 0]),
            m, fast, cwnd)

HandleClosing(c, m) ==
    QueueACK(IF m.ack = c.snd.nxt
             THEN StartTimeWait(StopRTO([c EXCEPT !.state = "TimeWait"]))
             ELSE c)

HandleLastAck(c, m) == IF m.ack = c.snd.nxt THEN Shutdown(c) ELSE c

SegmentAcceptable(c, m) ==
    LET InWindow(n) == SeqInRange(n, c.rcv.nxt, c.rcv.nxt + RecvCap)
    IN  InWindow(m.seq) \/ (SegLen(m) > 0 /\ InWindow(m.seq + SegLen(m) - 1))

\* An RST counts at exactly RCV.NXT; elsewhere in the window it is challenged.
HandleRST(c, m) ==
    CASE m.seq = c.rcv.nxt -> SafeCloseFinRecvd(SafeCloseEstablished(Shutdown(c)))
      [] m.seq # c.rcv.nxt /\ SeqInRange(m.seq, c.rcv.nxt, c.rcv.nxt + RecvBufWindow(c.rcv)) ->
            QueueACK(c)
      [] OTHER -> c

\* The ACK-bearing segments that pass the checks of handleSynchronized.
HandleByState(c, m, fast, cwnd) ==
    CASE c.state = "SynReceived" -> HandleSynReceived(c, m, fast, cwnd)
      [] c.state \in {"Established", "FinWait1", "FinWait2"} -> HandleDataState(c, m, fast, cwnd)
      [] c.state = "CloseWait" -> ProcessACK(c, m.ack, fast, cwnd)
      [] c.state = "Closing" -> HandleClosing(c, m)
      [] c.state = "LastAck" -> HandleLastAck(c, m)
      [] c.state = "TimeWait" -> QueueACK(c)

HandleSynchronized(c, m, fast, cwnd) ==
    LET synAgain == /\ c.state = "SynReceived"
                    /\ {"SYN", "ACK"} \subseteq m.flags
                    /\ m.ack = c.snd.nxt
    IN  CASE ~SegmentAcceptable(c, m) /\ ~synAgain ->
                IF Has(m, "RST") THEN c ELSE QueueACK(c)
          [] OTHER ->
                CASE Has(m, "RST") -> HandleRST(c, m)
                  [] ~Has(m, "RST") /\ Has(m, "SYN") /\ c.state # "SynReceived" -> QueueACK(c)
                  [] OTHER -> IF Has(m, "ACK") THEN HandleByState(c, m, fast, cwnd) ELSE c

HandleSegment(c, m, fast, cwnd) ==
    CASE c.state = "Closed"  -> HandleClosed(c, m)
      [] c.state = "SynSent" -> HandleSynSent(c, m, cwnd)
      [] OTHER               -> HandleSynchronized(c, m, fast, cwnd)

\* Passive open by the first SYN, on a Conn that was not used before.
AcceptSYN(c, m) ==
    LET d == QueueSYNACK([c EXCEPT !.state = "SynReceived", !.fresh = FALSE,
                                   !.rcv = NewRecvBuf(m.seq + 1)])
    IN  StartRTO([d EXCEPT !.snd = AdvanceSent(@, 1), !.rcv = RecvBufAfter(m)])

-----------------------------------------------------------------------------
\* Actions: flushPackets hands the queued segments to the network.

Drain(e, c) ==
    /\ conn' = [conn EXCEPT ![e] = [c EXCEPT !.outgoing = << >>]]
    /\ net' = [net EXCEPT ![Peer(e)] = @ \o c.outgoing]

Connect(e) ==
    /\ e \in Active
    /\ conn[e].fresh
    /\ conn[e].state = "Closed"
    /\ LET d == QueueSYN([conn[e] EXCEPT !.state = "SynSent", !.fresh = FALSE])
       IN  Drain(e, StartRTO([d EXCEPT !.snd = AdvanceSent(@, 1)]))
    /\ UNCHANGED <<wlen, delivered, faults, timeouts, aborts>>

\* e takes segment i of those on their way to it; the network may keep a copy.
Receive(e, i) ==
    /\ \E fast \in BOOLEAN, cwnd \in Cwnds, copies \in 0 .. 1 :
          LET m == net[e][i]
              c == IF conn[e].fresh /\ m.flags = {"SYN"}
                   THEN AcceptSYN(conn[e], m)
                   ELSE HandleSegment(conn[e], m, fast, cwnd)
          IN  /\ faults' = faults + copies + (IF i = 1 THEN 0 ELSE 1)
              /\ faults' <= MaxFaults
              /\ conn' = [conn EXCEPT ![e] = [c EXCEPT !.outgoing = << >>]]
              /\ net' = [net EXCEPT ![Peer(e)] = @ \o c.outgoing,
                                    ![e] = IF copies = 1 THEN @ ELSE RemoveAt(@, i)]
    /\ UNCHANGED <<wlen, delivered, timeouts, aborts>>

Lose(e, i) ==
    /\ faults < MaxFaults
    /\ faults' = faults + 1
    /\ net' = [net EXCEPT ![e] = RemoveAt(@, i)]
    /\ UNCHANGED <<conn, wlen, delivered, timeouts, aborts>>

\* Write of n bytes; SendCap holds the whole stream, so the call never blocks.
Write(e, n) ==
    /\ ~conn[e].closed
    /\ conn[e].state \in {"Established", "CloseWait"}
    /\ wlen[e] + n <= Len(Source[e])
    /\ LET bytes == SubSeq(Source[e], wlen[e] + 1, wlen[e] + n)
       IN  \E cwnd \in Cwnds :
              Drain(e, FlushSendQueue([conn[e] EXCEPT !.snd = SendBufWrite(@, bytes)], cwnd))
    /\ wlen' = [wlen EXCEPT ![e] = @ + n]
    /\ UNCHANGED <<delivered, faults, timeouts, aborts>>

Read(e, n) ==
    /\ delivered' = [delivered EXCEPT ![e] = @ \o SubSeq(conn[e].rcv.buf, 1, n)]
    /\ conn' = [conn EXCEPT ![e].rcv = RecvBufRead(@, n)]
    /\ UNCHANGED <<wlen, net, faults, timeouts, aborts>>

\* A call of Read returns io.EOF.
ReadEOF(e) == conn[e].rcv.buf = << >> /\ (conn[e].closed \/ conn[e].finRecvd)

\* Close: from CloseWait the FIN leaves without a flush; a second call in the
\* closing states drops the connection.
CloseConn(c, cwnd) ==
    CASE c.state = "Established" ->
            StartRTO(QueueFIN([FlushSendQueue(c, cwnd) EXCEPT !.state = "FinWait1"]))
      [] c.state = "CloseWait"   -> StartRTO(QueueFIN([c EXCEPT !.state = "LastAck"]))
      [] c.state = "SynReceived" -> StartRTO(QueueFIN([c EXCEPT !.state = "FinWait1"]))
      [] c.state \in {"FinWait1", "FinWait2"} -> c
      [] OTHER -> Shutdown(c)

Close(e) ==
    /\ ~conn[e].fresh
    /\ ~conn[e].closed
    /\ \E cwnd \in Cwnds : Drain(e, CloseConn(conn[e], cwnd))
    /\ UNCHANGED <<wlen, delivered, faults, timeouts, aborts>>

AbortConn(c) ==
    LET d == IF c.state = "SynSent" THEN c ELSE QueueRST(c, c.snd.nxt)
    IN  SafeCloseFinRecvd(SafeCloseEstablished(Shutdown(d)))

Abort(e) ==
    /\ aborts < MaxAborts
    /\ aborts' = aborts + 1
    /\ conn[e].state # "Closed"
    /\ Drain(e, AbortConn(conn[e]))
    /\ UNCHANGED <<wlen, delivered, faults, timeouts>>

\* rtoTimer expires; its callback runs once it gets c.mu.
RTOFires(e) ==
    /\ conn[e].rto = "armed"
    /\ timeouts < MaxTimeouts
    /\ timeouts' = timeouts + 1
    /\ conn' = [conn EXCEPT ![e].rto = "fired", ![e].calls = @ + 1]
    /\ UNCHANGED <<wlen, delivered, net, faults, aborts>>

RetransmitByState(c) ==
    CASE c.state = "SynSent"     -> QueueSYN(c)
      [] c.state = "SynReceived" -> QueueSYNACK(c)
      [] c.state \in {"Established", "CloseWait"} -> Retransmit(c)
      [] c.state \in {"FinWait1", "LastAck"} -> QueueFIN(c)
      [] OTHER -> c

RTOTimeout(c) ==
    CASE c.closed \/ c.state = "Closed" -> c
      [] ~c.closed /\ c.state # "Closed" /\ c.retries = MaxRetries ->
            SafeCloseEstablished(Shutdown([c EXCEPT !.retries = @ + 1]))
      [] OTHER -> StartRTO(RetransmitByState([c EXCEPT !.retries = @ + 1]))

OnRTOTimeout(e) ==
    /\ conn[e].calls > 0
    /\ Drain(e, RTOTimeout([conn[e] EXCEPT !.calls = @ - 1]))
    /\ UNCHANGED <<wlen, delivered, faults, timeouts, aborts>>

\* onTimeWaitExpired leaves rtoTimer alone.
OnTimeWaitExpired(e) ==
    /\ conn[e].timeWait
    /\ conn' = [conn EXCEPT ![e].timeWait = FALSE, ![e].state = "Closed", ![e].closed = TRUE]
    /\ UNCHANGED <<wlen, delivered, net, faults, timeouts, aborts>>

-----------------------------------------------------------------------------

Init ==
    /\ conn = [e \in End |-> NewConn(e)]
    /\ wlen = [e \in End |-> 0]
    /\ delivered = [e \in End |-> << >>]
    /\ net = [e \in End |-> << >>]
    /\ faults = 0
    /\ timeouts = 0
    /\ aborts = 0

Next == \E e \in End :
    \/ Connect(e)
    \/ \E i \in DOMAIN net[e] : Receive(e, i)
    \/ \E i \in DOMAIN net[e] : Lose(e, i)
    \/ \E n \in 1 .. Len(Source[e]) : Write(e, n)
    \/ \E n \in 1 .. Len(conn[e].rcv.buf) : Read(e, n)
    \/ Close(e)
    \/ Abort(e)
    \/ RTOFires(e)
    \/ OnRTOTimeout(e)
    \/ OnTimeWaitExpired(e)

Spec == Init /\ [][Next]_vars

\* The network delivers, timers expire and their callbacks run.  A segment to an
\* end in TimeWait restarts its timer, so that expiry is certain only while no
\* segment is on its way to either end.
Fairness ==
    \A e \in End :
        /\ WF_vars(net[e] # << >> /\ Receive(e, 1))
        /\ WF_vars(RTOFires(e))
        /\ WF_vars(OnRTOTimeout(e))
        /\ WF_vars((\A f \in End : net[f] = << >>) /\ OnTimeWaitExpired(e))

FairSpec == Spec /\ Fairness

-----------------------------------------------------------------------------
\* Properties

States == {"Closed", "SynSent", "SynReceived", "Established", "FinWait1", "FinWait2",
           "CloseWait", "Closing", "LastAck", "TimeWait"}

SegmentType == [flags : SUBSET {"SYN", "ACK", "FIN", "RST"}, seq : Nat, ack : Nat,
                bytes : Seq(Nat)]

\* Types of both Conns and of the segments in the network.
TypeOK ==
    /\ \A e \in End :
         LET c == conn[e]
         IN  /\ c.state \in States
             /\ c.snd \in [buf : Seq(Nat), una : Nat, nxt : Nat, sacked : {{}}]
             /\ c.rcv.buf \in Seq(Nat) /\ c.rcv.nxt \in Nat
             /\ c.rcv.ooo \subseteq [seq : Nat, data : Seq(Nat)]
             /\ {c.finPending, c.timeWait, c.closed, c.established, c.finRecvd, c.fresh}
                  \subseteq BOOLEAN
             /\ c.finSeq \in Nat
             /\ c.rto \in {"nil", "armed", "fired"}
             /\ c.calls \in 0 .. timeouts
             /\ c.retries \in 0 .. (MaxRetries + 1)
             /\ c.outgoing = << >>
             /\ net[e] \in Seq(SegmentType)
             /\ wlen[e] \in 0 .. Len(Source[e])
             /\ delivered[e] \in Seq(Nat)
    /\ faults \in 0 .. MaxFaults
    /\ timeouts \in 0 .. MaxTimeouts
    /\ aborts \in 0 .. MaxAborts

\* In each direction, what was read and what waits to be read is a prefix of
\* what the peer's application wrote, whatever handshakes, FINs, resets and
\* retransmissions cross (handleDataState, processData, queueFIN).
PrefixDelivered ==
    \A e \in End :
        LET got == delivered[e] \o conn[e].rcv.buf
        IN  Len(got) <= wlen[Peer(e)] /\ got = SubSeq(Source[Peer(e)], 1, Len(got))

\* An end that has completed its side of the handshake agrees with its peer on
\* the numbers: what it knows to be acknowledged the peer has taken, and it
\* expects nothing the peer has not sent (handleSynSent, handleSynReceived).
EndsAgree ==
    \A e \in End : conn[e].state \in {"Established", "FinWait2", "CloseWait", "TimeWait"} =>
        /\ conn[e].snd.una <= conn[Peer(e)].rcv.nxt
        /\ conn[e].rcv.nxt <= conn[Peer(e)].snd.nxt

\* Every number a synchronized end has moved past is the SYN, a byte it holds
\* or handed over, or the FIN: a FIN counts once, also when it was deferred, and
\* never in the middle of data (handleDataState, processData).
NumbersAccounted ==
    \A e \in End : conn[e].state \notin {"Closed", "SynSent"} =>
        conn[e].rcv.nxt = ISS[Peer(e)] + 1 + Len(delivered[e] \o conn[e].rcv.buf)
                          + (IF conn[e].finRecvd THEN 1 ELSE 0)

\* Close of RFC 793: the FIN follows all data written before.  A Read that
\* returns io.EOF because of the peer's FIN (no reset, no timeout) has handed
\* over everything the peer's Write accepted (Close, queueFIN, Read).
EOFMeansAll ==
    \A e \in End : ReadEOF(e) /\ ~conn[e].closed => Len(delivered[e]) = wlen[Peer(e)]

\* Teardown does not stall (the comment in handleClosing): an end in TimeWait
\* becomes Closed.
TeardownEnds == \A e \in End : conn[e].state = "TimeWait" ~> conn[e].state = "Closed"
=============================================================================
