---------------------------- MODULE VtcpTransfer ----------------------------
(***************************************************************************)
(* The data path of an established vtcp connection (conn.go), in one       *)
(* direction: a sender S whose application calls Write, a receiver R whose *)
(* application calls Read, and a network that loses, duplicates and        *)
(* reorders segments.  Both ends negotiated SACK; the end R never writes,  *)
(* so S receives pure ACKs.  Opening and closing are in module VtcpConn.   *)
(*                                                                         *)
(* Timers: time.AfterFunc starts a goroutine that first takes c.mu, so a   *)
(* callback can run after a handler stopped or replaced its timer.  A      *)
(* timer is "nil", "armed" or "fired" (still non-nil in the Conn), and the *)
(* number of callbacks still to run is kept apart from it.                 *)
(***************************************************************************)
EXTENDS VtcpBuf

CONSTANTS
    Source,         \* the bytes the application writes, in order
    ISS,            \* initial sequence number of S
    MaxWrite,       \* largest buffer the application passes to Write
    WndScale,       \* 2^rcvWndShift of R, 1 when scaling was not negotiated
    MaxWindow,      \* largest number the window field of a segment holds
    Cwnds,          \* values CongestionController.SendWindow may return
    MaxRetries,     \* retransmissions before the connection is given up
    MaxFaults,      \* bound: segments the network loses or duplicates
    MaxCallbacks    \* bound: timer callbacks waiting for c.mu

ASSUME TransferAssumption ==
    /\ Source \in Seq(Nat)
    /\ ISS \in Nat
    /\ MaxWrite \in Nat
    /\ WndScale \in Nat \ {0}
    /\ MaxWindow \in Nat
    /\ Cwnds \subseteq Nat
    /\ MaxRetries \in Nat
    /\ MaxFaults \in Nat
    /\ MaxCallbacks \in Nat
    \* a stream and a window fit into half the sequence space, so that the
    \* numbers of any two segments compare as they should
    /\ Len(Source) + RecvCap < Half

VARIABLES
    state,          \* S: c.state, "Established" or "Closed"
    sendBuf,        \* S: c.sendBuf
    sndWnd,         \* S: c.sndWnd, the window R advertised last
    rto,            \* S: [timer, calls] of rtoTimer
    persist,        \* S: [timer, calls] of persistTimer
    retries,        \* S: c.retries
    writer,         \* S: the Write call in progress, if any
    wlen,           \* how much of Source sendBuf has accepted
    recvBuf,        \* R: c.recvBuf
    delivered,      \* what R's application has read
    data,           \* data segments in the network, to R
    acks,           \* ACK segments in the network, to S
    faults          \* faults so far

sendVars == <<state, sendBuf, sndWnd, rto, persist, retries, writer, wlen>>
recvVars == <<recvBuf, delivered>>
netVars  == <<data, acks, faults>>
vars     == <<sendVars, recvVars, netVars>>

-----------------------------------------------------------------------------
\* Receiver's segment builders

\* Advertised window, with receiver silly-window avoidance, as the field holds it:
\* scaled and cut off.
RcvWindow(r) ==
    LET avail  == RecvBufWindow(r)
        thresh == AtMost(MSS, RecvCap \div 2)
    IN  IF avail < thresh THEN 0 ELSE AtMost(avail \div WndScale, MaxWindow)

\* Mutant: the highest number received is acknowledged, across gaps.
AckSegmentPastGap(r) ==
    [ack |-> Max({r.nxt} \cup {Extent(e).right : e \in r.ooo}),
     wnd |-> RcvWindow(r), sack |-> SACKBlocks(r)]

AckSegment(r) == [ack |-> r.nxt, wnd |-> RcvWindow(r), sack |-> SACKBlocks(r)]

-----------------------------------------------------------------------------
\* Sender's transmission helpers

\* The window S takes from the field of a segment.
SndWindow(w) == w * WndScale

\* Timers, as the fields of Conn that hold them.
Start(t) == [t EXCEPT !.timer = "armed"]
Stop(t)  == [t EXCEPT !.timer = "nil"]

\* Mutant: the retransmission timer is not started.
FlushSendQueueNoRTO(s, r, p) ==
    \E cwnd \in Cwnds :
        LET n == FlushLen(s, AtMost(sndWnd, cwnd))
        IN  /\ sendBuf' = AdvanceSent(s, n)
            /\ data' = data \cup FlushSegments(s, n)
            /\ rto' = r
            /\ persist' = p

\* flushSendQueue on send buffer s, with the timers r (RTO) and p (persist).
FlushSendQueue(s, r, p) ==
    \E cwnd \in Cwnds :
        LET n == FlushLen(s, AtMost(sndWnd, cwnd))
            q == AdvanceSent(s, n)
        IN  /\ sendBuf' = q
            /\ data' = data \cup FlushSegments(s, n)
            /\ rto' = IF n > 0 /\ r.timer = "nil" THEN Start(r) ELSE r
            /\ persist' = IF Pending(q) > 0 /\ sndWnd = 0 /\ p.timer = "nil"
                          THEN Start(p) ELSE p

-----------------------------------------------------------------------------
\* Application of S.  A Write call copies what fits; it blocks on sendCond
\* while bytes remain, and flushes only once all of them are in the buffer.

Idle == [size |-> 0, left |-> 0, woken |-> FALSE]

\* Bytes wlen+1 .. wlen+n of Source, the n that the call hands over next.
NextBytes(n) == SubSeq(Source, wlen + 1, wlen + n)

\* One pass of the copy loop of a call with size bytes, n of them left to write.
CopyLoop(size, n) ==
    LET s    == SendBufWrite(sendBuf, NextBytes(n))
        took == Len(s.buf) - Len(sendBuf.buf)
    IN  /\ wlen' = wlen + took
        /\ IF took = n
           THEN /\ writer' = Idle
                /\ FlushSendQueue(s, rto, persist)
           ELSE /\ writer' = [size |-> size, left |-> n - took, woken |-> FALSE]
                /\ sendBuf' = s
                /\ UNCHANGED <<rto, persist, data>>

Write(n) ==
    /\ state = "Established"
    /\ writer = Idle
    /\ wlen + n <= Len(Source)
    /\ CopyLoop(n, n)
    /\ UNCHANGED <<state, sndWnd, retries, recvVars, acks, faults>>

WriteWakes ==
    /\ writer.woken
    /\ IF state = "Closed"
       THEN /\ writer' = Idle
            /\ UNCHANGED <<sendBuf, rto, persist, wlen, data>>
       ELSE CopyLoop(writer.size, writer.left)
    /\ UNCHANGED <<state, sndWnd, retries, recvVars, acks, faults>>

\* Mutant: no Broadcast.
WakeNobody(w) == w

\* sendCond.Broadcast()
Wake(w) == IF w.left > 0 THEN [w EXCEPT !.woken = TRUE] ELSE w

-----------------------------------------------------------------------------
\* Network: a segment that is taken leaves the network, unless it has been
\* duplicated.

Take(net, m) ==
    \/ net' = net \ {m} /\ faults' = faults
    \/ faults < MaxFaults /\ faults' = faults + 1 /\ net' = net

Lose(net, m) ==
    /\ faults < MaxFaults
    /\ faults' = faults + 1
    /\ net' = net \ {m}
    /\ UNCHANGED <<sendVars, recvVars>>

LoseData(m) == Lose(data, m) /\ UNCHANGED acks

LoseAck(m) == Lose(acks, m) /\ UNCHANGED data

-----------------------------------------------------------------------------
\* R: a data segment arrives (handleSynchronized, handleDataState and
\* processData in state Established); then its application reads.

\* segmentAcceptable for a segment with payload.
Acceptable(r, m) ==
    LET end == m.seq + Len(m.bytes) - 1
    IN  \/ SeqInRange(m.seq, r.nxt, r.nxt + RecvCap)
        \/ SeqInRange(end, r.nxt, r.nxt + RecvCap)

HandleData(m) ==
    LET r == IF Acceptable(recvBuf, m) THEN RecvBufInsert(recvBuf, m.seq, m.bytes)
                                       ELSE recvBuf
    IN  /\ Take(data, m)
        /\ recvBuf' = r
        /\ acks' = acks \cup {AckSegment(r)}
        /\ UNCHANGED <<sendVars, delivered>>

\* Read sends nothing: a window that reopens is reported by the next ACK only.
Read(n) ==
    /\ delivered' = delivered \o SubSeq(recvBuf.buf, 1, n)
    /\ recvBuf' = RecvBufRead(recvBuf, n)
    /\ UNCHANGED <<sendVars, netVars>>

-----------------------------------------------------------------------------
\* S: an ACK arrives (handleDataState and processACK).  The window of the
\* segment is stored after processACK, which still works with the old one.

\* An ACK that does not advance una counts as a duplicate; the congestion
\* controller decides (fast) whether it is the one that triggers fast
\* retransmit.
HandleDupAck(m, fast) ==
    LET out == IF fast THEN Retransmission(sendBuf) ELSE {}
    IN  /\ ~SeqAfter(m.ack, sendBuf.una)
        /\ Take(acks, m)
        /\ data' = data \cup out
        /\ rto' = IF out = {} THEN rto ELSE Start(rto)
        /\ sendBuf' = MarkSACKed(sendBuf, m.sack)
        /\ sndWnd' = SndWindow(m.wnd)
        /\ UNCHANGED <<state, persist, retries, writer, wlen, recvVars>>

\* An ACK that advances una.  One beyond nxt is answered and dropped, all but its window.
HandleNewAck(m) ==
    LET s == MarkSACKed(Acknowledge(sendBuf, m.ack), m.sack)
    IN  /\ SeqAfter(m.ack, sendBuf.una)
        /\ Take(acks, m)
        /\ IF SeqAfter(m.ack, sendBuf.nxt)
           THEN UNCHANGED <<sendBuf, data, rto, persist, retries, writer>>
           ELSE /\ FlushSendQueue(s, IF Unacked(s) > 0 THEN Start(rto) ELSE Stop(rto),
                                     IF sndWnd > 0 THEN Stop(persist) ELSE persist)
                /\ retries' = 0
                /\ writer' = Wake(writer)
        /\ sndWnd' = SndWindow(m.wnd)
        /\ UNCHANGED <<state, wlen, recvVars>>

\* A Closed connection answers an ACK with RST, which R's end handles as the
\* end of the connection; the data path is over.
HandleAckClosed(m) ==
    /\ Take(acks, m)
    /\ UNCHANGED <<sendVars, recvVars, data>>

HandleAck(m) ==
    \/ state = "Established" /\ \E fast \in BOOLEAN : HandleDupAck(m, fast)
    \/ state = "Established" /\ HandleNewAck(m)
    \/ state = "Closed" /\ HandleAckClosed(m)

-----------------------------------------------------------------------------
\* S: the timers

Fires(t) ==
    /\ t.timer = "armed"
    /\ t.calls < MaxCallbacks
    /\ t' = [timer |-> "fired", calls |-> t.calls + 1]

RTOFires ==
    /\ Fires(rto)
    /\ UNCHANGED <<state, sendBuf, sndWnd, persist, retries, writer, wlen, recvVars, netVars>>

PersistFires ==
    /\ Fires(persist)
    /\ UNCHANGED <<state, sendBuf, sndWnd, rto, retries, writer, wlen, recvVars, netVars>>

Returned(t) == [t EXCEPT !.calls = @ - 1]

OnRTOTimeout ==
    /\ rto.calls > 0
    /\ CASE state = "Closed" ->
              /\ rto' = Returned(rto)
              /\ UNCHANGED <<state, persist, retries, writer, data>>
         [] state = "Established" /\ retries = MaxRetries ->
              /\ state' = "Closed"
              /\ retries' = retries + 1
              /\ rto' = Stop(Returned(rto))
              /\ persist' = Stop(persist)
              /\ writer' = Wake(writer)
              /\ UNCHANGED data
         [] OTHER ->
              /\ retries' = retries + 1
              /\ data' = data \cup Retransmission(sendBuf)
              /\ rto' = Start(Returned(rto))
              /\ UNCHANGED <<state, persist, writer>>
    /\ UNCHANGED <<sendBuf, sndWnd, wlen, recvVars, acks, faults>>

\* With the window still closed the next unsent byte goes out as a probe, and
\* persistTimer is overwritten: a timer armed meanwhile runs all the same.
PersistProbe ==
    LET n == IF Pending(sendBuf) > 0 THEN 1 ELSE 0
        t == Returned(persist)
    IN  /\ sendBuf' = AdvanceSent(sendBuf, n)
        /\ data' = data \cup FlushSegments(sendBuf, n)
        /\ persist' = Start(IF t.timer = "armed" THEN persist ELSE t)
        /\ UNCHANGED rto

OnPersistTimeout ==
    /\ persist.calls > 0
    /\ IF state = "Closed"
       THEN persist' = Returned(persist) /\ UNCHANGED <<sendBuf, rto, data>>
       ELSE IF sndWnd > 0
            THEN FlushSendQueue(sendBuf, rto, Stop(Returned(persist)))
            ELSE PersistProbe
    /\ UNCHANGED <<state, sndWnd, retries, writer, wlen, recvVars, acks, faults>>

-----------------------------------------------------------------------------

\* The state after the handshake (handleSynSent, handleSynReceived): nothing sent,
\* R's empty buffer advertised.
Init ==
    /\ state = "Established"
    /\ sendBuf = NewSendBuf(ISS + 1)
    /\ sndWnd = SndWindow(RcvWindow(NewRecvBuf(ISS + 1)))
    /\ rto = [timer |-> "nil", calls |-> 0]
    /\ persist = [timer |-> "nil", calls |-> 0]
    /\ retries = 0
    /\ writer = Idle
    /\ wlen = 0
    /\ recvBuf = NewRecvBuf(ISS + 1)
    /\ delivered = << >>
    /\ data = {}
    /\ acks = {}
    /\ faults = 0

Next ==
    \/ \E n \in 1 .. MaxWrite : Write(n)
    \/ WriteWakes
    \/ \E m \in data : HandleData(m) \/ LoseData(m)
    \/ \E n \in 1 .. Len(recvBuf.buf) : Read(n)
    \/ \E m \in acks : HandleAck(m) \/ LoseAck(m)
    \/ RTOFires \/ OnRTOTimeout
    \/ PersistFires \/ OnPersistTimeout

Spec == Init /\ [][Next]_vars

\* Goroutines that are ready run, timers fire, the network delivers what it
\* does not lose, and R's application keeps reading.
Fairness ==
    /\ WF_vars(WriteWakes)
    /\ WF_vars(\E m \in data : HandleData(m))
    /\ WF_vars(\E m \in acks : HandleAck(m))
    /\ WF_vars(\E n \in 1 .. Len(recvBuf.buf) : Read(n))
    /\ WF_vars(RTOFires) /\ WF_vars(OnRTOTimeout)
    /\ WF_vars(PersistFires) /\ WF_vars(OnPersistTimeout)

FairSpec == Spec /\ Fairness

-----------------------------------------------------------------------------
\* Properties

Seqs == Nat
Block == [left : Nat, right : Nat]
Timer == [timer : {"nil", "armed", "fired"}, calls : Nat]

\* Types of the state of both ends and of the segments in the network.
TypeOK ==
    /\ state \in {"Established", "Closed"}
    /\ sendBuf \in [buf : Seq(Nat), una : Seqs, nxt : Seqs, sacked : SUBSET Block]
    /\ sndWnd \in Nat
    /\ rto \in Timer
    /\ persist \in Timer
    /\ retries \in 0 .. (MaxRetries + 1)
    /\ writer \in [size : Nat, left : Nat, woken : BOOLEAN]
    /\ wlen \in 0 .. Len(Source)
    /\ recvBuf \in [buf : Seq(Nat), nxt : Seqs, ooo : SUBSET [seq : Seqs, data : Seq(Nat)]]
    /\ delivered \in Seq(Nat)
    /\ data \subseteq [seq : Seqs, bytes : Seq(Nat)]
    /\ acks \subseteq [ack : Seqs, wnd : Nat, sack : SUBSET Block]
    /\ faults \in 0 .. MaxFaults

\* What R's application has read, and what waits in its receive buffer, is a
\* prefix of what S's application wrote: no byte lost, doubled or out of place
\* (SendBuf.RetransmitData, RecvBuf.Insert, mergeOOO).
PrefixDelivered ==
    LET got == delivered \o recvBuf.buf
    IN  Len(got) <= wlen /\ got = SubSeq(Source, 1, Len(got))

\* S drops a byte from its send buffer only when R holds it in order: una never
\* passes R's nxt, and R never expects a byte that was not sent.
AckedIsReceived ==
    sendBuf.una <= recvBuf.nxt /\ recvBuf.nxt <= sendBuf.nxt

\* retransmit() labels its payload with una although RetransmitData may skip
\* reported ranges: that is right only because una is never in one.
UnaNotSacked ==
    \A b \in sendBuf.sacked : ~Covers(b, sendBuf.una)

\* The scoreboard never claims a byte that R does not hold.
SackedIsHeld ==
    \A b \in sendBuf.sacked : \A n \in b.left .. (b.right - 1) :
        n < recvBuf.nxt \/ \E e \in recvBuf.ooo : Covers(Extent(e), n)

\* The out-of-order list of R holds numbers above nxt only, in entries that do
\* not overlap: Window subtracts their lengths and SACKBlocks reports them.
OOOSeparate ==
    /\ \A e \in recvBuf.ooo : recvBuf.nxt < e.seq /\ e.data # << >>
    /\ \A e, f \in recvBuf.ooo : e = f \/ Extent(e).right <= f.seq \/ Extent(f).right <= e.seq

\* The connection implements a reliable byte stream: bytes are accepted by
\* Write and come out of Read exactly once and in order.
Stream == INSTANCE ByteStream
StreamSpec == Stream!Spec

\* A Write larger than the send buffer has filled it, nothing is in flight that an ACK
\* could come for, and no persist callback is due: Write flushes only once all its
\* bytes are in the buffer, so it waits for ever.
Starved ==
    /\ writer.size > SendCap /\ writer.left > 0 /\ ~writer.woken
    /\ Unacked(sendBuf) = 0 /\ persist.timer # "armed" /\ persist.calls = 0

\* Every byte accepted by Write reaches R's application, unless S gives up
\* after MaxRetries or the call has starved.
Delivery ==
    \A n \in 1 .. Len(Source) :
        wlen >= n ~> (Len(delivered) >= n \/ state = "Closed" \/ Starved)

\* A Write that blocks on a full send buffer returns, if all its bytes would fit into
\* an empty one.
WriteReturns == writer.left > 0 /\ writer.size <= SendCap ~> writer.left = 0

\* net.Conn's Write returns for a buffer of any size, and Conn implements net.Conn
\* (conn.go:65); a larger one starves.
EveryWriteReturns == writer.left > 0 ~> writer.left = 0
=============================================================================
