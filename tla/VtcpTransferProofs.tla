------------------------- MODULE VtcpTransferProofs -------------------------
(***************************************************************************)
(* Proofs about VtcpTransfer, for every stream, buffer size, MSS, initial  *)
(* sequence number and number of faults: its safety properties, and that   *)
(* it implements ByteStream.                                               *)
(*                                                                         *)
(* The inductive invariant says where the bytes of the stream are.  The    *)
(* send buffer holds the stream from una on; every segment in the network  *)
(* and every entry of the out-of-order list is a piece of it below         *)
(* sendBuf.nxt; what was read and what waits to be read is the stream up   *)
(* to recvBuf.nxt.  For the scoreboard it says that every block reported   *)
(* by an ACK, on its way or already marked, holds numbers that have        *)
(* arrived, and that no acknowledgement, on its way or already taken,      *)
(* points into such a block: an ACK is sent when its number is missing.    *)
(***************************************************************************)
EXTENDS VtcpTransfer, VtcpBufProofs, FiniteSetTheorems

\* Sequence number of the first byte, and the stream by sequence number.
First == ISS + 1
Bytes == [n \in Int |-> Source[n - ISS]]

InBlock(b, x) == b.left <= x /\ x < b.right

\* Acknowledgements and blocks that are on their way or have been taken over.
Marks    == {sendBuf.una} \cup {a.ack : a \in acks}
Reported == sendBuf.sacked \cup UNION {a.sack : a \in acks}

LocalInv ==
    /\ state \in {"Established", "Closed"}
    /\ sndWnd \in Nat
    /\ rto \in Timer
    /\ persist \in Timer
    /\ retries \in 0 .. (MaxRetries + 1)
    /\ state = "Established" => retries <= MaxRetries
    /\ writer \in [size : Nat, left : Nat, woken : BOOLEAN]
    /\ wlen \in Nat
    /\ wlen + writer.left <= Len(Source)
    /\ faults \in 0 .. MaxFaults

SenderInv ==
    /\ SendSound(Bytes, First, First + wlen, sendBuf)
    /\ Segments(Bytes, First, sendBuf.nxt, data)

ReceiverInv ==
    /\ RecvSound(Bytes, First, sendBuf.nxt, recvBuf)
    /\ delivered \in Seq(Nat)
    /\ Carries(Bytes, First, delivered \o recvBuf.buf)
    /\ recvBuf.nxt = First + Len(delivered \o recvBuf.buf)

AckInv ==
    /\ sendBuf.una <= recvBuf.nxt
    /\ \A a \in acks : /\ a \in [ack : Nat, wnd : Nat, sack : SUBSET Block]
                       /\ First <= a.ack /\ a.ack <= recvBuf.nxt

ReportInv ==
    /\ \A b \in Reported : /\ b \in Block
                           /\ First <= b.left /\ b.left <= b.right /\ b.right <= sendBuf.nxt
                           /\ \A n \in b.left .. (b.right - 1) : Holds(recvBuf, n)
    /\ \A b \in Reported : \A x \in Marks : ~InBlock(b, x)

Inv == LocalInv /\ SenderInv /\ ReceiverInv /\ AckInv /\ ReportInv

-----------------------------------------------------------------------------
\* Constants and bounds

\* The assumptions on the constants, in the form the steps below use.
LEMMA ConstantTypes ==
    /\ Half \in Nat /\ RecvCap \in Nat /\ MSS \in Nat /\ ISS \in Nat /\ First \in Nat
    /\ Source \in Seq(Nat) /\ Len(Source) \in Nat /\ Len(Source) + RecvCap < Half
    /\ WndScale \in Nat /\ WndScale # 0 /\ MaxWindow \in Nat
    /\ Cwnds \subseteq Nat /\ MaxRetries \in Nat /\ MaxFaults \in Nat
  BY HalfAssumption, BufAssumption, TransferAssumption, LenProperties DEF First

\* Source carries the stream from First on.
LEMMA SourceCarries ==
    Carries(Bytes, First, Source)
  <1>1. ASSUME NEW i \in 1 .. Len(Source)
        PROVE  Source[i] = Bytes[First + i - 1]
    <2>1. First + i - 1 \in Int /\ (First + i - 1) - ISS = i
      BY ConstantTypes DEF First
    <2> QED
      BY <2>1 DEF Bytes
  <1> QED
    BY <1>1, ConstantTypes DEF Carries

\* Any part of it that Write hands over does too.
LEMMA NextBytesCarry ==
    ASSUME wlen \in Nat, NEW n \in Nat, wlen + n <= Len(Source)
    PROVE  Carries(Bytes, First + wlen, NextBytes(n)) /\ Len(NextBytes(n)) = n
  <1>1. PICK i, j, z : i = wlen + 1 /\ j = wlen + n /\ z = Len(Source)
    OBVIOUS
  <1>2. z \in Nat /\ First \in Int
    BY <1>1, ConstantTypes
  <1>3. i \in 1 .. (Len(Source) + 1) /\ j \in Int /\ j <= Len(Source)
    BY <1>1, <1>2
  <1>4. /\ Carries(Bytes, First + i - 1, SubSeq(Source, i, j))
        /\ Len(SubSeq(Source, i, j)) = IF i <= j THEN j - i + 1 ELSE 0
    BY ONLY <1>2, <1>3, SourceCarries, CarriesSub
  <1>5. First + i - 1 = First + wlen /\ (IF i <= j THEN j - i + 1 ELSE 0) = n
    BY <1>1, <1>2
  <1> QED
    BY <1>1, <1>4, <1>5 DEF NextBytes

\* The numbers in use span less than half the sequence space, a window included.
LEMMA Span ==
    ASSUME LocalInv, SenderInv
    PROVE  /\ sendBuf.nxt \in Nat /\ First + wlen \in Nat
           /\ (First + wlen) - First < Half
           /\ (sendBuf.nxt - First) + RecvCap < Half /\ sendBuf.nxt - First < Half
  <1>1. PICK v, z, k : v = sendBuf.nxt /\ z = Len(Source) /\ k = writer.left
    BY Zenon
  <1>2. wlen \in Nat /\ k \in Nat /\ wlen + k <= z
    BY <1>1 DEF LocalInv
  <1>3. v \in Nat /\ v <= First + wlen
    BY <1>1 DEF SenderInv, SendSound, SendShape
  <1>4. First \in Nat /\ z \in Nat /\ RecvCap \in Nat /\ Half \in Nat /\ z + RecvCap < Half
    BY <1>1, ConstantTypes
  <1>5. /\ First + wlen \in Nat /\ (First + wlen) - First < Half
        /\ (v - First) + RecvCap < Half /\ v - First < Half
    BY ONLY <1>2, <1>3, <1>4
  <1> QED
    BY <1>1, <1>3, <1>5

\* A piece below T is a piece below any larger bound.
LEMMA PieceLater ==
    ASSUME NEW f, NEW L \in Nat, NEW T \in Nat, NEW U \in Nat, T <= U
    PROVE  /\ \A e : Piece(f, L, T, e) => Piece(f, L, U, e)
           /\ \A net : Segments(f, L, T, net) => Segments(f, L, U, net)
           /\ \A r : RecvSound(f, L, T, r) => RecvSound(f, L, U, r)
  <1>1. ASSUME NEW e, Piece(f, L, T, e)
        PROVE  Piece(f, L, U, e)
    <2>1. PICK q, k : q = e.seq /\ k = Len(e.data)
      BY Zenon
    <2>2. q \in L .. T /\ k \in Nat /\ q + k <= T
      BY <1>1, <2>1, LenProperties DEF Piece
    <2>3. q \in L .. U /\ q + k <= U
      BY <2>2
    <2> QED
      BY <1>1, <2>1, <2>3 DEF Piece
  <1>2. \A net : Segments(f, L, T, net) => Segments(f, L, U, net)
    BY <1>1 DEF Segments
  <1>3. ASSUME NEW r, RecvSound(f, L, T, r)
        PROVE  RecvSound(f, L, U, r)
    BY <1>1, <1>3 DEF RecvSound
  <1> QED
    BY <1>1, <1>2, <1>3

-----------------------------------------------------------------------------
\* Steps of the sender

\* A step of S leaves R alone and keeps the invariant when the send buffer and
\* the segments stay sound, una becomes a number some ACK carried, and the
\* scoreboard takes blocks some ACK reported.
LEMMA SenderStep ==
    ASSUME SenderInv, ReceiverInv, AckInv, ReportInv,
           UNCHANGED <<recvBuf, delivered>>,
           wlen' \in Nat,
           SendSound(Bytes, First, First + wlen', sendBuf'),
           sendBuf.nxt <= sendBuf'.nxt,
           sendBuf'.una \in Marks,
           sendBuf'.sacked \subseteq Reported,
           acks' \subseteq acks,
           Segments(Bytes, First, sendBuf'.nxt, data')
    PROVE  SenderInv' /\ ReceiverInv' /\ AckInv' /\ ReportInv'
  <1>1. sendBuf.nxt \in Nat /\ sendBuf'.nxt \in Nat /\ First \in Nat
    BY ConstantTypes DEF SenderInv, SendSound, SendShape
  <1>2. SenderInv'
    BY DEF SenderInv, First, Bytes
  <1>3. ReceiverInv'
    <2>1. RecvSound(Bytes, First, sendBuf'.nxt, recvBuf)
      BY <1>1, PieceLater, Zenon DEF ReceiverInv
    <2> QED
      BY <2>1 DEF ReceiverInv, First, Bytes
  <1>4. AckInv'
    BY DEF AckInv, Marks, First
  <1>5. Marks' \subseteq Marks /\ Reported' \subseteq Reported
    BY DEF Marks, Reported
  <1>6. ReportInv'
    <2>1. ASSUME NEW b \in Reported'
          PROVE  /\ b \in Block
                 /\ First <= b.left /\ b.left <= b.right /\ b.right <= sendBuf'.nxt
                 /\ \A n \in b.left .. (b.right - 1) : Holds(recvBuf', n)
      <3>1. /\ b \in Block /\ First <= b.left /\ b.left <= b.right /\ b.right <= sendBuf.nxt
            /\ \A n \in b.left .. (b.right - 1) : Holds(recvBuf, n)
        BY <1>5 DEF ReportInv
      <3>2. b.right <= sendBuf'.nxt
        BY <1>1, <3>1 DEF Block
      <3> QED
        BY <3>1, <3>2
    <2>2. \A b \in Reported' : \A x \in Marks' : ~InBlock(b, x)
      BY <1>5 DEF ReportInv
    <2> QED
      BY <2>1, <2>2 DEF ReportInv, InBlock, First, Block
  <1> QED
    BY <1>2, <1>3, <1>4, <1>6

\* flushSendQueue on a sound send buffer.
LEMMA FlushStep ==
    ASSUME NEW W \in Nat, NEW s, SendSound(Bytes, First, W, s),
           NEW r \in Timer, NEW p \in Timer, sndWnd \in Nat,
           Segments(Bytes, First, s.nxt, data),
           FlushSendQueue(s, r, p)
    PROVE  /\ SendSound(Bytes, First, W, sendBuf')
           /\ sendBuf'.una = s.una /\ sendBuf'.sacked = s.sacked /\ s.nxt <= sendBuf'.nxt
           /\ Segments(Bytes, First, sendBuf'.nxt, data')
           /\ rto' \in Timer /\ persist' \in Timer
  <1>1. PICK cwnd, n :
           /\ cwnd \in Cwnds
           /\ n = FlushLen(s, AtMost(sndWnd, cwnd))
           /\ sendBuf' = AdvanceSent(s, n)
           /\ data' = data \cup FlushSegments(s, n)
           /\ rto' = IF n > 0 /\ r.timer = "nil" THEN Start(r) ELSE r
           /\ persist' = IF Pending(AdvanceSent(s, n)) > 0 /\ sndWnd = 0 /\ p.timer = "nil"
                         THEN Start(p) ELSE p
    BY DEF FlushSendQueue
  <1>2. AtMost(sndWnd, cwnd) \in Nat /\ First \in Nat
    BY <1>1, ConstantTypes DEF AtMost
  <1>3. n \in 0 .. Pending(s) /\ Pending(s) = W - s.nxt
    BY <1>1, <1>2, FlushLenBound
  <1>4. PICK t : t = AdvanceSent(s, n)
    OBVIOUS
  <1>5. /\ SendSound(Bytes, First, W, t)
        /\ t.nxt = s.nxt + n /\ t.una = s.una /\ t.sacked = s.sacked
        /\ Segments(Bytes, First, t.nxt, FlushSegments(s, n))
    <2>1. /\ SendSound(Bytes, First, W, AdvanceSent(s, n))
          /\ AdvanceSent(s, n).nxt = s.nxt + n /\ AdvanceSent(s, n).una = s.una
          /\ AdvanceSent(s, n).sacked = s.sacked
          /\ Segments(Bytes, First, AdvanceSent(s, n).nxt, FlushSegments(s, n))
      BY ONLY <1>2, <1>3, W \in Nat, SendSound(Bytes, First, W, s), FlushSound
    <2> QED
      BY <1>4, <2>1
  <1>6. s.nxt \in Nat /\ t.nxt \in Nat /\ s.nxt <= t.nxt
    <2>1. PICK v, v2 : v = s.nxt /\ v2 = t.nxt
      OBVIOUS
    <2>2. v \in Nat /\ v2 \in Nat /\ v2 = v + n /\ n \in 0 .. (W - v)
      BY <1>3, <1>5, <2>1 DEF SendSound, SendShape
    <2> QED
      BY <2>1, <2>2
  <1>7. Segments(Bytes, First, t.nxt, data)
    BY <1>2, <1>6, PieceLater
  <1>8. Segments(Bytes, First, t.nxt, data \cup FlushSegments(s, n))
    BY <1>5, <1>7 DEF Segments
  <1>9. rto' \in Timer /\ persist' \in Timer
    BY <1>1 DEF Timer, Start
  <1> QED
    BY <1>1, <1>4, <1>5, <1>6, <1>8, <1>9

\* A step of S that leaves the network's ACKs, una and the scoreboard alone.
LEMMA KeepsMarks ==
    sendBuf.una \in Marks /\ sendBuf.sacked \subseteq Reported
  BY DEF Marks, Reported

\* One pass of the copy loop of Write.
LEMMA CopyStep ==
    ASSUME Inv, NEW size \in Nat, NEW n \in Nat, wlen + n <= Len(Source), CopyLoop(size, n),
           UNCHANGED <<recvBuf, delivered, acks>>
    PROVE  /\ SenderInv' /\ ReceiverInv' /\ AckInv' /\ ReportInv'
           /\ rto' \in Timer /\ persist' \in Timer
           /\ writer' \in [size : Nat, left : Nat, woken : BOOLEAN]
           /\ wlen' \in Nat /\ wlen' + writer'.left <= Len(Source) /\ wlen <= wlen'
  <1>1. /\ wlen \in Nat /\ First \in Nat /\ rto \in Timer /\ persist \in Timer /\ sndWnd \in Nat
        /\ SendSound(Bytes, First, First + wlen, sendBuf)
        /\ Segments(Bytes, First, sendBuf.nxt, data)
    BY ConstantTypes DEF Inv, LocalInv, SenderInv
  <1>2. PICK s, bytes, W : bytes = NextBytes(n) /\ s = SendBufWrite(sendBuf, bytes) /\ W = First + wlen
    OBVIOUS
  <1>3. PICK took : took = Len(s.buf) - Len(sendBuf.buf)
    BY Zenon
  <1>4. Carries(Bytes, W, bytes) /\ Len(bytes) = n /\ W \in Nat
    BY <1>1, <1>2, NextBytesCarry
  <1>5. /\ took \in 0 .. n
        /\ SendSound(Bytes, First, W + took, s)
        /\ s.una = sendBuf.una /\ s.nxt = sendBuf.nxt /\ s.sacked = sendBuf.sacked
    <2>1. SendSound(Bytes, First, W, sendBuf)
      BY <1>1, <1>2
    <2>2. PICK x, z : x = sendBuf /\ z = Len(x.buf)
      BY Zenon
    <2>3. /\ First \in Nat /\ W \in Nat /\ SendSound(Bytes, First, W, x) /\ Carries(Bytes, W, bytes)
          /\ s = SendBufWrite(x, bytes)
      BY <1>1, <1>2, <1>4, <2>1, <2>2, SMTT(30)
    <2>4. /\ \E k \in Nat, V \in Nat : /\ k <= Len(bytes) /\ Len(s.buf) = Len(x.buf) + k /\ V = W + k
                                       /\ SendSound(Bytes, First, V, s)
          /\ s.una = x.una /\ s.nxt = x.nxt /\ s.sacked = x.sacked
      BY ONLY <2>3, WriteSound
    <2>5. PICK k \in Nat, V \in Nat : /\ k <= Len(bytes) /\ Len(s.buf) = z + k /\ V = W + k
                                      /\ SendSound(Bytes, First, V, s)
      BY <2>2, <2>4
    <2>6. z \in Nat
      BY <2>2, <2>3, LenProperties DEF SendSound, SendShape
    <2>7. took = (z + k) - z
      BY <1>3, <2>2, <2>5
    <2>8. took = k
      BY ONLY <2>5, <2>6, <2>7
    <2> QED
      BY <1>4, <2>2, <2>4, <2>5, <2>8, SMTT(30)
  <1>6. wlen' = wlen + took
    BY <1>2, <1>3 DEF CopyLoop
  <1>7. wlen' \in Nat /\ First + wlen' = W + took /\ wlen <= wlen'
    BY <1>1, <1>2, <1>5, <1>6
  <1>8. SendSound(Bytes, First, First + wlen', s)
    BY <1>5, <1>7
  <1>9. Segments(Bytes, First, s.nxt, data)
    BY <1>1, <1>5
  <1>10. CASE took = n
    <2>1. writer' = Idle /\ FlushSendQueue(s, rto, persist)
      BY <1>2, <1>3, <1>10, ZenonT(30) DEF CopyLoop
    <2>2. /\ SendSound(Bytes, First, First + wlen', sendBuf')
          /\ sendBuf'.una = s.una /\ sendBuf'.sacked = s.sacked /\ s.nxt <= sendBuf'.nxt
          /\ Segments(Bytes, First, sendBuf'.nxt, data')
          /\ rto' \in Timer /\ persist' \in Timer
      <3>1. PICK V : V = First + wlen' /\ V \in Nat
        BY <1>1, <1>7
      <3>2. SendSound(Bytes, First, V, s)
        BY <1>8, <3>1
      <3> QED
        BY <1>1, <1>9, <2>1, <3>1, <3>2, FlushStep, SMTT(30)
    <2>3. SenderInv' /\ ReceiverInv' /\ AckInv' /\ ReportInv'
      BY <1>5, <1>7, <2>2, KeepsMarks, SenderStep, SMTT(30) DEF Inv
    <2>4. writer' \in [size : Nat, left : Nat, woken : BOOLEAN] /\ wlen' + writer'.left <= Len(Source)
      BY <1>1, <1>6, <1>10, <2>1, ConstantTypes DEF Idle
    <2> QED
      BY <1>7, <2>2, <2>3, <2>4
  <1>11. CASE took # n
    <2>1. /\ writer' = [size |-> size, left |-> n - took, woken |-> FALSE]
          /\ sendBuf' = s /\ UNCHANGED <<rto, persist, data>>
      BY <1>2, <1>3, <1>11, ZenonT(30) DEF CopyLoop
    <2>2. s.nxt <= s.nxt
      BY <1>8 DEF SendSound, SendShape
    <2>3. SenderInv' /\ ReceiverInv' /\ AckInv' /\ ReportInv'
      BY <1>5, <1>7, <1>8, <1>9, <2>1, <2>2, KeepsMarks, SenderStep DEF Inv
    <2>4. writer' \in [size : Nat, left : Nat, woken : BOOLEAN] /\ wlen' + writer'.left <= Len(Source)
      <3>1. PICK z : z = Len(Source) /\ z \in Nat
        BY ConstantTypes
      <3>2. n - took \in Nat /\ wlen' + (n - took) <= z
        BY <1>1, <1>5, <1>6, <3>1
      <3> QED
        BY <2>1, <3>1, <3>2
    <2> QED
      BY <1>1, <1>7, <2>1, <2>3, <2>4, SMTT(30)
  <1> QED
    BY <1>10, <1>11

\* A call of Write, which copies and flushes or blocks, keeps the invariant.
LEMMA WriteKeeps ==
    ASSUME Inv, NEW n \in 1 .. MaxWrite, Write(n)
    PROVE  Inv'
  <1>1. /\ n \in Nat /\ wlen + n <= Len(Source) /\ CopyLoop(n, n)
        /\ UNCHANGED <<state, sndWnd, retries, recvBuf, delivered, acks, faults>>
    BY TransferAssumption DEF Write, recvVars
  <1>2. /\ SenderInv' /\ ReceiverInv' /\ AckInv' /\ ReportInv'
        /\ rto' \in Timer /\ persist' \in Timer
        /\ writer' \in [size : Nat, left : Nat, woken : BOOLEAN]
        /\ wlen' \in Nat /\ wlen' + writer'.left <= Len(Source)
    BY <1>1, CopyStep
  <1>3. LocalInv'
    BY <1>1, <1>2 DEF Inv, LocalInv, Timer
  <1> QED
    BY <1>2, <1>3 DEF Inv

\* A step that changes no data of either end keeps all but LocalInv.
LEMMA QuietStep ==
    ASSUME Inv, UNCHANGED <<sendBuf, wlen, recvBuf, delivered>>, acks' \subseteq acks,
           Segments(Bytes, First, sendBuf.nxt, data')
    PROVE  SenderInv' /\ ReceiverInv' /\ AckInv' /\ ReportInv'
  <1>1. /\ SendSound(Bytes, First, First + wlen', sendBuf') /\ wlen' \in Nat
        /\ sendBuf.nxt <= sendBuf'.nxt
    BY DEF Inv, LocalInv, SenderInv, SendSound, SendShape
  <1> QED
    BY <1>1, KeepsMarks, SenderStep DEF Inv

\* A blocked Write that goes on after sendCond.Broadcast keeps the invariant.
LEMMA WriteWakesKeeps ==
    ASSUME Inv, WriteWakes
    PROVE  Inv'
  <1>1. UNCHANGED <<state, sndWnd, retries, recvBuf, delivered, acks, faults>>
    BY DEF WriteWakes, recvVars
  <1>2. CASE state = "Closed"
    <2>1. writer' = Idle /\ UNCHANGED <<sendBuf, rto, persist, wlen, data>>
      BY <1>2 DEF WriteWakes
    <2>2. SenderInv' /\ ReceiverInv' /\ AckInv' /\ ReportInv'
      BY <1>1, <2>1, QuietStep DEF Inv, SenderInv
    <2>3. LocalInv'
      <3>1. PICK z, k : z = Len(Source) /\ k = writer.left
        BY Zenon
      <3>2. z \in Nat /\ k \in Nat /\ wlen \in Nat /\ wlen + k <= z
        BY <3>1, ConstantTypes DEF Inv, LocalInv
      <3>3. wlen + 0 <= z
        BY ONLY <3>2
      <3> QED
        BY <1>1, <2>1, <3>1, <3>3 DEF Inv, LocalInv, Idle, Timer
    <2> QED
      BY <2>2, <2>3 DEF Inv
  <1>3. CASE state # "Closed"
    <2>1. CopyLoop(writer.size, writer.left)
      BY <1>3 DEF WriteWakes
    <2>2. PICK z, k : z = writer.size /\ k = writer.left
      BY Zenon
    <2>3. z \in Nat /\ k \in Nat /\ wlen + k <= Len(Source) /\ CopyLoop(z, k)
      BY <2>1, <2>2 DEF Inv, LocalInv
    <2>4. /\ SenderInv' /\ ReceiverInv' /\ AckInv' /\ ReportInv'
          /\ rto' \in Timer /\ persist' \in Timer
          /\ writer' \in [size : Nat, left : Nat, woken : BOOLEAN]
          /\ wlen' \in Nat /\ wlen' + writer'.left <= Len(Source)
      BY <1>1, <2>3, CopyStep, SMTT(30)
    <2>5. LocalInv'
      BY <1>1, <2>4 DEF Inv, LocalInv, Timer
    <2> QED
      BY <2>4, <2>5 DEF Inv
  <1> QED
    BY <1>2, <1>3

\* The scoreboard never covers una.
LEMMA UnaClear ==
    ASSUME Inv
    PROVE  UnaNotSacked
  <1>1. SUFFICES ASSUME NEW b \in sendBuf.sacked
                 PROVE  ~Covers(b, sendBuf.una)
    BY DEF UnaNotSacked
  <1>2. PICK u, T, lf, rt : u = sendBuf.una /\ T = sendBuf.nxt /\ lf = b.left /\ rt = b.right
    OBVIOUS
  <1>3. /\ b \in Block /\ First <= lf /\ lf <= rt /\ rt <= T /\ ~(lf <= u /\ u < rt)
    BY <1>2, KeepsMarks DEF Inv, ReportInv, InBlock
  <1>4. lf \in Nat /\ rt \in Nat
    BY <1>2, <1>3 DEF Block
  <1>5. u \in Nat /\ T \in Nat /\ First <= u /\ u <= T
    BY <1>2 DEF Inv, SenderInv, SendSound, SendShape
  <1>6. T - First < Half /\ First \in Int /\ T \in Int
    BY <1>2, <1>5, Span, ConstantTypes DEF Inv
  <1>7. lf \in First .. T /\ rt \in First .. T /\ u \in First .. T
    BY ONLY <1>3, <1>4, <1>5, <1>6
  <1>8. Covers(b, u) <=> b.left <= u /\ u < b.right
    BY <1>2, <1>6, <1>7, CoversInterval
  <1> QED
    BY <1>2, <1>3, <1>8

\* Taking a segment from the network.
LEMMA TakeShrinks ==
    ASSUME NEW m, faults \in 0 .. MaxFaults
    PROVE  /\ Take(acks, m) => acks' \subseteq acks /\ faults' \in 0 .. MaxFaults
           /\ Take(data, m) => data' \subseteq data /\ faults' \in 0 .. MaxFaults
  BY ConstantTypes DEF Take

\* A retransmission is sound.
LEMMA RetransmitStep ==
    ASSUME Inv, NEW out, out \subseteq Retransmission(sendBuf)
    PROVE  Segments(Bytes, First, sendBuf.nxt, data \cup out)
  <1>1. SendSound(Bytes, First, First + wlen, sendBuf) /\ First \in Nat /\ First + wlen \in Nat
    BY Span, ConstantTypes DEF Inv, SenderInv
  <1>2. \A b \in sendBuf.sacked : ~Covers(b, sendBuf.una)
    BY UnaClear DEF UnaNotSacked
  <1>3. PICK W : W = First + wlen
    OBVIOUS
  <1>4. Segments(Bytes, First, sendBuf.nxt, Retransmission(sendBuf))
    BY <1>1, <1>2, <1>3, RetransmissionSound
  <1> QED
    BY <1>4 DEF Segments, Inv, SenderInv

\* The window that S takes from a segment is a number.
LEMMA SndWindowType == ASSUME NEW w \in Nat PROVE SndWindow(w) \in Nat
  BY ConstantTypes DEF SndWindow

\* Waking the writer keeps its type.
LEMMA WakeType ==
    ASSUME NEW w \in [size : Nat, left : Nat, woken : BOOLEAN]
    PROVE  Wake(w) \in [size : Nat, left : Nat, woken : BOOLEAN] /\ Wake(w).left = w.left
  BY Zenon DEF Wake

\* processACK on an ACK that does not advance una keeps the invariant.
LEMMA HandleDupAckKeeps ==
    ASSUME Inv, NEW m \in acks, NEW fast \in BOOLEAN, state = "Established", HandleDupAck(m, fast)
    PROVE  Inv'
  <1> DEFINE out == IF fast THEN Retransmission(sendBuf) ELSE {}
  <1>1. /\ Take(acks, m)
        /\ data' = data \cup out
        /\ rto' = IF out = {} THEN rto ELSE Start(rto)
        /\ sendBuf' = MarkSACKed(sendBuf, m.sack)
        /\ sndWnd' = SndWindow(m.wnd)
        /\ UNCHANGED <<state, persist, retries, writer, wlen, recvBuf, delivered>>
    BY DEF HandleDupAck, recvVars
  <1>2. acks' \subseteq acks /\ faults' \in 0 .. MaxFaults
    BY <1>1, TakeShrinks DEF Inv, LocalInv
  <1>3. out \subseteq Retransmission(sendBuf)
    OBVIOUS
  <1> HIDE DEF out
  <1>4. m.wnd \in Nat /\ m.sack \subseteq [left : Nat, right : Nat] /\ m.sack \subseteq Reported
    BY DEF Inv, AckInv, Reported, Block
  <1>5. LocalInv'
    BY <1>1, <1>2, <1>4, SndWindowType DEF Inv, LocalInv, Timer, Start
  <1>6. SendSound(Bytes, First, First + wlen, sendBuf) /\ First \in Nat /\ First + wlen \in Nat
    BY Span, ConstantTypes DEF Inv, SenderInv
  <1>7. /\ SendSound(Bytes, First, First + wlen, sendBuf')
        /\ sendBuf'.nxt = sendBuf.nxt /\ sendBuf'.una = sendBuf.una
        /\ sendBuf'.sacked \subseteq sendBuf.sacked \cup m.sack
    <2>1. PICK W, x, bl : W = First + wlen /\ x = sendBuf /\ bl = m.sack
      OBVIOUS
    <2>2. SendSound(Bytes, First, W, x) /\ First \in Nat /\ W \in Nat /\ bl \subseteq [left : Nat, right : Nat]
      BY <1>4, <1>6, <2>1
    <2>3. /\ SendSound(Bytes, First, W, MarkSACKed(x, bl))
          /\ MarkSACKed(x, bl).nxt = x.nxt /\ MarkSACKed(x, bl).una = x.una
          /\ MarkSACKed(x, bl).sacked \subseteq x.sacked \cup bl
      BY ONLY <2>2, MarkSound
    <2> QED
      BY <1>1, <2>1, <2>3
  <1>8. Segments(Bytes, First, sendBuf'.nxt, data')
    BY <1>1, <1>3, <1>7, RetransmitStep, SMTT(20)
  <1>9. /\ sendBuf'.una \in Marks /\ sendBuf'.sacked \subseteq Reported
        /\ sendBuf.nxt <= sendBuf'.nxt /\ wlen' \in Nat
    BY <1>1, <1>4, <1>7, KeepsMarks, Span, SMTT(20) DEF Inv, LocalInv
  <1>10. SenderInv' /\ ReceiverInv' /\ AckInv' /\ ReportInv'
    BY <1>1, <1>2, <1>7, <1>8, <1>9, SenderStep, SMTT(30) DEF Inv
  <1> QED
    BY <1>5, <1>10 DEF Inv

\* processACK on an ACK that advances una, with the flush it triggers, keeps
\* the invariant.
LEMMA HandleNewAckKeeps ==
    ASSUME Inv, NEW m \in acks, state = "Established", HandleNewAck(m)
    PROVE  Inv'
  <1>a. ~SeqAfter(m.ack, sendBuf.nxt)
    <2>1. PICK q, v, k : q = recvBuf.nxt /\ v = sendBuf.nxt /\ k = m.ack
      OBVIOUS
    <2>2. /\ q \in Nat /\ v \in Nat /\ q <= v /\ k \in Nat /\ First <= k /\ k <= q
          /\ First <= v /\ v - First < Half
      BY <2>1, Span, ConstantTypes DEF Inv, AckInv, ReceiverInv, RecvSound, RecvShape
    <2>3. k \in Int /\ v \in Int /\ k - v < Half /\ v - k < Half /\ ~(k > v)
      BY ONLY <2>2, ConstantTypes
    <2>4. ~SeqAfter(k, v)
      BY ONLY <2>3, SeqOrder
    <2> QED
      BY <2>1, <2>4
  <1>1. PICK s, r, p :
           /\ s = MarkSACKed(Acknowledge(sendBuf, m.ack), m.sack)
           /\ r = IF Unacked(s) > 0 THEN Start(rto) ELSE Stop(rto)
           /\ p = IF sndWnd > 0 THEN Stop(persist) ELSE persist
    OBVIOUS
  <1>2. /\ Take(acks, m) /\ FlushSendQueue(s, r, p)
        /\ retries' = 0 /\ writer' = Wake(writer) /\ sndWnd' = SndWindow(m.wnd)
        /\ UNCHANGED <<state, wlen, recvBuf, delivered>>
    BY <1>1, <1>a DEF HandleNewAck, recvVars
  <1>3. acks' \subseteq acks /\ faults' \in 0 .. MaxFaults
    BY <1>2, TakeShrinks DEF Inv, LocalInv
  <1>4. /\ m.wnd \in Nat /\ m.ack \in Nat /\ m.sack \subseteq [left : Nat, right : Nat]
        /\ First <= m.ack /\ m.ack <= recvBuf.nxt
        /\ m.sack \subseteq Reported /\ m.ack \in Marks
    BY DEF Inv, AckInv, Reported, Marks, Block
  <1>5. PICK W, x, k, bl : W = First + wlen /\ x = sendBuf /\ k = m.ack /\ bl = m.sack
    OBVIOUS
  <1>6. /\ SendSound(Bytes, First, W, x) /\ First \in Nat /\ W \in Nat /\ W - First < Half
        /\ k \in Nat /\ First <= k /\ bl \subseteq [left : Nat, right : Nat]
    BY <1>4, <1>5, Span, ConstantTypes, SMTT(30) DEF Inv, SenderInv
  <1>7. k <= x.nxt
    <2>1. PICK q, v : q = recvBuf.nxt /\ v = x.nxt
      OBVIOUS
    <2>2. q \in Nat /\ v \in Nat /\ q <= v /\ k <= q
      BY <1>4, <1>5, <2>1, Span, ConstantTypes DEF Inv, ReceiverInv, RecvSound, RecvShape
    <2> QED
      BY <1>6, <2>1, <2>2
  <1>8. PICK a : a = Acknowledge(x, k)
    OBVIOUS
  <1>9. SendSound(Bytes, First, W, a) /\ a.nxt = x.nxt /\ (a.una = x.una \/ a.una = k) /\ a.sacked \subseteq x.sacked
    <2>1. /\ SendSound(Bytes, First, W, Acknowledge(x, k)) /\ Acknowledge(x, k).nxt = x.nxt
          /\ (Acknowledge(x, k).una = x.una \/ Acknowledge(x, k).una = k) /\ Acknowledge(x, k).sacked \subseteq x.sacked
      BY ONLY <1>6, <1>7, AcknowledgeSound, SMTT(20)
    <2> QED
      BY <1>8, <2>1, SMTT(20)
  <1>10. /\ SendSound(Bytes, First, W, s)
         /\ s.nxt = a.nxt /\ s.una = a.una /\ s.sacked \subseteq a.sacked \cup bl
    <2>1. /\ SendSound(Bytes, First, W, MarkSACKed(a, bl))
          /\ MarkSACKed(a, bl).nxt = a.nxt /\ MarkSACKed(a, bl).una = a.una
          /\ MarkSACKed(a, bl).sacked \subseteq a.sacked \cup bl
      BY ONLY <1>6, <1>9, MarkSound, Zenon
    <2> QED
      BY <1>1, <1>5, <1>8, <2>1
  <1>11. r \in Timer /\ p \in Timer /\ sndWnd \in Nat
    BY <1>1 DEF Inv, LocalInv, Timer, Start, Stop
  <1>12. Segments(Bytes, First, s.nxt, data)
    BY <1>5, <1>9, <1>10, SMTT(20) DEF Inv, SenderInv
  <1>13. /\ SendSound(Bytes, First, W, sendBuf')
         /\ sendBuf'.una = s.una /\ sendBuf'.sacked = s.sacked /\ s.nxt <= sendBuf'.nxt
         /\ Segments(Bytes, First, sendBuf'.nxt, data')
         /\ rto' \in Timer /\ persist' \in Timer
    BY <1>2, <1>6, <1>10, <1>11, <1>12, FlushStep, SMTT(30)
  <1>14. sendBuf'.una \in Marks /\ sendBuf'.sacked \subseteq Reported
    BY <1>4, <1>5, <1>9, <1>10, <1>13, KeepsMarks
  <1>15. SenderInv' /\ ReceiverInv' /\ AckInv' /\ ReportInv'
    <2>1. wlen' \in Nat /\ sendBuf.nxt <= sendBuf'.nxt /\ SendSound(Bytes, First, First + wlen', sendBuf')
      BY <1>2, <1>5, <1>9, <1>10, <1>13, ZenonT(30) DEF Inv, LocalInv
    <2> QED
      BY <1>2, <1>3, <1>13, <1>14, <2>1, SenderStep, ZenonT(30) DEF Inv
  <1>16. LocalInv'
    <2>1. 0 \in 0 .. (MaxRetries + 1) /\ 0 <= MaxRetries
      BY ConstantTypes
    <2>2. writer' \in [size : Nat, left : Nat, woken : BOOLEAN] /\ writer'.left = writer.left
      BY <1>2, WakeType DEF Inv, LocalInv
    <2> QED
      BY <1>2, <1>3, <1>4, <1>13, <2>1, <2>2, SndWindowType, ZenonT(30) DEF Inv, LocalInv, Timer
  <1> QED
    BY <1>15, <1>16 DEF Inv

\* An ACK in either state of the sender keeps the invariant.
LEMMA HandleAckKeeps ==
    ASSUME Inv, NEW m \in acks, HandleAck(m)
    PROVE  Inv'
  <1>1. CASE state = "Established" /\ \E fast \in BOOLEAN : HandleDupAck(m, fast)
    BY <1>1, HandleDupAckKeeps
  <1>2. CASE state = "Established" /\ HandleNewAck(m)
    BY <1>2, HandleNewAckKeeps
  <1>3. CASE state = "Closed" /\ HandleAckClosed(m)
    <2>1. /\ Take(acks, m)
          /\ UNCHANGED <<state, sendBuf, sndWnd, rto, persist, retries, writer, wlen, recvBuf, delivered, data>>
      BY <1>3 DEF HandleAckClosed, sendVars, recvVars
    <2>2. acks' \subseteq acks /\ faults' \in 0 .. MaxFaults
      BY <2>1, TakeShrinks DEF Inv, LocalInv
    <2>3. SenderInv' /\ ReceiverInv' /\ AckInv' /\ ReportInv'
      BY <2>1, <2>2, QuietStep DEF Inv, SenderInv
    <2>4. LocalInv'
      BY <2>1, <2>2 DEF Inv, LocalInv, Timer
    <2> QED
      BY <2>3, <2>4 DEF Inv
  <1> QED
    BY <1>1, <1>2, <1>3 DEF HandleAck

\* Losing a segment keeps the invariant: it speaks of segments present.
LEMMA LoseKeeps ==
    ASSUME Inv, NEW m, LoseData(m) \/ LoseAck(m)
    PROVE  Inv'
  <1>1. /\ UNCHANGED <<state, sendBuf, sndWnd, rto, persist, retries, writer, wlen, recvBuf, delivered>>
        /\ acks' \subseteq acks /\ data' \subseteq data
        /\ faults < MaxFaults /\ faults' = faults + 1
    BY DEF LoseData, LoseAck, Lose, sendVars, recvVars
  <1>2. Segments(Bytes, First, sendBuf.nxt, data')
    BY <1>1 DEF Segments, Inv, SenderInv
  <1>3. SenderInv' /\ ReceiverInv' /\ AckInv' /\ ReportInv'
    BY <1>1, <1>2, QuietStep
  <1>4. faults' \in 0 .. MaxFaults
    BY <1>1, ConstantTypes DEF Inv, LocalInv
  <1>5. LocalInv'
    BY <1>1, <1>4 DEF Inv, LocalInv, Timer
  <1> QED
    BY <1>3, <1>5 DEF Inv

\* A timer that fires keeps the invariant: its callback has not run yet.
LEMMA FiresKeeps ==
    ASSUME Inv, RTOFires \/ PersistFires
    PROVE  Inv'
  <1>1. /\ UNCHANGED <<state, sendBuf, sndWnd, retries, writer, wlen, recvBuf, delivered, data, acks, faults>>
        /\ rto' \in Timer /\ persist' \in Timer
    BY SMTT(20) DEF RTOFires, PersistFires, Fires, Timer, recvVars, netVars, Inv, LocalInv
  <1>2. SenderInv' /\ ReceiverInv' /\ AckInv' /\ ReportInv'
    BY <1>1, QuietStep DEF Inv, SenderInv
  <1>3. LocalInv'
    BY <1>1 DEF Inv, LocalInv, Timer
  <1> QED
    BY <1>2, <1>3 DEF Inv

\* A callback that returns leaves its timer well formed.
LEMMA ReturnedType ==
    ASSUME NEW t \in Timer, t.calls > 0
    PROVE  Returned(t) \in Timer /\ Start(Returned(t)) \in Timer /\ Stop(Returned(t)) \in Timer
  <1>1. t.calls - 1 \in Nat
    BY DEF Timer
  <1> QED
    BY <1>1, Zenon DEF Timer, Returned, Start, Stop

\* onRTOTimeout, also as a stale callback or when it gives up, keeps the
\* invariant.
LEMMA OnRTOTimeoutKeeps ==
    ASSUME Inv, OnRTOTimeout
    PROVE  Inv'
  <1>1. rto.calls > 0 /\ UNCHANGED <<sendBuf, sndWnd, wlen, recvBuf, delivered, acks, faults>>
    BY DEF OnRTOTimeout, recvVars
  <1>2. /\ Returned(rto) \in Timer /\ Start(Returned(rto)) \in Timer /\ Stop(Returned(rto)) \in Timer
        /\ Stop(persist) \in Timer
    BY <1>1, ReturnedType DEF Inv, LocalInv, Timer, Stop
  <1>3. retries \in Nat /\ MaxRetries \in Nat
    BY ConstantTypes DEF Inv, LocalInv
  <1>4. CASE state = "Closed"
    <2>1. rto' = Returned(rto) /\ UNCHANGED <<state, persist, retries, writer, data>>
      BY <1>4 DEF OnRTOTimeout
    <2>2. SenderInv' /\ ReceiverInv' /\ AckInv' /\ ReportInv'
      BY <1>1, <2>1, QuietStep, SMTT(20) DEF Inv, SenderInv
    <2>3. LocalInv'
      BY <1>1, <1>2, <2>1 DEF Inv, LocalInv, Timer
    <2> QED
      BY <2>2, <2>3 DEF Inv
  <1>5. CASE state = "Established" /\ retries = MaxRetries
    <2>1. /\ state' = "Closed" /\ retries' = retries + 1 /\ rto' = Stop(Returned(rto))
          /\ persist' = Stop(persist) /\ writer' = Wake(writer) /\ UNCHANGED data
      BY <1>5 DEF OnRTOTimeout
    <2>2. SenderInv' /\ ReceiverInv' /\ AckInv' /\ ReportInv'
      BY <1>1, <2>1, QuietStep DEF Inv, SenderInv
    <2>3. retries' \in 0 .. (MaxRetries + 1)
      BY <1>3, <1>5, <2>1
    <2>4. writer' \in [size : Nat, left : Nat, woken : BOOLEAN] /\ writer'.left = writer.left
      BY <2>1, WakeType DEF Inv, LocalInv
    <2>5. LocalInv'
      BY <1>1, <1>2, <2>1, <2>3, <2>4 DEF Inv, LocalInv, Timer
    <2> QED
      BY <2>2, <2>5 DEF Inv
  <1>6. CASE state = "Established" /\ retries # MaxRetries
    <2>1. /\ retries' = retries + 1 /\ data' = data \cup Retransmission(sendBuf)
          /\ rto' = Start(Returned(rto)) /\ UNCHANGED <<state, persist, writer>>
      BY <1>6 DEF OnRTOTimeout
    <2>2. SenderInv' /\ ReceiverInv' /\ AckInv' /\ ReportInv'
      BY <1>1, <2>1, QuietStep, RetransmitStep
    <2>3. retries' \in 0 .. (MaxRetries + 1) /\ retries' <= MaxRetries
      BY <1>3, <1>6, <2>1 DEF Inv, LocalInv
    <2>4. LocalInv'
      BY <1>1, <1>2, <2>1, <2>3 DEF Inv, LocalInv, Timer
    <2> QED
      BY <2>2, <2>4 DEF Inv
  <1> QED
    BY <1>4, <1>5, <1>6 DEF Inv, LocalInv

\* onPersistTimeout, by flushing or by probing, keeps the invariant.
LEMMA OnPersistTimeoutKeeps ==
    ASSUME Inv, OnPersistTimeout
    PROVE  Inv'
  <1>1. /\ persist.calls > 0
        /\ UNCHANGED <<state, sndWnd, retries, writer, wlen, recvBuf, delivered, acks, faults>>
    BY DEF OnPersistTimeout, recvVars
  <1>2. /\ Returned(persist) \in Timer /\ Stop(Returned(persist)) \in Timer
        /\ Start(Returned(persist)) \in Timer /\ Start(persist) \in Timer
    BY <1>1, ReturnedType DEF Inv, LocalInv, Timer, Start
  <1>3. PICK W, x : W = First + wlen /\ x = sendBuf
    OBVIOUS
  <1>4. /\ SendSound(Bytes, First, W, x) /\ First \in Nat /\ W \in Nat
        /\ Segments(Bytes, First, x.nxt, data) /\ sndWnd \in Nat /\ rto \in Timer
    BY <1>3, Span, ConstantTypes, SMTT(30) DEF Inv, SenderInv, LocalInv
  <1>5. CASE state = "Closed"
    <2>1. persist' = Returned(persist) /\ UNCHANGED <<sendBuf, rto, data>>
      BY <1>5 DEF OnPersistTimeout
    <2>2. SenderInv' /\ ReceiverInv' /\ AckInv' /\ ReportInv'
      BY <1>1, <2>1, QuietStep, SMTT(30) DEF Inv, SenderInv
    <2>3. LocalInv'
      BY <1>1, <1>2, <2>1, SMTT(30) DEF Inv, LocalInv, Timer
    <2> QED
      BY <2>2, <2>3 DEF Inv
  <1>6. ASSUME /\ SendSound(Bytes, First, W, sendBuf')
               /\ sendBuf'.una = x.una /\ sendBuf'.sacked = x.sacked /\ x.nxt <= sendBuf'.nxt
               /\ Segments(Bytes, First, sendBuf'.nxt, data')
               /\ rto' \in Timer /\ persist' \in Timer
        PROVE  Inv'
    <2>1. wlen' \in Nat /\ SendSound(Bytes, First, First + wlen', sendBuf')
      BY <1>1, <1>3, <1>6, SMTT(20) DEF Inv, LocalInv
    <2>2. SenderInv' /\ ReceiverInv' /\ AckInv' /\ ReportInv'
      BY <1>1, <1>3, <1>6, <2>1, KeepsMarks, SenderStep, SMTT(30) DEF Inv
    <2>3. LocalInv'
      BY <1>1, <1>6, SMTT(30) DEF Inv, LocalInv, Timer
    <2> QED
      BY <2>2, <2>3 DEF Inv
  <1>7. CASE state # "Closed" /\ sndWnd > 0
    <2>1. FlushSendQueue(x, rto, Stop(Returned(persist)))
      BY <1>3, <1>7, SMTT(30) DEF OnPersistTimeout
    <2> QED
      BY <1>2, <1>4, <1>6, <2>1, FlushStep, SMTT(20)
  <1>8. CASE state # "Closed" /\ ~(sndWnd > 0)
    <2>1. PICK n : n = IF Pending(x) > 0 THEN 1 ELSE 0
      OBVIOUS
    <2>2. /\ sendBuf' = AdvanceSent(x, n)
          /\ data' = data \cup FlushSegments(x, n)
          /\ persist' \in Timer /\ UNCHANGED rto
      BY <1>2, <1>3, <1>8, <2>1, SMTT(20) DEF OnPersistTimeout, PersistProbe
    <2>3. Pending(x) = W - x.nxt /\ Pending(x) \in Nat
      <3>1. FlushLen(x, 0) \in 0 .. Pending(x) /\ Pending(x) = W - x.nxt
        BY <1>4, FlushLenBound
      <3>2. x.nxt \in Nat /\ x.nxt <= W
        BY <1>4 DEF SendSound, SendShape
      <3> QED
        BY <1>4, <3>1, <3>2
    <2>4. n \in 0 .. Pending(x) /\ n \in Nat
      BY <2>1, <2>3, SMTT(30)
    <2>5. /\ SendSound(Bytes, First, W, AdvanceSent(x, n))
          /\ AdvanceSent(x, n).nxt = x.nxt + n /\ AdvanceSent(x, n).una = x.una
          /\ AdvanceSent(x, n).sacked = x.sacked
          /\ Segments(Bytes, First, AdvanceSent(x, n).nxt, FlushSegments(x, n))
      BY ONLY <1>4, <2>3, <2>4, FlushSound, SMTT(20)
    <2>6. x.nxt \in Nat /\ sendBuf'.nxt \in Nat /\ x.nxt <= sendBuf'.nxt
      BY <1>4, <2>2, <2>4, <2>5, SMTT(20) DEF SendSound, SendShape
    <2>7. Segments(Bytes, First, sendBuf'.nxt, data)
      BY <1>4, <2>6, PieceLater, SMTT(20)
    <2>8. Segments(Bytes, First, sendBuf'.nxt, data')
      BY <2>2, <2>5, <2>7 DEF Segments
    <2> QED
      BY <1>4, <1>6, <2>2, <2>5, <2>6, <2>8, SMTT(30)
  <1> QED
    BY <1>5, <1>7, <1>8

-----------------------------------------------------------------------------
\* Steps of the receiver

\* The advertised window is a number: finitely many bytes wait out of order.
LEMMA WindowType ==
    ASSUME NEW f, NEW L \in Nat, NEW T \in Nat, NEW r, RecvSound(f, L, T, r)
    PROVE  RcvWindow(r) \in Nat
  <1>1. OOONumbers(r) \subseteq L .. T
    <2>1. ASSUME NEW e \in r.ooo, NEW n \in e.seq .. (Extent(e).right - 1)
          PROVE  n \in L .. T
      <3>1. PICK q, k : q = e.seq /\ k = Len(e.data)
        BY Zenon
      <3>2. q \in L .. T /\ k \in Nat /\ q + k <= T
        BY <3>1, LenProperties DEF RecvSound, Piece
      <3>3. n \in q .. ((q + k) - 1)
        BY <2>1, <3>1 DEF Extent
      <3> QED
        BY ONLY <3>2, <3>3, L \in Nat, T \in Nat
    <2> QED
      BY <2>1 DEF OOONumbers
  <1>2. IsFiniteSet(OOONumbers(r))
    BY <1>1, FS_Interval, FS_Subset
  <1>3. PICK c, k : c = Cardinality(OOONumbers(r)) /\ k = Len(r.buf)
    BY Zenon
  <1>4. c \in Nat /\ k \in Nat /\ RecvCap \in Nat
    BY <1>2, <1>3, FS_CardinalityType, LenProperties, ConstantTypes DEF RecvSound, RecvShape
  <1>5. RecvBufWindow(r) = IF RecvCap - k - c < 0 THEN 0 ELSE RecvCap - k - c
    BY <1>3 DEF RecvBufWindow
  <1>6. RecvBufWindow(r) \in Nat
    BY <1>4, <1>5
  <1>7. PICK v, d : v = RecvBufWindow(r) /\ d = v \div WndScale
    OBVIOUS
  <1>8. d \in Nat
    BY ONLY <1>6, <1>7, ConstantTypes
  <1>9. RcvWindow(r) = 0 \/ RcvWindow(r) = d \/ RcvWindow(r) = MaxWindow
    BY <1>7 DEF RcvWindow, AtMost
  <1> QED
    BY <1>8, <1>9, ConstantTypes

\* A block that R reports lies above nxt, and its numbers have arrived.
LEMMA BlocksReported ==
    ASSUME NEW f, NEW L \in Nat, NEW T \in Nat, NEW r, RecvSound(f, L, T, r),
           NEW b \in SACKBlocks(r)
    PROVE  /\ b \in Block /\ r.nxt < b.left /\ b.left <= b.right /\ b.right <= T
           /\ \A n \in b.left .. (b.right - 1) : Holds(r, n)
  <1>1. PICK e \in r.ooo : b = Extent(e)
    BY Zenon DEF SACKBlocks
  <1>2. PICK q, k : q = e.seq /\ k = Len(e.data)
    BY Zenon
  <1>3. q \in Nat /\ k \in Nat /\ q + k <= T /\ r.nxt < q
    BY <1>1, <1>2, LenProperties DEF RecvSound, Piece
  <1>4. b = [left |-> q, right |-> q + k]
    BY <1>1, <1>2 DEF Extent
  <1>5. \A n \in q .. ((q + k) - 1) : q <= n /\ n < q + k
    BY <1>3
  <1>6. \A n \in q .. ((q + k) - 1) : Has(e, n)
    BY <1>2, <1>5 DEF Has
  <1> QED
    BY <1>1, <1>3, <1>4, <1>6 DEF Block, Holds

\* A data segment at the receiver (segmentAcceptable, RecvBuf.Insert, queueACK)
\* keeps the invariant.
LEMMA HandleDataKeeps ==
    ASSUME Inv, NEW m \in data, HandleData(m)
    PROVE  Inv'
  <1>1. PICK r, x, a : /\ r = recvBuf' /\ x = recvBuf /\ a = AckSegment(r)
    OBVIOUS
  <1>2. /\ r = x \/ r = RecvBufInsert(x, m.seq, m.bytes)
        /\ Take(data, m) /\ acks' = acks \cup {a}
        /\ UNCHANGED <<state, sendBuf, sndWnd, rto, persist, retries, writer, wlen, delivered>>
    BY <1>1 DEF HandleData, sendVars
  <1>3. data' \subseteq data /\ faults' \in 0 .. MaxFaults
    BY <1>2, TakeShrinks DEF Inv, LocalInv
  <1>4. LocalInv'
    BY <1>2, <1>3 DEF Inv, LocalInv, Timer
  <1>5. SenderInv'
    BY <1>2, <1>3 DEF Inv, SenderInv, Segments, First, Bytes
  <1>6. PICK T : T = sendBuf.nxt
    OBVIOUS
  <1>7. /\ First \in Nat /\ T \in Nat /\ (T - First) + RecvCap < Half
        /\ RecvSound(Bytes, First, T, x) /\ RecvShape(x)
    BY <1>1, <1>6, Span, ConstantTypes, SMTT(30) DEF Inv, ReceiverInv, RecvSound
  <1>8. RecvSound(Bytes, First, T, r) /\ Continues(Bytes, x, r)
    <2>1. CASE r = x
      BY <1>7, <2>1, ContinuesSame
    <2>2. CASE r = RecvBufInsert(x, m.seq, m.bytes)
      <3>1. PICK q, d : q = m.seq /\ d = m.bytes
        OBVIOUS
      <3>2. Piece(Bytes, First, T, [seq |-> q, data |-> d])
        BY <1>6, <3>1 DEF Inv, SenderInv, Segments, Entry
      <3>3. RecvSound(Bytes, First, T, RecvBufInsert(x, q, d)) /\ Continues(Bytes, x, RecvBufInsert(x, q, d))
        BY ONLY <1>7, <3>2, InsertSound
      <3> QED
        BY <2>2, <3>1, <3>3
    <2> QED
      BY <1>2, <2>1, <2>2
  <1>9. PICK more : r.buf = x.buf \o more /\ Carries(Bytes, x.nxt, more) /\ r.nxt = x.nxt + Len(more)
    BY <1>8 DEF Continues
  <1>10. ReceiverInv' /\ x.nxt <= r.nxt /\ x.nxt \in Nat /\ r.nxt \in Nat
    <2>1. PICK old, q, b, d : d = delivered /\ old = d \o x.buf /\ q = x.nxt /\ b = x.buf
      BY Zenon
    <2>2. /\ old = d \o b /\ b \in Seq(Nat) /\ d \in Seq(Nat) /\ more \in Seq(Nat)
          /\ Carries(Bytes, First, old) /\ q = First + Len(old) /\ Carries(Bytes, q, more)
          /\ First \in Int /\ q \in Nat /\ Len(more) \in Nat
      <3>1. /\ old = d \o b /\ d \in Seq(Nat) /\ Carries(Bytes, First, old)
            /\ q = First + Len(old) /\ Carries(Bytes, q, more)
        BY <1>1, <1>9, <2>1 DEF Inv, ReceiverInv
      <3>2. b \in Seq(Nat) /\ q \in Nat /\ First \in Int
        BY <1>7, <2>1 DEF RecvShape
      <3>3. more \in Seq(Nat) /\ Len(more) \in Nat
        BY <3>1, LenProperties DEF Carries
      <3> QED
        BY <3>1, <3>2, <3>3
    <2>3. Carries(Bytes, First, old \o more) /\ Len(old \o more) = Len(old) + Len(more)
      <3>1. First \in Int /\ Carries(Bytes, First, old) /\ q = First + Len(old) /\ Carries(Bytes, q, more)
        BY <2>2
      <3> QED
        BY ONLY <3>1, CarriesConcat
    <2>4. (d \o b) \o more = d \o (b \o more)
      <3>1. d \in Seq(Nat) /\ b \in Seq(Nat) /\ more \in Seq(Nat)
        BY <2>2
      <3> QED
        BY ONLY <3>1, ConcatBytes, ZenonT(30)
    <2>5. q + Len(more) = First + Len(old \o more) /\ q <= q + Len(more)
      <3>1. PICK i, j : i = Len(old) /\ j = Len(more)
        BY Zenon
      <3>2. i \in Nat
        BY <2>2, <3>1, LenProperties, SMTT(30) DEF Carries
      <3> QED
        BY <2>2, <2>3, <3>1, <3>2
    <2>6. /\ Carries(Bytes, First, delivered \o r.buf) /\ r.nxt = First + Len(delivered \o r.buf)
          /\ q <= r.nxt /\ r.nxt \in Nat
      BY <1>9, <2>1, <2>2, <2>3, <2>4, <2>5, SMTT(30)
    <2> QED
      BY <1>1, <1>2, <1>6, <1>8, <2>1, <2>2, <2>6 DEF ReceiverInv, First, Bytes
  <1>11. a = [ack |-> r.nxt, wnd |-> RcvWindow(r), sack |-> SACKBlocks(r)]
    BY <1>1 DEF AckSegment
  <1>12. \A b \in SACKBlocks(r) :
            /\ b \in Block /\ r.nxt < b.left /\ b.left <= b.right /\ b.right <= T
            /\ \A n \in b.left .. (b.right - 1) : Holds(r, n)
    BY <1>7, <1>8, BlocksReported
  <1>13. RcvWindow(r) \in Nat
    BY <1>7, <1>8, WindowType
  <1>14. First <= r.nxt
    BY <1>8 DEF RecvSound
  <1>15. AckInv'
    <2>1. a \in [ack : Nat, wnd : Nat, sack : SUBSET Block]
      BY <1>10, <1>11, <1>12, <1>13
    <2>2. sendBuf.una <= r.nxt
      <3>1. PICK u : u = sendBuf.una
        OBVIOUS
      <3>2. u \in Nat /\ u <= x.nxt
        BY <1>1, <3>1 DEF Inv, AckInv, SenderInv, SendSound, SendShape
      <3> QED
        BY <1>10, <3>1, <3>2
    <2>3. \A c \in acks : c \in [ack : Nat, wnd : Nat, sack : SUBSET Block] /\ First <= c.ack /\ c.ack <= r.nxt
      BY <1>1, <1>10 DEF Inv, AckInv
    <2>4. a.ack <= r.nxt /\ First <= a.ack
      BY <1>10, <1>11, <1>14
    <2>5. \A c \in acks' : /\ c \in [ack : Nat, wnd : Nat, sack : SUBSET Block]
                           /\ First <= c.ack /\ c.ack <= r.nxt
      BY <1>2, <2>1, <2>3, <2>4
    <2>6. sendBuf' = sendBuf /\ recvBuf' = r
      BY <1>1, <1>2
    <2> QED
      BY <2>2, <2>5, <2>6, SMTT(20) DEF AckInv, First, Block
  <1>16. ReportInv'
    <2>1. Reported' = Reported \cup SACKBlocks(r) /\ Marks' = Marks \cup {r.nxt}
      BY <1>2, <1>11 DEF Reported, Marks
    <2>2. ASSUME NEW b \in Reported
          PROVE  /\ b \in Block /\ First <= b.left /\ b.left <= b.right /\ b.right <= T
                 /\ \A n \in b.left .. (b.right - 1) : Holds(r, n)
      <3>1. /\ b \in Block /\ First <= b.left /\ b.left <= b.right /\ b.right <= T
            /\ \A n \in b.left .. (b.right - 1) : Holds(x, n)
        BY <1>1, <1>6 DEF Inv, ReportInv
      <3>2. \A n \in b.left .. (b.right - 1) : n \in Nat
        BY <3>1 DEF Block
      <3> QED
        BY <1>8, <3>1, <3>2 DEF Continues
    <2>3. ASSUME NEW b \in SACKBlocks(r)
          PROVE  First <= b.left
      BY <1>7, <1>10, <1>12, <1>14 DEF Block
    <2>4. ~Holds(r, r.nxt)
      <3>1. PICK v : v = r.nxt
        OBVIOUS
      <3>2. ASSUME NEW e \in r.ooo
            PROVE  ~(e.seq <= v)
        <4>1. e.seq \in Nat /\ v < e.seq /\ v \in Nat
          BY <1>8, <1>10, <3>1 DEF RecvSound, Piece
        <4> QED
          BY <4>1
      <3> QED
        BY <1>10, <3>1, <3>2 DEF Holds, Has
    <2>5. ASSUME NEW b \in Reported', NEW y \in Marks', InBlock(b, y)
          PROVE  FALSE
      <3>1. CASE b \in Reported /\ y \in Marks
        BY <2>5, <3>1 DEF Inv, ReportInv
      <3>2. CASE b \in Reported /\ y = r.nxt
        <4>1. y \in b.left .. (b.right - 1)
          BY <1>10, <2>2, <2>5, <3>2, SMTT(30) DEF InBlock, Block
        <4> QED
          BY <2>2, <2>4, <3>2, <4>1
      <3>3. CASE b \in SACKBlocks(r)
        <4>1. y \in Nat /\ y <= r.nxt
          <5>1. CASE y = r.nxt
            BY <1>10, <5>1
          <5>2. CASE y = sendBuf.una
            BY <1>1, <1>2, <1>15, <5>2 DEF AckInv, Inv, SenderInv, SendSound, SendShape
          <5>3. CASE \E c \in acks : y = c.ack
            BY <1>1, <1>2, <1>15, <5>3 DEF AckInv
          <5> QED
            BY <2>1, <5>1, <5>2, <5>3 DEF Marks
        <4> QED
          BY <1>10, <1>12, <2>5, <3>3, <4>1, SMTT(30) DEF InBlock, Block
      <3> QED
        BY <2>1, <3>1, <3>2, <3>3
    <2> QED
      BY <1>1, <1>2, <1>6, <1>12, <2>1, <2>2, <2>3, <2>5, SMTT(30) DEF ReportInv, First, Block, InBlock
  <1> QED
    BY <1>4, <1>5, <1>10, <1>15, <1>16, SMTT(30) DEF Inv

\* Read moves bytes from the front of buf to the end of what was delivered.
LEMMA ReadMoves ==
    ASSUME NEW d \in Seq(Nat), NEW b \in Seq(Nat), NEW n \in 1 .. Len(b)
    PROVE  /\ SubSeq(b, 1, n) \in Seq(Nat) /\ SubSeq(b, n + 1, Len(b)) \in Seq(Nat)
           /\ (d \o SubSeq(b, 1, n)) \o SubSeq(b, n + 1, Len(b)) = d \o b
  <1>1. PICK s, t : s = SubSeq(b, 1, n) /\ t = SubSeq(b, n + 1, Len(b))
    BY Zenon
  <1>2. Len(b) \in Nat /\ n \in Nat /\ n <= Len(b)
    OBVIOUS
  <1>3. s \in Seq(Nat) /\ t \in Seq(Nat) /\ Len(s) = n /\ Len(t) = Len(b) - n
    BY <1>1, <1>2
  <1>4. /\ \A i \in 1 .. n : s[i] = b[i]
        /\ \A i \in 1 .. (Len(b) - n) : t[i] = b[i + n]
    BY <1>1, <1>2
  <1>5. s \o t = b
    <2>1. /\ s \o t \in Seq(Nat) /\ Len(s \o t) = Len(s) + Len(t)
          /\ \A i \in 1 .. Len(s) + Len(t) :
                (s \o t)[i] = IF i <= Len(s) THEN s[i] ELSE t[i - Len(s)]
      BY <1>3, ConcatProperties, Zenon
    <2>2. PICK z : z = Len(b) /\ z \in Nat /\ n <= z
      BY <1>2
    <2>3. Len(s \o t) = z /\ n + (z - n) = z
      BY <1>2, <1>3, <2>1, <2>2
    <2>4. \A i \in 1 .. z : (s \o t)[i] = IF i <= n THEN s[i] ELSE t[i - n]
      BY <1>3, <2>1, <2>2, <2>3, ZenonT(30)
    <2>5. ASSUME NEW i \in 1 .. z
          PROVE  (s \o t)[i] = b[i]
      <3>1. CASE i <= n
        <4>1. i \in 1 .. n
          BY <1>2, <2>2, <3>1
        <4> QED
          BY <1>4, <2>4, <3>1, <4>1, ZenonT(30)
      <3>2. CASE ~(i <= n)
        <4>1. i - n \in 1 .. (z - n) /\ (i - n) + n = i
          BY <1>2, <2>2, <3>2
        <4> QED
          BY <1>4, <2>2, <2>4, <3>2, <4>1, ZenonT(30)
      <3> QED
        BY <3>1, <3>2, ZenonT(30)
    <2> QED
      BY <2>1, <2>2, <2>3, <2>5, SeqEqual, Zenon
  <1>6. (d \o s) \o t = d \o (s \o t)
    <2>1. d \in Seq(Nat) /\ s \in Seq(Nat) /\ t \in Seq(Nat)
      BY <1>3
    <2> QED
      BY ONLY <2>1, ConcatBytes, ZenonT(30)
  <1> QED
    BY <1>1, <1>3, <1>5, <1>6, ZenonT(30)

\* Read moves bytes from the receive buffer to the application and keeps the
\* invariant.
LEMMA ReadKeeps ==
    ASSUME Inv, NEW n \in 1 .. Len(recvBuf.buf), Read(n)
    PROVE  Inv'
  <1>1. PICK x, y, b, d : x = recvBuf /\ y = recvBuf' /\ b = recvBuf.buf /\ d = delivered
    OBVIOUS
  <1>2. /\ delivered' = d \o SubSeq(b, 1, n)
        /\ y = [x EXCEPT !.buf = SubSeq(b, n + 1, Len(b))]
        /\ UNCHANGED <<state, sendBuf, sndWnd, rto, persist, retries, writer, wlen, data, acks, faults>>
    BY <1>1 DEF Read, RecvBufRead, sendVars, netVars
  <1>3. RecvShape(x) /\ b \in Seq(Nat) /\ d \in Seq(Nat) /\ n \in 1 .. Len(b)
    BY <1>1 DEF Inv, ReceiverInv, RecvSound, RecvShape
  <1>4. /\ SubSeq(b, 1, n) \in Seq(Nat) /\ SubSeq(b, n + 1, Len(b)) \in Seq(Nat)
        /\ (d \o SubSeq(b, 1, n)) \o SubSeq(b, n + 1, Len(b)) = d \o b
    BY ONLY <1>3, ReadMoves, Zenon
  <1>5. y.buf = SubSeq(b, n + 1, Len(b)) /\ y.nxt = x.nxt /\ y.ooo = x.ooo /\ RecvShape(y)
    BY <1>2, <1>3, <1>4, ZenonT(30) DEF RecvShape
  <1>6. RecvSound(Bytes, First, sendBuf.nxt, y)
    BY <1>1, <1>5 DEF Inv, ReceiverInv, RecvSound
  <1>7. delivered' \in Seq(Nat)
    BY <1>2, <1>3, <1>4, ConcatProperties
  <1>8. ReceiverInv'
    BY <1>1, <1>2, <1>4, <1>5, <1>6, <1>7, ZenonT(30) DEF Inv, ReceiverInv, First, Bytes
  <1>9. AckInv'
    BY <1>1, <1>2, <1>5 DEF Inv, AckInv, First, Block
  <1>10. ReportInv'
    <2>1. \A k : Holds(y, k) <=> Holds(x, k)
      BY <1>5 DEF Holds
    <2>2. Reported' = Reported /\ Marks' = Marks
      BY <1>2 DEF Reported, Marks
    <2> QED
      BY <1>1, <1>2, <2>1, <2>2, ZenonT(30) DEF Inv, ReportInv, First, Block, InBlock
  <1>11. LocalInv' /\ SenderInv'
    BY <1>2 DEF Inv, LocalInv, Timer, SenderInv, First, Bytes
  <1> QED
    BY <1>8, <1>9, <1>10, <1>11 DEF Inv

-----------------------------------------------------------------------------
\* The invariant

\* The state after the handshake satisfies the invariant.
LEMMA InitInv ==
    ASSUME Init
    PROVE  Inv
  <1>1. PICK B, s, r : B = First /\ s = NewSendBuf(B) /\ r = NewRecvBuf(B)
    OBVIOUS
  <1>2. B \in Nat /\ B + 0 = B
    BY <1>1, ConstantTypes
  <1>3. << >> \in Seq(Nat) /\ Len(<< >>) = 0 /\ << >> \o << >> = << >>
    BY EmptySeq, ConcatEmptySeq
  <1>4. s = [buf |-> << >>, una |-> B, nxt |-> B, sacked |-> {}]
    BY <1>1 DEF NewSendBuf
  <1>5. r = [buf |-> << >>, nxt |-> B, ooo |-> {}]
    BY <1>1 DEF NewRecvBuf
  <1>6. sendBuf = s /\ recvBuf = r
    BY <1>1 DEF Init, First
  <1>7. \A q : Carries(Bytes, q, << >>)
    BY CarriesNothing
  <1>8. SendSound(Bytes, B, B, s)
    BY <1>2, <1>3, <1>4, <1>7, SMTT(30) DEF SendSound, SendShape
  <1>9. RecvSound(Bytes, B, B, r)
    BY <1>2, <1>3, <1>5 DEF RecvSound, RecvShape
  <1>10. RcvWindow(r) \in Nat
    BY <1>2, <1>9, WindowType
  <1>11. LocalInv
    <2>1. sndWnd \in Nat
      BY <1>1, <1>10, SndWindowType DEF Init, First
    <2>2. 0 + 0 <= Len(Source) /\ 0 \in 0 .. (MaxRetries + 1) /\ 0 <= MaxRetries /\ 0 \in 0 .. MaxFaults
      BY ConstantTypes
    <2> QED
      BY <2>1, <2>2 DEF Init, LocalInv, Timer, Idle
  <1>12. SenderInv
    BY <1>1, <1>2, <1>6, <1>8 DEF Init, SenderInv, Segments
  <1>13. ReceiverInv
    <2>1. delivered \o recvBuf.buf = << >> /\ delivered \in Seq(Nat)
      BY <1>3, <1>5, <1>6 DEF Init
    <2>2. recvBuf.nxt = B /\ sendBuf.nxt = B
      BY <1>4, <1>5, <1>6
    <2> QED
      BY <1>1, <1>2, <1>3, <1>6, <1>7, <1>9, <2>1, <2>2, SMTT(30) DEF ReceiverInv
  <1>14. AckInv /\ ReportInv
    <2>1. acks = {} /\ sendBuf.sacked = {} /\ sendBuf.una = B /\ recvBuf.nxt = B /\ B <= B
      BY <1>2, <1>4, <1>5, <1>6, SMTT(30) DEF Init
    <2>2. Reported = {}
      BY <2>1 DEF Reported
    <2> QED
      BY <2>1, <2>2, ZenonT(30) DEF AckInv, ReportInv
  <1> QED
    BY <1>11, <1>12, <1>13, <1>14, SMTT(30) DEF Inv

\* Every step of either end, the timers or the network keeps the invariant.
LEMMA NextInv ==
    ASSUME Inv, [Next]_vars
    PROVE  Inv'
  <1>1. ASSUME NEW n \in 1 .. MaxWrite, Write(n) PROVE Inv'
    BY <1>1, WriteKeeps
  <1>2. CASE WriteWakes
    BY <1>2, WriteWakesKeeps
  <1>3. ASSUME NEW m \in data, HandleData(m) \/ LoseData(m) PROVE Inv'
    BY <1>3, HandleDataKeeps, LoseKeeps
  <1>4. ASSUME NEW n \in 1 .. Len(recvBuf.buf), Read(n) PROVE Inv'
    BY <1>4, ReadKeeps
  <1>5. ASSUME NEW m \in acks, HandleAck(m) \/ LoseAck(m) PROVE Inv'
    BY <1>5, HandleAckKeeps, LoseKeeps
  <1>6. CASE RTOFires \/ PersistFires
    BY <1>6, FiresKeeps, SMTT(30)
  <1>7. CASE OnRTOTimeout
    BY <1>7, OnRTOTimeoutKeeps
  <1>8. CASE OnPersistTimeout
    BY <1>8, OnPersistTimeoutKeeps
  <1>9. CASE UNCHANGED vars
    <2>1. UNCHANGED <<state, sendBuf, sndWnd, rto, persist, retries, writer, wlen, recvBuf, delivered, data, acks, faults>>
      BY <1>9 DEF vars, sendVars, recvVars, netVars
    <2>2. SenderInv' /\ ReceiverInv' /\ AckInv' /\ ReportInv'
      BY <2>1, QuietStep DEF Inv, SenderInv
    <2> QED
      BY <2>1, <2>2 DEF Inv, LocalInv, Timer
  <1> QED
    BY <1>1, <1>2, <1>3, <1>4, <1>5, <1>6, <1>7, <1>8, <1>9 DEF Next

\* The invariant holds in every reachable state.
THEOREM Invariance == Spec => []Inv
  <1>1. Init => Inv
    BY InitInv
  <1>2. Inv /\ [Next]_vars => Inv'
    BY NextInv
  <1> QED
    BY <1>1, <1>2, PTL DEF Spec

-----------------------------------------------------------------------------
\* What the invariant says about the properties of VtcpTransfer

\* The invariant contains the types.
LEMMA InvTypeOK == Inv => TypeOK
  <1> SUFFICES ASSUME Inv PROVE TypeOK
    OBVIOUS
  <1>1. wlen \in 0 .. Len(Source)
    <2>1. PICK z, k : z = Len(Source) /\ k = writer.left
      BY Zenon
    <2>2. z \in Nat /\ k \in Nat /\ wlen \in Nat /\ wlen + k <= z
      BY <2>1, ConstantTypes DEF Inv, LocalInv
    <2>3. wlen \in 0 .. z
      BY ONLY <2>2
    <2> QED
      BY <2>1, <2>3
  <1>2. sendBuf \in [buf : Seq(Nat), una : Seqs, nxt : Seqs, sacked : SUBSET Block]
    BY DEF Inv, SenderInv, SendSound, SendShape, Seqs, Block
  <1>3. recvBuf \in [buf : Seq(Nat), nxt : Seqs, ooo : SUBSET [seq : Seqs, data : Seq(Nat)]]
    BY DEF Inv, ReceiverInv, RecvSound, RecvShape, Seqs
  <1>4. data \subseteq [seq : Seqs, bytes : Seq(Nat)]
    BY DEF Inv, SenderInv, Segments, Seqs
  <1>5. acks \subseteq [ack : Seqs, wnd : Nat, sack : SUBSET Block]
    BY DEF Inv, AckInv, Seqs
  <1> QED
    BY <1>1, <1>2, <1>3, <1>4, <1>5, ZenonT(30) DEF Inv, LocalInv, ReceiverInv, TypeOK

\* A sequence that carries the stream from its first byte is a prefix of it.
LEMMA CarriesPrefix ==
    ASSUME NEW got, Carries(Bytes, First, got), Len(got) <= Len(Source)
    PROVE  got = SubSeq(Source, 1, Len(got))
  <1>1. PICK k, z, s : k = Len(got) /\ z = Len(Source) /\ s = SubSeq(Source, 1, k)
    BY Zenon
  <1>2. got \in Seq(Nat) /\ Source \in Seq(Nat) /\ k \in Nat /\ z \in Nat /\ k <= z /\ First \in Int
    BY <1>1, ConstantTypes, LenProperties DEF Carries
  <1>3. Carries(Bytes, First, s) /\ Len(s) = k
    <2>1. /\ 1 \in 1 .. (Len(Source) + 1) /\ k \in Int /\ k <= Len(Source)
          /\ First \in Int /\ Carries(Bytes, First, Source)
      BY <1>1, <1>2, SourceCarries
    <2>2. /\ Carries(Bytes, First + 1 - 1, SubSeq(Source, 1, k))
          /\ Len(SubSeq(Source, 1, k)) = IF 1 <= k THEN k - 1 + 1 ELSE 0
      BY ONLY <2>1, CarriesSub
    <2>3. First + 1 - 1 = First /\ (IF 1 <= k THEN k - 1 + 1 ELSE 0) = k
      BY <1>2
    <2> QED
      BY <1>1, <2>2, <2>3
  <1>4. s \in Seq(Nat) /\ \A i \in 1 .. k : s[i] = got[i]
    BY <1>1, <1>3 DEF Carries
  <1>5. got = s
    BY <1>1, <1>2, <1>3, <1>4, SeqEqual, SMTT(30)
  <1> QED
    BY <1>1, <1>5

\* The invariant gives the prefix property.
LEMMA InvPrefix == Inv => PrefixDelivered
  <1> SUFFICES ASSUME Inv PROVE PrefixDelivered
    OBVIOUS
  <1>1. PICK got, k, z, j, q, v : /\ got = delivered \o recvBuf.buf /\ k = Len(got) /\ z = Len(Source)
                                  /\ j = writer.left /\ q = recvBuf.nxt /\ v = sendBuf.nxt
    BY Zenon
  <1>2. Carries(Bytes, First, got) /\ q = First + k /\ First \in Nat /\ z \in Nat
    BY <1>1, ConstantTypes DEF Inv, ReceiverInv
  <1>3. k \in Nat
    BY <1>1, <1>2, LenProperties DEF Carries
  <1>4. q <= v /\ v <= First + wlen /\ v \in Nat /\ q \in Nat
    BY <1>1 DEF Inv, ReceiverInv, RecvSound, RecvShape, SenderInv, SendSound, SendShape
  <1>5. wlen \in Nat /\ j \in Nat /\ wlen + j <= z
    BY <1>1 DEF Inv, LocalInv
  <1>6. k <= wlen /\ k <= z
    BY ONLY <1>2, <1>3, <1>4, <1>5
  <1>7. got = SubSeq(Source, 1, Len(got))
    BY <1>1, <1>2, <1>6, CarriesPrefix, ZenonT(30)
  <1> QED
    BY <1>1, <1>6, <1>7 DEF PrefixDelivered

\* The invariant orders una, the receiver's nxt and the sender's nxt.
LEMMA InvAcked == Inv => AckedIsReceived
  <1> SUFFICES ASSUME Inv
               PROVE  AckedIsReceived
    OBVIOUS
  <1>1. PICK u, q, v : u = sendBuf.una /\ q = recvBuf.nxt /\ v = sendBuf.nxt
    BY Zenon
  <1>2. u <= q
    BY <1>1 DEF Inv, AckInv
  <1>3. q <= v
    <2>1. RecvSound(Bytes, First, sendBuf.nxt, recvBuf)
      BY Zenon DEF Inv, ReceiverInv
    <2>2. recvBuf.nxt \in First .. sendBuf.nxt
      BY <2>1, Zenon DEF RecvSound
    <2>3. q \in First .. v
      BY <1>1, <2>2, Zenon
    <2> QED
      BY <2>3
  <1> QED
    BY <1>1, <1>2, <1>3, Zenon DEF AckedIsReceived

\* The invariant gives the soundness of the scoreboard.
LEMMA InvSacked == Inv => SackedIsHeld
  <1> SUFFICES ASSUME Inv, NEW b \in sendBuf.sacked, NEW n \in b.left .. (b.right - 1)
               PROVE  n < recvBuf.nxt \/ \E e \in recvBuf.ooo : Covers(Extent(e), n)
    BY DEF SackedIsHeld
  <1>1. PICK T : T = sendBuf.nxt
    OBVIOUS
  <1>2. b \in Block /\ First <= b.left /\ b.left <= b.right /\ b.right <= T /\ Holds(recvBuf, n)
    BY <1>1, KeepsMarks DEF Inv, ReportInv
  <1>3. T \in Nat /\ First \in Nat /\ T - First < Half
    BY <1>1, Span, ConstantTypes DEF Inv
  <1>4. n \in First .. T
    BY <1>2, <1>3 DEF Block
  <1>5. ASSUME NEW e \in recvBuf.ooo, Has(e, n)
        PROVE  Covers(Extent(e), n)
    <2>1. Piece(Bytes, First, T, e)
      BY <1>1 DEF Inv, ReceiverInv, RecvSound
    <2> QED
      BY <1>3, <1>4, <1>5, <2>1, ExtentOfPiece, SMTT(30)
  <1> QED
    BY <1>2, <1>5 DEF Holds

\* The invariant gives the separation of the out-of-order entries.
LEMMA InvSeparate == Inv => OOOSeparate
  <1> SUFFICES ASSUME Inv PROVE OOOSeparate
    OBVIOUS
  <1>1. \A e : Extent(e).right = e.seq + Len(e.data)
    BY DEF Extent
  <1>2. \A e \in recvBuf.ooo : recvBuf.nxt < e.seq /\ Len(e.data) > 0
    BY DEF Inv, ReceiverInv, RecvSound, Piece
  <1>3. \A e \in recvBuf.ooo : e.data # << >>
    BY <1>2, EmptySeq
  <1>4. \A e, g \in recvBuf.ooo :
           e = g \/ e.seq + Len(e.data) <= g.seq \/ g.seq + Len(g.data) <= e.seq
    BY DEF Inv, ReceiverInv, RecvSound
  <1> QED
    BY <1>1, <1>2, <1>3, <1>4 DEF OOOSeparate

-----------------------------------------------------------------------------
\* Theorems

\* The state of both ends and the segments in the network keep their types.
THEOREM TypeCorrect == Spec => []TypeOK
  BY Invariance, InvTypeOK, PTL

\* R's application reads a prefix of what S's application wrote, whatever the
\* network loses, duplicates or reorders and however the timers fire.
THEOREM PrefixTheorem == Spec => []PrefixDelivered
  BY Invariance, InvPrefix, PTL

\* S never drops a byte from its send buffer that R has not received in order.
THEOREM AckedTheorem == Spec => []AckedIsReceived
  BY Invariance, InvAcked, PTL

\* The number under which retransmit() sends is the number of its first byte.
THEOREM UnaTheorem == Spec => []UnaNotSacked
  <1>1. Inv => UnaNotSacked
    BY UnaClear
  <1> QED
    BY <1>1, Invariance, PTL

\* The scoreboard claims nothing that R does not hold.
THEOREM SackedTheorem == Spec => []SackedIsHeld
  BY Invariance, InvSacked, PTL

\* The out-of-order list of R stays above nxt and free of overlaps.
THEOREM SeparateTheorem == Spec => []OOOSeparate
  BY Invariance, InvSeparate, PTL

-----------------------------------------------------------------------------
\* VtcpTransfer implements ByteStream

DeliveredPrefix ==
    /\ delivered \in Seq(Nat)
    /\ Len(delivered) <= wlen
    /\ delivered = SubSeq(Source, 1, Len(delivered))

\* The invariant says what has been delivered, as the refinement needs it.
LEMMA InvDelivered == Inv => DeliveredPrefix
  <1> SUFFICES ASSUME Inv PROVE DeliveredPrefix
    OBVIOUS
  <1>1. PICK d, b, got : d = delivered /\ b = recvBuf.buf /\ got = d \o b
    BY Zenon
  <1>2. d \in Seq(Nat) /\ b \in Seq(Nat) /\ Len(d) \in Nat /\ Len(b) \in Nat
    BY <1>1, LenProperties DEF Inv, ReceiverInv, RecvSound, RecvShape
  <1>3. Carries(Bytes, First, got) /\ Len(got) <= wlen
    BY <1>1, InvPrefix, SMTT(30) DEF Inv, ReceiverInv, PrefixDelivered
  <1>4. Len(got) = Len(d) + Len(b) /\ \A i \in 1 .. Len(d) : got[i] = d[i]
    BY <1>1, <1>2, ConcatProperties
  <1>5. wlen \in Nat /\ wlen <= Len(Source)
    BY InvTypeOK DEF TypeOK
  <1>6. Len(d) <= wlen /\ Len(d) <= Len(Source)
    <2>1. PICK i, j, z : i = Len(d) /\ j = Len(b) /\ z = Len(Source) /\ z \in Nat
      BY ConstantTypes, ZenonT(30)
    <2>2. i \in Nat /\ j \in Nat /\ i + j <= wlen /\ wlen <= z
      BY <1>2, <1>3, <1>4, <1>5, <2>1
    <2>3. i <= wlen /\ i <= z
      BY ONLY <1>5, <2>1, <2>2
    <2> QED
      BY <2>1, <2>3
  <1>7. Carries(Bytes, First, d)
    <2>1. ASSUME NEW i \in 1 .. Len(d)
          PROVE  d[i] = Bytes[First + i - 1]
      <3>1. i \in 1 .. Len(got)
        BY <1>2, <1>4
      <3> QED
        BY <1>3, <1>4, <3>1 DEF Carries
    <2> QED
      BY <1>2, <2>1 DEF Carries
  <1> QED
    BY <1>1, <1>2, <1>6, <1>7, CarriesPrefix, SMTT(30) DEF DeliveredPrefix

\* A step of VtcpTransfer is a step of the byte stream, or invisible to it.
LEMMA StreamStep ==
    ASSUME Inv, Inv', DeliveredPrefix', [Next]_vars
    PROVE  Stream!Next \/ UNCHANGED <<wlen, delivered>>
  <1>1. ASSUME wlen <= wlen', UNCHANGED delivered
        PROVE  Stream!Next \/ UNCHANGED <<wlen, delivered>>
    <2>1. wlen \in Nat /\ wlen' \in Nat /\ wlen' <= Len(Source) /\ Len(Source) \in Nat
      <3>1. PICK z, k, w : z = Len(Source) /\ k = writer'.left /\ w = wlen'
        BY ZenonT(30)
      <3>2. z \in Nat /\ k \in Nat /\ wlen \in Nat /\ w \in Nat /\ w + k <= z
        BY <3>1, ConstantTypes DEF Inv, LocalInv
      <3>3. w <= z
        BY ONLY <3>2
      <3> QED
        BY <3>1, <3>2, <3>3
    <2>2. CASE wlen' = wlen
      BY <1>1, <2>2
    <2>3. CASE wlen' # wlen
      <3>1. wlen' \in (wlen + 1) .. Len(Source)
        BY <1>1, <2>1, <2>3
      <3> QED
        BY <1>1, <3>1 DEF Stream!Next, Stream!Accept
    <2> QED
      BY <2>2, <2>3
  <1>2. ASSUME NEW n \in 1 .. MaxWrite, Write(n)
        PROVE  wlen <= wlen' /\ UNCHANGED delivered
    <2>1. /\ n \in Nat /\ wlen + n <= Len(Source) /\ CopyLoop(n, n)
          /\ UNCHANGED <<recvBuf, delivered, acks>>
      BY <1>2, TransferAssumption DEF Write, recvVars
    <2> QED
      BY <2>1, CopyStep
  <1>3. ASSUME WriteWakes
        PROVE  wlen <= wlen' /\ UNCHANGED delivered
    <2>1. UNCHANGED <<recvBuf, delivered, acks>> /\ wlen \in Nat
      BY <1>3 DEF WriteWakes, recvVars, Inv, LocalInv
    <2>2. CASE state = "Closed"
      BY <1>3, <2>1, <2>2 DEF WriteWakes
    <2>3. CASE state # "Closed"
      <3>1. PICK z, k : z = writer.size /\ k = writer.left
        BY Zenon
      <3>2. z \in Nat /\ k \in Nat /\ wlen + k <= Len(Source) /\ CopyLoop(z, k)
        BY <1>3, <2>3, <3>1 DEF WriteWakes, Inv, LocalInv
      <3> QED
        BY <2>1, <3>2, CopyStep
    <2> QED
      BY <2>2, <2>3
  <1>4. ASSUME NEW n \in 1 .. Len(recvBuf.buf), Read(n)
        PROVE  Stream!Next
    <2>1. PICK d, d2, s, i : /\ d = delivered /\ d2 = delivered'
                             /\ s = SubSeq(recvBuf.buf, 1, n) /\ i = Len(d2)
      BY Zenon
    <2>2. d2 = d \o s /\ UNCHANGED wlen
      BY <1>4, <2>1 DEF Read, sendVars
    <2>3. d \in Seq(Nat) /\ s \in Seq(Nat) /\ Len(s) = n /\ n \in Nat /\ n > 0 /\ Len(d) \in Nat
      <3>1. PICK b : b = recvBuf.buf
        BY ZenonT(30)
      <3>2. b \in Seq(Nat) /\ d \in Seq(Nat)
        BY <2>1, <3>1 DEF Inv, ReceiverInv, RecvSound, RecvShape
      <3>3. Len(b) \in Nat /\ Len(d) \in Nat /\ n \in 1 .. Len(b)
        BY <3>1, <3>2, LenProperties, SMTT(30)
      <3> QED
        BY ONLY <2>1, <3>1, <3>2, <3>3, SubSeqProperties
    <2>4. i = Len(d) + n
      BY <2>1, <2>2, <2>3, ConcatProperties
    <2>5. i <= wlen /\ d2 = SubSeq(Source, 1, i) /\ wlen \in Nat
      BY <2>1, <2>2, ZenonT(30) DEF DeliveredPrefix, Inv, LocalInv
    <2>6. i \in (Len(d) + 1) .. wlen
      BY <2>3, <2>4, <2>5
    <2> QED
      BY <2>1, <2>2, <2>5, <2>6, SMTT(30) DEF Stream!Next, Stream!Deliver
  <1>5. CASE \E m \in data : HandleData(m) \/ LoseData(m)
    BY <1>5 DEF HandleData, LoseData, Lose, sendVars, recvVars
  <1>6. CASE \E m \in acks : HandleAck(m) \/ LoseAck(m)
    BY <1>6 DEF HandleAck, HandleDupAck, HandleNewAck, HandleAckClosed, LoseAck, Lose, sendVars, recvVars
  <1>7. CASE RTOFires \/ OnRTOTimeout \/ PersistFires \/ OnPersistTimeout
    BY <1>7 DEF RTOFires, OnRTOTimeout, PersistFires, OnPersistTimeout, recvVars
  <1>8. CASE UNCHANGED vars
    BY <1>8 DEF vars, sendVars, recvVars
  <1> QED
    BY <1>1, <1>2, <1>3, <1>4, <1>5, <1>6, <1>7, <1>8 DEF Next

\* The connection is a reliable byte stream: what Read returns is what Write
\* accepted, each byte once and in order, and nothing already read changes.
THEOREM Refinement == Spec => StreamSpec
  <1>1. Init => Stream!Init
    BY DEF Init, Stream!Init
  <1>2. Inv /\ Inv' /\ DeliveredPrefix' /\ [Next]_vars => [Stream!Next]_<<wlen, delivered>>
    BY StreamStep
  <1>3. Inv => DeliveredPrefix
    BY InvDelivered
  <1> QED
    BY <1>1, <1>2, <1>3, Invariance, PTL DEF Spec, StreamSpec, Stream!Spec
=============================================================================
