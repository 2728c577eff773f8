------------------------------ MODULE VtcpBuf -------------------------------
(***************************************************************************)
(* The send buffer (sendbuf.go) and the reassembly buffer (recvbuf.go) of  *)
(* a vtcp connection, as operators on records.  A block is a half-open     *)
(* range [left, right) of sequence numbers, as in a SACK option.  The SACK *)
(* scoreboard and the out-of-order list are sets: the code keeps the list  *)
(* sorted and free of overlaps, so its order is that of the numbers.       *)
(***************************************************************************)
EXTENDS SeqSpace, Sequences, FiniteSets, FiniteSetsExt

CONSTANTS
    SendCap,    \* ConnConfig.SendBufSize: capacity of SendBuf
    RecvCap,    \* ConnConfig.RecvBufSize: RecvBuf.windowSize
    MaxOOO,     \* maxOOOEntries
    MaxSACK,    \* blocks that SACKBlocks reports (3)
    MSS         \* Conn.mss

ASSUME BufAssumption ==
    /\ SendCap \in Nat \ {0}
    /\ RecvCap \in Nat \ {0}
    /\ MaxOOO \in Nat
    /\ MaxSACK \in Nat
    /\ MSS \in Nat \ {0}

AtMost(a, b) == IF a <= b THEN a ELSE b

-----------------------------------------------------------------------------
\* Blocks

Covers(b, n) == SeqAfterEq(n, b.left) /\ SeqBefore(n, b.right)

\* Where the walk from n ends that jumps to the right edge of every block it
\* stands in: the first number from n on that no block covers.
FirstGap(blocks, n) ==
    CHOOSE m \in {n} \cup {b.right : b \in blocks} :
        /\ m >= n
        /\ \A b \in blocks : ~Covers(b, m)
        /\ \A k \in n .. (m - 1) : \E b \in blocks : Covers(b, k)

-----------------------------------------------------------------------------
\* SendBuf: buf holds the bytes from una on; those before nxt are in flight.

NewSendBuf(seq) == [buf |-> << >>, una |-> seq, nxt |-> seq, sacked |-> {}]

Available(s) == SendCap - Len(s.buf)

SendBufWrite(s, data) ==
    [s EXCEPT !.buf = @ \o SubSeq(data, 1, AtMost(Len(data), Available(s)))]

Unacked(s) == s.nxt - s.una

Pending(s) == Len(s.buf) - Unacked(s)

\* The n bytes of unsent data that start k bytes behind nxt.
PeekUnsent(s, k, n) ==
    SubSeq(s.buf, Unacked(s) + k + 1, AtMost(Unacked(s) + k + n, Len(s.buf)))

AdvanceSent(s, n) == [s EXCEPT !.nxt = @ + n]

\* Blocks that lie at least partly above una.
PruneSACK(blocks, una) == {b \in blocks : SeqAfter(b.right, una)}

Acknowledge(s, ack) ==
    LET una == IF SeqAfter(ack, s.nxt) THEN s.nxt ELSE ack
        n   == AtMost(una - s.una, Len(s.buf))
    IN  IF SeqAfter(ack, s.una)
        THEN [s EXCEPT !.buf = SubSeq(@, n + 1, Len(@)),
                       !.una = una,
                       !.sacked = PruneSACK(@, una)]
        ELSE s

\* The last report replaces the scoreboard; an empty one leaves it alone.
MarkSACKed(s, blocks) ==
    IF blocks = {}
    THEN s
    ELSE [s EXCEPT !.sacked = {b \in PruneSACK(blocks, s.una) : SeqBefore(b.left, s.nxt)}]

\* The first n bytes in flight that the peer has not reported.
RetransmitData(s, n) ==
    LET unacked == AtMost(Unacked(s), Len(s.buf))
        offset  == FirstGap(s.sacked, s.una) - s.una
    IN  SubSeq(s.buf, offset + 1, AtMost(offset + n, unacked))

-----------------------------------------------------------------------------
\* What the Conn sends from its send buffer: [seq, bytes] for each segment.

\* How many bytes flushSendQueue sends into a window of wnd bytes.  A segment
\* below MSS leaves only when nothing is in flight (silly-window avoidance).
FlushLen(s, wnd) ==
    LET room == AtMost(wnd - Unacked(s), Pending(s))
    IN  CASE room <= 0                             -> 0
          [] room \in 1 .. (MSS - 1)               -> IF Unacked(s) = 0 THEN room ELSE 0
          [] OTHER                                 -> room - (room % MSS)

\* The next n bytes, cut into segments of at most MSS.
FlushSegments(s, n) ==
    {[seq |-> s.nxt + k, bytes |-> PeekUnsent(s, k, AtMost(MSS, n - k))] :
        k \in {j \in 0 .. (n - 1) : j % MSS = 0}}

\* Mutant: the payload is labelled with nxt.
RetransmissionAtNxt(s) ==
    {seg \in {[seq |-> s.nxt, bytes |-> RetransmitData(s, MSS)]} : seg.bytes # << >>}

\* retransmit(): the payload is labelled with una, if there is any.
Retransmission(s) ==
    {seg \in {[seq |-> s.una, bytes |-> RetransmitData(s, MSS)]} : seg.bytes # << >>}

-----------------------------------------------------------------------------
\* RecvBuf: buf is in order and unread, nxt the next number expected, ooo the
\* segments that wait for a gap to fill.

NewRecvBuf(seq) == [buf |-> << >>, nxt |-> seq, ooo |-> {}]

Extent(e) == [left |-> e.seq, right |-> e.seq + Len(e.data)]

\* The numbers that wait out of order.  Entries do not overlap, so there are as
\* many as the code's sum of their lengths.
OOONumbers(r) == UNION {e.seq .. (Extent(e).right - 1) : e \in r.ooo}

RecvBufWindow(r) ==
    LET avail == RecvCap - Len(r.buf) - Cardinality(OOONumbers(r))
    IN  IF avail < 0 THEN 0 ELSE avail

\* The byte that a set of segments holds for number n.
ByteAt(segs, n) ==
    LET e == CHOOSE e \in segs : Covers(Extent(e), n)
    IN  e.data[n - e.seq + 1]

\* The bytes of the numbers [lo, hi), all of them held by segs.
BytesOf(segs, lo, hi) == [i \in 1 .. (hi - lo) |-> ByteAt(segs, lo + i - 1)]

\* Mutants: nothing is merged; entries that became contiguous stay in the list.
MergeOOOForgotten(r) == r
MergeOOOKeeps(r) ==
    LET nxt == FirstGap({Extent(e) : e \in r.ooo}, r.nxt)
    IN  [r EXCEPT !.buf = @ \o BytesOf(r.ooo, r.nxt, nxt), !.nxt = nxt]

\* mergeOOO: move to buf what has become contiguous, drop what is old.
MergeOOO(r) ==
    LET nxt == FirstGap({Extent(e) : e \in r.ooo}, r.nxt)
    IN  [buf |-> r.buf \o BytesOf(r.ooo, r.nxt, nxt),
         nxt |-> nxt,
         ooo |-> {e \in r.ooo : SeqAfter(e.seq, nxt)}]

\* insertOOO: a segment and the entries it overlaps become one entry, in which
\* the new bytes win.
InsertOOO(r, seq, data) ==
    LET new  == [seq |-> seq, data |-> data]
        end  == seq + Len(data)
        hits == {e \in r.ooo : SeqBefore(e.seq, end) /\ SeqBefore(seq, Extent(e).right)}
        lo   == Min({seq} \cup {e.seq : e \in hits})
        hi   == Max({end} \cup {Extent(e).right : e \in hits})
        all  == [seq  |-> lo,
                 data |-> BytesOf(hits, lo, seq) \o data \o BytesOf(hits, end, hi)]
    IN  [r EXCEPT !.ooo = (@ \ hits) \cup {all}]

\* Mutant: the part already received is not cut off.
RecvBufInsertUncut(r, seq, data) ==
    LET end == seq + Len(data)
    IN  IF SeqAfter(end, r.nxt) /\ SeqBeforeEq(seq, r.nxt)
        THEN MergeOOO([r EXCEPT !.buf = @ \o data, !.nxt = end])
        ELSE r

\* Insert: cut the segment to [nxt, nxt + windowSize), then append or keep it.
RecvBufInsert(r, seq, data) ==
    LET end  == seq + Len(data)
        edge == r.nxt + RecvCap
        lo   == IF SeqBefore(seq, r.nxt) THEN r.nxt ELSE seq
        hi   == IF SeqAfter(end, edge) THEN edge ELSE end
        cut  == SubSeq(data, lo - seq + 1, hi - seq)
    IN  IF SeqAfterEq(lo, hi) THEN r
        ELSE IF lo = r.nxt
             THEN MergeOOO([r EXCEPT !.buf = @ \o cut, !.nxt = hi])
             ELSE IF Cardinality(r.ooo) < MaxOOO
                  THEN InsertOOO(r, lo, cut)
                  ELSE r

\* Mutant: the last byte read stays in the buffer.
RecvBufReadKeepsOne(r, n) == [r EXCEPT !.buf = SubSeq(@, n, Len(@))]

RecvBufRead(r, n) == [r EXCEPT !.buf = SubSeq(@, n + 1, Len(@))]

\* Mutant: the right edge is taken for exclusive and passed by one.
SACKBlocksWide(r) == {[left |-> e.seq, right |-> Extent(e).right + 1] : e \in r.ooo}

\* The first MaxSACK out-of-order entries.
SACKBlocks(r) ==
    {Extent(e) : e \in {d \in r.ooo :
        Cardinality({f \in r.ooo : SeqBefore(f.seq, d.seq)}) < MaxSACK}}
=============================================================================
