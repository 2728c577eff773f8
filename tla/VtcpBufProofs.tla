--------------------------- MODULE VtcpBufProofs ----------------------------
(***************************************************************************)
(* What the sequence numbers and the buffers of vtcp preserve, for every   *)
(* size.  The comparisons of seqspace.go order sequence numbers as         *)
(* integers do, as long as the numbers lie less than half the sequence     *)
(* space apart.  In both buffers, and in the segments cut from them, bytes *)
(* keep the sequence numbers they were written with.  f stands for the     *)
(* stream, f[n] being the byte that belongs to number n; L and T bound the *)
(* numbers in use, which a window must not push half the space apart.      *)
(***************************************************************************)
EXTENDS VtcpBuf, TLAPS, SequenceTheorems, WellFoundedInduction

-----------------------------------------------------------------------------
\* Sequence numbers

\* Less than Half ahead, the unsigned difference is the difference itself.
LEMMA DiffAhead ==
    ASSUME NEW a \in Int, NEW b \in Int, 0 <= a - b, a - b < Half
    PROVE  SeqDiff(a, b) = a - b
  BY HalfAssumption DEF SeqDiff, Modulus

\* Less than Half behind, it wraps into the upper half (a negative int32).
LEMMA DiffBehind ==
    ASSUME NEW a \in Int, NEW b \in Int, 0 < b - a, b - a < Half
    PROVE  SeqDiff(a, b) = (a - b) + 2 * Half
  BY HalfAssumption DEF SeqDiff, Modulus

\* The comparisons of seqspace.go agree with the order of the integers on any
\* two numbers less than Half apart, wherever the 32-bit counter wraps.
THEOREM SeqOrder ==
    ASSUME NEW a \in Int, NEW b \in Int, a - b < Half, b - a < Half
    PROVE  /\ SeqBefore(a, b) <=> a < b
           /\ SeqAfter(a, b) <=> a > b
           /\ SeqBeforeEq(a, b) <=> a <= b
           /\ SeqAfterEq(a, b) <=> a >= b
  <1>1. CASE a >= b
    <2>1. SeqDiff(a, b) = a - b
      BY <1>1, DiffAhead
    <2> QED
      BY <1>1, <2>1, HalfAssumption DEF SeqBefore, SeqAfter, SeqBeforeEq, SeqAfterEq
  <1>2. CASE a < b
    <2>1. SeqDiff(a, b) = (a - b) + 2 * Half
      BY <1>2, DiffBehind
    <2> QED
      BY <1>2, <2>1, HalfAssumption DEF SeqBefore, SeqAfter, SeqBeforeEq, SeqAfterEq
  <1> QED
    BY <1>1, <1>2

\* A number is in the range [lo, hi) of seqspace.go exactly when it is in the
\* interval, if the three numbers lie less than Half apart.
COROLLARY SeqRange ==
    ASSUME NEW n \in Int, NEW lo \in Int, NEW hi \in Int,
           n - lo < Half, lo - n < Half, n - hi < Half, hi - n < Half
    PROVE  SeqInRange(n, lo, hi) <=> lo <= n /\ n < hi
  BY SeqOrder DEF SeqInRange

-----------------------------------------------------------------------------
\* The receive buffer

\* bytes are those of the stream f from number seq on.
Carries(f, seq, bytes) ==
    /\ bytes \in Seq(Nat)
    /\ \A i \in 1 .. Len(bytes) : bytes[i] = f[seq + i - 1]

-----------------------------------------------------------------------------
\* Numbers

\* A nonempty set of naturals has a least element.
LEMMA LeastNat ==
    ASSUME NEW S, S \subseteq Nat, S # {}
    PROVE  \E x \in S : \A y \in S : x <= y
  <1>1. PICK x \in S : \A y \in S : ~(<<y, x>> \in OpToRel(<, Nat))
    BY NatLessThanWellFounded, WFMin, Zenon
  <1>2. \A y \in S : ~(y < x)
    BY <1>1, Zenon DEF OpToRel
  <1> QED
    BY <1>2

\* AtMost is the smaller of its arguments.
LEMMA AtMostIsMin ==
    ASSUME NEW a \in Int, NEW b \in Int
    PROVE  /\ AtMost(a, b) \in {a, b}
           /\ AtMost(a, b) <= a
           /\ AtMost(a, b) <= b
  BY DEF AtMost

\* A block covers the numbers of its interval.
LEMMA CoversInterval ==
    ASSUME NEW L \in Int, NEW U \in Int, U - L < Half,
           NEW b, b.left \in L .. U, b.right \in L .. U, NEW n \in L .. U
    PROVE  Covers(b, n) <=> b.left <= n /\ n < b.right
  BY SeqOrder, HalfAssumption DEF Covers

\* The walk over blocks (RetransmitData, mergeOOO) ends at the first number
\* that no block covers.
LEMMA FirstGapIsFirst ==
    ASSUME NEW L \in Nat, NEW U \in Nat, U - L < Half,
           NEW blocks, \A b \in blocks : b.left \in L .. U /\ b.right \in L .. U,
           NEW n \in L .. U
    PROVE  LET m == FirstGap(blocks, n)
           IN  /\ m \in n .. U
               /\ \A b \in blocks : ~(b.left <= m /\ m < b.right)
               /\ \A k \in n .. (m - 1) : \E b \in blocks : b.left <= k /\ k < b.right
  <1> DEFINE In(b, k) == b.left <= k /\ k < b.right
             Gaps == {k \in n .. U : \A b \in blocks : ~In(b, k)}
             P(m) == /\ m >= n
                     /\ \A b \in blocks : ~Covers(b, m)
                     /\ \A k \in n .. (m - 1) : \E b \in blocks : Covers(b, k)
             Ends == {n} \cup {b.right : b \in blocks}
  <1>1. \A b \in blocks, k \in L .. U : Covers(b, k) <=> In(b, k)
    BY CoversInterval
  <1>2. Gaps \subseteq Nat /\ U \in Gaps
    OBVIOUS
  <1>3. PICK g \in Gaps : \A k \in Gaps : g <= k
    BY <1>2, LeastNat, Zenon
  <1>4. \A k \in n .. (g - 1) : \E b \in blocks : In(b, k)
    BY <1>3
  <1>5. g \in Ends
    <2>1. CASE g = n
      BY <2>1
    <2>2. CASE g # n
      <3>1. g - 1 \in n .. (g - 1) /\ g \in Int
        BY <1>3, <2>2
      <3>2. PICK b \in blocks : In(b, g - 1)
        BY <1>4, <3>1
      <3>3. b.right = g
        BY <1>3, <3>1, <3>2
      <3> QED
        BY <3>3
    <2> QED
      BY <2>1, <2>2
  <1>6. P(g)
    BY <1>1, <1>3, <1>4
  <1>7. FirstGap(blocks, n) \in Ends /\ P(FirstGap(blocks, n))
    <2>1. FirstGap(blocks, n) = CHOOSE m \in Ends : P(m)
      BY DEF FirstGap
    <2> HIDE DEF P, Ends
    <2> QED
      BY <1>5, <1>6, <2>1
  <1>8. FirstGap(blocks, n) \in n .. U
    BY <1>7
  <1> QED
    BY <1>1, <1>7, <1>8

\* A nonempty set of numbers within bounds has a smallest and a largest one,
\* which Min and Max return.
LEMMA MinMaxOfBounded ==
    ASSUME NEW L \in Nat, NEW U \in Nat, NEW S, S \subseteq L .. U, S # {}
    PROVE  /\ Min(S) \in S /\ \A x \in S : Min(S) <= x
           /\ Max(S) \in S /\ \A x \in S : Max(S) >= x
  <1> DEFINE D == {n \in Nat : U - n \in S}
  <1>1. \E x \in S : \A y \in S : x <= y
    <2>1. S \subseteq Nat
      OBVIOUS
    <2> QED
      BY <2>1, LeastNat, Zenon
  <1>2. PICK d \in D : \A e \in D : d <= e
    <2>1. PICK x \in S : TRUE
      BY Zenon
    <2>2. U - x \in Nat /\ U - (U - x) = x
      BY <2>1
    <2>3. D \subseteq Nat /\ D # {}
      BY <2>1, <2>2, Zenon
    <2> HIDE DEF D
    <2> QED
      BY <2>3, LeastNat, Zenon
  <1>3. \A y \in S : U - d >= y
    <2> TAKE y \in S
    <2>1. U - y \in Nat /\ U - (U - y) = y
      OBVIOUS
    <2>2. d <= U - y
      BY <1>2, <2>1, Zenon
    <2> QED
      BY <1>2, <2>1, <2>2
  <1>4. U - d \in S
    BY <1>2
  <1> QED
    BY <1>1, <1>3, <1>4, Zenon DEF Min, Max

-----------------------------------------------------------------------------
\* Bytes of the stream

\* A piece of what carries the stream carries it too.
LEMMA CarriesSub ==
    ASSUME NEW f, NEW seq \in Int, NEW bytes, Carries(f, seq, bytes),
           NEW i \in 1 .. (Len(bytes) + 1), NEW j \in Int, j <= Len(bytes)
    PROVE  /\ Carries(f, seq + i - 1, SubSeq(bytes, i, j))
           /\ Len(SubSeq(bytes, i, j)) = IF i <= j THEN j - i + 1 ELSE 0
  <1> DEFINE sub == SubSeq(bytes, i, j)
  <1>1. bytes \in Seq(Nat) /\ Len(bytes) \in Nat
    BY LenProperties DEF Carries
  <1>2. \A k \in i .. j : bytes[k] \in Nat
    BY <1>1, ElementOfSeq
  <1>3. /\ sub \in Seq(Nat)
        /\ Len(sub) = IF i <= j THEN j - i + 1 ELSE 0
        /\ \A k \in 1 .. (j - i + 1) : sub[k] = bytes[i + k - 1]
    BY <1>1
  <1>4. \A k \in 1 .. Len(sub) : sub[k] = f[(seq + i - 1) + k - 1]
    <2> SUFFICES ASSUME NEW k \in 1 .. Len(sub)
                 PROVE  sub[k] = f[(seq + i - 1) + k - 1]
      BY Zenon
    <2>1. k \in 1 .. (j - i + 1) /\ (i + k - 1) \in 1 .. Len(bytes)
      BY <1>1, <1>3, SMTT(20)
    <2>2. sub[k] = bytes[i + k - 1]
      BY <1>3, <2>1
    <2>3. bytes[i + k - 1] = f[seq + (i + k - 1) - 1]
      BY <2>1, Zenon DEF Carries
    <2>4. seq + (i + k - 1) - 1 = (seq + i - 1) + k - 1
      BY <2>1
    <2> QED
      BY <2>2, <2>3, <2>4
  <1> QED
    BY <1>3, <1>4 DEF Carries

\* Two adjacent pieces make one.
LEMMA CarriesConcat ==
    ASSUME NEW f, NEW seq \in Int, NEW s, Carries(f, seq, s),
           NEW m, m = seq + Len(s), NEW t, Carries(f, m, t)
    PROVE  /\ Carries(f, seq, s \o t)
           /\ Len(s \o t) = Len(s) + Len(t)
  <1>1. /\ s \in Seq(Nat) /\ t \in Seq(Nat)
        /\ Len(s) \in Nat /\ Len(t) \in Nat
    BY LenProperties DEF Carries
  <1>2. /\ s \o t \in Seq(Nat)
        /\ Len(s \o t) = Len(s) + Len(t)
        /\ \A i \in 1 .. Len(s) + Len(t) :
              (s \o t)[i] = IF i <= Len(s) THEN s[i] ELSE t[i - Len(s)]
    BY <1>1, ConcatProperties
  <1>3. ASSUME NEW i \in 1 .. Len(s \o t)
        PROVE  (s \o t)[i] = f[seq + i - 1]
    <2>1. CASE i <= Len(s)
      BY <1>1, <1>2, <2>1 DEF Carries
    <2>2. CASE i > Len(s)
      <3>1. i - Len(s) \in 1 .. Len(t)
        BY <1>1, <1>2, <2>2
      <3>2. t[i - Len(s)] = f[(seq + Len(s)) + (i - Len(s)) - 1]
        BY <3>1 DEF Carries
      <3>3. (seq + Len(s)) + (i - Len(s)) - 1 = seq + i - 1
        BY <1>1
      <3> QED
        BY <1>1, <1>2, <2>2, <3>2, <3>3
    <2> QED
      BY <1>1, <2>1, <2>2
  <1> QED
    BY <1>2, <1>3 DEF Carries

\* Concatenation of byte sequences is associative.
LEMMA ConcatBytes ==
    ASSUME NEW d \in Seq(Nat), NEW s \in Seq(Nat), NEW t \in Seq(Nat)
    PROVE  (d \o s) \o t = d \o (s \o t)
  BY SMTT(30)

\* Nothing carries any part of the stream.
LEMMA CarriesNothing ==
    ASSUME NEW f, NEW seq
    PROVE  Carries(f, seq, << >>) /\ Len(<< >>) = 0
  BY EmptySeq DEF Carries

-----------------------------------------------------------------------------
\* The reassembly buffer

\* A nonempty piece of the stream f that lies within [L, T).
Piece(f, L, T, e) ==
    /\ e \in [seq : Nat, data : Seq(Nat)]
    /\ e.seq \in L .. T
    /\ Len(e.data) > 0
    /\ e.seq + Len(e.data) <= T
    /\ Carries(f, e.seq, e.data)

\* e holds the byte of number n.
Has(e, n) == e.seq <= n /\ n < e.seq + Len(e.data)

\* segs are pieces of the stream within [L, T); they fill the range [lo, hi).
Pieces(f, L, T, segs) == \A e \in segs : Piece(f, L, T, e)
Filled(segs, lo, hi)  == \A n \in lo .. (hi - 1) : \E e \in segs : Has(e, n)

\* The fields of a receive buffer.
RecvShape(r) == r \in [buf : Seq(Nat), nxt : Nat, ooo : SUBSET [seq : Nat, data : Seq(Nat)]]

\* A receive buffer with the stream f up to nxt and pieces of it above.
RecvSound(f, L, T, r) ==
    /\ RecvShape(r)
    /\ r.nxt \in L .. T
    /\ \A e \in r.ooo : Piece(f, L, T, e) /\ r.nxt < e.seq
    /\ \A e, g \in r.ooo :
          e = g \/ e.seq + Len(e.data) <= g.seq \/ g.seq + Len(g.data) <= e.seq

\* Number n has arrived: in order, or waiting.
Holds(r, n) == n < r.nxt \/ \E e \in r.ooo : Has(e, n)

\* s continues r: the stream f is appended to buf, nxt moves with it, and no
\* number that has arrived is forgotten.
Continues(f, r, s) ==
    /\ \E more : s.buf = r.buf \o more /\ Carries(f, r.nxt, more) /\ s.nxt = r.nxt + Len(more)
    /\ \A n \in Nat : Holds(r, n) => Holds(s, n)

\* The edges of a piece, and what its extent covers.
LEMMA ExtentOfPiece ==
    ASSUME NEW f, NEW L \in Nat, NEW T \in Nat, T - L < Half,
           NEW e, Piece(f, L, T, e)
    PROVE  /\ Extent(e).left = e.seq
           /\ Extent(e).right = e.seq + Len(e.data)
           /\ Extent(e).left \in L .. T /\ Extent(e).right \in L .. T
           /\ e.seq \in L .. T /\ e.seq + Len(e.data) \in L .. T
           /\ e.seq \in Nat /\ Len(e.data) \in Nat /\ Len(e.data) > 0
           /\ \A n \in L .. T : Covers(Extent(e), n) <=> Has(e, n)
  <1>1. e.seq \in Nat /\ e.data \in Seq(Nat) /\ Len(e.data) \in Nat
    BY LenProperties DEF Piece
  <1>2. Extent(e).left = e.seq /\ Extent(e).right = e.seq + Len(e.data)
    BY DEF Extent
  <1>3. Extent(e).left \in L .. T /\ Extent(e).right \in L .. T
    BY <1>1, <1>2 DEF Piece
  <1>4. Len(e.data) > 0
    BY DEF Piece
  <1>5. \A n \in L .. T : Covers(Extent(e), n) <=> Has(e, n)
    BY <1>2, <1>3, CoversInterval DEF Has
  <1> QED
    BY <1>1, <1>2, <1>3, <1>4, <1>5

\* Whichever entry the code reads a byte from, it is the byte of the stream.
LEMMA ByteAtIsStream ==
    ASSUME NEW f, NEW L \in Nat, NEW T \in Nat, T - L < Half,
           NEW segs, \A e \in segs : Piece(f, L, T, e),
           NEW n \in L .. T, \E e \in segs : Has(e, n)
    PROVE  ByteAt(segs, n) = f[n] /\ ByteAt(segs, n) \in Nat
  <1> DEFINE e == CHOOSE x \in segs : Covers(Extent(x), n)
  <1>1. \E x \in segs : Covers(Extent(x), n)
    BY ExtentOfPiece
  <1>2. e \in segs /\ Covers(Extent(e), n)
    BY <1>1
  <1>3. ByteAt(segs, n) = e.data[n - e.seq + 1]
    BY DEF ByteAt
  <1> HIDE DEF e
  <1>4. Piece(f, L, T, e) /\ Has(e, n) /\ e.seq \in Nat /\ Len(e.data) \in Nat
    BY <1>2, ExtentOfPiece
  <1>5. n - e.seq + 1 \in 1 .. Len(e.data)
    BY <1>4 DEF Has
  <1>6. e.data[n - e.seq + 1] = f[e.seq + (n - e.seq + 1) - 1]
    BY <1>4, <1>5, Zenon DEF Piece, Carries
  <1>7. e.seq + (n - e.seq + 1) - 1 = n
    BY <1>4
  <1>8. e.data[n - e.seq + 1] \in Nat
    BY <1>4, <1>5, ElementOfSeq, Zenon DEF Piece, Carries
  <1> QED
    BY <1>3, <1>6, <1>7, <1>8

\* BytesOf has one byte for each number of the range.
LEMMA BytesOfLen ==
    ASSUME NEW segs, NEW lo \in Int, NEW hi \in Int, lo <= hi
    PROVE  Len(BytesOf(segs, lo, hi)) = hi - lo
  BY DEF BytesOf

\* The bytes of a covered range carry the stream.
LEMMA BytesOfCarry ==
    ASSUME NEW f, NEW L \in Nat, NEW T \in Nat, T - L < Half,
           NEW segs, Pieces(f, L, T, segs),
           NEW lo \in L .. T, NEW hi \in L .. T, lo <= hi,
           Filled(segs, lo, hi)
    PROVE  Carries(f, lo, BytesOf(segs, lo, hi))
  <1> DEFINE b == BytesOf(segs, lo, hi)
  <1>1. b = [i \in 1 .. (hi - lo) |-> ByteAt(segs, lo + i - 1)]
    BY DEF BytesOf
  <1>2. \A i \in 1 .. (hi - lo) : ByteAt(segs, lo + i - 1) = f[lo + i - 1]
                                  /\ ByteAt(segs, lo + i - 1) \in Nat
    <2> TAKE i \in 1 .. (hi - lo)
    <2>1. lo + i - 1 \in lo .. (hi - 1) /\ lo + i - 1 \in L .. T
      OBVIOUS
    <2> QED
      BY <2>1, ByteAtIsStream DEF Pieces, Filled
  <1> HIDE DEF b
  <1>3. b \in [1 .. (hi - lo) -> Nat]
    BY <1>1, <1>2, Zenon
  <1>4. b \in Seq(Nat) /\ Len(b) = hi - lo
    BY <1>3
  <1>5. \A i \in 1 .. (hi - lo) : b[i] = f[lo + i - 1]
    BY <1>1, <1>2
  <1>6. Carries(f, lo, b)
    BY <1>4, <1>5 DEF Carries
  <1> QED
    BY <1>6 DEF b

\* mergeOOO leaves a sound buffer, whatever entries nxt has caught up with.
LEMMA MergeSound ==
    ASSUME NEW f, NEW L \in Nat, NEW T \in Nat, T - L < Half,
           NEW r, RecvShape(r), r.nxt \in L .. T,
           \A e \in r.ooo : Piece(f, L, T, e),
           \A e, g \in r.ooo :
              e = g \/ e.seq + Len(e.data) <= g.seq \/ g.seq + Len(g.data) <= e.seq
    PROVE  RecvSound(f, L, T, MergeOOO(r)) /\ Continues(f, r, MergeOOO(r))
  <1> DEFINE s == MergeOOO(r)
  <1>1. PICK q, ooo, blocks : q = r.nxt /\ ooo = r.ooo /\ blocks = {Extent(e) : e \in ooo}
    BY Zenon
  <1>2. PICK nxt, more : nxt = FirstGap(blocks, q) /\ more = BytesOf(ooo, q, nxt)
    OBVIOUS
  <1>3. q \in L .. T /\ \A e \in ooo : Piece(f, L, T, e)
    BY <1>1
  <1>4. \A e \in ooo : /\ Extent(e) \in blocks
                       /\ Extent(e).left = e.seq /\ Extent(e).right = e.seq + Len(e.data)
                       /\ e.seq \in L .. T /\ Len(e.data) \in Nat /\ e.seq + Len(e.data) \in L .. T
    <2> TAKE e \in ooo
    <2>1. Piece(f, L, T, e) /\ Extent(e) \in blocks
      BY <1>1, <1>3
    <2> QED
      BY <2>1, ExtentOfPiece, Zenon
  <1>5. \A b \in blocks : b.left \in L .. T /\ b.right \in L .. T
    BY <1>1, <1>4
  <1>6. /\ nxt \in q .. T
        /\ \A b \in blocks : ~(b.left <= nxt /\ nxt < b.right)
        /\ \A k \in q .. (nxt - 1) : \E b \in blocks : b.left <= k /\ k < b.right
    BY ONLY <1>2, <1>3, <1>5, T - L < Half, FirstGapIsFirst, Zenon
  <1>7. nxt \in L .. T /\ nxt \in Nat /\ q \in Nat /\ q <= nxt
    BY <1>3, <1>6
  <1>8. \A e \in ooo : ~Has(e, nxt)
    BY <1>4, <1>6 DEF Has
  <1>9. \A k \in q .. (nxt - 1) : \E e \in ooo : Has(e, k)
    <2> TAKE k \in q .. (nxt - 1)
    <2>1. PICK b \in blocks : b.left <= k /\ k < b.right
      BY <1>6
    <2>2. PICK e \in ooo : b = Extent(e)
      BY <1>1
    <2> QED
      BY <1>4, <2>1, <2>2 DEF Has
  <1>10. Carries(f, q, more) /\ Len(more) = nxt - q
    <2>1. Pieces(f, L, T, ooo) /\ Filled(ooo, q, nxt)
      BY <1>3, <1>9 DEF Pieces, Filled
    <2>2. /\ L \in Nat /\ T \in Nat /\ T - L < Half
          /\ q \in L .. T /\ nxt \in L .. T /\ q <= nxt
      BY <1>3, <1>7
    <2>3. Carries(f, q, more)
      BY ONLY <1>2, <2>1, <2>2, BytesOfCarry
    <2>4. Len(more) = nxt - q
      BY ONLY <1>2, <2>1, <2>2, BytesOfLen, SMTT(20)
    <2> QED
      BY <2>3, <2>4
  <1>11. /\ s.buf = r.buf \o more
         /\ s.nxt = nxt
         /\ s.ooo = {e \in ooo : SeqAfter(e.seq, nxt)}
         /\ s = [buf |-> s.buf, nxt |-> s.nxt, ooo |-> s.ooo]
    BY <1>1, <1>2, Zenon DEF MergeOOO
  <1> HIDE DEF s
  <1>12. \A e \in ooo : SeqAfter(e.seq, nxt) <=> e.seq > nxt
    <2> TAKE e \in ooo
    <2>1. e.seq \in Int /\ nxt \in Int /\ e.seq - nxt < Half /\ nxt - e.seq < Half
      BY <1>4, <1>7, HalfAssumption
    <2> QED
      BY <2>1, SeqOrder
  <1>13. \A e \in s.ooo : e \in ooo /\ nxt < e.seq
    BY <1>4, <1>7, <1>11, <1>12
  <1>14. RecvSound(f, L, T, s)
    <2>1. s.buf \in Seq(Nat)
      BY <1>10, <1>11, ConcatProperties DEF Carries, RecvShape
    <2>2. s.ooo \subseteq [seq : Nat, data : Seq(Nat)]
      BY <1>3, <1>13 DEF Piece
    <2>3. RecvShape(s)
      BY <1>7, <1>11, <2>1, <2>2, Zenon DEF RecvShape
    <2> QED
      BY <1>1, <1>3, <1>7, <1>11, <1>13, <2>3 DEF RecvSound
  <1>15. ASSUME NEW n \in Nat, Holds(r, n)
         PROVE  Holds(s, n)
    <2>1. CASE n < nxt
      BY <1>11, <2>1 DEF Holds
    <2>2. CASE n >= nxt
      <3>1. PICK e \in ooo : Has(e, n)
        BY <1>1, <1>7, <1>15, <2>2 DEF Holds
      <3>2. e.seq > nxt
        BY <1>4, <1>7, <1>8, <2>2, <3>1 DEF Has
      <3> QED
        BY <1>11, <1>12, <3>1, <3>2 DEF Holds
    <2> QED
      BY <1>7, <2>1, <2>2
  <1>16. Continues(f, r, s)
    <2>1. s.nxt = r.nxt + Len(more)
      BY <1>1, <1>7, <1>10, <1>11
    <2> QED
      BY <1>1, <1>10, <1>11, <1>15, <2>1, Zenon DEF Continues
  <1> QED
    BY <1>14, <1>16 DEF s

\* insertOOO keeps the buffer sound: the piece and the entries it overlaps
\* become one piece, apart from all others.
LEMMA InsertOOOSound ==
    ASSUME NEW f, NEW L \in Nat, NEW T \in Nat, T - L < Half,
           NEW r, RecvSound(f, L, T, r),
           NEW seq, NEW data, Piece(f, L, T, [seq |-> seq, data |-> data]), r.nxt < seq
    PROVE  RecvSound(f, L, T, InsertOOO(r, seq, data)) /\ Continues(f, r, InsertOOO(r, seq, data))
  <1> DEFINE end  == seq + Len(data)
             hits == {e \in r.ooo : SeqBefore(e.seq, end) /\ SeqBefore(seq, Extent(e).right)}
             Los  == {seq} \cup {e.seq : e \in hits}
             His  == {end} \cup {Extent(e).right : e \in hits}
             lo   == Min(Los)
             hi   == Max(His)
             pre  == BytesOf(hits, lo, seq)
             post == BytesOf(hits, end, hi)
             all  == [seq |-> lo, data |-> pre \o data \o post]
             s    == InsertOOO(r, seq, data)
  <1>1. s = [r EXCEPT !.ooo = (@ \ hits) \cup {all}]
    BY DEF InsertOOO
  <1>2. /\ seq \in L .. T /\ end \in L .. T /\ seq < end
        /\ Len(data) \in Nat /\ data \in Seq(Nat)
        /\ Carries(f, seq, data)
    BY LenProperties DEF Piece
  <1>e. end = seq + Len(data)
    OBVIOUS
  <1> HIDE DEF end
  <1>3. \A e \in r.ooo : /\ Piece(f, L, T, e) /\ r.nxt < e.seq
                         /\ e.seq \in L .. T /\ Len(e.data) \in Nat
                         /\ e.seq + Len(e.data) \in L .. T
                         /\ Extent(e).right = e.seq + Len(e.data)
                         /\ e.seq < e.seq + Len(e.data)
    <2> TAKE e \in r.ooo
    <2>1. Piece(f, L, T, e) /\ r.nxt < e.seq
      BY DEF RecvSound
    <2>2. /\ e.seq \in L .. T /\ e.seq + Len(e.data) \in L .. T
          /\ e.seq \in Nat /\ Len(e.data) \in Nat /\ Len(e.data) > 0
          /\ Extent(e).right = e.seq + Len(e.data)
      BY ONLY <2>1, L \in Nat, T \in Nat, T - L < Half, ExtentOfPiece, Zenon
    <2> QED
      BY <2>1, <2>2
  <1>4. \A e \in r.ooo : e \in hits <=> e.seq < end /\ seq < e.seq + Len(e.data)
    <2> TAKE e \in r.ooo
    <2>1. SeqBefore(e.seq, end) <=> e.seq < end
      <3>1. e.seq \in Int /\ end \in Int /\ e.seq - end < Half /\ end - e.seq < Half
        BY <1>2, <1>3, HalfAssumption
      <3> QED
        BY <3>1, SeqOrder
    <2>2. SeqBefore(seq, Extent(e).right) <=> seq < e.seq + Len(e.data)
      <3>1. PICK u : u = e.seq + Len(e.data)
        OBVIOUS
      <3>2. seq \in Int /\ u \in Int /\ seq - u < Half /\ u - seq < Half
        <4>1. u \in L .. T
          BY <1>3, <3>1
        <4> QED
          BY <1>2, <4>1, HalfAssumption
      <3>3. SeqBefore(seq, u) <=> seq < u
        BY <3>2, SeqOrder
      <3> QED
        BY <1>3, <3>1, <3>3
    <2> QED
      BY <2>1, <2>2
  <1>5. hits \subseteq r.ooo
    OBVIOUS
  <1> HIDE DEF hits
  <1>6. /\ Los \subseteq L .. T /\ Los # {} /\ seq \in Los
        /\ His \subseteq L .. T /\ His # {} /\ end \in His
    BY <1>2, <1>3, <1>5
  <1>7. /\ lo \in Los /\ \A x \in Los : lo <= x
        /\ hi \in His /\ \A x \in His : hi >= x
    <2> HIDE DEF Los, His
    <2> QED
      BY <1>6, MinMaxOfBounded, Zenon
  <1> HIDE DEF lo, hi
  <1>8. lo \in L .. T /\ hi \in L .. T /\ lo <= seq /\ end <= hi
    BY <1>6, <1>7
  <1>9. lo = seq \/ \E e \in hits : lo = e.seq
    BY <1>7
  <1>10. hi = end \/ \E e \in hits : hi = e.seq + Len(e.data)
    BY <1>3, <1>5, <1>7
  <1>11. \A e \in hits : lo <= e.seq /\ e.seq + Len(e.data) <= hi
    BY <1>3, <1>5, <1>7
  <1> HIDE DEF Los, His
  <1>12. Carries(f, lo, pre) /\ Len(pre) = seq - lo
    <2>1. ASSUME NEW n \in lo .. (seq - 1)
          PROVE  \E e \in hits : Has(e, n)
      <3>1. PICK e \in hits : lo = e.seq
        BY <1>2, <1>8, <1>9, <2>1
      <3> QED
        BY <1>2, <1>3, <1>4, <1>5, <1>8, <2>1, <3>1 DEF Has
    <2>2. Pieces(f, L, T, hits) /\ Filled(hits, lo, seq)
      BY <1>3, <1>5, <2>1 DEF Pieces, Filled
    <2> QED
      BY ONLY <1>2, <1>8, <2>2, L \in Nat, T \in Nat, T - L < Half, BytesOfCarry, BytesOfLen
  <1>13. Carries(f, end, post) /\ Len(post) = hi - end
    <2>1. ASSUME NEW n \in end .. (hi - 1)
          PROVE  \E e \in hits : Has(e, n)
      <3>1. PICK e \in hits : hi = e.seq + Len(e.data)
        BY <1>2, <1>8, <1>10, <2>1
      <3>2. e.seq < end /\ e.seq \in Nat
        BY <1>3, <1>4, <1>5
      <3> QED
        BY <1>2, <1>8, <2>1, <3>1, <3>2, SMTT(20) DEF Has
    <2>2. Pieces(f, L, T, hits) /\ Filled(hits, end, hi)
      BY <1>3, <1>5, <2>1 DEF Pieces, Filled
    <2>3. end \in L .. T /\ hi \in L .. T /\ end <= hi
      BY <1>2, <1>8
    <2> QED
      BY ONLY <2>2, <2>3, L \in Nat, T \in Nat, T - L < Half, BytesOfCarry, BytesOfLen
  <1> HIDE DEF pre, post
  <1>14. Carries(f, lo, all.data) /\ Len(all.data) = hi - lo /\ all.seq = lo
    <2>1. lo + Len(pre) = seq /\ lo \in Int
      BY <1>2, <1>8, <1>12
    <2>2. Carries(f, lo, pre \o data) /\ Len(pre \o data) = end - lo
      <3>1. Carries(f, lo, pre \o data) /\ Len(pre \o data) = Len(pre) + Len(data)
        BY ONLY <1>2, <1>12, <2>1, CarriesConcat
      <3> QED
        BY <1>2, <1>e, <1>8, <1>12, <3>1
    <2>3. PICK two : two = pre \o data
      BY Zenon
    <2>4. lo + Len(two) = end
      BY <1>2, <1>8, <2>2, <2>3
    <2>5. Carries(f, lo, two \o post) /\ Len(two \o post) = Len(two) + Len(post)
      <3>1. PICK a, c : a = lo /\ c = end
        OBVIOUS
      <3>2. a \in Int /\ c = a + Len(two) /\ Carries(f, a, two) /\ Carries(f, c, post)
        BY <1>13, <2>1, <2>2, <2>3, <2>4, <3>1
      <3>3. Carries(f, a, two \o post) /\ Len(two \o post) = Len(two) + Len(post)
        BY ONLY <3>2, CarriesConcat
      <3> QED
        BY <3>1, <3>3
    <2>6. Len(two \o post) = hi - lo
      BY <1>2, <1>8, <1>13, <2>2, <2>3, <2>5
    <2> QED
      BY <2>3, <2>5, <2>6
  <1>15. all \in [seq : Nat, data : Seq(Nat)]
    BY <1>8, <1>14 DEF Carries
  <1> HIDE DEF all
  <1>16. Piece(f, L, T, all) /\ r.nxt < all.seq
    <2>1. r.nxt < lo
      BY <1>3, <1>5, <1>9
    <2> QED
      BY <1>2, <1>8, <1>14, <1>15, <2>1 DEF Piece
  <1>17. \A g \in r.ooo \ hits : g.seq + Len(g.data) <= lo \/ hi <= g.seq
    <2> TAKE g \in r.ooo \ hits
    <2>1. g.seq + Len(g.data) <= seq \/ end <= g.seq
      BY <1>2, <1>3, <1>4, SMTT(30)
    <2>2. \A e \in hits : e.seq + Len(e.data) <= g.seq \/ g.seq + Len(g.data) <= e.seq
      BY <1>5 DEF RecvSound
    <2>3. CASE g.seq + Len(g.data) <= seq
      BY <1>2, <1>3, <1>4, <1>5, <1>8, <1>9, <2>2, <2>3, SMTT(20)
    <2>4. CASE end <= g.seq
      BY <1>2, <1>3, <1>4, <1>5, <1>8, <1>10, <2>2, <2>4, SMTT(30)
    <2> QED
      BY <2>1, <2>3, <2>4
  <1>18. /\ s.buf = r.buf /\ s.nxt = r.nxt /\ s.ooo = (r.ooo \ hits) \cup {all}
         /\ RecvShape(s)
    BY <1>1, <1>15, Zenon DEF RecvSound, RecvShape
  <1> HIDE DEF s
  <1>19. RecvSound(f, L, T, s)
    <2>1. r.nxt \in L .. T
      BY DEF RecvSound
    <2>2. \A e \in s.ooo : Piece(f, L, T, e) /\ s.nxt < e.seq
      BY <1>3, <1>16, <1>18
    <2>3. ASSUME NEW e \in s.ooo, NEW g \in s.ooo
          PROVE  e = g \/ e.seq + Len(e.data) <= g.seq \/ g.seq + Len(g.data) <= e.seq
      <3>1. all.seq + Len(all.data) = hi
        BY <1>8, <1>14
      <3>2. CASE e \in r.ooo \ hits /\ g \in r.ooo \ hits
        BY <3>2 DEF RecvSound
      <3>3. CASE e = all /\ g \in r.ooo \ hits
        BY <1>14, <1>17, <3>1, <3>3
      <3>4. CASE g = all /\ e \in r.ooo \ hits
        BY <1>14, <1>17, <3>1, <3>4
      <3> QED
        BY <1>18, <2>3, <3>2, <3>3, <3>4
    <2> QED
      BY <1>18, <2>1, <2>2, <2>3 DEF RecvSound
  <1>20. Continues(f, r, s)
    <2>1. /\ s.buf = r.buf \o << >> /\ Carries(f, r.nxt, << >>)
          /\ s.nxt = r.nxt + Len(<< >>)
      BY <1>18, CarriesNothing, ConcatEmptySeq DEF RecvSound
    <2>2. ASSUME NEW n \in Nat, Holds(r, n)
          PROVE  Holds(s, n)
      <3>1. CASE n < r.nxt
        BY <1>18, <3>1 DEF Holds
      <3>2. CASE \E e \in r.ooo \ hits : Has(e, n)
        BY <1>18, <3>2 DEF Holds
      <3>3. CASE \E e \in hits : Has(e, n)
        <4>1. Has(all, n)
          BY <1>3, <1>5, <1>8, <1>11, <1>14, <3>3 DEF Has
        <4> QED
          BY <1>18, <4>1 DEF Holds
      <3> QED
        BY <2>2, <3>1, <3>2, <3>3 DEF Holds
    <2> QED
      BY <2>1, <2>2, Zenon DEF Continues
  <1> QED
    BY <1>19, <1>20 DEF s

\* Continuing twice is continuing.
LEMMA ContinuesTwice ==
    ASSUME NEW f, NEW r, RecvShape(r), NEW s, Continues(f, r, s), NEW t, Continues(f, s, t)
    PROVE  Continues(f, r, t)
  <1>1. PICK one : s.buf = r.buf \o one /\ Carries(f, r.nxt, one) /\ s.nxt = r.nxt + Len(one)
    BY SMTT(20) DEF Continues
  <1>2. PICK two : t.buf = s.buf \o two /\ Carries(f, s.nxt, two) /\ t.nxt = s.nxt + Len(two)
    BY SMTT(30) DEF Continues
  <1>3. /\ r.buf \in Seq(Nat) /\ one \in Seq(Nat) /\ two \in Seq(Nat)
        /\ r.nxt \in Int /\ Len(one) \in Nat /\ Len(two) \in Nat
    BY <1>1, <1>2, LenProperties DEF RecvShape, Carries
  <1>4. t.buf = r.buf \o (one \o two)
    <2>1. PICK b : b = r.buf
      OBVIOUS
    <2>2. b \in Seq(Nat) /\ one \in Seq(Nat) /\ two \in Seq(Nat)
      BY <1>3, <2>1
    <2>3. (b \o one) \o two = b \o (one \o two)
      BY ONLY <2>2, ConcatBytes, SMTT(20)
    <2> QED
      BY <1>1, <1>2, <2>1, <2>3
  <1>5. PICK a, c : a = r.nxt /\ c = s.nxt
    OBVIOUS
  <1>6. a \in Int /\ c = a + Len(one) /\ Carries(f, a, one) /\ Carries(f, c, two)
    BY <1>1, <1>2, <1>3, <1>5
  <1>7. Carries(f, a, one \o two) /\ Len(one \o two) = Len(one) + Len(two)
    BY ONLY <1>6, CarriesConcat
  <1>8. t.nxt = r.nxt + Len(one \o two)
    BY <1>1, <1>2, <1>3, <1>7
  <1> QED
    BY <1>4, <1>5, <1>7, <1>8, Zenon DEF Continues

\* A buffer that did not change continues itself.
LEMMA ContinuesSame ==
    ASSUME NEW f, NEW r, RecvShape(r)
    PROVE  Continues(f, r, r)
  <1>1. r.buf = r.buf \o << >> /\ Carries(f, r.nxt, << >>) /\ r.nxt = r.nxt + Len(<< >>)
    BY CarriesNothing, ConcatEmptySeq DEF RecvShape
  <1> QED
    BY <1>1, Zenon DEF Continues

\* Insert keeps the buffer sound, whatever part of the segment the window
\* admits and whether it is appended, kept for later or dropped.
LEMMA InsertSound ==
    ASSUME NEW f, NEW L \in Nat, NEW T \in Nat, (T - L) + RecvCap < Half,
           NEW r, RecvSound(f, L, T, r),
           NEW seq, NEW data, Piece(f, L, T, [seq |-> seq, data |-> data])
    PROVE  /\ RecvSound(f, L, T, RecvBufInsert(r, seq, data))
           /\ Continues(f, r, RecvBufInsert(r, seq, data))
  <1> DEFINE s == RecvBufInsert(r, seq, data)
  <1>1. /\ seq \in L .. T /\ Len(data) \in Nat /\ data \in Seq(Nat)
        /\ seq + Len(data) \in L .. T /\ seq < seq + Len(data)
        /\ Carries(f, seq, data)
    BY LenProperties DEF Piece
  <1>2. RecvShape(r) /\ r.nxt \in L .. T /\ T - L < Half /\ RecvCap \in Nat
    BY BufAssumption, HalfAssumption DEF RecvSound
  <1>3. PICK q, end, edge : q = r.nxt /\ end = seq + Len(data) /\ edge = r.nxt + RecvCap
    BY Zenon
  <1>4. /\ q \in L .. T /\ end \in L .. T /\ edge \in Nat /\ q <= edge /\ seq < end
        /\ edge - end < Half /\ end - edge < Half
    <2>1. q \in L .. T /\ end \in L .. T /\ seq < end /\ edge = q + RecvCap
      BY <1>1, <1>2, <1>3
    <2> QED
      BY <1>2, <2>1, HalfAssumption
  <1>5. PICK lo, hi : /\ lo = IF SeqBefore(seq, q) THEN q ELSE seq
                      /\ hi = IF SeqAfter(end, edge) THEN edge ELSE end
    OBVIOUS
  <1>6. PICK cut : cut = SubSeq(data, lo - seq + 1, hi - seq)
    BY Zenon
  <1>7. s = IF SeqAfterEq(lo, hi) THEN r
            ELSE IF lo = q
                 THEN MergeOOO([r EXCEPT !.buf = @ \o cut, !.nxt = hi])
                 ELSE IF Cardinality(r.ooo) < MaxOOO THEN InsertOOO(r, lo, cut) ELSE r
    BY <1>3, <1>5, <1>6 DEF RecvBufInsert
  <1> HIDE DEF s
  <1>8. /\ lo = IF seq < q THEN q ELSE seq
        /\ hi = IF end > edge THEN edge ELSE end
    <2>1. seq \in Int /\ q \in Int /\ seq - q < Half /\ q - seq < Half
      BY <1>1, <1>2, <1>4, HalfAssumption
    <2>2. SeqBefore(seq, q) <=> seq < q
      BY <2>1, SeqOrder
    <2>3. end \in Int /\ edge \in Int
      BY <1>4
    <2>4. SeqAfter(end, edge) <=> end > edge
      BY <1>4, <2>3, SeqOrder
    <2> QED
      BY <1>5, <2>2, <2>4
  <1>9. lo \in L .. T /\ hi \in L .. T /\ seq <= lo /\ hi <= end /\ q <= lo
    BY <1>1, <1>4, <1>8
  <1>10. SeqAfterEq(lo, hi) <=> lo >= hi
    <2>1. lo \in Int /\ hi \in Int /\ lo - hi < Half /\ hi - lo < Half
      BY <1>2, <1>9, HalfAssumption
    <2> QED
      BY <2>1, SeqOrder
  <1>11. CASE s = r
    BY <1>2, <1>11, ContinuesSame DEF s
  <1>12. ASSUME lo < hi
         PROVE  Carries(f, lo, cut) /\ Len(cut) = hi - lo
    <2>1. PICK i, j : i = lo - seq + 1 /\ j = hi - seq
      OBVIOUS
    <2>2. i \in 1 .. (Len(data) + 1) /\ j \in Int /\ j <= Len(data) /\ seq \in Int
      BY <1>1, <1>3, <1>9, <1>12, <2>1
    <2>3. /\ Carries(f, seq + i - 1, SubSeq(data, i, j))
          /\ Len(SubSeq(data, i, j)) = IF i <= j THEN j - i + 1 ELSE 0
      BY ONLY <1>1, <2>2, CarriesSub
    <2>4. seq + i - 1 = lo /\ i <= j /\ j - i + 1 = hi - lo
      BY <1>1, <1>9, <1>12, <2>1
    <2> QED
      BY <1>6, <2>1, <2>3, <2>4
  <1>13. CASE lo < hi /\ lo = q
    <2> DEFINE m == [r EXCEPT !.buf = @ \o cut, !.nxt = hi]
    <2>1. Carries(f, lo, cut) /\ Len(cut) = hi - lo /\ cut \in Seq(Nat)
      BY <1>12, <1>13 DEF Carries
    <2>2. m.buf = r.buf \o cut /\ m.nxt = hi /\ m.ooo = r.ooo /\ RecvShape(m)
      <3>1. r.buf \o cut \in Seq(Nat) /\ hi \in Nat
        BY <1>2, <1>9, <2>1, ConcatProperties DEF RecvShape
      <3> QED
        BY <1>2, <3>1, Zenon DEF RecvShape
    <2>3. s = MergeOOO(m)
      BY <1>7, <1>9, <1>10, <1>13
    <2> HIDE DEF m
    <2>4. RecvSound(f, L, T, s) /\ Continues(f, m, s)
      <3>1. m.nxt \in L .. T /\ \A e \in m.ooo : Piece(f, L, T, e)
        BY <1>9, <2>2 DEF RecvSound
      <3>2. \A e, g \in m.ooo :
               e = g \/ e.seq + Len(e.data) <= g.seq \/ g.seq + Len(g.data) <= e.seq
        BY <2>2 DEF RecvSound
      <3> QED
        BY <1>2, <2>2, <2>3, <3>1, <3>2, MergeSound, ZenonT(30)
    <2>5. Continues(f, r, m)
      <3>1. m.nxt = r.nxt + Len(cut) /\ Carries(f, r.nxt, cut)
        BY <1>3, <1>9, <1>13, <2>1, <2>2
      <3>2. \A n \in Nat : Holds(r, n) => Holds(m, n)
        BY <1>3, <1>9, <1>13, <2>2 DEF Holds
      <3> QED
        BY <2>2, <3>1, <3>2, SMTT(20) DEF Continues
    <2> QED
      BY <1>2, <2>4, <2>5, ContinuesTwice DEF s
  <1>14. CASE lo < hi /\ lo # q /\ Cardinality(r.ooo) < MaxOOO
    <2>1. Carries(f, lo, cut) /\ Len(cut) = hi - lo /\ cut \in Seq(Nat)
      BY <1>12, <1>14 DEF Carries
    <2>2. Piece(f, L, T, [seq |-> lo, data |-> cut]) /\ r.nxt < lo
      <3>1. lo \in Nat /\ q < lo /\ Len(cut) > 0 /\ lo + Len(cut) <= T
        BY <1>4, <1>9, <1>14, <2>1
      <3> QED
        BY <1>3, <1>9, <2>1, <3>1 DEF Piece
    <2>3. s = InsertOOO(r, lo, cut)
      BY <1>7, <1>9, <1>10, <1>14
    <2> QED
      BY <1>2, <2>2, <2>3, InsertOOOSound DEF s
  <1> QED
    BY <1>7, <1>9, <1>10, <1>11, <1>13, <1>14 DEF s

-----------------------------------------------------------------------------
\* The send buffer, and segments cut from it

SendShape(s) ==
    s \in [buf : Seq(Nat), una : Nat, nxt : Nat, sacked : SUBSET [left : Nat, right : Nat]]

\* A send buffer with the bytes of the stream f from una up to W, sent up to nxt.
SendSound(f, L, W, s) ==
    /\ SendShape(s)
    /\ L <= s.una /\ s.una <= s.nxt /\ s.nxt <= W
    /\ s.una + Len(s.buf) = W
    /\ Carries(f, s.una, s.buf)

\* Write appends the part of the bytes that fits.
LEMMA WriteSound ==
    ASSUME NEW f, NEW L \in Nat, NEW W \in Nat, NEW s, SendSound(f, L, W, s),
           NEW bytes, Carries(f, W, bytes),
           NEW t, t = SendBufWrite(s, bytes)
    PROVE  /\ \E took \in Nat, V \in Nat :
                 /\ took <= Len(bytes) /\ Len(t.buf) = Len(s.buf) + took /\ V = W + took
                 /\ SendSound(f, L, V, t)
           /\ t.una = s.una /\ t.nxt = s.nxt /\ t.sacked = s.sacked
  <1>1. PICK u, b, k, cut : /\ u = s.una /\ b = s.buf
                            /\ k = AtMost(Len(bytes), SendCap - Len(b))
                            /\ cut = SubSeq(bytes, 1, k)
    BY Zenon
  <1>2. /\ u \in Nat /\ b \in Seq(Nat) /\ Len(b) \in Nat /\ u + Len(b) = W
        /\ Carries(f, u, b) /\ bytes \in Seq(Nat) /\ Len(bytes) \in Nat
    BY <1>1, LenProperties DEF SendSound, SendShape, Carries
  <1>3. k \in Int /\ k <= Len(bytes)
    BY <1>1, <1>2, BufAssumption DEF AtMost
  <1>4. Carries(f, W + 1 - 1, cut) /\ Len(cut) = IF 1 <= k THEN k - 1 + 1 ELSE 0
    <2>1. 1 \in 1 .. (Len(bytes) + 1) /\ W \in Int
      BY <1>2
    <2> QED
      BY ONLY <1>1, <1>3, <2>1, Carries(f, W, bytes), CarriesSub
  <1>5. Carries(f, W, cut) /\ Len(cut) \in 0 .. Len(bytes)
    BY <1>2, <1>3, <1>4
  <1>6. Carries(f, u, b \o cut) /\ Len(b \o cut) = Len(b) + Len(cut)
    <2>1. u \in Int /\ W = u + Len(b)
      BY <1>2
    <2> QED
      BY ONLY <1>2, <1>5, <2>1, CarriesConcat
  <1>7. t = [s EXCEPT !.buf = b \o cut]
    BY <1>1 DEF SendBufWrite, Available
  <1>8. /\ t.buf = b \o cut /\ t.una = s.una /\ t.nxt = s.nxt /\ t.sacked = s.sacked
        /\ SendShape(t)
    BY <1>6, <1>7, Zenon DEF SendSound, SendShape, Carries
  <1>9. PICK took, V, x, z : took = Len(cut) /\ V = W + took /\ x = s.nxt /\ z = Len(b)
    BY Zenon
  <1>10. took \in Nat /\ V \in Nat /\ took <= Len(bytes)
    BY <1>2, <1>5, <1>9
  <1>11. Len(t.buf) = z + took /\ t.una = u
    BY <1>1, <1>6, <1>8, <1>9, Zenon
  <1>12. x <= V /\ u + (z + took) = V
    <2>1. x \in Nat /\ x <= W
      BY <1>9 DEF SendSound, SendShape
    <2>2. z \in Nat /\ u \in Nat /\ u + z = W
      BY <1>2, <1>9
    <2> QED
      BY ONLY <1>9, <1>10, <2>1, <2>2, W \in Nat
  <1>13. SendSound(f, L, V, t)
    BY <1>1, <1>6, <1>8, <1>9, <1>11, <1>12, Zenon DEF SendSound
  <1> QED
    BY <1>1, <1>8, <1>9, <1>10, <1>11, <1>13, Zenon

\* Acknowledge drops the bytes below ack and prunes the scoreboard.
LEMMA AcknowledgeSound ==
    ASSUME NEW f, NEW L \in Nat, NEW W \in Nat, W - L < Half, NEW s, SendSound(f, L, W, s),
           NEW ack \in Nat, L <= ack, ack <= s.nxt
    PROVE  LET t == Acknowledge(s, ack)
           IN  /\ SendSound(f, L, W, t)
               /\ t.nxt = s.nxt /\ (t.una = s.una \/ t.una = ack) /\ t.sacked \subseteq s.sacked
  <1> DEFINE t == Acknowledge(s, ack)
  <1>1. PICK u, v, b, sub : u = s.una /\ v = s.nxt /\ b = s.buf /\ sub = SubSeq(b, ack - u + 1, Len(b))
    BY Zenon
  <1>2. /\ u \in Nat /\ v \in Nat /\ b \in Seq(Nat) /\ Len(b) \in Nat
        /\ L <= u /\ u <= v /\ v <= W /\ u + Len(b) = W /\ Carries(f, u, b)
        /\ ack <= v
    BY <1>1, LenProperties DEF SendSound, SendShape
  <1>3. (SeqAfter(ack, v) <=> ack > v) /\ (SeqAfter(ack, u) <=> ack > u)
    <2>1. /\ ack \in Int /\ v \in Int /\ ack - v < Half /\ v - ack < Half
          /\ u \in Int /\ ack - u < Half /\ u - ack < Half
      BY <1>2, HalfAssumption
    <2> QED
      BY <2>1, SeqOrder
  <1>4. CASE ack <= u
    <2>1. t = s
      BY <1>1, <1>2, <1>3, <1>4 DEF Acknowledge
    <2> QED
      BY <2>1
  <1>5. CASE ack > u
    <2>1. AtMost(ack - u, Len(b)) = ack - u
      BY <1>2, <1>5 DEF AtMost
    <2>2. t = [s EXCEPT !.buf = sub, !.una = ack, !.sacked = PruneSACK(s.sacked, ack)]
      <3>1. ~SeqAfter(ack, v) /\ SeqAfter(ack, u)
        BY <1>2, <1>3, <1>5
      <3>2. t = [s EXCEPT !.buf = SubSeq(s.buf, AtMost(ack - s.una, Len(s.buf)) + 1, Len(s.buf)),
                          !.una = ack, !.sacked = PruneSACK(s.sacked, ack)]
        BY <1>1, <3>1, Zenon DEF Acknowledge
      <3> QED
        BY <1>1, <2>1, <3>2, Zenon
    <2>3. PICK i : i = ack - u + 1
      OBVIOUS
    <2>4. i \in 1 .. (Len(b) + 1) /\ Len(b) \in Int /\ Len(b) <= Len(b) /\ u \in Int
      BY <1>2, <1>5, <2>3
    <2>5. /\ Carries(f, u + i - 1, SubSeq(b, i, Len(b)))
          /\ Len(SubSeq(b, i, Len(b))) = IF i <= Len(b) THEN Len(b) - i + 1 ELSE 0
      BY ONLY <1>2, <2>4, CarriesSub
    <2>6. Carries(f, ack, sub) /\ Len(sub) = W - ack
      <3>1. u + i - 1 = ack /\ (IF i <= Len(b) THEN Len(b) - i + 1 ELSE 0) = W - ack
        BY <1>2, <1>5, <2>3
      <3> QED
        BY <1>1, <2>3, <2>5, <3>1
    <2>7. PruneSACK(s.sacked, ack) \subseteq s.sacked
      BY DEF PruneSACK
    <2>8. /\ t.buf = sub /\ t.una = ack /\ t.nxt = s.nxt /\ t.sacked \subseteq s.sacked
          /\ SendShape(t)
      BY <2>2, <2>6, <2>7, Zenon DEF SendSound, SendShape, Carries
    <2> HIDE DEF t
    <2>9. t.una + Len(t.buf) = W
      BY <1>2, <2>6, <2>8
    <2>10. SendSound(f, L, W, t)
      BY <1>1, <1>2, <2>6, <2>8, <2>9 DEF SendSound
    <2> QED
      BY <2>8, <2>10 DEF t
  <1> QED
    BY <1>2, <1>4, <1>5

\* MarkSACKed takes blocks of the report into the scoreboard, or leaves it alone.
LEMMA MarkSound ==
    ASSUME NEW f, NEW L \in Nat, NEW W \in Nat, NEW s, SendSound(f, L, W, s),
           NEW blocks, blocks \subseteq [left : Nat, right : Nat]
    PROVE  LET t == MarkSACKed(s, blocks)
           IN  /\ SendSound(f, L, W, t)
               /\ t.nxt = s.nxt /\ t.una = s.una /\ t.sacked \subseteq s.sacked \cup blocks
  <1> DEFINE t   == MarkSACKed(s, blocks)
             new == {b \in PruneSACK(blocks, s.una) : SeqBefore(b.left, s.nxt)}
  <1>1. CASE blocks = {}
    BY <1>1 DEF MarkSACKed
  <1>2. CASE blocks # {}
    <2>1. new \subseteq blocks
      BY DEF PruneSACK
    <2>2. t = [s EXCEPT !.sacked = new]
      BY <1>2 DEF MarkSACKed
    <2> HIDE DEF new
    <2>3. /\ t.buf = s.buf /\ t.una = s.una /\ t.nxt = s.nxt /\ t.sacked = new
          /\ SendShape(t)
      BY <2>1, <2>2, Zenon DEF SendSound, SendShape
    <2> HIDE DEF t
    <2> QED
      BY <2>1, <2>3 DEF SendSound, t
  <1> QED
    BY <1>1, <1>2

\* A segment, seen as an entry of the reassembly buffer.
Entry(m) == [seq |-> m.seq, data |-> m.bytes]

\* Segments of the stream f within [L, T).
Segments(f, L, T, net) ==
    \A m \in net : m \in [seq : Nat, bytes : Seq(Nat)] /\ Piece(f, L, T, Entry(m))

\* flushSendQueue never sends more than is pending.
LEMMA FlushLenBound ==
    ASSUME NEW f, NEW L \in Nat, NEW W \in Nat, NEW s, SendSound(f, L, W, s), NEW wnd \in Nat
    PROVE  FlushLen(s, wnd) \in 0 .. Pending(s) /\ Pending(s) = W - s.nxt
  <1>1. PICK un, pend, room, n : /\ un = Unacked(s) /\ pend = Pending(s)
                                 /\ room = AtMost(wnd - un, pend) /\ n = FlushLen(s, wnd)
    OBVIOUS
  <1>2. pend \in Nat /\ un \in Nat /\ pend = W - s.nxt
    <2>1. PICK u, v, k : u = s.una /\ v = s.nxt /\ k = Len(s.buf)
      BY Zenon
    <2>2. /\ u \in Nat /\ v \in Nat /\ k \in Nat /\ u <= v /\ v <= W /\ u + k = W
          /\ un = v - u /\ pend = k - un
      BY <1>1, <2>1, LenProperties DEF SendSound, SendShape, Unacked, Pending
    <2>3. pend \in Nat /\ un \in Nat /\ pend = W - v
      BY ONLY <2>2, W \in Nat
    <2> QED
      BY <2>1, <2>3
  <1>3. room \in Int /\ room <= pend
    BY <1>1, <1>2 DEF AtMost
  <1>4. n = CASE room <= 0               -> 0
              [] room \in 1 .. (MSS - 1) -> IF un = 0 THEN room ELSE 0
              [] OTHER                   -> room - (room % MSS)
    BY <1>1, Zenon DEF FlushLen
  <1>5. CASE room <= 0
    BY <1>1, <1>2, <1>3, <1>4, <1>5
  <1>6. CASE room > 0 /\ room \in 1 .. (MSS - 1)
    BY <1>1, <1>2, <1>3, <1>4, <1>6
  <1>7. CASE room > 0 /\ room \notin 1 .. (MSS - 1)
    <2>1. room >= MSS /\ MSS \in Nat /\ MSS > 0
      BY <1>3, <1>7, BufAssumption
    <2>2. n = room - (room % MSS)
      BY <1>3, <1>4, <1>7
    <2>3. room % MSS \in 0 .. (MSS - 1)
      BY <1>3, <2>1
    <2>4. n \in 0 .. pend
      BY <1>2, <1>3, <2>1, <2>2, <2>3
    <2> QED
      BY <1>1, <1>2, <2>4
  <1> QED
    BY <1>3, <1>5, <1>6, <1>7

\* What flushSendQueue sends lies behind nxt, and nxt moves over it.
LEMMA FlushSound ==
    ASSUME NEW f, NEW L \in Nat, NEW W \in Nat, NEW s, SendSound(f, L, W, s),
           NEW n \in 0 .. Pending(s), Pending(s) = W - s.nxt
    PROVE  LET t == AdvanceSent(s, n)
           IN  /\ SendSound(f, L, W, t)
               /\ t.nxt = s.nxt + n /\ t.una = s.una /\ t.sacked = s.sacked
               /\ Segments(f, L, t.nxt, FlushSegments(s, n))
  <1> DEFINE t == AdvanceSent(s, n)
  <1>1. PICK u, v, b, T : u = s.una /\ v = s.nxt /\ b = s.buf /\ T = v + n
    OBVIOUS
  <1>2. /\ u \in Nat /\ v \in Nat /\ b \in Seq(Nat) /\ Len(b) \in Nat
        /\ L <= u /\ u <= v /\ v <= W /\ u + Len(b) = W /\ Carries(f, u, b)
    BY <1>1, LenProperties DEF SendSound, SendShape
  <1>3. n \in Nat /\ n <= W - v /\ T \in Nat /\ v <= T /\ T <= W
    BY <1>1, <1>2
  <1>4. /\ t.buf = b /\ t.una = u /\ t.nxt = T /\ t.sacked = s.sacked
        /\ SendShape(t)
    <2>1. t = [s EXCEPT !.nxt = T]
      BY <1>1 DEF AdvanceSent
    <2> QED
      BY <1>1, <1>3, <2>1, Zenon DEF SendSound, SendShape
  <1> HIDE DEF t
  <1>5. SendSound(f, L, W, t)
    BY <1>2, <1>3, <1>4 DEF SendSound
  <1>6. ASSUME NEW m \in FlushSegments(s, n)
        PROVE  m \in [seq : Nat, bytes : Seq(Nat)] /\ Piece(f, L, T, Entry(m))
    <2>1. PICK k \in {j \in 0 .. (n - 1) : j % MSS = 0} :
             m = [seq |-> s.nxt + k, bytes |-> PeekUnsent(s, k, AtMost(MSS, n - k))]
      BY <1>6 DEF FlushSegments
    <2>2. PICK c, lo, hi, bytes : /\ c = AtMost(MSS, n - k) /\ lo = (v - u) + k + 1
                                  /\ hi = AtMost((v - u) + k + c, Len(b))
                                  /\ bytes = SubSeq(b, lo, hi)
      BY Zenon
    <2>3. k \in Nat /\ k < n
      BY <1>3, <2>1
    <2>4. c \in Nat /\ 0 < c /\ k + c <= n
      BY <1>3, <2>2, <2>3, BufAssumption DEF AtMost
    <2>5. lo \in 1 .. (Len(b) + 1) /\ hi \in Int /\ hi <= Len(b) /\ lo <= hi /\ hi - lo + 1 = c
      <3>1. PICK z : z = Len(b)
        BY Zenon
      <3>2. /\ z \in Nat /\ u \in Nat /\ v \in Nat /\ u <= v /\ u + z = W
            /\ n \in Nat /\ n <= W - v
        BY <1>2, <1>3, <3>1
      <3>3. (v - u) + k + c <= z
        BY ONLY <2>3, <2>4, <3>2, W \in Nat
      <3>4. hi = (v - u) + k + c /\ lo = (v - u) + k + 1
        BY <2>2, <2>3, <2>4, <3>1, <3>2, <3>3 DEF AtMost
      <3>5. lo \in 1 .. (z + 1) /\ hi \in Int /\ hi <= z /\ lo <= hi /\ hi - lo + 1 = c
        BY ONLY <2>3, <2>4, <3>2, <3>3, <3>4
      <3> QED
        BY <3>1, <3>5
    <2>6. u \in Int
      BY <1>2
    <2>7. /\ Carries(f, u + lo - 1, bytes)
          /\ Len(bytes) = IF lo <= hi THEN hi - lo + 1 ELSE 0
      <3>1. /\ Carries(f, u + lo - 1, SubSeq(b, lo, hi))
            /\ Len(SubSeq(b, lo, hi)) = IF lo <= hi THEN hi - lo + 1 ELSE 0
        BY ONLY <1>2, <2>5, <2>6, CarriesSub
      <3> QED
        BY <2>2, <3>1, Zenon
    <2>8. u + lo - 1 = v + k
      BY <1>2, <2>2, <2>3
    <2>9. Carries(f, v + k, bytes) /\ Len(bytes) = c /\ bytes \in Seq(Nat)
      BY <2>5, <2>7, <2>8 DEF Carries
    <2>10. m = [seq |-> v + k, bytes |-> bytes]
      BY <1>1, <2>1, <2>2 DEF PeekUnsent, Unacked
    <2>11. v + k \in Nat /\ v + k \in L .. T /\ v + k + c <= T
      <3>1. L <= v /\ T = v + n /\ n \in Nat /\ v \in Nat
        BY <1>1, <1>2, <1>3
      <3> QED
        BY ONLY <2>3, <2>4, <3>1, L \in Nat
    <2> QED
      BY <2>4, <2>9, <2>10, <2>11 DEF Piece, Entry
  <1> QED
    BY <1>1, <1>4, <1>5, <1>6 DEF Segments, t

\* FirstGap of a number that no block covers is the number itself.
LEMMA NoGapToSkip ==
    ASSUME NEW blocks, NEW n \in Nat, \A b \in blocks : ~Covers(b, n),
           \A b \in blocks : b.right \in Nat
    PROVE  FirstGap(blocks, n) = n
  <1> DEFINE Good(m) == /\ m >= n
                        /\ \A b \in blocks : ~Covers(b, m)
                        /\ \A k \in n .. (m - 1) : \E b \in blocks : Covers(b, k)
             Stops   == {n} \cup {b.right : b \in blocks}
  <1>1. FirstGap(blocks, n) = CHOOSE m \in Stops : Good(m)
    BY DEF FirstGap
  <1>2. Good(n) /\ n \in Stops
    OBVIOUS
  <1>3. ASSUME NEW m \in Stops, Good(m)
        PROVE  m = n
    <2>1. m \in Nat /\ m >= n
      BY <1>3
    <2>2. SUFFICES ASSUME m > n PROVE FALSE
      BY <2>1
    <2>3. n \in n .. (m - 1)
      BY <2>1, <2>2
    <2> QED
      BY <1>3, <2>3
  <1> HIDE DEF Good, Stops
  <1> QED
    BY <1>1, <1>2, <1>3

\* retransmit sends the first bytes in flight under the number una.
LEMMA RetransmissionSound ==
    ASSUME NEW f, NEW L \in Nat, NEW W \in Nat, NEW s, SendSound(f, L, W, s),
           \A b \in s.sacked : ~Covers(b, s.una)
    PROVE  Segments(f, L, s.nxt, Retransmission(s))
  <1>1. PICK u, v, b, hi, bytes : /\ u = s.una /\ v = s.nxt /\ b = s.buf
                                  /\ hi = AtMost(0 + MSS, AtMost(v - u, Len(b)))
                                  /\ bytes = SubSeq(b, 0 + 1, hi)
    BY Zenon
  <1>2. /\ u \in Nat /\ v \in Nat /\ b \in Seq(Nat) /\ Len(b) \in Nat
        /\ L <= u /\ u <= v /\ v <= W /\ u + Len(b) = W /\ Carries(f, u, b)
    BY <1>1, LenProperties DEF SendSound, SendShape
  <1>3. FirstGap(s.sacked, u) = u
    <2>1. \A x \in s.sacked : x.right \in Nat
      BY DEF SendSound, SendShape
    <2> QED
      BY <1>1, <1>2, <2>1, NoGapToSkip
  <1>4. RetransmitData(s, MSS) = bytes
    <2>1. FirstGap(s.sacked, s.una) - s.una = 0
      BY <1>1, <1>2, <1>3
    <2> QED
      BY <1>1, <2>1, Zenon DEF RetransmitData, Unacked
  <1>5. hi \in Nat /\ hi <= Len(b) /\ hi <= v - u
    <2>1. PICK z : z = Len(b)
      BY Zenon
    <2>2. hi = AtMost(0 + MSS, AtMost(v - u, z)) /\ z \in Nat /\ v - u \in Nat /\ MSS \in Nat
      BY <1>1, <1>2, <2>1, BufAssumption
    <2>3. hi \in Nat /\ hi <= z /\ hi <= v - u
      BY ONLY <2>2 DEF AtMost
    <2> QED
      BY <2>1, <2>3
  <1>6. Carries(f, u, bytes) /\ Len(bytes) = hi
    <2>1. 1 \in 1 .. (Len(b) + 1) /\ hi \in Int /\ u \in Int
      BY <1>2, <1>5
    <2>2. /\ Carries(f, u + 1 - 1, SubSeq(b, 1, hi))
          /\ Len(SubSeq(b, 1, hi)) = IF 1 <= hi THEN hi - 1 + 1 ELSE 0
      BY ONLY <1>2, <1>5, <2>1, CarriesSub
    <2>3. u + 1 - 1 = u /\ 0 + 1 = 1 /\ (IF 1 <= hi THEN hi - 1 + 1 ELSE 0) = hi
      BY <1>2, <1>5
    <2> QED
      BY <1>1, <2>2, <2>3, ZenonT(30)
  <1>7. ASSUME NEW m \in Retransmission(s)
        PROVE  m \in [seq : Nat, bytes : Seq(Nat)] /\ Piece(f, L, s.nxt, Entry(m))
    <2>1. m = [seq |-> u, bytes |-> bytes] /\ bytes # << >>
      <3>1. m = [seq |-> s.una, bytes |-> RetransmitData(s, MSS)] /\ m.bytes # << >>
        BY <1>7 DEF Retransmission
      <3> QED
        BY <1>1, <1>4, <3>1
    <2>2. bytes \in Seq(Nat) /\ Len(bytes) > 0
      BY <1>6, <2>1, EmptySeq DEF Carries
    <2>3. u \in L .. v /\ u + Len(bytes) <= v
      BY <1>2, <1>5, <1>6
    <2> QED
      BY <1>1, <1>2, <1>6, <2>1, <2>2, <2>3, SMTT(30) DEF Piece, Entry
  <1> QED
    BY <1>7 DEF Segments
=============================================================================
