-------------------------- MODULE VtcpFlushProofs ---------------------------
(***************************************************************************)
(* The flush loop of a Conn, for any number of goroutines, segments and    *)
(* nested calls: one activation writes at a time, every segment is in one  *)
(* place, and what a re-entrant call puts back is drained.                 *)
(***************************************************************************)
EXTENDS VtcpFlush, TLAPS, SequenceTheorems

Entries == [seg : Nat, inside : Threads \cup {NoThread}]

FrameType == [pc : {"cas", "requeue", "write", "store"}, pkts : Seq(Entries)]

\* The types the proofs use.
Types ==
    /\ outgoing \in Seq(Entries) /\ flushing \in BOOLEAN
    /\ stack \in [Threads -> Seq(FrameType)]
    /\ wire \in Seq(Nat) /\ made \in Nat
    /\ \A t \in Threads : Len(stack[t]) <= MaxDepth

-----------------------------------------------------------------------------
\* The top of a stack

LEMMA TopTypes ==
    ASSUME Types, NEW t \in Threads, stack[t] # << >>
    PROVE  Len(stack[t]) \in Nat \ {0} /\ Top(t) \in FrameType
  <1>1. stack[t] \in Seq(FrameType)
    BY DEF Types
  <1>2. Len(stack[t]) \in Nat \ {0}
    BY <1>1, EmptySeq, LenProperties
  <1> QED
    BY <1>1, <1>2, ElementOfSeq DEF Top

\* The last activation of t is replaced by f ...
LEMMA SetTopStep ==
    ASSUME Types, NEW t \in Threads, stack[t] # << >>, NEW f \in FrameType, SetTop(t, f)
    PROVE  /\ Len(stack[t]) \in Nat \ {0}
           /\ stack' \in [Threads -> Seq(FrameType)]
           /\ \A u \in Threads : Len(stack'[u]) = Len(stack[u])
           /\ \A u \in Threads : \A i \in 1 .. Len(stack[u]) :
                 stack'[u][i] = IF u = t /\ i = Len(stack[t]) THEN f ELSE stack[u][i]
  <1>1. stack[t] \in Seq(FrameType)
    BY DEF Types
  <1>2. Len(stack[t]) \in Nat \ {0}
    BY TopTypes
  <1> DEFINE r == [stack[t] EXCEPT ![Len(stack[t])] = f]
  <1>3. /\ r \in Seq(FrameType) /\ Len(r) = Len(stack[t])
        /\ \A i \in 1 .. Len(stack[t]) : r[i] = IF i = Len(stack[t]) THEN f ELSE stack[t][i]
    BY <1>1, <1>2, ExceptSeq, LenProperties
  <1>4. stack' = [stack EXCEPT ![t] = r]
    BY DEF SetTop, Types
  <1> HIDE DEF r
  <1>5. stack' \in [Threads -> Seq(FrameType)]
    BY <1>3, <1>4 DEF Types
  <1>6. stack'[t] = r /\ \A u \in Threads \ {t} : stack'[u] = stack[u]
    BY <1>4 DEF Types
  <1> QED
    BY <1>2, <1>3, <1>5, <1>6

\* ... removed ...
LEMMA ReturnStep ==
    ASSUME Types, NEW t \in Threads, stack[t] # << >>, Return(t)
    PROVE  /\ Len(stack[t]) \in Nat \ {0}
           /\ stack' \in [Threads -> Seq(FrameType)]
           /\ \A u \in Threads : Len(stack'[u]) = IF u = t THEN Len(stack[u]) - 1 ELSE Len(stack[u])
           /\ \A u \in Threads : \A i \in 1 .. Len(stack'[u]) : stack'[u][i] = stack[u][i]
  <1>1. stack[t] \in Seq(FrameType)
    BY DEF Types
  <1> DEFINE r == SubSeq(stack[t], 1, Len(stack[t]) - 1)
  <1>2. Len(stack[t]) \in Nat \ {0}
    BY TopTypes
  <1>3. /\ r \in Seq(FrameType) /\ Len(r) = Len(stack[t]) - 1
        /\ \A i \in 1 .. Len(stack[t]) - 1 : r[i] = stack[t][i]
    BY <1>1, <1>2, SubSeqProperties
  <1>4. stack' = [stack EXCEPT ![t] = r]
    BY DEF Return
  <1> HIDE DEF r
  <1>5. stack' \in [Threads -> Seq(FrameType)]
    BY <1>3, <1>4 DEF Types
  <1>6. stack'[t] = r /\ \A u \in Threads \ {t} : stack'[u] = stack[u]
    BY <1>4 DEF Types
  <1> QED
    BY <1>2, <1>3, <1>5, <1>6

\* ... or followed by f.
Push(t, f) == stack' = [stack EXCEPT ![t] = Append(@, f)]

LEMMA PushStep ==
    ASSUME Types, NEW t \in Threads, NEW f \in FrameType, Push(t, f)
    PROVE  /\ Len(stack[t]) \in Nat
           /\ stack' \in [Threads -> Seq(FrameType)]
           /\ \A u \in Threads : Len(stack'[u]) = IF u = t THEN Len(stack[u]) + 1 ELSE Len(stack[u])
           /\ \A u \in Threads : \A i \in 1 .. Len(stack'[u]) :
                 stack'[u][i] = IF u = t /\ i = Len(stack[t]) + 1 THEN f ELSE stack[u][i]
  <1>1. stack[t] \in Seq(FrameType)
    BY DEF Types
  <1> DEFINE r == Append(stack[t], f)
  <1>2. /\ Len(stack[t]) \in Nat
        /\ r \in Seq(FrameType) /\ Len(r) = Len(stack[t]) + 1
        /\ \A i \in 1 .. Len(stack[t]) : r[i] = stack[t][i]
        /\ r[Len(stack[t]) + 1] = f
    BY <1>1, AppendProperties, LenProperties
  <1>3. stack' = [stack EXCEPT ![t] = r]
    BY DEF Push
  <1> HIDE DEF r
  <1>4. stack' \in [Threads -> Seq(FrameType)]
    BY <1>2, <1>3 DEF Types
  <1>5. stack'[t] = r /\ \A u \in Threads \ {t} : stack'[u] = stack[u]
    BY <1>3 DEF Types
  <1>6. \A u \in Threads : Len(stack'[u]) = IF u = t THEN Len(stack[u]) + 1 ELSE Len(stack[u])
    BY <1>2, <1>5
  <1>7. \A i \in 1 .. Len(r) : r[i] = IF i = Len(stack[t]) + 1 THEN f ELSE stack[t][i]
    BY <1>2
  <1>8. \A u \in Threads : \A i \in 1 .. Len(stack'[u]) :
           stack'[u][i] = IF u = t /\ i = Len(stack[t]) + 1 THEN f ELSE stack[u][i]
    BY <1>5, <1>7
  <1> QED
    BY <1>2, <1>4, <1>6, <1>8

-----------------------------------------------------------------------------
\* The segments of a batch

Distinct(s) == \A i, j \in 1 .. Len(s) : s[i].seg = s[j].seg => i = j

LEMMA SegsIn ==
    ASSUME NEW s \in Seq(Entries)
    PROVE  /\ Len(s) \in Nat
           /\ \A n : n \in Segs(s) <=> \E i \in 1 .. Len(s) : s[i].seg = n
           /\ \A i \in 1 .. Len(s) : s[i] \in Entries
  <1>1. DOMAIN s = 1 .. Len(s) /\ Len(s) \in Nat
    BY LenProperties
  <1> QED
    BY <1>1, ElementOfSeq DEF Segs

LEMMA NoSegs == Segs(<< >>) = {} /\ Distinct(<< >>)
  BY EmptySeq DEF Segs, Distinct

LEMMA ConcatSegs ==
    ASSUME NEW a \in Seq(Entries), NEW b \in Seq(Entries)
    PROVE  /\ Segs(a \o b) = Segs(a) \cup Segs(b)
           /\ Distinct(a) /\ Distinct(b) /\ Segs(a) \cap Segs(b) = {} => Distinct(a \o b)
  <1>1. /\ a \o b \in Seq(Entries) /\ Len(a \o b) = Len(a) + Len(b)
        /\ \A i \in 1 .. Len(a) + Len(b) :
              (a \o b)[i] = IF i <= Len(a) THEN a[i] ELSE b[i - Len(a)]
    BY ConcatProperties
  <1> DEFINE c == a \o b
  <1>2. Len(a) \in Nat /\ Len(b) \in Nat
    BY SegsIn
  <1> HIDE DEF c
  <1>3. \A i \in 1 .. Len(a) : i \in 1 .. Len(c) /\ c[i] = a[i]
    BY <1>1, <1>2 DEF c
  <1>4. \A i \in 1 .. Len(b) : Len(a) + i \in 1 .. Len(c) /\ c[Len(a) + i] = b[i]
    BY <1>1, <1>2 DEF c
  <1>5. \A i \in 1 .. Len(c) :
           \/ i \in 1 .. Len(a) /\ c[i] = a[i]
           \/ i > Len(a) /\ i - Len(a) \in 1 .. Len(b) /\ c[i] = b[i - Len(a)]
    BY <1>1, <1>2 DEF c
  <1>6. ASSUME NEW n \in Segs(c)
        PROVE  n \in Segs(a) \cup Segs(b)
    <2>1. PICK i \in 1 .. Len(c) : c[i].seg = n
      BY <1>1, SegsIn DEF c
    <2>2. CASE i \in 1 .. Len(a) /\ c[i] = a[i]
      BY <2>1, <2>2, SegsIn
    <2>3. CASE i - Len(a) \in 1 .. Len(b) /\ c[i] = b[i - Len(a)]
      BY <2>1, <2>3, SegsIn
    <2> QED
      BY <1>5, <2>2, <2>3
  <1>7. Segs(a) \subseteq Segs(c)
    <2> SUFFICES ASSUME NEW n \in Segs(a)
                 PROVE  n \in Segs(c)
      OBVIOUS
    <2>1. PICK i \in 1 .. Len(a) : a[i].seg = n
      BY SegsIn
    <2>2. i \in 1 .. Len(c) /\ c[i].seg = n
      BY <1>3, <2>1
    <2> QED
      BY <1>1, <2>2, SegsIn DEF c
  <1>8. Segs(b) \subseteq Segs(c)
    <2> SUFFICES ASSUME NEW n \in Segs(b)
                 PROVE  n \in Segs(c)
      OBVIOUS
    <2>1. PICK i \in 1 .. Len(b) : b[i].seg = n
      BY SegsIn
    <2>2. Len(a) + i \in 1 .. Len(c) /\ c[Len(a) + i].seg = n
      BY <1>4, <2>1
    <2> QED
      BY <1>1, <2>2, SegsIn DEF c
  <1>9. ASSUME Distinct(a), Distinct(b), Segs(a) \cap Segs(b) = {},
               NEW i \in 1 .. Len(c), NEW j \in 1 .. Len(c), c[i].seg = c[j].seg
        PROVE  i = j
    <2>1. CASE i \in 1 .. Len(a) /\ c[i] = a[i] /\ j \in 1 .. Len(a) /\ c[j] = a[j]
      BY <1>9, <2>1 DEF Distinct
    <2>2. CASE /\ i > Len(a) /\ i - Len(a) \in 1 .. Len(b) /\ c[i] = b[i - Len(a)]
               /\ j > Len(a) /\ j - Len(a) \in 1 .. Len(b) /\ c[j] = b[j - Len(a)]
      <3>1. i - Len(a) = j - Len(a)
        BY <1>9, <2>2 DEF Distinct
      <3> QED
        BY <1>2, <3>1
    <2>3. CASE /\ i \in 1 .. Len(a) /\ c[i] = a[i]
               /\ j - Len(a) \in 1 .. Len(b) /\ c[j] = b[j - Len(a)]
      <3>1. a[i].seg \in Segs(a) /\ b[j - Len(a)].seg \in Segs(b)
        BY <2>3, SegsIn
      <3> QED
        BY <1>9, <2>3, <3>1
    <2>4. CASE /\ j \in 1 .. Len(a) /\ c[j] = a[j]
               /\ i - Len(a) \in 1 .. Len(b) /\ c[i] = b[i - Len(a)]
      <3>1. a[j].seg \in Segs(a) /\ b[i - Len(a)].seg \in Segs(b)
        BY <2>4, SegsIn
      <3> QED
        BY <1>9, <2>4, <3>1
    <2> QED
      BY <1>5, <2>1, <2>2, <2>3, <2>4
  <1>10. Distinct(a) /\ Distinct(b) /\ Segs(a) \cap Segs(b) = {} => Distinct(c)
    BY <1>9 DEF Distinct
  <1> QED
    BY <1>6, <1>7, <1>8, <1>10 DEF c

LEMMA TailSegs ==
    ASSUME NEW s \in Seq(Entries), s # << >>, Distinct(s)
    PROVE  /\ Head(s).seg \in Segs(s)
           /\ Segs(Tail(s)) = Segs(s) \ {Head(s).seg}
           /\ Distinct(Tail(s))
  <1> DEFINE r == Tail(s)
  <1>1. /\ r \in Seq(Entries) /\ Len(r) = Len(s) - 1 /\ Len(s) \in Nat \ {0}
        /\ Head(s) = s[1] /\ \A i \in 1 .. Len(r) : r[i] = s[i + 1]
    BY HeadTailProperties, EmptySeq, LenProperties
  <1> HIDE DEF r
  <1>2. 1 \in 1 .. Len(s) /\ \A i \in 1 .. Len(r) : i + 1 \in 1 .. Len(s)
    BY <1>1
  <1>3. Head(s).seg \in Segs(s)
    BY <1>1, <1>2, SegsIn
  <1>4. ASSUME NEW n \in Segs(r)
        PROVE  n \in Segs(s) /\ n # Head(s).seg
    <2>1. PICK i \in 1 .. Len(r) : r[i].seg = n
      BY <1>1, SegsIn
    <2>2. i + 1 \in 1 .. Len(s) /\ s[i + 1].seg = n
      BY <1>1, <1>2, <2>1
    <2>3. i + 1 # 1
      BY <2>1
    <2> QED
      BY <1>1, <1>2, <2>2, <2>3, SegsIn DEF Distinct
  <1>5. ASSUME NEW n \in Segs(s), n # Head(s).seg
        PROVE  n \in Segs(r)
    <2>1. PICK i \in 1 .. Len(s) : s[i].seg = n
      BY SegsIn
    <2>2. i # 1
      BY <1>1, <1>5, <2>1
    <2>3. i - 1 \in 1 .. Len(r) /\ r[i - 1] = s[i]
      BY <1>1, <2>2
    <2> QED
      BY <1>1, <2>1, <2>3, SegsIn
  <1>6. ASSUME NEW i \in 1 .. Len(r), NEW j \in 1 .. Len(r), r[i].seg = r[j].seg
        PROVE  i = j
    <2>1. i + 1 = j + 1
      BY <1>1, <1>2, <1>6 DEF Distinct
    <2> QED
      BY <2>1
  <1> QED
    BY <1>3, <1>4, <1>5, <1>6 DEF Distinct, r

\* A batch put back has the segments it had.
LEMMA BackSegs ==
    ASSUME NEW s \in Seq(Entries), NEW x \in Threads \cup {NoThread}
    PROVE  LET r == [i \in DOMAIN s |-> Entry(s[i].seg, x)]
           IN  /\ r \in Seq(Entries) /\ Segs(r) = Segs(s)
               /\ Distinct(s) => Distinct(r)
               /\ \A i \in 1 .. Len(r) : r[i].inside = x
  <1> DEFINE r == [i \in DOMAIN s |-> Entry(s[i].seg, x)]
  <1>1. Len(s) \in Nat /\ DOMAIN s = 1 .. Len(s) /\ \A i \in 1 .. Len(s) : s[i] \in Entries
    BY LenProperties, ElementOfSeq
  <1>2. \A i \in 1 .. Len(s) : Entry(s[i].seg, x) \in Entries
    BY <1>1 DEF Entry, Entries
  <1>3. r \in Seq(Entries)
    BY <1>1, <1>2, IsASeq
  <1>4. Len(r) = Len(s)
    BY <1>1, <1>3, LenProperties
  <1>5. \A i \in 1 .. Len(s) : r[i].seg = s[i].seg /\ r[i].inside = x
    BY <1>1 DEF Entry
  <1> HIDE DEF r
  <1>6. \A n : n \in Segs(r) <=> n \in Segs(s)
    BY <1>3, <1>4, <1>5, SegsIn
  <1>7. Distinct(s) => Distinct(r)
    BY <1>4, <1>5 DEF Distinct
  <1> QED
    BY <1>3, <1>4, <1>5, <1>6, <1>7 DEF r

LEMMA NewSegs ==
    ASSUME NEW m \in Nat, NEW n \in {0, 1}
    PROVE  LET r == [i \in 1 .. n |-> Entry(m + i, NoThread)]
           IN  r \in Seq(Entries) /\ Segs(r) = m + 1 .. m + n /\ Distinct(r)
  <1> DEFINE r == [i \in 1 .. n |-> Entry(m + i, NoThread)]
  <1>1. \A i \in 1 .. n : Entry(m + i, NoThread) \in Entries
    BY DEF Entry, Entries
  <1>2. r \in Seq(Entries)
    BY <1>1, IsASeq
  <1>3. Len(r) = n
    BY <1>2, LenProperties
  <1>4. \A i \in 1 .. n : r[i].seg = m + i
    BY DEF Entry
  <1> HIDE DEF r
  <1>5. \A k : k \in Segs(r) <=> k \in m + 1 .. m + n
    BY <1>2, <1>3, <1>4, SegsIn
  <1>6. Distinct(r)
    BY <1>3, <1>4 DEF Distinct
  <1> QED
    BY <1>2, <1>5, <1>6 DEF r

-----------------------------------------------------------------------------
\* What each action does to the activations.  "Same(t)" are the others.

Same(t, d) ==
    \A u \in Threads : \A i \in 1 .. Len(stack'[u]) :
        u # t \/ i # d => i \in 1 .. Len(stack[u]) /\ stack'[u][i] = stack[u][i]

LEMMA CallStep ==
    ASSUME Types, NEW t \in Threads, Call(t)
    PROVE  /\ Types'
           /\ Len(stack[t]) \in Nat
           /\ Len(stack'[t]) = Len(stack[t]) + 1
           /\ \A u \in Threads \ {t} : Len(stack'[u]) = Len(stack[u])
           /\ Same(t, Len(stack[t]) + 1)
           /\ stack[t] = << >> \/ (stack[t] # << >> /\ stack[t][Len(stack[t])].pc = "write")
           /\ stack'[t][Len(stack[t]) + 1].pc = "cas"
           /\ \E n \in {0, 1} :
                 /\ stack'[t][Len(stack[t]) + 1].pkts =
                       outgoing \o [i \in 1 .. n |-> Entry(made + i, NoThread)]
                 /\ made' = made + n
           /\ outgoing' = << >> /\ flushing' = flushing /\ wire' = wire
  <1> DEFINE Pkts(n) == outgoing \o [i \in 1 .. n |-> Entry(made + i, NoThread)]
             Fr(n) == [pc |-> "cas", pkts |-> Pkts(n)]
  <1>1. PICK n \in {0, 1} : made' = made + n /\ Push(t, Fr(n))
    BY DEF Call, Push
  <1>2. Pkts(n) \in Seq(Entries)
    BY NewSegs, ConcatProperties DEF Types
  <1> HIDE DEF Pkts
  <1>3. Fr(n) \in FrameType
    BY <1>2 DEF FrameType
  <1> HIDE DEF Fr
  <1>4. /\ Len(stack[t]) \in Nat
        /\ stack' \in [Threads -> Seq(FrameType)]
        /\ \A u \in Threads : Len(stack'[u]) = IF u = t THEN Len(stack[u]) + 1 ELSE Len(stack[u])
        /\ \A u \in Threads : \A i \in 1 .. Len(stack'[u]) :
              stack'[u][i] = IF u = t /\ i = Len(stack[t]) + 1 THEN Fr(n) ELSE stack[u][i]
    BY <1>1, <1>3, PushStep
  <1>5. made' \in Nat /\ outgoing' = << >> /\ flushing' = flushing /\ wire' = wire
    BY <1>1 DEF Call, Types
  <1>6. Len(stack[t]) < MaxDepth
    BY DEF Call
  <1>7. Types'
    <2>1. \A u \in Threads : Len(stack'[u]) <= MaxDepth
      BY <1>4, <1>6, FlushAssumption DEF Types
    <2>2. outgoing' \in Seq(Entries)
      BY <1>5, EmptySeq
    <2> QED
      BY <1>4, <1>5, <2>1, <2>2 DEF Types
  <1>8. Same(t, Len(stack[t]) + 1)
    BY <1>4 DEF Same
  <1>9. stack[t] = << >> \/ (stack[t] # << >> /\ stack[t][Len(stack[t])].pc = "write")
    BY DEF Call, At, Top
  <1>10. stack'[t][Len(stack[t]) + 1] = Fr(n)
    BY <1>4
  <1>11. stack'[t][Len(stack[t]) + 1].pc = "cas" /\ stack'[t][Len(stack[t]) + 1].pkts = Pkts(n)
    BY <1>10 DEF Fr
  <1> QED
    BY <1>1, <1>4, <1>5, <1>7, <1>8, <1>9, <1>11 DEF Pkts

LEMMA SetTypes ==
    ASSUME Types, NEW t \in Threads, stack[t] # << >>, NEW f \in FrameType, SetTop(t, f),
           outgoing' \in Seq(Entries), flushing' \in BOOLEAN, wire' \in Seq(Nat), made' = made
    PROVE  /\ Types'
           /\ \A u \in Threads : Len(stack'[u]) = Len(stack[u])
           /\ Same(t, Len(stack[t]))
           /\ stack'[t][Len(stack[t])] = f
  <1>1. /\ Len(stack[t]) \in Nat \ {0}
        /\ stack' \in [Threads -> Seq(FrameType)]
        /\ \A u \in Threads : Len(stack'[u]) = Len(stack[u])
        /\ \A u \in Threads : \A i \in 1 .. Len(stack[u]) :
              stack'[u][i] = IF u = t /\ i = Len(stack[t]) THEN f ELSE stack[u][i]
    BY SetTopStep
  <1>2. Types'
    BY <1>1 DEF Types
  <1>3. Same(t, Len(stack[t]))
    BY <1>1 DEF Same
  <1>4. stack'[t][Len(stack[t])] = f
    BY <1>1
  <1> QED
    BY <1>1, <1>2, <1>3, <1>4

LEMMA CasStep ==
    ASSUME Types, NEW t \in Threads, CompareAndSwap(t)
    PROVE  /\ Types'
           /\ Len(stack[t]) \in Nat \ {0}
           /\ \A u \in Threads : Len(stack'[u]) = Len(stack[u])
           /\ Same(t, Len(stack[t]))
           /\ stack[t][Len(stack[t])].pc = "cas"
           /\ stack'[t][Len(stack[t])].pc = IF flushing THEN "requeue" ELSE "write"
           /\ stack'[t][Len(stack[t])].pkts = stack[t][Len(stack[t])].pkts
           /\ flushing' = TRUE
           /\ outgoing' = outgoing /\ wire' = wire /\ made' = made
  <1>1. stack[t] # << >> /\ Top(t).pc = "cas"
    BY DEF CompareAndSwap, At
  <1>2. /\ Len(stack[t]) \in Nat \ {0}
        /\ Top(t) = stack[t][Len(stack[t])] /\ Top(t) \in FrameType
    BY <1>1, TopTypes DEF Top
  <1> DEFINE f == [Top(t) EXCEPT !.pc = IF flushing THEN "requeue" ELSE "write"]
  <1>3. f = [pc |-> IF flushing THEN "requeue" ELSE "write", pkts |-> Top(t).pkts]
        /\ f \in FrameType
    BY <1>2 DEF FrameType
  <1>4. SetTop(t, f)
    BY DEF CompareAndSwap
  <1> HIDE DEF f
  <1>5. flushing' = TRUE /\ outgoing' = outgoing /\ wire' = wire /\ made' = made
    BY DEF CompareAndSwap
  <1>6. /\ Types' /\ \A u \in Threads : Len(stack'[u]) = Len(stack[u])
        /\ Same(t, Len(stack[t])) /\ stack'[t][Len(stack[t])] = f
    BY <1>1, <1>3, <1>4, <1>5, SetTypes DEF Types
  <1> QED
    BY <1>1, <1>2, <1>3, <1>5, <1>6

LEMMA RequeueStep ==
    ASSUME Types, NEW t \in Threads, Requeue(t)
    PROVE  /\ Types'
           /\ Len(stack[t]) \in Nat \ {0}
           /\ Len(stack'[t]) = Len(stack[t]) - 1
           /\ \A u \in Threads \ {t} : Len(stack'[u]) = Len(stack[u])
           /\ Same(t, Len(stack[t]))
           /\ stack[t][Len(stack[t])].pc = "requeue"
           /\ \E x \in {t, NoThread} :
                 /\ x = t => \E f \in Frames(t) : Writes(f)
                 /\ outgoing' = outgoing \o [i \in DOMAIN stack[t][Len(stack[t])].pkts |->
                                                Entry(stack[t][Len(stack[t])].pkts[i].seg, x)]
           /\ flushing' = flushing /\ wire' = wire /\ made' = made
  <1>1. stack[t] # << >> /\ Top(t).pc = "requeue"
    BY DEF Requeue, At
  <1>2. /\ Len(stack[t]) \in Nat \ {0}
        /\ Top(t) = stack[t][Len(stack[t])] /\ Top(t) \in FrameType
    BY <1>1, TopTypes DEF Top
  <1> DEFINE x == IF \E f \in Frames(t) : Writes(f) THEN t ELSE NoThread
             back == [i \in DOMAIN Top(t).pkts |-> Entry(Top(t).pkts[i].seg, x)]
  <1>3. outgoing' = outgoing \o back
    BY DEF Requeue
  <1>4. x \in {t, NoThread} /\ (x = t => \E f \in Frames(t) : Writes(f))
    BY FlushAssumption
  <1> HIDE DEF x
  <1>5. back \in Seq(Entries)
    <2>1. Top(t).pkts \in Seq(Entries)
      BY <1>2 DEF FrameType
    <2> QED
      BY <1>4, <2>1, BackSegs
  <1> HIDE DEF back
  <1>6. /\ stack' \in [Threads -> Seq(FrameType)]
        /\ \A u \in Threads : Len(stack'[u]) = IF u = t THEN Len(stack[u]) - 1 ELSE Len(stack[u])
        /\ \A u \in Threads : \A i \in 1 .. Len(stack'[u]) : stack'[u][i] = stack[u][i]
    BY <1>1, ReturnStep DEF Requeue
  <1>7. flushing' = flushing /\ wire' = wire /\ made' = made
    BY DEF Requeue
  <1>8. outgoing' \in Seq(Entries)
    BY <1>3, <1>5, ConcatProperties DEF Types
  <1>9. Types'
    BY <1>2, <1>6, <1>7, <1>8, FlushAssumption DEF Types
  <1>10. Same(t, Len(stack[t]))
    BY <1>2, <1>6 DEF Same
  <1> QED
    BY <1>1, <1>2, <1>3, <1>4, <1>6, <1>7, <1>9, <1>10 DEF back

LEMMA WriterStep ==
    ASSUME Types, NEW t \in Threads, Writer(t)
    PROVE  /\ Types'
           /\ Len(stack[t]) \in Nat \ {0}
           /\ \A u \in Threads : Len(stack'[u]) = Len(stack[u])
           /\ Same(t, Len(stack[t]))
           /\ stack[t][Len(stack[t])].pc = "write" /\ stack[t][Len(stack[t])].pkts # << >>
           /\ stack'[t][Len(stack[t])].pc = "write"
           /\ stack'[t][Len(stack[t])].pkts = Tail(stack[t][Len(stack[t])].pkts)
           /\ wire' = Append(wire, Head(stack[t][Len(stack[t])].pkts).seg)
           /\ flushing' = flushing /\ outgoing' = outgoing /\ made' = made
  <1>1. stack[t] # << >> /\ Top(t).pc = "write" /\ Top(t).pkts # << >>
    BY DEF Writer, At
  <1>2. /\ Len(stack[t]) \in Nat \ {0}
        /\ Top(t) = stack[t][Len(stack[t])] /\ Top(t) \in FrameType
    BY <1>1, TopTypes DEF Top
  <1>3. Top(t).pkts \in Seq(Entries)
    BY <1>2 DEF FrameType
  <1>4. Tail(Top(t).pkts) \in Seq(Entries) /\ Head(Top(t).pkts) \in Entries
    BY <1>1, <1>3, HeadTailProperties
  <1> DEFINE f == [Top(t) EXCEPT !.pkts = Tail(@)]
  <1>5. f = [pc |-> "write", pkts |-> Tail(Top(t).pkts)]
    BY <1>1, <1>2 DEF FrameType
  <1>6. f \in FrameType
    BY <1>4, <1>5 DEF FrameType
  <1>7. SetTop(t, f)
    BY DEF Writer
  <1> HIDE DEF f
  <1>8. /\ wire' = Append(wire, Head(Top(t).pkts).seg)
        /\ flushing' = flushing /\ outgoing' = outgoing /\ made' = made
    BY DEF Writer
  <1>9. wire' \in Seq(Nat)
    BY <1>4, <1>8, AppendProperties DEF Types, Entries
  <1>10. /\ Types' /\ \A u \in Threads : Len(stack'[u]) = Len(stack[u])
         /\ Same(t, Len(stack[t])) /\ stack'[t][Len(stack[t])] = f
    BY <1>1, <1>6, <1>7, <1>8, <1>9, SetTypes DEF Types
  <1> QED
    BY <1>1, <1>2, <1>5, <1>8, <1>10

LEMMA DrainStep ==
    ASSUME Types, NEW t \in Threads, DrainOutgoing(t)
    PROVE  /\ Types'
           /\ Len(stack[t]) \in Nat \ {0}
           /\ \A u \in Threads : Len(stack'[u]) = Len(stack[u])
           /\ Same(t, Len(stack[t]))
           /\ stack[t][Len(stack[t])].pc = "write" /\ stack[t][Len(stack[t])].pkts = << >>
           /\ stack'[t][Len(stack[t])].pc = IF outgoing = << >> THEN "store" ELSE "write"
           /\ stack'[t][Len(stack[t])].pkts = outgoing
           /\ outgoing' = << >>
           /\ flushing' = flushing /\ wire' = wire /\ made' = made
  <1>1. stack[t] # << >> /\ Top(t).pc = "write" /\ Top(t).pkts = << >>
    BY DEF DrainOutgoing, At
  <1>2. /\ Len(stack[t]) \in Nat \ {0}
        /\ Top(t) = stack[t][Len(stack[t])] /\ Top(t) \in FrameType
    BY <1>1, TopTypes DEF Top
  <1> DEFINE f == [pc |-> IF outgoing = << >> THEN "store" ELSE "write", pkts |-> outgoing]
  <1>3. f \in FrameType
    BY DEF FrameType, Types
  <1>4. SetTop(t, f)
    BY DEF DrainOutgoing
  <1>5. outgoing' = << >> /\ flushing' = flushing /\ wire' = wire /\ made' = made
    BY DEF DrainOutgoing
  <1>6. outgoing' \in Seq(Entries)
    BY <1>5, EmptySeq
  <1>7. /\ Types' /\ \A u \in Threads : Len(stack'[u]) = Len(stack[u])
        /\ Same(t, Len(stack[t])) /\ stack'[t][Len(stack[t])] = f
    <2> HIDE DEF f
    <2> QED
      BY <1>1, <1>3, <1>4, <1>5, <1>6, SetTypes DEF Types
  <1> QED
    BY <1>1, <1>2, <1>5, <1>7

LEMMA StoreStep ==
    ASSUME Types, NEW t \in Threads, Store(t)
    PROVE  /\ Types'
           /\ Len(stack[t]) \in Nat \ {0}
           /\ Len(stack'[t]) = Len(stack[t]) - 1
           /\ \A u \in Threads \ {t} : Len(stack'[u]) = Len(stack[u])
           /\ Same(t, Len(stack[t]))
           /\ stack[t][Len(stack[t])].pc = "store"
           /\ flushing' = FALSE /\ outgoing' = outgoing /\ wire' = wire /\ made' = made
  <1>1. stack[t] # << >> /\ Top(t).pc = "store"
    BY DEF Store, At
  <1>2. Len(stack[t]) \in Nat \ {0} /\ Top(t) = stack[t][Len(stack[t])]
    BY <1>1, TopTypes DEF Top
  <1>3. /\ stack' \in [Threads -> Seq(FrameType)]
        /\ \A u \in Threads : Len(stack'[u]) = IF u = t THEN Len(stack[u]) - 1 ELSE Len(stack[u])
        /\ \A u \in Threads : \A i \in 1 .. Len(stack'[u]) : stack'[u][i] = stack[u][i]
    BY <1>1, ReturnStep DEF Store
  <1>4. flushing' = FALSE /\ outgoing' = outgoing /\ wire' = wire /\ made' = made
    BY DEF Store
  <1>5. Types'
    <2>1. \A u \in Threads : Len(stack'[u]) <= MaxDepth
      BY <1>2, <1>3, FlushAssumption DEF Types
    <2>2. flushing' \in BOOLEAN
      BY <1>4
    <2> QED
      BY <1>3, <1>4, <2>1, <2>2 DEF Types
  <1>6. Same(t, Len(stack[t]))
    BY <1>2, <1>3 DEF Same
  <1> QED
    BY <1>1, <1>2, <1>3, <1>4, <1>5, <1>6

-----------------------------------------------------------------------------
\* Who writes

\* An activation that has been called into is in its write loop.
Below == \A t \in Threads : \A i \in 1 .. Len(stack[t]) - 1 : stack[t][i].pc = "write"

Single ==
    \A t, u \in Threads : \A i \in 1 .. Len(stack[t]) : \A j \in 1 .. Len(stack[u]) :
        Writes(stack[t][i]) /\ Writes(stack[u][j]) => t = u /\ i = j

Raised == flushing <=> \E t \in Threads : \E i \in 1 .. Len(stack[t]) : Writes(stack[t][i])

StoreEmpty ==
    \A t \in Threads : \A i \in 1 .. Len(stack[t]) :
        stack[t][i].pc = "store" => stack[t][i].pkts = << >>

\* A thread with an activation in its write loop.
Looping(t) == \E i \in 1 .. Len(stack[t]) : stack[t][i].pc = "write"

Reentrant ==
    \A k \in 1 .. Len(outgoing) : outgoing[k].inside # NoThread => Looping(outgoing[k].inside)

Control == Types /\ Below /\ Single /\ Raised /\ StoreEmpty /\ Reentrant

LEMMA LenNat ==
    ASSUME Types
    PROVE  \A t \in Threads : Len(stack[t]) \in Nat
  BY LenProperties DEF Types

LEMMA InitControl == Init => Control
  <1> SUFFICES ASSUME Init PROVE Control
    OBVIOUS
  <1>1. outgoing = << >> /\ flushing = FALSE /\ wire = << >> /\ made = 0
    BY DEF Init
  <1>2. stack \in [Threads -> Seq(FrameType)] /\ \A t \in Threads : Len(stack[t]) = 0
    BY EmptySeq DEF Init
  <1>3. << >> \in Seq(Entries) /\ << >> \in Seq(Nat)
    BY EmptySeq
  <1>4. Types
    <2>1. 0 <= MaxDepth
      BY FlushAssumption
    <2>2. \A t \in Threads : Len(stack[t]) <= MaxDepth
      BY <1>2, <2>1, Zenon
    <2> QED
      BY <1>1, <1>2, <1>3, <2>2 DEF Types
  <1> QED
    BY <1>1, <1>2, <1>4 DEF Control, Below, Single, Raised, StoreEmpty, Reentrant

\* The activations that write are the same after a step as before it.
SameWriters ==
    /\ \A u \in Threads : \A i \in 1 .. Len(stack'[u]) :
          Writes(stack'[u][i]) => i \in 1 .. Len(stack[u]) /\ Writes(stack[u][i])
    /\ \A u \in Threads : \A i \in 1 .. Len(stack[u]) :
          Writes(stack[u][i]) => i \in 1 .. Len(stack'[u]) /\ Writes(stack'[u][i])

LEMMA WritersKept ==
    ASSUME Single, Raised, SameWriters, flushing' = flushing
    PROVE  Single' /\ Raised'
  <1>1. Single'
    BY DEF Single, SameWriters, Writes
  <1>2. Raised'
    BY DEF Raised, SameWriters, Writes
  <1> QED
    BY <1>1, <1>2

LEMMA InsideThread ==
    ASSUME Types, NEW k \in 1 .. Len(outgoing), outgoing[k].inside # NoThread
    PROVE  outgoing[k].inside \in Threads
  <1>1. outgoing[k] \in Entries
    BY ElementOfSeq DEF Types
  <1> QED
    BY <1>1 DEF Entries

LEMMA LoopingKept ==
    ASSUME Types, Reentrant, outgoing' = outgoing,
           \A u \in Threads : Looping(u) => Looping(u)'
    PROVE  Reentrant'
  <1> SUFFICES ASSUME NEW k \in 1 .. Len(outgoing), outgoing[k].inside # NoThread
               PROVE  Looping(outgoing[k].inside)'
    BY DEF Reentrant, Looping
  <1>1. Looping(outgoing[k].inside)
    BY DEF Reentrant
  <1>2. outgoing[k].inside \in Threads
    BY InsideThread
  <1>3. ASSUME NEW u \in Threads, u = outgoing[k].inside
        PROVE  Looping(u)'
    BY <1>1, <1>3
  <1> QED
    BY <1>2, <1>3 DEF Looping

LEMMA CallControl ==
    ASSUME Control, NEW t \in Threads, Call(t)
    PROVE  Control'
  <1> DEFINE d == Len(stack[t]) + 1
  <1>1. /\ Types' /\ Len(stack[t]) \in Nat /\ Len(stack'[t]) = d
        /\ \A u \in Threads \ {t} : Len(stack'[u]) = Len(stack[u])
        /\ Same(t, d)
        /\ stack[t] = << >> \/ (stack[t] # << >> /\ stack[t][Len(stack[t])].pc = "write")
        /\ stack'[t][d].pc = "cas"
        /\ outgoing' = << >> /\ flushing' = flushing
    BY CallStep DEF Control
  <1>2. \A u \in Threads : Len(stack[u]) \in Nat
    BY LenNat DEF Control
  <1>3. Below'
    <2>1. stack[t] = << >> => d = 1
      BY EmptySeq
    <2> SUFFICES ASSUME NEW u \in Threads, NEW i \in 1 .. Len(stack'[u]) - 1
                 PROVE  stack'[u][i].pc = "write"
      BY DEF Below
    <2>2. stack'[u][i] = stack[u][i] /\ i \in 1 .. Len(stack[u])
      BY <1>1, <1>2 DEF Same
    <2>3. CASE u = t /\ i = Len(stack[t])
      BY <1>1, <2>1, <2>2, <2>3
    <2>4. CASE ~(u = t /\ i = Len(stack[t]))
      BY <1>1, <1>2, <2>2, <2>4 DEF Control, Below
    <2> QED
      BY <2>3, <2>4
  <1>4. SameWriters
    BY <1>1, <1>2 DEF SameWriters, Same, Writes
  <1>5. Single' /\ Raised'
    BY <1>1, <1>4, WritersKept DEF Control
  <1>6. StoreEmpty'
    BY <1>1, <1>2 DEF Control, StoreEmpty, Same
  <1>7. Reentrant'
    BY <1>1 DEF Reentrant
  <1> QED
    BY <1>1, <1>3, <1>5, <1>6, <1>7 DEF Control

LEMMA CasControl ==
    ASSUME Control, NEW t \in Threads, CompareAndSwap(t)
    PROVE  Control'
  <1> DEFINE d == Len(stack[t])
  <1>1. /\ Types' /\ d \in Nat \ {0} /\ \A u \in Threads : Len(stack'[u]) = Len(stack[u])
        /\ Same(t, d)
        /\ stack[t][d].pc = "cas"
        /\ stack'[t][d].pc = IF flushing THEN "requeue" ELSE "write"
        /\ outgoing' = outgoing /\ flushing' = TRUE
    BY CasStep DEF Control
  <1>2. \A u \in Threads : Len(stack[u]) \in Nat
    BY LenNat DEF Control
  <1>3. Below'
    BY <1>1, <1>2 DEF Control, Below, Same
  <1>4. Single' /\ Raised'
    <2>1. CASE flushing
      <3>1. SameWriters
        BY <1>1, <1>2, <2>1 DEF SameWriters, Same, Writes
      <3>2. flushing' = flushing
        BY <1>1, <2>1 DEF Control, Types
      <3> QED
        BY <3>1, <3>2, WritersKept DEF Control
    <2>2. CASE ~flushing
      <3>1. \A u \in Threads : \A i \in 1 .. Len(stack[u]) : ~Writes(stack[u][i])
        BY <2>2 DEF Control, Raised
      <3>2. \A u \in Threads : \A i \in 1 .. Len(stack'[u]) :
               Writes(stack'[u][i]) <=> u = t /\ i = d
        BY <1>1, <1>2, <2>2, <3>1 DEF Same, Writes
      <3> HIDE DEF d
      <3>3. Single'
        BY <3>2 DEF Single, Writes
      <3>4. d \in 1 .. Len(stack'[t])
        BY <1>1 DEF d
      <3>5. Raised'
        BY <1>1, <3>2, <3>4 DEF Raised, Writes
      <3> QED
        BY <3>3, <3>5
    <2> QED
      BY <2>1, <2>2
  <1>5. StoreEmpty'
    BY <1>1, <1>2 DEF Control, StoreEmpty, Same
  <1>6. Reentrant'
    <2>1. ASSUME NEW u \in Threads, Looping(u)
          PROVE  Looping(u)'
      BY <1>1, <1>2, <2>1 DEF Looping, Same
    <2> QED
      BY <1>1, <2>1, LoopingKept DEF Control
  <1> QED
    BY <1>1, <1>3, <1>4, <1>5, <1>6 DEF Control

LEMMA RequeueControl ==
    ASSUME Control, NEW t \in Threads, Requeue(t)
    PROVE  Control'
  <1> DEFINE d == Len(stack[t])
             pkts == stack[t][d].pkts
  <1>1. /\ Types' /\ d \in Nat \ {0} /\ Len(stack'[t]) = d - 1
        /\ \A u \in Threads \ {t} : Len(stack'[u]) = Len(stack[u])
        /\ Same(t, d)
        /\ stack[t][d].pc = "requeue"
        /\ flushing' = flushing
    BY RequeueStep DEF Control
  <1>2. \A u \in Threads : Len(stack[u]) \in Nat
    BY LenNat DEF Control
  <1>3. PICK x \in {t, NoThread} :
           /\ x = t => \E f \in Frames(t) : Writes(f)
           /\ outgoing' = outgoing \o [i \in DOMAIN pkts |-> Entry(pkts[i].seg, x)]
    BY RequeueStep DEF Control
  <1>4. Below'
    BY <1>1, <1>2 DEF Control, Below, Same
  <1>5. SameWriters
    <2>1. ~Writes(stack[t][d])
      BY <1>1 DEF Writes
    <2>2. \A u \in Threads : \A i \in 1 .. Len(stack'[u]) :
             i \in 1 .. Len(stack[u]) /\ stack'[u][i] = stack[u][i]
      BY <1>1 DEF Same
    <2>3. \A u \in Threads : \A i \in 1 .. Len(stack[u]) :
             ~(u = t /\ i = d) => i \in 1 .. Len(stack'[u])
      BY <1>1, <1>2
    <2> QED
      BY <2>1, <2>2, <2>3 DEF SameWriters
  <1>6. Single' /\ Raised'
    BY <1>1, <1>5, WritersKept DEF Control
  <1>7. StoreEmpty'
    BY <1>1, <1>2 DEF Control, StoreEmpty, Same
  <1>8. ASSUME NEW u \in Threads, Looping(u)
        PROVE  Looping(u)'
    BY <1>1, <1>2, <1>8 DEF Looping, Same
  <1>9. ASSUME x = t
        PROVE  Looping(t)
    <2>1. PICK i \in 1 .. Len(stack[t]) : Writes(stack[t][i])
      BY <1>3, <1>9, LenProperties DEF Frames, Control, Types
    <2>2. i # d
      BY <1>1, <2>1 DEF Writes
    <2>3. stack[t][i].pc = "write"
      BY <1>1, <2>2 DEF Control, Below
    <2> QED
      BY <2>3 DEF Looping
  <1>10. Reentrant'
    <2>1. pkts \in Seq(Entries)
      <3>1. stack[t] \in Seq(FrameType) /\ d \in 1 .. Len(stack[t])
        BY <1>1 DEF Control, Types
      <3>2. stack[t][d] \in FrameType
        BY <3>1, ElementOfSeq
      <3> QED
        BY <3>2 DEF FrameType
    <2> HIDE DEF pkts
    <2> DEFINE back == [i \in DOMAIN pkts |-> Entry(pkts[i].seg, x)]
    <2>2. back \in Seq(Entries) /\ \A i \in 1 .. Len(back) : back[i].inside = x
      BY <2>1, BackSegs
    <2>3. outgoing' = outgoing \o back
      BY <1>3
    <2> HIDE DEF back
    <2>4. ASSUME NEW k \in 1 .. Len(outgoing'), outgoing'[k].inside # NoThread
          PROVE  \E u \in Threads : outgoing'[k].inside = u /\ Looping(u)'
      <3>1. Len(outgoing) \in Nat /\ Len(back) \in Nat /\ outgoing \in Seq(Entries)
        BY <2>2, LenProperties DEF Control, Types
      <3>2. CASE k <= Len(outgoing)
        <4>1. k \in 1 .. Len(outgoing) /\ outgoing'[k] = outgoing[k]
          BY <2>2, <2>3, <3>1, <3>2, ConcatProperties
        <4>2. outgoing[k].inside \in Threads /\ Looping(outgoing[k].inside)
          BY <2>4, <4>1, InsideThread DEF Control, Reentrant
        <4> QED
          BY <1>8, <4>1, <4>2
      <3>3. CASE k > Len(outgoing)
        <4>1. k - Len(outgoing) \in 1 .. Len(back) /\ outgoing'[k] = back[k - Len(outgoing)]
          BY <2>2, <2>3, <3>1, <3>3, ConcatProperties
        <4>2. outgoing'[k].inside = t
          BY <2>2, <2>4, <4>1
        <4>3. Looping(t)'
          BY <1>8, <1>9, <2>2, <4>1, <4>2
        <4> QED
          BY <4>2, <4>3
      <3> QED
        BY <3>1, <3>2, <3>3
    <2> QED
      BY <2>4, Zenon DEF Reentrant, Looping
  <1> QED
    BY <1>1, <1>4, <1>6, <1>7, <1>10 DEF Control

LEMMA WriterControl ==
    ASSUME Control, NEW t \in Threads, Writer(t)
    PROVE  Control'
  <1> DEFINE d == Len(stack[t])
  <1>1. /\ Types' /\ d \in Nat \ {0} /\ \A u \in Threads : Len(stack'[u]) = Len(stack[u])
        /\ Same(t, d)
        /\ stack[t][d].pc = "write" /\ stack'[t][d].pc = "write"
        /\ outgoing' = outgoing /\ flushing' = flushing
    BY WriterStep DEF Control
  <1>2. \A u \in Threads : Len(stack[u]) \in Nat
    BY LenNat DEF Control
  <1>3. Below'
    BY <1>1, <1>2 DEF Control, Below, Same
  <1>4. SameWriters
    BY <1>1, <1>2 DEF SameWriters, Same, Writes
  <1>5. Single' /\ Raised'
    BY <1>1, <1>4, WritersKept DEF Control
  <1>6. StoreEmpty'
    BY <1>1, <1>2 DEF Control, StoreEmpty, Same
  <1>7. Reentrant'
    <2>1. ASSUME NEW u \in Threads, Looping(u)
          PROVE  Looping(u)'
      BY <1>1, <1>2, <2>1 DEF Looping, Same
    <2> QED
      BY <1>1, <2>1, LoopingKept DEF Control
  <1> QED
    BY <1>1, <1>3, <1>5, <1>6, <1>7 DEF Control

LEMMA DrainControl ==
    ASSUME Control, NEW t \in Threads, DrainOutgoing(t)
    PROVE  Control'
  <1> DEFINE d == Len(stack[t])
  <1>1. /\ Types' /\ d \in Nat \ {0} /\ \A u \in Threads : Len(stack'[u]) = Len(stack[u])
        /\ Same(t, d)
        /\ stack[t][d].pc = "write"
        /\ stack'[t][d].pc = IF outgoing = << >> THEN "store" ELSE "write"
        /\ stack'[t][d].pkts = outgoing
        /\ outgoing' = << >> /\ flushing' = flushing
    BY DrainStep DEF Control
  <1>2. \A u \in Threads : Len(stack[u]) \in Nat
    BY LenNat DEF Control
  <1>3. Below'
    BY <1>1, <1>2 DEF Control, Below, Same
  <1>4. SameWriters
    BY <1>1, <1>2 DEF SameWriters, Same, Writes
  <1>5. Single' /\ Raised'
    BY <1>1, <1>4, WritersKept DEF Control
  <1>6. StoreEmpty'
    BY <1>1, <1>2 DEF Control, StoreEmpty, Same
  <1>7. Reentrant'
    BY <1>1 DEF Reentrant
  <1> QED
    BY <1>1, <1>3, <1>5, <1>6, <1>7 DEF Control

LEMMA StoreControl ==
    ASSUME Control, NEW t \in Threads, Store(t)
    PROVE  Control'
  <1> DEFINE d == Len(stack[t])
  <1>1. /\ Types' /\ d \in Nat \ {0} /\ Len(stack'[t]) = d - 1
        /\ \A u \in Threads \ {t} : Len(stack'[u]) = Len(stack[u])
        /\ Same(t, d)
        /\ stack[t][d].pc = "store"
        /\ outgoing' = outgoing /\ flushing' = FALSE
    BY StoreStep DEF Control
  <1>2. \A u \in Threads : Len(stack[u]) \in Nat
    BY LenNat DEF Control
  <1>3. Below'
    BY <1>1, <1>2 DEF Control, Below, Same
  <1>4. \A u \in Threads : \A i \in 1 .. Len(stack'[u]) : ~Writes(stack'[u][i])
    <2> SUFFICES ASSUME NEW u \in Threads, NEW i \in 1 .. Len(stack'[u]), Writes(stack'[u][i])
                 PROVE  FALSE
      OBVIOUS
    <2>1. ~(u = t /\ i = d)
      BY <1>1
    <2>2. i \in 1 .. Len(stack[u]) /\ stack'[u][i] = stack[u][i]
      BY <2>1, <1>1 DEF Same
    <2>3. Writes(stack[u][i]) /\ Writes(stack[t][d])
      BY <1>1, <2>2 DEF Writes
    <2>4. d \in 1 .. Len(stack[t])
      BY <1>1
    <2> QED
      BY <2>1, <2>2, <2>3, <2>4 DEF Control, Single
  <1>5. Single'
    BY <1>4 DEF Single, Writes
  <1>6. Raised'
    BY <1>1, <1>4 DEF Raised, Writes
  <1>7. StoreEmpty'
    BY <1>1, <1>2 DEF Control, StoreEmpty, Same
  <1>8. Reentrant'
    <2>1. ASSUME NEW u \in Threads, Looping(u)
          PROVE  Looping(u)'
      BY <1>1, <1>2, <2>1 DEF Looping, Same
    <2> QED
      BY <1>1, <2>1, LoopingKept DEF Control
  <1> QED
    BY <1>1, <1>3, <1>5, <1>6, <1>7, <1>8 DEF Control

LEMMA NextControl ==
    ASSUME Control, [Next]_vars
    PROVE  Control'
  <1>1. ASSUME NEW t \in Threads,
               \/ Call(t) \/ CompareAndSwap(t) \/ Requeue(t)
               \/ Writer(t) \/ DrainOutgoing(t) \/ Store(t)
        PROVE  Control'
    BY <1>1, CallControl, CasControl, RequeueControl, WriterControl, DrainControl, StoreControl
  <1>2. CASE UNCHANGED vars
    BY <1>2 DEF vars, Control, Types, Below, Single, Raised, StoreEmpty, Reentrant, Looping, Writes
  <1> QED
    BY <1>1, <1>2 DEF Next

\* An activation is a place in a stack.
LEMMA InStack ==
    ASSUME Types
    PROVE  /\ \A a \in Activations : /\ a = <<a[1], a[2]>> /\ a[1] \in Threads
                                     /\ a[2] \in 1 .. Len(stack[a[1]])
                                     /\ Frame(a) = stack[a[1]][a[2]]
           /\ \A t \in Threads : \A i \in 1 .. Len(stack[t]) :
                 <<t, i>> \in Activations /\ Frame(<<t, i>>) = stack[t][i]
  <1>1. \A t \in Threads : Len(stack[t]) \in Nat /\ Len(stack[t]) <= MaxDepth
    BY LenNat DEF Types
  <1>2. ASSUME NEW a \in Activations
        PROVE  /\ a = <<a[1], a[2]>> /\ a[1] \in Threads
               /\ a[2] \in 1 .. Len(stack[a[1]]) /\ Frame(a) = stack[a[1]][a[2]]
    <2>1. /\ a = <<a[1], a[2]>> /\ a[1] \in Threads /\ a[2] \in 1 .. MaxDepth
          /\ a[2] <= Len(stack[a[1]])
      BY DEF Activations
    <2> QED
      BY <1>1, <2>1, FlushAssumption DEF Frame
  <1>3. ASSUME NEW t \in Threads, NEW i \in 1 .. Len(stack[t])
        PROVE  <<t, i>> \in Activations /\ Frame(<<t, i>>) = stack[t][i]
    <2>1. i \in 1 .. MaxDepth /\ i <= Len(stack[t])
      BY <1>1, FlushAssumption
    <2> QED
      BY <2>1 DEF Activations, Frame
  <1> QED
    BY <1>2, <1>3

LEMMA ControlWriter ==
    ASSUME Control
    PROVE  OneWriter
  <1>1. Types
    BY DEF Control
  <1>2. ASSUME NEW a \in Activations, NEW b \in Activations, Writes(Frame(a)), Writes(Frame(b))
        PROVE  a = b
    <2>1. a[1] = b[1] /\ a[2] = b[2]
      BY <1>1, <1>2, InStack DEF Control, Single
    <2> QED
      BY <1>1, <2>1, InStack
  <1>3. flushing => \E a \in Activations : Writes(Frame(a))
    BY <1>1, InStack DEF Control, Raised
  <1>4. (\E a \in Activations : Writes(Frame(a))) => flushing
    BY <1>1, InStack DEF Control, Raised
  <1>5. flushing \in BOOLEAN
    BY <1>1 DEF Types
  <1> QED
    BY <1>2, <1>3, <1>4, <1>5 DEF OneWriter

\* The Writer callback is never running twice at once, for any number of
\* goroutines and any depth of re-entrant calls: one activation writes exactly
\* while the flag is up (the CompareAndSwap and Store of flushPackets).
THEOREM WriterTheorem == Spec => []OneWriter
  BY InitControl, NextControl, ControlWriter, PTL DEF Spec

\* A segment put back by a re-entrant call is in the queue only while the outer
\* loop of the same goroutine has another drain to do (flushPackets).
THEOREM ReentrantTheorem == Spec => []ReentrantDrained
  <1>1. Control => ReentrantDrained
    <2> SUFFICES ASSUME Control, NEW k \in DOMAIN outgoing, outgoing[k].inside # NoThread
                 PROVE  \E f \in Frames(outgoing[k].inside) : f.pc = "write"
      BY DEF ReentrantDrained
    <2>1. k \in 1 .. Len(outgoing)
      BY LenProperties DEF Control, Types
    <2>2. outgoing[k].inside \in Threads /\ Looping(outgoing[k].inside)
      BY <2>1, InsideThread DEF Control, Reentrant
    <2>3. stack[outgoing[k].inside] \in Seq(FrameType)
      BY <2>2 DEF Control, Types
    <2>4. DOMAIN stack[outgoing[k].inside] = 1 .. Len(stack[outgoing[k].inside])
      BY <2>3, LenProperties
    <2> QED
      BY <2>2, <2>4 DEF Looping, Frames
  <1> QED
    BY <1>1, InitControl, NextControl, PTL DEF Spec

-----------------------------------------------------------------------------
\* Where the segments are

Written == {wire[i] : i \in 1 .. Len(wire)}
Queued == Segs(outgoing)
Batch(t, i) == Segs(stack[t][i].pkts)

InRange ==
    /\ Written \subseteq 1 .. made /\ Queued \subseteq 1 .. made
    /\ \A t \in Threads : \A i \in 1 .. Len(stack[t]) : Batch(t, i) \subseteq 1 .. made

WireApart ==
    \A n \in Written : n \notin Queued /\ \A t \in Threads : \A i \in 1 .. Len(stack[t]) : n \notin Batch(t, i)

QueueApart ==
    \A n \in Queued : \A t \in Threads : \A i \in 1 .. Len(stack[t]) : n \notin Batch(t, i)

BatchApart ==
    \A t, u \in Threads : \A i \in 1 .. Len(stack[t]) : \A j \in 1 .. Len(stack[u]) :
        \A n \in Batch(t, i) : n \in Batch(u, j) => t = u /\ i = j

NoneLost ==
    \A n \in 1 .. made : n \in Written \/ n \in Queued
                         \/ \E t \in Threads : \E i \in 1 .. Len(stack[t]) : n \in Batch(t, i)

Apart == InRange /\ WireApart /\ QueueApart /\ BatchApart /\ NoneLost

\* No place has a segment twice.
NoTwice ==
    /\ \A i, j \in 1 .. Len(wire) : wire[i] = wire[j] => i = j
    /\ Distinct(outgoing)
    /\ \A t \in Threads : \A i \in 1 .. Len(stack[t]) : Distinct(stack[t][i].pkts)

Once == Control /\ Apart /\ NoTwice

LEMMA InitOnce == Init => Once
  <1> SUFFICES ASSUME Init PROVE Once
    OBVIOUS
  <1>1. Control
    BY InitControl
  <1>2. /\ Len(wire) = 0 /\ outgoing = << >> /\ made = 0
        /\ \A t \in Threads : Len(stack[t]) = 0
    BY EmptySeq DEF Init
  <1>3. Written = {} /\ Queued = {}
    BY <1>2, NoSegs DEF Written, Queued
  <1>4. Apart
    BY <1>2, <1>3 DEF Apart, InRange, WireApart, QueueApart, BatchApart, NoneLost
  <1>5. NoTwice
    BY <1>2, NoSegs DEF NoTwice
  <1> QED
    BY <1>1, <1>4, <1>5 DEF Once

\* What the activations hold other than the one of thread t at depth d.
OthersHold(t, d) ==
    /\ \A u \in Threads : \A i \in 1 .. Len(stack'[u]) :
          u # t \/ i # d => /\ i \in 1 .. Len(stack[u])
                            /\ Batch(u, i)' = Batch(u, i)
                            /\ stack'[u][i].pkts = stack[u][i].pkts
    /\ \A u \in Threads : \A i \in 1 .. Len(stack[u]) :
          u # t \/ i # d => i \in 1 .. Len(stack'[u])

\* What that one holds, if there is one.
Holding(t, d) == IF d \in 1 .. Len(stack[t]) THEN Batch(t, d) ELSE {}

\* What is moved between the wire, the queue and the batch of one activation stays
\* in one place.
LEMMA Moved ==
    ASSUME Apart, NEW t \in Threads, NEW d, OthersHold(t, d),
           made \in Nat, made' \in Nat, made <= made',
           Written' \cup Queued' \cup Holding(t, d)' =
              Written \cup Queued \cup Holding(t, d) \cup (made + 1 .. made'),
           Written' \cap Queued' = {}, Written' \cap Holding(t, d)' = {},
           Queued' \cap Holding(t, d)' = {}
    PROVE  Apart'
  <1>0. PICK X, Y : /\ X = Holding(t, d) /\ Y = Holding(t, d)'
                    /\ X = IF d \in 1 .. Len(stack[t]) THEN Batch(t, d) ELSE {}
                    /\ Y = IF d \in 1 .. Len(stack'[t]) THEN Batch(t, d)' ELSE {}
    BY DEF Holding
  <1> USE <1>0
  <1> DEFINE All == Written \cup Queued \cup X \cup (made + 1 .. made')
             Other(u, i) == u \in Threads /\ i \in 1 .. Len(stack[u]) /\ (u # t \/ i # d)
  <1>1. ASSUME NEW u, NEW i, Other(u, i), NEW n \in Batch(u, i)
        PROVE  n \notin All
    <2>1. n \in 1 .. made /\ n \notin made + 1 .. made'
      BY <1>1 DEF Apart, InRange
    <2>2. n \notin Written /\ n \notin Queued
      BY <1>1 DEF Apart, WireApart, QueueApart
    <2>3. n \notin X
      BY <1>1 DEF Apart, BatchApart
    <2> QED
      BY <2>1, <2>2, <2>3
  <1>2. 1 .. made \subseteq 1 .. made' /\ made + 1 .. made' \subseteq 1 .. made'
    OBVIOUS
  <1>3. All \subseteq 1 .. made'
    <2>1. Written \subseteq 1 .. made /\ Queued \subseteq 1 .. made
      BY DEF Apart, InRange
    <2>2. X \subseteq 1 .. made
      BY DEF Apart, InRange
    <2> QED
      BY <1>2, <2>1, <2>2
  <1> HIDE DEF All
  <1>4. Written' \subseteq All /\ Queued' \subseteq All /\ Y \subseteq All
    BY DEF All
  <1>5. ASSUME NEW u \in Threads, NEW i \in 1 .. Len(stack'[u])
        PROVE  \/ u = t /\ i = d /\ Batch(u, i)' = Y
               \/ Other(u, i) /\ Batch(u, i)' = Batch(u, i)
    <2>1. CASE u = t /\ i = d
      BY <2>1, <1>5
    <2>2. CASE ~(u = t /\ i = d)
      BY <2>2, <1>5 DEF OthersHold
    <2> QED
      BY <2>1, <2>2
  <1>6. InRange'
    <2>1. ASSUME NEW u \in Threads, NEW i \in 1 .. Len(stack'[u])
          PROVE  Batch(u, i)' \subseteq 1 .. made'
      <3>1. CASE Batch(u, i)' = Y
        BY <1>3, <1>4, <3>1
      <3>2. CASE Other(u, i) /\ Batch(u, i)' = Batch(u, i)
        <4>1. Batch(u, i) \subseteq 1 .. made
          BY <3>2 DEF Apart, InRange
        <4> QED
          BY <1>2, <3>2, <4>1
      <3> QED
        BY <1>5, <2>1, <3>1, <3>2
    <2> QED
      BY <1>3, <1>4, <2>1 DEF InRange
  <1>7. WireApart'
    <2> SUFFICES ASSUME NEW n \in Written', NEW u \in Threads, NEW i \in 1 .. Len(stack'[u]),
                        n \in Batch(u, i)'
                 PROVE  FALSE
      BY DEF WireApart
    <2>1. CASE Batch(u, i)' = Y
      BY <2>1
    <2>2. CASE Other(u, i) /\ Batch(u, i)' = Batch(u, i)
      BY <1>1, <1>4, <2>2
    <2> QED
      BY <1>5, <2>1, <2>2
  <1>8. QueueApart'
    <2> SUFFICES ASSUME NEW n \in Queued', NEW u \in Threads, NEW i \in 1 .. Len(stack'[u]),
                        n \in Batch(u, i)'
                 PROVE  FALSE
      BY DEF QueueApart
    <2>1. CASE Batch(u, i)' = Y
      BY <2>1
    <2>2. CASE Other(u, i) /\ Batch(u, i)' = Batch(u, i)
      BY <1>1, <1>4, <2>2
    <2> QED
      BY <1>5, <2>1, <2>2
  <1>9. BatchApart'
    <2> SUFFICES ASSUME NEW u \in Threads, NEW v \in Threads,
                        NEW i \in 1 .. Len(stack'[u]), NEW j \in 1 .. Len(stack'[v]),
                        NEW n \in Batch(u, i)', n \in Batch(v, j)'
                 PROVE  u = v /\ i = j
      BY DEF BatchApart
    <2>1. CASE Other(u, i) /\ Other(v, j) /\ Batch(u, i)' = Batch(u, i) /\ Batch(v, j)' = Batch(v, j)
      BY <2>1 DEF Apart, BatchApart
    <2>2. CASE u = t /\ i = d /\ v = t /\ j = d
      BY <2>2
    <2> QED
      BY <1>1, <1>4, <1>5, <2>1, <2>2
  <1>10. NoneLost'
    <2> SUFFICES ASSUME NEW n \in 1 .. made', n \notin Written', n \notin Queued'
                 PROVE  \E u \in Threads : \E i \in 1 .. Len(stack'[u]) : n \in Batch(u, i)'
      BY DEF NoneLost
    <2>1. CASE n \in Y
      BY <2>1
    <2>2. CASE n \notin Y
      <3>1. n \notin All
        BY <2>2 DEF All
      <3>2. n \in 1 .. made
        BY <3>1 DEF All
      <3>3. PICK u \in Threads, i \in Nat : i \in 1 .. Len(stack[u]) /\ n \in Batch(u, i)
        BY <3>1, <3>2 DEF Apart, NoneLost, All
      <3>4. u # t \/ i # d
        BY <3>1, <3>3 DEF All
      <3>5. i \in 1 .. Len(stack'[u]) /\ Batch(u, i)' = Batch(u, i)
        BY <3>3, <3>4 DEF OthersHold
      <3> QED
        BY <3>3, <3>5
    <2> QED
      BY <2>1, <2>2
  <1> QED
    BY <1>6, <1>7, <1>8, <1>9, <1>10 DEF Apart

LEMMA BatchTypes ==
    ASSUME Types, NEW t \in Threads, NEW i \in 1 .. Len(stack[t])
    PROVE  stack[t][i].pkts \in Seq(Entries)
  <1>1. stack[t] \in Seq(FrameType)
    BY DEF Types
  <1>2. stack[t][i] \in FrameType
    BY <1>1, ElementOfSeq
  <1> QED
    BY <1>2 DEF FrameType

LEMMA CallOnce ==
    ASSUME Once, NEW t \in Threads, Call(t)
    PROVE  Apart' /\ NoTwice'
  <1>1. PICK d \in Nat : d = Len(stack[t]) + 1
    BY LenNat DEF Once, Control
  <1>2. /\ Types /\ Types' /\ Len(stack'[t]) = d
        /\ \A u \in Threads \ {t} : Len(stack'[u]) = Len(stack[u])
        /\ Same(t, d) /\ outgoing' = << >> /\ wire' = wire
    BY <1>1, CallStep DEF Once, Control
  <1>3. PICK n \in {0, 1} :
           /\ stack'[t][d].pkts = outgoing \o [i \in 1 .. n |-> Entry(made + i, NoThread)]
           /\ made' = made + n
    BY <1>1, CallStep DEF Once, Control
  <1>4. \A u \in Threads : Len(stack[u]) \in Nat
    BY <1>2, LenNat
  <1>5. OthersHold(t, d)
    BY <1>1, <1>2, <1>4 DEF Same, OthersHold, Batch
  <1>6. made \in Nat /\ made' \in Nat /\ made <= made' /\ outgoing \in Seq(Entries)
    BY <1>2, <1>3 DEF Types
  <1>7. PICK new : new = [i \in 1 .. n |-> Entry(made + i, NoThread)]
    OBVIOUS
  <1>8. new \in Seq(Entries) /\ Segs(new) = made + 1 .. made' /\ Distinct(new)
    BY <1>3, <1>6, <1>7, NewSegs
  <1>9. Batch(t, d)' = Queued \cup (made + 1 .. made')
    BY <1>3, <1>6, <1>7, <1>8, ConcatSegs DEF Batch, Queued
  <1>10. Queued' = {} /\ Written' = Written
    BY <1>2, NoSegs DEF Queued, Written
  <1>11. /\ Queued \cap (made + 1 .. made') = {}
         /\ Written \cap (Queued \cup (made + 1 .. made')) = {}
    <2>1. (made + 1 .. made') \cap (1 .. made) = {}
      BY <1>6
    <2> QED
      BY <2>1 DEF Once, Apart, InRange, WireApart
  <1>12. Apart'
    <2>1. d \notin 1 .. Len(stack[t]) /\ d \in 1 .. Len(stack'[t])
      BY <1>1, <1>2, <1>4
    <2>2. Holding(t, d) = {} /\ Holding(t, d)' = Queued \cup (made + 1 .. made')
      BY <1>9, <2>1 DEF Holding
    <2> QED
      BY <1>5, <1>6, <1>10, <1>11, <2>2, Moved DEF Once
  <1>13. NoTwice'
    <2>1. Distinct(stack'[t][d].pkts)
      <3>1. Distinct(outgoing)
        BY DEF Once, NoTwice
      <3>2. Segs(outgoing) \cap Segs(new) = {}
        BY <1>8, <1>11 DEF Queued
      <3>3. Distinct(outgoing \o new)
        BY <1>6, <1>8, <3>1, <3>2, ConcatSegs
      <3> QED
        BY <1>3, <1>7, <3>3
    <2>2. Distinct(outgoing')
      BY <1>2, NoSegs
    <2> QED
      BY <1>2, <1>5, <2>1, <2>2 DEF Once, NoTwice, OthersHold
  <1> QED
    BY <1>12, <1>13

LEMMA CasOnce ==
    ASSUME Once, NEW t \in Threads, CompareAndSwap(t)
    PROVE  Apart' /\ NoTwice'
  <1>1. PICK d \in Nat : d = Len(stack[t])
    BY LenNat DEF Once, Control
  <1>2. /\ Types /\ d \in Nat \ {0} /\ \A u \in Threads : Len(stack'[u]) = Len(stack[u])
        /\ Same(t, d) /\ stack'[t][d].pkts = stack[t][d].pkts
        /\ outgoing' = outgoing /\ wire' = wire /\ made' = made
    BY <1>1, CasStep DEF Once, Control
  <1>3. OthersHold(t, d)
    BY <1>2 DEF Same, OthersHold, Batch
  <1>4. Batch(t, d)' = Batch(t, d) /\ Queued' = Queued /\ Written' = Written
    BY <1>2 DEF Batch, Queued, Written
  <1>5. d \in 1 .. Len(stack[t]) /\ d \in 1 .. Len(stack'[t])
    BY <1>1, <1>2
  <1>6. made \in Nat /\ made + 1 .. made = {}
    BY <1>2 DEF Types
  <1>7. Written \cap Queued = {} /\ Written \cap Batch(t, d) = {} /\ Queued \cap Batch(t, d) = {}
    BY <1>5 DEF Once, Apart, WireApart, QueueApart
  <1>8. Apart'
    <2>1. Holding(t, d) = Batch(t, d) /\ Holding(t, d)' = Batch(t, d)
      BY <1>4, <1>5 DEF Holding
    <2> QED
      BY <1>2, <1>3, <1>4, <1>6, <1>7, <2>1, Moved DEF Once
  <1>9. NoTwice'
    BY <1>2, <1>3, <1>5 DEF Once, NoTwice, OthersHold
  <1> QED
    BY <1>8, <1>9

LEMMA RequeueOnce ==
    ASSUME Once, NEW t \in Threads, Requeue(t)
    PROVE  Apart' /\ NoTwice'
  <1>1. PICK d \in Nat : d = Len(stack[t])
    BY LenNat DEF Once, Control
  <1>2. /\ Types /\ d \in Nat \ {0} /\ Len(stack'[t]) = d - 1
        /\ \A u \in Threads \ {t} : Len(stack'[u]) = Len(stack[u])
        /\ Same(t, d) /\ wire' = wire /\ made' = made
    BY <1>1, RequeueStep DEF Once, Control
  <1>3. PICK x \in {t, NoThread} :
           outgoing' = outgoing \o [i \in DOMAIN stack[t][d].pkts |-> Entry(stack[t][d].pkts[i].seg, x)]
    BY <1>1, RequeueStep DEF Once, Control
  <1>4. \A u \in Threads : Len(stack[u]) \in Nat
    BY <1>2, LenNat
  <1>5. OthersHold(t, d)
    BY <1>1, <1>2, <1>4 DEF Same, OthersHold, Batch
  <1>6. d \in 1 .. Len(stack[t]) /\ d \notin 1 .. Len(stack'[t])
    BY <1>1, <1>2
  <1>7. PICK pkts : pkts = stack[t][d].pkts
    OBVIOUS
  <1>8. pkts \in Seq(Entries) /\ outgoing \in Seq(Entries) /\ Distinct(pkts) /\ Distinct(outgoing)
    BY <1>2, <1>6, <1>7, BatchTypes DEF Types, Once, NoTwice
  <1>9. PICK back : back = [i \in DOMAIN pkts |-> Entry(pkts[i].seg, x)]
    OBVIOUS
  <1>10. back \in Seq(Entries) /\ Segs(back) = Segs(pkts) /\ Distinct(back)
    BY <1>8, <1>9, BackSegs
  <1>11. outgoing' = outgoing \o back
    BY <1>3, <1>7, <1>9
  <1>12. Queued' = Queued \cup Batch(t, d) /\ Written' = Written
    BY <1>2, <1>7, <1>8, <1>10, <1>11, ConcatSegs DEF Queued, Batch, Written
  <1>13. Written \cap Queued = {} /\ Written \cap Batch(t, d) = {} /\ Queued \cap Batch(t, d) = {}
    BY <1>6 DEF Once, Apart, WireApart, QueueApart
  <1>14. made \in Nat /\ made + 1 .. made = {}
    BY <1>2 DEF Types
  <1>15. Apart'
    <2>1. Holding(t, d) = Batch(t, d) /\ Holding(t, d)' = {}
      BY <1>6 DEF Holding
    <2> QED
      BY <1>2, <1>5, <1>12, <1>13, <1>14, <2>1, Moved DEF Once
  <1>16. NoTwice'
    <2>1. Distinct(outgoing')
      BY <1>7, <1>8, <1>10, <1>11, <1>13, ConcatSegs DEF Queued, Batch
    <2> QED
      BY <1>2, <1>5, <1>6, <2>1 DEF Once, NoTwice, OthersHold
  <1> QED
    BY <1>15, <1>16

LEMMA WriterOnce ==
    ASSUME Once, NEW t \in Threads, Writer(t)
    PROVE  Apart' /\ NoTwice'
  <1>1. PICK d \in Nat : d = Len(stack[t])
    BY LenNat DEF Once, Control
  <1>2. PICK pkts : pkts = stack[t][d].pkts
    OBVIOUS
  <1>3. /\ Types /\ d \in Nat \ {0} /\ \A u \in Threads : Len(stack'[u]) = Len(stack[u])
        /\ Same(t, d) /\ pkts # << >> /\ stack'[t][d].pkts = Tail(pkts)
        /\ wire' = Append(wire, Head(pkts).seg)
        /\ outgoing' = outgoing /\ made' = made
    BY <1>1, <1>2, WriterStep DEF Once, Control
  <1>4. OthersHold(t, d)
    BY <1>3 DEF Same, OthersHold, Batch
  <1>5. d \in 1 .. Len(stack[t]) /\ d \in 1 .. Len(stack'[t])
    BY <1>1, <1>3
  <1>6. pkts \in Seq(Entries) /\ Distinct(pkts)
    BY <1>2, <1>3, <1>5, BatchTypes DEF Once, NoTwice
  <1>7. PICK h : h = Head(pkts).seg
    OBVIOUS
  <1>8. /\ h \in Batch(t, d) /\ Batch(t, d)' = Batch(t, d) \ {h}
        /\ Distinct(stack'[t][d].pkts)
    BY <1>2, <1>3, <1>6, <1>7, TailSegs DEF Batch
  <1>9. made \in Nat /\ made + 1 .. made = {} /\ wire \in Seq(Nat) /\ h \in Nat
    BY <1>3, <1>5, <1>8 DEF Types, Once, Apart, InRange
  <1>10. /\ Len(wire) \in Nat /\ Len(wire') = Len(wire) + 1
         /\ \A i \in 1 .. Len(wire) : wire'[i] = wire[i]
         /\ wire'[Len(wire) + 1] = h
    BY <1>3, <1>7, <1>9, AppendProperties, LenProperties
  <1>11. Written' = Written \cup {h} /\ Queued' = Queued
    <2>1. \A n : n \in Written' <=> n \in Written \cup {h}
      BY <1>10 DEF Written
    <2> QED
      BY <1>3, <2>1 DEF Queued
  <1>12. Written \cap Queued = {} /\ Written \cap Batch(t, d) = {} /\ Queued \cap Batch(t, d) = {}
    BY <1>5 DEF Once, Apart, WireApart, QueueApart
  <1>13. Apart'
    <2>1. Holding(t, d) = Batch(t, d) /\ Holding(t, d)' = Batch(t, d) \ {h}
      BY <1>5, <1>8 DEF Holding
    <2> QED
      BY <1>3, <1>4, <1>8, <1>9, <1>11, <1>12, <2>1, Moved DEF Once
  <1>14. NoTwice'
    <2>1. \A i \in 1 .. Len(wire) : wire[i] # h
      BY <1>8, <1>12 DEF Written
    <2>2. \A i, j \in 1 .. Len(wire') : wire'[i] = wire'[j] => i = j
      BY <1>10, <2>1 DEF Once, NoTwice
    <2> QED
      BY <1>3, <1>4, <1>8, <2>2 DEF Once, NoTwice, OthersHold
  <1> QED
    BY <1>13, <1>14

LEMMA DrainOnce ==
    ASSUME Once, NEW t \in Threads, DrainOutgoing(t)
    PROVE  Apart' /\ NoTwice'
  <1>1. PICK d \in Nat : d = Len(stack[t])
    BY LenNat DEF Once, Control
  <1>2. /\ Types /\ d \in Nat \ {0} /\ \A u \in Threads : Len(stack'[u]) = Len(stack[u])
        /\ Same(t, d) /\ stack[t][d].pkts = << >> /\ stack'[t][d].pkts = outgoing
        /\ outgoing' = << >> /\ wire' = wire /\ made' = made
    BY <1>1, DrainStep DEF Once, Control
  <1>3. OthersHold(t, d)
    BY <1>2 DEF Same, OthersHold, Batch
  <1>4. d \in 1 .. Len(stack[t]) /\ d \in 1 .. Len(stack'[t])
    BY <1>1, <1>2
  <1>5. Holding(t, d) = {} /\ Holding(t, d)' = Queued /\ Queued' = {} /\ Written' = Written
    BY <1>2, <1>4, NoSegs DEF Holding, Batch, Queued, Written
  <1>6. made \in Nat /\ made + 1 .. made = {}
    BY <1>2 DEF Types
  <1>7. Written \cap Queued = {}
    BY DEF Once, Apart, WireApart
  <1>8. Apart'
    BY <1>2, <1>3, <1>5, <1>6, <1>7, Moved DEF Once
  <1>9. NoTwice'
    <2>1. Distinct(outgoing') /\ Distinct(stack'[t][d].pkts)
      BY <1>2, NoSegs DEF Once, NoTwice
    <2> QED
      BY <1>2, <1>3, <2>1 DEF Once, NoTwice, OthersHold
  <1> QED
    BY <1>8, <1>9

LEMMA StoreOnce ==
    ASSUME Once, NEW t \in Threads, Store(t)
    PROVE  Apart' /\ NoTwice'
  <1>1. PICK d \in Nat : d = Len(stack[t])
    BY LenNat DEF Once, Control
  <1>2. /\ Types /\ d \in Nat \ {0} /\ Len(stack'[t]) = d - 1
        /\ \A u \in Threads \ {t} : Len(stack'[u]) = Len(stack[u])
        /\ Same(t, d) /\ stack[t][d].pc = "store"
        /\ outgoing' = outgoing /\ wire' = wire /\ made' = made
    BY <1>1, StoreStep DEF Once, Control
  <1>3. \A u \in Threads : Len(stack[u]) \in Nat
    BY <1>2, LenNat
  <1>4. OthersHold(t, d)
    BY <1>1, <1>2, <1>3 DEF Same, OthersHold, Batch
  <1>5. d \in 1 .. Len(stack[t]) /\ d \notin 1 .. Len(stack'[t])
    BY <1>1, <1>2
  <1>6. stack[t][d].pkts = << >>
    BY <1>2, <1>5 DEF Once, Control, StoreEmpty
  <1>7. Holding(t, d) = {} /\ Holding(t, d)' = {} /\ Queued' = Queued /\ Written' = Written
    BY <1>2, <1>5, <1>6, NoSegs DEF Holding, Batch, Queued, Written
  <1>8. made \in Nat /\ made + 1 .. made = {}
    BY <1>2 DEF Types
  <1>9. Written \cap Queued = {}
    BY DEF Once, Apart, WireApart
  <1>10. Apart'
    BY <1>2, <1>4, <1>7, <1>8, <1>9, Moved DEF Once
  <1>11. NoTwice'
    BY <1>2, <1>4, <1>5 DEF Once, NoTwice, OthersHold
  <1> QED
    BY <1>10, <1>11

LEMMA NextOnce ==
    ASSUME Once, [Next]_vars
    PROVE  Once'
  <1>1. Control'
    BY NextControl DEF Once
  <1>2. ASSUME NEW t \in Threads,
               \/ Call(t) \/ CompareAndSwap(t) \/ Requeue(t)
               \/ Writer(t) \/ DrainOutgoing(t) \/ Store(t)
        PROVE  Apart' /\ NoTwice'
    BY <1>2, CallOnce, CasOnce, RequeueOnce, WriterOnce, DrainOnce, StoreOnce
  <1>3. CASE UNCHANGED vars
    <2>1. Apart'
      <3>1. /\ Written' = Written /\ Queued' = Queued /\ made' = made /\ stack' = stack
            /\ \A t, i : Batch(t, i)' = Batch(t, i)
        BY <1>3 DEF vars, Written, Queued, Batch
      <3>2. Apart
        BY DEF Once
      <3> QED
        BY <3>1, <3>2 DEF Apart, InRange, WireApart, QueueApart, BatchApart, NoneLost
    <2>2. NoTwice'
      BY <1>3 DEF vars, Once, NoTwice
    <2> QED
      BY <1>1, <2>1, <2>2 DEF Once
  <1> QED
    BY <1>1, <1>2, <1>3 DEF Next, Once

LEMMA OnceEach ==
    ASSUME Once
    PROVE  EachOnce
  <1> SUFFICES ASSUME NEW n \in 1 .. made
               PROVE  \E p : Places(n) = {p}
    BY DEF EachOnce
  <1> DEFINE W == {<<"wire", i>> : i \in {j \in DOMAIN wire : wire[j] = n}}
             Q == {<<"queue", i>> : i \in {j \in DOMAIN outgoing : outgoing[j].seg = n}}
             B == {a \in Activations : n \in Segs(Frame(a).pkts)}
  <1>1. /\ DOMAIN wire = 1 .. Len(wire) /\ DOMAIN outgoing = 1 .. Len(outgoing)
        /\ outgoing \in Seq(Entries) /\ Types
    BY LenProperties DEF Once, Control, Types
  <1>2. n \notin Written => W = {}
    BY <1>1 DEF Written
  <1>3. ASSUME n \in Written
        PROVE  \E p : W = {p}
    <2>1. PICK i \in 1 .. Len(wire) : wire[i] = n
      BY <1>3 DEF Written
    <2>2. {j \in DOMAIN wire : wire[j] = n} = {i}
      BY <1>1, <2>1 DEF Once, NoTwice
    <2>3. W = {<<"wire", i>>}
      BY <2>2
    <2> QED
      BY <2>3
  <1>4. n \notin Queued => Q = {}
    BY <1>1, SegsIn DEF Queued
  <1>5. ASSUME n \in Queued
        PROVE  \E p : Q = {p}
    <2>1. PICK i \in 1 .. Len(outgoing) : outgoing[i].seg = n
      BY <1>1, <1>5, SegsIn DEF Queued
    <2>2. {j \in DOMAIN outgoing : outgoing[j].seg = n} = {i}
      BY <1>1, <2>1 DEF Once, NoTwice, Distinct
    <2>3. Q = {<<"queue", i>>}
      BY <2>2
    <2> QED
      BY <2>3
  <1>6. ASSUME NEW a \in B
        PROVE  /\ a = <<a[1], a[2]>> /\ a[1] \in Threads
               /\ a[2] \in 1 .. Len(stack[a[1]]) /\ n \in Batch(a[1], a[2])
    BY <1>1, InStack DEF Batch
  <1>7. n \in Written \/ n \in Queued => B = {}
    BY <1>6 DEF Once, Apart, WireApart, QueueApart
  <1>8. ASSUME n \notin Written, n \notin Queued
        PROVE  \E p : B = {p}
    <2>1. PICK t \in Threads : \E i \in 1 .. Len(stack[t]) : n \in Batch(t, i)
      BY <1>8 DEF Once, Apart, NoneLost
    <2>2. PICK i \in 1 .. Len(stack[t]) : n \in Batch(t, i)
      BY <2>1
    <2>3. <<t, i>> \in B
      BY <1>1, <2>2, InStack DEF Batch
    <2>4. ASSUME NEW a \in B
          PROVE  a = <<t, i>>
      <3>1. a[1] = t /\ a[2] = i
        BY <1>6, <2>2, <2>4 DEF Once, Apart, BatchApart
      <3> QED
        BY <1>6, <3>1
    <2> QED
      BY <2>3, <2>4
  <1>9. n \in Written => n \notin Queued
    BY DEF Once, Apart, WireApart
  <1>10. Places(n) = W \cup Q \cup B
    BY DEF Places
  <1> HIDE DEF W, Q, B
  <1> QED
    BY <1>2, <1>3, <1>4, <1>5, <1>7, <1>8, <1>9, <1>10

\* No segment is lost and none is written twice, for any number of goroutines,
\* segments and nested calls: each is written, in c.outgoing, or in the batch of one
\* activation (drainOutgoing and flushPackets).
THEOREM OnceTheorem == Spec => []EachOnce
  BY InitOnce, NextOnce, OnceEach, PTL DEF Spec

=============================================================================
