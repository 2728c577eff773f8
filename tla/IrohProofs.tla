----------------------------- MODULE IrohProofs -----------------------------
(***************************************************************************)
(* That the connection to an iroh relay leaks no socket, and what the      *)
(* streams over it promise: the order of what they carry, wakeups and ids. *)
(* For any number of sockets, read loops, streams, calls and failures.     *)
(***************************************************************************)
EXTENDS IrohConn, IrohStreams, TLAPS

-----------------------------------------------------------------------------
\* The connection

\* The run loop has dropped its socket wherever it may go on to dial, and where
\* it has returned.
Inv ==
    /\ sock \in [Sockets -> {"closed", "up", "silent", "dead"}]
    /\ \A i \in Sockets : sock[i] # "closed" => i = ws
    /\ rpc \in {"connect", "dial", "hung", "backoff", "done"} => \A i \in Sockets : sock[i] = "closed"

LEMMA InitInv == Init => Inv
  BY Zenon DEF Init, Inv

\* Closing the current socket leaves none open.
LEMMA Closes ==
    ASSUME Inv, CloseSocket
    PROVE  /\ sock' \in [Sockets -> {"closed", "up", "silent", "dead"}]
           /\ \A i \in Sockets : sock'[i] = "closed"
  BY Zenon DEF Inv, CloseSocket

\* What leaves sockets and ws alone, and goes nowhere that a dial follows from.
LEMMA Keeps ==
    ASSUME Inv, sock' = sock, ws' = ws,
           rpc' \in {"connect", "dial", "hung", "backoff", "done"} =>
              rpc \in {"connect", "dial", "hung", "backoff", "done"}
    PROVE  Inv'
  BY Zenon DEF Inv

\* The network changes a socket that is open.
LEMMA Changes ==
    ASSUME Inv, NEW i \in Sockets, sock[i] # "closed", NEW c \in {"silent", "dead"},
           sock' = [sock EXCEPT ![i] = c], rpc' = rpc, ws' = ws
    PROVE  Inv'
  BY Zenon DEF Inv

LEMMA RunLoopInv ==
    ASSUME Inv, RunLoop
    PROVE  Inv'
  <1>1. CASE Connect \/ Backoff \/ DialFails \/ HandshakeOk \/ SelectSkip
    BY <1>1, Keeps, Zenon DEF Connect, Backoff, DialFails, Retry, HandshakeOk, SelectSkip, netVars
  <1>2. CASE DialOk
    BY <1>2, Zenon DEF DialOk, Inv
  <1>3. CASE HandshakeFails
    BY <1>3, Closes, Zenon DEF HandshakeFails, Inv
  <1>4. CASE Loop
    <2>1. CASE state = "Alive"
      BY <1>4, <2>1, Keeps, Zenon DEF Loop, netVars
    <2>2. CASE state # "Alive"
      BY <1>4, <2>2, Closes, Zenon DEF Loop, shutdown, Inv
    <2> QED
      BY <2>1, <2>2, Zenon
  <1>5. CASE SelectStop \/ SelectReconnect \/ SelectTimeout
    BY <1>5, Closes, Zenon DEF SelectStop, SelectReconnect, SelectTimeout, shutdown, Inv
  <1>6. CASE SelectPing
    <2>1. CASE shutdown
      BY <2>1, Closes, Zenon DEF shutdown, Inv
    <2>2. CASE UNCHANGED <<state, ws, sock, answer>>
      BY <1>6, <2>2, Keeps, Zenon DEF SelectPing
    <2> QED
      BY <1>6, <2>1, <2>2, Zenon DEF SelectPing
  <1> QED
    BY <1>1, <1>2, <1>3, <1>4, <1>5, <1>6, Zenon DEF RunLoop

LEMMA NextInv ==
    ASSUME Inv, [Next]_vars
    PROVE  Inv'
  <1>1. CASE RunLoop
    BY <1>1, RunLoopInv, Zenon
  <1>2. ASSUME NEW r \in Readers, ReadLoop(r)
        PROVE  Inv'
    BY <1>2, Keeps, Zenon DEF ReadLoop, ReadTop, ReadFrame, HandlePong, HandlePing, HandleFrame,
                       ReadFails, ReadSignals, loopVars, netVars
  <1>3. ASSUME NEW i \in Sockets, Break(i) \/ Silence(i)
        PROVE  Inv'
    BY <1>3, Changes, Zenon DEF Break, Silence, loopVars
  <1>4. CASE DialHangs \/ HungEnds \/ Clock \/ stop \/ UNCHANGED vars
    BY <1>4, Keeps, Zenon DEF DialHangs, HungEnds, Retry, Clock, stop, vars, loopVars, netVars
  <1> QED
    BY <1>1, <1>2, <1>3, <1>4, Zenon DEF Next

\* No socket leaks: every socket but the current one is closed, whatever dials,
\* failed handshakes, signals, timeouts and late read loops came before, and the
\* run loop returns with none open (connect, shutdown, runLoop).
THEOREM SocketTheorem == Spec => []OneSocket
  <1>1. Inv => OneSocket
    BY Zenon DEF Inv, OneSocket
  <1> QED
    BY <1>1, InitInv, NextInv, PTL DEF Spec

-----------------------------------------------------------------------------
\* Frames in a queue

Object == [id : Nat, mgr : Nat, opened : BOOLEAN, rxBuf : BOOLEAN, got : Seq(Nat \X Nat),
           wrote : Nat, closed : BOOLEAN, reset : BOOLEAN, local : BOOLEAN,
           reader : {"none", "waits", "woken"}]

StreamFrame == [id : Nat, flag : {"DATA", "CLOSE", "RESET", "GONE"}, from : Nat, num : Nat]

\* A frame is put at the end of a queue ...
LEMMA Appended ==
    ASSUME NEW S, NEW q \in Seq(S), NEW f \in S
    PROVE  /\ Append(q, f) \in Seq(S) /\ Len(q) \in Nat /\ Len(Append(q, f)) = Len(q) + 1
           /\ \A i \in 1 .. Len(q) : Append(q, f)[i] = q[i]
           /\ Append(q, f)[Len(q) + 1] = f
  OBVIOUS

\* ... and taken from its front.
LEMMA Taken ==
    ASSUME NEW S, NEW q \in Seq(S), q # <<>>
    PROVE  /\ Tail(q) \in Seq(S) /\ Len(q) \in Nat \ {0} /\ Len(Tail(q)) = Len(q) - 1
           /\ \A i \in 1 .. (Len(q) - 1) : Tail(q)[i] = q[i + 1]
           /\ Head(q) = q[1] /\ q[1] \in S
  OBVIOUS

LEMMA FrameTaken ==
    ASSUME NEW q \in Seq(StreamFrame), q # <<>>
    PROVE  Head(q) = q[1] /\ q[1].num = Head(q).num /\ Head(q).num \in Nat /\ Head(q).from \in Nat
  <1>1. Head(q) = q[1] /\ q[1] \in StreamFrame
    BY Taken, Zenon
  <1> QED
    BY <1>1, Zenon DEF StreamFrame

\* The DATA frames of stream w in a queue, the same among those a stream has got.
InQueue(q, w) == {i \in 1 .. Len(q) : q[i].flag = "DATA" /\ q[i].from = w}
InGot(g, w) == {i \in 1 .. Len(g) : g[i][1] = w}

\* What was got and what is queued is what w wrote from some frame on up to hi, in
\* order and without a duplicate.
Rising(g, q, w) ==
    /\ \A i, j \in InGot(g, w) : i < j => g[i][2] < g[j][2]
    /\ \A i, j \in InQueue(q, w) : i < j => q[i].num < q[j].num
    /\ \A i \in InGot(g, w), j \in InQueue(q, w) : g[i][2] < q[j].num
Carried(g, q, w) == {g[i][2] : i \in InGot(g, w)} \cup {q[i].num : i \in InQueue(q, w)}
Whole(g, q, w, hi) ==
    Rising(g, q, w) /\ \E first \in 1 .. (hi + 1) : Carried(g, q, w) = first .. hi

\* A new stream has written nothing.
LEMMA WholeNothing ==
    ASSUME NEW g, NEW q, NEW w, InGot(g, w) = {}, InQueue(q, w) = {}
    PROVE  Whole(g, q, w, 0)
  <1>1. Carried(g, q, w) = 1 .. 0
    BY DEF Carried
  <1> QED
    BY <1>1 DEF Whole, Rising

\* w writes the next frame.
LEMMA WholeWrite ==
    ASSUME NEW g \in Seq(Nat \X Nat), NEW q \in Seq(StreamFrame), NEW w \in Nat, NEW hi \in Nat,
           NEW f \in StreamFrame, f.flag = "DATA", f.from = w, f.num = hi + 1, Whole(g, q, w, hi)
    PROVE  Whole(g, Append(q, f), w, hi + 1)
  <1> DEFINE p == Append(q, f)
  <1>1. /\ p \in Seq(StreamFrame) /\ Len(q) \in Nat /\ Len(p) = Len(q) + 1
        /\ \A i \in 1 .. Len(q) : p[i] = q[i]
        /\ p[Len(q) + 1] = f
    BY Appended, Zenon
  <1> HIDE DEF p
  <1>2. InQueue(p, w) = InQueue(q, w) \cup {Len(q) + 1}
    <2>1. \A i : i \in 1 .. Len(p) <=> i \in 1 .. Len(q) \/ i = Len(q) + 1
      BY <1>1
    <2>2. p[Len(q) + 1].flag = "DATA" /\ p[Len(q) + 1].from = w
      BY <1>1, Zenon
    <2>3. \A i : i \in InQueue(p, w) <=> i \in InQueue(q, w) \/ i = Len(q) + 1
      BY <1>1, <2>1, <2>2, Zenon DEF InQueue
    <2> QED
      BY <2>3, Zenon
  <1>3. \A i \in InQueue(q, w) : i \in 1 .. Len(q) /\ p[i] = q[i]
    BY <1>1, Zenon DEF InQueue
  <1>4. Carried(g, p, w) = Carried(g, q, w) \cup {hi + 1}
    <2>1. p[Len(q) + 1].num = hi + 1
      BY <1>1, Zenon
    <2>2. {p[i].num : i \in InQueue(p, w)} = {q[i].num : i \in InQueue(q, w)} \cup {hi + 1}
      BY <1>2, <1>3, <2>1, Zenon
    <2> QED
      BY <2>2, Zenon DEF Carried
  <1>5. PICK first \in 1 .. (hi + 1) : Carried(g, q, w) = first .. hi
    BY Zenon DEF Whole
  <1>6. \A x \in Carried(g, q, w) : x <= hi
    BY <1>5
  <1>7. /\ \A i \in InGot(g, w) : g[i][2] < hi + 1 /\ g[i][2] \in Nat
        /\ \A i \in InQueue(q, w) : q[i].num < hi + 1 /\ q[i].num \in Nat
    <2>1. /\ \A i \in InGot(g, w) : g[i][2] \in Carried(g, q, w)
          /\ \A i \in InQueue(q, w) : q[i].num \in Carried(g, q, w)
      BY Zenon DEF Carried
    <2> QED
      BY <1>5, <2>1
  <1>8. Rising(g, p, w)
    <2>1. p[Len(q) + 1].num = hi + 1
      BY <1>1, Zenon
    <2>2. ASSUME NEW i \in InQueue(p, w), NEW j \in InQueue(p, w), i < j
          PROVE  p[i].num < p[j].num
      <3>1. CASE j \in InQueue(q, w)
        <4>1. i \in InQueue(q, w)
          BY <1>1, <1>2, <1>3, <2>2, <3>1
        <4> QED
          BY <1>3, <2>2, <3>1, <4>1, Zenon DEF Whole, Rising
      <3>2. CASE j = Len(q) + 1
        <4>1. i \in InQueue(q, w)
          BY <1>1, <1>2, <2>2, <3>2
        <4> QED
          BY <1>3, <1>7, <2>1, <3>2, <4>1, Zenon
      <3> QED
        BY <1>2, <3>1, <3>2, Zenon
    <2>3. ASSUME NEW i \in InGot(g, w), NEW j \in InQueue(p, w)
          PROVE  g[i][2] < p[j].num
      <3>1. CASE j \in InQueue(q, w)
        BY <1>3, <2>3, <3>1, Zenon DEF Whole, Rising
      <3>2. CASE j = Len(q) + 1
        BY <1>7, <2>1, <2>3, <3>2, Zenon
      <3> QED
        BY <1>2, <3>1, <3>2, Zenon
    <2> QED
      BY <2>2, <2>3, Zenon DEF Whole, Rising
  <1>9. Carried(g, p, w) = first .. (hi + 1) /\ first \in 1 .. (hi + 1 + 1)
    BY <1>4, <1>5
  <1> QED
    BY <1>8, <1>9, Zenon DEF Whole, p

\* A frame of another kind, or of another stream, is sent.
LEMMA WholeOther ==
    ASSUME NEW g, NEW q \in Seq(StreamFrame), NEW w, NEW hi,
           NEW f \in StreamFrame, f.flag # "DATA" \/ f.from # w, Whole(g, q, w, hi)
    PROVE  Whole(g, Append(q, f), w, hi)
  <1> DEFINE p == Append(q, f)
  <1>1. /\ Len(q) \in Nat /\ Len(p) = Len(q) + 1
        /\ \A i \in 1 .. Len(q) : p[i] = q[i]
        /\ p[Len(q) + 1] = f
    BY Appended
  <1> HIDE DEF p
  <1>2. InQueue(p, w) = InQueue(q, w) /\ \A i \in InQueue(q, w) : p[i] = q[i]
    BY <1>1 DEF InQueue
  <1>3. Carried(g, p, w) = Carried(g, q, w)
    BY <1>2, Zenon DEF Carried
  <1>4. Rising(g, p, w)
    BY <1>2, Zenon DEF Whole, Rising
  <1> QED
    BY <1>3, <1>4, Zenon DEF Whole, p

\* Where the DATA frames of w are once the first frame is taken.
LEMMA QueueShifts ==
    ASSUME NEW q \in Seq(StreamFrame), q # <<>>, NEW w
    PROVE  /\ \A i \in InQueue(Tail(q), w) : i + 1 \in InQueue(q, w) /\ Tail(q)[i] = q[i + 1] /\ i \in Nat
           /\ \A i \in InQueue(q, w) : i # 1 => i - 1 \in InQueue(Tail(q), w) /\ Tail(q)[i - 1] = q[i]
           /\ 1 \in InQueue(q, w) <=> Head(q).flag = "DATA" /\ Head(q).from = w
           /\ InQueue(q, w) \subseteq Nat \ {0}
  <1>1. /\ Len(q) \in Nat \ {0} /\ Len(Tail(q)) = Len(q) - 1
        /\ \A i \in 1 .. (Len(q) - 1) : Tail(q)[i] = q[i + 1]
        /\ Head(q) = q[1]
    BY Taken, Zenon
  <1> QED
    BY <1>1 DEF InQueue

\* Another frame is taken.
LEMMA WholeSkip ==
    ASSUME NEW g, NEW q \in Seq(StreamFrame), q # <<>>, NEW w, NEW hi,
           Head(q).flag # "DATA" \/ Head(q).from # w, Whole(g, q, w, hi)
    PROVE  Whole(g, Tail(q), w, hi)
  <1> DEFINE p == Tail(q)
  <1>1. /\ \A i \in InQueue(p, w) : i + 1 \in InQueue(q, w) /\ p[i] = q[i + 1] /\ i \in Nat
        /\ \A i \in InQueue(q, w) : i - 1 \in InQueue(p, w) /\ p[i - 1] = q[i]
    <2>1. 1 \notin InQueue(q, w)
      BY QueueShifts, Zenon
    <2> QED
      BY <2>1, QueueShifts, Zenon
  <1> HIDE DEF p
  <1>2. {p[i].num : i \in InQueue(p, w)} = {q[i].num : i \in InQueue(q, w)}
    <2>1. \A i \in InQueue(p, w) : \E j \in InQueue(q, w) : p[i].num = q[j].num
      BY <1>1, Zenon
    <2>2. \A j \in InQueue(q, w) : \E i \in InQueue(p, w) : p[i].num = q[j].num
      BY <1>1, Zenon
    <2> QED
      BY <2>1, <2>2
  <1>3. Carried(g, p, w) = Carried(g, q, w)
    BY <1>2, Zenon DEF Carried
  <1>4. Rising(g, p, w)
    <2>1. ASSUME NEW i \in InQueue(p, w), NEW j \in InQueue(p, w), i < j
          PROVE  p[i].num < p[j].num
      <3>1. i + 1 < j + 1
        BY <1>1, <2>1
      <3> QED
        BY <1>1, <2>1, <3>1, Zenon DEF Whole, Rising
    <2>2. ASSUME NEW i \in InGot(g, w), NEW j \in InQueue(p, w)
          PROVE  g[i][2] < p[j].num
      BY <1>1, <2>2, Zenon DEF Whole, Rising
    <2> QED
      BY <2>1, <2>2, Zenon DEF Whole, Rising
  <1> QED
    BY <1>3, <1>4, Zenon DEF Whole, p

\* The first frame is of w and is got, or a frame of another stream is.
LEMMA WholeTake ==
    ASSUME NEW g \in Seq(Nat \X Nat), NEW q \in Seq(StreamFrame), q # <<>>, NEW w \in Nat,
           NEW hi \in Nat, 1 \in InQueue(q, w), Whole(g, q, w, hi)
    PROVE  Whole(Append(g, <<w, Head(q).num>>), Tail(q), w, hi)
  <1> DEFINE p == Tail(q)
             x == Head(q).num
             h == Append(g, <<w, x>>)
  <1>1. /\ \A i \in InQueue(p, w) : i + 1 \in InQueue(q, w) /\ p[i] = q[i + 1] /\ i \in Nat
        /\ \A i \in InQueue(q, w) : i # 1 => i - 1 \in InQueue(p, w) /\ p[i - 1] = q[i]
        /\ 1 \in InQueue(q, w) /\ InQueue(q, w) \subseteq Nat \ {0}
    BY QueueShifts, Zenon
  <1>2. q[1].num = x /\ x \in Nat
    BY FrameTaken, Zenon
  <1>3. /\ Len(g) \in Nat /\ Len(h) = Len(g) + 1 /\ h[Len(g) + 1] = <<w, x>>
        /\ \A i \in 1 .. Len(g) : h[i] = g[i]
    <2>1. <<w, x>> \in Nat \X Nat
      BY <1>2, Zenon
    <2> QED
      BY <2>1, Appended
  <1> HIDE DEF p, x, h
  <1>4. /\ InGot(h, w) = InGot(g, w) \cup {Len(g) + 1} /\ h[Len(g) + 1][2] = x
        /\ \A i \in InGot(g, w) : i \in 1 .. Len(g) /\ h[i] = g[i]
    <2>1. \A i : i \in 1 .. Len(h) <=> i \in 1 .. Len(g) \/ i = Len(g) + 1
      BY <1>3
    <2>2. h[Len(g) + 1][1] = w /\ h[Len(g) + 1][2] = x
      BY <1>3
    <2>3. Len(g) + 1 \in InGot(h, w)
      BY <1>3, <2>1, <2>2, Zenon DEF InGot
    <2>4. \A i \in 1 .. Len(g) : i \in InGot(h, w) <=> i \in InGot(g, w)
      BY <1>3, <2>1, Zenon DEF InGot
    <2>5. InGot(h, w) \subseteq 1 .. Len(h) /\ InGot(g, w) \subseteq 1 .. Len(g)
      BY Zenon DEF InGot
    <2>6. \A i : i \in InGot(h, w) <=> i \in InGot(g, w) \/ i = Len(g) + 1
      BY <2>1, <2>3, <2>4, <2>5, Zenon
    <2> QED
      BY <1>3, <2>2, <2>5, <2>6, Zenon
  <1>5. {p[i].num : i \in InQueue(p, w)} \cup {x} = {q[i].num : i \in InQueue(q, w)}
    <2>1. \A i \in InQueue(p, w) : p[i].num \in {q[j].num : j \in InQueue(q, w)}
      BY <1>1, Zenon
    <2>2. \A i \in InQueue(q, w) : q[i].num \in {p[j].num : j \in InQueue(p, w)} \cup {x}
      BY <1>1, <1>2, Zenon
    <2>3. x \in {q[j].num : j \in InQueue(q, w)}
      BY <1>1, <1>2, Zenon
    <2> QED
      BY <2>1, <2>2, <2>3, Zenon
  <1>6. {h[i][2] : i \in InGot(h, w)} = {g[i][2] : i \in InGot(g, w)} \cup {x}
    <2>1. \A i \in InGot(h, w) : h[i][2] \in {g[j][2] : j \in InGot(g, w)} \cup {x}
      BY <1>4, Zenon
    <2>2. \A i \in InGot(g, w) : g[i][2] \in {h[j][2] : j \in InGot(h, w)}
      BY <1>4, Zenon
    <2>3. x \in {h[j][2] : j \in InGot(h, w)}
      BY <1>4, Zenon
    <2> QED
      BY <2>1, <2>2, <2>3, Zenon
  <1>7. Carried(h, p, w) = Carried(g, q, w)
    BY <1>5, <1>6, Zenon DEF Carried
  <1>8. \A i \in InGot(g, w) : g[i][2] < x
    BY <1>1, <1>2, Zenon DEF Whole, Rising
  <1>9. \A j \in InQueue(p, w) : x < p[j].num
    <2> SUFFICES ASSUME NEW j \in InQueue(p, w)
                 PROVE  x < p[j].num
      BY Zenon
    <2>1. j + 1 \in InQueue(q, w) /\ 1 < j + 1 /\ p[j] = q[j + 1]
      <3>1. j + 1 \in InQueue(q, w) /\ j \in Nat /\ p[j] = q[j + 1]
        BY <1>1, Zenon
      <3>2. j # 0
        BY DEF InQueue
      <3> QED
        BY <3>1, <3>2
    <2> QED
      BY <1>1, <1>2, <2>1, Zenon DEF Whole, Rising
  <1>10. Rising(h, p, w)
    <2>1. ASSUME NEW i \in InQueue(p, w), NEW j \in InQueue(p, w), i < j
          PROVE  p[i].num < p[j].num
      <3>1. i + 1 < j + 1
        BY <1>1, <2>1
      <3> QED
        BY <1>1, <2>1, <3>1, Zenon DEF Whole, Rising
    <2>2. ASSUME NEW i \in InGot(h, w), NEW j \in InGot(h, w), i < j
          PROVE  h[i][2] < h[j][2]
      <3>1. CASE j \in InGot(g, w)
        <4>1. i \in InGot(g, w)
          BY <1>3, <1>4, <2>2, <3>1
        <4> QED
          BY <1>4, <2>2, <3>1, <4>1, Zenon DEF Whole, Rising
      <3>2. CASE j = Len(g) + 1
        <4>1. i \in InGot(g, w)
          BY <1>3, <1>4, <2>2, <3>2
        <4> QED
          BY <1>4, <1>8, <3>2, <4>1, Zenon
      <3> QED
        BY <1>4, <3>1, <3>2, Zenon
    <2>3. ASSUME NEW i \in InGot(h, w), NEW j \in InQueue(p, w)
          PROVE  h[i][2] < p[j].num
      <3>1. CASE i \in InGot(g, w)
        BY <1>1, <1>4, <2>3, <3>1, Zenon DEF Whole, Rising
      <3>2. CASE i = Len(g) + 1
        BY <1>4, <1>9, <2>3, <3>2, Zenon
      <3> QED
        BY <1>4, <3>1, <3>2, Zenon
    <2> QED
      BY <2>1, <2>2, <2>3, Zenon DEF Rising
  <1> QED
    BY <1>7, <1>10, Zenon DEF Whole, p, h, x

LEMMA WholeTakeOther ==
    ASSUME NEW g \in Seq(Nat \X Nat), NEW q, NEW w \in Nat, NEW v \in Nat, NEW x \in Nat, v # w,
           NEW hi, Whole(g, q, w, hi)
    PROVE  Whole(Append(g, <<v, x>>), q, w, hi)
  <1> DEFINE h == Append(g, <<v, x>>)
  <1>1. /\ Len(g) \in Nat /\ Len(h) = Len(g) + 1 /\ h[Len(g) + 1] = <<v, x>>
        /\ \A i \in 1 .. Len(g) : h[i] = g[i]
    BY Appended
  <1> HIDE DEF h
  <1>2. InGot(h, w) = InGot(g, w) /\ \A i \in InGot(g, w) : h[i] = g[i]
    <2>1. \A i : i \in 1 .. Len(h) <=> i \in 1 .. Len(g) \/ i = Len(g) + 1
      BY <1>1
    <2>2. h[Len(g) + 1][1] # w
      BY <1>1
    <2> QED
      BY <1>1, <2>1, <2>2, Zenon DEF InGot
  <1>3. Carried(h, q, w) = Carried(g, q, w) /\ Rising(h, q, w)
    <2>1. {h[i][2] : i \in InGot(h, w)} = {g[i][2] : i \in InGot(g, w)}
      BY <1>2, Zenon
    <2> QED
      <3>1. Carried(h, q, w) = Carried(g, q, w)
        BY <2>1, Zenon DEF Carried
      <3>2. Rising(h, q, w)
        <4>1. ASSUME NEW i \in InGot(h, w), NEW j \in InGot(h, w), i < j
              PROVE  h[i][2] < h[j][2]
          <5>1. i \in InGot(g, w) /\ j \in InGot(g, w) /\ h[i] = g[i] /\ h[j] = g[j]
            BY <1>2, <4>1, Zenon
          <5> QED
            BY <4>1, <5>1, Zenon DEF Whole, Rising
        <4>2. ASSUME NEW i \in InGot(h, w), NEW j \in InQueue(q, w)
              PROVE  h[i][2] < q[j].num
          <5>1. i \in InGot(g, w) /\ h[i] = g[i]
            BY <1>2, <4>2, Zenon
          <5> QED
            BY <4>2, <5>1, Zenon DEF Whole, Rising
        <4> QED
          BY <4>1, <4>2, Zenon DEF Whole, Rising
      <3> QED
        BY <3>1, <3>2, Zenon
  <1> QED
    BY <1>3, Zenon DEF Whole, h

\* The first frame of w is dropped while nothing has been got.
LEMMA WholeDrop ==
    ASSUME NEW q \in Seq(StreamFrame), q # <<>>, NEW w \in Nat, NEW hi \in Nat, Whole(<<>>, q, w, hi)
    PROVE  Whole(<<>>, Tail(q), w, hi)
  <1>1. CASE ~(Head(q).flag = "DATA" /\ Head(q).from = w)
    BY <1>1, WholeSkip, Zenon
  <1>2. CASE Head(q).flag = "DATA" /\ Head(q).from = w
    <2> DEFINE p == Tail(q)
               x == Head(q).num
    <2>1. /\ \A i \in InQueue(p, w) : i + 1 \in InQueue(q, w) /\ p[i] = q[i + 1] /\ i \in Nat
          /\ \A i \in InQueue(q, w) : i # 1 => i - 1 \in InQueue(p, w) /\ p[i - 1] = q[i]
          /\ 1 \in InQueue(q, w) /\ InQueue(q, w) \subseteq Nat \ {0}
      <3>1. 1 \in InQueue(q, w)
        BY <1>2, QueueShifts, Zenon
      <3> QED
        BY <3>1, QueueShifts, Zenon
    <2>2. q[1].num = x /\ x \in Nat
      BY FrameTaken, Zenon
    <2>3. InGot(<<>>, w) = {}
      BY DEF InGot
    <2> HIDE DEF p, x
    <2>4. \A i \in InQueue(q, w) : q[i].num >= x /\ (i # 1 => q[i].num > x)
      <3>1. \A i \in InQueue(q, w) : i # 1 => 1 < i
        BY <2>1
      <3>2. \A i \in InQueue(q, w) : q[i].num \in Nat
        <4>1. \A i \in InQueue(q, w) : q[i] \in StreamFrame
          BY DEF InQueue
        <4> QED
          BY <4>1, Zenon DEF StreamFrame
      <3> QED
        BY <2>1, <2>2, <3>1, <3>2 DEF Whole, Rising
    <2>5. PICK first \in 1 .. (hi + 1) : Carried(<<>>, q, w) = first .. hi
      BY Zenon DEF Whole
    <2>6. Carried(<<>>, q, w) = {q[i].num : i \in InQueue(q, w)}
      BY <2>3, Zenon DEF Carried
    <2>7. Carried(<<>>, p, w) = {p[i].num : i \in InQueue(p, w)}
      BY <2>3, Zenon DEF Carried
    <2>8. Carried(<<>>, p, w) = Carried(<<>>, q, w) \ {x}
      <3>1. ASSUME NEW i \in InQueue(p, w)
            PROVE  p[i].num \in Carried(<<>>, q, w) \ {x}
        <4>1. i + 1 \in InQueue(q, w) /\ p[i] = q[i + 1] /\ i + 1 # 1
          <5>1. i # 0
            BY DEF InQueue
          <5> QED
            BY <2>1, <3>1, <5>1
        <4>2. q[i + 1].num > x
          BY <2>4, <4>1, Zenon
        <4> QED
          BY <2>2, <2>6, <4>1, <4>2
      <3>2. ASSUME NEW i \in InQueue(q, w), q[i].num # x
            PROVE  q[i].num \in {p[j].num : j \in InQueue(p, w)}
        <4>1. i - 1 \in InQueue(p, w) /\ p[i - 1] = q[i]
          BY <2>1, <2>2, <3>2, Zenon
        <4> QED
          BY <4>1, Zenon
      <3> QED
        BY <2>6, <2>7, <3>1, <3>2, Zenon
    <2>9. first = x /\ x \in first .. hi
      <3>1. x \in first .. hi
        BY <2>1, <2>2, <2>5, <2>6, Zenon
      <3>2. first \in Carried(<<>>, q, w)
        BY <2>5, <3>1
      <3>3. first >= x
        BY <2>4, <2>6, <3>2, Zenon
      <3> QED
        BY <2>5, <3>1, <3>3
    <2>10. Carried(<<>>, p, w) = (x + 1) .. hi /\ x + 1 \in 1 .. (hi + 1)
      <3>1. first \in Nat /\ hi \in Nat
        BY <2>5
      <3>2. (first .. hi) \ {first} = (first + 1) .. hi
        BY <3>1
      <3> QED
        <4>1. Carried(<<>>, p, w) = (x + 1) .. hi
          BY <2>5, <2>8, <2>9, <3>2, Zenon
        <4>2. x + 1 \in 1 .. (hi + 1)
          BY <2>9, <3>1
        <4> QED
          BY <4>1, <4>2, Zenon
    <2>11. Rising(<<>>, p, w)
      <3>1. ASSUME NEW i \in InQueue(p, w), NEW j \in InQueue(p, w), i < j
            PROVE  p[i].num < p[j].num
        <4>1. i + 1 < j + 1
          BY <2>1, <3>1
        <4> QED
          BY <2>1, <3>1, <4>1, Zenon DEF Whole, Rising
      <3> QED
        BY <2>3, <3>1, Zenon DEF Rising
    <2> QED
      BY <2>10, <2>11, Zenon DEF Whole, p
  <1> QED
    BY <1>1, <1>2, Zenon

-----------------------------------------------------------------------------
\* What the operations do to one stream object

\* A Read that waits has nothing to return.
Awake(o) == o.reader = "waits" => ~o.rxBuf /\ ~o.reset /\ (o.closed => o.local)

\* The object stays who it is; at most it leaves its manager.
Evolves(a, b) == b \in Object /\ b.id = a.id /\ b.mgr \in {a.mgr, 0} /\ (Awake(a) => Awake(b))

\* It neither gets nor writes anything.
Still(a, b) == Evolves(a, b) /\ b.got = a.got /\ b.wrote = a.wrote

LEMMA Stays ==
    ASSUME NEW a \in Object
    PROVE  Still(a, a)
  BY Zenon DEF Still, Evolves, Object

LEMMA Unmapped ==
    ASSUME NEW a, NEW b \in Object, Still(a, b)
    PROVE  Still(a, [b EXCEPT !.mgr = 0])
  BY Zenon DEF Still, Evolves, Object, Awake

LEMMA ReadStill ==
    ASSUME NEW a \in Object
    PROVE  Still(a, ReadOf(a))
  BY Zenon DEF Still, Evolves, Object, Awake, ReadOf

LEMMA WriteEvolves ==
    ASSUME NEW a \in Object
    PROVE  LET b == [a EXCEPT !.wrote = @ + 1]
           IN  Evolves(a, b) /\ b.got = a.got /\ b.wrote = a.wrote + 1
  BY DEF Evolves, Object, Awake

LEMMA CloseStill ==
    ASSUME NEW a \in Object
    PROVE  Still(a, [a EXCEPT !.closed = TRUE, !.local = TRUE])
  BY Zenon DEF Still, Evolves, Object, Awake

LEMMA BroadcastStill ==
    ASSUME NEW a \in Object
    PROVE  /\ Broadcast(a) \in Object /\ Broadcast(a).reader # "waits"
           /\ Broadcast(a).id = a.id /\ Broadcast(a).mgr = a.mgr
           /\ Broadcast(a).got = a.got /\ Broadcast(a).wrote = a.wrote
  BY Zenon DEF Broadcast, Object

LEMMA ResetStill ==
    ASSUME NEW a \in Object
    PROVE  Still(a, Broadcast([a EXCEPT !.reset = TRUE, !.rxBuf = FALSE]))
  <1> DEFINE b == [a EXCEPT !.reset = TRUE, !.rxBuf = FALSE]
  <1>1. b \in Object /\ b.id = a.id /\ b.mgr = a.mgr /\ b.got = a.got /\ b.wrote = a.wrote
    BY Zenon DEF Object
  <1> HIDE DEF b
  <1>2. Still(a, Broadcast(b))
    BY <1>1, BroadcastStill, Zenon DEF Still, Evolves, Awake
  <1> QED
    BY <1>2, Zenon DEF b

\* Of the frames, DATA alone leaves something with the stream.
LEMMA DispatchedStill ==
    ASSUME NEW a \in Object, NEW f, f.flag \in {"CLOSE", "RESET"}
    PROVE  Still(a, Dispatched(a, f))
  <1>1. CASE f.flag = "RESET"
    BY <1>1, ResetStill, Zenon DEF Dispatched
  <1>2. CASE f.flag = "CLOSE"
    <2> DEFINE b == [a EXCEPT !.closed = TRUE]
    <2>1. b \in Object /\ b.id = a.id /\ b.mgr = a.mgr /\ b.got = a.got /\ b.wrote = a.wrote
      BY Zenon DEF Object
    <2>2. Dispatched(a, f) = Broadcast(b)
      BY <1>2, Zenon DEF Dispatched
    <2> HIDE DEF b
    <2> QED
      BY <2>1, <2>2, BroadcastStill, Zenon DEF Still, Evolves, Awake
  <1> QED
    BY <1>1, <1>2, Zenon

LEMMA DispatchedGets ==
    ASSUME NEW a \in Object, NEW f \in StreamFrame, f.flag = "DATA"
    PROVE  /\ Evolves(a, Dispatched(a, f))
           /\ Dispatched(a, f).wrote = a.wrote
           /\ Dispatched(a, f).got = Append(a.got, <<f.from, f.num>>)
  <1> DEFINE b == [a EXCEPT !.rxBuf = TRUE, !.got = Append(@, <<f.from, f.num>>)]
  <1>1. <<f.from, f.num>> \in Nat \X Nat /\ a.got \in Seq(Nat \X Nat)
    BY Zenon DEF Object, StreamFrame
  <1>2. Append(a.got, <<f.from, f.num>>) \in Seq(Nat \X Nat)
    BY <1>1, Appended, Zenon
  <1>3. /\ b \in Object /\ b.id = a.id /\ b.mgr = a.mgr /\ b.wrote = a.wrote
        /\ b.got = Append(a.got, <<f.from, f.num>>)
    BY <1>2, Zenon DEF Object
  <1>4. Dispatched(a, f) = Broadcast(b)
    BY Zenon DEF Dispatched
  <1> HIDE DEF b
  <1> QED
    BY <1>3, <1>4, BroadcastStill, Zenon DEF Evolves, Awake

\* A stream begins with nothing got or written.
Begins(o) == o \in Object /\ o.got = <<>> /\ o.wrote = 0 /\ Awake(o)

LEMMA NewBegins ==
    ASSUME NEW id \in Nat, NEW g \in Nat, NEW opened \in BOOLEAN
    PROVE  /\ Begins(newStream(id, g, opened))
           /\ newStream(id, g, opened).id = id /\ newStream(id, g, opened).mgr = g
  BY DEF Begins, Object, Awake, newStream

-----------------------------------------------------------------------------
\* What a step does to the objects of a node

LEMMA Peers ==
    ASSUME NEW n \in Nodes
    PROVE  /\ Peer(n) \in Nodes /\ Peer(n) # n /\ Peer(Peer(n)) = n
           /\ \A m \in Nodes : m = n \/ m = Peer(n)
  BY Zenon DEF Nodes, Peer

StreamTypes ==
    /\ obj \in [Nodes -> Seq(Object)]
    /\ allocated \in [Nodes -> Seq(Nat)] /\ managed \in [Nodes -> BOOLEAN]
    /\ opening \in [Nodes -> Nat]
    /\ net \in [Nodes -> Seq(StreamFrame)] /\ refusals \in [Nodes -> SUBSET Nat]
    /\ \A n \in Nodes :
         /\ opening[n] <= Len(allocated[n])
         /\ managed[n] => Len(allocated[n]) > 0
         /\ \A k \in 1 .. Len(obj[n]) : obj[n][k].mgr <= Len(allocated[n]) /\ Awake(obj[n][k])

\* The objects of n evolve, and those that are new begin; the peer's are left alone.
ObjStep(n) ==
    /\ obj' \in [Nodes -> Seq(Object)] /\ obj'[Peer(n)] = obj[Peer(n)]
    /\ Len(obj[n]) <= Len(obj'[n])
    /\ \A k \in 1 .. Len(obj[n]) : Evolves(obj[n][k], obj'[n][k])
    /\ \A k \in 1 .. Len(obj'[n]) : k > Len(obj[n]) =>
          Begins(obj'[n][k]) /\ obj'[n][k].mgr <= Len(allocated'[n])

\* No object of n gets or writes anything.
QuietStep(n) ==
    ObjStep(n) /\ \A k \in 1 .. Len(obj[n]) : Still(obj[n][k], obj'[n][k])

LEMMA SequenceOf ==
    ASSUME NEW S, NEW m \in Nat, NEW h \in [1 .. m -> S]
    PROVE  h \in Seq(S) /\ Len(h) = m
  OBVIOUS

LEMMA ObjectAt ==
    ASSUME StreamTypes, NEW n \in Nodes
    PROVE  /\ obj[n] \in Seq(Object) /\ Len(obj[n]) \in Nat /\ DOMAIN obj[n] = 1 .. Len(obj[n])
           /\ \A k \in 1 .. Len(obj[n]) : obj[n][k] \in Object
  <1>1. obj[n] \in Seq(Object)
    BY Zenon DEF StreamTypes
  <1> QED
    BY <1>1

LEMMA Untouched ==
    ASSUME StreamTypes, obj' = obj, NEW n \in Nodes
    PROVE  QuietStep(n)
  <1>1. obj \in [Nodes -> Seq(Object)]
    BY Zenon DEF StreamTypes
  <1>2. \A k \in 1 .. Len(obj[n]) : Still(obj[n][k], obj[n][k])
    BY ObjectAt, Stays, Zenon
  <1>3. Len(obj[n]) \in Nat
    BY ObjectAt, Zenon
  <1> QED
    BY <1>1, <1>2, <1>3 DEF QuietStep, ObjStep, Still

\* Every object of n becomes what h says.
LEMMA Mapped ==
    ASSUME StreamTypes, NEW n \in Nodes, NEW h, DOMAIN h = 1 .. Len(obj[n]),
           h = [k \in DOMAIN h |-> h[k]],
           \A k \in 1 .. Len(obj[n]) : Evolves(obj[n][k], h[k]),
           obj' = [obj EXCEPT ![n] = h]
    PROVE  ObjStep(n) /\ obj'[n] = h /\ Len(h) = Len(obj[n])
  <1>1. obj \in [Nodes -> Seq(Object)] /\ Len(obj[n]) \in Nat
    BY ObjectAt, Zenon DEF StreamTypes
  <1>2. \A k \in 1 .. Len(obj[n]) : h[k] \in Object
    BY Zenon DEF Evolves
  <1>3. h \in [1 .. Len(obj[n]) -> Object]
    BY <1>2, Zenon
  <1>4. h \in Seq(Object) /\ Len(h) = Len(obj[n])
    BY <1>1, <1>3, SequenceOf, Zenon
  <1>5. obj' \in [Nodes -> Seq(Object)] /\ obj'[Peer(n)] = obj[Peer(n)] /\ obj'[n] = h
    BY <1>1, <1>4, Peers, Zenon
  <1> QED
    BY <1>1, <1>4, <1>5 DEF ObjStep

\* And then one object is added.
LEMMA Added ==
    ASSUME StreamTypes, NEW n \in Nodes, NEW h, NEW o, DOMAIN h = 1 .. Len(obj[n]),
           h = [k \in DOMAIN h |-> h[k]],
           \A k \in 1 .. Len(obj[n]) : Still(obj[n][k], h[k]),
           Begins(o), o.mgr <= Len(allocated'[n]),
           obj' = [obj EXCEPT ![n] = Append(h, o)]
    PROVE  /\ QuietStep(n) /\ Len(obj'[n]) = Len(obj[n]) + 1 /\ obj'[n][Len(obj[n]) + 1] = o
           /\ \A k \in 1 .. Len(obj[n]) : obj'[n][k] = h[k]
  <1>1. obj \in [Nodes -> Seq(Object)] /\ Len(obj[n]) \in Nat
    BY ObjectAt, Zenon DEF StreamTypes
  <1>2. \A k \in 1 .. Len(obj[n]) : h[k] \in Object
    BY Zenon DEF Still, Evolves
  <1>3. h \in [1 .. Len(obj[n]) -> Object]
    BY <1>2, Zenon
  <1>4. h \in Seq(Object) /\ Len(h) = Len(obj[n]) /\ o \in Object
    BY <1>1, <1>3, SequenceOf, Zenon DEF Begins
  <1> DEFINE a == Append(h, o)
  <1>5. /\ a \in Seq(Object) /\ Len(a) = Len(obj[n]) + 1 /\ a[Len(obj[n]) + 1] = o
        /\ \A k \in 1 .. Len(obj[n]) : a[k] = h[k]
    BY <1>4, Appended
  <1> HIDE DEF a
  <1>6. obj' \in [Nodes -> Seq(Object)] /\ obj'[Peer(n)] = obj[Peer(n)] /\ obj'[n] = a
    BY <1>1, <1>5, Peers, Zenon DEF a
  <1>7. \A k \in 1 .. Len(a) : k > Len(obj[n]) => k = Len(obj[n]) + 1
    BY <1>1, <1>5
  <1>8. \A k \in 1 .. Len(obj[n]) : Still(obj[n][k], a[k])
    BY <1>5, Zenon
  <1>9. \A k \in 1 .. Len(a) : k > Len(obj[n]) => Begins(a[k]) /\ a[k].mgr <= Len(allocated'[n])
    BY <1>5, <1>7, Zenon
  <1> QED
    BY <1>1, <1>5, <1>6, <1>8, <1>9 DEF QuietStep, ObjStep, Still

\* One object becomes o.
LEMMA OneBecomes ==
    ASSUME StreamTypes, NEW n \in Nodes, NEW j \in 1 .. Len(obj[n]), NEW o,
           Evolves(obj[n][j], o), Becomes(n, j, o)
    PROVE  /\ ObjStep(n) /\ Len(obj'[n]) = Len(obj[n]) /\ obj'[n][j] = o
           /\ \A k \in 1 .. Len(obj[n]) : k # j => obj'[n][k] = obj[n][k]
  <1> DEFINE h == [obj[n] EXCEPT ![j] = o]
  <1>1. obj' = [obj EXCEPT ![n] = h]
    BY Zenon DEF Becomes
  <1>2. /\ DOMAIN h = 1 .. Len(obj[n]) /\ h = [k \in DOMAIN h |-> h[k]]
        /\ h[j] = o /\ \A k \in 1 .. Len(obj[n]) : k # j => h[k] = obj[n][k]
    BY ObjectAt, Zenon
  <1> HIDE DEF h
  <1>3. \A k \in 1 .. Len(obj[n]) : Evolves(obj[n][k], h[k])
    BY <1>2, ObjectAt, Stays, Zenon DEF Still
  <1>4. ObjStep(n) /\ obj'[n] = h /\ Len(h) = Len(obj[n])
    BY <1>1, <1>2, <1>3, Mapped, Zenon
  <1> QED
    BY <1>2, <1>4, Zenon

-----------------------------------------------------------------------------
\* What a step does to the managers and to the frames under way

\* Managers and ids are only added, and a manager that comes into pmap is above
\* all there were.
MgrStep ==
    /\ allocated' \in [Nodes -> Seq(Nat)] /\ managed' \in [Nodes -> BOOLEAN]
    /\ \A m \in Nodes :
         /\ Len(allocated[m]) <= Len(allocated'[m])
         /\ \A g \in 1 .. Len(allocated[m]) : allocated[m][g] <= allocated'[m][g]
         /\ managed'[m] => Len(allocated'[m]) > 0
         /\ managed'[m] /\ managed[m] => Len(allocated'[m]) = Len(allocated[m])
         /\ managed'[m] /\ ~managed[m] => Len(allocated'[m]) > Len(allocated[m])

\* The manager an OpenStream holds is in use; what was created after it has
\* allocated nothing.
OpeningOK(op, al) ==
    /\ op \in [Nodes -> Nat]
    /\ \A m \in Nodes :
         /\ op[m] <= Len(al[m])
         /\ op[m] # 0 => \A g \in 1 .. Len(al[m]) : g > op[m] => al[m][g] = 0

\* An id is one of those that allocID of some node has given away.
Given(al, id) ==
    \E m \in Nodes : \E g \in 1 .. Len(al[m]) : \E j \in Nat :
       j < al[m][g] /\ id = 2 * j + IF m = "lo" THEN 1 ELSE 0

\* A DATA frame carries the id of the stream that wrote it.
Linked(s, f) == f.flag = "DATA" => f.from \in 1 .. Len(s) /\ f.id = s[f.from].id

LinksOK(ob, nt) ==
    /\ nt \in [Nodes -> Seq(StreamFrame)]
    /\ \A m \in Nodes : \A i \in 1 .. Len(nt[m]) : Linked(ob[Peer(m)], nt[m][i])

LEMMA AllocatedAt ==
    ASSUME StreamTypes, NEW n \in Nodes
    PROVE  /\ allocated[n] \in Seq(Nat) /\ Len(allocated[n]) \in Nat
           /\ \A g \in 1 .. Len(allocated[n]) : allocated[n][g] \in Nat
  <1>1. allocated[n] \in Seq(Nat)
    BY Zenon DEF StreamTypes
  <1> QED
    BY <1>1

LEMMA SameManagers ==
    ASSUME StreamTypes, UNCHANGED <<allocated, managed>>
    PROVE  MgrStep
  <1>1. \A m \in Nodes : Len(allocated[m]) \in Nat /\ \A g \in 1 .. Len(allocated[m]) : allocated[m][g] \in Nat
    BY AllocatedAt, Zenon
  <1> QED
    BY <1>1 DEF MgrStep, StreamTypes

\* One manager is created at most, and has allocated nothing.
LEMMA Ensured ==
    ASSUME StreamTypes, NEW n \in Nodes, EnsureManager(n)
    PROVE  /\ MgrStep /\ Manager(n) = Len(allocated'[n]) /\ Manager(n) \in Nat \ {0}
           /\ allocated'[Peer(n)] = allocated[Peer(n)]
           /\ \A g \in 1 .. Len(allocated[n]) : allocated'[n][g] = allocated[n][g]
           /\ \A g \in 1 .. Len(allocated'[n]) : g > Len(allocated[n]) => allocated'[n][g] = 0
  <1> DEFINE q == allocated[n]
             a == IF managed[n] THEN q ELSE Append(q, 0)
  <1>1. q \in Seq(Nat) /\ Len(q) \in Nat /\ \A g \in 1 .. Len(q) : q[g] \in Nat
    BY AllocatedAt, Zenon
  <1>2. /\ a \in Seq(Nat) /\ Len(a) = IF managed[n] THEN Len(q) ELSE Len(q) + 1
        /\ \A g \in 1 .. Len(q) : a[g] = q[g]
        /\ \A g \in 1 .. Len(a) : g > Len(q) => a[g] = 0
    <2>1. CASE managed[n]
      BY <1>1, <2>1
    <2>2. CASE ~managed[n]
      <3>1. /\ Append(q, 0) \in Seq(Nat) /\ Len(Append(q, 0)) = Len(q) + 1
            /\ \A g \in 1 .. Len(q) : Append(q, 0)[g] = q[g]
            /\ Append(q, 0)[Len(q) + 1] = 0
        BY <1>1, Appended
      <3>2. \A g \in 1 .. (Len(q) + 1) : g > Len(q) => g = Len(q) + 1
        BY <1>1
      <3> QED
        BY <1>1, <2>2, <3>1, <3>2, Zenon
    <2> QED
      BY <2>1, <2>2, Zenon
  <1> HIDE DEF a
  <1>3. allocated' = [allocated EXCEPT ![n] = a] /\ managed' = [managed EXCEPT ![n] = TRUE]
    BY Zenon DEF EnsureManager, a
  <1>4. /\ allocated' \in [Nodes -> Seq(Nat)] /\ managed' \in [Nodes -> BOOLEAN]
        /\ allocated'[n] = a /\ allocated'[Peer(n)] = allocated[Peer(n)] /\ managed'[n]
        /\ managed'[Peer(n)] = managed[Peer(n)]
    BY <1>2, <1>3, Peers, Zenon DEF StreamTypes
  <1>5. managed[n] => Len(q) > 0
    BY Zenon DEF StreamTypes
  <1>6. Manager(n) = Len(a) /\ Manager(n) \in Nat \ {0}
    BY <1>1, <1>2, <1>5 DEF Manager
  <1>7. ASSUME NEW m \in Nodes
        PROVE  /\ Len(allocated[m]) <= Len(allocated'[m])
               /\ \A g \in 1 .. Len(allocated[m]) : allocated[m][g] <= allocated'[m][g]
               /\ managed'[m] => Len(allocated'[m]) > 0
               /\ managed'[m] /\ managed[m] => Len(allocated'[m]) = Len(allocated[m])
               /\ managed'[m] /\ ~managed[m] => Len(allocated'[m]) > Len(allocated[m])
    <2>1. CASE m = n
      BY <1>1, <1>2, <1>4, <1>6, <2>1
    <2>2. CASE m = Peer(n)
      <3>1. allocated'[m] = allocated[m] /\ managed'[m] = managed[m]
        BY <1>4, <2>2, Zenon
      <3>2. Len(allocated[m]) \in Nat /\ \A g \in 1 .. Len(allocated[m]) : allocated[m][g] \in Nat
        BY AllocatedAt, Zenon
      <3> QED
        BY <3>1, <3>2 DEF StreamTypes
    <2> QED
      BY <2>1, <2>2, Peers, Zenon
  <1> QED
    BY <1>2, <1>4, <1>6, <1>7, Zenon DEF MgrStep

LEMMA SameOpening ==
    ASSUME StreamTypes, NEW n \in Nodes, EnsureManager(n), OpeningOK(opening, allocated), opening' = opening
    PROVE  OpeningOK(opening', allocated')
  <1> SUFFICES ASSUME NEW m \in Nodes
               PROVE  /\ opening[m] <= Len(allocated'[m])
                      /\ opening[m] # 0 => \A g \in 1 .. Len(allocated'[m]) :
                            g > opening[m] => allocated'[m][g] = 0
    BY Zenon DEF OpeningOK
  <1>1. /\ opening[m] <= Len(allocated[m]) /\ opening[m] \in Nat
        /\ opening[m] # 0 => \A g \in 1 .. Len(allocated[m]) : g > opening[m] => allocated[m][g] = 0
    BY Zenon DEF OpeningOK
  <1>2. CASE m = Peer(n)
    BY <1>1, <1>2, Ensured, Zenon
  <1>3. CASE m = n
    <2>1. /\ Len(allocated[n]) \in Nat /\ Len(allocated[n]) <= Len(allocated'[n]) /\ Len(allocated'[n]) \in Nat
          /\ \A g \in 1 .. Len(allocated[n]) : allocated'[n][g] = allocated[n][g]
          /\ \A g \in 1 .. Len(allocated'[n]) : g > Len(allocated[n]) => allocated'[n][g] = 0
      BY Ensured, AllocatedAt, Zenon DEF MgrStep
    <2> QED
      BY <1>1, <1>3, <2>1
  <1> QED
    BY <1>2, <1>3, Peers, Zenon

\* What was given away stays so, and what is linked stays linked.
LEMMA GivenStays ==
    ASSUME StreamTypes, MgrStep, NEW id, Given(allocated, id)
    PROVE  Given(allocated', id)
  <1>1. PICK m \in Nodes : \E g \in 1 .. Len(allocated[m]) : \E j \in Nat :
           j < allocated[m][g] /\ id = 2 * j + IF m = "lo" THEN 1 ELSE 0
    BY Zenon DEF Given
  <1>2. PICK g \in 1 .. Len(allocated[m]) : \E j \in Nat :
           j < allocated[m][g] /\ id = 2 * j + IF m = "lo" THEN 1 ELSE 0
    BY <1>1, Zenon
  <1>3. PICK j \in Nat : j < allocated[m][g] /\ id = 2 * j + IF m = "lo" THEN 1 ELSE 0
    BY <1>2, Zenon
  <1>4. allocated'[m] \in Seq(Nat) /\ Len(allocated[m]) <= Len(allocated'[m]) /\ allocated[m][g] <= allocated'[m][g]
    BY Zenon DEF MgrStep
  <1>5. g \in 1 .. Len(allocated'[m]) /\ allocated'[m][g] \in Nat /\ allocated[m][g] \in Nat
    <2>1. Len(allocated[m]) \in Nat /\ allocated[m][g] \in Nat
      BY AllocatedAt, Zenon
    <2>2. Len(allocated'[m]) \in Nat
      BY <1>4
    <2>3. g \in 1 .. Len(allocated'[m])
      BY <1>4, <2>1, <2>2
    <2> QED
      BY <1>4, <2>1, <2>3
  <1>6. j < allocated'[m][g]
    <2>1. PICK x, y : x = allocated[m][g] /\ y = allocated'[m][g]
      BY Zenon
    <2>2. x \in Nat /\ y \in Nat /\ j < x /\ x <= y
      BY <1>3, <1>4, <1>5, <2>1, Zenon
    <2>3. j < y
      BY <2>2
    <2> QED
      BY <2>1, <2>3, Zenon
  <1> QED
    BY <1>3, <1>5, <1>6, Zenon DEF Given

LEMMA LinkStays ==
    ASSUME StreamTypes, NEW n \in Nodes, ObjStep(n), NEW m \in Nodes, NEW f, Linked(obj[m], f)
    PROVE  Linked(obj'[m], f)
  <1>1. CASE m = Peer(n)
    BY <1>1, Zenon DEF ObjStep
  <1>2. CASE m = n
    <2>1. obj'[n] \in Seq(Object) /\ Len(obj[n]) \in Nat /\ Len(obj[n]) <= Len(obj'[n])
      BY ObjectAt, Zenon DEF ObjStep
    <2>2. \A k \in 1 .. Len(obj[n]) : k \in 1 .. Len(obj'[n]) /\ obj'[n][k].id = obj[n][k].id
      BY <2>1 DEF ObjStep, Evolves
    <2> QED
      BY <1>2, <2>2, Zenon DEF Linked
  <1> QED
    BY <1>1, <1>2, Peers, Zenon

\* A frame is sent to the peer ...
LEMMA Sent ==
    ASSUME StreamTypes, LinksOK(obj, net), NEW n \in Nodes, ObjStep(n), NEW f \in StreamFrame,
           Linked(obj'[n], f), Send(n, f)
    PROVE  /\ LinksOK(obj', net') /\ net'[Peer(n)] = Append(net[Peer(n)], f) /\ net'[n] = net[n]
  <1> DEFINE p == Peer(n)
             a == Append(net[p], f)
  <1>1. p \in Nodes /\ p # n /\ Peer(p) = n /\ \A m \in Nodes : m = n \/ m = p
    BY Peers, Zenon
  <1>2. net \in [Nodes -> Seq(StreamFrame)] /\ net[p] \in Seq(StreamFrame)
    BY <1>1, Zenon DEF LinksOK
  <1>3. /\ a \in Seq(StreamFrame) /\ Len(net[p]) \in Nat /\ Len(a) = Len(net[p]) + 1
        /\ \A i \in 1 .. Len(net[p]) : a[i] = net[p][i]
        /\ a[Len(net[p]) + 1] = f
    BY <1>2, Appended
  <1> HIDE DEF a, p
  <1>4. net' \in [Nodes -> Seq(StreamFrame)] /\ net'[p] = a /\ net'[n] = net[n]
    BY <1>1, <1>2, <1>3, Zenon DEF Send, a, p
  <1>5. \A i \in 1 .. Len(net[p]) : Linked(obj'[n], net[p][i])
    BY <1>1, LinkStays, Zenon DEF LinksOK
  <1>6. \A i \in 1 .. Len(a) : Linked(obj'[n], a[i])
    <2>1. \A i \in 1 .. Len(a) : i \in 1 .. Len(net[p]) \/ i = Len(net[p]) + 1
      BY <1>3
    <2> QED
      BY <1>3, <1>5, <2>1, Zenon
  <1>7. \A i \in 1 .. Len(net[n]) : Linked(obj'[p], net[n][i])
    BY <1>1, LinkStays, Zenon DEF LinksOK, p
  <1>8. LinksOK(obj', net')
    BY <1>1, <1>4, <1>6, <1>7, Zenon DEF LinksOK, p
  <1> QED
    BY <1>4, <1>8, Zenon DEF a, p

\* ... the first frame is taken ...
LEMMA TookOne ==
    ASSUME StreamTypes, LinksOK(obj, net), NEW n \in Nodes, ObjStep(n), net[n] # <<>>, Takes(n)
    PROVE  /\ LinksOK(obj', net') /\ net'[n] = Tail(net[n]) /\ net'[Peer(n)] = net[Peer(n)]
  <1> DEFINE p == Peer(n)
             a == Tail(net[n])
  <1>1. p \in Nodes /\ p # n /\ Peer(p) = n /\ \A m \in Nodes : m = n \/ m = p
    BY Peers, Zenon
  <1>2. net \in [Nodes -> Seq(StreamFrame)] /\ net[n] \in Seq(StreamFrame)
    BY <1>1, Zenon DEF LinksOK
  <1>3. /\ a \in Seq(StreamFrame) /\ Len(net[n]) \in Nat \ {0} /\ Len(a) = Len(net[n]) - 1
        /\ \A i \in 1 .. (Len(net[n]) - 1) : a[i] = net[n][i + 1]
    BY <1>2, Taken, Zenon
  <1> HIDE DEF a
  <1>4. net' \in [Nodes -> Seq(StreamFrame)] /\ net'[n] = a /\ net'[p] = net[p]
    BY <1>1, <1>2, <1>3, Zenon DEF Takes, a
  <1> HIDE DEF p
  <1>5. \A i \in 1 .. Len(net[n]) : Linked(obj'[p], net[n][i])
    BY <1>1, LinkStays, Zenon DEF LinksOK, p
  <1>6. \A i \in 1 .. Len(a) : Linked(obj'[p], a[i])
    <2>1. \A i \in 1 .. Len(a) : i + 1 \in 1 .. Len(net[n]) /\ a[i] = net[n][i + 1]
      BY <1>3
    <2> QED
      BY <1>5, <2>1, Zenon
  <1>7. \A i \in 1 .. Len(net[p]) : Linked(obj'[n], net[p][i])
    BY <1>1, LinkStays, Zenon DEF LinksOK
  <1>8. LinksOK(obj', net')
    BY <1>1, <1>4, <1>6, <1>7, Zenon DEF LinksOK, p
  <1> QED
    BY <1>4, <1>8, Zenon DEF a, p

\* ... or nothing happens to them.
LEMMA SameFrames ==
    ASSUME StreamTypes, LinksOK(obj, net), NEW n \in Nodes, ObjStep(n), net' = net
    PROVE  LinksOK(obj', net')
  <1>1. \A m \in Nodes : Peer(m) \in Nodes
    BY Peers, Zenon
  <1>2. \A m \in Nodes : \A i \in 1 .. Len(net[m]) : Linked(obj'[Peer(m)], net[m][i])
    BY <1>1, LinkStays, Zenon DEF LinksOK
  <1> QED
    BY <1>2, Zenon DEF LinksOK

-----------------------------------------------------------------------------
\* The invariant of the ids, action by action

StreamInv ==
    /\ StreamTypes /\ OpeningOK(opening, allocated) /\ LinksOK(obj, net)
    /\ \A n \in Nodes : \A k \in 1 .. Len(obj[n]) : Given(allocated, obj[n][k].id)

\* The id that OpenStream has allocated is the last one of its manager.
Last(n, op, al, id) ==
    op[n] # 0 /\ \E j \in Nat : al[n][op[n]] = j + 1 /\ id = 2 * j + IF n = "lo" THEN 1 ELSE 0

SidOK ==
    /\ sid \in [Nodes -> SUBSET Nat]
    /\ \A n \in Nodes : \A id \in sid[n] : Last(n, opening, allocated, id)

\* The calls of Close and Reset that have not yet returned.
LeaveCall == [call : Nat, id : Nat, flag : {"CLOSE", "RESET"}, sent : BOOLEAN]
LeaveOK == events \in Nat /\ leaving \in [Nodes -> SUBSET LeaveCall]

\* A new stream has the id allocated last, or that of a stream of the peer.
Comes(n, id) ==
    \/ id \in sid[n] /\ sid'[n] = {}
    \/ \E i \in 1 .. Len(obj[Peer(n)]) : obj[Peer(n)][i].id = id

\* What each step of n is shown to do.
StepOK(n) ==
    /\ ObjStep(n) /\ MgrStep /\ OpeningOK(opening', allocated') /\ LinksOK(obj', net')
    /\ refusals' \in [Nodes -> SUBSET Nat]
    /\ \A k \in 1 .. Len(obj'[n]) : k > Len(obj[n]) =>
          Given(allocated', obj'[n][k].id) /\ Comes(n, obj'[n][k].id)

LEMMA StepKeepsInv ==
    ASSUME StreamInv, NEW n \in Nodes, StepOK(n)
    PROVE  StreamInv'
  <1> USE DEF StepOK
  <1>1. StreamTypes
    BY Zenon DEF StreamInv
  <1>2. ASSUME NEW m \in Nodes, NEW k \in 1 .. Len(obj'[m])
        PROVE  /\ obj'[m][k].mgr <= Len(allocated'[m]) /\ Awake(obj'[m][k])
               /\ Given(allocated', obj'[m][k].id)
    <2>1. CASE m = n /\ k > Len(obj[n])
      BY <1>2, <2>1, Zenon DEF ObjStep, Begins
    <2>2. CASE m = n /\ ~(k > Len(obj[n]))
      <3>1. k \in 1 .. Len(obj[n])
        BY <1>1, <1>2, <2>2, ObjectAt DEF ObjStep
      <3>2. /\ obj[n][k].mgr <= Len(allocated[n]) /\ Awake(obj[n][k]) /\ Given(allocated, obj[n][k].id)
            /\ Evolves(obj[n][k], obj'[n][k]) /\ obj[n][k] \in Object
        BY <1>1, <3>1, ObjectAt, Zenon DEF StreamInv, StreamTypes, ObjStep
      <3>3. Given(allocated', obj[n][k].id)
        BY <1>1, <3>2, GivenStays, Zenon
      <3>4. Len(allocated[n]) <= Len(allocated'[n]) /\ Len(allocated[n]) \in Nat /\ Len(allocated'[n]) \in Nat
        BY <1>1, AllocatedAt DEF MgrStep
      <3>5. obj[n][k].mgr \in Nat
        BY <3>2, Zenon DEF Object
      <3> QED
        BY <2>2, <3>2, <3>3, <3>4, <3>5 DEF Evolves
    <2>3. CASE m = Peer(n)
      <3>1. obj'[m] = obj[m]
        BY <2>3, Zenon DEF ObjStep
      <3>2. /\ obj[m][k].mgr <= Len(allocated[m]) /\ Awake(obj[m][k]) /\ Given(allocated, obj[m][k].id)
            /\ obj[m][k] \in Object
        BY <1>1, <1>2, <3>1, ObjectAt, Zenon DEF StreamInv, StreamTypes
      <3>3. Given(allocated', obj[m][k].id)
        BY <1>1, <3>2, GivenStays, Zenon
      <3>4. Len(allocated[m]) <= Len(allocated'[m]) /\ Len(allocated[m]) \in Nat /\ Len(allocated'[m]) \in Nat
        BY <1>1, AllocatedAt DEF MgrStep
      <3>5. obj[m][k].mgr \in Nat
        BY <3>2, Zenon DEF Object
      <3> QED
        BY <3>1, <3>2, <3>3, <3>4, <3>5
    <2> QED
      BY <2>1, <2>2, <2>3, Peers, Zenon
  <1>3. StreamTypes'
    BY <1>2, Zenon DEF StreamTypes, ObjStep, MgrStep, OpeningOK, LinksOK
  <1> QED
    BY <1>2, <1>3, Zenon DEF StreamInv

\* Nothing is added.
LEMMA NoNew ==
    ASSUME StreamTypes, NEW n \in Nodes, Len(obj'[n]) = Len(obj[n])
    PROVE  \A k \in 1 .. Len(obj'[n]) : ~(k > Len(obj[n]))
  BY ObjectAt

\* A step of n that leaves the DATA frames alone and whose objects are quiet: at
\* most a CLOSE or a RESET is sent, or a frame that is not DATA is taken.
Plain(n) ==
    /\ QuietStep(n) /\ dropped' = dropped
    /\ \A m \in Nodes :
         \/ net'[m] = net[m]
         \/ \E f \in StreamFrame : f.flag # "DATA" /\ net'[m] = Append(net[m], f)
         \/ net[m] # <<>> /\ Head(net[m]).flag # "DATA" /\ net'[m] = Tail(net[m])

LEMMA OpenStreamStep ==
    ASSUME StreamInv, NEW n \in Nodes, OpenStream(n)
    PROVE  StepOK(n) /\ Plain(n)
  <1> USE DEF OpenStream, frameVars
  <1>1. StreamTypes /\ OpeningOK(opening, allocated) /\ LinksOK(obj, net)
    BY Zenon DEF StreamInv
  <1>2. QuietStep(n) /\ ObjStep(n)
    BY <1>1, Untouched, Zenon DEF QuietStep
  <1>3. /\ MgrStep /\ Manager(n) = Len(allocated'[n]) /\ Manager(n) \in Nat \ {0}
        /\ allocated'[Peer(n)] = allocated[Peer(n)]
    BY <1>1, Ensured, Zenon
  <1>4. opening' \in [Nodes -> Nat] /\ opening'[n] = Len(allocated'[n]) /\ opening'[Peer(n)] = opening[Peer(n)]
    BY <1>1, <1>3, Peers, Zenon DEF OpeningOK
  <1>5. OpeningOK(opening', allocated')
    <2> SUFFICES ASSUME NEW m \in Nodes
                 PROVE  /\ opening'[m] <= Len(allocated'[m])
                        /\ opening'[m] # 0 => \A g \in 1 .. Len(allocated'[m]) :
                              g > opening'[m] => allocated'[m][g] = 0
      BY <1>4, Zenon DEF OpeningOK
    <2>1. CASE m = n
      BY <1>3, <1>4, <2>1
    <2>2. CASE m = Peer(n)
      BY <1>1, <1>3, <1>4, <2>2, Zenon DEF OpeningOK
    <2> QED
      BY <2>1, <2>2, Peers, Zenon
  <1>6. LinksOK(obj', net')
    BY <1>1, <1>2, SameFrames, Zenon
  <1>7. \A k \in 1 .. Len(obj'[n]) : ~(k > Len(obj[n]))
    BY <1>1, NoNew, Zenon
  <1> QED
    BY <1>1, <1>2, <1>3, <1>5, <1>6, <1>7, Zenon DEF StepOK, Plain, StreamTypes

LEMMA AcceptStreamStep ==
    ASSUME StreamInv, NEW n \in Nodes, AcceptStream(n)
    PROVE  StepOK(n) /\ Plain(n)
  <1> USE DEF AcceptStream, frameVars, mgrVars
  <1>1. StreamTypes /\ OpeningOK(opening, allocated) /\ LinksOK(obj, net)
    BY Zenon DEF StreamInv
  <1>2. QuietStep(n) /\ ObjStep(n)
    BY <1>1, Untouched, Zenon DEF QuietStep
  <1>3. MgrStep
    BY <1>1, SameManagers, Zenon
  <1>4. LinksOK(obj', net')
    BY <1>1, <1>2, SameFrames, Zenon
  <1>5. \A k \in 1 .. Len(obj'[n]) : ~(k > Len(obj[n]))
    BY <1>1, NoNew, Zenon
  <1> QED
    BY <1>1, <1>2, <1>3, <1>4, <1>5, Zenon DEF StepOK, Plain, StreamTypes

LEMMA ReadStep ==
    ASSUME StreamInv, NEW n \in Nodes, NEW j \in Objs(n), Read(n, j) \/ ReadAgain(n, j)
    PROVE  StepOK(n) /\ Plain(n)
  <1> USE DEF Read, ReadAgain, frameVars, mgrVars, Objs
  <1>1. StreamTypes /\ OpeningOK(opening, allocated) /\ LinksOK(obj, net)
    BY Zenon DEF StreamInv
  <1>2. Becomes(n, j, ReadOf(obj[n][j])) /\ Still(obj[n][j], ReadOf(obj[n][j]))
    BY <1>1, ObjectAt, ReadStill, Zenon
  <1>3. /\ ObjStep(n) /\ Len(obj'[n]) = Len(obj[n]) /\ obj'[n][j] = ReadOf(obj[n][j])
        /\ \A k \in 1 .. Len(obj[n]) : k # j => obj'[n][k] = obj[n][k]
    BY <1>1, <1>2, OneBecomes, Zenon DEF Still
  <1>4. QuietStep(n)
    <2>1. \A k \in 1 .. Len(obj[n]) : Still(obj[n][k], obj'[n][k])
      BY <1>1, <1>2, <1>3, ObjectAt, Stays, Zenon
    <2> QED
      BY <1>3, <2>1, Zenon DEF QuietStep
  <1>5. UNCHANGED <<allocated, managed, opening, net, refusals, dropped>>
    BY Zenon
  <1>6. MgrStep
    BY <1>1, <1>5, SameManagers, Zenon
  <1>7. LinksOK(obj', net')
    BY <1>1, <1>3, <1>5, SameFrames, Zenon
  <1>8. \A k \in 1 .. Len(obj'[n]) : ~(k > Len(obj[n]))
    BY <1>1, <1>3, NoNew, Zenon
  <1> QED
    BY <1>1, <1>3, <1>4, <1>5, <1>6, <1>7, <1>8, Zenon DEF StepOK, Plain, StreamTypes

LEMMA WriteStep ==
    ASSUME StreamInv, NEW n \in Nodes, NEW j \in Objs(n), Write(n, j)
    PROVE  /\ StepOK(n) /\ Len(obj'[n]) = Len(obj[n]) /\ dropped' = dropped
           /\ obj'[n][j].got = obj[n][j].got /\ obj'[n][j].wrote = obj[n][j].wrote + 1
           /\ \A k \in 1 .. Len(obj[n]) : k # j => obj'[n][k] = obj[n][k]
           /\ net'[n] = net[n]
           /\ net'[Peer(n)] = Append(net[Peer(n)], Frame(obj[n][j].id, "DATA", j, obj[n][j].wrote + 1))
  <1> USE DEF Write, mgrVars, Objs
  <1> DEFINE a == obj[n][j]
             b == [a EXCEPT !.wrote = @ + 1]
             f == Frame(a.id, "DATA", j, a.wrote + 1)
  <1>1. StreamTypes /\ OpeningOK(opening, allocated) /\ LinksOK(obj, net)
    BY Zenon DEF StreamInv
  <1>2. a \in Object /\ Len(obj[n]) \in Nat
    BY <1>1, ObjectAt, Zenon
  <1>3. Becomes(n, j, b) /\ Send(n, f)
    BY Zenon
  <1>4. Evolves(a, b) /\ b.got = a.got /\ b.wrote = a.wrote + 1
    BY <1>2, WriteEvolves, Zenon
  <1>5. f \in StreamFrame /\ f.flag = "DATA" /\ f.from = j /\ f.id = a.id
    BY <1>2 DEF Frame, StreamFrame, Object
  <1> HIDE DEF b, f
  <1>6. /\ ObjStep(n) /\ Len(obj'[n]) = Len(obj[n]) /\ obj'[n][j] = b
        /\ \A k \in 1 .. Len(obj[n]) : k # j => obj'[n][k] = obj[n][k]
    BY <1>1, <1>3, <1>4, OneBecomes, Zenon
  <1>7. Linked(obj'[n], f)
    BY <1>4, <1>5, <1>6, Zenon DEF Linked, Evolves
  <1>8. LinksOK(obj', net') /\ net'[Peer(n)] = Append(net[Peer(n)], f) /\ net'[n] = net[n]
    BY <1>1, <1>3, <1>5, <1>6, <1>7, Sent, Zenon
  <1>9. MgrStep
    BY <1>1, SameManagers, Zenon
  <1>10. \A k \in 1 .. Len(obj'[n]) : ~(k > Len(obj[n]))
    BY <1>1, <1>6, NoNew, Zenon
  <1>11. StepOK(n)
    BY <1>1, <1>6, <1>8, <1>9, <1>10, Zenon DEF StepOK, StreamTypes
  <1> QED
    BY <1>4, <1>6, <1>8, <1>11, Zenon DEF f

LEMMA CloseResetStep ==
    ASSUME StreamInv, NEW n \in Nodes, NEW j \in Objs(n), Close(n, j) \/ Reset(n, j)
    PROVE  StepOK(n) /\ Plain(n)
  <1> USE DEF Objs
  <1>1. StreamTypes /\ OpeningOK(opening, allocated) /\ LinksOK(obj, net)
    BY Zenon DEF StreamInv
  <1>2. PICK o : Becomes(n, j, o) /\ Still(obj[n][j], o)
    <2>1. obj[n][j] \in Object
      BY <1>1, ObjectAt, Zenon
    <2> QED
      BY <2>1, CloseStill, ResetStill, Zenon DEF Close, Reset
  <1>3. /\ ObjStep(n) /\ Len(obj'[n]) = Len(obj[n]) /\ obj'[n][j] = o
        /\ \A k \in 1 .. Len(obj[n]) : k # j => obj'[n][k] = obj[n][k]
    BY <1>1, <1>2, OneBecomes, Zenon DEF Still
  <1>4. QuietStep(n)
    <2>1. \A k \in 1 .. Len(obj[n]) : Still(obj[n][k], obj'[n][k])
      BY <1>1, <1>2, <1>3, ObjectAt, Stays, Zenon
    <2> QED
      BY <1>3, <2>1, Zenon DEF QuietStep
  <1>5. UNCHANGED <<allocated, managed, opening, net, refusals, dropped>>
    BY Zenon DEF Close, Reset, mgrVars
  <1>6. MgrStep
    BY <1>1, <1>5, SameManagers, Zenon
  <1>7. LinksOK(obj', net')
    BY <1>1, <1>3, <1>5, SameFrames, Zenon
  <1>8. \A k \in 1 .. Len(obj'[n]) : ~(k > Len(obj[n]))
    BY <1>1, <1>3, NoNew, Zenon
  <1> QED
    BY <1>1, <1>3, <1>4, <1>5, <1>6, <1>7, <1>8, Zenon DEF StepOK, Plain, StreamTypes

\* A step of n that sends a frame other than DATA.
LEMMA TellStep ==
    ASSUME StreamInv, NEW n \in Nodes, NEW f \in StreamFrame, f.flag # "DATA", Send(n, f),
           UNCHANGED <<obj, allocated, managed, opening, dropped>>, refusals' \in [Nodes -> SUBSET Nat]
    PROVE  StepOK(n) /\ Plain(n)
  <1>1. StreamTypes /\ OpeningOK(opening, allocated) /\ LinksOK(obj, net)
    BY Zenon DEF StreamInv
  <1>2. QuietStep(n) /\ ObjStep(n)
    BY <1>1, Untouched, Zenon DEF QuietStep
  <1>3. LinksOK(obj', net') /\ net'[Peer(n)] = Append(net[Peer(n)], f) /\ net'[n] = net[n]
    <2>1. Linked(obj'[n], f)
      BY Zenon DEF Linked
    <2> QED
      BY <1>1, <1>2, <2>1, Sent, Zenon
  <1>4. MgrStep /\ OpeningOK(opening', allocated')
    BY <1>1, SameManagers, Zenon
  <1>5. \A k \in 1 .. Len(obj'[n]) : ~(k > Len(obj[n]))
    BY <1>1, NoNew, Zenon
  <1>6. Plain(n)
    BY <1>2, <1>3, Peers DEF Plain
  <1> QED
    BY <1>2, <1>3, <1>4, <1>5, <1>6, Zenon DEF StepOK

LEMMA SendLeaveStep ==
    ASSUME StreamInv, LeaveOK, NEW n \in Nodes, NEW c \in leaving[n], SendLeave(n, c)
    PROVE  StepOK(n) /\ Plain(n)
  <1> DEFINE f == Frame(c.id, c.flag, 0, 0)
  <1>1. c \in LeaveCall
    BY Zenon DEF LeaveOK
  <1>2. f \in StreamFrame /\ f.flag # "DATA"
    BY <1>1 DEF LeaveCall, Frame, StreamFrame
  <1>3. Send(n, f) /\ UNCHANGED <<obj, allocated, managed, opening, refusals, dropped>>
    BY Zenon DEF SendLeave, mgrVars
  <1>4. refusals' \in [Nodes -> SUBSET Nat]
    BY <1>3, Zenon DEF StreamInv, StreamTypes
  <1> HIDE DEF f
  <1> QED
    BY <1>2, <1>3, <1>4, TellStep, Zenon

LEMMA sendRESETStep ==
    ASSUME StreamInv, NEW n \in Nodes, NEW id \in refusals[n], sendRESET(n, id)
    PROVE  StepOK(n) /\ Plain(n)
  <1> DEFINE f == Frame(id, "RESET", 0, 0)
  <1>1. StreamTypes
    BY Zenon DEF StreamInv
  <1>2. /\ UNCHANGED <<obj, allocated, managed, opening, dropped>> /\ Send(n, f)
        /\ refusals' = [refusals EXCEPT ![n] = @ \ {id}]
    BY Zenon DEF sendRESET, mgrVars
  <1>3. f \in StreamFrame /\ f.flag # "DATA"
    BY <1>1, Zenon DEF StreamTypes, Frame, StreamFrame
  <1>4. refusals' \in [Nodes -> SUBSET Nat]
    BY <1>1, <1>2, Zenon DEF StreamTypes
  <1> HIDE DEF f
  <1> QED
    BY <1>2, <1>3, <1>4, TellStep, Zenon

\* The id is unmapped.
LEMMA removeStreamStep ==
    ASSUME StreamInv, NEW n \in Nodes, NEW c, removeStream(n, c)
    PROVE  StepOK(n) /\ Plain(n)
  <1> USE DEF Objs
  <1> DEFINE s == obj[n]
             h == [k \in 1 .. Len(s) |-> IF Registered(n, k) /\ s[k].id = c.id THEN [s[k] EXCEPT !.mgr = 0] ELSE s[k]]
  <1>1. StreamTypes /\ OpeningOK(opening, allocated) /\ LinksOK(obj, net)
    BY Zenon DEF StreamInv
  <1>2. /\ obj' = [obj EXCEPT ![n] = h]
        /\ UNCHANGED <<allocated, managed, opening, net, refusals, dropped>>
    BY Zenon DEF removeStream, mgrVars, frameVars
  <1>3. /\ DOMAIN h = 1 .. Len(obj[n]) /\ h = [k \in DOMAIN h |-> h[k]]
        /\ \A k \in 1 .. Len(obj[n]) : h[k] = obj[n][k] \/ h[k] = [obj[n][k] EXCEPT !.mgr = 0]
    BY Zenon
  <1> HIDE DEF h
  <1>4. \A k \in 1 .. Len(obj[n]) : Still(obj[n][k], h[k])
    <2> SUFFICES ASSUME NEW k \in 1 .. Len(obj[n])
                 PROVE  Still(obj[n][k], h[k])
      BY Zenon
    <2>1. obj[n][k] \in Object /\ Still(obj[n][k], obj[n][k])
      BY <1>1, ObjectAt, Stays, Zenon
    <2>2. Still(obj[n][k], [obj[n][k] EXCEPT !.mgr = 0])
      BY <2>1, Unmapped, Zenon
    <2> QED
      BY <1>3, <2>1, <2>2, Zenon
  <1>5. ObjStep(n) /\ obj'[n] = h /\ Len(h) = Len(obj[n])
    <2>1. \A k \in 1 .. Len(obj[n]) : Evolves(obj[n][k], h[k])
      BY <1>4, Zenon DEF Still
    <2> QED
      BY <1>1, <1>2, <1>3, <2>1, Mapped, Zenon
  <1>6. QuietStep(n)
    BY <1>4, <1>5, Zenon DEF QuietStep
  <1>7. LinksOK(obj', net') /\ MgrStep
    BY <1>1, <1>2, <1>5, SameFrames, SameManagers, Zenon
  <1>8. \A k \in 1 .. Len(obj'[n]) : ~(k > Len(obj[n]))
    BY <1>1, <1>5, NoNew, Zenon
  <1> QED
    BY <1>1, <1>2, <1>5, <1>6, <1>7, <1>8, Zenon DEF StepOK, Plain, StreamTypes

\* OpenStream allocates the id.
LEMMA AllocateIDStep ==
    ASSUME StreamInv, NEW n \in Nodes, AllocateID(n)
    PROVE  StepOK(n) /\ Plain(n)
  <1> DEFINE g == opening[n]
             a == [allocated[n] EXCEPT ![g] = allocated[n][g] + 1]
  <1>1. StreamTypes /\ OpeningOK(opening, allocated) /\ LinksOK(obj, net)
    BY Zenon DEF StreamInv
  <1>2. /\ allocated' = [allocated EXCEPT ![n] = a] /\ g # 0
        /\ UNCHANGED <<obj, managed, opening, net, refusals, dropped>>
    BY Zenon DEF AllocateID, frameVars
  <1>3. g \in 1 .. Len(allocated[n]) /\ allocated[n][g] \in Nat /\ Len(allocated[n]) \in Nat
    <2>1. g \in Nat /\ g # 0 /\ g <= Len(allocated[n]) /\ Len(allocated[n]) \in Nat
      BY <1>1, <1>2, AllocatedAt, Zenon DEF OpeningOK
    <2>2. g \in 1 .. Len(allocated[n])
      BY <2>1
    <2> QED
      BY <1>1, <2>1, <2>2, AllocatedAt, Zenon
  <1>4. /\ a \in Seq(Nat) /\ Len(a) = Len(allocated[n])
        /\ \A i \in 1 .. Len(allocated[n]) : allocated[n][i] <= a[i] /\ (i # g => a[i] = allocated[n][i])
    BY <1>1, <1>3, AllocatedAt
  <1> HIDE DEF a
  <1>5. /\ allocated' \in [Nodes -> Seq(Nat)] /\ allocated'[n] = a
        /\ allocated'[Peer(n)] = allocated[Peer(n)]
    BY <1>1, <1>2, <1>4, Peers, Zenon DEF StreamTypes
  <1>6. MgrStep
    <2>1. ASSUME NEW m \in Nodes
          PROVE  /\ Len(allocated'[m]) = Len(allocated[m]) /\ Len(allocated[m]) \in Nat
                 /\ \A i \in 1 .. Len(allocated[m]) : allocated[m][i] <= allocated'[m][i]
                 /\ managed[m] => Len(allocated[m]) > 0
      <3>1. CASE m = n
        BY <1>1, <1>3, <1>4, <1>5, <3>1, Zenon DEF StreamTypes
      <3>2. CASE m = Peer(n)
        <4>1. Len(allocated[m]) \in Nat /\ \A i \in 1 .. Len(allocated[m]) : allocated[m][i] \in Nat
          BY <1>1, AllocatedAt, Zenon
        <4> QED
          BY <1>1, <1>5, <3>2, <4>1 DEF StreamTypes
      <3> QED
        BY <3>1, <3>2, Peers, Zenon
    <2> QED
      BY <1>1, <1>2, <1>5, <2>1 DEF MgrStep, StreamTypes
  <1>7. OpeningOK(opening', allocated')
    <2> SUFFICES ASSUME NEW m \in Nodes
                 PROVE  /\ opening[m] <= Len(allocated'[m])
                        /\ opening[m] # 0 => \A i \in 1 .. Len(allocated'[m]) :
                              i > opening[m] => allocated'[m][i] = 0
      BY <1>1, <1>2, Zenon DEF OpeningOK
    <2>1. CASE m = n
      <3>1. \A i \in 1 .. Len(allocated[n]) : i > g => allocated[n][i] = 0 /\ i # g
        BY <1>1, <1>2, <1>3 DEF OpeningOK
      <3>2. g <= Len(allocated[n])
        BY <1>3
      <3> QED
        BY <1>4, <1>5, <2>1, <3>1, <3>2, Zenon
    <2>2. CASE m = Peer(n)
      BY <1>1, <1>5, <2>2, Zenon DEF OpeningOK
    <2> QED
      BY <2>1, <2>2, Peers, Zenon
  <1>8. QuietStep(n) /\ ObjStep(n)
    BY <1>1, <1>2, Untouched, Zenon DEF QuietStep
  <1>9. LinksOK(obj', net')
    BY <1>1, <1>2, <1>8, SameFrames, Zenon
  <1>10. \A k \in 1 .. Len(obj'[n]) : ~(k > Len(obj[n]))
    BY <1>1, <1>2, NoNew, Zenon
  <1> QED
    BY <1>1, <1>2, <1>6, <1>7, <1>8, <1>9, <1>10, Zenon DEF StepOK, Plain, StreamTypes

\* Storing an opened stream unmaps what had its id.
LEMMA StoreStreamStep ==
    ASSUME StreamInv, SidOK, NEW n \in Nodes, StoreStream(n)
    PROVE  StepOK(n) /\ Plain(n)
  <1> USE DEF Objs
  <1>1. StreamTypes /\ OpeningOK(opening, allocated) /\ LinksOK(obj, net)
    BY Zenon DEF StreamInv
  <1>2. PICK id \in sid[n] : obj' = [obj EXCEPT ![n] = Stored(@, newStream(id, opening[n], TRUE))]
    BY Zenon DEF StoreStream
  <1> DEFINE g == opening[n]
             o == newStream(id, g, TRUE)
             s == obj[n]
             h == [k \in DOMAIN s |-> IF s[k].mgr = o.mgr /\ s[k].id = o.id
                                      THEN [s[k] EXCEPT !.mgr = 0] ELSE s[k]]
  <1>3. /\ obj' = [obj EXCEPT ![n] = Append(h, o)]
        /\ opening' = [opening EXCEPT ![n] = 0] /\ sid' = [sid EXCEPT ![n] = {}]
        /\ UNCHANGED <<allocated, managed, net, refusals, dropped>>
    BY <1>2, Zenon DEF StoreStream, Stored, frameVars
  <1>4. PICK j \in Nat : allocated[n][g] = j + 1 /\ id = 2 * j + IF n = "lo" THEN 1 ELSE 0
    BY <1>2, Zenon DEF SidOK, Last
  <1>5. g \in 1 .. Len(allocated[n]) /\ g \in Nat /\ g <= Len(allocated[n]) /\ id \in Nat /\ sid'[n] = {}
    <2>1. g # 0 /\ id \in Nat /\ sid'[n] = {}
      BY <1>2, <1>3, Zenon DEF SidOK, Last
    <2>2. g \in Nat /\ g <= Len(allocated[n]) /\ Len(allocated[n]) \in Nat
      BY <1>1, AllocatedAt, Zenon DEF OpeningOK
    <2> QED
      BY <2>1, <2>2
  <1>6. Given(allocated, id)
    <2>1. j < allocated[n][g]
      BY <1>4
    <2> QED
      BY <1>4, <1>5, <2>1, Zenon DEF Given
  <1>7. Begins(o) /\ o.mgr = g /\ o.id = id
    <2>1. TRUE \in BOOLEAN
      OBVIOUS
    <2>2. id \in Nat /\ g \in Nat
      BY <1>5, Zenon
    <2> HIDE DEF g
    <2> QED
      BY ONLY <2>1, <2>2, NewBegins, Zenon DEF o
  <1>8. DOMAIN s = 1 .. Len(s) /\ Len(s) \in Nat /\ \A k \in 1 .. Len(s) : s[k] \in Object
    BY <1>1, ObjectAt, Zenon
  <1> HIDE DEF o
  <1>9. /\ DOMAIN h = 1 .. Len(obj[n]) /\ h = [k \in DOMAIN h |-> h[k]]
        /\ \A k \in 1 .. Len(obj[n]) : h[k] = obj[n][k] \/ h[k] = [obj[n][k] EXCEPT !.mgr = 0]
    BY <1>8, Zenon
  <1> HIDE DEF h
  <1>10. \A k \in 1 .. Len(obj[n]) : Still(obj[n][k], h[k])
    <2> SUFFICES ASSUME NEW k \in 1 .. Len(obj[n])
                 PROVE  Still(obj[n][k], h[k])
      BY Zenon
    <2>1. Still(obj[n][k], obj[n][k])
      BY <1>8, Stays, Zenon
    <2>2. Still(obj[n][k], [obj[n][k] EXCEPT !.mgr = 0])
      BY <1>8, <2>1, Unmapped, Zenon
    <2> QED
      BY <1>9, <2>1, <2>2, Zenon
  <1>11. MgrStep
    BY <1>1, <1>3, SameManagers, Zenon
  <1>12. OpeningOK(opening', allocated')
    <2>1. opening' \in [Nodes -> Nat] /\ opening'[n] = 0 /\ opening'[Peer(n)] = opening[Peer(n)]
      BY <1>1, <1>3, Peers, Zenon DEF StreamTypes
    <2> SUFFICES ASSUME NEW m \in Nodes
                 PROVE  /\ opening'[m] <= Len(allocated[m])
                        /\ opening'[m] # 0 => \A i \in 1 .. Len(allocated[m]) :
                              i > opening'[m] => allocated[m][i] = 0
      BY <1>3, <2>1, Zenon DEF OpeningOK
    <2>2. CASE m = n
      <3>1. Len(allocated[n]) \in Nat
        BY <1>1, AllocatedAt, Zenon
      <3> QED
        BY <2>1, <2>2, <3>1
    <2>3. CASE m = Peer(n)
      BY <1>1, <2>1, <2>3, Zenon DEF OpeningOK
    <2> QED
      BY <2>2, <2>3, Peers, Zenon
  <1>13. o.mgr <= Len(allocated'[n])
    BY <1>3, <1>5, <1>7, Zenon
  <1>14. QuietStep(n) /\ Len(obj'[n]) = Len(obj[n]) + 1 /\ obj'[n][Len(obj[n]) + 1] = o
    <2>1. obj' = [obj EXCEPT ![n] = Append(h, o)]
      BY <1>3, Zenon
    <2>2. Begins(o)
      BY <1>7, Zenon
    <2>3. DOMAIN h = 1 .. Len(obj[n]) /\ h = [k \in DOMAIN h |-> h[k]]
      BY <1>9, Zenon
    <2>4. StreamTypes
      BY <1>1, Zenon
    <2> HIDE DEF g, s
    <2>5. /\ QuietStep(n) /\ Len(obj'[n]) = Len(obj[n]) + 1 /\ obj'[n][Len(obj[n]) + 1] = o
          /\ \A k \in 1 .. Len(obj[n]) : obj'[n][k] = h[k]
      BY <1>10, <1>13, <2>1, <2>2, <2>3, <2>4, Added, ZenonT(30)
    <2> QED
      BY <2>5, Zenon
  <1>15. \A k \in 1 .. Len(obj'[n]) : k > Len(obj[n]) =>
            Given(allocated', obj'[n][k].id) /\ Comes(n, obj'[n][k].id)
    <2>1. \A k \in 1 .. Len(obj'[n]) : k > Len(obj[n]) => k = Len(obj[n]) + 1
      BY <1>8, <1>14
    <2> QED
      BY <1>2, <1>3, <1>5, <1>6, <1>7, <1>14, <2>1, Zenon DEF Comes
  <1>16. LinksOK(obj', net')
    BY <1>1, <1>3, <1>14, SameFrames, Zenon DEF QuietStep
  <1>17. Plain(n)
    BY <1>3, <1>14, Zenon DEF Plain
  <1> QED
    BY <1>1, <1>3, <1>11, <1>12, <1>14, <1>15, <1>16, <1>17, Zenon DEF StepOK, QuietStep, StreamTypes

\* A frame is taken, and no object is added.
LEMMA TakeStep ==
    ASSUME StreamInv, NEW n \in Nodes, net[n] # <<>>, ObjStep(n), Len(obj'[n]) = Len(obj[n]),
           MgrStep, Takes(n), UNCHANGED <<opening, refusals>>, OpeningOK(opening', allocated')
    PROVE  StepOK(n) /\ net'[n] = Tail(net[n]) /\ net'[Peer(n)] = net[Peer(n)]
  <1>1. StreamTypes /\ LinksOK(obj, net)
    BY Zenon DEF StreamInv
  <1>2. LinksOK(obj', net') /\ net'[n] = Tail(net[n]) /\ net'[Peer(n)] = net[Peer(n)]
    BY <1>1, TookOne, Zenon
  <1>3. \A k \in 1 .. Len(obj'[n]) : ~(k > Len(obj[n]))
    BY <1>1, NoNew, Zenon
  <1> QED
    BY <1>1, <1>2, <1>3, Zenon DEF StepOK, StreamTypes

LEMMA HeadFrame ==
    ASSUME StreamTypes, NEW n \in Nodes, net[n] # <<>>
    PROVE  /\ net[n] \in Seq(StreamFrame) /\ Head(net[n]) \in StreamFrame /\ Len(net[n]) \in Nat \ {0}
           /\ Head(net[n]) = net[n][1]
  <1>1. net[n] \in Seq(StreamFrame)
    BY Zenon DEF StreamTypes
  <1> QED
    BY <1>1, Taken, Zenon

LEMMA TakenPlain ==
    ASSUME NEW n \in Nodes, QuietStep(n), dropped' = dropped, net[n] # <<>>, Head(net[n]).flag # "DATA",
           net'[n] = Tail(net[n]), net'[Peer(n)] = net[Peer(n)]
    PROVE  Plain(n)
  BY Peers, Zenon DEF Plain

LEMMA DispatchKnownObjects ==
    ASSUME StreamInv, NEW n \in Nodes, DispatchKnown(n)
    PROVE  /\ StepOK(n) /\ Len(obj'[n]) = Len(obj[n]) /\ net[n] # <<>>
           /\ net'[n] = Tail(net[n]) /\ net'[Peer(n)] = net[Peer(n)]
           /\ \A k \in 1 .. Len(obj[n]) :
                 obj'[n][k] = IF k \in Known(n) THEN Dispatched(obj[n][k], Head(net[n])) ELSE obj[n][k]
  <1> DEFINE f == Head(net[n])
             h == [k \in Objs(n) |-> IF k \in Known(n) THEN Dispatched(obj[n][k], f) ELSE obj[n][k]]
  <1>1. StreamTypes /\ OpeningOK(opening, allocated)
    BY Zenon DEF StreamInv
  <1>2. /\ net[n] # <<>> /\ f.flag \in {"DATA", "CLOSE", "RESET"}
        /\ obj' = [obj EXCEPT ![n] = h] /\ Takes(n)
        /\ UNCHANGED <<allocated, managed, opening, refusals>>
    BY Zenon DEF DispatchKnown, Arrives, mgrVars
  <1>3. f \in StreamFrame
    BY <1>1, <1>2, HeadFrame, Zenon
  <1> HIDE DEF f
  <1>4. /\ DOMAIN h = 1 .. Len(obj[n]) /\ h = [k \in DOMAIN h |-> h[k]]
        /\ \A k \in 1 .. Len(obj[n]) :
              h[k] = IF k \in Known(n) THEN Dispatched(obj[n][k], f) ELSE obj[n][k]
    BY Zenon DEF Objs
  <1> HIDE DEF h
  <1>5. \A k \in 1 .. Len(obj[n]) : Evolves(obj[n][k], h[k])
    <2> SUFFICES ASSUME NEW k \in 1 .. Len(obj[n])
                 PROVE  Evolves(obj[n][k], h[k])
      BY Zenon
    <2>1. obj[n][k] \in Object
      BY <1>1, ObjectAt, Zenon
    <2>2. Evolves(obj[n][k], obj[n][k])
      BY <2>1, Stays, Zenon DEF Still
    <2>3. Evolves(obj[n][k], Dispatched(obj[n][k], f))
      <3>1. CASE f.flag = "DATA"
        BY <1>3, <2>1, <3>1, DispatchedGets, Zenon
      <3>2. CASE f.flag \in {"CLOSE", "RESET"}
        BY <2>1, <3>2, DispatchedStill DEF Still
      <3> QED
        BY <1>2, <3>1, <3>2, Zenon
    <2> QED
      BY <1>4, <2>2, <2>3, Zenon
  <1>6. ObjStep(n) /\ obj'[n] = h /\ Len(h) = Len(obj[n])
    BY <1>1, <1>2, <1>4, <1>5, Mapped, Zenon
  <1>7. MgrStep /\ OpeningOK(opening', allocated')
    BY <1>1, <1>2, SameManagers, Zenon
  <1>8. StepOK(n) /\ net'[n] = Tail(net[n]) /\ net'[Peer(n)] = net[Peer(n)]
    BY <1>2, <1>6, <1>7, TakeStep, Zenon
  <1> QED
    BY <1>2, <1>4, <1>6, <1>8, Zenon DEF f

LEMMA DispatchKnownPlain ==
    ASSUME StreamInv, NEW n \in Nodes, DispatchKnown(n), Head(net[n]).flag # "DATA"
    PROVE  Plain(n)
  <1>1. StreamTypes
    BY Zenon DEF StreamInv
  <1>2. Head(net[n]).flag \in {"CLOSE", "RESET"} /\ dropped' = dropped
    BY Zenon DEF DispatchKnown, Arrives
  <1>3. \A k \in 1 .. Len(obj[n]) : Still(obj[n][k], obj'[n][k])
    <2> SUFFICES ASSUME NEW k \in 1 .. Len(obj[n])
                 PROVE  Still(obj[n][k], obj'[n][k])
      BY Zenon
    <2>1. obj[n][k] \in Object
      BY <1>1, ObjectAt, Zenon
    <2>2. Still(obj[n][k], obj[n][k]) /\ Still(obj[n][k], Dispatched(obj[n][k], Head(net[n])))
      BY <1>2, <2>1, Stays, DispatchedStill
    <2> QED
      BY <2>2, DispatchKnownObjects, Zenon
  <1>4. QuietStep(n)
    BY <1>3, DispatchKnownObjects, Zenon DEF QuietStep, StepOK
  <1> QED
    BY <1>2, <1>4, DispatchKnownObjects, TakenPlain, Zenon

LEMMA DispatchNewStep ==
    ASSUME StreamInv, NEW n \in Nodes, DispatchNew(n)
    PROVE  /\ StepOK(n) /\ QuietStep(n) /\ net[n] # <<>> /\ dropped' = dropped
           /\ net'[n] = Tail(net[n]) /\ net'[Peer(n)] = net[Peer(n)]
  <1> DEFINE f == Head(net[n])
             o == newStream(f.id, Manager(n), FALSE)
             h == obj[n]
  <1>1. StreamTypes /\ OpeningOK(opening, allocated) /\ LinksOK(obj, net)
    BY Zenon DEF StreamInv
  <1>2. /\ net[n] # <<>> /\ f.flag = "DATA" /\ EnsureManager(n) /\ Takes(n)
        /\ UNCHANGED <<opening, refusals, dropped>>
    BY Zenon DEF DispatchNew, Arrives
  <1>3. obj' = [obj EXCEPT ![n] = Append(h, o)]
    BY Zenon DEF DispatchNew
  <1>4. /\ f \in StreamFrame /\ f = net[n][1] /\ Len(net[n]) \in Nat \ {0}
    BY <1>1, <1>2, HeadFrame, Zenon
  <1>5. MgrStep /\ Manager(n) = Len(allocated'[n]) /\ Manager(n) \in Nat
    BY <1>1, <1>2, Ensured, Zenon
  <1>6. f.id \in Nat /\ FALSE \in BOOLEAN
    BY <1>4, Zenon DEF StreamFrame
  <1> HIDE DEF f
  <1>7. Begins(o) /\ o.id = f.id /\ o.mgr = Manager(n)
    BY <1>5, <1>6, NewBegins, Zenon
  <1> HIDE DEF o
  <1>8. o.mgr <= Len(allocated'[n])
    BY <1>5, <1>7
  <1>9. DOMAIN h = 1 .. Len(obj[n]) /\ h = [k \in DOMAIN h |-> h[k]] /\ Len(obj[n]) \in Nat
    BY <1>1, ObjectAt
  <1>10. \A k \in 1 .. Len(obj[n]) : Still(obj[n][k], h[k])
    BY <1>1, ObjectAt, Stays, Zenon
  <1> HIDE DEF h
  <1>11. StreamTypes /\ Begins(o)
    BY <1>1, <1>7, Zenon
  <1>12. /\ QuietStep(n) /\ Len(obj'[n]) = Len(obj[n]) + 1 /\ obj'[n][Len(obj[n]) + 1] = o
         /\ \A k \in 1 .. Len(obj[n]) : obj'[n][k] = h[k]
    BY <1>3, <1>8, <1>9, <1>10, <1>11, Added, ZenonT(30)
  <1>13. Linked(obj[Peer(n)], f)
    <2>1. 1 \in 1 .. Len(net[n])
      BY <1>4
    <2> QED
      BY <1>1, <1>4, <2>1, Zenon DEF LinksOK
  <1>14. Given(allocated', o.id) /\ Comes(n, o.id)
    <2>1. f.from \in 1 .. Len(obj[Peer(n)]) /\ f.id = obj[Peer(n)][f.from].id
      BY <1>2, <1>13, Zenon DEF Linked
    <2>2. Given(allocated, f.id)
      BY <2>1, Peers, Zenon DEF StreamInv
    <2> QED
      BY <1>1, <1>5, <1>7, <2>1, <2>2, GivenStays, Zenon DEF Comes
  <1>15. \A k \in 1 .. Len(obj'[n]) : k > Len(obj[n]) =>
            Given(allocated', obj'[n][k].id) /\ Comes(n, obj'[n][k].id)
    <2>1. \A k \in 1 .. Len(obj'[n]) : k > Len(obj[n]) => k = Len(obj[n]) + 1
      BY <1>9, <1>12
    <2> QED
      BY <1>12, <1>14, <2>1, Zenon
  <1>16. LinksOK(obj', net') /\ net'[n] = Tail(net[n]) /\ net'[Peer(n)] = net[Peer(n)]
    BY <1>1, <1>2, <1>12, TookOne, Zenon DEF QuietStep
  <1>17. OpeningOK(opening', allocated')
    BY <1>1, <1>2, SameOpening, Zenon
  <1>18. StepOK(n)
    BY <1>1, <1>2, <1>5, <1>12, <1>15, <1>16, <1>17, Zenon DEF StepOK, QuietStep, StreamTypes
  <1> QED
    BY <1>2, <1>12, <1>16, <1>18, Zenon

\* A frame is taken and no stream hears of it.
LEMMA DispatchUnheardStep ==
    ASSUME StreamInv, NEW n \in Nodes, DispatchRefused(n) \/ DispatchIgnored(n)
    PROVE  /\ StepOK(n) /\ QuietStep(n) /\ net[n] # <<>> /\ dropped' = dropped
           /\ net'[n] = Tail(net[n]) /\ net'[Peer(n)] = net[Peer(n)]
  <1>1. StreamTypes /\ OpeningOK(opening, allocated) /\ LinksOK(obj, net)
    BY Zenon DEF StreamInv
  <1>2. net[n] # <<>> /\ EnsureManager(n) /\ Takes(n) /\ UNCHANGED <<obj, opening, dropped>>
    BY Zenon DEF DispatchRefused, DispatchIgnored, Arrives
  <1>3. Head(net[n]) \in StreamFrame
    BY <1>1, <1>2, HeadFrame, Zenon
  <1>4. refusals' \in [Nodes -> SUBSET Nat]
    <2>1. Head(net[n]).id \in Nat
      BY <1>3, Zenon DEF StreamFrame
    <2>2. refusals \in [Nodes -> SUBSET Nat] /\ refusals[n] \cup {Head(net[n]).id} \in SUBSET Nat
      BY <1>1, <2>1, Zenon DEF StreamTypes
    <2>3. \/ refusals' = refusals
          \/ refusals' = [refusals EXCEPT ![n] = refusals[n] \cup {Head(net[n]).id}]
      BY Zenon DEF DispatchRefused, DispatchIgnored
    <2> QED
      BY <2>2, <2>3, Zenon
  <1>5. QuietStep(n) /\ ObjStep(n)
    BY <1>1, <1>2, Untouched, Zenon DEF QuietStep
  <1>6. LinksOK(obj', net') /\ net'[n] = Tail(net[n]) /\ net'[Peer(n)] = net[Peer(n)]
    BY <1>1, <1>2, <1>5, TookOne, Zenon
  <1>7. MgrStep
    BY <1>1, <1>2, Ensured, Zenon
  <1>8. OpeningOK(opening', allocated')
    BY <1>1, <1>2, SameOpening, Zenon
  <1>9. \A k \in 1 .. Len(obj'[n]) : ~(k > Len(obj[n]))
    BY <1>1, <1>2, NoNew, Zenon
  <1> QED
    BY <1>2, <1>4, <1>5, <1>6, <1>7, <1>8, <1>9, Zenon DEF StepOK

\* The streams of the manager that leaves are reset.
LEMMA peerGoneStep ==
    ASSUME StreamInv, NEW n \in Nodes, peerGone(n)
    PROVE  StepOK(n) /\ Plain(n)
  <1> DEFINE r == Frame(0, "RESET", 0, 0)
             h == [k \in Objs(n) |-> IF Registered(n, k) THEN Dispatched([obj[n][k] EXCEPT !.mgr = 0], r)
                                     ELSE obj[n][k]]
  <1>1. StreamTypes /\ OpeningOK(opening, allocated)
    BY Zenon DEF StreamInv
  <1>2. /\ net[n] # <<>> /\ Head(net[n]).flag = "GONE" /\ Takes(n)
        /\ managed' = [managed EXCEPT ![n] = FALSE]
        /\ UNCHANGED <<allocated, opening, refusals, dropped>>
    BY Zenon DEF peerGone, Arrives
  <1>3. obj' = [obj EXCEPT ![n] = h]
    BY Zenon DEF peerGone
  <1>4. r.flag \in {"CLOSE", "RESET"}
    BY Zenon DEF Frame
  <1> HIDE DEF r
  <1>5. /\ DOMAIN h = 1 .. Len(obj[n]) /\ h = [k \in DOMAIN h |-> h[k]]
        /\ \A k \in 1 .. Len(obj[n]) :
              h[k] = obj[n][k] \/ h[k] = Dispatched([obj[n][k] EXCEPT !.mgr = 0], r)
    BY Zenon DEF Objs
  <1> HIDE DEF h
  <1>6. \A k \in 1 .. Len(obj[n]) : Still(obj[n][k], h[k])
    <2> SUFFICES ASSUME NEW k \in 1 .. Len(obj[n])
                 PROVE  Still(obj[n][k], h[k])
      BY Zenon
    <2> DEFINE a == obj[n][k]
               b == [a EXCEPT !.mgr = 0]
    <2>1. a \in Object
      BY <1>1, ObjectAt, Zenon
    <2>2. Still(a, a)
      BY <2>1, Stays, Zenon
    <2>3. Still(a, b) /\ b \in Object
      BY <2>1, <2>2, Unmapped, Zenon DEF Still, Evolves
    <2>4. b.mgr = 0
      BY <2>1, Zenon DEF Object
    <2> HIDE DEF a, b
    <2>5. Still(b, Dispatched(b, r))
      BY <1>4, <2>3, DispatchedStill
    <2>6. Still(a, Dispatched(b, r))
      BY <2>3, <2>4, <2>5, Zenon DEF Still, Evolves
    <2> QED
      BY <1>5, <2>2, <2>6, Zenon DEF a, b
  <1>7. ObjStep(n) /\ obj'[n] = h /\ Len(h) = Len(obj[n])
    <2>1. \A k \in 1 .. Len(obj[n]) : Evolves(obj[n][k], h[k])
      BY <1>6, Zenon DEF Still
    <2> QED
      BY <1>1, <1>3, <1>5, <2>1, Mapped, Zenon
  <1>8. QuietStep(n)
    BY <1>6, <1>7, Zenon DEF QuietStep
  <1>9. MgrStep
    <2>1. ASSUME NEW m \in Nodes
          PROVE  /\ Len(allocated[m]) \in Nat /\ managed'[m] => managed[m]
                 /\ \A g \in 1 .. Len(allocated[m]) : allocated[m][g] \in Nat
      BY <1>1, <1>2, AllocatedAt, Zenon DEF StreamTypes
    <2>2. managed' \in [Nodes -> BOOLEAN]
      BY <1>1, <1>2, Zenon DEF StreamTypes
    <2> QED
      BY <1>1, <1>2, <2>1, <2>2 DEF MgrStep, StreamTypes
  <1>10. OpeningOK(opening', allocated')
    BY <1>1, <1>2, Zenon
  <1>11. StepOK(n) /\ net'[n] = Tail(net[n]) /\ net'[Peer(n)] = net[Peer(n)]
    BY <1>2, <1>7, <1>9, <1>10, TakeStep, Zenon
  <1>12. Plain(n)
    <2>1. Head(net[n]).flag # "DATA" /\ dropped' = dropped
      BY <1>2, Zenon
    <2> QED
      BY <1>2, <1>8, <1>11, <2>1, TakenPlain, Zenon
  <1> QED
    BY <1>11, <1>12, Zenon

\* What was under way to n is lost, and the peer told.
LEMMA DropStep ==
    ASSUME StreamInv, NEW n \in Nodes, Drop(n)
    PROVE  StepOK(n)
  <1> DEFINE f == Frame(0, "GONE", 0, 0)
             p == Peer(n)
             a == Append(net[p], f)
  <1>1. StreamTypes /\ OpeningOK(opening, allocated) /\ LinksOK(obj, net)
    BY Zenon DEF StreamInv
  <1>2. /\ UNCHANGED <<obj, allocated, managed, opening, refusals>>
        /\ net' = [net EXCEPT ![n] = <<>>, ![p] = a]
    BY Zenon DEF Drop, mgrVars
  <1>3. f \in StreamFrame /\ f.flag = "GONE"
    BY Zenon DEF Frame, StreamFrame
  <1>4. p \in Nodes /\ p # n /\ Peer(p) = n /\ \A m \in Nodes : m = n \/ m = p
    BY Peers, Zenon
  <1> HIDE DEF f, p
  <1>5. net \in [Nodes -> Seq(StreamFrame)] /\ net[p] \in Seq(StreamFrame)
    BY <1>1, <1>4, Zenon DEF LinksOK
  <1>6. /\ a \in Seq(StreamFrame) /\ Len(net[p]) \in Nat /\ Len(a) = Len(net[p]) + 1
        /\ \A i \in 1 .. Len(net[p]) : a[i] = net[p][i]
        /\ a[Len(net[p]) + 1] = f
    BY <1>3, <1>5, Appended, Zenon
  <1> HIDE DEF a
  <1>7. net' \in [Nodes -> Seq(StreamFrame)] /\ net'[p] = a /\ net'[n] = <<>>
    <2> DEFINE e == [net EXCEPT ![n] = <<>>]
    <2>1. e \in [Nodes -> Seq(StreamFrame)] /\ e[n] = <<>>
      BY <1>5
    <2>2. net' = [e EXCEPT ![p] = a]
      BY <1>2, Zenon
    <2> HIDE DEF e
    <2> QED
      BY <1>4, <1>6, <2>1, <2>2, Zenon
  <1>8. \A i \in 1 .. Len(a) : Linked(obj[n], a[i])
    <2>1. \A i \in 1 .. Len(a) : i \in 1 .. Len(net[p]) \/ i = Len(net[p]) + 1
      BY <1>6
    <2>2. \A i \in 1 .. Len(net[p]) : Linked(obj[n], net[p][i])
      BY <1>1, <1>4, Zenon DEF LinksOK
    <2>3. Linked(obj[n], f)
      BY <1>3, Zenon DEF Linked
    <2> QED
      BY <1>6, <2>1, <2>2, <2>3, Zenon
  <1>9. LinksOK(obj', net')
    <2>1. Len(net'[n]) = 0
      BY <1>7
    <2>2. \A i \in 1 .. Len(net'[n]) : FALSE
      BY <2>1
    <2> QED
      BY <1>2, <1>4, <1>7, <1>8, <2>2, Zenon DEF LinksOK
  <1>10. MgrStep /\ ObjStep(n)
    BY <1>1, <1>2, SameManagers, Untouched, Zenon DEF QuietStep
  <1>11. \A k \in 1 .. Len(obj'[n]) : ~(k > Len(obj[n]))
    BY <1>1, <1>2, NoNew, Zenon
  <1> QED
    BY <1>1, <1>2, <1>9, <1>10, <1>11, Zenon DEF StepOK, StreamTypes

-----------------------------------------------------------------------------
\* The order of what the streams carry

\* What a stream has got was written by a stream of the peer.
FromOK(ob) ==
    \A n \in Nodes : \A k \in 1 .. Len(ob[n]) : \A i \in 1 .. Len(ob[n][k].got) :
       ob[n][k].got[i][1] \in 1 .. Len(ob[Peer(n)])

\* What a stream of the peer wrote is whole: under way, for a stream that is still
\* to be created, and got or under way for those registered with its id.
OrderOK(ob, up, al, nt) ==
    \A n \in Nodes : \A w \in 1 .. Len(ob[Peer(n)]) :
       /\ Whole(<<>>, nt[n], w, ob[Peer(n)][w].wrote)
       /\ \A k \in 1 .. Len(ob[n]) :
            up[n] /\ ob[n][k].mgr = Len(al[n]) /\ ob[n][k].id = ob[Peer(n)][w].id =>
               Whole(ob[n][k].got, nt[n], w, ob[Peer(n)][w].wrote)

\* No old stream is registered that was not.
LEMMA RegisteredOld ==
    ASSUME StreamTypes, NEW n \in Nodes, ObjStep(n), MgrStep, NEW m \in Nodes,
           NEW k \in 1 .. Len(obj[m]), managed'[m], obj'[m][k].mgr = Len(allocated'[m])
    PROVE  managed[m] /\ obj[m][k].mgr = Len(allocated[m])
  <1>1. obj'[m][k].mgr \in {obj[m][k].mgr, 0}
    <2>1. CASE m = n
      BY <2>1, Zenon DEF ObjStep, Evolves
    <2>2. CASE m = Peer(n)
      BY <2>2, Zenon DEF ObjStep
    <2> QED
      BY <2>1, <2>2, Peers, Zenon
  <1>2. /\ Len(allocated'[m]) > 0 /\ (managed[m] => Len(allocated'[m]) = Len(allocated[m]))
        /\ ~managed[m] => Len(allocated'[m]) > Len(allocated[m])
    BY Zenon DEF MgrStep
  <1>3. Len(allocated[m]) \in Nat /\ obj[m][k].mgr <= Len(allocated[m]) /\ obj[m][k].mgr \in Nat
    <2>1. obj[m][k] \in Object
      BY ObjectAt, Zenon
    <2> QED
      BY <2>1, AllocatedAt, Zenon DEF StreamTypes, Object
  <1> QED
    BY <1>1, <1>2, <1>3

LEMMA GotOne ==
    ASSUME NEW g \in Seq(Nat \X Nat), NEW w \in Nat, NEW x \in Nat, NEW S, w \in S,
           \A i \in 1 .. Len(g) : g[i][1] \in S
    PROVE  \A i \in 1 .. Len(Append(g, <<w, x>>)) : Append(g, <<w, x>>)[i][1] \in S
  <1> DEFINE h == Append(g, <<w, x>>)
  <1>1. /\ Len(g) \in Nat /\ Len(h) = Len(g) + 1 /\ h[Len(g) + 1] = <<w, x>>
        /\ \A i \in 1 .. Len(g) : h[i] = g[i]
    BY Appended
  <1> HIDE DEF h
  <1>2. \A i \in 1 .. Len(h) : i \in 1 .. Len(g) \/ i = Len(g) + 1
    BY <1>1
  <1>3. h[Len(g) + 1][1] \in S
    BY <1>1
  <1>4. \A i \in 1 .. Len(g) : h[i][1] \in S
    BY <1>1, Zenon
  <1>5. \A i \in 1 .. Len(h) : h[i][1] \in S
    BY <1>2, <1>3, <1>4, Zenon
  <1> QED
    BY <1>5, Zenon DEF h

\* The objects of n are the old ones and the new ones.
LEMMA OldAndNew ==
    ASSUME StreamTypes, NEW n \in Nodes, ObjStep(n)
    PROVE  /\ 1 .. Len(obj[n]) \subseteq 1 .. Len(obj'[n])
           /\ \A k \in 1 .. Len(obj'[n]) : k > Len(obj[n]) \/ k \in 1 .. Len(obj[n])
  <1>1. Len(obj[n]) \in Nat /\ Len(obj[n]) <= Len(obj'[n]) /\ Len(obj'[n]) \in Nat
    BY ObjectAt DEF ObjStep
  <1> QED
    BY <1>1

\* A stream gets at most one frame more, of a stream in S.
Gains(g, h, S) == h = g \/ \E w \in S : \E x \in Nat : h = Append(g, <<w, x>>)

LEMMA FromKept ==
    ASSUME StreamTypes, FromOK(obj), NEW n \in Nodes, ObjStep(n),
           \A k \in 1 .. Len(obj[n]) : Gains(obj[n][k].got, obj'[n][k].got, 1 .. Len(obj[Peer(n)]))
    PROVE  FromOK(obj')
  <1> DEFINE p == Peer(n)
  <1>1. p \in Nodes /\ p # n /\ Peer(p) = n /\ \A m \in Nodes : m = n \/ m = p
    BY Peers, Zenon
  <1>2. obj'[p] = obj[p] /\ 1 .. Len(obj[n]) \subseteq 1 .. Len(obj'[n]) /\ Len(obj[p]) \in Nat
    BY <1>1, ObjectAt, OldAndNew, Zenon DEF ObjStep
  <1>3. \A k \in 1 .. Len(obj[p]) : \A i \in 1 .. Len(obj[p][k].got) :
           obj[p][k].got[i][1] \in 1 .. Len(obj'[n])
    BY <1>1, <1>2, Zenon DEF FromOK
  <1>4. ASSUME NEW k \in 1 .. Len(obj'[n])
        PROVE  \A i \in 1 .. Len(obj'[n][k].got) : obj'[n][k].got[i][1] \in 1 .. Len(obj[p])
    <2>1. CASE k > Len(obj[n])
      <3>1. obj'[n][k].got = <<>>
        BY <1>4, <2>1, Zenon DEF ObjStep, Begins
      <3>2. Len(obj'[n][k].got) = 0
        BY <3>1
      <3>3. 1 .. Len(obj'[n][k].got) = {}
        BY <3>2
      <3> QED
        BY <3>3, Zenon
    <2>2. CASE k \in 1 .. Len(obj[n])
      <3>1. obj[n][k].got \in Seq(Nat \X Nat)
        <4>1. obj[n][k] \in Object
          BY <2>2, ObjectAt, Zenon
        <4> QED
          BY <4>1, Zenon DEF Object
      <3>2. \A j \in 1 .. Len(obj[n][k].got) : obj[n][k].got[j][1] \in 1 .. Len(obj[p])
        BY <2>2, Zenon DEF FromOK
      <3>3. CASE obj'[n][k].got = obj[n][k].got
        BY <3>2, <3>3, Zenon
      <3>4. ASSUME NEW w \in 1 .. Len(obj[p]), NEW x \in Nat,
                   obj'[n][k].got = Append(obj[n][k].got, <<w, x>>)
            PROVE  \A i \in 1 .. Len(obj'[n][k].got) : obj'[n][k].got[i][1] \in 1 .. Len(obj[p])
        <4>1. w \in Nat
          <5>1. Len(obj[p]) \in Nat
            BY <1>2, Zenon
          <5> HIDE DEF p
          <5> QED
            BY <5>1
        <4>2. \A i \in 1 .. Len(Append(obj[n][k].got, <<w, x>>)) :
                 Append(obj[n][k].got, <<w, x>>)[i][1] \in 1 .. Len(obj[p])
          BY <3>1, <3>2, <4>1, GotOne, Zenon
        <4> QED
          BY <3>4, <4>2, Zenon
      <3> QED
        BY <2>2, <3>3, <3>4, Zenon DEF Gains
    <2> QED
      BY <1>4, <2>1, <2>2, OldAndNew, Zenon
  <1> QED
    <2>1. \A k \in 1 .. Len(obj'[p]) : \A i \in 1 .. Len(obj'[p][k].got) :
             obj'[p][k].got[i][1] \in 1 .. Len(obj'[Peer(p)])
      BY <1>1, <1>2, <1>3, Zenon
    <2>2. \A k \in 1 .. Len(obj'[n]) : \A i \in 1 .. Len(obj'[n][k].got) :
             obj'[n][k].got[i][1] \in 1 .. Len(obj'[Peer(n)])
      BY <1>2, <1>4, Zenon
    <2> QED
      BY <1>1, <2>1, <2>2, Zenon DEF FromOK

\* The objects of a quiet step, with what was under way.
LEMMA OrderQuiet ==
    ASSUME StreamTypes, LinksOK(obj, net), FromOK(obj), OrderOK(obj, managed, allocated, net),
           NEW n \in Nodes, QuietStep(n), MgrStep
    PROVE  OrderOK(obj', managed', allocated', net)
  <1>1. ObjStep(n)
    BY Zenon DEF QuietStep
  <1>2. ASSUME NEW m \in Nodes, NEW k \in 1 .. Len(obj'[m])
        PROVE  \/ k \in 1 .. Len(obj[m]) /\ Still(obj[m][k], obj'[m][k])
               \/ m = n /\ k > Len(obj[n]) /\ obj'[m][k].got = <<>> /\ obj'[m][k].wrote = 0
    <2>1. CASE m = Peer(n)
      BY <1>1, <1>2, <2>1, ObjectAt, Stays, Zenon DEF ObjStep
    <2>2. CASE m = n /\ k > Len(obj[n])
      BY <1>1, <1>2, <2>2, Zenon DEF ObjStep, Begins
    <2>3. CASE m = n /\ ~(k > Len(obj[n]))
      <3>1. k \in 1 .. Len(obj[n])
        BY <1>1, <1>2, <2>3, ObjectAt DEF ObjStep
      <3> QED
        BY <2>3, <3>1, Zenon DEF QuietStep
    <2> QED
      BY <2>1, <2>2, <2>3, Peers, Zenon
  <1> SUFFICES ASSUME NEW m \in Nodes, NEW w \in 1 .. Len(obj'[Peer(m)])
               PROVE  /\ Whole(<<>>, net[m], w, obj'[Peer(m)][w].wrote)
                      /\ \A k \in 1 .. Len(obj'[m]) :
                           managed'[m] /\ obj'[m][k].mgr = Len(allocated'[m]) /\ obj'[m][k].id = obj'[Peer(m)][w].id =>
                              Whole(obj'[m][k].got, net[m], w, obj'[Peer(m)][w].wrote)
    BY Zenon DEF OrderOK
  <1> DEFINE p == Peer(m)
  <1>3. p \in Nodes /\ p # m /\ Peer(p) = m
    BY Peers, Zenon
  <1>4. CASE w \in 1 .. Len(obj[p]) /\ Still(obj[p][w], obj'[p][w])
    <2>1. obj'[p][w].wrote = obj[p][w].wrote /\ obj'[p][w].id = obj[p][w].id
      BY <1>4, Zenon DEF Still, Evolves
    <2>2. Whole(<<>>, net[m], w, obj[p][w].wrote)
      BY <1>4, Zenon DEF OrderOK
    <2>3. ASSUME NEW k \in 1 .. Len(obj'[m]), managed'[m], obj'[m][k].mgr = Len(allocated'[m]),
                 obj'[m][k].id = obj[p][w].id
          PROVE  Whole(obj'[m][k].got, net[m], w, obj[p][w].wrote)
      <3>1. CASE k \in 1 .. Len(obj[m]) /\ Still(obj[m][k], obj'[m][k])
        <4>1. managed[m] /\ obj[m][k].mgr = Len(allocated[m])
          BY <1>1, <2>3, <3>1, RegisteredOld, Zenon
        <4>2. obj[m][k].id = obj[p][w].id /\ obj'[m][k].got = obj[m][k].got
          BY <2>3, <3>1, Zenon DEF Still, Evolves
        <4> QED
          BY <1>4, <3>1, <4>1, <4>2, Zenon DEF OrderOK
      <3>2. CASE obj'[m][k].got = <<>>
        BY <2>2, <3>2, Zenon
      <3> QED
        BY <1>2, <2>3, <3>1, <3>2, Zenon
    <2> QED
      BY <2>1, <2>2, <2>3, Zenon
  <1>5. CASE p = n /\ w > Len(obj[n]) /\ obj'[p][w].wrote = 0
    <2>1. InQueue(net[m], w) = {}
      <3>1. \A i \in 1 .. Len(net[m]) : net[m][i].flag = "DATA" => net[m][i].from \in 1 .. Len(obj[n])
        BY <1>5, Zenon DEF LinksOK, Linked
      <3>2. w \notin 1 .. Len(obj[n])
        BY <1>5, ObjectAt
      <3> QED
        BY <3>1, <3>2, Zenon DEF InQueue
    <2>2. Whole(<<>>, net[m], w, 0)
      <3>1. InGot(<<>>, w) = {}
        BY DEF InGot
      <3> QED
        BY <2>1, <3>1, WholeNothing, Zenon
    <2>3. ASSUME NEW k \in 1 .. Len(obj'[m])
          PROVE  Whole(obj'[m][k].got, net[m], w, 0)
      <3>1. m # n
        BY <1>3, <1>5, Zenon
      <3>2. k \in 1 .. Len(obj[m]) /\ obj'[m][k].got = obj[m][k].got
        BY <1>2, <2>3, <3>1, Zenon DEF Still
      <3>3. \A i \in 1 .. Len(obj[m][k].got) : obj[m][k].got[i][1] \in 1 .. Len(obj[n])
        BY <1>5, <3>2, Zenon DEF FromOK
      <3>4. w \notin 1 .. Len(obj[n])
        BY <1>5, ObjectAt
      <3>5. InGot(obj[m][k].got, w) = {}
        BY <3>3, <3>4, Zenon DEF InGot
      <3> QED
        BY <2>1, <3>2, <3>5, WholeNothing, Zenon
    <2> QED
      BY <1>5, <2>2, <2>3, Zenon
  <1> QED
    BY <1>2, <1>3, <1>4, <1>5, Zenon

\* Frames that are not DATA come and go.
LEMMA OrderFrames ==
    ASSUME NEW ob, NEW up, NEW al, net \in [Nodes -> Seq(StreamFrame)],
           OrderOK(ob, up, al, net), NEW n \in Nodes, Plain(n)
    PROVE  OrderOK(ob, up, al, net')
  <1>1. ASSUME NEW m \in Nodes, NEW g, NEW w, NEW hi, Whole(g, net[m], w, hi)
        PROVE  Whole(g, net'[m], w, hi)
    <2>1. net[m] \in Seq(StreamFrame)
      BY Zenon
    <2>2. CASE net'[m] = net[m]
      BY <1>1, <2>2, Zenon
    <2>3. ASSUME NEW f \in StreamFrame, f.flag # "DATA", net'[m] = Append(net[m], f)
          PROVE  Whole(g, net'[m], w, hi)
      <3>1. Whole(g, Append(net[m], f), w, hi)
        BY <1>1, <2>1, <2>3, WholeOther, Zenon
      <3> QED
        BY <2>3, <3>1, Zenon
    <2>4. CASE net[m] # <<>> /\ Head(net[m]).flag # "DATA" /\ net'[m] = Tail(net[m])
      <3>1. Whole(g, Tail(net[m]), w, hi)
        BY <1>1, <2>1, <2>4, WholeSkip, Zenon
      <3> QED
        BY <2>4, <3>1, Zenon
    <2> QED
      BY <2>2, <2>3, <2>4, Zenon DEF Plain
  <1> QED
    BY <1>1, Zenon DEF OrderOK

\* The frame that is taken is DATA that nobody with its id has got anything of.
LEMMA OrderUnheard ==
    ASSUME NEW ob, NEW up, NEW al, net \in [Nodes -> Seq(StreamFrame)],
           OrderOK(ob, up, al, net), NEW n \in Nodes, net[n] # <<>>,
           Linked(ob[Peer(n)], Head(net[n])),
           \A w \in 1 .. Len(ob[Peer(n)]) : ob[Peer(n)][w].wrote \in Nat /\ w \in Nat,
           \A k \in 1 .. Len(ob[n]) :
              up[n] /\ ob[n][k].mgr = Len(al[n]) /\ ob[n][k].id = Head(net[n]).id => ob[n][k].got = <<>>,
           net'[n] = Tail(net[n]), net'[Peer(n)] = net[Peer(n)]
    PROVE  OrderOK(ob, up, al, net')
  <1> DEFINE p == Peer(n)
             f == Head(net[n])
             q == net[n]
  <1>1. p \in Nodes /\ p # n /\ Peer(p) = n /\ \A m \in Nodes : m = n \/ m = p
    BY Peers, Zenon
  <1>2. q \in Seq(StreamFrame) /\ q # <<>>
    BY Zenon
  <1>3. ASSUME NEW w \in 1 .. Len(ob[p])
        PROVE  /\ Whole(<<>>, Tail(q), w, ob[p][w].wrote)
               /\ \A k \in 1 .. Len(ob[n]) :
                    up[n] /\ ob[n][k].mgr = Len(al[n]) /\ ob[n][k].id = ob[p][w].id =>
                       Whole(ob[n][k].got, Tail(q), w, ob[p][w].wrote)
    <2>1. Whole(<<>>, q, w, ob[p][w].wrote)
      BY <1>3, Zenon DEF OrderOK
    <2>2. Whole(<<>>, Tail(q), w, ob[p][w].wrote)
      <3>1. w \in Nat /\ ob[p][w].wrote \in Nat
        BY Zenon
      <3> QED
        BY <1>2, <2>1, <3>1, WholeDrop, Zenon
    <2>3. ASSUME NEW k \in 1 .. Len(ob[n]), up[n], ob[n][k].mgr = Len(al[n]), ob[n][k].id = ob[p][w].id
          PROVE  Whole(ob[n][k].got, Tail(q), w, ob[p][w].wrote)
      <3>1. CASE f.flag = "DATA" /\ f.from = w
        <4>1. f.id = ob[p][w].id
          BY <3>1, Zenon DEF Linked
        <4>2. ob[n][k].got = <<>>
          BY <2>3, <4>1, Zenon
        <4> QED
          BY <2>2, <4>2, Zenon
      <3>2. CASE f.flag # "DATA" \/ f.from # w
        <4>1. Whole(ob[n][k].got, q, w, ob[p][w].wrote)
          BY <1>3, <2>3, Zenon DEF OrderOK
        <4> QED
          BY <1>2, <3>2, <4>1, WholeSkip, Zenon
      <3> QED
        BY <3>1, <3>2, Zenon
    <2> QED
      BY <2>2, <2>3, Zenon
  <1> HIDE DEF p, f, q
  <1>4. net'[n] = Tail(q) /\ net'[p] = net[p]
    BY Zenon DEF p, q
  <1> SUFFICES ASSUME NEW m \in Nodes, NEW w \in 1 .. Len(ob[Peer(m)])
               PROVE  /\ Whole(<<>>, net'[m], w, ob[Peer(m)][w].wrote)
                      /\ \A k \in 1 .. Len(ob[m]) :
                           up[m] /\ ob[m][k].mgr = Len(al[m]) /\ ob[m][k].id = ob[Peer(m)][w].id =>
                              Whole(ob[m][k].got, net'[m], w, ob[Peer(m)][w].wrote)
    BY Zenon DEF OrderOK
  <1>5. CASE m = n
    BY <1>3, <1>4, <1>5, Zenon DEF p
  <1>6. CASE m = p
    BY <1>4, <1>6, Zenon DEF OrderOK
  <1> QED
    BY <1>1, <1>5, <1>6, Zenon

\* The frame that is taken is DATA, and the streams with its id get it.
LEMMA OrderKnown ==
    ASSUME StreamInv, OrderOK(obj, managed, allocated, net), NEW n \in Nodes, DispatchKnown(n),
           Head(net[n]).flag = "DATA"
    PROVE  OrderOK(obj', managed', allocated', net')
  <1> DEFINE p == Peer(n)
             f == Head(net[n])
             q == net[n]
  <1>1. p \in Nodes /\ p # n /\ Peer(p) = n /\ \A m \in Nodes : m = n \/ m = p
    BY Peers, Zenon
  <1>2. StreamTypes /\ LinksOK(obj, net)
    BY Zenon DEF StreamInv
  <1>3. /\ StepOK(n) /\ Len(obj'[n]) = Len(obj[n]) /\ q # <<>>
        /\ net'[n] = Tail(q) /\ net'[p] = net[p]
        /\ \A k \in 1 .. Len(obj[n]) :
              obj'[n][k] = IF k \in Known(n) THEN Dispatched(obj[n][k], f) ELSE obj[n][k]
    BY DispatchKnownObjects, Zenon
  <1>4. ObjStep(n) /\ MgrStep /\ obj'[p] = obj[p]
    BY <1>3, Zenon DEF StepOK, ObjStep
  <1>5. /\ q \in Seq(StreamFrame) /\ f \in StreamFrame /\ f = q[1] /\ Len(q) \in Nat \ {0}
    BY <1>2, <1>3, HeadFrame, Zenon
  <1>6. f.from \in 1 .. Len(obj[p]) /\ f.id = obj[p][f.from].id
    <2>1. 1 \in 1 .. Len(q)
      BY <1>5
    <2>2. Linked(obj[p], f)
      BY <1>2, <1>5, <2>1, Zenon DEF LinksOK
    <2> QED
      BY <2>2, Zenon DEF Linked
  <1>7. f.from \in Nat /\ f.num \in Nat
    BY <1>5, Zenon DEF StreamFrame
  <1>8. ASSUME NEW k \in 1 .. Len(obj[n])
        PROVE  /\ obj[n][k].got \in Seq(Nat \X Nat)
               /\ obj'[n][k].id = obj[n][k].id /\ obj'[n][k].wrote = obj[n][k].wrote
               /\ obj'[n][k].got = IF k \in Known(n) THEN Append(obj[n][k].got, <<f.from, f.num>>)
                                   ELSE obj[n][k].got
    <2>1. obj[n][k] \in Object
      BY <1>2, ObjectAt, Zenon
    <2>2. obj'[n][k].id = obj[n][k].id
      BY <1>4, Zenon DEF ObjStep, Evolves
    <2>3. /\ Dispatched(obj[n][k], f).wrote = obj[n][k].wrote
          /\ Dispatched(obj[n][k], f).got = Append(obj[n][k].got, <<f.from, f.num>>)
      BY <1>5, <2>1, DispatchedGets, Zenon
    <2>4. obj[n][k].got \in Seq(Nat \X Nat)
      BY <2>1, Zenon DEF Object
    <2> QED
      BY <1>3, <2>2, <2>3, <2>4, Zenon
  <1>9. \A w \in 1 .. Len(obj[p]) : w \in Nat /\ obj[p][w].wrote \in Nat
    <2>1. \A w \in 1 .. Len(obj[p]) : obj[p][w] \in Object /\ w \in Nat
      BY <1>1, <1>2, ObjectAt
    <2> QED
      BY <2>1, Zenon DEF Object
  <1> HIDE DEF p, f, q
  <1>10. ASSUME NEW w \in 1 .. Len(obj[p])
         PROVE  /\ Whole(<<>>, Tail(q), w, obj[p][w].wrote)
                /\ \A k \in 1 .. Len(obj[n]) :
                     managed'[n] /\ obj'[n][k].mgr = Len(allocated'[n]) /\ obj'[n][k].id = obj[p][w].id =>
                        Whole(obj'[n][k].got, Tail(q), w, obj[p][w].wrote)
    <2>1. Whole(<<>>, q, w, obj[p][w].wrote)
      BY <1>10, Zenon DEF OrderOK, p, q
    <2>2. Whole(<<>>, Tail(q), w, obj[p][w].wrote)
      BY <1>3, <1>5, <1>9, <2>1, WholeDrop, Zenon
    <2>3. ASSUME NEW k \in 1 .. Len(obj[n]), managed'[n], obj'[n][k].mgr = Len(allocated'[n]),
                 obj'[n][k].id = obj[p][w].id
          PROVE  Whole(obj'[n][k].got, Tail(q), w, obj[p][w].wrote)
      <3> DEFINE g == obj[n][k].got
                 hi == obj[p][w].wrote
      <3>1. managed[n] /\ obj[n][k].mgr = Len(allocated[n]) /\ obj[n][k].id = obj[p][w].id
        BY <1>2, <1>4, <1>8, <2>3, RegisteredOld, Zenon
      <3>2. Whole(g, q, w, hi)
        BY <1>10, <3>1, Zenon DEF OrderOK, p, q
      <3>3. k \in Known(n) <=> obj[n][k].id = f.id
        BY <3>1, Zenon DEF Known, Registered, Current, Objs, f
      <3>4. g \in Seq(Nat \X Nat) /\ w \in Nat /\ hi \in Nat
        BY <1>8, <1>9, Zenon
      <3> HIDE DEF g, hi
      <3>5. CASE f.from = w
        <4>1. k \in Known(n)
          BY <1>6, <3>1, <3>3, <3>5, Zenon
        <4>2. obj'[n][k].got = Append(g, <<w, f.num>>)
          BY <1>8, <3>5, <4>1, Zenon DEF g
        <4>3. 1 \in InQueue(q, w)
          BY <1>5, <3>5 DEF InQueue, f
        <4>4. Whole(Append(g, <<w, Head(q).num>>), Tail(q), w, hi)
          BY <1>3, <1>5, <3>2, <3>4, <4>3, WholeTake, Zenon
        <4> QED
          BY <4>2, <4>4, Zenon DEF f, q, hi
      <3>6. CASE f.from # w
        <4>1. Whole(g, Tail(q), w, hi)
          <5>1. Head(q).from # w
            BY <3>6, Zenon DEF f, q
          <5> QED
            BY <1>3, <1>5, <3>2, <5>1, WholeSkip, Zenon
        <4>2. Whole(Append(g, <<f.from, f.num>>), Tail(q), w, hi)
          BY <1>7, <3>4, <3>6, <4>1, WholeTakeOther, Zenon
        <4>3. obj'[n][k].got = g \/ obj'[n][k].got = Append(g, <<f.from, f.num>>)
          BY <1>8, Zenon DEF g
        <4> QED
          BY <4>1, <4>2, <4>3, Zenon DEF hi
      <3> QED
        BY <3>5, <3>6, Zenon
    <2> QED
      BY <2>2, <2>3, Zenon
  <1>11. ASSUME NEW w \in 1 .. Len(obj[n])
         PROVE  /\ Whole(<<>>, net[p], w, obj'[n][w].wrote)
                /\ \A k \in 1 .. Len(obj[p]) :
                     managed'[p] /\ obj[p][k].mgr = Len(allocated'[p]) /\ obj[p][k].id = obj'[n][w].id =>
                        Whole(obj[p][k].got, net[p], w, obj'[n][w].wrote)
    <2>1. obj'[n][w].wrote = obj[n][w].wrote /\ obj'[n][w].id = obj[n][w].id
      BY <1>8, Zenon
    <2>2. managed' = managed /\ allocated' = allocated
      BY Zenon DEF DispatchKnown, mgrVars
    <2> QED
      BY <1>1, <1>11, <2>1, <2>2, Zenon DEF OrderOK
  <1> SUFFICES ASSUME NEW m \in Nodes, NEW w \in 1 .. Len(obj'[Peer(m)])
               PROVE  /\ Whole(<<>>, net'[m], w, obj'[Peer(m)][w].wrote)
                      /\ \A k \in 1 .. Len(obj'[m]) :
                           managed'[m] /\ obj'[m][k].mgr = Len(allocated'[m]) /\ obj'[m][k].id = obj'[Peer(m)][w].id =>
                              Whole(obj'[m][k].got, net'[m], w, obj'[Peer(m)][w].wrote)
    BY Zenon DEF OrderOK
  <1>12. CASE m = n
    BY <1>3, <1>4, <1>10, <1>12, Zenon DEF p
  <1>13. CASE m = p
    BY <1>1, <1>3, <1>4, <1>11, <1>13, Zenon
  <1> QED
    BY <1>1, <1>12, <1>13, Zenon

\* A stream of n writes one more frame.
LEMMA OrderWrite ==
    ASSUME StreamInv, OrderOK(obj, managed, allocated, net), NEW n \in Nodes, NEW j \in Objs(n), Write(n, j)
    PROVE  OrderOK(obj', managed', allocated', net')
  <1> DEFINE p == Peer(n)
             hi == obj[n][j].wrote
             f == Frame(obj[n][j].id, "DATA", j, hi + 1)
             q == net[p]
  <1>1. p \in Nodes /\ p # n /\ Peer(p) = n /\ \A m \in Nodes : m = n \/ m = p
    BY Peers, Zenon
  <1>2. StreamTypes /\ j \in 1 .. Len(obj[n])
    BY Zenon DEF StreamInv, Objs
  <1>3. /\ StepOK(n) /\ Len(obj'[n]) = Len(obj[n])
        /\ obj'[n][j].got = obj[n][j].got /\ obj'[n][j].wrote = hi + 1
        /\ \A k \in 1 .. Len(obj[n]) : k # j => obj'[n][k] = obj[n][k]
        /\ net'[n] = net[n] /\ net'[p] = Append(q, f)
    BY WriteStep, Zenon
  <1>4. obj'[p] = obj[p] /\ ObjStep(n) /\ MgrStep
    BY <1>3, Zenon DEF StepOK, ObjStep
  <1>5. obj[n][j] \in Object /\ j \in Nat /\ q \in Seq(StreamFrame)
    BY <1>1, <1>2, ObjectAt DEF StreamTypes
  <1>6. hi \in Nat /\ f \in StreamFrame /\ f.flag = "DATA" /\ f.from = j /\ f.num = hi + 1
    BY <1>5 DEF Object, Frame, StreamFrame
  <1>7. managed' = managed /\ allocated' = allocated
    BY Zenon DEF Write, mgrVars
  <1>8. \A k \in 1 .. Len(obj[n]) : obj'[n][k].id = obj[n][k].id /\ obj'[n][k].got = obj[n][k].got
    BY <1>3, <1>4, Zenon DEF ObjStep, Evolves
  <1> HIDE DEF p, hi, f, q
  <1>9. ASSUME NEW g \in Seq(Nat \X Nat), NEW w \in 1 .. Len(obj[n]), Whole(g, q, w, obj[n][w].wrote)
        PROVE  Whole(g, Append(q, f), w, obj'[n][w].wrote)
    <2>1. CASE w = j
      <3>1. Whole(g, q, j, hi)
        BY <1>9, <2>1, Zenon DEF hi
      <3>2. Whole(g, Append(q, f), j, hi + 1)
        BY <1>5, <1>6, <3>1, WholeWrite, Zenon
      <3> QED
        BY <1>3, <2>1, <3>2, Zenon
    <2>2. CASE w # j
      <3>1. f.from # w
        BY <1>6, <2>2, Zenon
      <3>2. Whole(g, Append(q, f), w, obj[n][w].wrote)
        BY <1>5, <1>6, <1>9, <3>1, WholeOther, Zenon
      <3> QED
        BY <1>3, <2>2, <3>2, Zenon
    <2> QED
      BY <2>1, <2>2, Zenon
  <1>10. \A k \in 1 .. Len(obj[p]) : obj[p][k].got \in Seq(Nat \X Nat)
    <2>1. \A k \in 1 .. Len(obj[p]) : obj[p][k] \in Object
      BY <1>1, <1>2, ObjectAt, Zenon
    <2> QED
      BY <2>1, Zenon DEF Object
  <1>11. ASSUME NEW w \in 1 .. Len(obj[n])
         PROVE  /\ Whole(<<>>, Append(q, f), w, obj'[n][w].wrote)
                /\ \A k \in 1 .. Len(obj[p]) :
                     managed[p] /\ obj[p][k].mgr = Len(allocated[p]) /\ obj[p][k].id = obj[n][w].id =>
                        Whole(obj[p][k].got, Append(q, f), w, obj'[n][w].wrote)
    <2>1. /\ Whole(<<>>, q, w, obj[n][w].wrote)
          /\ \A k \in 1 .. Len(obj[p]) :
               managed[p] /\ obj[p][k].mgr = Len(allocated[p]) /\ obj[p][k].id = obj[n][w].id =>
                  Whole(obj[p][k].got, q, w, obj[n][w].wrote)
      BY <1>1, <1>11, Zenon DEF OrderOK, q
    <2>2. <<>> \in Seq(Nat \X Nat)
      OBVIOUS
    <2> QED
      BY <1>9, <1>10, <1>11, <2>1, <2>2, Zenon
  <1>12. ASSUME NEW w \in 1 .. Len(obj[p])
         PROVE  /\ Whole(<<>>, net[n], w, obj[p][w].wrote)
                /\ \A k \in 1 .. Len(obj[n]) :
                     managed'[n] /\ obj'[n][k].mgr = Len(allocated'[n]) /\ obj[n][k].id = obj[p][w].id =>
                        Whole(obj[n][k].got, net[n], w, obj[p][w].wrote)
    <2>1. Whole(<<>>, net[n], w, obj[p][w].wrote)
      BY <1>12, Zenon DEF OrderOK, p
    <2>2. ASSUME NEW k \in 1 .. Len(obj[n]), managed'[n], obj'[n][k].mgr = Len(allocated'[n]),
                 obj[n][k].id = obj[p][w].id
          PROVE  Whole(obj[n][k].got, net[n], w, obj[p][w].wrote)
      <3>1. managed[n] /\ obj[n][k].mgr = Len(allocated[n])
        BY <1>2, <1>4, <2>2, RegisteredOld, Zenon
      <3> QED
        BY <1>12, <2>2, <3>1, Zenon DEF OrderOK, p
    <2> QED
      BY <2>1, <2>2, Zenon
  <1> SUFFICES ASSUME NEW m \in Nodes, NEW w \in 1 .. Len(obj'[Peer(m)])
               PROVE  /\ Whole(<<>>, net'[m], w, obj'[Peer(m)][w].wrote)
                      /\ \A k \in 1 .. Len(obj'[m]) :
                           managed'[m] /\ obj'[m][k].mgr = Len(allocated'[m]) /\ obj'[m][k].id = obj'[Peer(m)][w].id =>
                              Whole(obj'[m][k].got, net'[m], w, obj'[Peer(m)][w].wrote)
    BY Zenon DEF OrderOK
  <1>13. CASE m = n
    <2>1. Peer(m) = p
      BY <1>13, Zenon DEF p
    <2>2. /\ net'[m] = net[n] /\ Len(obj'[m]) = Len(obj[n]) /\ obj'[Peer(m)] = obj[p]
          /\ w \in 1 .. Len(obj[p])
      BY <1>3, <1>4, <1>13, <2>1, Zenon
    <2>3. Whole(<<>>, net'[m], w, obj'[Peer(m)][w].wrote)
      BY <1>12, <2>2, Zenon
    <2>4. ASSUME NEW k \in 1 .. Len(obj'[m]), managed'[m], obj'[m][k].mgr = Len(allocated'[m]),
                 obj'[m][k].id = obj'[Peer(m)][w].id
          PROVE  Whole(obj'[m][k].got, net'[m], w, obj'[Peer(m)][w].wrote)
      <3>1. k \in 1 .. Len(obj[n]) /\ obj'[m][k].id = obj[n][k].id /\ obj'[m][k].got = obj[n][k].got
        BY <1>8, <1>13, <2>2, Zenon
      <3> QED
        BY <1>12, <1>13, <2>2, <2>4, <3>1, Zenon
    <2> QED
      BY <2>3, <2>4, Zenon
  <1>14. CASE m = p
    <2>1. Peer(m) = n
      BY <1>1, <1>14, Zenon
    <2>2. w \in 1 .. Len(obj[n]) /\ obj'[n][w].id = obj[n][w].id
      BY <1>3, <1>8, <2>1, Zenon
    <2>3. obj'[m] = obj[p] /\ net'[m] = Append(q, f) /\ managed'[m] = managed[p] /\ allocated'[m] = allocated[p]
      BY <1>3, <1>4, <1>7, <1>14, Zenon
    <2> QED
      BY <1>11, <2>1, <2>2, <2>3, Zenon
  <1> QED
    BY <1>1, <1>13, <1>14, Zenon

-----------------------------------------------------------------------------
\* The theorems

OrderInv ==
    StreamInv /\ FromOK(obj) /\ (~dropped => OrderOK(obj, managed, allocated, net))

LEMMA StreamsInitInv == StreamsInit => OrderInv
  <1> SUFFICES ASSUME StreamsInit
               PROVE  OrderInv
    BY Zenon
  <1> USE DEF StreamsInit
  <1>1. /\ \A n \in Nodes : /\ obj[n] = <<>> /\ net[n] = <<>> /\ allocated[n] = <<>>
                            /\ ~managed[n] /\ opening[n] = 0 /\ refusals[n] = {}
        /\ \A n \in Nodes : Peer(n) \in Nodes
    BY Peers, Zenon
  <1>2. \A n \in Nodes : Len(obj[n]) = 0 /\ Len(net[n]) = 0 /\ Len(allocated[n]) = 0
    BY <1>1, Zenon
  <1>3. 1 .. 0 = {}
    OBVIOUS
  <1>4. /\ obj \in [Nodes -> Seq(Object)] /\ allocated \in [Nodes -> Seq(Nat)]
        /\ managed \in [Nodes -> BOOLEAN] /\ opening \in [Nodes -> Nat]
        /\ net \in [Nodes -> Seq(StreamFrame)] /\ refusals \in [Nodes -> SUBSET Nat]
    OBVIOUS
  <1>5. StreamTypes
    BY <1>1, <1>2, <1>3, <1>4 DEF StreamTypes
  <1>6. OpeningOK(opening, allocated)
    BY <1>1, <1>2, <1>4 DEF OpeningOK
  <1>7. LinksOK(obj, net)
    BY <1>2, <1>3, <1>4, Zenon DEF LinksOK
  <1>8. FromOK(obj) /\ OrderOK(obj, managed, allocated, net)
    BY <1>1, <1>2, <1>3, Zenon DEF FromOK, OrderOK
  <1> QED
    BY <1>2, <1>3, <1>5, <1>6, <1>7, <1>8, Zenon DEF OrderInv, StreamInv

\* A quiet step gains nothing.
LEMMA QuietFrom ==
    ASSUME StreamTypes, FromOK(obj), NEW n \in Nodes, QuietStep(n)
    PROVE  FromOK(obj')
  <1>1. ObjStep(n) /\ \A k \in 1 .. Len(obj[n]) : obj'[n][k].got = obj[n][k].got
    BY Zenon DEF QuietStep, Still
  <1>2. \A k \in 1 .. Len(obj[n]) : Gains(obj[n][k].got, obj'[n][k].got, 1 .. Len(obj[Peer(n)]))
    BY <1>1, Zenon DEF Gains
  <1> QED
    BY <1>1, <1>2, FromKept, Zenon

LEMMA PlainInv ==
    ASSUME OrderInv, NEW n \in Nodes, StepOK(n), Plain(n)
    PROVE  OrderInv'
  <1>1. StreamInv /\ FromOK(obj) /\ StreamTypes /\ LinksOK(obj, net) /\ QuietStep(n) /\ MgrStep
    BY Zenon DEF OrderInv, StreamInv, Plain, StepOK
  <1>2. StreamInv' /\ FromOK(obj')
    BY <1>1, StepKeepsInv, QuietFrom, Zenon
  <1>3. ASSUME ~dropped'
        PROVE  OrderOK(obj', managed', allocated', net')
    <2>1. OrderOK(obj, managed, allocated, net)
      BY <1>3, Zenon DEF OrderInv, Plain
    <2>2. OrderOK(obj', managed', allocated', net)
      BY <1>1, <2>1, OrderQuiet, Zenon
    <2>3. net \in [Nodes -> Seq(StreamFrame)]
      BY <1>1, Zenon DEF StreamTypes
    <2> QED
      BY <2>2, <2>3, OrderFrames, Zenon
  <1> QED
    BY <1>2, <1>3, Zenon DEF OrderInv

LEMMA WriteInv ==
    ASSUME OrderInv, NEW n \in Nodes, NEW j \in Objs(n), Write(n, j)
    PROVE  OrderInv'
  <1>1. StreamInv /\ FromOK(obj) /\ StreamTypes
    BY Zenon DEF OrderInv, StreamInv
  <1>2. /\ StepOK(n) /\ dropped' = dropped
        /\ \A k \in 1 .. Len(obj[n]) : obj'[n][k].got = obj[n][k].got
    BY <1>1, WriteStep, Zenon DEF Objs
  <1>3. StreamInv'
    BY <1>1, <1>2, StepKeepsInv, Zenon
  <1>4. FromOK(obj')
    <2>1. \A k \in 1 .. Len(obj[n]) : Gains(obj[n][k].got, obj'[n][k].got, 1 .. Len(obj[Peer(n)]))
      BY <1>2, Zenon DEF Gains
    <2> QED
      BY <1>1, <1>2, <2>1, FromKept, Zenon DEF StepOK
  <1>5. ~dropped => OrderOK(obj', managed', allocated', net')
    BY <1>1, OrderWrite, Zenon DEF OrderInv
  <1> QED
    BY <1>2, <1>3, <1>4, <1>5, Zenon DEF OrderInv

LEMMA DispatchKnownInv ==
    ASSUME OrderInv, NEW n \in Nodes, DispatchKnown(n)
    PROVE  OrderInv'
  <1>1. StreamInv /\ FromOK(obj) /\ StreamTypes /\ LinksOK(obj, net)
    BY Zenon DEF OrderInv, StreamInv
  <1>2. CASE Head(net[n]).flag # "DATA"
    BY <1>1, <1>2, DispatchKnownObjects, DispatchKnownPlain, PlainInv, Zenon
  <1>3. CASE Head(net[n]).flag = "DATA"
    <2> DEFINE f == Head(net[n])
    <2>1. /\ StepOK(n) /\ net[n] # <<>>
          /\ \A k \in 1 .. Len(obj[n]) :
                obj'[n][k] = IF k \in Known(n) THEN Dispatched(obj[n][k], f) ELSE obj[n][k]
      BY <1>1, DispatchKnownObjects, Zenon
    <2>2. f \in StreamFrame /\ f = net[n][1] /\ Len(net[n]) \in Nat \ {0}
      BY <1>1, <2>1, HeadFrame, Zenon
    <2>3. f.from \in 1 .. Len(obj[Peer(n)]) /\ f.num \in Nat
      <3>1. 1 \in 1 .. Len(net[n])
        BY <2>2
      <3>2. Linked(obj[Peer(n)], f)
        BY <1>1, <2>2, <3>1, Zenon DEF LinksOK
      <3> QED
        BY <1>3, <2>2, <3>2, Zenon DEF Linked, StreamFrame
    <2>4. \A k \in 1 .. Len(obj[n]) : Dispatched(obj[n][k], f).got = Append(obj[n][k].got, <<f.from, f.num>>)
      BY <1>1, <1>3, <2>2, ObjectAt, DispatchedGets, Zenon
    <2> HIDE DEF f
    <2>5. \A k \in 1 .. Len(obj[n]) : Gains(obj[n][k].got, obj'[n][k].got, 1 .. Len(obj[Peer(n)]))
      <3> SUFFICES ASSUME NEW k \in 1 .. Len(obj[n])
                   PROVE  Gains(obj[n][k].got, obj'[n][k].got, 1 .. Len(obj[Peer(n)]))
        BY Zenon
      <3>1. CASE k \in Known(n)
        <4>1. obj'[n][k].got = Append(obj[n][k].got, <<f.from, f.num>>)
          BY <2>1, <2>4, <3>1, Zenon
        <4> QED
          BY <2>3, <4>1, Zenon DEF Gains
      <3>2. CASE k \notin Known(n)
        <4>1. obj'[n][k].got = obj[n][k].got
          BY <2>1, <3>2, Zenon
        <4> QED
          BY <4>1, Zenon DEF Gains
      <3> QED
        BY <3>1, <3>2, Zenon
    <2>6. StreamInv' /\ FromOK(obj')
      BY <1>1, <2>1, <2>5, StepKeepsInv, FromKept, Zenon DEF StepOK
    <2>7. ~dropped => OrderOK(obj', managed', allocated', net')
      BY <1>1, <1>3, OrderKnown, Zenon DEF OrderInv
    <2>8. dropped' = dropped
      BY Zenon DEF DispatchKnown
    <2> QED
      BY <2>6, <2>7, <2>8, Zenon DEF OrderInv
  <1> QED
    BY <1>2, <1>3, Zenon

\* A frame of an id that nobody knows.
LEMMA DispatchUnknownInv ==
    ASSUME OrderInv, NEW n \in Nodes, DispatchNew(n) \/ DispatchRefused(n) \/ DispatchIgnored(n)
    PROVE  OrderInv'
  <1> DEFINE f == Head(net[n])
             p == Peer(n)
  <1>1. StreamInv /\ FromOK(obj) /\ StreamTypes /\ LinksOK(obj, net)
    BY Zenon DEF OrderInv, StreamInv
  <1>2. /\ StepOK(n) /\ QuietStep(n) /\ net[n] # <<>> /\ dropped' = dropped
        /\ net'[n] = Tail(net[n]) /\ net'[p] = net[p]
    BY <1>1, DispatchNewStep, DispatchUnheardStep, Zenon
  <1>3. Known(n) = {}
    BY Zenon DEF DispatchNew, DispatchRefused, DispatchIgnored
  <1>4. StreamInv' /\ FromOK(obj')
    BY <1>1, <1>2, StepKeepsInv, QuietFrom, Zenon
  <1>5. ObjStep(n) /\ MgrStep /\ obj'[p] = obj[p]
    BY <1>2, Zenon DEF StepOK, ObjStep
  <1>6. Linked(obj'[p], f)
    <2>1. f = net[n][1] /\ 1 \in 1 .. Len(net[n])
      BY <1>1, <1>2, HeadFrame
    <2> QED
      BY <1>1, <1>5, <2>1, Zenon DEF LinksOK
  <1>7. \A w \in 1 .. Len(obj'[p]) : obj'[p][w].wrote \in Nat /\ w \in Nat
    <2>1. \A w \in 1 .. Len(obj[p]) : obj[p][w] \in Object /\ w \in Nat
      BY <1>1, Peers, ObjectAt
    <2> QED
      BY <1>5, <2>1, Zenon DEF Object
  <1>8. ASSUME NEW k \in 1 .. Len(obj'[n]), managed'[n], obj'[n][k].mgr = Len(allocated'[n]), obj'[n][k].id = f.id
        PROVE  obj'[n][k].got = <<>>
    <2>1. CASE k > Len(obj[n])
      BY <1>5, <1>8, <2>1, Zenon DEF ObjStep, Begins
    <2>2. CASE k \in 1 .. Len(obj[n])
      <3>1. managed[n] /\ obj[n][k].mgr = Len(allocated[n])
        BY <1>1, <1>5, <1>8, <2>2, RegisteredOld, Zenon
      <3>2. obj[n][k].id = f.id
        BY <1>5, <1>8, <2>2, Zenon DEF ObjStep, Evolves
      <3>3. k \in Known(n)
        BY <2>2, <3>1, <3>2, Zenon DEF Known, Registered, Current, Objs
      <3> QED
        BY <1>3, <3>3, Zenon
    <2> QED
      BY <1>1, <1>5, <1>8, <2>1, <2>2, OldAndNew, Zenon
  <1>9. ASSUME ~dropped
        PROVE  OrderOK(obj', managed', allocated', net')
    <2>1. OrderOK(obj', managed', allocated', net)
      BY <1>1, <1>2, <1>5, <1>9, OrderQuiet, Zenon DEF OrderInv
    <2>2. net \in [Nodes -> Seq(StreamFrame)]
      BY <1>1, Zenon DEF StreamTypes
    <2> QED
      BY <1>2, <1>6, <1>7, <1>8, <2>1, <2>2, OrderUnheard, Zenon
  <1> QED
    BY <1>2, <1>4, <1>9, Zenon DEF OrderInv

LEMMA StreamsNextInv ==
    ASSUME OrderInv, SidOK, LeaveOK, [StreamsNext]_streamVars
    PROVE  OrderInv'
  <1>1. StreamInv /\ FromOK(obj) /\ StreamTypes
    BY Zenon DEF OrderInv, StreamInv
  <1>2. ASSUME NEW n \in Nodes, OpenStream(n) \/ AllocateID(n) \/ StoreStream(n) \/ AcceptStream(n)
        PROVE  OrderInv'
    BY <1>1, <1>2, OpenStreamStep, AllocateIDStep, StoreStreamStep, AcceptStreamStep, PlainInv, Zenon
  <1>3. ASSUME NEW n \in Nodes, NEW k \in Objs(n), Write(n, k)
        PROVE  OrderInv'
    BY <1>3, WriteInv, Zenon
  <1>4. ASSUME NEW n \in Nodes, NEW k \in Objs(n), Close(n, k) \/ Reset(n, k) \/ Read(n, k) \/ ReadAgain(n, k)
        PROVE  OrderInv'
    BY <1>1, <1>4, CloseResetStep, ReadStep, PlainInv, Zenon
  <1>5. ASSUME NEW n \in Nodes, Dispatch(n)
        PROVE  OrderInv'
    <2>1. CASE peerGone(n)
      BY <1>1, <2>1, peerGoneStep, PlainInv, Zenon
    <2> QED
      BY <1>5, <2>1, DispatchKnownInv, DispatchUnknownInv, Zenon DEF Dispatch
  <1>6. ASSUME NEW n \in Nodes, NEW id \in refusals[n], sendRESET(n, id)
        PROVE  OrderInv'
    BY <1>1, <1>6, sendRESETStep, PlainInv, Zenon
  <1>7. ASSUME NEW n \in Nodes, Drop(n)
        PROVE  OrderInv'
    <2>1. StreamInv'
      BY <1>1, <1>7, DropStep, StepKeepsInv, Zenon
    <2>2. obj' = obj /\ dropped'
      BY <1>7, Zenon DEF Drop
    <2> QED
      BY <1>1, <2>1, <2>2, Zenon DEF OrderInv
  <1>8. ASSUME NEW n \in Nodes, NEW c \in leaving[n], SendLeave(n, c) \/ removeStream(n, c)
        PROVE  OrderInv'
    BY <1>1, <1>8, SendLeaveStep, removeStreamStep, PlainInv, Zenon
  <1>9. CASE UNCHANGED streamVars
    BY <1>1, <1>9, Zenon DEF OrderInv, StreamInv, StreamTypes, streamVars, mgrVars, frameVars
  <1> QED
    BY <1>2, <1>3, <1>4, <1>5, <1>6, <1>7, <1>8, <1>9, Zenon DEF StreamsNext

\* The id under way, while nothing is allocated.
LEMMA SidStays ==
    ASSUME StreamInv, SidOK, UNCHANGED <<opening, sid>>,
           allocated' = allocated \/ \E n \in Nodes : EnsureManager(n)
    PROVE  SidOK'
  <1>1. StreamTypes /\ OpeningOK(opening, allocated)
    BY Zenon DEF StreamInv
  <1>2. ASSUME NEW m \in Nodes, opening[m] # 0
        PROVE  allocated'[m][opening[m]] = allocated[m][opening[m]]
    <2>1. opening[m] \in 1 .. Len(allocated[m])
      <3>1. opening[m] \in Nat /\ opening[m] <= Len(allocated[m]) /\ Len(allocated[m]) \in Nat
        BY <1>1, AllocatedAt, Zenon DEF OpeningOK
      <3> QED
        BY <1>2, <3>1
    <2>2. ASSUME NEW n \in Nodes, EnsureManager(n)
          PROVE  allocated'[m][opening[m]] = allocated[m][opening[m]]
      <3>1. /\ allocated'[Peer(n)] = allocated[Peer(n)]
            /\ \A g \in 1 .. Len(allocated[n]) : allocated'[n][g] = allocated[n][g]
        BY <1>1, <2>2, Ensured, Zenon
      <3>2. CASE m = n
        BY <2>1, <3>1, <3>2
      <3>3. CASE m = Peer(n)
        BY <3>1, <3>3
      <3> QED
        BY <3>2, <3>3, Peers, Zenon
    <2> QED
      BY <2>2, Zenon
  <1>3. \A m \in Nodes : \A id \in sid[m] : Last(m, opening, allocated, id)
    BY Zenon DEF SidOK
  <1>4. ASSUME NEW m \in Nodes, NEW id \in sid[m]
        PROVE  Last(m, opening, allocated', id)
    <2>1. Last(m, opening, allocated, id)
      BY <1>3, <1>4, Zenon
    <2>2. opening[m] # 0 /\ allocated'[m][opening[m]] = allocated[m][opening[m]]
      BY <1>2, <2>1, Zenon DEF Last
    <2> QED
      BY <2>1, <2>2 DEF Last
  <1> QED
    BY <1>4, Zenon DEF SidOK

LEMMA SidKept ==
    ASSUME StreamInv, SidOK, [StreamsNext]_streamVars
    PROVE  SidOK'
  <1>1. StreamTypes /\ OpeningOK(opening, allocated) /\ opening \in [Nodes -> Nat] /\ sid \in [Nodes -> SUBSET Nat]
    BY Zenon DEF StreamInv, StreamTypes, SidOK
  <1> DEFINE Other(n) == /\ sid'[Peer(n)] = sid[Peer(n)] /\ opening'[Peer(n)] = opening[Peer(n)]
                         /\ allocated'[Peer(n)] = allocated[Peer(n)]
  <1>0. ASSUME NEW n \in Nodes, sid' \in [Nodes -> SUBSET Nat], Other(n),
               \A id \in sid'[n] : Last(n, opening', allocated', id)
        PROVE  SidOK'
    <2>1. ASSUME NEW m \in Nodes, NEW id \in sid'[m]
          PROVE  Last(m, opening', allocated', id)
      <3>1. CASE m = n
        BY <1>0, <2>1, <3>1, Zenon
      <3>2. CASE m = Peer(n)
        <4>1. id \in sid[m] /\ opening'[m] = opening[m] /\ allocated'[m] = allocated[m]
          BY <1>0, <2>1, <3>2
        <4>2. Last(m, opening, allocated, id)
          BY <4>1, Zenon DEF SidOK
        <4> QED
          BY <4>1, <4>2 DEF Last
      <3> QED
        BY <3>1, <3>2, Peers, Zenon
    <2> QED
      BY <1>0, <2>1, Zenon DEF SidOK
  <1> HIDE DEF Other
  <1>2. ASSUME NEW n \in Nodes, OpenStream(n)
        PROVE  SidOK'
    <2>1. sid' = sid /\ opening[n] = 0 /\ EnsureManager(n) /\ opening' = [opening EXCEPT ![n] = Manager(n)]
      BY <1>2, Zenon DEF OpenStream
    <2>2. sid[n] = {}
      BY <2>1, Zenon DEF SidOK, Last
    <2>3. Peer(n) \in Nodes /\ Peer(n) # n
      BY Peers, Zenon
    <2>4. allocated'[Peer(n)] = allocated[Peer(n)]
      BY <1>1, <2>1, Ensured, Zenon
    <2> QED
      BY <1>0, <1>1, <2>1, <2>2, <2>3, <2>4, Zenon DEF Other
  <1>3. ASSUME NEW n \in Nodes, AllocateID(n)
        PROVE  SidOK'
    <2> DEFINE g == opening[n]
               j == allocated[n][g]
    <2>1. /\ g # 0 /\ opening' = opening /\ sid' = [sid EXCEPT ![n] = {allocID(n, g)}]
          /\ allocated' = [allocated EXCEPT ![n][g] = @ + 1]
      BY <1>3, Zenon DEF AllocateID
    <2>2. g \in 1 .. Len(allocated[n]) /\ j \in Nat /\ allocated[n] \in Seq(Nat)
      <3>1. g \in Nat /\ g <= Len(allocated[n]) /\ Len(allocated[n]) \in Nat
        BY <1>1, AllocatedAt, Zenon DEF OpeningOK
      <3>2. g \in 1 .. Len(allocated[n])
        BY <2>1, <3>1
      <3> QED
        BY <1>1, <3>2, AllocatedAt, Zenon
    <2>3. allocID(n, g) \in Nat /\ allocID(n, g) = 2 * j + IF n = "lo" THEN 1 ELSE 0
      BY <2>2 DEF allocID
    <2>4. allocated'[n][g] = j + 1 /\ allocated'[Peer(n)] = allocated[Peer(n)]
      <3>1. allocated \in [Nodes -> Seq(Nat)] /\ DOMAIN allocated[n] = 1 .. Len(allocated[n])
        BY <1>1, <2>2 DEF StreamTypes
      <3> QED
        BY <2>1, <2>2, <3>1, Peers, Zenon
    <2>5. sid' \in [Nodes -> SUBSET Nat] /\ sid'[n] = {allocID(n, g)} /\ sid'[Peer(n)] = sid[Peer(n)]
      BY <1>1, <2>1, <2>3, Peers, Zenon
    <2>6. Last(n, opening', allocated', allocID(n, g))
      BY <2>1, <2>2, <2>3, <2>4, Zenon DEF Last
    <2> QED
      BY <1>0, <2>1, <2>4, <2>5, <2>6, Zenon DEF Other
  <1>4. ASSUME NEW n \in Nodes, StoreStream(n)
        PROVE  SidOK'
    <2>1. /\ sid' = [sid EXCEPT ![n] = {}] /\ opening' = [opening EXCEPT ![n] = 0]
          /\ allocated' = allocated
      BY <1>4, Zenon DEF StoreStream
    <2>2. Peer(n) \in Nodes /\ Peer(n) # n
      BY Peers, Zenon
    <2> QED
      BY <1>0, <1>1, <2>1, <2>2, Zenon DEF Other
  <1>5. ASSUME NEW n \in Nodes, Dispatch(n)
        PROVE  SidOK'
    <2>1. UNCHANGED <<opening, sid>> /\ (EnsureManager(n) \/ allocated' = allocated)
      BY <1>5, Zenon DEF Dispatch, DispatchKnown, DispatchNew, DispatchRefused, DispatchIgnored, peerGone, mgrVars
    <2> QED
      BY <2>1, SidStays, Zenon
  <1>6. CASE UNCHANGED mgrVars
    BY <1>6, SidStays, Zenon DEF mgrVars
  <1>7. ASSUME NEW n \in Nodes, NEW k \in Objs(n),
               Write(n, k) \/ Close(n, k) \/ Reset(n, k) \/ Read(n, k) \/ ReadAgain(n, k)
        PROVE  UNCHANGED mgrVars
    BY <1>7, Zenon DEF Write, Close, Reset, Read, ReadAgain
  <1>8. ASSUME NEW n \in Nodes,
               \/ AcceptStream(n) \/ Drop(n) \/ \E id \in refusals[n] : sendRESET(n, id)
               \/ \E c \in leaving[n] : SendLeave(n, c) \/ removeStream(n, c)
        PROVE  UNCHANGED mgrVars
    BY <1>8, Zenon DEF AcceptStream, Drop, sendRESET, SendLeave, removeStream
  <1>9. UNCHANGED streamVars => UNCHANGED mgrVars
    BY Zenon DEF streamVars
  <1> QED
    BY <1>2, <1>3, <1>4, <1>5, <1>6, <1>7, <1>8, <1>9, Zenon DEF StreamsNext

LEMMA LeaveKept ==
    ASSUME StreamInv, LeaveOK, [StreamsNext]_streamVars
    PROVE  LeaveOK'
  <1>1. events \in Nat /\ leaving \in [Nodes -> SUBSET LeaveCall]
    BY Zenon DEF LeaveOK
  <1>2. events' = events \/ Event => events' \in Nat
    BY <1>1 DEF Event
  <1>3. ASSUME NEW n \in Nodes, NEW k \in Objs(n), Close(n, k) \/ Reset(n, k)
        PROVE  LeaveOK'
    <2>1. obj[n][k].id \in Nat
      BY <1>3, ObjectAt, Zenon DEF StreamInv, Objs, Object
    <2>2. PICK flag \in {"CLOSE", "RESET"} : Leave(n, k, flag) /\ Event
      BY <1>3, Zenon DEF Close, Reset
    <2>3. [call |-> events', id |-> obj[n][k].id, flag |-> flag, sent |-> FALSE] \in LeaveCall
      BY <1>2, <2>1, <2>2, Zenon DEF LeaveCall
    <2> QED
      BY <1>1, <1>2, <2>2, <2>3, Zenon DEF Leave, LeaveOK
  <1>4. ASSUME NEW n \in Nodes, NEW c \in leaving[n], SendLeave(n, c) \/ removeStream(n, c)
        PROVE  LeaveOK'
    <2>0. c \in LeaveCall
      BY <1>1, <1>4, Zenon
    <2>1. [c EXCEPT !.sent = TRUE] \in LeaveCall
      BY <2>0 DEF LeaveCall
    <2>2. events' = events /\ (\/ leaving' = [leaving EXCEPT ![n] = (@ \ {c}) \cup {[c EXCEPT !.sent = TRUE]}]
                               \/ leaving' = [leaving EXCEPT ![n] = @ \ {c}])
      BY <1>4, Zenon DEF SendLeave, removeStream, frameVars
    <2> QED
      BY <1>1, <2>1, <2>2, Zenon DEF LeaveOK
  <1>5. ASSUME leaving' = leaving, events' = events \/ Event
        PROVE  LeaveOK'
    BY <1>1, <1>2, <1>5, Zenon DEF LeaveOK
  <1>6. ASSUME NEW n \in Nodes, NEW k \in Objs(n), Write(n, k) \/ Read(n, k) \/ ReadAgain(n, k)
        PROVE  LeaveOK'
    BY <1>5, <1>6, Zenon DEF Write, Read, ReadAgain, frameVars
  <1>7. ASSUME NEW n \in Nodes, Dispatch(n)
        PROVE  LeaveOK'
    BY <1>5, <1>7, Zenon DEF Dispatch, DispatchKnown, DispatchNew, DispatchRefused, DispatchIgnored, peerGone
  <1>8. ASSUME NEW n \in Nodes, \/ OpenStream(n) \/ AllocateID(n) \/ StoreStream(n) \/ AcceptStream(n)
                                \/ Drop(n) \/ \E id \in refusals[n] : sendRESET(n, id)
        PROVE  LeaveOK'
    BY <1>5, <1>8, Zenon DEF OpenStream, AllocateID, StoreStream, AcceptStream, Drop, sendRESET, frameVars
  <1>9. CASE UNCHANGED streamVars
    BY <1>5, <1>9, Zenon DEF streamVars, frameVars
  <1> QED
    BY <1>3, <1>4, <1>6, <1>7, <1>8, <1>9, Zenon DEF StreamsNext

LEMMA CallsInit == StreamsInit => SidOK /\ LeaveOK
  <1> SUFFICES ASSUME StreamsInit
               PROVE  SidOK /\ LeaveOK
    BY Zenon
  <1>1. 0 \in Nat
    OBVIOUS
  <1> QED
    BY <1>1, Zenon DEF StreamsInit, SidOK, LeaveOK

\* The invariant of the streams.
LEMMA StreamsInvariance == StreamsSpec => [](OrderInv /\ SidOK /\ LeaveOK)
  <1>1. ASSUME OrderInv, SidOK, LeaveOK, [StreamsNext]_streamVars
        PROVE  OrderInv' /\ SidOK' /\ LeaveOK'
    <2>1. StreamInv
      BY <1>1, Zenon DEF OrderInv
    <2> QED
      BY <1>1, <2>1, StreamsNextInv, SidKept, LeaveKept, Zenon
  <1> QED
    BY <1>1, StreamsInitInv, CallsInit, PTL DEF StreamsSpec

\* The streams of a node carry what the property says once they are whole.
LEMMA OrderHolds == OrderInv => NoGap
  <1> SUFFICES ASSUME OrderInv, ~dropped, NEW n \in Nodes, NEW k \in Objs(n), NEW w \in Objs(Peer(n)),
                      Registered(n, k), obj[Peer(n)][w].id = obj[n][k].id
               PROVE  /\ InOrder(n, k, w)
                      /\ \E first \in 1 .. (obj[Peer(n)][w].wrote + 1) :
                            Numbers(n, k, w) = first .. obj[Peer(n)][w].wrote
    BY Zenon DEF NoGap
  <1> DEFINE g == obj[n][k].got
             q == net[n]
             hi == obj[Peer(n)][w].wrote
  <1>1. /\ StreamTypes /\ LinksOK(obj, net) /\ OrderOK(obj, managed, allocated, net)
        /\ k \in 1 .. Len(obj[n]) /\ w \in 1 .. Len(obj[Peer(n)])
    BY Zenon DEF OrderInv, StreamInv, Objs
  <1>2. managed[n] /\ obj[n][k].mgr = Len(allocated[n])
    BY Zenon DEF Registered, Current
  <1>3. Whole(g, q, w, hi)
    BY <1>1, <1>2, Zenon DEF OrderOK
  <1>4. DOMAIN g = 1 .. Len(g) /\ DOMAIN q = 1 .. Len(q)
    <2>1. obj[n][k] \in Object
      BY <1>1, ObjectAt, Zenon
    <2>2. g \in Seq(Nat \X Nat) /\ q \in Seq(StreamFrame)
      BY <1>1, <2>1, Zenon DEF Object, StreamTypes
    <2> HIDE DEF g, q
    <2> QED
      BY <2>2
  <1>5. Got(n, k, w) = InGot(g, w)
    BY <1>4, Zenon DEF Got, InGot
  <1>6. Due(n, k, w) = InQueue(q, w)
    <2>1. \A i \in 1 .. Len(q) : q[i].flag = "DATA" /\ q[i].from = w => q[i].id = obj[n][k].id
      BY <1>1, Zenon DEF LinksOK, Linked
    <2> QED
      BY <1>4, <2>1, Zenon DEF Due, InQueue
  <1>7. Rising(g, q, w) => InOrder(n, k, w)
    BY <1>5, <1>6, Zenon DEF Rising, InOrder
  <1>8. Carried(g, q, w) = Numbers(n, k, w)
    BY <1>5, <1>6, Zenon DEF Carried, Numbers
  <1> HIDE DEF g, q
  <1> QED
    BY <1>3, <1>7, <1>8, Zenon DEF Whole

\* While no connection is lost, a stream has no gap, no duplicate and nothing out
\* of order, whatever opens, closes, resets and refusals go on around it, at any
\* number of streams and calls (dispatch, dispatchStreamFrame, OpenStream,
\* Close, Reset).
THEOREM NoGapTheorem == StreamsSpec => []NoGap
  BY OrderHolds, StreamsInvariance, PTL

\* No wakeup is lost: a Read that waits has nothing to return, whatever order
\* data, CLOSE, RESET and EndpointGone came in (Read, dispatch, rxCond).
THEOREM WakeupTheorem == StreamsSpec => []NoLostWakeup
  <1>1. OrderInv => NoLostWakeup
    BY Zenon DEF OrderInv, StreamInv, StreamTypes, NoLostWakeup, Awake, Objs
  <1> QED
    BY <1>1, StreamsInvariance, PTL

\* The id a node is about to allocate in its first manager is nowhere in use.
LEMMA NextIdFresh ==
    ASSUME StreamInv, NEW n \in Nodes, opening[n] = 1
    PROVE  \A p \in Nodes : \A k \in 1 .. Len(obj[p]) : obj[p][k].id # allocID(n, 1)
  <1> SUFFICES ASSUME NEW p \in Nodes, NEW k \in 1 .. Len(obj[p]), obj[p][k].id = allocID(n, 1)
               PROVE  FALSE
    BY Zenon
  <1> DEFINE id == obj[p][k].id
             bit(m) == IF m = "lo" THEN 1 ELSE 0
  <1>1. Given(allocated, id) /\ StreamTypes /\ OpeningOK(opening, allocated)
    BY Zenon DEF StreamInv
  <1>2. PICK m \in Nodes : \E g \in 1 .. Len(allocated[m]) : \E j \in Nat :
           j < allocated[m][g] /\ id = 2 * j + bit(m)
    BY <1>1, Zenon DEF Given
  <1>3. PICK g \in 1 .. Len(allocated[m]) : \E j \in Nat : j < allocated[m][g] /\ id = 2 * j + bit(m)
    BY <1>2, Zenon
  <1>4. PICK j \in Nat : j < allocated[m][g] /\ id = 2 * j + bit(m)
    BY <1>3, Zenon
  <1>5. id = 2 * allocated[n][1] + bit(n) /\ allocated[n][1] \in Nat
    <2>1. 1 \in 1 .. Len(allocated[n])
      BY <1>1, AllocatedAt DEF OpeningOK
    <2>2. allocated[n][1] \in Nat
      BY <1>1, <2>1, AllocatedAt, Zenon
    <2> QED
      BY <2>2, Zenon DEF allocID
  <1> HIDE DEF id
  <1>6. m = n /\ j = allocated[n][1]
    <2>1. bit(m) \in {0, 1} /\ bit(n) \in {0, 1} /\ (bit(m) = bit(n) => m = n)
      BY DEF Nodes
    <2> HIDE DEF bit
    <2>2. bit(m) = bit(n) /\ j = allocated[n][1]
      BY <1>4, <1>5, <2>1
    <2> QED
      BY <2>1, <2>2, Zenon
  <1>7. allocated[n][g] > allocated[n][1] /\ allocated[n][g] \in Nat
    BY <1>1, <1>3, <1>4, <1>6, AllocatedAt, Zenon
  <1>8. g > 1 => allocated[n][g] = 0
    BY <1>1, <1>3, <1>6 DEF OpeningOK
  <1>9. g = 1
    <2>1. Len(allocated[n]) \in Nat /\ g \in 1 .. Len(allocated[n])
      BY <1>1, <1>3, <1>6, AllocatedAt, Zenon
    <2>2. g \in Nat /\ g >= 1
      BY <2>1
    <2> QED
      BY <1>5, <1>7, <1>8, <2>2
  <1> QED
    BY <1>5, <1>7, <1>9

\* The id a node has allocated in its first manager is nowhere in use until it is stored.
Fresh ==
    \A n \in Nodes : opening[n] = 1 =>
       \A id \in sid[n] : \A p \in Nodes : \A k \in 1 .. Len(obj[p]) : obj[p][k].id # id

\* The ids of the two ends differ.
LEMMA TwoEnds ==
    ASSUME SidOK, NEW n \in Nodes, NEW a \in sid[n], NEW b \in sid[Peer(n)]
    PROVE  a # b
  <1>1. PICK i \in Nat : a = 2 * i + IF n = "lo" THEN 1 ELSE 0
    BY Zenon DEF SidOK, Last
  <1>2. PICK j \in Nat : b = 2 * j + IF Peer(n) = "lo" THEN 1 ELSE 0
    <2>1. Peer(n) \in Nodes
      BY Peers, Zenon
    <2>2. Last(Peer(n), opening, allocated, b)
      BY <2>1, Zenon DEF SidOK
    <2> QED
      BY <2>2, Zenon DEF Last
  <1>3. CASE n = "lo"
    BY <1>1, <1>2, <1>3 DEF Peer
  <1>4. CASE n = "hi"
    BY <1>1, <1>2, <1>4 DEF Peer
  <1> QED
    BY <1>3, <1>4, Zenon DEF Nodes

LEMMA FreshStep ==
    ASSUME StreamInv, SidOK, Fresh, NEW n \in Nodes, StepOK(n), sid' \in [Nodes -> SUBSET Nat],
           \A m \in Nodes : \A id \in sid'[m] : opening'[m] = 1 => id \in sid[m] /\ opening[m] = 1
    PROVE  Fresh'
  <1> SUFFICES ASSUME NEW m \in Nodes, opening'[m] = 1, NEW id \in sid'[m], NEW p \in Nodes,
                      NEW k \in 1 .. Len(obj'[p]), obj'[p][k].id = id
               PROVE  FALSE
    BY Zenon DEF Fresh
  <1>1. id \in sid[m] /\ \A q \in Nodes : \A i \in 1 .. Len(obj[q]) : obj[q][i].id # id
    BY Zenon DEF Fresh
  <1>2. StreamTypes /\ ObjStep(n)
    BY Zenon DEF StreamInv, StepOK
  <1>3. CASE p = Peer(n)
    BY <1>1, <1>2, <1>3, Zenon DEF ObjStep
  <1>4. CASE p = n /\ ~(k > Len(obj[n]))
    <2>1. k \in 1 .. Len(obj[n])
      BY <1>2, <1>4, ObjectAt DEF ObjStep
    <2> QED
      BY <1>1, <1>2, <1>4, <2>1, Zenon DEF ObjStep, Evolves
  <1>5. CASE p = n /\ k > Len(obj[n])
    <2>1. Comes(n, id)
      BY <1>5, Zenon DEF StepOK
    <2>2. Peer(n) \in Nodes
      BY Peers, Zenon
    <2>3. id \in sid[n] /\ sid'[n] = {}
      BY <1>1, <2>1, <2>2, Zenon DEF Comes
    <2>4. m = Peer(n)
      BY <2>3, Peers, Zenon
    <2>5. id \in sid[Peer(n)]
      BY <1>1, <2>4, Zenon
    <2> QED
      BY <2>3, <2>5, TwoEnds
  <1> QED
    BY <1>3, <1>4, <1>5, Peers, Zenon

LEMMA FreshNext ==
    ASSUME OrderInv, SidOK, LeaveOK, Fresh, [StreamsNext]_streamVars
    PROVE  Fresh'
  <1>1. StreamInv /\ StreamTypes /\ SidOK' /\ sid' \in [Nodes -> SUBSET Nat] /\ opening \in [Nodes -> Nat]
        /\ sid \in [Nodes -> SUBSET Nat]
    BY SidKept, Zenon DEF OrderInv, StreamInv, SidOK, StreamTypes
  <1>2. ASSUME NEW n \in Nodes, StepOK(n), UNCHANGED <<opening, sid>>
        PROVE  Fresh'
    BY <1>1, <1>2, FreshStep, Zenon
  <1>3. ASSUME NEW n \in Nodes, OpenStream(n)
        PROVE  Fresh'
    <2>0. sid' = sid /\ opening[n] = 0 /\ opening' = [opening EXCEPT ![n] = Manager(n)] /\ Peer(n) # n
      BY <1>3, Peers, Zenon DEF OpenStream
    <2>1. sid' = sid /\ sid[n] = {} /\ opening'[Peer(n)] = opening[Peer(n)]
      <3>1. Peer(n) \in Nodes
        BY Peers, Zenon
      <3>2. sid[n] = {}
        BY <2>0, Zenon DEF SidOK, Last
      <3> QED
        BY <1>1, <2>0, <3>1, <3>2
    <2>2. \A m \in Nodes : \A id \in sid'[m] : opening'[m] = 1 => id \in sid[m] /\ opening[m] = 1
      BY <2>1, Peers, Zenon
    <2>3. StepOK(n)
      BY <1>1, <1>3, OpenStreamStep, Zenon
    <2> QED
      BY <1>1, <2>2, <2>3, FreshStep, Zenon
  <1>4. ASSUME NEW n \in Nodes, AllocateID(n)
        PROVE  Fresh'
    <2>1. UNCHANGED <<obj, opening>> /\ sid'[n] = {allocID(n, opening[n])} /\ sid'[Peer(n)] = sid[Peer(n)]
      BY <1>1, <1>4, Peers, Zenon DEF AllocateID
    <2>2. ASSUME NEW m \in Nodes, opening[m] = 1, NEW id \in sid'[m], NEW p \in Nodes, NEW k \in 1 .. Len(obj[p])
          PROVE  obj[p][k].id # id
      <3>1. CASE m = n
        BY <1>1, <2>1, <2>2, <3>1, NextIdFresh, Zenon
      <3>2. CASE m = Peer(n)
        BY <2>1, <2>2, <3>2, Zenon DEF Fresh
      <3> QED
        BY <3>1, <3>2, Peers, Zenon
    <2> QED
      BY <2>1, <2>2, Zenon DEF Fresh
  <1>5. ASSUME NEW n \in Nodes, StoreStream(n)
        PROVE  Fresh'
    <2>0. sid' = [sid EXCEPT ![n] = {}] /\ opening' = [opening EXCEPT ![n] = 0]
      BY <1>5, Zenon DEF StoreStream
    <2>1. sid'[n] = {} /\ sid'[Peer(n)] = sid[Peer(n)] /\ opening'[Peer(n)] = opening[Peer(n)]
      <3>1. Peer(n) \in Nodes /\ Peer(n) # n
        BY Peers, Zenon
      <3> QED
        BY <1>1, <2>0, <3>1
    <2>2. \A m \in Nodes : \A id \in sid'[m] : opening'[m] = 1 => id \in sid[m] /\ opening[m] = 1
      BY <2>1, Peers, Zenon
    <2>3. StepOK(n)
      BY <1>1, <1>5, StoreStreamStep, Zenon
    <2> QED
      BY <1>1, <2>2, <2>3, FreshStep, Zenon
  <1>6. ASSUME NEW n \in Nodes, NEW k \in Objs(n),
               Write(n, k) \/ Close(n, k) \/ Reset(n, k) \/ Read(n, k) \/ ReadAgain(n, k)
        PROVE  Fresh'
    <2>1. UNCHANGED <<opening, sid>>
      BY <1>6, Zenon DEF Write, Close, Reset, Read, ReadAgain, mgrVars
    <2>2. StepOK(n)
      BY <1>1, <1>6, WriteStep, CloseResetStep, ReadStep, Zenon
    <2> QED
      BY <1>2, <2>1, <2>2, Zenon
  <1>7. ASSUME NEW n \in Nodes, Dispatch(n)
        PROVE  Fresh'
    <2>1. UNCHANGED <<opening, sid>>
      BY <1>7, Zenon DEF Dispatch, DispatchKnown, DispatchNew, DispatchRefused, DispatchIgnored, peerGone, mgrVars
    <2>2. StepOK(n)
      BY <1>1, <1>7, DispatchKnownObjects, DispatchNewStep, DispatchUnheardStep, peerGoneStep, Zenon DEF Dispatch
    <2> QED
      BY <1>2, <2>1, <2>2, Zenon
  <1>8. ASSUME NEW n \in Nodes, AcceptStream(n) \/ Drop(n) \/ \E id \in refusals[n] : sendRESET(n, id)
        PROVE  Fresh'
    <2>1. UNCHANGED <<opening, sid>>
      BY <1>8, Zenon DEF AcceptStream, Drop, sendRESET, mgrVars
    <2>2. StepOK(n)
      BY <1>1, <1>8, AcceptStreamStep, DropStep, sendRESETStep, Zenon
    <2> QED
      BY <1>2, <2>1, <2>2, Zenon
  <1>9. ASSUME NEW n \in Nodes, NEW c \in leaving[n], SendLeave(n, c) \/ removeStream(n, c)
        PROVE  Fresh'
    <2>1. UNCHANGED <<opening, sid>>
      BY <1>9, Zenon DEF SendLeave, removeStream, mgrVars
    <2>2. StepOK(n)
      BY <1>1, <1>9, SendLeaveStep, removeStreamStep, Zenon
    <2> QED
      BY <1>2, <2>1, <2>2, Zenon
  <1>10. CASE UNCHANGED streamVars
    BY <1>10, Zenon DEF Fresh, streamVars, mgrVars
  <1> QED
    BY <1>3, <1>4, <1>5, <1>6, <1>7, <1>8, <1>9, <1>10, Zenon DEF StreamsNext

\* An id of the first manager is nowhere in use between allocID and the store.
LEMMA FreshHolds == StreamsSpec => []Fresh
  <1>1. StreamsInit => Fresh
    BY Zenon DEF StreamsInit, Fresh
  <1> QED
    BY <1>1, FreshNext, StreamsInvariance, PTL DEF StreamsSpec

\* Opening at both ends at once never collides: a stream stored in the first
\* manager takes the place of no other (allocID, OpenStream).
THEOREM OpenFreshTheorem == StreamsSpec => OpenFresh
  <1>1. ASSUME OrderInv, Fresh, [StreamsNext]_streamVars, NEW n \in Nodes, opening[n] = 1, opening'[n] = 0,
               NEW k \in Objs(n), obj[n][k].mgr = 1
        PROVE  obj'[n][k].mgr = 1
    <2>1. StreamInv /\ StreamTypes
      BY <1>1, Zenon DEF OrderInv, StreamInv
    <2>2. StoreStream(n)
      <3>1. ASSUME NEW m \in Nodes, OpenStream(m) \/ StoreStream(m)
            PROVE  StoreStream(n)
        <4>1. opening \in [Nodes -> Nat]
          BY <2>1, Zenon DEF StreamTypes
        <4>2. CASE OpenStream(m)
          <5>1. opening'[n] = IF m = n THEN Manager(n) ELSE opening[n]
            BY <4>1, <4>2, Zenon DEF OpenStream
          <5>2. m # n
            BY <1>1, <4>2 DEF OpenStream
          <5> QED
            BY <1>1, <5>1, <5>2
        <4>3. CASE StoreStream(m)
          <5>1. opening'[n] = IF m = n THEN 0 ELSE opening[n]
            BY <4>1, <4>3, Zenon DEF StoreStream
          <5>2. m = n
            BY <1>1, <5>1
          <5> QED
            BY <4>3, <5>2, Zenon
        <4> QED
          BY <3>1, <4>2, <4>3, Zenon
      <3>2. opening' # opening
        BY <1>1
      <3>3. ~UNCHANGED streamVars
        BY <3>2, Zenon DEF streamVars, mgrVars
      <3>4. ASSUME NEW m \in Nodes, AcceptStream(m) \/ Dispatch(m) \/ Drop(m)
            PROVE  opening' = opening
        BY <3>4, Zenon DEF AcceptStream, Dispatch, DispatchKnown, DispatchNew, DispatchRefused, DispatchIgnored,
                    peerGone, Drop, mgrVars
      <3>5. ASSUME NEW m \in Nodes, NEW i \in Objs(m),
                   Write(m, i) \/ Close(m, i) \/ Reset(m, i) \/ Read(m, i) \/ ReadAgain(m, i)
            PROVE  opening' = opening
        BY <3>5, Zenon DEF Write, Close, Reset, Read, ReadAgain, mgrVars
      <3>6. ASSUME NEW m \in Nodes, NEW id \in refusals[m], sendRESET(m, id)
            PROVE  opening' = opening
        BY <3>6, Zenon DEF sendRESET, mgrVars
      <3>7. ASSUME NEW m \in Nodes, AllocateID(m) \/ \E c \in leaving[m] : SendLeave(m, c) \/ removeStream(m, c)
            PROVE  opening' = opening
        BY <3>7, Zenon DEF AllocateID, SendLeave, removeStream, mgrVars
      <3> QED
        BY <1>1, <3>1, <3>2, <3>3, <3>4, <3>5, <3>6, <3>7, Zenon DEF StreamsNext
    <2>0. PICK x \in sid[n] : obj' = [obj EXCEPT ![n] = Stored(@, newStream(x, opening[n], TRUE))]
      BY <2>2, Zenon DEF StoreStream
    <2>3. obj[n][k].id # x /\ k \in 1 .. Len(obj[n])
      BY <1>1, <2>0, Zenon DEF Objs, Fresh
    <2> DEFINE s == obj[n]
               o == newStream(x, 1, TRUE)
               h == [i \in DOMAIN s |-> IF s[i].mgr = o.mgr /\ s[i].id = o.id
                                        THEN [s[i] EXCEPT !.mgr = 0] ELSE s[i]]
    <2>4. obj' = [obj EXCEPT ![n] = Append(h, o)]
      BY <1>1, <2>0, Zenon DEF Stored
    <2>5. o.id = x
      BY Zenon DEF newStream
    <2>6. DOMAIN s = 1 .. Len(s) /\ Len(s) \in Nat
      BY <2>1, ObjectAt, Zenon
    <2>7. DOMAIN h = 1 .. Len(s) /\ h[k] = s[k] /\ h = [i \in DOMAIN h |-> h[i]]
      BY <2>3, <2>5, <2>6, Zenon
    <2> HIDE DEF h, o
    <2>8. Append(h, o)[k] = s[k]
      <3>1. Len(h) = Len(s)
        BY <2>6, <2>7
      <3> QED
        BY <2>3, <2>6, <2>7, <3>1
    <2>9. obj'[n] = Append(h, o)
      BY <2>1, <2>4, Zenon DEF StreamTypes
    <2> QED
      BY <1>1, <2>8, <2>9, Zenon
  <1>2. ASSUME OrderInv, Fresh, [StreamsNext]_streamVars
        PROVE  [\A n \in Nodes : opening[n] = 1 /\ opening'[n] = 0 =>
                  \A k \in Objs(n) : obj[n][k].mgr = 1 => obj'[n][k].mgr = 1]_streamVars
    BY <1>1, <1>2, Zenon
  <1> QED
    BY <1>2, StreamsInvariance, FreshHolds, PTL DEF StreamsSpec, OpenFresh

=============================================================================
