--------------------------- MODULE RelayFileProofs --------------------------
(***************************************************************************)
(* The file transfer for every size of file and batch and every number of  *)
(* streams and faults, while SendFile is called once: it implements        *)
(* FileDrop, keeps what it has received, and fails only for a cause.       *)
(*                                                                         *)
(* The invariant says that a handler at work meets the chunks in order,    *)
(* each at its own position: the batches that the sender cuts and the      *)
(* acknowledgements that the handler sends keep step, also when the        *)
(* handler is abandoned and another one writes to the same file.           *)
(***************************************************************************)
EXTENDS RelayFile, TLAPS

Types == {"INIT", "ACCEPT", "REJECT", "DATA", "ACK", "FIN", "DONE", "ERROR", "CANCEL"}
FrameSet == [type : Types, n : Nat]
Frames == Seq(FrameSet)

Shape ==
    /\ seq \in Nat /\ opened \in 0 .. MaxStreams /\ sends \in Nat /\ faults \in Nat
    /\ up \in [Streams -> Frames] /\ down \in [Streams -> Frames]
    /\ hpc \in [Streams -> {"none", "loop", "verified", "renamed", "delete", "failing", "ended"}]
    /\ hfile \in [Streams -> Files \cup {None}] /\ hpos \in [Streams -> Nat]
    /\ bitmap \in [Streams -> SUBSET Nat] /\ lastAck \in [Streams -> Nat]
    /\ tmp \in Files \cup {None} /\ saved \in Files \cup {None}
    /\ data \in [Files -> Seq({"ok", "cut"})]

\* SendFile is called once, and works on the stream it opened last.
Once ==
    /\ cur = opened /\ sends = (IF spc = "idle" THEN 0 ELSE 1)
    /\ spc = "idle" => opened = 0 /\ ~cancelled
    /\ spc \in {"accept", "send", "ack", "done", "ok"} => opened # 0
    /\ spc = "ack" => seq # 0

\* A stream whose INIT has not been read is the last one, and carries only that.
\* Only the first one has offset 0.
Waiting ==
    \A s \in Streams : hpc[s] = "none" =>
       /\ down[s] = <<>>
       /\ s > opened => up[s] = <<>>
       /\ s <= opened => /\ s = opened /\ spc \in {"accept", "failed"}
                         /\ Len(up[s]) = 1 /\ up[s][1].type = "INIT"
                         /\ up[s][1].n = 0 => tmp = None
       /\ tmp # s /\ saved # s
       /\ \A t \in Streams : hfile[t] # s

\* A handler at work meets chunks at its position, and at most one other frame
\* behind them.  FIN comes on the last stream, when the sender has nothing left to do.
InOrder ==
    /\ \A s \in Streams : hpc[s] = "loop" =>
          \A i \in 1 .. Len(up[s]) :
             /\ up[s][i].type \in {"DATA", "FIN", "CANCEL"}
             /\ i < Len(up[s]) => up[s][i].type = "DATA"
             /\ up[s][i].type = "DATA" => up[s][i].n = hpos[s] + i - 1 /\ up[s][i].n < Total
             /\ up[s][i].type = "FIN" => s = opened /\ spc \in {"done", "ok", "failed"}
    /\ \A s \in Streams : hpc[s] = "verified" => s = opened /\ spc \in {"done", "ok", "failed"}
    /\ \A s \in Streams : s > opened => hpc[s] = "none"

\* The batch that the sender waits for, or its acknowledgement, is on the way.
BatchWaits(s) ==
    \/ /\ up[s] # <<>> /\ down[s] = <<>> /\ lastAck[s] < seq /\ seq <= lastAck[s] + AckBatch
       /\ seq = lastAck[s] + AckBatch \/ seq = Total
    \/ /\ up[s] = <<>> /\ down[s] = <<Frame("ACK", seq - 1)>> /\ lastAck[s] = seq /\ seq # 0

\* The sender and the handler of its stream keep step.
Sync ==
    \A s \in Streams : s = opened /\ hpc[s] = "loop" =>
       /\ spc = "accept" => up[s] = <<>> /\ down[s] = <<Frame("ACCEPT", hpos[s])>> /\ lastAck[s] = hpos[s]
       /\ spc = "send" => up[s] = <<>> /\ down[s] = <<>> /\ lastAck[s] = hpos[s] /\ seq = hpos[s]
       /\ spc = "ack" => /\ \A i \in 1 .. Len(up[s]) : up[s][i].type = "DATA"
                         /\ seq = hpos[s] + Len(up[s]) /\ BatchWaits(s)
       /\ spc = "done" => up[s] = <<Frame("FIN", 0)>> /\ down[s] = <<>> /\ hpos[s] = Total
       /\ spc # "ok"

\* What handlers hold lies in their files; what was verified stays whole.
Disk ==
    /\ \A s \in Streams : hpc[s] = "loop" =>
          /\ hfile[s] \in Files /\ hpos[s] <= Len(data[hfile[s]])
          /\ bitmap[s] = 0 .. (hpos[s] - 1)
    /\ \A f \in Files : Len(data[f]) <= Total
    /\ saved # None => Whole(saved)
    /\ \A s \in Streams : hpc[s] = "verified" /\ tmp # None => Whole(tmp)
    /\ \A s \in Streams : hpc[s] = "renamed" => saved # None
    /\ \A s \in Streams : \A i \in 1 .. Len(down[s]) : down[s][i].type = "DONE" => saved # None

\* The one stream of a call without a fault and without a cancellation.
CleanStream ==
    /\ hpc[1] = "none" => spc = "accept" /\ up[1] = <<Frame("INIT", 0)>>
    /\ hpc[1] = "loop" => /\ spc \in {"accept", "send", "ack", "done"}
                          /\ tmp = 1 /\ hfile[1] = 1 /\ data[1] = [k \in 1 .. hpos[1] |-> "ok"]
    /\ hpc[1] = "verified" => tmp = 1 /\ Whole(1)
    /\ hpc[1] \in {"verified", "renamed"} => spc = "done" /\ down[1] = <<>>
    /\ hpc[1] \in {"delete", "ended"} => spc = "ok" \/ (spc = "done" /\ down[1] = <<Frame("DONE", 0)>>)
    /\ hpc[1] # "failing"

Clean ==
    faults = 0 /\ ~cancelled =>
       /\ spc # "failed" /\ opened <= 1 /\ broken = {}
       /\ \A s \in Streams : s \in rclosed => hpc[s] = "ended"
       /\ spc # "ok" => sclosed = {}
       /\ opened = 1 => CleanStream
       /\ opened = 0 => spc = "idle"

Inv == Shape /\ Once /\ Waiting /\ InOrder /\ Sync /\ Disk /\ Clean


\* Sequences of frames.
LEMMA TookProps ==
    ASSUME NEW S, NEW q \in Seq(S), q # <<>>
    PROVE  /\ Tail(q) \in Seq(S) /\ Len(Tail(q)) = Len(q) - 1 /\ Head(q) = q[1] /\ Len(q) # 0
           /\ \A i \in 1 .. Len(Tail(q)) : Tail(q)[i] = q[i + 1]
           /\ Head(q) \in S
<1>1. Tail(q) \in Seq(S) OBVIOUS
<1>2. Len(Tail(q)) = Len(q) - 1 /\ Len(q) # 0 OBVIOUS
<1>3. Head(q) = q[1] /\ Head(q) \in S OBVIOUS
<1>4. \A i \in 1 .. Len(Tail(q)) : Tail(q)[i] = q[i + 1] OBVIOUS
<1> QED BY <1>1, <1>2, <1>3, <1>4, Zenon

\* A function on 1 .. n is a sequence.
LEMMA CellsAreSeq == \A S : \A n \in Nat : \A q \in [1 .. n -> S] : q \in Seq(S)
  OBVIOUS

\* A frame appended to a stream.
LEMMA SentProps ==
    ASSUME NEW S, NEW q \in Seq(S), NEW f \in S
    PROVE  /\ Append(q, f) \in Seq(S) /\ Len(Append(q, f)) = Len(q) + 1
           /\ Append(q, f)[Len(q) + 1] = f
           /\ \A i \in 1 .. Len(q) : Append(q, f)[i] = q[i]
<1>1. Append(q, f) \in Seq(S) OBVIOUS
<1>2. Len(Append(q, f)) = Len(q) + 1 OBVIOUS
<1>3. Append(q, f)[Len(q) + 1] = f OBVIOUS
<1>4. \A i \in 1 .. Len(q) : Append(q, f)[i] = q[i] OBVIOUS
<1> QED BY <1>1, <1>2, <1>3, <1>4, Zenon

\* A frame sent on a stream that carries nothing.
LEMMA FirstSent == ASSUME NEW f PROVE Append(<<>>, f) = <<f>> 
 OBVIOUS

\* A frame is one of the frames that streams carry.
LEMMA FrameType ==
    ASSUME NEW t \in Types, NEW n \in Nat
    PROVE  Frame(t, n) \in FrameSet /\ Frame(t, n).type = t /\ Frame(t, n).n = n
  BY Zenon DEF Frame, FrameSet

\* A stream that carries one frame.
LEMMA OneFrame ==
    ASSUME NEW S, NEW f \in S
    PROVE  /\ <<f>> \in Seq(S) /\ <<f>> # <<>> /\ Len(<<f>>) = 1 /\ <<f>>[1] = f /\ Head(<<f>>) = f
           /\ Tail(<<f>>) = <<>>
  OBVIOUS

-----------------------------------------------------------------------------
\* Steps of SendFile

\* SendFile fails.
LEMMA SendFails ==
    ASSUME Inv, spc' = "failed", spc \in {"accept", "send", "ack", "done"},
           UNCHANGED <<seq, opened, cur, sends, up, down, sesVars, diskVars>>,
           faults' \in Nat, ~(faults' = 0 /\ ~cancelled')
    PROVE  Inv'
<1> USE DEF Inv, sesVars, diskVars
<1>1. Shape' BY Zenon DEF Shape
<1>2. Once' BY Zenon DEF Once
<1>3. Waiting' BY Zenon DEF Waiting
<1>4. InOrder' BY Zenon DEF InOrder
<1>5. Sync' BY Zenon DEF Sync
<1>6. Disk' BY Zenon DEF Disk, Whole
<1>7. Clean' BY Zenon DEF Clean
<1> QED BY <1>1, <1>2, <1>3, <1>4, <1>5, <1>6, <1>7, Zenon

\* A fault is counted.
LEMMA FaultCounts ==
    ASSUME Inv, Fault PROVE faults' \in Nat /\ faults' # 0
  BY DEF Inv, Shape, Fault

\* A call without a fault and without a cancellation uses stream 1.
LEMMA CleanCalls ==
    ASSUME Inv, faults = 0, ~cancelled, spc \in {"accept", "send", "ack", "done"}
    PROVE  /\ opened = 1 /\ cur = 1 /\ CleanStream /\ broken = {} /\ 1 \in Streams
           /\ hpc[1] = "none" => down[1] = <<>>
           /\ hpc[1] = "loop" /\ spc = "accept" => down[1] = <<Frame("ACCEPT", hpos[1])>>
           /\ hpc[1] = "loop" /\ spc = "done" => down[1] = <<>>
           /\ hpc[1] # "ended" => 1 \notin rclosed
<1>1. opened = 1 /\ cur = 1 /\ CleanStream /\ broken = {}
  BY RelayFileAssumption DEF Inv, Once, Clean, Shape
<1>2. 1 \in Streams BY RelayFileAssumption DEF Streams
<1> QED BY <1>1, <1>2, Zenon DEF Inv, Waiting, Sync, Clean

\* SendFile gets REJECT, or no answer to INIT.
LEMMA AcceptFailsStep == ASSUME Inv, AcceptFails PROVE Inv'
<1>1. ASSUME faults = 0, ~cancelled PROVE FALSE
  <2>1. hpc[1] \in {"none", "loop"} /\ cur = 1 /\ 1 \notin rclosed /\ broken = {}
    BY <1>1, CleanCalls, Zenon DEF AcceptFails, CleanStream, Inv, Shape
  <2>2. down[1] = <<>> \/ down[1] = <<Frame("ACCEPT", hpos[1])>>
    BY <1>1, <2>1, CleanCalls, Zenon DEF AcceptFails
  <2>3. CASE down[1] = <<>> BY <2>1, <2>3, Zenon DEF AcceptFails, Gets, ReadFails
  <2>4. CASE down[1] = <<Frame("ACCEPT", hpos[1])>>
    BY <2>1, <2>4 DEF AcceptFails, Gets, ReadFails, Frame
  <2> QED BY <2>2, <2>3, <2>4, Zenon
<1> QED BY <1>1, SendFails, Zenon DEF AcceptFails, Return, Inv, Shape

\* SendFile cannot write.
LEMMA WriteErrorStep == ASSUME Inv, WriteError PROVE Inv'
<1>1. ASSUME faults = 0, ~cancelled PROVE FALSE
  BY <1>1, CleanCalls, Zenon DEF WriteError, WriteFails, CleanStream, Inv, Shape
<1> QED BY <1>1, SendFails, Zenon DEF WriteError, Return, Inv, Shape

\* SendFile gets no acknowledgement and cannot open another stream.
LEMMA ResumeFailsStep == ASSUME Inv, ResumeFails PROVE Inv'
<1>1. faults' \in Nat /\ ~(faults' = 0 /\ ~cancelled')
  BY FaultCounts, Zenon DEF ResumeFails, Unless, Inv, Shape
<1> QED BY <1>1, SendFails, Zenon DEF ResumeFails

\* SendFile gets no DONE.
LEMMA DoneFailsStep == ASSUME Inv, DoneFails PROVE Inv'
<1>1. ASSUME faults = 0, ~cancelled, ReadFails \/ Gets({"ERROR"}) PROVE FALSE
  <2>1. cur = 1 /\ broken = {} BY <1>1, CleanCalls, Zenon DEF DoneFails
  <2>2. hpc[1] \in {"delete", "ended"} => down[1] = <<Frame("DONE", 0)>>
    BY <1>1, CleanCalls, Zenon DEF DoneFails, CleanStream
  <2>3. hpc[1] \in {"loop", "verified", "renamed"} => down[1] = <<>> /\ 1 \notin rclosed
    BY <1>1, CleanCalls, Zenon DEF DoneFails, CleanStream
  <2>4. hpc[1] \in {"loop", "verified", "renamed", "delete", "ended"}
    BY <1>1, CleanCalls, Zenon DEF DoneFails, CleanStream, Inv, Shape
  <2>5. CASE down[1] = <<Frame("DONE", 0)>> BY <1>1, <2>1, <2>5 DEF Gets, ReadFails, Frame
  <2>6. CASE down[1] = <<>> /\ 1 \notin rclosed BY <1>1, <2>1, <2>6, Zenon DEF Gets, ReadFails
  <2> QED BY <2>2, <2>3, <2>4, <2>5, <2>6, Zenon
<1>2. faults' \in Nat /\ ~(faults' = 0 /\ ~cancelled')
  BY <1>1, FaultCounts, Zenon DEF DoneFails, Unless, Inv, Shape
<1> QED BY <1>2, SendFails, Zenon DEF DoneFails, Return

\* The caller cancels.
LEMMA CancelSenderStep == ASSUME Inv, CancelSender PROVE Inv'
<1> USE DEF Inv, CancelSender, netVars, sesVars, diskVars
<1>1. Shape' BY Zenon DEF Shape
<1>2. Once' BY Zenon DEF Once
<1>3. Waiting' BY Zenon DEF Waiting
<1>4. InOrder' BY Zenon DEF InOrder
<1>5. Sync' BY Zenon DEF Sync, BatchWaits
<1>6. Disk' BY Zenon DEF Disk, Whole
<1>7. Clean' BY Zenon DEF Clean
<1> QED BY <1>1, <1>2, <1>3, <1>4, <1>5, <1>6, <1>7, Zenon

\* A stream is opened when every handler before has read its INIT.
LEMMA OpenStep ==
    ASSUME Inv, NEW offset \in Nat, OpenStream(offset), spc \in {"idle", "ack"},
           offset = 0 => tmp = None, sends' = 1, seq' \in Nat, faults' \in Nat,
           UNCHANGED <<down, sesVars, diskVars>>, Clean'
    PROVE  Inv'
<1> USE DEF sesVars, diskVars
<1> DEFINE s == opened + 1
<1>1. /\ Shape /\ Once /\ Waiting /\ InOrder /\ Disk /\ s \in Streams
      /\ opened' = s /\ cur' = s /\ spc' = "accept"
  <2>1. Shape /\ Once /\ Waiting /\ InOrder /\ Disk BY Zenon DEF Inv
  <2>2. opened' = s /\ cur' = s /\ spc' = "accept" /\ opened < MaxStreams BY Zenon DEF OpenStream
  <2>3. opened \in 0 .. MaxStreams /\ MaxStreams \in Nat BY <2>1, RelayFileAssumption, Zenon DEF Shape
  <2>4. s \in Streams BY ONLY <2>2, <2>3 DEF Streams
  <2> QED BY <2>1, <2>2, <2>4, Zenon
<1>2. hpc[s] = "none" BY <1>1 DEF InOrder, Shape
<1>3. up[s] = <<>> BY <1>1, <1>2 DEF Waiting, Shape
<1>4. up' = [up EXCEPT ![s] = <<Frame("INIT", offset)>>]
  BY <1>1, <1>3, FirstSent, Zenon DEF OpenStream, Send, Shape
<1>5. /\ <<Frame("INIT", offset)>> \in Frames /\ Len(<<Frame("INIT", offset)>>) = 1
      /\ <<Frame("INIT", offset)>>[1].type = "INIT" /\ <<Frame("INIT", offset)>>[1].n = offset
  BY FrameType, OneFrame DEF Types, Frames
<1>6. /\ up'[s] = <<Frame("INIT", offset)>>
      /\ \A t \in Streams : t # s => up'[t] = up[t]
  BY <1>1, <1>4, Zenon DEF Shape
<1>7. Shape'
  <2>1. up' \in [Streams -> Frames] BY <1>1, <1>4, <1>5, Zenon DEF Shape
  <2>2. opened' \in 0 .. MaxStreams BY <1>1, RelayFileAssumption DEF Shape, Streams
  <2> QED BY <1>1, <2>1, <2>2, Zenon DEF Shape
<1>8. Once' BY <1>1 DEF Once, Shape
<1>9. Waiting' 
  <2>1. \A t \in Streams : hpc[t] = "none" => t > opened BY <1>1 DEF Waiting, Shape, Streams
  <2>2. ASSUME NEW t \in Streams, hpc[t] = "none"
        PROVE  /\ t > s => up'[t] = <<>>
               /\ t <= s => t = s
    BY <1>1, <1>6, <2>1, <2>2 DEF Waiting, Streams, Shape
  <2>3. Len(up'[s]) = 1 /\ up'[s][1].type = "INIT" /\ (up'[s][1].n = 0 => tmp = None)
    BY <1>5, <1>6, Zenon
  <2> QED BY <1>1, <2>2, <2>3, Zenon DEF Waiting
<1>10. InOrder'
  <2>1. \A t \in Streams : hpc[t] = "loop" => up'[t] = up[t] /\ t # s BY <1>2, <1>6, Zenon
  <2>2. \A t \in Streams : hpc[t] = "loop" => \A i \in 1 .. Len(up[t]) : up[t][i].type # "FIN"
    BY <1>1, Zenon DEF InOrder
  <2>3. \A t \in Streams : t > s => hpc[t] = "none" BY <1>1 DEF InOrder, Shape, Streams
  <2>4. \A t \in Streams : hpc[t] # "verified" BY <1>1, Zenon DEF InOrder
  <2> QED BY <1>1, <2>1, <2>2, <2>3, <2>4, Zenon DEF InOrder
<1>11. Sync' BY <1>1, <1>2, Zenon DEF Sync
<1>12. Disk' BY <1>1, Zenon DEF Disk, Whole
<1> QED BY <1>7, <1>8, <1>9, <1>10, <1>11, <1>12, Zenon DEF Inv

\* SendFile is called.
LEMMA StartSendStep == ASSUME MaxSends <= 1, Inv, StartSend PROVE Inv'
<1>1. spc = "idle" /\ sends = 0 /\ opened = 0
  BY RelayFileAssumption DEF StartSend, Inv, Once, Shape
<1>2. tmp = None /\ \A s \in Streams : hpc[s] = "none" BY <1>1 DEF Inv, InOrder, Waiting, Shape, Streams, Files
<1>3. 1 \in Streams BY RelayFileAssumption DEF Streams
<1>4. Clean'
  <2>a. up[1] = <<>> BY <1>1, <1>2, <1>3 DEF Inv, Waiting
  <2>b. up' = [up EXCEPT ![1] = Append(@, Frame("INIT", 0))]
    BY <1>1 DEF StartSend, OpenStream, Send
  <2>1. up'[1] = <<Frame("INIT", 0)>>
    BY <1>3, <2>a, <2>b, FirstSent, Zenon DEF Inv, Shape
  <2>2. CleanStream'
    BY <1>2, <1>3, <2>1, Zenon DEF StartSend, OpenStream, CleanStream, sesVars
  <2>3. opened' = 1 BY <1>1 DEF StartSend, OpenStream
  <2>4. faults = 0 => broken = {} /\ sclosed = {} /\ \A s \in Streams : s \notin rclosed
    BY <1>1, <1>2, Zenon DEF Inv, Once, Clean
  <2> QED BY <2>2, <2>3, <2>4 DEF StartSend, OpenStream, Clean
<1> QED BY <1>1, <1>2, <1>4, OpenStep DEF StartSend, Inv, Shape

\* SendFile goes on with another stream.
LEMMA ResumeStep == ASSUME Inv, Resume PROVE Inv'
<1>1. spc = "ack" /\ seq # 0 /\ seq \in Nat /\ sends = 1 BY Zenon DEF Resume, Inv, Once, Shape
<1>2. ASSUME faults = 0 PROVE ~(ReadFails \/ Gets({"ERROR"}))
  <2>1. ~cancelled BY Zenon DEF Resume
  <2>2. cur = 1 /\ broken = {} /\ hpc[1] = "loop" /\ 1 \notin rclosed /\ 1 \in Streams /\ opened = 1
    BY <1>1, <1>2, <2>1, CleanCalls, Zenon DEF CleanStream, Inv, Shape
  <2>3. down[1] = <<>> \/ down[1] = <<Frame("ACK", seq - 1)>>
    BY <1>1, <2>2, Zenon DEF Inv, Sync, BatchWaits
  <2> QED BY <2>2, <2>3 DEF ReadFails, Gets, Frame
<1>3. faults' \in Nat /\ faults' # 0 
  BY <1>2, FaultCounts, Zenon DEF Resume, Unless, Inv, Shape
<1>4. Clean' BY <1>3, Zenon DEF Clean
<1> QED BY <1>1, <1>3, <1>4, OpenStep, Zenon DEF Resume

\* SendFile is called and can open no stream.
LEMMA OpenFailsStep == ASSUME MaxSends <= 1, Inv, OpenFails PROVE Inv'
<1> USE DEF netVars, sesVars, diskVars
<1>1. spc = "idle" /\ sends = 0 /\ opened = 0 /\ spc' = "failed" /\ sends' = 1
  BY RelayFileAssumption DEF OpenFails, Inv, Once, Shape
<1>2. /\ UNCHANGED <<seq, cur, opened, up, down, sesVars, diskVars>>
      /\ faults' \in Nat /\ faults' # 0
  BY FaultCounts, Zenon DEF OpenFails
<1>3. Shape' BY <1>1, <1>2, Zenon DEF Inv, Shape
<1>4. Once' BY <1>1, <1>2, Zenon DEF Inv, Once
<1>5. Waiting' BY <1>1, <1>2, Zenon DEF Inv, Waiting
<1>6. InOrder' BY <1>1, <1>2, Zenon DEF Inv, InOrder
<1>7. Sync' BY <1>1, <1>2, Zenon DEF Inv, Sync
<1>8. Disk' BY <1>1, <1>2, Zenon DEF Inv, Disk, Whole
<1>9. Clean' BY <1>2, Zenon DEF Clean
<1> QED BY <1>3, <1>4, <1>5, <1>6, <1>7, <1>8, <1>9, Zenon DEF Inv

\* Frames that a handler at position p can meet while the sender is at pc.
Ordered(u, p, pc) ==
    \A i \in 1 .. Len(u) :
       /\ u[i].type \in {"DATA", "FIN", "CANCEL"}
       /\ i < Len(u) => u[i].type = "DATA"
       /\ u[i].type = "DATA" => u[i].n = p + i - 1 /\ u[i].n < Total
       /\ u[i].type = "FIN" => pc \in {"done", "ok", "failed"}

\* SendFile reads from its stream or writes to it.
LEMMA SenderMoves ==
    ASSUME Inv, NEW u \in Frames, NEW d \in Frames,
           up' = [up EXCEPT ![cur] = u], down' = [down EXCEPT ![cur] = d],
           d = down[cur] \/ (down[cur] # <<>> /\ d = Tail(down[cur])),
           spc \in {"accept", "send", "ack", "done"}, spc' \in {"send", "ack", "done", "ok", "failed"},
           spc = "done" => spc' \in {"done", "ok", "failed"},
           hpc[cur] # "none", seq' \in Nat, spc' = "ack" => seq' # 0, faults' \in Nat,
           hpc[cur] = "loop" => Ordered(u, hpos[cur], spc'),
           UNCHANGED <<cur, opened, sends, cancelled, sesVars, diskVars>>, Sync', Clean'
    PROVE  Inv'
<1> USE DEF sesVars, diskVars
<1>1. Shape /\ Once /\ Waiting /\ InOrder /\ Sync /\ Disk /\ cur = opened
  BY Zenon DEF Inv, Once
<1>2. cur \in Streams BY <1>1, RelayFileAssumption DEF Once, Shape, Streams
<1>3. /\ up'[cur] = u /\ down'[cur] = d
      /\ \A t \in Streams : t # cur => up'[t] = up[t] /\ down'[t] = down[t]
  BY <1>1, <1>2, Zenon DEF Shape
<1>4. Shape' BY <1>1, <1>2, Zenon DEF Shape
<1>5. Once' BY <1>1, Zenon DEF Once
<1>6. Waiting' BY <1>1, <1>3, Zenon DEF Waiting
<1>7. InOrder'
  <2>1. \A t \in Streams : t # cur => t # opened BY <1>1, Zenon
  <2>2. ASSUME NEW t \in Streams, t # cur, hpc[t] = "loop", NEW i \in 1 .. Len(up'[t])
        PROVE  /\ up'[t][i].type \in {"DATA", "CANCEL"}
               /\ i < Len(up'[t]) => up'[t][i].type = "DATA"
               /\ up'[t][i].type = "DATA" => up'[t][i].n = hpos[t] + i - 1 /\ up'[t][i].n < Total
    BY <1>1, <1>3, <2>1, <2>2 DEF InOrder
  <2>3. ASSUME NEW t \in Streams, hpc[t] = "verified" PROVE t = opened /\ spc' \in {"done", "ok", "failed"}
    BY <1>1, <2>3, Zenon DEF InOrder
  <2> QED BY <1>1, <1>3, <2>2, <2>3 DEF InOrder, Ordered
<1>8. Disk'
  <2>1. \A i \in 1 .. Len(d) : d[i].type = "DONE" => saved # None
    <3>1. CASE d = down[cur] BY <1>1, <1>2, <3>1, Zenon DEF Disk
    <3>2. CASE down[cur] # <<>> /\ d = Tail(down[cur])
      <4>1. Len(d) = Len(down[cur]) - 1 /\ (\A i \in 1 .. Len(d) : d[i] = down[cur][i + 1]) /\ Len(down[cur]) \in Nat
        BY <1>1, <1>2, <3>2, TookProps DEF Shape, Frames
      <4>2. \A i \in 1 .. Len(down[cur]) : down[cur][i].type = "DONE" => saved # None
        BY <1>1, <1>2, Zenon DEF Disk
      <4>3. ASSUME NEW i \in 1 .. Len(d), d[i].type = "DONE" PROVE saved # None
        <5>1. i + 1 \in 1 .. Len(down[cur]) /\ d[i] = down[cur][i + 1] BY <4>1
        <5> QED BY <4>2, <4>3, <5>1, Zenon
      <4> QED BY <4>3, Zenon
    <3> QED BY <3>1, <3>2, Zenon
  <2>2. \A t \in Streams : \A i \in 1 .. Len(down'[t]) : down'[t][i].type = "DONE" => saved # None
    BY <1>1, <1>3, <2>1, Zenon DEF Disk
  <2> QED BY <1>1, <2>2, Zenon DEF Disk, Whole
<1> QED BY <1>4, <1>5, <1>6, <1>7, <1>8, Zenon DEF Inv

\* ACCEPT carries the position of the handler.
LEMMA ReadAcceptStep == ASSUME Inv, ReadAccept PROVE Inv'
<1>1. /\ Shape /\ Waiting /\ Sync /\ InOrder /\ cur = opened /\ cur \in Streams /\ spc = "accept" /\ spc' = "send"
      /\ down[cur] # <<>> /\ Head(down[cur]).type = "ACCEPT" /\ seq' = Head(down[cur]).n
  BY RelayFileAssumption DEF Inv, Once, Shape, Streams, ReadAccept, Gets
<1>2. hpc[cur] # "none" BY <1>1, Zenon DEF Waiting
<1>3. seq' \in Nat
  <2>1. down[cur] \in Seq(FrameSet) BY <1>1, Zenon DEF Shape, Frames
  <2>2. Head(down[cur]) \in FrameSet BY <1>1, <2>1, TookProps, Zenon
  <2> QED BY <1>1, <2>2, Zenon DEF FrameSet
<1>4. /\ up' = [up EXCEPT ![cur] = up[cur]] /\ down' = [down EXCEPT ![cur] = Tail(down[cur])]
      /\ up[cur] \in Frames /\ Tail(down[cur]) \in Frames
  BY <1>1, TookProps, Zenon DEF ReadAccept, Took, Shape, Frames
<1>5. Sync'
  <2>1. SUFFICES ASSUME hpc[cur] = "loop"
                 PROVE  up[cur] = <<>> /\ down'[cur] = <<>> /\ lastAck[cur] = hpos[cur] /\ seq' = hpos[cur]
    BY <1>1, Zenon DEF Sync, ReadAccept, sesVars
  <2>2. up[cur] = <<>> /\ down[cur] = <<Frame("ACCEPT", hpos[cur])>> /\ lastAck[cur] = hpos[cur]
    BY <1>1, <2>1, Zenon DEF Sync
  <2>3. down'[cur] = Tail(down[cur]) BY <1>1, <1>4, Zenon DEF Shape
  <2>4. Tail(down[cur]) = <<>> /\ Head(down[cur]) = Frame("ACCEPT", hpos[cur]) BY <2>2
  <2>5. Frame("ACCEPT", hpos[cur]).n = hpos[cur] BY Zenon DEF Frame
  <2> QED BY <1>1, <2>2, <2>3, <2>4, <2>5, Zenon
<1>6. Clean'
  <2>1. SUFFICES ASSUME faults = 0, ~cancelled PROVE Clean' BY Zenon DEF Clean, ReadAccept
  <2>2. cur = 1 /\ CleanStream /\ hpc[1] = "loop"
    BY <1>1, <1>2, <2>1, CleanCalls, Zenon DEF CleanStream, Shape
  <2>3. CleanStream' BY <1>1, <2>2, Zenon DEF CleanStream, ReadAccept, sesVars, diskVars
  <2> QED BY <1>1, <2>1, <2>3, Zenon DEF Inv, Clean, ReadAccept, sesVars
<1>7. hpc[cur] = "loop" => Len(up[cur]) = 0 BY <1>1 DEF Sync
<1>8. faults' \in Nat /\ UNCHANGED <<cur, opened, sends, cancelled, sesVars, diskVars>>
  BY <1>1, Zenon DEF ReadAccept, Shape
<1>9. hpc[cur] = "loop" => Ordered(up[cur], hpos[cur], spc') BY <1>7 DEF Ordered
<1> QED BY <1>1, <1>2, <1>3, <1>4, <1>5, <1>6, <1>8, <1>9, SenderMoves, Zenon

\* ACK carries the last chunk of the batch.
LEMMA ReadAckStep == ASSUME Inv, ReadAck PROVE Inv'
<1>1. /\ Shape /\ Waiting /\ Sync /\ cur = opened /\ cur \in Streams /\ spc = "ack" /\ spc' = "send"
      /\ down[cur] # <<>> /\ Head(down[cur]).type = "ACK" /\ seq' = Head(down[cur]).n + 1
  BY RelayFileAssumption DEF Inv, Once, Shape, Streams, ReadAck, Gets
<1>2. hpc[cur] # "none" BY <1>1, Zenon DEF Waiting
<1>3. seq' \in Nat
  <2>1. down[cur] \in Seq(FrameSet) BY <1>1, Zenon DEF Shape, Frames
  <2>2. Head(down[cur]) \in FrameSet BY <1>1, <2>1, TookProps, Zenon
  <2> QED BY <1>1, <2>2 DEF FrameSet
<1>4. /\ up' = [up EXCEPT ![cur] = up[cur]] /\ down' = [down EXCEPT ![cur] = Tail(down[cur])]
      /\ up[cur] \in Frames /\ Tail(down[cur]) \in Frames
  BY <1>1, TookProps, Zenon DEF ReadAck, Took, Shape, Frames
<1>5. ASSUME hpc[cur] = "loop"
      PROVE  /\ up[cur] = <<>> /\ down[cur] = <<Frame("ACK", seq - 1)>> /\ lastAck[cur] = seq
             /\ seq = hpos[cur] /\ seq # 0
  BY <1>1, <1>5 DEF Sync, BatchWaits, Shape
<1>6. Sync'
  <2>1. SUFFICES ASSUME hpc[cur] = "loop"
                 PROVE  up[cur] = <<>> /\ down'[cur] = <<>> /\ lastAck[cur] = hpos[cur] /\ seq' = hpos[cur]
    BY <1>1, Zenon DEF Sync, ReadAck, sesVars
  <2>3. down'[cur] = Tail(down[cur]) BY <1>1, <1>4, Zenon DEF Shape
  <2>2. \A f : Tail(<<f>>) = <<>> /\ Head(<<f>>) = f OBVIOUS
  <2>4. Tail(down[cur]) = <<>> /\ Head(down[cur]) = Frame("ACK", seq - 1) BY <1>5, <2>1, <2>2, Zenon
  <2>5. Frame("ACK", seq - 1).n = seq - 1 BY Zenon DEF Frame
  <2> QED BY <1>1, <1>5, <2>1, <2>3, <2>4, <2>5 DEF Shape
<1>7. Clean'
  <2>1. SUFFICES ASSUME faults = 0, ~cancelled PROVE Clean' BY Zenon DEF Clean, ReadAck
  <2>2. cur = 1 /\ CleanStream /\ hpc[1] = "loop"
    BY <1>1, <1>2, <2>1, CleanCalls, Zenon DEF CleanStream, Shape
  <2>3. CleanStream' BY <1>1, <2>2, Zenon DEF CleanStream, ReadAck, sesVars, diskVars
  <2> QED BY <1>1, <2>1, <2>3, Zenon DEF Inv, Clean, ReadAck, sesVars
<1>8. faults' \in Nat /\ UNCHANGED <<cur, opened, sends, cancelled, sesVars, diskVars>>
  BY <1>1, Zenon DEF ReadAck, Shape
<1>9. hpc[cur] = "loop" => Ordered(up[cur], hpos[cur], spc') BY <1>5 DEF Ordered
<1> QED BY <1>1, <1>2, <1>3, <1>4, <1>6, <1>7, <1>8, <1>9, SenderMoves, Zenon

\* DONE ends the call.
LEMMA ReadDoneStep == ASSUME Inv, ReadDone PROVE Inv'
<1>1. /\ Shape /\ Waiting /\ Sync /\ cur = opened /\ cur \in Streams /\ spc = "done" /\ spc' = "ok"
      /\ down[cur] # <<>> /\ seq' = seq
  BY RelayFileAssumption DEF Inv, Once, Shape, Streams, ReadDone, Gets, Return
<1>2. hpc[cur] # "none" BY <1>1, Zenon DEF Waiting
<1>4. /\ up' = [up EXCEPT ![cur] = up[cur]] /\ down' = [down EXCEPT ![cur] = Tail(down[cur])]
      /\ up[cur] \in Frames /\ Tail(down[cur]) \in Frames
  BY <1>1, TookProps, Zenon DEF ReadDone, Took, Shape, Frames
<1>5. hpc[cur] # "loop" BY <1>1, Zenon DEF Sync
<1>6. Sync' BY <1>1, <1>5, Zenon DEF Sync, ReadDone, sesVars
<1>7. Clean'
  <2>1. SUFFICES ASSUME faults = 0, ~cancelled PROVE Clean' BY Zenon DEF Clean, ReadDone
  <2>2. cur = 1 /\ CleanStream /\ hpc[1] \in {"delete", "ended"}
    BY <1>1, <1>2, <1>5, <2>1, CleanCalls, Zenon DEF CleanStream, Shape
  <2>3. CleanStream' BY <1>1, <2>2, Zenon DEF CleanStream, ReadDone, sesVars, diskVars
  <2> QED BY <1>1, <2>1, <2>3, Zenon DEF Inv, Clean, ReadDone, sesVars
<1>8. faults' \in Nat /\ UNCHANGED <<cur, opened, sends, cancelled, sesVars, diskVars>>
  BY <1>1, Zenon DEF ReadDone, Shape
<1>9. seq' \in Nat BY <1>1, Zenon DEF Shape
<1> QED BY <1>1, <1>2, <1>4, <1>5, <1>6, <1>7, <1>8, <1>9, SenderMoves, Zenon

\* A batch on a stream that carries nothing.
LEMMA BatchProps ==
    ASSUME NEW a \in Nat, NEW n \in Nat, NEW q \in Seq(FrameSet)
    PROVE  LET r == [i \in 1 .. n |-> Frame("DATA", a + i - 1)]
           IN  /\ q \o r \in Seq(FrameSet)
               /\ q = <<>> => Len(q \o r) = n /\ \A i \in 1 .. n : (q \o r)[i] = Frame("DATA", a + i - 1)
<1> DEFINE r == [i \in 1 .. n |-> Frame("DATA", a + i - 1)]
<1>1. \A i \in 1 .. n : Frame("DATA", a + i - 1) \in FrameSet BY FrameType DEF Types
<1>2. r \in Seq(FrameSet) /\ Len(r) = n
  <2>1. r \in [1 .. n -> FrameSet] BY <1>1, Zenon
  <2>2. r \in Seq(FrameSet) BY <2>1, CellsAreSeq, Zenon
  <2> QED BY <2>2
<1>3. q \o r \in Seq(FrameSet) BY <1>2
<1>4. q = <<>> => Len(q \o r) = n /\ \A i \in 1 .. n : (q \o r)[i] = r[i]
  BY <1>2
<1> QED BY <1>3, <1>4, Zenon

\* A batch starts at the position of the handler.
LEMMA SendBatchStep == ASSUME Inv, SendBatch PROVE Inv'
<1> DEFINE end == MinNat(seq + AckBatch, Total)
           r == [i \in 1 .. end - seq |-> Frame("DATA", seq + i - 1)]
           u == up[cur] \o r
<1>1. /\ Shape /\ Waiting /\ Sync /\ cur = opened /\ cur \in Streams /\ spc = "send" /\ spc' = "ack"
      /\ seq < Total /\ ~cancelled
  BY RelayFileAssumption DEF Inv, Once, Shape, Streams, SendBatch
<1>2. hpc[cur] # "none" BY <1>1 DEF Waiting, Shape
<1>3. /\ end \in Nat /\ seq' = end /\ end > seq /\ end <= Total /\ end <= seq + AckBatch
      /\ end = Total \/ end = seq + AckBatch
      /\ end - seq \in Nat /\ end - seq # 0 /\ seq \in Nat
  BY <1>1, RelayFileAssumption DEF MinNat, Shape, SendBatch
<1>4. up[cur] \in Seq(FrameSet) /\ down[cur] \in Frames BY <1>1, Zenon DEF Shape, Frames
<1>5. /\ u \in Frames
      /\ up[cur] = <<>> => Len(u) = end - seq /\ \A i \in 1 .. end - seq : u[i] = Frame("DATA", seq + i - 1)
  BY <1>3, <1>4, BatchProps, Zenon DEF Frames
<1>6. up' = [up EXCEPT ![cur] = u] /\ down' = [down EXCEPT ![cur] = down[cur]]
  BY <1>1, Zenon DEF SendBatch, Shape
<1>7. ASSUME hpc[cur] = "loop"
      PROVE  up[cur] = <<>> /\ down[cur] = <<>> /\ lastAck[cur] = seq /\ seq = hpos[cur]
  BY <1>1, <1>7, Zenon DEF Sync
<1>8. ASSUME NEW i \in 1 .. end - seq
      PROVE  Frame("DATA", seq + i - 1).type = "DATA" /\ Frame("DATA", seq + i - 1).n = seq + i - 1
  BY Zenon DEF Frame
<1> HIDE DEF u, end
<1>9. hpc[cur] = "loop" => Ordered(u, hpos[cur], spc')
  <2>1. SUFFICES ASSUME hpc[cur] = "loop", NEW i \in 1 .. Len(u)
                 PROVE  u[i].type = "DATA" /\ u[i].n = hpos[cur] + i - 1 /\ u[i].n < Total
    BY Zenon DEF Ordered
  <2>2. i \in 1 .. end - seq /\ u[i] = Frame("DATA", seq + i - 1) BY <1>5, <1>7, <2>1, Zenon
  <2>3. u[i].type = "DATA" /\ u[i].n = seq + i - 1 BY <1>8, <2>2, Zenon
  <2>4. seq + i - 1 < Total BY <1>3, <2>2, RelayFileAssumption
  <2> QED BY <1>7, <2>1, <2>3, <2>4, Zenon
<1>10. Sync'
  <2>1. SUFFICES ASSUME hpc[cur] = "loop"
                 PROVE  /\ \A i \in 1 .. Len(u) : u[i].type = "DATA"
                        /\ seq' = hpos[cur] + Len(u) /\ BatchWaits(cur)'
    <3>1. up'[cur] = u BY <1>1, <1>6, Zenon DEF Shape
    <3> QED BY <1>1, <3>1, Zenon DEF Sync, SendBatch, sesVars
  <2>2. \A i \in 1 .. Len(u) : u[i].type = "DATA" BY <1>5, <1>7, <1>8, <2>1, Zenon
  <2>3. Len(u) = end - seq BY <1>5, <1>7, <2>1, Zenon
  <2>4. u # <<>> BY <1>3, <2>3, Zenon
  <2>5. up'[cur] = u /\ down'[cur] = <<>> /\ cur' = cur /\ lastAck' = lastAck
    BY <1>1, <1>6, <1>7, <2>1, Zenon DEF Shape, SendBatch, sesVars
  <2>6. BatchWaits(cur)'
    BY <1>3, <1>7, <2>1, <2>4, <2>5, Zenon DEF BatchWaits
  <2> QED BY <1>3, <1>7, <2>1, <2>2, <2>3, <2>6
<1>11. Clean'
  <2>1. SUFFICES ASSUME faults = 0, ~cancelled PROVE Clean' BY Zenon DEF Clean, SendBatch
  <2>2. cur = 1 /\ CleanStream /\ hpc[1] = "loop"
    BY <1>1, <1>2, <2>1, CleanCalls, Zenon DEF CleanStream, Shape
  <2>3. CleanStream' BY <1>1, <2>2, Zenon DEF CleanStream, SendBatch, sesVars, diskVars
  <2> QED BY <1>1, <2>1, <2>3, Zenon DEF Inv, Clean, SendBatch, sesVars
<1>12. faults' \in Nat /\ UNCHANGED <<cur, opened, sends, cancelled, sesVars, diskVars>>
  BY <1>1, Zenon DEF SendBatch, Shape
<1>13. seq' \in Nat /\ seq' # 0 BY <1>3
<1> QED BY <1>1, <1>2, <1>4, <1>5, <1>6, <1>9, <1>10, <1>11, <1>12, <1>13, SenderMoves, Zenon

\* FIN and CANCEL are the last frames of a call.
LEMMA LastFrame ==
    ASSUME Inv, spc = "send", NEW f \in FrameSet, f.type \in {"FIN", "CANCEL"},
           up' = Send(up, cur, f), spc' \in {"done", "failed"}
    PROVE  /\ cur = opened /\ cur \in Streams /\ hpc[cur] # "none"
           /\ up[cur] \in Frames /\ down[cur] \in Frames /\ Append(up[cur], f) \in Frames
           /\ up' = [up EXCEPT ![cur] = Append(up[cur], f)] /\ up'[cur] = Append(up[cur], f)
           /\ hpc[cur] = "loop" => /\ Append(up[cur], f) = <<f>> /\ down[cur] = <<>> /\ seq = hpos[cur]
                                   /\ Ordered(Append(up[cur], f), hpos[cur], spc')
<1>1. /\ Shape /\ Waiting /\ Sync /\ cur = opened /\ cur \in Streams
  BY RelayFileAssumption DEF Inv, Once, Shape, Streams
<1>2. hpc[cur] # "none" BY <1>1 DEF Waiting, Shape
<1>3. up[cur] \in Frames /\ down[cur] \in Frames BY <1>1, Zenon DEF Shape
<1>4. Append(up[cur], f) \in Frames BY <1>3, SentProps, Zenon DEF Frames
<1>5. up' = [up EXCEPT ![cur] = Append(up[cur], f)] /\ up'[cur] = Append(up[cur], f)
  BY <1>1, Zenon DEF Send, Shape
<1>6. hpc[cur] = "loop" => up[cur] = <<>> /\ down[cur] = <<>> /\ seq = hpos[cur]
  BY <1>1, Zenon DEF Sync
<1>7. hpc[cur] = "loop" => Append(up[cur], f) = <<f>> BY <1>6, FirstSent, Zenon
<1>8. Len(<<f>>) = 1 /\ <<f>>[1] = f BY Zenon
<1>9. hpc[cur] = "loop" => Ordered(Append(up[cur], f), hpos[cur], spc')
  BY <1>7, <1>8 DEF Ordered
<1> QED BY <1>1, <1>2, <1>3, <1>4, <1>5, <1>6, <1>7, <1>9, Zenon

\* FIN is sent when the handler holds all chunks.
LEMMA SendFinStep == ASSUME Inv, SendFin PROVE Inv'
<1> DEFINE f == Frame("FIN", 0)
           u == Append(up[cur], f)
<1>1. /\ Shape /\ Sync /\ Disk /\ spc = "send" /\ spc' = "done" /\ seq >= Total /\ seq' = seq
      /\ down' = [down EXCEPT ![cur] = down[cur]] /\ down' = down
  BY Zenon DEF Inv, SendFin, Shape
<1>2. f \in FrameSet /\ f.type = "FIN" BY FrameType, Zenon DEF Types
<1>3. /\ cur = opened /\ cur \in Streams /\ hpc[cur] # "none" /\ down[cur] \in Frames
      /\ u \in Frames /\ up' = [up EXCEPT ![cur] = u] /\ up'[cur] = u
      /\ hpc[cur] = "loop" => u = <<f>> /\ down[cur] = <<>> /\ seq = hpos[cur] /\ Ordered(u, hpos[cur], spc')
  BY <1>1, <1>2, LastFrame, Zenon DEF SendFin
<1> HIDE DEF f, u
<1>4. hpc[cur] = "loop" => hpos[cur] = Total
  <2>1. SUFFICES ASSUME hpc[cur] = "loop" PROVE hpos[cur] = Total BY Zenon
  <2>2. hfile[cur] \in Files /\ hpos[cur] <= Len(data[hfile[cur]]) BY <1>1, <1>3, <2>1, Zenon DEF Disk
  <2>3. Len(data[hfile[cur]]) <= Total /\ Len(data[hfile[cur]]) \in Nat BY <1>1, <2>2 DEF Disk, Shape
  <2> QED BY <1>1, <1>3, <2>1, <2>2, <2>3, RelayFileAssumption DEF Shape
<1>5. Sync' BY <1>1, <1>3, <1>4, Zenon DEF Sync, SendFin, sesVars, f
<1>6. Clean'
  <2>1. SUFFICES ASSUME faults = 0, ~cancelled PROVE Clean' BY Zenon DEF Clean, SendFin
  <2>2. cur = 1 /\ CleanStream /\ hpc[1] = "loop"
    BY <1>1, <1>3, <2>1, CleanCalls, Zenon DEF CleanStream, Shape
  <2>3. CleanStream' BY <1>1, <2>2, Zenon DEF CleanStream, SendFin, sesVars, diskVars
  <2> QED BY <1>1, <2>1, <2>3, Zenon DEF Inv, Clean, SendFin, sesVars
<1>7. faults' \in Nat /\ seq' \in Nat /\ UNCHANGED <<cur, opened, sends, cancelled, sesVars, diskVars>>
  BY <1>1, Zenon DEF SendFin, Shape
<1> QED BY <1>1, <1>3, <1>5, <1>6, <1>7, SenderMoves, Zenon

\* CANCEL is sent between two batches.
LEMMA SendCancelStep == ASSUME Inv, SendCancel PROVE Inv'
<1> DEFINE f == Frame("CANCEL", 0)
           u == Append(up[cur], f)
<1>1. /\ Shape /\ Sync /\ spc = "send" /\ spc' = "failed" /\ seq' = seq
      /\ down' = [down EXCEPT ![cur] = down[cur]] /\ down' = down
  BY Zenon DEF Inv, SendCancel, Shape, Return
<1>2. f \in FrameSet /\ f.type = "CANCEL" BY FrameType, Zenon DEF Types
<1>3. /\ cur = opened /\ cur \in Streams /\ hpc[cur] # "none" /\ down[cur] \in Frames
      /\ u \in Frames /\ up' = [up EXCEPT ![cur] = u] /\ up'[cur] = u
      /\ hpc[cur] = "loop" => u = <<f>> /\ down[cur] = <<>> /\ seq = hpos[cur] /\ Ordered(u, hpos[cur], spc')
  BY <1>1, <1>2, LastFrame, Zenon DEF SendCancel
<1> HIDE DEF f, u
<1>5. Sync' BY <1>1, <1>3, Zenon DEF Sync, SendCancel, sesVars
<1>6. Clean' BY <1>1 DEF Clean, SendCancel, Unless, Fault, Shape
<1>7. faults' \in Nat /\ seq' \in Nat /\ UNCHANGED <<cur, opened, sends, cancelled, sesVars, diskVars>>
  BY <1>1 DEF SendCancel, Shape, Unless, Fault
<1> QED BY <1>1, <1>3, <1>5, <1>6, <1>7, SenderMoves, Zenon

-----------------------------------------------------------------------------
\* Steps of the environment and of handlers

\* Nothing that the invariant speaks of changes, but a fault may have happened
\* to the streams.
LEMMA Unaffected ==
    ASSUME Inv, UNCHANGED <<sendVars, up, down, hpc, hfile, hpos, bitmap, lastAck, diskVars>>, faults' \in Nat,
           faults' # 0 \/ UNCHANGED <<broken, sclosed, rclosed, faults>>
    PROVE  Inv'
<1> USE DEF sendVars, diskVars
<1>1. Shape' BY Zenon DEF Inv, Shape
<1>2. Once' BY Zenon DEF Inv, Once
<1>3. Waiting' BY Zenon DEF Inv, Waiting
<1>4. InOrder' BY Zenon DEF Inv, InOrder
<1>5. Sync' BY Zenon DEF Inv, Sync, BatchWaits
<1>6. Disk' BY Zenon DEF Inv, Disk, Whole
<1>7. Clean' BY Zenon DEF Inv, Clean, CleanStream, Whole
<1> QED BY <1>1, <1>2, <1>3, <1>4, <1>5, <1>6, <1>7, Zenon DEF Inv

\* CancelFileSession at the receiving peer.
LEMMA CancelReceiverStep == ASSUME Inv, NEW s \in Streams, CancelReceiver(s) PROVE Inv'
  BY Unaffected, Zenon DEF CancelReceiver, netVars, Inv, Shape

\* The relay drops a stream.
LEMMA BreakStep == ASSUME Inv, NEW s \in Streams, Break(s) PROVE Inv'
<1>1. faults' \in Nat /\ faults' # 0 BY FaultCounts, Zenon DEF Break
<1> QED BY <1>1, Unaffected, Zenon DEF Break, sesVars

\* A chunk that a handler meets is the one at its position, and is new to it.
LEMMA NextChunk ==
    ASSUME Inv, NEW s \in Streams, hpc[s] = "loop", Reads(s, "DATA")
    PROVE  /\ Head(up[s]).n = hpos[s] /\ hpos[s] \in Nat /\ hpos[s] < Total /\ hpos[s] \notin bitmap[s]
           /\ hfile[s] \in Files /\ hpos[s] <= Len(data[hfile[s]]) /\ bitmap[s] = 0 .. (hpos[s] - 1)
           /\ data[hfile[s]] \in Seq({"ok", "cut"})
           /\ up[s] \in Seq(FrameSet) /\ up[s] # <<>> /\ Len(up[s]) \in Nat /\ Len(up[s]) # 0
<1>1. up[s] \in Seq(FrameSet) /\ up[s] # <<>> /\ Head(up[s]).type = "DATA" /\ hpos[s] \in Nat
  BY Zenon DEF Inv, Shape, Frames, Reads
<1>2. Head(up[s]) = up[s][1] /\ Len(up[s]) # 0 /\ Len(up[s]) \in Nat BY <1>1, TookProps
<1>3. 1 \in 1 .. Len(up[s]) BY <1>2
<1>4. up[s][1].n = hpos[s] + 1 - 1 /\ up[s][1].n < Total BY <1>1, <1>2, <1>3, Zenon DEF Inv, InOrder
<1>5. hfile[s] \in Files /\ hpos[s] <= Len(data[hfile[s]]) /\ bitmap[s] = 0 .. (hpos[s] - 1)
  BY Zenon DEF Inv, Disk
<1>6. data[hfile[s]] \in Seq({"ok", "cut"}) BY <1>5, Zenon DEF Inv, Shape
<1> QED BY <1>1, <1>2, <1>4, <1>5, <1>6

\* What a write that is not completed leaves.
LEMMA TornProps ==
    ASSUME Inv, NEW s \in Streams, NEW d \in Torn(s)
    PROVE  /\ d \in [Files -> Seq({"ok", "cut"})]
           /\ \A f \in Files : /\ Len(d[f]) <= Total /\ Len(data[f]) <= Len(d[f])
                               /\ Whole(f) => d[f] = data[f]
<1>1. /\ data \in [Files -> Seq({"ok", "cut"})] /\ \A f \in Files : Len(data[f]) <= Total
  BY Zenon DEF Inv, Shape, Disk
<1>2. CASE d = data BY <1>1, <1>2
<1>3. CASE d # data
  <2> DEFINE g == hfile[s]
             q == Append(data[g], "cut")
  <2>1. hpc[s] = "loop" /\ Reads(s, "DATA") /\ hpos[s] = Len(data[g]) /\ d = [data EXCEPT ![g] = q]
    BY <1>3, Zenon DEF Torn
  <2>2. g \in Files /\ hpos[s] < Total /\ data[g] \in Seq({"ok", "cut"}) BY <2>1, NextChunk, Zenon
  <2>3. q \in Seq({"ok", "cut"}) /\ Len(q) = Len(data[g]) + 1 /\ Len(data[g]) \in Nat BY <2>2
  <2>4. ~ Whole(g)
    <3>1. SUFFICES ASSUME Whole(g) PROVE FALSE BY Zenon
    <3>2. data[g] = [k \in 1 .. Total |-> "ok"] BY <3>1, Zenon DEF Whole
    <3>3. Len([k \in 1 .. Total |-> "ok"]) = Total BY RelayFileAssumption
    <3> QED BY <2>1, <2>2, <3>2, <3>3, RelayFileAssumption
  <2> HIDE DEF g, q
  <2>5. d[g] = q /\ \A f \in Files : f # g => d[f] = data[f] BY <1>1, <2>1, <2>2, Zenon
  <2>6. d \in [Files -> Seq({"ok", "cut"})] BY <1>1, <2>1, <2>2, <2>3, Zenon
  <2>7. Len(q) <= Total /\ Len(data[g]) <= Len(q) BY <2>1, <2>2, <2>3, RelayFileAssumption
  <2>8. \A f \in Files : Len(data[f]) \in Nat BY <1>1
  <2> QED BY <1>1, <2>4, <2>5, <2>6, <2>7, <2>8
<1> QED BY <1>2, <1>3, Zenon

\* The receiving process is restarted.
LEMMA CrashStep == ASSUME Inv, Crash PROVE Inv'
<1>1. Shape /\ Once /\ Waiting /\ InOrder /\ Disk BY Zenon DEF Inv
<1>2. faults' \in Nat /\ faults' # 0 BY FaultCounts, Zenon DEF Crash
<1>3. PICK s \in Streams : data' \in Torn(s) BY Zenon DEF Crash
<1>4. /\ data' \in [Files -> Seq({"ok", "cut"})]
      /\ \A f \in Files : Len(data'[f]) <= Total /\ (Whole(f) => data'[f] = data[f])
  BY <1>3, TornProps, Zenon
<1>5. /\ UNCHANGED <<sendVars, up, down, hpos, bitmap, lastAck, tmp, saved>>
      /\ hpc' = [t \in Streams |-> IF t <= opened THEN "ended" ELSE "none"]
      /\ hfile' = [t \in Streams |-> None]
  BY Zenon DEF Crash
<1>6. \A t \in Streams : /\ hpc'[t] = "none" => t > opened /\ hpc[t] = "none"
                         /\ hpc'[t] \in {"none", "ended"} /\ hfile'[t] = None /\ t # None
                         /\ t > opened => hpc'[t] = "none"
  BY <1>1, <1>5 DEF InOrder, Shape, Streams, None
<1>7. Shape' BY <1>1, <1>2, <1>4, <1>5, Zenon DEF Shape, sendVars
<1>8. Once' BY <1>1, <1>5, Zenon DEF Once, sendVars
<1>9. Waiting'
  <2>1. SUFFICES ASSUME NEW t \in Streams, hpc'[t] = "none"
                 PROVE  /\ down[t] = <<>> /\ up[t] = <<>> /\ t > opened /\ tmp # t /\ saved # t
                        /\ \A v \in Streams : hfile'[v] # t
    BY <1>1, <1>5, Zenon DEF Waiting, sendVars, Shape, Streams
  <2> QED BY <1>1, <1>6, <2>1, Zenon DEF Waiting
<1>10. InOrder' BY <1>5, <1>6, Zenon DEF InOrder, sendVars
<1>11. Sync' BY <1>6, Zenon DEF Sync
<1>12. Disk'
  <2>1. saved # None => data'[saved] = [k \in 1 .. Total |-> "ok"]
    BY <1>1, <1>4, Zenon DEF Disk, Whole, Shape
  <2> QED BY <1>1, <1>4, <1>5, <1>6, <2>1, Zenon DEF Disk, Whole
<1>13. Clean' BY <1>2, Zenon DEF Clean
<1> QED BY <1>7, <1>8, <1>9, <1>10, <1>11, <1>12, <1>13, Zenon DEF Inv

\* The handler of s leaves its loop, or goes on outside of it.
LEMMA HandlerLeaves ==
    ASSUME Inv, NEW s \in Streams, NEW h \in {"verified", "renamed", "delete", "failing", "ended"},
           NEW u \in Frames, NEW d \in Frames, NEW g \in Files \cup {None},
           hpc' = [hpc EXCEPT ![s] = h], up' = [up EXCEPT ![s] = u], down' = [down EXCEPT ![s] = d],
           hfile' = [hfile EXCEPT ![s] = g], g = hfile[s] \/ g = None,
           d = down[s] \/ (\E f \in FrameSet : d = Append(down[s], f) /\ (f.type = "DONE" => saved # None)),
           s <= opened, UNCHANGED <<sendVars, hpos, bitmap, lastAck>>, faults' \in Nat,
           tmp' \in {tmp, None}, saved' \in {saved, tmp}, saved # None => saved' # None,
           data' \in [Files -> Seq({"ok", "cut"})], \A f \in Files : Len(data'[f]) <= Total,
           \A t \in Streams : t # s /\ hpc[t] = "loop" => hpos[t] <= Len(data'[hfile[t]]),
           tmp' # None => (Whole(tmp) => data'[tmp] = data[tmp]),
           saved' # None => Whole(saved)',
           h = "verified" => s = opened /\ spc \in {"done", "ok", "failed"} /\ (tmp' # None => Whole(tmp)'),
           h = "renamed" => saved' # None,
           Clean'
    PROVE  Inv'
<1>1. Shape /\ Once /\ Waiting /\ InOrder /\ Sync /\ Disk BY Zenon DEF Inv
<1>2. /\ hpc'[s] = h /\ up'[s] = u /\ down'[s] = d /\ hfile'[s] = g
      /\ \A t \in Streams : t # s => /\ hpc'[t] = hpc[t] /\ up'[t] = up[t] /\ down'[t] = down[t]
                                     /\ hfile'[t] = hfile[t]
  BY <1>1, Zenon DEF Shape
<1>3. Shape' BY <1>1, Zenon DEF Shape, sendVars
<1>4. Once' BY <1>1, Zenon DEF Once, sendVars
<1>5. Waiting'
  <2>1. ASSUME NEW t \in Streams, hpc'[t] = "none"
        PROVE  /\ t # s /\ hpc[t] = "none" /\ up'[t] = up[t] /\ down'[t] = down[t]
               /\ tmp' # t /\ saved' # t /\ \A v \in Streams : hfile'[v] # t
    <3>1. t # s BY <1>2, <2>1, Zenon
    <3>2. hpc[t] = "none" /\ up'[t] = up[t] /\ down'[t] = down[t] BY <1>2, <2>1, <3>1, Zenon
    <3>3. tmp # t /\ saved # t /\ (\A v \in Streams : hfile[v] # t) /\ t # None
      BY <1>1, <3>2 DEF Waiting, Streams, None
    <3>4. \A v \in Streams : hfile'[v] # t BY <1>2, <3>3
    <3> QED BY <3>1, <3>2, <3>3, <3>4, Zenon
  <2>2. ASSUME NEW t \in Streams, hpc'[t] = "none", t <= opened
        PROVE  /\ t = opened /\ spc \in {"accept", "failed"} /\ Len(up[t]) = 1 /\ up[t][1].type = "INIT"
               /\ up[t][1].n = 0 => tmp' = None
    BY <1>1, <2>1, <2>2, Zenon DEF Waiting
  <2>3. ASSUME NEW t \in Streams, hpc'[t] = "none"
        PROVE  down[t] = <<>> /\ (t > opened => up[t] = <<>>)
    BY <1>1, <2>1, <2>3, Zenon DEF Waiting
  <2> QED BY <2>1, <2>2, <2>3 DEF Waiting, sendVars
<1>6. InOrder'
  <2>1. \A t \in Streams : hpc'[t] = "loop" => t # s /\ hpc[t] = "loop" /\ up'[t] = up[t] BY <1>2, Zenon
  <2>2. \A t \in Streams : hpc'[t] = "verified" => t = opened /\ spc \in {"done", "ok", "failed"}
    BY <1>1, <1>2 DEF InOrder
  <2>3. \A t \in Streams : t > opened => hpc'[t] = "none" /\ t # s
    <3>1. ~ (s > opened) BY <1>1 DEF Shape, Streams
    <3> QED BY <1>1, <1>2, <3>1, Zenon DEF InOrder
  <2> QED BY <1>1, <2>1, <2>2, <2>3 DEF InOrder, sendVars
<1>7. Sync'
  <2>1. \A t \in Streams : hpc'[t] = "loop" => t # s /\ hpc[t] = "loop" /\ up'[t] = up[t] /\ down'[t] = down[t]
    BY <1>2, Zenon
  <2> QED BY <1>1, <2>1 DEF Sync, BatchWaits, sendVars
<1>8. Disk'
  <2>1. \A t \in Streams : hpc'[t] = "loop" => /\ hfile'[t] \in Files /\ hpos[t] <= Len(data'[hfile'[t]])
                                               /\ bitmap[t] = 0 .. (hpos[t] - 1)
    BY <1>1, <1>2, Zenon DEF Disk
  <2>2. \A t \in Streams : hpc'[t] = "verified" /\ tmp' # None => Whole(tmp)'
    <3>1. SUFFICES ASSUME NEW t \in Streams, hpc'[t] = "verified", tmp' # None, t # s PROVE Whole(tmp)'
      BY <1>2, Zenon
    <3>2. hpc[t] = "verified" /\ tmp' = tmp BY <1>2, <3>1, Zenon
    <3>3. Whole(tmp) BY <1>1, <3>1, <3>2, Zenon DEF Disk
    <3> QED BY <3>1, <3>2, <3>3, Zenon DEF Whole
  <2>3. \A t \in Streams : hpc'[t] = "renamed" => saved' # None BY <1>1, <1>2, Zenon DEF Disk
  <2>4. \A t \in Streams : \A i \in 1 .. Len(down'[t]) : down'[t][i].type = "DONE" => saved' # None
    <3>1. SUFFICES ASSUME NEW i \in 1 .. Len(d), d[i].type = "DONE" PROVE saved' # None
      BY <1>1, <1>2, Zenon DEF Disk
    <3>2. CASE d = down[s] BY <1>1, <3>1, <3>2, Zenon DEF Disk
    <3>3. ASSUME NEW f \in FrameSet, d = Append(down[s], f), f.type = "DONE" => saved # None
          PROVE  saved' # None
      <4>1. down[s] \in Seq(FrameSet) /\ Len(down[s]) \in Nat BY <1>1 DEF Shape, Frames
      <4>2. /\ Len(d) = Len(down[s]) + 1 /\ d[Len(down[s]) + 1] = f
            /\ \A j \in 1 .. Len(down[s]) : d[j] = down[s][j]
        BY <3>3, <4>1, SentProps
      <4>3. CASE i = Len(down[s]) + 1 BY <3>1, <3>3, <4>2, <4>3, Zenon
      <4>4. CASE i # Len(down[s]) + 1
        <5>1. i \in 1 .. Len(down[s]) BY <3>1, <4>1, <4>2, <4>4
        <5> QED BY <1>1, <3>1, <4>2, <5>1, Zenon DEF Disk
      <4> QED BY <4>3, <4>4, Zenon
    <3> QED BY <3>2, <3>3, Zenon
  <2> QED BY <2>1, <2>2, <2>3, <2>4, Zenon DEF Disk, Whole
<1> QED BY <1>3, <1>4, <1>5, <1>6, <1>7, <1>8, Zenon DEF Inv

\* Handlers of a call without a fault and without a cancellation.
LEMMA CleanHandler ==
    ASSUME Inv, faults = 0, ~cancelled, NEW s \in Streams, hpc[s] # "none" \/ up[s] # <<>>
    PROVE  /\ s = 1 /\ opened = 1 /\ cur = 1 /\ CleanStream /\ broken = {} /\ spc # "failed" /\ spc # "idle"
           /\ hpc[1] # "ended" => rclosed \cap Streams = {}
           /\ spc # "ok" => sclosed = {}
<1>1. Shape /\ Waiting /\ InOrder /\ Once /\ Clean BY Zenon DEF Inv
<1>2. s <= opened /\ s \in Nat /\ s # 0 BY <1>1 DEF InOrder, Waiting, Shape, Streams
<1>3. s = 1 /\ opened = 1 BY <1>1, <1>2 DEF Clean, Shape
<1>4. ASSUME NEW t \in Streams, t # 1 PROVE hpc[t] = "none" BY <1>1, <1>3, <1>4 DEF InOrder, Streams
<1>5. ASSUME hpc[1] # "ended", NEW t \in rclosed \cap Streams PROVE FALSE
  <2>1. hpc[t] = "ended" BY <1>1, <1>5, Zenon DEF Clean
  <2> QED BY <1>4, <1>5, <2>1, Zenon
<1>6. hpc[1] # "ended" => rclosed \cap Streams = {} BY <1>5, Zenon
<1>7. CleanStream /\ broken = {} /\ spc # "failed" /\ (spc # "ok" => sclosed = {}) BY <1>1, <1>3, Zenon DEF Clean
<1>8. cur = 1 /\ spc # "idle" BY <1>1, <1>3 DEF Once
<1> QED BY <1>3, <1>6, <1>7, <1>8, Zenon

\* What a step of a handler keeps of Clean.
LEMMA CleanKept ==
    ASSUME Inv, UNCHANGED <<sendVars, broken, sclosed, faults>>,
           ASSUME faults = 0, ~cancelled PROVE CleanStream' /\ \A t \in Streams : t \in rclosed' => hpc'[t] = "ended"
    PROVE  Clean'
  BY Zenon DEF Inv, Clean, sendVars

\* A write fails.
LEMMA DiskErrorStep == ASSUME Inv, NEW s \in Streams, DiskError(s) PROVE Inv'
<1> DEFINE u == Tail(up[s])
           d == Append(down[s], Frame("ERROR", 0))
           g == hfile[s]
<1>1. Shape /\ Waiting /\ InOrder /\ Disk /\ hpc[s] = "loop" /\ up[s] # <<>> BY Zenon DEF Inv, DiskError, Reads
<1>2. faults' \in Nat /\ faults' # 0 BY FaultCounts, Zenon DEF DiskError
<1>3. Frame("ERROR", 0) \in FrameSet /\ Frame("ERROR", 0).type = "ERROR" BY FrameType, Zenon DEF Types
<1>4. u \in Frames /\ d \in Frames /\ g \in Files \cup {None}
  BY <1>1, <1>3, TookProps, SentProps, Zenon DEF Shape, Frames
<1>5. /\ hpc' = [hpc EXCEPT ![s] = "failing"] /\ up' = [up EXCEPT ![s] = u] /\ down' = [down EXCEPT ![s] = d]
      /\ hfile' = [hfile EXCEPT ![s] = g]
  BY <1>1, Zenon DEF DiskError, Took, Send, Shape
<1>6. /\ data' \in [Files -> Seq({"ok", "cut"})]
      /\ \A f \in Files : /\ Len(data'[f]) <= Total /\ Len(data[f]) <= Len(data'[f])
                          /\ Whole(f) => data'[f] = data[f]
  BY TornProps, Zenon DEF DiskError
<1>7. s <= opened BY <1>1 DEF InOrder, Shape, Streams
<1>8. \A t \in Streams : t # s /\ hpc[t] = "loop" => hpos[t] <= Len(data'[hfile[t]])
  <2>1. SUFFICES ASSUME NEW t \in Streams, hpc[t] = "loop" PROVE hpos[t] <= Len(data'[hfile[t]]) BY Zenon
  <2>2. hfile[t] \in Files /\ hpos[t] <= Len(data[hfile[t]]) /\ hpos[t] \in Nat BY <1>1, <2>1, Zenon DEF Disk, Shape
  <2>3. Len(data[hfile[t]]) <= Len(data'[hfile[t]]) BY <1>6, <2>2, Zenon
  <2>4. Len(data[hfile[t]]) \in Nat /\ Len(data'[hfile[t]]) \in Nat BY <1>1, <1>6, <2>2 DEF Shape
  <2> QED BY <2>2, <2>3, <2>4
<1>9. UNCHANGED <<sendVars, hpos, bitmap, lastAck, tmp, saved>> BY Zenon DEF DiskError
<1>10. (tmp # None => (Whole(tmp) => data'[tmp] = data[tmp])) /\ (saved' # None => Whole(saved)')
  BY <1>1, <1>6, <1>9, Zenon DEF Shape, Disk, Whole
<1>11. Clean' BY <1>2, Zenon DEF Clean
<1> HIDE DEF u, d, g
<1>12. d = down[s] \/ \E f \in FrameSet : d = Append(down[s], f) /\ (f.type = "DONE" => saved # None)
  BY <1>3, Zenon DEF d
<1>13. g = hfile[s] BY Zenon DEF g
<1> QED BY <1>2, <1>4, <1>5, <1>6, <1>7, <1>8, <1>9, <1>10, <1>11, <1>12, <1>13, HandlerLeaves, Zenon

\* The handler of s changes no file.
LEMMA HandlerLeavesFiles ==
    ASSUME Inv, NEW s \in Streams, NEW h \in {"verified", "renamed", "delete", "failing", "ended"},
           NEW u \in Frames, NEW d \in Frames, NEW g \in Files \cup {None},
           hpc' = [hpc EXCEPT ![s] = h], up' = [up EXCEPT ![s] = u], down' = [down EXCEPT ![s] = d],
           hfile' = [hfile EXCEPT ![s] = g], g = hfile[s] \/ g = None,
           d = down[s] \/ (\E f \in FrameSet : d = Append(down[s], f) /\ (f.type = "DONE" => saved # None)),
           s <= opened, UNCHANGED <<sendVars, hpos, bitmap, lastAck, data>>, faults' \in Nat,
           tmp' \in {tmp, None}, saved' = saved,
           h = "verified" => s = opened /\ spc \in {"done", "ok", "failed"} /\ (tmp' # None => Whole(tmp)),
           h = "renamed" => saved # None,
           Clean'
    PROVE  Inv'
<1>1. Shape /\ Disk BY Zenon DEF Inv
<1>2. /\ data' \in [Files -> Seq({"ok", "cut"})] /\ \A f \in Files : Len(data'[f]) <= Total
      /\ \A t \in Streams : t # s /\ hpc[t] = "loop" => hpos[t] <= Len(data'[hfile[t]])
      /\ tmp' # None => (Whole(tmp) => data'[tmp] = data[tmp])
  BY <1>1, Zenon DEF Shape, Disk
<1>3. saved' # None => Whole(saved)' BY <1>1, Zenon DEF Disk, Whole
<1>4. h = "verified" => (tmp' # None => Whole(tmp)') BY Zenon DEF Whole
<1>5. saved' \in {saved, tmp} /\ (saved # None => saved' # None) /\ (h = "renamed" => saved' # None) BY Zenon
<1> QED BY <1>2, <1>3, <1>4, <1>5, HandlerLeaves, Zenon

\* FIN: what the path names is hashed.
LEMMA RecvFinStep == ASSUME Inv, NEW s \in Streams, RecvFin(s) PROVE Inv'
<1> DEFINE u == Tail(up[s])
           h == IF Verified THEN "verified" ELSE "failing"
           d == IF Verified THEN down[s] ELSE Append(down[s], Frame("ERROR", 0))
<1>1. /\ Shape /\ Waiting /\ InOrder /\ Disk /\ Sync /\ hpc[s] = "loop" /\ up[s] # <<>>
      /\ Head(up[s]).type = "FIN"
  BY Zenon DEF Inv, RecvFin, Reads
<1>2. s <= opened BY <1>1 DEF InOrder, Shape, Streams
<1>3. Frame("ERROR", 0) \in FrameSet /\ Frame("ERROR", 0).type = "ERROR" BY FrameType, Zenon DEF Types
<1>4. u \in Frames /\ d \in Frames BY <1>1, <1>3, TookProps, SentProps, Zenon DEF Shape, Frames
<1>5. /\ hpc' = [hpc EXCEPT ![s] = h] /\ up' = [up EXCEPT ![s] = u] /\ down' = [down EXCEPT ![s] = d]
      /\ hfile' = [hfile EXCEPT ![s] = None]
  BY <1>1, Zenon DEF RecvFin, Took, Send, Shape
<1>6. s = opened /\ spc \in {"done", "ok", "failed"}
  <2>1. up[s] \in Seq(FrameSet) BY <1>1, Zenon DEF Shape, Frames
  <2>2. 1 \in 1 .. Len(up[s]) /\ Head(up[s]) = up[s][1] BY <1>1, <2>1, TookProps
  <2> QED BY <1>1, <2>2, Zenon DEF InOrder
<1>7. faults' \in Nat /\ UNCHANGED <<sendVars, hpos, bitmap, lastAck, data, tmp, saved, broken, sclosed, rclosed, faults>>
  BY <1>1, Zenon DEF RecvFin, diskVars, Shape
<1>8. Verified => Whole(tmp) BY Zenon DEF Verified
<1>9. d = down[s] \/ \E f \in FrameSet : d = Append(down[s], f) /\ (f.type = "DONE" => saved # None)
  BY <1>3, Zenon
<1>10. ASSUME faults = 0, ~cancelled PROVE CleanStream' /\ \A t \in Streams : t \in rclosed' => hpc'[t] = "ended"
  <2>1. /\ s = 1 /\ opened = 1 /\ CleanStream /\ spc # "failed" /\ rclosed \cap Streams = {} /\ 1 \in Streams
    BY <1>1, <1>10, CleanHandler, Zenon
  <2>2. spc = "done" /\ down[1] = <<>> /\ hpos[1] = Total BY <1>1, <1>6, <2>1, Zenon DEF CleanStream, Sync
  <2>3. tmp = 1 /\ Whole(1) /\ Verified BY <1>1, <2>1, <2>2 DEF CleanStream, Whole, Verified, None
  <2>4. hpc'[1] = "verified" /\ down'[1] = <<>> BY <1>1, <1>5, <2>1, <2>2, <2>3, Zenon DEF Shape
  <2>5. CleanStream' BY <1>7, <2>2, <2>3, <2>4, Zenon DEF CleanStream, sendVars, Whole
  <2> QED BY <1>7, <2>1, <2>5, Zenon
<1>11. Clean' BY <1>7, <1>10, CleanKept, Zenon
<1>12. h \in {"verified", "renamed", "delete", "failing", "ended"} /\ (h = "verified" => Verified) /\ h # "renamed"
  BY Zenon
<1> HIDE DEF u, h, d
<1> QED BY <1>2, <1>4, <1>5, <1>6, <1>7, <1>8, <1>9, <1>11, <1>12, HandlerLeavesFiles, Zenon

\* The file gets its final name.
LEMMA RenameStep == ASSUME Inv, NEW s \in Streams, Rename(s) PROVE Inv'
<1>1. Shape /\ Waiting /\ InOrder /\ Disk /\ Sync /\ hpc[s] = "verified" BY Zenon DEF Inv, Rename
<1>2. s <= opened BY <1>1 DEF InOrder, Shape, Streams
<1>3. /\ faults' \in Nat /\ UNCHANGED <<sendVars, hpos, bitmap, lastAck, data, broken, sclosed, rclosed, faults>>
      /\ up' = [up EXCEPT ![s] = up[s]] /\ hfile' = [hfile EXCEPT ![s] = hfile[s]]
      /\ up[s] \in Frames /\ down[s] \in Frames /\ hfile[s] \in Files \cup {None}
  BY <1>1, Zenon DEF Rename, Shape
<1>4. CASE tmp # None
  <2>1. /\ saved' = tmp /\ tmp' = None /\ hpc' = [hpc EXCEPT ![s] = "renamed"]
        /\ down' = [down EXCEPT ![s] = down[s]] /\ down' = down
    BY <1>1, <1>4, Zenon DEF Rename, Shape
  <2>2. Whole(saved)' BY <1>1, <1>3, <1>4, <2>1, Zenon DEF Disk, Whole
  <2>3. ASSUME faults = 0, ~cancelled PROVE CleanStream' /\ \A t \in Streams : t \in rclosed' => hpc'[t] = "ended"
    <3>1. /\ s = 1 /\ opened = 1 /\ CleanStream /\ rclosed \cap Streams = {} /\ 1 \in Streams
      BY <1>1, <2>3, CleanHandler, Zenon
    <3>2. hpc'[1] = "renamed" BY <1>1, <2>1, <3>1, Zenon DEF Shape
    <3>3. spc = "done" /\ down[1] = <<>> BY <1>1, <3>1, Zenon DEF CleanStream
    <3> QED BY <1>3, <2>1, <3>1, <3>2, <3>3, Zenon DEF CleanStream, sendVars
  <2>4. Clean' BY <1>3, <2>3, CleanKept, Zenon
  <2>5. /\ data' \in [Files -> Seq({"ok", "cut"})] /\ \A f \in Files : Len(data'[f]) <= Total
        /\ \A t \in Streams : t # s /\ hpc[t] = "loop" => hpos[t] <= Len(data'[hfile[t]])
    BY <1>1, <1>3, Zenon DEF Shape, Disk
  <2> QED BY <1>2, <1>3, <1>4, <2>1, <2>2, <2>4, <2>5, HandlerLeaves, Zenon
<1>5. CASE tmp = None
  <2> DEFINE d == Append(down[s], Frame("ERROR", 0))
  <2>1. /\ saved' = saved /\ tmp' = tmp /\ hpc' = [hpc EXCEPT ![s] = "failing"]
        /\ down' = [down EXCEPT ![s] = d]
    BY <1>1, <1>5, Zenon DEF Rename, Shape, Send
  <2>2. Frame("ERROR", 0) \in FrameSet /\ Frame("ERROR", 0).type = "ERROR" BY FrameType, Zenon DEF Types
  <2>3. d \in Frames BY <1>3, <2>2, SentProps, Zenon DEF Frames
  <2>4. ASSUME faults = 0, ~cancelled PROVE FALSE
    BY <1>1, <1>5, <2>4, CleanHandler DEF CleanStream, None
  <2>5. Clean' BY <1>3, <2>4, CleanKept, Zenon
  <2>6. d = down[s] \/ \E f \in FrameSet : d = Append(down[s], f) /\ (f.type = "DONE" => saved # None)
    BY <2>2, Zenon
  <2> HIDE DEF d
  <2> QED BY <1>2, <1>3, <2>1, <2>3, <2>5, <2>6, HandlerLeavesFiles, Zenon
<1> QED BY <1>4, <1>5, Zenon

\* DONE is sent once the file has its final name.
LEMMA SendDoneStep == ASSUME Inv, NEW s \in Streams, SendDone(s) PROVE Inv'
<1>1. Shape /\ Waiting /\ InOrder /\ Disk /\ Sync /\ hpc[s] = "renamed" BY Zenon DEF Inv, SendDone
<1>2. s <= opened BY <1>1 DEF InOrder, Shape, Streams
<1>3. /\ faults' \in Nat /\ UNCHANGED <<sendVars, hpos, bitmap, lastAck, data, tmp, saved, broken, sclosed, faults>>
      /\ up' = [up EXCEPT ![s] = up[s]] /\ hfile' = [hfile EXCEPT ![s] = hfile[s]]
      /\ up[s] \in Frames /\ down[s] \in Frames /\ hfile[s] \in Files \cup {None}
  BY <1>1, Zenon DEF SendDone, Shape, diskVars
<1>4. CASE s \in broken
  <2>1. hpc' = [hpc EXCEPT ![s] = "ended"] /\ down' = [down EXCEPT ![s] = down[s]]
    BY <1>1, <1>4, Zenon DEF SendDone, Shape, End
  <2>2. ASSUME faults = 0, ~cancelled PROVE FALSE BY <1>1, <1>4, <2>2, CleanHandler, Zenon
  <2>3. Clean' BY <1>3, <2>2, CleanKept, Zenon
  <2> QED BY <1>2, <1>3, <2>1, <2>3, HandlerLeavesFiles, Zenon
<1>5. CASE s \notin broken
  <2> DEFINE d == Append(down[s], Frame("DONE", 0))
  <2>1. hpc' = [hpc EXCEPT ![s] = "delete"] /\ down' = [down EXCEPT ![s] = d] /\ rclosed' = rclosed
    BY <1>1, <1>5, Zenon DEF SendDone, Shape, Send
  <2>2. Frame("DONE", 0) \in FrameSet BY FrameType, Zenon DEF Types
  <2>3. d \in Frames BY <1>3, <2>2, SentProps, Zenon DEF Frames
  <2>4. ASSUME faults = 0, ~cancelled PROVE CleanStream' /\ \A t \in Streams : t \in rclosed' => hpc'[t] = "ended"
    <3>1. /\ s = 1 /\ opened = 1 /\ CleanStream /\ rclosed \cap Streams = {} /\ 1 \in Streams
      BY <1>1, <2>4, CleanHandler, Zenon
    <3>2. spc = "done" /\ down[1] = <<>> BY <1>1, <3>1, Zenon DEF CleanStream
    <3>3. d = <<Frame("DONE", 0)>> BY <3>1, <3>2, FirstSent, Zenon
    <3>4. hpc'[1] = "delete" /\ down'[1] = <<Frame("DONE", 0)>> BY <1>1, <2>1, <3>1, <3>3, Zenon DEF Shape
    <3> QED BY <1>3, <2>1, <3>1, <3>2, <3>4, Zenon DEF CleanStream, sendVars
  <2>5. Clean' BY <1>3, <2>4, CleanKept, Zenon
  <2>6. saved # None BY <1>1, Zenon DEF Disk
  <2>7. d = down[s] \/ \E f \in FrameSet : d = Append(down[s], f) /\ (f.type = "DONE" => saved # None)
    BY <2>2, <2>6, Zenon
  <2> HIDE DEF d
  <2> QED BY <1>2, <1>3, <2>1, <2>3, <2>5, <2>7, HandlerLeavesFiles, Zenon
<1> QED BY <1>4, <1>5, Zenon

\* The session leaves the table.
LEMMA DeleteSessionStep == ASSUME Inv, NEW s \in Streams, DeleteSession(s) PROVE Inv'
<1>1. Shape /\ InOrder /\ hpc[s] = "delete" BY Zenon DEF Inv, DeleteSession
<1>2. s <= opened BY <1>1 DEF InOrder, Shape, Streams
<1>3. /\ faults' \in Nat /\ UNCHANGED <<sendVars, hpos, bitmap, lastAck, data, tmp, saved, broken, sclosed, faults>>
      /\ up' = [up EXCEPT ![s] = up[s]] /\ hfile' = [hfile EXCEPT ![s] = hfile[s]]
      /\ down' = [down EXCEPT ![s] = down[s]] /\ down' = down /\ hpc' = [hpc EXCEPT ![s] = "ended"]
      /\ up[s] \in Frames /\ down[s] \in Frames /\ hfile[s] \in Files \cup {None}
      /\ rclosed' = rclosed \cup {s}
  BY <1>1, Zenon DEF DeleteSession, Shape, diskVars, End
<1>4. ASSUME faults = 0, ~cancelled PROVE CleanStream' /\ \A t \in Streams : t \in rclosed' => hpc'[t] = "ended"
  <2>1. /\ s = 1 /\ opened = 1 /\ CleanStream /\ rclosed \cap Streams = {} /\ 1 \in Streams
    BY <1>1, <1>4, CleanHandler, Zenon
  <2>2. hpc'[1] = "ended" BY <1>1, <1>3, <2>1, Zenon DEF Shape
  <2>3. CleanStream' BY <1>1, <1>3, <2>1, <2>2, Zenon DEF CleanStream, sendVars
  <2> QED BY <1>3, <2>1, <2>2, <2>3, Zenon
<1>5. Clean' BY <1>3, <1>4, CleanKept, Zenon
<1> QED BY <1>2, <1>3, <1>5, HandlerLeavesFiles, Zenon

\* A handler that gives up, in a call with a fault or a cancellation.
LEMMA CleanupStep ==
    ASSUME Inv, NEW s \in Streams, hpc[s] # "none", Cleanup(s), NEW u \in Frames,
           up' = [up EXCEPT ![s] = u], faults' \in Nat, faults' # 0 \/ cancelled
    PROVE  Inv'
<1> DEFINE g == IF state[s] = "cancelled" THEN hfile[s] ELSE None
<1>1. Shape /\ InOrder BY Zenon DEF Inv
<1>2. s <= opened BY <1>1 DEF InOrder, Shape, Streams
<1>3. /\ UNCHANGED <<sendVars, hpos, bitmap, lastAck, data, saved>>
      /\ hfile' = [hfile EXCEPT ![s] = g] /\ g \in Files \cup {None} /\ tmp' \in {tmp, None}
      /\ down' = [down EXCEPT ![s] = down[s]] /\ hpc' = [hpc EXCEPT ![s] = "ended"] /\ down[s] \in Frames
  BY <1>1, Zenon DEF Cleanup, End, Shape
<1>4. Clean' BY <1>3, Zenon DEF Clean, sendVars
<1>5. g = hfile[s] \/ g = None BY Zenon
<1> HIDE DEF g
<1> QED BY <1>2, <1>3, <1>4, <1>5, HandlerLeavesFiles, Zenon

\* Cleanup after an error.
LEMMA CleanupFailingStep == ASSUME Inv, NEW s \in Streams, CleanupFailing(s) PROVE Inv'
<1>1. /\ hpc[s] # "none" /\ Cleanup(s) /\ up' = [up EXCEPT ![s] = up[s]] /\ up[s] \in Frames
      /\ faults' = faults /\ faults \in Nat
  BY Zenon DEF CleanupFailing, Inv, Shape
<1>2. ASSUME faults = 0, ~cancelled PROVE FALSE
  BY <1>1, <1>2, CleanHandler, Zenon DEF CleanStream, CleanupFailing
<1> QED BY <1>1, <1>2, CleanupStep, Zenon

\* Cleanup after CANCEL.
LEMMA RecvCancelStep == ASSUME Inv, NEW s \in Streams, RecvCancel(s) PROVE Inv'
<1>1. /\ hpc[s] = "loop" /\ Cleanup(s) /\ up' = [up EXCEPT ![s] = Tail(up[s])] /\ up[s] \in Seq(FrameSet)
      /\ faults' = faults /\ faults \in Nat /\ up[s] # <<>> /\ Head(up[s]).type = "CANCEL"
  BY Zenon DEF RecvCancel, Inv, Shape, Took, Frames, Reads
<1>2. Tail(up[s]) \in Frames /\ 1 \in 1 .. Len(up[s]) /\ Head(up[s]) = up[s][1] BY <1>1, TookProps DEF Frames
<1>3. ASSUME faults = 0, ~cancelled PROVE FALSE
  <2>1. s = 1 /\ opened = 1 /\ CleanStream BY <1>1, <1>3, CleanHandler, Zenon
  <2>2. CASE spc \in {"accept", "send"} BY <1>1, <2>1, <2>2, Zenon DEF Inv, Sync
  <2>3. CASE spc = "ack"
    <3>1. up[s][1].type = "DATA" BY <1>1, <1>2, <2>1, <2>3, Zenon DEF Inv, Sync
    <3> QED BY <1>1, <1>2, <3>1, Zenon
  <2>4. CASE spc = "done"
    <3>1. up[s] = <<Frame("FIN", 0)>> BY <1>1, <2>1, <2>4, Zenon DEF Inv, Sync
    <3>2. Frame("FIN", 0).type = "FIN" BY Zenon DEF Frame
    <3> QED BY <1>1, <3>1, <3>2
  <2> QED BY <1>1, <2>1, <2>2, <2>3, <2>4, Zenon DEF CleanStream
<1> QED BY <1>1, <1>2, <1>3, CleanupStep, Zenon

\* Cleanup after a read that failed.
LEMMA RecvFailsStep == ASSUME Inv, NEW s \in Streams, RecvFails(s) PROVE Inv'
<1>1. /\ hpc[s] = "loop" /\ Cleanup(s) /\ up' = [up EXCEPT ![s] = up[s]] /\ up[s] \in Frames
      /\ faults \in Nat /\ Unless(s \in broken \/ s \in sclosed \/ Abandoned(s))
  BY Zenon DEF RecvFails, Inv, Shape
<1>2. faults' \in Nat BY <1>1 DEF Unless, Fault
<1>3. ASSUME faults' = 0, ~cancelled PROVE FALSE
  <2>1. faults = 0 BY <1>1, <1>3 DEF Unless, Fault
  <2>2. s = 1 /\ cur = 1 /\ CleanStream /\ broken = {} /\ (spc # "ok" => sclosed = {})
    BY <1>1, <1>3, <2>1, CleanHandler, Zenon
  <2>3. spc \notin {"ok", "failed"} BY <1>1, <2>2, Zenon DEF CleanStream
  <2>4. ~ Abandoned(s) BY <2>2, <2>3, Zenon DEF Abandoned
  <2>5. Fault BY <1>1, <2>2, <2>3, <2>4, Zenon DEF Unless
  <2> QED BY <1>1, <1>3, <2>5 DEF Fault
<1> QED BY <1>1, <1>2, <1>3, CleanupStep, Zenon

\* The partial file that a new handler opens is the one that the path names, or
\* a file that nobody else has.
LEMMA OpenedProps ==
    ASSUME Inv, NEW s \in Streams, hpc[s] = "none", up[s] # <<>>
    PROVE  /\ s = opened /\ spc \in {"accept", "failed"} /\ down[s] = <<>> /\ Len(up[s]) = 1 /\ s # None
           /\ tmp # s /\ saved # s /\ \A t \in Streams : hfile[t] # s
           /\ PartFile(s) \in Files /\ PartFile(s) \in {tmp, s}
           /\ Opened(s) \in [Files -> Seq({"ok", "cut"})]
           /\ \A f \in Files : (f # s => Opened(s)[f] = data[f]) /\ Len(Opened(s)[f]) <= Total
           /\ StartSeq(s) \in Nat /\ StartSeq(s) <= Len(Opened(s)[PartFile(s)]) /\ StartSeq(s) <= Total
           /\ Head(up[s]).n = 0 => PartFile(s) = s /\ StartSeq(s) = 0 /\ Opened(s)[s] = <<>>
<1>1. Shape /\ Waiting /\ Disk /\ s # None BY DEF Inv, Streams, None
<1>2. s <= opened BY <1>1 DEF Waiting, Shape, Streams
<1>3. /\ s = opened /\ spc \in {"accept", "failed"} /\ down[s] = <<>> /\ Len(up[s]) = 1
      /\ up[s][1].n = 0 => tmp = None
      /\ tmp # s /\ saved # s /\ \A t \in Streams : hfile[t] # s
  BY <1>1, <1>2, Zenon DEF Waiting
<1>4. Head(up[s]) = up[s][1] /\ Head(up[s]).n \in Nat
  <2>1. up[s] \in Seq(FrameSet) BY <1>1, Zenon DEF Shape, Frames
  <2>2. Head(up[s]) = up[s][1] /\ Head(up[s]) \in FrameSet BY <2>1, TookProps, Zenon
  <2> QED BY <2>2, Zenon DEF FrameSet
<1>5. data \in [Files -> Seq({"ok", "cut"})] /\ \A f \in Files : Len(data[f]) <= Total /\ Len(data[f]) \in Nat
  BY <1>1 DEF Shape, Disk
<1>6. CASE Resumes(s)
  <2>1. /\ Head(up[s]).n # 0 /\ PartFile(s) = tmp /\ tmp \in Files /\ Opened(s) = data
        /\ StartSeq(s) = Len(data[tmp])
    BY <1>1, <1>4, <1>6 DEF Resumes, PartFile, Opened, StartSeq, WrittenChunks, Shape
  <2> QED BY <1>1, <1>3, <1>5, <2>1
<1>7. CASE ~Resumes(s)
  <2>1. tmp = None BY <1>3, <1>4, <1>7 DEF Resumes
  <2>2. PartFile(s) = s /\ Opened(s) = [data EXCEPT ![s] = <<>>] /\ StartSeq(s) = 0 /\ s \in Files
    BY <1>7, <2>1, Zenon DEF PartFile, Opened, StartSeq, Files
  <2>3. Opened(s)[s] = <<>> /\ \A f \in Files : f # s => Opened(s)[f] = data[f] BY <1>5, <2>2, Zenon
  <2>4. <<>> \in Seq({"ok", "cut"}) /\ Len(<<>>) = 0 OBVIOUS
  <2>5. Opened(s) \in [Files -> Seq({"ok", "cut"})] BY <1>5, <2>2, <2>4, Zenon
  <2>6. \A f \in Files : Len(Opened(s)[f]) <= Total BY <1>5, <2>3, <2>4, RelayFileAssumption
  <2> QED BY <1>1, <1>3, <2>2, <2>3, <2>4, <2>5, <2>6, RelayFileAssumption
<1> QED BY <1>6, <1>7, Zenon

\* A handler that never gets to its loop.
LEMMA InitFailsStep == ASSUME Inv, NEW s \in Streams, InitFails(s) PROVE Inv'
<1>1. Shape /\ Disk /\ Clean /\ hpc[s] = "none" /\ s <= opened BY Zenon DEF Inv, InitFails
<1>2. /\ UNCHANGED <<sendVars, hpos, bitmap, lastAck, saved>>
      /\ up' = [up EXCEPT ![s] = up[s]] /\ hfile' = [hfile EXCEPT ![s] = hfile[s]]
      /\ hpc' = [hpc EXCEPT ![s] = "ended"]
      /\ up[s] \in Frames /\ down[s] \in Frames /\ hfile[s] \in Files \cup {None}
  BY <1>1, Zenon DEF InitFails, End, Shape
<1>3. CASE s \in broken /\ UNCHANGED <<down, broken, tmp, data, faults>>
  <2>1. Clean' BY <1>1, <1>2, <1>3, Zenon DEF Clean, sendVars
  <2>2. down' = [down EXCEPT ![s] = down[s]] /\ faults' \in Nat BY <1>1, <1>3, Zenon DEF Shape
  <2> QED BY <1>1, <1>2, <1>3, <2>1, <2>2, HandlerLeavesFiles, Zenon
<1>4. CASE Reads(s, "INIT") /\ Fault /\ down' = Send(down, s, Frame("REJECT", 0)) /\ UNCHANGED <<broken, tmp, data>>
  <2> DEFINE d == Append(down[s], Frame("REJECT", 0))
  <2>1. faults' \in Nat /\ faults' # 0 BY <1>4, FaultCounts, Zenon
  <2>2. Clean' BY <2>1, Zenon DEF Clean
  <2>3. Frame("REJECT", 0) \in FrameSet /\ Frame("REJECT", 0).type = "REJECT" BY FrameType, Zenon DEF Types
  <2>4. d \in Frames BY <1>2, <2>3, SentProps, Zenon DEF Frames
  <2>5. down' = [down EXCEPT ![s] = d] BY <1>1, <1>4, Zenon DEF Send, Shape
  <2>6. d = down[s] \/ \E f \in FrameSet : d = Append(down[s], f) /\ (f.type = "DONE" => saved # None)
    BY <2>3, Zenon
  <2> HIDE DEF d
  <2> QED BY <1>1, <1>2, <1>4, <2>1, <2>2, <2>4, <2>5, <2>6, HandlerLeavesFiles, Zenon
<1>5. CASE Reads(s, "INIT") /\ Fault /\ tmp' = None /\ data' = Opened(s) /\ UNCHANGED down
  <2>1. faults' \in Nat /\ faults' # 0 BY <1>5, FaultCounts, Zenon
  <2>2. Clean' BY <2>1, Zenon DEF Clean
  <2>3. down' = [down EXCEPT ![s] = down[s]] BY <1>1, <1>5, Zenon DEF Shape
  <2>4. /\ saved # s /\ \A t \in Streams : hfile[t] # s
        /\ data' \in [Files -> Seq({"ok", "cut"})]
        /\ \A f \in Files : (f # s => data'[f] = data[f]) /\ Len(data'[f]) <= Total
    BY <1>1, <1>5, OpenedProps, Zenon DEF Reads
  <2>5. \A t \in Streams : t # s /\ hpc[t] = "loop" => hpos[t] <= Len(data'[hfile[t]])
    BY <1>1, <2>4, Zenon DEF Disk
  <2>6. saved' # None => Whole(saved)' BY <1>1, <1>2, <2>4, Zenon DEF Disk, Whole, Shape
  <2> QED BY <1>1, <1>2, <1>5, <2>1, <2>2, <2>3, <2>4, <2>5, <2>6, HandlerLeaves, Zenon
<1> QED BY <1>3, <1>4, <1>5, Zenon DEF InitFails

\* A handler gets to its loop.
LEMMA HandleInitStep == ASSUME Inv, NEW s \in Streams, HandleInit(s) PROVE Inv'
<1> DEFINE n == StartSeq(s)
           p == PartFile(s)
           a == Frame("ACCEPT", n)
<1>1. Shape /\ Once /\ Waiting /\ InOrder /\ Sync /\ Disk /\ hpc[s] = "none" /\ up[s] # <<>>
  BY Zenon DEF Inv, HandleInit, Reads
<1>2. /\ s = opened /\ spc \in {"accept", "failed"} /\ down[s] = <<>> /\ Len(up[s]) = 1 /\ s # None
      /\ tmp # s /\ saved # s /\ \A t \in Streams : hfile[t] # s
      /\ p \in Files /\ p \in {tmp, s}
      /\ data' \in [Files -> Seq({"ok", "cut"})]
      /\ \A f \in Files : (f # s => data'[f] = data[f]) /\ Len(data'[f]) <= Total
      /\ n \in Nat /\ n <= Len(data'[p]) /\ n <= Total
      /\ Head(up[s]).n = 0 => p = s /\ n = 0 /\ data'[s] = <<>>
  BY <1>1, OpenedProps, Zenon DEF HandleInit
<1>3. a \in FrameSet /\ a.type = "ACCEPT" BY <1>2, FrameType DEF Types
<1>4. up[s] \in Seq(FrameSet) /\ down[s] \in Seq(FrameSet) BY <1>1, Zenon DEF Shape, Frames
<1>5. Tail(up[s]) \in Frames /\ Tail(up[s]) = <<>>
  <2>1. Tail(up[s]) \in Seq(FrameSet) /\ Len(Tail(up[s])) = 0 BY <1>1, <1>2, <1>4, TookProps
  <2>2. \A q \in Seq(FrameSet) : Len(q) = 0 => q = <<>> OBVIOUS
  <2> QED BY <2>1, <2>2, Zenon DEF Frames
<1>6. Append(down[s], a) = <<a>> /\ <<a>> \in Frames BY <1>2, <1>3, FirstSent, OneFrame, Zenon DEF Frames
<1>7. {k \in 0 .. Total - 1 : k < n} = 0 .. n - 1 BY <1>2, RelayFileAssumption
<1> HIDE DEF n, p, a
<1>8. /\ UNCHANGED <<sendVars, broken, sclosed, rclosed, saved, faults>> /\ tmp' = p
      /\ hpc' = [hpc EXCEPT ![s] = "loop"] /\ hfile' = [hfile EXCEPT ![s] = p]
      /\ hpos' = [hpos EXCEPT ![s] = n] /\ lastAck' = [lastAck EXCEPT ![s] = n]
      /\ bitmap' = [bitmap EXCEPT ![s] = 0 .. n - 1]
      /\ up' = [up EXCEPT ![s] = <<>>] /\ down' = [down EXCEPT ![s] = <<a>>]
  BY <1>5, <1>6, <1>7, Zenon DEF HandleInit, Took, Send, n, p, a
<1>9. /\ hpc'[s] = "loop" /\ hfile'[s] = p /\ hpos'[s] = n /\ lastAck'[s] = n /\ bitmap'[s] = 0 .. n - 1
      /\ up'[s] = <<>> /\ down'[s] = <<a>>
      /\ \A t \in Streams : t # s => /\ hpc'[t] = hpc[t] /\ hfile'[t] = hfile[t] /\ hpos'[t] = hpos[t]
                                     /\ lastAck'[t] = lastAck[t] /\ bitmap'[t] = bitmap[t]
                                     /\ up'[t] = up[t] /\ down'[t] = down[t]
  BY <1>1, <1>8, Zenon DEF Shape
<1>10. Shape'
  <2>1. <<>> \in Frames /\ 0 .. n - 1 \in SUBSET Nat BY <1>2 DEF Frames
  <2> QED BY <1>1, <1>2, <1>6, <1>8, <2>1, Zenon DEF Shape, sendVars
<1>11. Once' BY <1>1, <1>8, Zenon DEF Once, sendVars
<1>12. Waiting'
  <2>1. SUFFICES ASSUME NEW t \in Streams, hpc'[t] = "none"
                 PROVE  /\ down'[t] = <<>> /\ up'[t] = <<>> /\ t > opened /\ tmp' # t /\ saved # t
                        /\ \A v \in Streams : hfile'[v] # t
    BY <1>1, <1>8 DEF Waiting, sendVars, Shape, Streams
  <2>2. t # s /\ hpc[t] = "none" BY <1>9, <2>1, Zenon
  <2>3. t > opened
    <3>1. t <= opened => t = opened BY <1>1, <2>2, Zenon DEF Waiting
    <3>2. t \in Nat /\ opened \in Nat BY <1>1 DEF Shape, Streams
    <3> QED BY <1>2, <2>2, <3>1, <3>2
  <2>4. down[t] = <<>> /\ up[t] = <<>> /\ tmp # t /\ saved # t /\ \A v \in Streams : hfile[v] # t
    BY <1>1, <2>2, <2>3, Zenon DEF Waiting
  <2>5. p # t BY <1>2, <2>2, <2>4, Zenon
  <2> QED BY <1>8, <1>9, <2>2, <2>3, <2>4, <2>5
<1>13. InOrder'
  <2>1. Len(<<>>) = 0 BY Zenon
  <2>2. ~ (s > opened) BY <1>1, <1>2 DEF Shape
  <2>3. \A t \in Streams : hpc'[t] = "verified" => FALSE BY <1>1, <1>2, <1>9 DEF InOrder
  <2>4. \A t \in Streams : t > opened => hpc'[t] = "none" BY <1>1, <1>9, <2>2, Zenon DEF InOrder
  <2>5. \A t \in Streams : hpc'[t] = "loop" =>
            \/ Len(up'[t]) = 0
            \/ hpc[t] = "loop" /\ up'[t] = up[t] /\ hpos'[t] = hpos[t]
    BY <1>9, <2>1, Zenon
  <2> QED BY <1>1, <1>8, <2>3, <2>4, <2>5 DEF InOrder, sendVars
<1>14. Sync'
  <2>1. \A t \in Streams : t = opened => t = s BY <1>2, Zenon
  <2> QED BY <1>2, <1>8, <1>9, <2>1, Zenon DEF Sync, sendVars, a
<1>15. Disk'
  <2>1. \A t \in Streams : hpc'[t] = "loop" => /\ hfile'[t] \in Files /\ hpos'[t] <= Len(data'[hfile'[t]])
                                               /\ bitmap'[t] = 0 .. (hpos'[t] - 1)
    <3>1. SUFFICES ASSUME NEW t \in Streams, hpc'[t] = "loop"
                   PROVE  /\ hfile'[t] \in Files /\ hpos'[t] <= Len(data'[hfile'[t]])
                          /\ bitmap'[t] = 0 .. (hpos'[t] - 1)
      BY Zenon
    <3>2. CASE t = s BY <1>2, <1>9, <3>2, Zenon
    <3>3. CASE t # s
      <4>1. hpc[t] = "loop" /\ hfile'[t] = hfile[t] /\ hpos'[t] = hpos[t] /\ bitmap'[t] = bitmap[t]
        BY <1>9, <3>1, <3>3, Zenon
      <4>2. hfile[t] \in Files /\ hpos[t] <= Len(data[hfile[t]]) /\ bitmap[t] = 0 .. (hpos[t] - 1)
        BY <1>1, <4>1, Zenon DEF Disk
      <4>3. data'[hfile[t]] = data[hfile[t]] BY <1>2, <4>2, Zenon
      <4> QED BY <4>1, <4>2, <4>3, Zenon
    <3> QED BY <3>2, <3>3, Zenon
  <2>2. saved' # None => Whole(saved)' BY <1>1, <1>2, <1>8, Zenon DEF Disk, Whole, Shape
  <2>3. \A t \in Streams : hpc'[t] # "verified" BY <1>1, <1>2, <1>9 DEF InOrder
  <2>4. \A t \in Streams : hpc'[t] = "renamed" => saved' # None BY <1>1, <1>8, <1>9, Zenon DEF Disk
  <2>5. \A i \in 1 .. Len(<<a>>) : <<a>>[i].type # "DONE" BY <1>3
  <2>6. \A t \in Streams : \A i \in 1 .. Len(down'[t]) : down'[t][i].type = "DONE" => saved' # None
    BY <1>1, <1>8, <1>9, <2>5 DEF Disk
  <2> QED BY <1>2, <2>1, <2>2, <2>3, <2>4, <2>6, Zenon DEF Disk
<1>16. Clean'
  <2>1. SUFFICES ASSUME faults = 0, ~cancelled
                 PROVE  CleanStream' /\ \A t \in Streams : t \in rclosed' => hpc'[t] = "ended"
    BY <1>8, CleanKept, Zenon
  <2>2. /\ s = 1 /\ opened = 1 /\ CleanStream /\ rclosed \cap Streams = {} /\ spc # "failed" /\ 1 \in Streams
    BY <1>1, <2>1, CleanHandler, Zenon
  <2>3. up[s] = <<Frame("INIT", 0)>> BY <1>1, <2>2, Zenon DEF CleanStream
  <2>4. Head(up[s]).n = 0
    <3>1. Head(<<Frame("INIT", 0)>>) = Frame("INIT", 0) OBVIOUS
    <3> QED BY <2>3, <3>1 DEF Frame
  <2>5. p = 1 /\ n = 0 /\ data'[1] = <<>> /\ spc = "accept" BY <1>2, <2>2, <2>4, Zenon
  <2>6. <<>> = [k \in 1 .. 0 |-> "ok"] OBVIOUS
  <2>7. CleanStream' BY <1>8, <1>9, <2>2, <2>5, <2>6 DEF CleanStream, sendVars
  <2> QED BY <1>8, <2>2, <2>7, Zenon
<1> QED BY <1>10, <1>11, <1>12, <1>13, <1>14, <1>15, <1>16, Zenon DEF Inv

\* After the next chunk the handler holds everything up to its new position.
LEMMA ContinuousAfter ==
    ASSUME NEW h \in Nat, h < Total
    PROVE  MaxContinuous((0 .. h - 1) \cup {h}) = h + 1
<1> DEFINE B == (0 .. h - 1) \cup {h}
           P(m) == (\A k \in 0 .. m - 1 : k \in B) /\ m \notin B
<1>1. h + 1 \in 0 .. Total /\ P(h + 1) BY RelayFileAssumption
<1>2. ASSUME NEW m \in 0 .. Total, P(m) PROVE m = h + 1
  <2>1. ~ (m < h + 1) BY <1>2
  <2>2. ~ (m > h + 1)
    <3>1. SUFFICES ASSUME m > h + 1 PROVE FALSE BY Zenon
    <3>2. h + 1 \in 0 .. m - 1 BY <3>1
    <3> QED BY <1>2, <3>2
  <2> QED BY <2>1, <2>2
<1>3. MaxContinuous(B) = CHOOSE m \in 0 .. Total : P(m) BY Zenon DEF MaxContinuous
<1> HIDE DEF P, B
<1>4. (CHOOSE m \in 0 .. Total : P(m)) = h + 1 BY <1>1, <1>2, Zenon
<1> QED BY <1>3, <1>4, Zenon DEF B

\* Writing the right chunk at a position up to the end of the file.
LEMMA WriteOk ==
    ASSUME NEW q \in Seq({"ok", "cut"}), NEW p \in Nat, p <= Len(q), p < Total, Len(q) <= Total
    PROVE  LET r == WriteCell(q, p, "ok")
           IN  /\ r \in Seq({"ok", "cut"}) /\ Len(r) <= Total /\ Len(q) <= Len(r) /\ p + 1 <= Len(r)
               /\ q = [k \in 1 .. Total |-> "ok"] => r = [k \in 1 .. Total |-> "ok"]
               /\ q = [k \in 1 .. p |-> "ok"] => r = [k \in 1 .. p + 1 |-> "ok"]
<1> DEFINE m == IF p + 1 > Len(q) THEN p + 1 ELSE Len(q)
           c(k) == IF k = p + 1 THEN "ok" ELSE IF k <= Len(q) THEN q[k] ELSE "hole"
           r == [k \in 1 .. m |-> c(k)]
<1>1. r = WriteCell(q, p, "ok") BY Zenon DEF WriteCell
<1>2. m \in Nat /\ m <= Total /\ Len(q) <= m /\ p + 1 <= m /\ Len(q) \in Nat BY RelayFileAssumption
<1>3. \A k \in 1 .. m : c(k) \in {"ok", "cut"} OBVIOUS
<1>4. \A k \in 1 .. m : (\A j \in 1 .. Len(q) : q[j] = "ok") => c(k) = "ok" OBVIOUS
<1>5. Total \in Nat /\ Len([k \in 1 .. Total |-> "ok"]) = Total /\ Len([k \in 1 .. p |-> "ok"]) = p
  BY RelayFileAssumption
<1>6. q = [k \in 1 .. Total |-> "ok"] => m = Total /\ \A j \in 1 .. Len(q) : q[j] = "ok"
  BY <1>5
<1>7. q = [k \in 1 .. p |-> "ok"] => m = p + 1 /\ \A j \in 1 .. Len(q) : q[j] = "ok"
  BY <1>5
<1> HIDE DEF m, c
<1>8. r \in Seq({"ok", "cut"}) /\ Len(r) = m
  <2>1. r \in [1 .. m -> {"ok", "cut"}] BY <1>3, Zenon
  <2>2. r \in Seq({"ok", "cut"}) BY <1>2, <2>1, CellsAreSeq, Zenon
  <2> QED BY <1>2, <2>2
<1>9. (\A j \in 1 .. Len(q) : q[j] = "ok") => r = [k \in 1 .. m |-> "ok"] BY <1>4, Zenon
<1> HIDE DEF r
<1>10. /\ q = [k \in 1 .. Total |-> "ok"] => r = [k \in 1 .. Total |-> "ok"]
       /\ q = [k \in 1 .. p |-> "ok"] => r = [k \in 1 .. p + 1 |-> "ok"]
  BY <1>6, <1>7, <1>9, Zenon
<1> QED BY <1>1, <1>2, <1>8, <1>10, Zenon

\* A chunk is written, and acknowledged at the end of a batch.
LEMMA RecvDataStep == ASSUME Inv, NEW s \in Streams, RecvData(s) PROVE Inv'
<1> DEFINE h == hpos[s]
           g == hfile[s]
           r == WriteCell(data[g], h, "ok")
           acks == AckDue(s, h + 1)
           a == Frame("ACK", h)
           d == IF acks THEN Append(down[s], a) ELSE down[s]
           l == IF acks THEN h + 1 ELSE lastAck[s]
           u == Tail(up[s])
<1>1. Shape /\ Once /\ Waiting /\ InOrder /\ Sync /\ Disk /\ hpc[s] = "loop" /\ Reads(s, "DATA")
  BY Zenon DEF Inv, RecvData
<1>2. /\ Head(up[s]).n = h /\ h \in Nat /\ h < Total /\ h \notin bitmap[s]
      /\ g \in Files /\ h <= Len(data[g]) /\ bitmap[s] = 0 .. (h - 1) /\ data[g] \in Seq({"ok", "cut"})
      /\ up[s] \in Seq(FrameSet) /\ up[s] # <<>> /\ Len(up[s]) \in Nat /\ Len(up[s]) # 0
  BY <1>1, NextChunk, Zenon
<1>3. MaxContinuous(bitmap[s] \cup {h}) = h + 1 BY <1>2, ContinuousAfter, Zenon
<1>4. /\ r \in Seq({"ok", "cut"}) /\ Len(r) <= Total /\ Len(data[g]) <= Len(r) /\ h + 1 <= Len(r)
      /\ data[g] = [k \in 1 .. Total |-> "ok"] => r = [k \in 1 .. Total |-> "ok"]
      /\ data[g] = [k \in 1 .. h |-> "ok"] => r = [k \in 1 .. h + 1 |-> "ok"]
  <2>1. Len(data[g]) <= Total BY <1>1, <1>2, Zenon DEF Disk
  <2> QED BY <1>2, <2>1, WriteOk, Zenon
<1>5. a \in FrameSet /\ a.type = "ACK" BY <1>2, FrameType, Zenon DEF Types
<1>6. /\ u \in Seq(FrameSet) /\ Len(u) = Len(up[s]) - 1 /\ \A i \in 1 .. Len(u) : u[i] = up[s][i + 1]
  BY <1>2, TookProps, Zenon
<1>7. down[s] \in Seq(FrameSet) /\ d \in Frames /\ l \in Nat
  BY <1>1, <1>2, <1>5, SentProps DEF Shape, Frames
<1>8. 0 .. (h - 1) \cup {h} = 0 .. h BY <1>2
<1>9. /\ data' = [data EXCEPT ![g] = r] /\ hpos' = [hpos EXCEPT ![s] = h + 1]
      /\ bitmap' = [bitmap EXCEPT ![s] = 0 .. h]
  BY <1>2, <1>8, Zenon DEF RecvData
<1>10. /\ down' = (IF acks THEN Send(down, s, Frame("ACK", (h + 1) - 1)) ELSE down)
       /\ lastAck' = (IF acks THEN [lastAck EXCEPT ![s] = h + 1] ELSE lastAck)
       /\ up' = [up EXCEPT ![s] = u]
  BY <1>2, <1>3, Zenon DEF RecvData, Took
<1>11. (h + 1) - 1 = h BY <1>2
<1>12. down' = [down EXCEPT ![s] = d] /\ lastAck' = [lastAck EXCEPT ![s] = l]
  BY <1>1, <1>10, <1>11, Zenon DEF Send, Shape
<1>13. UNCHANGED <<sendVars, broken, sclosed, rclosed, hpc, hfile, tmp, saved, faults>> BY Zenon DEF RecvData
<1> HIDE DEF h, g, r, acks, a, d, l, u
<1>14. /\ hpos'[s] = h + 1 /\ bitmap'[s] = 0 .. h /\ down'[s] = d /\ lastAck'[s] = l /\ up'[s] = u
       /\ \A t \in Streams : t # s => /\ hpos'[t] = hpos[t] /\ bitmap'[t] = bitmap[t] /\ down'[t] = down[t]
                                      /\ lastAck'[t] = lastAck[t] /\ up'[t] = up[t]
  BY <1>1, <1>9, <1>10, <1>12, Zenon DEF Shape
<1>15. data'[g] = r /\ \A f \in Files : f # g => data'[f] = data[f] BY <1>1, <1>2, <1>9, Zenon DEF Shape
<1>16. /\ data' \in [Files -> Seq({"ok", "cut"})]
       /\ \A f \in Files : /\ Len(data'[f]) <= Total /\ Len(data[f]) <= Len(data'[f])
                           /\ Len(data[f]) \in Nat /\ Len(data'[f]) \in Nat
                           /\ Whole(f) => data'[f] = [k \in 1 .. Total |-> "ok"]
  <2>1. data' \in [Files -> Seq({"ok", "cut"})] /\ data \in [Files -> Seq({"ok", "cut"})]
    BY <1>1, <1>2, <1>4, <1>9, Zenon DEF Shape
  <2>2. \A f \in Files : Len(data[f]) \in Nat /\ Len(data'[f]) \in Nat BY <2>1
  <2>3. \A f \in Files : Len(data[f]) <= Total BY <1>1, Zenon DEF Disk
  <2>4. \A f \in Files : Len(data'[f]) <= Total /\ Len(data[f]) <= Len(data'[f])
    BY <1>4, <1>15, <2>2, <2>3
  <2>5. \A f \in Files : Whole(f) => data'[f] = [k \in 1 .. Total |-> "ok"]
    BY <1>4, <1>15, Zenon DEF Whole
  <2> QED BY <2>1, <2>2, <2>4, <2>5, Zenon
<1>17. Shape'
  <2>1. 0 .. h \in SUBSET Nat /\ h + 1 \in Nat /\ u \in Frames BY <1>2, <1>6 DEF Frames
  <2>2. up' \in [Streams -> Frames] /\ down' \in [Streams -> Frames] BY <1>1, <1>7, <1>10, <1>12, <2>1, Zenon DEF Shape
  <2>3. hpos' \in [Streams -> Nat] /\ bitmap' \in [Streams -> SUBSET Nat] /\ lastAck' \in [Streams -> Nat]
    BY <1>1, <1>7, <1>9, <1>12, <2>1, Zenon DEF Shape
  <2> QED BY <1>1, <1>13, <1>16, <2>2, <2>3, Zenon DEF Shape, sendVars
<1>18. Once' BY <1>1, <1>13, Zenon DEF Once, sendVars
<1>19. Waiting'
  <2>1. \A t \in Streams : hpc[t] = "none" => t # s BY <1>1, Zenon
  <2>2. \A t \in Streams : hpc[t] = "none" => up'[t] = up[t] /\ down'[t] = down[t] BY <1>14, <2>1, Zenon
  <2> QED BY <1>1, <1>13, <2>2 DEF Waiting, sendVars
<1>20. InOrder'
  <2>1. ASSUME NEW i \in 1 .. Len(u)
        PROVE  /\ u[i].type \in {"DATA", "FIN", "CANCEL"}
               /\ i < Len(u) => u[i].type = "DATA"
               /\ u[i].type = "DATA" => u[i].n = (h + 1) + i - 1 /\ u[i].n < Total
               /\ u[i].type = "FIN" => s = opened /\ spc \in {"done", "ok", "failed"}
    <3>1. i + 1 \in 1 .. Len(up[s]) /\ u[i] = up[s][i + 1] /\ (i < Len(u) => i + 1 < Len(up[s]))
      BY <1>2, <1>6, <2>1
    <3>2. /\ up[s][i + 1].type \in {"DATA", "FIN", "CANCEL"}
          /\ i + 1 < Len(up[s]) => up[s][i + 1].type = "DATA"
          /\ up[s][i + 1].type = "DATA" => up[s][i + 1].n = h + (i + 1) - 1 /\ up[s][i + 1].n < Total
          /\ up[s][i + 1].type = "FIN" => s = opened /\ spc \in {"done", "ok", "failed"}
      BY <1>1, <3>1, Zenon DEF InOrder, h
    <3>3. h + (i + 1) - 1 = (h + 1) + i - 1 BY <1>2
    <3> QED BY <3>1, <3>2, <3>3, Zenon
  <2>2. \A t \in Streams : t # s => up'[t] = up[t] /\ hpos'[t] = hpos[t] BY <1>14, Zenon
  <2> QED BY <1>1, <1>13, <1>14, <2>1, <2>2 DEF InOrder, sendVars
<1>21. Sync'
  <2>1. CASE s # opened
    <3>1. \A t \in Streams : t = opened => /\ up'[t] = up[t] /\ down'[t] = down[t] /\ hpos'[t] = hpos[t]
                                           /\ lastAck'[t] = lastAck[t]
      BY <1>14, <2>1, Zenon
    <3> QED BY <1>1, <1>13, <3>1 DEF Sync, BatchWaits, sendVars
  <2>2. CASE s = opened /\ spc # "ack"
    <3>1. spc \notin {"accept", "send", "done", "ok"}
      <4>1. spc # "done"
        <5>1. SUFFICES ASSUME spc = "done" PROVE FALSE BY Zenon
        <5>2. up[s] = <<Frame("FIN", 0)>> BY <1>1, <2>2, <5>1, Zenon DEF Sync
        <5>3. Head(<<Frame("FIN", 0)>>) = Frame("FIN", 0) OBVIOUS
        <5> QED BY <1>1, <5>2, <5>3 DEF Reads, Frame
      <4> QED BY <1>1, <1>2, <2>2, <4>1, Zenon DEF Sync
    <3> QED BY <1>13, <2>2, <3>1, Zenon DEF Sync, sendVars
  <2>3. CASE s = opened /\ spc = "ack"
    <3>1. /\ \A i \in 1 .. Len(up[s]) : up[s][i].type = "DATA"
          /\ seq = h + Len(up[s]) /\ down[s] = <<>> /\ lastAck[s] < seq /\ seq <= lastAck[s] + AckBatch
          /\ seq = lastAck[s] + AckBatch \/ seq = Total
      BY <1>1, <1>2, <2>3, Zenon DEF Sync, BatchWaits, h
    <3>2. seq <= Total
      <4>1. Len(up[s]) \in 1 .. Len(up[s]) BY <1>2
      <4>2. up[s][Len(up[s])].n = h + Len(up[s]) - 1 /\ up[s][Len(up[s])].n < Total
        BY <1>1, <3>1, <4>1, Zenon DEF InOrder, h
      <4> QED BY <1>2, <3>1, <4>2, RelayFileAssumption
    <3>3. seq = (h + 1) + Len(u) /\ \A i \in 1 .. Len(u) : u[i].type = "DATA"
      <4>1. \A i \in 1 .. Len(u) : i + 1 \in 1 .. Len(up[s]) BY <1>2, <1>6
      <4>2. \A i \in 1 .. Len(u) : u[i].type = "DATA" BY <1>6, <3>1, <4>1, Zenon
      <4>3. Len(u) = Len(up[s]) - 1 /\ seq = h + Len(up[s]) /\ h \in Nat /\ Len(up[s]) \in Nat
        BY <1>2, <1>6, <3>1, Zenon
      <4>4. \A x, y, z \in Nat : z = y - 1 => x + y = (x + 1) + z OBVIOUS
      <4>5. Len(u) \in Nat BY <1>6
      <4>6. seq = (h + 1) + Len(u) BY <4>3, <4>4, <4>5
      <4> QED BY <4>2, <4>6, Zenon
    <3>4. lastAck[s] \in Nat /\ AckBatch \in Nat /\ seq \in Nat /\ Total \in Nat /\ Len(u) \in Nat
      BY <1>1, <1>6, RelayFileAssumption DEF Shape
    <3>5. BatchWaits(s)'
      <4>1. CASE Len(u) = 0
        <5>1. acks /\ seq = h + 1 BY <1>2, <3>1, <3>3, <3>4, <4>1 DEF acks, AckDue
        <5>2. u = <<>> BY <1>6, <4>1
        <5>3. h = seq - 1 /\ l = seq BY <1>2, <5>1 DEF l
        <5>4. d = <<Frame("ACK", seq - 1)>> BY <3>1, <5>1, <5>3, FirstSent, Zenon DEF d, a
        <5>5. seq # 0 BY <1>2, <5>1
        <5> QED BY <1>13, <1>14, <5>2, <5>3, <5>4, <5>5, Zenon DEF BatchWaits, sendVars
      <4>2. CASE Len(u) # 0
        <5>1. ~acks BY <1>2, <3>1, <3>2, <3>3, <3>4, <4>2 DEF acks, AckDue
        <5>2. u # <<>> BY <4>2
        <5>3. d = <<>> /\ l = lastAck[s] BY <3>1, <5>1, Zenon DEF d, l
        <5> QED BY <1>13, <1>14, <3>1, <5>2, <5>3, Zenon DEF BatchWaits, sendVars
      <4> QED BY <4>1, <4>2, Zenon
    <3> QED BY <1>13, <1>14, <2>3, <3>3, <3>5, Zenon DEF Sync, sendVars
  <2> QED BY <2>1, <2>2, <2>3, Zenon
<1>22. Disk'
  <2>1. \A t \in Streams : hpc[t] = "loop" => hpos'[t] <= Len(data'[hfile[t]]) /\ hfile[t] \in Files
    <3>1. SUFFICES ASSUME NEW t \in Streams, hpc[t] = "loop"
                   PROVE  hpos'[t] <= Len(data'[hfile[t]]) /\ hfile[t] \in Files
      BY Zenon
    <3>2. hfile[t] \in Files /\ hpos[t] <= Len(data[hfile[t]]) /\ hpos[t] \in Nat
      BY <1>1, <3>1, Zenon DEF Disk, Shape
    <3>3. CASE t = s BY <1>4, <1>14, <1>15, <3>2, <3>3, Zenon DEF g
    <3>4. CASE t # s
      <4>1. Len(data[hfile[t]]) <= Len(data'[hfile[t]]) /\ Len(data[hfile[t]]) \in Nat /\ Len(data'[hfile[t]]) \in Nat
        BY <1>16, <3>2, Zenon
      <4> QED BY <1>14, <3>2, <3>4, <4>1
    <3> QED BY <3>3, <3>4, Zenon
  <2>2. \A t \in Streams : hpc[t] = "loop" => bitmap'[t] = 0 .. (hpos'[t] - 1)
    <3>1. h = (h + 1) - 1 BY <1>2
    <3> QED BY <1>1, <1>14, <3>1, Zenon DEF Disk
  <2>3. (saved' # None => Whole(saved)') /\ \A t \in Streams : hpc[t] = "verified" /\ tmp # None => Whole(tmp)'
    BY <1>1, <1>13, <1>16, Zenon DEF Disk, Whole, Shape
  <2>4. \A i \in 1 .. Len(d) : d[i].type = "DONE" => saved # None
    <3>1. \A i \in 1 .. Len(down[s]) : down[s][i].type = "DONE" => saved # None BY <1>1, Zenon DEF Disk
    <3>2. CASE ~acks BY <3>1, <3>2, Zenon DEF d
    <3>3. CASE acks
      <4>1. /\ Len(d) = Len(down[s]) + 1 /\ d[Len(down[s]) + 1] = a
            /\ \A j \in 1 .. Len(down[s]) : d[j] = down[s][j]
        BY <1>5, <1>7, <3>3, SentProps DEF d
      <4>2. \A i \in 1 .. Len(d) : i = Len(down[s]) + 1 \/ i \in 1 .. Len(down[s]) BY <1>7, <4>1
      <4> QED BY <1>5, <3>1, <4>1, <4>2, Zenon
    <3> QED BY <3>2, <3>3, Zenon
  <2>5. \A t \in Streams : \A i \in 1 .. Len(down'[t]) : down'[t][i].type = "DONE" => saved' # None
    BY <1>1, <1>13, <1>14, <2>4, Zenon DEF Disk
  <2>6. \A t \in Streams : hpc[t] = "renamed" => saved # None BY <1>1, Zenon DEF Disk
  <2> QED BY <1>13, <1>16, <2>1, <2>2, <2>3, <2>5, <2>6, Zenon DEF Disk
<1>23. Clean'
  <2>1. SUFFICES ASSUME faults = 0, ~cancelled
                 PROVE  CleanStream' /\ \A t \in Streams : t \in rclosed' => hpc'[t] = "ended"
    BY <1>13, CleanKept, Zenon
  <2>2. /\ s = 1 /\ opened = 1 /\ CleanStream /\ rclosed \cap Streams = {} /\ 1 \in Streams
    BY <1>1, <2>1, CleanHandler, Zenon
  <2>3. /\ spc \in {"accept", "send", "ack", "done"} /\ tmp = 1 /\ hfile[1] = 1 /\ g = 1
        /\ data[1] = [k \in 1 .. h |-> "ok"] /\ hpc[1] = "loop"
    BY <1>1, <2>2, Zenon DEF CleanStream, g, h
  <2>4. data'[1] = [k \in 1 .. h + 1 |-> "ok"] BY <1>4, <1>15, <2>3, Zenon
  <2>5. CleanStream' BY <1>13, <1>14, <2>2, <2>3, <2>4, Zenon DEF CleanStream, sendVars
  <2> QED BY <1>13, <2>2, <2>5, Zenon
<1> QED BY <1>17, <1>18, <1>19, <1>20, <1>21, <1>22, <1>23, Zenon DEF Inv

-----------------------------------------------------------------------------
\* The invariant, and what follows from it

\* The invariant holds initially.
LEMMA InitInv == ASSUME Init PROVE Inv
<1> USE DEF Init
<1>1. Shape
  <2>1. 0 \in 0 .. MaxStreams /\ 0 \in Nat /\ {} \in SUBSET Nat BY RelayFileAssumption
  <2>2. <<>> \in Frames /\ <<>> \in Seq({"ok", "cut"}) BY DEF Frames
  <2> QED BY <2>1, <2>2, Zenon DEF Shape, None
<1>2. Once BY Zenon DEF Once, None
<1>3. Waiting BY DEF Waiting, Streams, None
<1>4. InOrder BY Zenon DEF InOrder
<1>5. Sync BY Zenon DEF Sync
<1>6. Disk
  <2>1. Len(<<>>) = 0 BY Zenon
  <2>2. \A f \in Files : Len(data[f]) <= Total BY <2>1, RelayFileAssumption
  <2>3. \A s \in Streams : Len(down[s]) = 0 BY <2>1, Zenon
  <2>4. \A s \in Streams : \A i \in 1 .. Len(down[s]) : FALSE BY <2>3
  <2> QED BY <2>2, <2>4, Zenon DEF Disk
<1>7. Clean BY DEF Clean
<1> QED BY <1>1, <1>2, <1>3, <1>4, <1>5, <1>6, <1>7, Zenon DEF Inv

\* Every step keeps the invariant.
LEMMA NextInv == ASSUME MaxSends <= 1, Inv, [Next]_vars PROVE Inv'
<1>1. CASE Sender
  BY <1>1, ReadAcceptStep, AcceptFailsStep, SendBatchStep, WriteErrorStep, SendCancelStep, ReadAckStep,
     ResumeStep, ResumeFailsStep, SendFinStep, ReadDoneStep, DoneFailsStep, ZenonT(60)
     DEF Sender
<1>2. CASE Environment
  BY <1>2, StartSendStep, OpenFailsStep, CancelSenderStep, CrashStep, CancelReceiverStep, BreakStep, Zenon
     DEF Environment
<1>3. ASSUME NEW s \in Streams, Handler(s) PROVE Inv'
  BY <1>3, HandleInitStep, InitFailsStep, RecvDataStep, DiskErrorStep, RecvFinStep, RenameStep, SendDoneStep,
     DeleteSessionStep, CleanupFailingStep, RecvCancelStep, RecvFailsStep, Zenon
     DEF Handler
<1>4. CASE UNCHANGED vars
  <2>1. faults' \in Nat BY <1>4, Zenon DEF Inv, Shape, vars
  <2> QED BY <1>4, <2>1, Unaffected, Zenon DEF vars, netVars, sesVars
<1> QED BY <1>1, <1>2, <1>3, <1>4, Zenon DEF Next

\* The invariant holds.
LEMMA Invariance == ASSUME MaxSends <= 1 PROVE Spec => []Inv
<1>1. Init => Inv BY InitInv, Zenon
<1>2. Inv /\ [Next]_vars => Inv' BY NextInv, Zenon
<1> QED BY <1>1, <1>2, PTL DEF Spec

-----------------------------------------------------------------------------
\* Chunks that are not whole

Owed(d, n) == ExistsInjection(Damaged(d), 1 .. n)

\* Faults that account for d account for files damaged nowhere else.
LEMMA OwedFewer ==
    ASSUME NEW d, NEW e, NEW n \in Nat, NEW m \in {n, n + 1}, Owed(d, n), Damaged(e) \subseteq Damaged(d)
    PROVE  Owed(e, m)
<1>1. PICK w \in [Damaged(d) -> 1 .. n] : IsInjective(w)
  BY Zenon DEF Owed, ExistsInjection, Injection
<1> DEFINE v == [c \in Damaged(e) |-> w[c]]
<1>2. 1 .. n \subseteq 1 .. m OBVIOUS
<1>3. v \in [Damaged(e) -> 1 .. m] BY <1>1, <1>2, Zenon
<1>4. IsInjective(v) BY <1>1, Zenon DEF IsInjective
<1> QED BY <1>3, <1>4, Zenon DEF Owed, ExistsInjection, Injection

\* One more fault accounts for one more cell.
LEMMA OwedMore ==
    ASSUME NEW d, NEW e, NEW n \in Nat, NEW x, Owed(d, n), Damaged(e) \subseteq Damaged(d) \cup {x}
    PROVE  Owed(e, n + 1)
<1>1. PICK w \in [Damaged(d) -> 1 .. n] : IsInjective(w)
  BY Zenon DEF Owed, ExistsInjection, Injection
<1> DEFINE v == [c \in Damaged(e) |-> IF c \in Damaged(d) THEN w[c] ELSE n + 1]
<1>2. n + 1 \in 1 .. (n + 1) /\ n + 1 \notin 1 .. n /\ 1 .. n \subseteq 1 .. (n + 1) OBVIOUS
<1>3. v \in [Damaged(e) -> 1 .. (n + 1)] BY <1>1, <1>2, Zenon
<1>4. ASSUME NEW a \in Damaged(e), NEW b \in Damaged(e), v[a] = v[b] PROVE a = b
  <2>1. CASE a \in Damaged(d) /\ b \in Damaged(d) BY <1>1, <1>4, <2>1, Zenon DEF IsInjective
  <2>2. CASE a \notin Damaged(d) /\ b \notin Damaged(d) BY <2>2, Zenon
  <2>3. CASE a \in Damaged(d) /\ b \notin Damaged(d) BY <1>1, <1>2, <1>4, <2>3, Zenon
  <2>4. CASE a \notin Damaged(d) /\ b \in Damaged(d) BY <1>1, <1>2, <1>4, <2>4, Zenon
  <2> QED BY <2>1, <2>2, <2>3, <2>4, Zenon
<1>5. IsInjective(v) BY <1>4, Zenon DEF IsInjective
<1> QED BY <1>3, <1>5, Zenon DEF Owed, ExistsInjection, Injection

\* Files that keep what is whole have no more damaged cells, except for one.
LEMMA DamagedCells ==
    ASSUME NEW d, NEW e, NEW g, NEW p,
           \A f \in Files : \A k \in 1 .. Total :
              k \in DOMAIN e[f] /\ e[f][k] # "ok" => <<f, k>> = <<g, p>> \/ (k \in DOMAIN d[f] /\ d[f][k] # "ok")
    PROVE  Damaged(e) \subseteq Damaged(d) \cup {<<g, p>>}
<1>1. SUFFICES ASSUME NEW c \in Damaged(e) PROVE c \in Damaged(d) \cup {<<g, p>>} BY Zenon
<1>2. PICK f \in Files, k \in 1 .. Total : c = <<f, k>> BY <1>1 DEF Damaged
<1>3. c[1] = f /\ c[2] = k BY <1>2
<1>4. k \in DOMAIN e[f] /\ e[f][k] # "ok" BY <1>1, <1>3, Zenon DEF Damaged
<1>5. CASE <<f, k>> = <<g, p>> BY <1>2, <1>5, Zenon
<1>6. CASE k \in DOMAIN d[f] /\ d[f][k] # "ok"
  <2>1. c \in Files \X (1 .. Total) BY <1>2
  <2> QED BY <1>3, <1>6, <2>1, Zenon DEF Damaged
<1> QED BY <1>4, <1>5, <1>6, Zenon

LEMMA DamagedFewer ==
    ASSUME NEW d, NEW e,
           \A f \in Files : \A k \in 1 .. Total :
              k \in DOMAIN e[f] /\ e[f][k] # "ok" => k \in DOMAIN d[f] /\ d[f][k] # "ok"
    PROVE  Damaged(e) \subseteq Damaged(d)
<1>1. SUFFICES ASSUME NEW c \in Damaged(e) PROVE c \in Damaged(d) BY Zenon
<1>2. PICK f \in Files, k \in 1 .. Total : c = <<f, k>> BY <1>1 DEF Damaged
<1>3. c[1] = f /\ c[2] = k /\ c \in Files \X (1 .. Total) BY <1>2
<1> QED BY <1>1, <1>3, Zenon DEF Damaged

\* A write that is not completed leaves at most one damaged cell more.
LEMMA TornOne ==
    ASSUME Inv, NEW s \in Streams, NEW d \in Torn(s)
    PROVE  \E x : Damaged(d) \subseteq Damaged(data) \cup {x}
<1>1. data \in [Files -> Seq({"ok", "cut"})] BY Zenon DEF Inv, Shape
<1>2. CASE d = data BY <1>2, Zenon
<1>3. CASE d # data
  <2> DEFINE g == hfile[s]
             q == Append(data[g], "cut")
             p == Len(data[g]) + 1
  <2>1. hpc[s] = "loop" /\ Reads(s, "DATA") /\ d = [data EXCEPT ![g] = q] BY <1>3, Zenon DEF Torn
  <2>2. g \in Files /\ data[g] \in Seq({"ok", "cut"}) BY <2>1, NextChunk, Zenon
  <2>3. \A k \in DOMAIN q : k = p \/ (k \in DOMAIN data[g] /\ q[k] = data[g][k]) BY <2>2
  <2> HIDE DEF g, q, p
  <2>4. d[g] = q /\ \A f \in Files : f # g => d[f] = data[f] BY <1>1, <2>1, <2>2, Zenon
  <2>5. \A f \in Files : \A k \in 1 .. Total :
           k \in DOMAIN d[f] /\ d[f][k] # "ok" => <<f, k>> = <<g, p>> \/ (k \in DOMAIN data[f] /\ data[f][k] # "ok")
    BY <2>3, <2>4, Zenon
  <2>6. Damaged(d) \subseteq Damaged(data) \cup {<<g, p>>} BY <2>5, DamagedCells, Zenon
  <2> QED BY <2>6, Zenon
<1> QED BY <1>2, <1>3, Zenon

\* Opening the partial file, and writing a chunk at its place, leave no more of them.
LEMMA OpenedFewer ==
    ASSUME Inv, NEW s \in Streams PROVE Damaged(Opened(s)) \subseteq Damaged(data)
<1>1. data \in [Files -> Seq({"ok", "cut"})] /\ PartFile(s) \in Files
  BY Zenon DEF Inv, Shape, PartFile, Files
<1>2. DOMAIN <<>> = {} OBVIOUS
<1>3. \A f \in Files : Opened(s)[f] = data[f] \/ Opened(s)[f] = <<>> BY <1>1, Zenon DEF Opened
<1>4. \A f \in Files : \A k \in 1 .. Total :
         k \in DOMAIN Opened(s)[f] /\ Opened(s)[f][k] # "ok" => k \in DOMAIN data[f] /\ data[f][k] # "ok"
  BY <1>2, <1>3, Zenon
<1> QED BY <1>4, DamagedFewer, Zenon

LEMMA WriteFewer ==
    ASSUME Inv, NEW s \in Streams, RecvData(s) PROVE Damaged(data') \subseteq Damaged(data)
<1> DEFINE h == hpos[s]
           g == hfile[s]
           q == data[g]
           r == WriteCell(q, h, "ok")
<1>1. data \in [Files -> Seq({"ok", "cut"})] BY Zenon DEF Inv, Shape
<1>2. /\ Head(up[s]).n = h /\ h \in Nat /\ h \notin bitmap[s] /\ g \in Files /\ h <= Len(q)
      /\ q \in Seq({"ok", "cut"})
  BY NextChunk, Zenon DEF RecvData
<1>3. data' = [data EXCEPT ![g] = r] BY <1>2, Zenon DEF RecvData
<1>4. \A k \in DOMAIN r : r[k] # "ok" => k \in DOMAIN q /\ q[k] # "ok" BY <1>2 DEF WriteCell
<1> HIDE DEF h, g, q, r
<1>5. \A f \in Files : \A k \in 1 .. Total :
         k \in DOMAIN data'[f] /\ data'[f][k] # "ok" => k \in DOMAIN data[f] /\ data[f][k] # "ok"
  <2>1. data'[g] = r /\ \A f \in Files : f # g => data'[f] = data[f] BY <1>1, <1>2, <1>3, Zenon
  <2> QED BY <1>4, <2>1, Zenon DEF q
<1> QED BY <1>5, DamagedFewer, Zenon

\* Every step that damages a chunk is a fault, and damages one.
LEMMA DamageCosts ==
    ASSUME MaxSends <= 1, Inv, [Next]_vars
    PROVE  \/ Damaged(data') \subseteq Damaged(data) /\ faults' \in {faults, faults + 1}
           \/ (\E x : Damaged(data') \subseteq Damaged(data) \cup {x}) /\ faults' = faults + 1
<1>2. faults' \in {faults, faults + 1}
  <2>1. CASE Sender
    BY <2>1, Zenon DEF Sender, ReadAccept, AcceptFails, SendBatch, WriteError, SendCancel, ReadAck, Resume, ResumeFails,
                SendFin, ReadDone, DoneFails, Unless, Fault
  <2>2. CASE Environment
    BY <2>2, Zenon DEF Environment, StartSend, OpenFails, CancelSender, Crash, CancelReceiver, Break, Fault
  <2>3. ASSUME NEW s \in Streams, Handler(s) PROVE faults' \in {faults, faults + 1}
    BY <2>3, Zenon DEF Handler, HandleInit, InitFails, RecvData, DiskError, RecvFin, Rename, SendDone, DeleteSession,
                CleanupFailing, RecvCancel, RecvFails, Cleanup, Unless, Fault
  <2>4. CASE UNCHANGED vars BY <2>4, Zenon DEF vars
  <2> QED BY <2>1, <2>2, <2>3, <2>4, Zenon DEF Next
<1>3. CASE data' = data BY <1>2, <1>3, Zenon
<1>4. CASE Crash
  <2>1. PICK s \in Streams : data' \in Torn(s) BY <1>4, Zenon DEF Crash
  <2> QED BY <1>4, <2>1, TornOne, Zenon DEF Crash, Fault
<1>5. ASSUME NEW s \in Streams, DiskError(s)
      PROVE  (\E x : Damaged(data') \subseteq Damaged(data) \cup {x}) /\ faults' = faults + 1
  BY <1>5, TornOne, Zenon DEF DiskError, Fault
<1>6. ASSUME NEW s \in Streams, HandleInit(s) \/ InitFails(s)
      PROVE  Damaged(data') \subseteq Damaged(data)
  <2>1. data' \in {data, Opened(s)} BY <1>6, Zenon DEF HandleInit, InitFails
  <2> QED BY <2>1, OpenedFewer, Zenon
<1>7. CASE Sender
  <2>1. data' = data
    BY <1>7, Zenon DEF Sender, ReadAccept, AcceptFails, SendBatch, WriteError, SendCancel, ReadAck, Resume, ResumeFails,
                SendFin, ReadDone, DoneFails, diskVars
  <2> QED BY <1>3, <2>1, Zenon
<1>8. CASE Environment
  <2>1. Crash \/ data' = data
    BY <1>8, Zenon DEF Environment, StartSend, OpenFails, CancelSender, CancelReceiver, Break, diskVars
  <2> QED BY <1>3, <1>4, <2>1, Zenon
<1>9. ASSUME NEW s \in Streams, Handler(s)
      PROVE  HandleInit(s) \/ InitFails(s) \/ RecvData(s) \/ DiskError(s) \/ data' = data
  BY <1>9, Zenon DEF Handler, RecvFin, Rename, SendDone, DeleteSession, CleanupFailing, RecvCancel, RecvFails, Cleanup,
              diskVars
<1>10. CASE UNCHANGED vars BY <1>3, <1>10, Zenon DEF vars, diskVars
<1> QED BY <1>2, <1>3, <1>5, <1>6, <1>7, <1>8, <1>9, <1>10, WriteFewer, Zenon DEF Next

Few == Owed(data, faults)

\* ReceivedInPlace for one call of SendFile, whatever the file, the batches, the streams
\* and the faults: what a handler acknowledges is in its file and in its place, and is
\* whole but for one chunk per fault.
THEOREM ReceivedInPlaceTheorem == ASSUME MaxSends <= 1 PROVE Spec => []ReceivedInPlace
<1>1. Init => Few
  <2>1. SUFFICES ASSUME Init PROVE Few BY Zenon
  <2>2. Damaged(data) = {} BY <2>1 DEF Init, Damaged
  <2>3. [c \in {} |-> 1] \in [{} -> 1 .. faults] /\ IsInjective([c \in {} |-> 1]) BY Zenon DEF IsInjective
  <2> QED BY <2>2, <2>3, Zenon DEF Few, Owed, ExistsInjection, Injection
<1>2. ASSUME Inv, Few, [Next]_vars PROVE Few'
  <2>1. faults \in Nat /\ Owed(data, faults) BY <1>2, Zenon DEF Inv, Shape, Few
  <2>2. CASE Damaged(data') \subseteq Damaged(data) /\ faults' \in {faults, faults + 1}
    <3>1. Owed(data', faults') BY <2>1, <2>2, OwedFewer, Zenon
    <3> QED BY <3>1, Zenon DEF Few, Owed, Damaged
  <2>3. ASSUME NEW x, Damaged(data') \subseteq Damaged(data) \cup {x}, faults' = faults + 1 PROVE Few'
    <3>1. Owed(data', faults + 1) BY <2>1, <2>3, OwedMore, Zenon
    <3> QED BY <2>3, <3>1, Zenon DEF Few, Owed, Damaged
  <2> QED BY <1>2, <2>2, <2>3, DamageCosts, Zenon
<1>3. Inv /\ Few => ReceivedInPlace
  <2>1. SUFFICES ASSUME Inv, Few PROVE ReceivedInPlace BY Zenon
  <2>2. ASSUME NEW f \in Files, NEW k \in DOMAIN data[f] PROVE data[f][k] \in {"ok", "cut"}
    <3>1. data[f] \in Seq({"ok", "cut"}) BY <2>1, Zenon DEF Inv, Shape
    <3> QED BY <2>2, <3>1
  <2>3. ASSUME NEW s \in Streams, hpc[s] = "loop", NEW k \in bitmap[s] PROVE k + 1 \in DOMAIN data[hfile[s]]
    <3>1. hfile[s] \in Files /\ hpos[s] <= Len(data[hfile[s]]) /\ k \in 0 .. (hpos[s] - 1) /\ hpos[s] \in Nat
      BY <2>1, <2>3, Zenon DEF Inv, Disk, Shape
    <3>2. data[hfile[s]] \in Seq({"ok", "cut"}) BY <2>1, <3>1, Zenon DEF Inv, Shape
    <3>3. DOMAIN data[hfile[s]] = 1 .. Len(data[hfile[s]]) /\ Len(data[hfile[s]]) \in Nat BY <3>2
    <3> QED BY <3>1, <3>3
  <2> QED BY <2>1, <2>2, <2>3, Zenon DEF ReceivedInPlace, Few, Owed
<1> QED BY <1>1, <1>2, <1>3, Invariance, PTL DEF Spec

\* FailsForCause for one call: SendFile returns an error only after a fault or a
\* cancellation.
THEOREM FailsForCauseTheorem == ASSUME MaxSends <= 1 PROVE Spec => []FailsForCause
<1>1. Inv => FailsForCause BY DEF Inv, Clean, FailsForCause, Shape
<1> QED BY <1>1, Invariance, PTL

\* DONE is only ever read when the file is there.
LEMMA DoneMeansSaved == ASSUME Inv, ReadDone PROVE saved # None
<1>1. cur \in Streams /\ Shape /\ Disk /\ down[cur] # <<>> /\ Head(down[cur]).type = "DONE"
  BY RelayFileAssumption DEF Inv, Once, Shape, Streams, ReadDone, Gets
<1>2. down[cur] \in Seq(FrameSet) BY <1>1, Zenon DEF Shape, Frames
<1>3. 1 \in 1 .. Len(down[cur]) /\ Head(down[cur]) = down[cur][1] BY <1>1, <1>2, TookProps
<1> QED BY <1>1, <1>3, Zenon DEF Disk

Pending(pc) == pc \notin {"ok", "failed"}

\* What a step does to the final name and to the outcome.
LEMMA Outcomes ==
    ASSUME MaxSends <= 1, Inv, [Next]_vars
    PROVE  \/ spc' = spc /\ (saved' = saved \/ saved' # None)
           \/ saved' = saved /\ Pending(spc) /\ Pending(spc')
           \/ saved' = saved /\ Pending(spc) /\ spc' = "failed"
           \/ saved' = saved /\ Pending(spc) /\ spc' = "ok" /\ saved # None
<1> USE DEF Pending
<1>1. CASE Sender
  <2>1. saved' = saved
    BY <1>1, Zenon DEF Sender, ReadAccept, AcceptFails, SendBatch, WriteError, SendCancel, ReadAck, Resume, ResumeFails,
                SendFin, ReadDone, DoneFails, diskVars
  <2>2. CASE ReadDone BY <2>1, <2>2, DoneMeansSaved, Zenon DEF ReadDone, Return
  <2>3. CASE ~ReadDone
    BY <1>1, <2>1, <2>3, Zenon DEF Sender, ReadAccept, AcceptFails, SendBatch, WriteError, SendCancel, ReadAck, Resume,
                ResumeFails, SendFin, DoneFails, Return, OpenStream
  <2> QED BY <2>2, <2>3, Zenon
<1>2. CASE Environment
  <2>1. CASE StartSend \/ OpenFails
    <3>1. spc = "idle" BY <2>1, RelayFileAssumption DEF StartSend, OpenFails, Inv, Once, Shape
    <3> QED BY <2>1, <3>1, Zenon DEF StartSend, OpenFails, OpenStream, diskVars
  <2>2. CASE CancelSender \/ Crash \/ \E s \in Streams : CancelReceiver(s) \/ Break(s)
    BY <2>2, Zenon DEF CancelSender, Crash, CancelReceiver, Break, diskVars, sendVars
  <2> QED BY <1>2, <2>1, <2>2, Zenon DEF Environment
<1>3. ASSUME NEW s \in Streams, Handler(s) PROVE spc' = spc /\ (saved' = saved \/ saved' # None)
  <2>1. spc' = spc
    BY <1>3, Zenon DEF Handler, HandleInit, InitFails, RecvData, DiskError, RecvFin, Rename, SendDone, DeleteSession,
                CleanupFailing, RecvCancel, RecvFails, Cleanup, sendVars
  <2>2. CASE Rename(s) BY <2>1, <2>2, Zenon DEF Rename
  <2>3. CASE ~Rename(s)
    BY <1>3, <2>1, <2>3, Zenon DEF Handler, HandleInit, InitFails, RecvData, DiskError, RecvFin, SendDone, DeleteSession,
                CleanupFailing, RecvCancel, RecvFails, Cleanup, diskVars
  <2> QED BY <2>2, <2>3, Zenon
<1>4. CASE UNCHANGED vars BY <1>4, Zenon DEF vars, sendVars, diskVars
<1> QED BY <1>1, <1>2, <1>3, <1>4, Zenon DEF Next

\* The transfer implements FileDrop for one call of SendFile: the final name shows
\* nothing or the whole file, and SendFile succeeds only when the file is there.
THEOREM DropTheorem == ASSUME MaxSends <= 1 PROVE Spec => DropSpec
<1> DEFINE file == IF saved = None THEN "absent" ELSE IF Whole(saved) THEN "whole" ELSE "damaged"
           outcome == IF spc \in {"ok", "failed"} THEN spc ELSE "pending"
<1>1. Init => Drop!Init BY Zenon DEF Init, Drop!Init
<1>2. ASSUME Inv, Inv', [Next]_vars PROVE [Drop!Next]_<<file, outcome>>
  <2>1. file = (IF saved = None THEN "absent" ELSE "whole") /\ file' = (IF saved' = None THEN "absent" ELSE "whole")
    BY <1>2, Zenon DEF Inv, Disk
  <2>2. CASE spc' = spc /\ saved' = saved BY <2>1, <2>2, Zenon
  <2>3. CASE spc' = spc /\ saved' # None
    <3>1. outcome' = outcome /\ file' = "whole" /\ file \in {"absent", "whole"} BY <2>1, <2>3, Zenon
    <3>2. Drop!Arrive \/ UNCHANGED <<file, outcome>> BY <3>1, Zenon DEF Drop!Arrive
    <3> QED BY <3>2, Zenon DEF Drop!Next
  <2>4. CASE saved' = saved /\ Pending(spc) /\ Pending(spc')
    BY <2>1, <2>4, Zenon DEF Pending
  <2>5. CASE saved' = saved /\ Pending(spc) /\ spc' = "failed"
    <3>1. Drop!Fail BY <2>1, <2>5, Zenon DEF Pending, Drop!Fail
    <3> QED BY <3>1, Zenon DEF Drop!Next
  <2>6. CASE saved' = saved /\ Pending(spc) /\ spc' = "ok" /\ saved # None
    <3>1. Drop!Succeed BY <2>1, <2>6, Zenon DEF Pending, Drop!Succeed
    <3> QED BY <3>1, Zenon DEF Drop!Next
  <2> QED BY <1>2, <2>2, <2>3, <2>4, <2>5, <2>6, Outcomes, Zenon
<1> QED BY <1>1, <1>2, Invariance, PTL DEF Spec, DropSpec, Drop!Spec

=============================================================================
