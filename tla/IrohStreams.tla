---------------------------- MODULE IrohStreams -----------------------------
(***************************************************************************)
(* The streams two nodes multiplex over the datagrams of an iroh relay     *)
(* (irohrelay.go): OpenStream, AcceptStream, Read, Write, Close and Reset, *)
(* the manager of the streams with the peer, and what a read loop makes of *)
(* the frames that arrive.  The relay delivers in order; when it loses the *)
(* connection of a node, it drops what is under way to that node and tells *)
(* the other one with EndpointGone.                                        *)
(*                                                                         *)
(* Stream objects live on after they leave the manager, since the caller   *)
(* holds them; they are numbered in the order of their creation.           *)
(***************************************************************************)
EXTENDS Naturals, Sequences

CONSTANTS MaxObjs,     \* stream objects created, at both nodes
          MaxEvents,   \* calls of Write, Close, Reset and Read, and connections lost
          AcceptCap    \* capacity of acceptCh, 64 in the code

ASSUME IrohStreamsAssumption ==
    /\ MaxObjs \in Nat \ {0} /\ MaxEvents \in Nat /\ AcceptCap \in Nat \ {0}

Nodes == {"lo", "hi"}
Peer(n) == IF n = "lo" THEN "hi" ELSE "lo"

VARIABLES
    obj,       \* of each node: its stream objects, in order of creation
    allocated, \* of each node, of each manager it created: ids allocated
    managed,   \* of each node: the last manager is in pmap
    opening,   \* of each node: the manager an OpenStream holds, 0 when none does
    sid,       \* of each node: the id it has allocated, until the stream is stored
    acceptCh,  \* of each node: objects that wait for AcceptStream
    leaving,   \* of each node: calls of Close and Reset that have set their flags
    net,       \* of each node: frames under way to it
    refusals,  \* of each node: ids that wait for their sendRESET goroutine
    events,    \* calls and losses so far
    dropped    \* a connection has been lost

mgrVars == <<allocated, managed, opening, sid>>
frameVars == <<net, refusals, events, dropped>>
streamVars == <<obj, mgrVars, acceptCh, leaving, frameVars>>

Objs(n) == 1 .. Len(obj[n])

\* The bound on stream objects leaves room for one more.
Room == Len(obj["lo"]) + Len(obj["hi"]) < MaxObjs

Frame(id, flag, from, num) == [id |-> id, flag |-> flag, from |-> from, num |-> num]

\* newStream, registered with the manager g.
newStream(id, g, opened) ==
    [id |-> id, mgr |-> g, opened |-> opened, rxBuf |-> FALSE, got |-> <<>>, wrote |-> 0,
     closed |-> FALSE, reset |-> FALSE, local |-> FALSE, reader |-> "none"]

StreamsInit ==
    /\ obj = [n \in Nodes |-> <<>>]
    /\ allocated = [n \in Nodes |-> <<>>] /\ managed = [n \in Nodes |-> FALSE]
    /\ opening = [n \in Nodes |-> 0] /\ sid = [n \in Nodes |-> {}]
    /\ acceptCh = [n \in Nodes |-> <<>>] /\ leaving = [n \in Nodes |-> {}]
    /\ net = [n \in Nodes |-> <<>>]
    /\ refusals = [n \in Nodes |-> {}]
    /\ events = 0 /\ dropped = FALSE

\* rxCond.Broadcast()
Broadcast(o) == [o EXCEPT !.reader = IF @ = "waits" THEN "woken" ELSE @]

\* sendTo, over the one relay.
Send(n, f) == net' = [net EXCEPT ![Peer(n)] = Append(@, f)]

-----------------------------------------------------------------------------
(* Opening.                                                                *)

\* The manager in pmap, created when there is none.
Manager(n) == IF managed[n] THEN Len(allocated[n]) ELSE Len(allocated[n]) + 1

EnsureManager(n) ==
    /\ allocated' = [allocated EXCEPT ![n] = IF managed[n] THEN @ ELSE Append(@, 0)]
    /\ managed' = [managed EXCEPT ![n] = TRUE]

\* Mutant: both ends allocate the same numbers.
allocIDShared(n, g) == 2 * allocated[n][g]

\* The ids of the two ends differ in their lowest bit.
allocID(n, g) == 2 * allocated[n][g] + IF n = "lo" THEN 1 ELSE 0

\* OpenStream takes the manager, and lets go of peerMu.
OpenStream(n) ==
    /\ opening[n] = 0 /\ Room
    /\ EnsureManager(n)
    /\ opening' = [opening EXCEPT ![n] = Manager(n)]
    /\ UNCHANGED <<obj, sid, acceptCh, leaving, frameVars>>

\* It allocates the id.
AllocateID(n) ==
    /\ Room /\ opening[n] # 0 /\ sid[n] = {}
    /\ sid' = [sid EXCEPT ![n] = {allocID(n, opening[n])}]
    /\ allocated' = [allocated EXCEPT ![n][opening[n]] = @ + 1]
    /\ UNCHANGED <<obj, managed, opening, acceptCh, leaving, frameVars>>

\* The streams of a manager once it maps the id of o to o.
Stored(streams, o) ==
    Append([k \in DOMAIN streams |->
              IF streams[k].mgr = o.mgr /\ streams[k].id = o.id
              THEN [streams[k] EXCEPT !.mgr = 0] ELSE streams[k]], o)

\* The stream is stored, in a manager that may have left pmap meanwhile, and returned.
StoreStream(n) ==
    /\ Room
    /\ \E id \in sid[n] : obj' = [obj EXCEPT ![n] = Stored(@, newStream(id, opening[n], TRUE))]
    /\ opening' = [opening EXCEPT ![n] = 0] /\ sid' = [sid EXCEPT ![n] = {}]
    /\ UNCHANGED <<allocated, managed, acceptCh, leaving, frameVars>>

AcceptStream(n) ==
    /\ acceptCh[n] # <<>>
    /\ acceptCh' = [acceptCh EXCEPT ![n] = Tail(@)]
    /\ UNCHANGED <<obj, mgrVars, leaving, frameVars>>

-----------------------------------------------------------------------------
(* The caller's side of a stream.                                          *)

\* The object k of node n becomes o.
Becomes(n, k, o) == obj' = [obj EXCEPT ![n][k] = o]

\* The objects callers hold: those opened, and those AcceptStream has returned.
Held(n, k) == \A i \in DOMAIN acceptCh[n] : acceptCh[n][i] # k

Event == events < MaxEvents /\ events' = events + 1

\* Write has no look at the state of the stream.
Write(n, k) ==
    /\ Held(n, k) /\ Event
    /\ LET o == obj[n][k]
       IN  /\ Becomes(n, k, [o EXCEPT !.wrote = @ + 1])
           /\ Send(n, Frame(o.id, "DATA", k, o.wrote + 1))
    /\ UNCHANGED <<mgrVars, acceptCh, leaving, refusals, dropped>>

Current(n) == IF managed[n] THEN Len(allocated[n]) ELSE 0
Registered(n, k) == managed[n] /\ obj[n][k].mgr = Current(n)

\* Close and Reset set their flags, send their frame and remove the stream, in three
\* critical sections; several calls may be at it for one stream.
Leave(n, k, flag) ==
    leaving' = [leaving EXCEPT ![n] = @ \cup
                  {[call |-> events', id |-> obj[n][k].id, flag |-> flag, sent |-> FALSE]}]

\* A stream the peer has closed is left as it is; nobody waiting in Read is woken.
Close(n, k) ==
    /\ Held(n, k) /\ Event /\ ~obj[n][k].closed
    /\ Becomes(n, k, [obj[n][k] EXCEPT !.closed = TRUE, !.local = TRUE])
    /\ Leave(n, k, "CLOSE")
    /\ UNCHANGED <<mgrVars, acceptCh, net, refusals, dropped>>

\* Reset does not ask whether the stream is reset already.
Reset(n, k) ==
    /\ Held(n, k) /\ Event
    /\ Becomes(n, k, Broadcast([obj[n][k] EXCEPT !.reset = TRUE, !.rxBuf = FALSE]))
    /\ Leave(n, k, "RESET")
    /\ UNCHANGED <<mgrVars, acceptCh, net, refusals, dropped>>

SendLeave(n, c) ==
    /\ ~c.sent
    /\ Send(n, Frame(c.id, c.flag, 0, 0))
    /\ leaving' = [leaving EXCEPT ![n] = (@ \ {c}) \cup {[c EXCEPT !.sent = TRUE]}]
    /\ UNCHANGED <<obj, mgrVars, acceptCh, refusals, events, dropped>>

\* The id leaves the current manager, whichever stream it maps to.
removeStream(n, c) ==
    /\ c.sent
    /\ obj' = [obj EXCEPT ![n] =
                  [k \in Objs(n) |->
                     IF Registered(n, k) /\ @[k].id = c.id THEN [@[k] EXCEPT !.mgr = 0] ELSE @[k]]]
    /\ leaving' = [leaving EXCEPT ![n] = @ \ {c}]
    /\ UNCHANGED <<mgrVars, acceptCh, frameVars>>

\* Read takes what is buffered, returns an error or EOF, or waits.
ReadOf(o) ==
    IF o.rxBuf \/ o.reset \/ o.closed THEN [o EXCEPT !.rxBuf = FALSE, !.reader = "none"]
    ELSE [o EXCEPT !.reader = "waits"]

Read(n, k) ==
    /\ Held(n, k) /\ Event /\ obj[n][k].reader = "none"
    /\ Becomes(n, k, ReadOf(obj[n][k]))
    /\ UNCHANGED <<mgrVars, acceptCh, leaving, net, refusals, dropped>>

\* A Read that was woken looks again.
ReadAgain(n, k) ==
    /\ obj[n][k].reader = "woken"
    /\ Becomes(n, k, ReadOf(obj[n][k]))
    /\ UNCHANGED <<mgrVars, acceptCh, leaving, frameVars>>

-----------------------------------------------------------------------------
(* The read loop.                                                          *)

\* Mutant: a frame that finds data in the buffer is dropped.
DispatchedBounded(o, f) ==
    CASE f.flag = "RESET" -> Broadcast([o EXCEPT !.reset = TRUE, !.rxBuf = FALSE])
      [] f.flag = "CLOSE" -> Broadcast([o EXCEPT !.closed = TRUE])
      [] f.flag = "DATA"  -> IF o.rxBuf THEN o ELSE
            Broadcast([o EXCEPT !.rxBuf = TRUE, !.got = Append(@, <<f.from, f.num>>)])

\* Mutant: nobody is told of a CLOSE.
DispatchedUnheard(o, f) ==
    CASE f.flag = "RESET" -> Broadcast([o EXCEPT !.reset = TRUE, !.rxBuf = FALSE])
      [] f.flag = "CLOSE" -> [o EXCEPT !.closed = TRUE]
      [] f.flag = "DATA"  ->
            Broadcast([o EXCEPT !.rxBuf = TRUE, !.got = Append(@, <<f.from, f.num>>)])

\* dispatch of a stream.
Dispatched(o, f) ==
    CASE f.flag = "RESET" -> Broadcast([o EXCEPT !.reset = TRUE, !.rxBuf = FALSE])
      [] f.flag = "CLOSE" -> Broadcast([o EXCEPT !.closed = TRUE])
      [] f.flag = "DATA"  ->
            Broadcast([o EXCEPT !.rxBuf = TRUE, !.got = Append(@, <<f.from, f.num>>)])

Takes(n) == net' = [net EXCEPT ![n] = Tail(@)]
Arrives(n, flags) == net[n] # <<>> /\ Head(net[n]).flag \in flags
Known(n) == {k \in Objs(n) : Registered(n, k) /\ obj[n][k].id = Head(net[n]).id}

\* A frame of a stream the manager has.
DispatchKnown(n) ==
    /\ Arrives(n, {"DATA", "CLOSE", "RESET"}) /\ Known(n) # {}
    /\ obj' = [obj EXCEPT ![n] =
                  [k \in Objs(n) |-> IF k \in Known(n) THEN Dispatched(@[k], Head(net[n])) ELSE @[k]]]
    /\ Takes(n)
    /\ UNCHANGED <<mgrVars, acceptCh, leaving, refusals, events, dropped>>

\* Of another id, only DATA counts: it makes a stream and offers it to
\* AcceptStream, and the data is dropped.
DispatchNew(n) ==
    /\ Arrives(n, {"DATA"}) /\ Known(n) = {}
    /\ Len(acceptCh[n]) < AcceptCap /\ Room
    /\ EnsureManager(n)
    /\ obj' = [obj EXCEPT ![n] = Append(@, newStream(Head(net[n]).id, Manager(n), FALSE))]
    /\ acceptCh' = [acceptCh EXCEPT ![n] = Append(@, Len(obj[n]) + 1)]
    /\ Takes(n)
    /\ UNCHANGED <<opening, sid, leaving, refusals, events, dropped>>

\* With acceptCh full the stream is deleted again and a RESET is on its way.
DispatchRefused(n) ==
    /\ Arrives(n, {"DATA"}) /\ Known(n) = {} /\ Len(acceptCh[n]) = AcceptCap
    /\ EnsureManager(n)
    /\ refusals' = [refusals EXCEPT ![n] = @ \cup {Head(net[n]).id}]
    /\ Takes(n)
    /\ UNCHANGED <<obj, opening, sid, acceptCh, leaving, events, dropped>>

DispatchIgnored(n) ==
    /\ Arrives(n, {"CLOSE", "RESET"}) /\ Known(n) = {}
    /\ EnsureManager(n) /\ Takes(n)
    /\ UNCHANGED <<obj, opening, sid, acceptCh, leaving, refusals, events, dropped>>

\* The goroutine of a refusal.
sendRESET(n, id) ==
    /\ id \in refusals[n]
    /\ refusals' = [refusals EXCEPT ![n] = @ \ {id}]
    /\ Send(n, Frame(id, "RESET", 0, 0))
    /\ UNCHANGED <<obj, mgrVars, acceptCh, leaving, events, dropped>>

\* EndpointGone: the manager leaves pmap and its streams are reset.
peerGone(n) ==
    /\ Arrives(n, {"GONE"})
    /\ managed' = [managed EXCEPT ![n] = FALSE]
    /\ obj' = [obj EXCEPT ![n] =
                  [k \in Objs(n) |->
                     IF Registered(n, k)
                     THEN Dispatched([@[k] EXCEPT !.mgr = 0], Frame(0, "RESET", 0, 0))
                     ELSE @[k]]]
    /\ Takes(n)
    /\ UNCHANGED <<allocated, opening, sid, acceptCh, leaving, refusals, events, dropped>>

-----------------------------------------------------------------------------
(* The relay.                                                              *)

\* The relay loses the connection of n, which connects again at once.
Drop(n) ==
    /\ Event /\ dropped' = TRUE
    /\ net[n] # <<>> \/ managed[Peer(n)]
    /\ net' = [net EXCEPT ![n] = <<>>, ![Peer(n)] = Append(@, Frame(0, "GONE", 0, 0))]
    /\ UNCHANGED <<obj, mgrVars, acceptCh, leaving, refusals>>

Dispatch(n) ==
    DispatchKnown(n) \/ DispatchNew(n) \/ DispatchRefused(n) \/ DispatchIgnored(n) \/ peerGone(n)

StreamsNext ==
    \E n \in Nodes :
       \/ OpenStream(n) \/ AllocateID(n) \/ StoreStream(n) \/ AcceptStream(n)
       \/ \E k \in Objs(n) : Write(n, k) \/ Close(n, k) \/ Reset(n, k) \/ Read(n, k) \/ ReadAgain(n, k)
       \/ \E c \in leaving[n] : SendLeave(n, c) \/ removeStream(n, c)
       \/ Dispatch(n) \/ \E id \in refusals[n] : sendRESET(n, id)
       \/ Drop(n)

StreamsSpec == StreamsInit /\ [][StreamsNext]_streamVars

-----------------------------------------------------------------------------
(* Properties.                                                             *)

\* Of the frames the peer's stream w has written: those that k has got, those
\* under way to it, and the numbers of both.
Got(n, k, w) == {i \in DOMAIN obj[n][k].got : obj[n][k].got[i][1] = w}
Due(n, k, w) ==
    {i \in DOMAIN net[n] : /\ net[n][i].flag = "DATA"
                           /\ net[n][i].id = obj[n][k].id /\ net[n][i].from = w}
Numbers(n, k, w) ==
    {obj[n][k].got[i][2] : i \in Got(n, k, w)} \cup {net[n][i].num : i \in Due(n, k, w)}

\* They came, and will come, in the order of their numbers and once each.
InOrder(n, k, w) ==
    /\ \A i, j \in Got(n, k, w) : i < j => obj[n][k].got[i][2] < obj[n][k].got[j][2]
    /\ \A i, j \in Due(n, k, w) : i < j => net[n][i].num < net[n][j].num
    /\ \A i \in Got(n, k, w), j \in Due(n, k, w) : obj[n][k].got[i][2] < net[n][j].num

\* While no connection is lost, a stream has no gap, no duplicate and nothing
\* out of order: what it has got from a stream of the peer with its id, and
\* what is under way, is everything that stream wrote from some frame on,
\* whatever opens, closes, resets and refusals went on around it.  (Not from
\* the first frame on: the one that makes the stream is dropped.)
NoGap ==
    ~dropped =>
      \A n \in Nodes : \A k \in Objs(n), w \in Objs(Peer(n)) :
         Registered(n, k) /\ obj[Peer(n)][w].id = obj[n][k].id =>
           /\ InOrder(n, k, w)
           /\ \E first \in 1 .. (obj[Peer(n)][w].wrote + 1) :
                 Numbers(n, k, w) = first .. obj[Peer(n)][w].wrote

\* No wakeup is lost: a Read that waits has nothing to return, whatever order
\* the data, the CLOSE, the RESET and the EndpointGone came in.  (Except after
\* a Close of its own end, which wakes nobody.)
NoLostWakeup ==
    \A n \in Nodes : \A k \in Objs(n) :
       obj[n][k].reader = "waits" =>
         /\ ~obj[n][k].rxBuf /\ ~obj[n][k].reset
         /\ obj[n][k].closed => obj[n][k].local

\* Opening at both ends at once never collides: storing an opened stream takes
\* the place of no other, as long as the manager is the first (allocID, oddBit).
OpenFresh ==
    [][\A n \in Nodes : opening[n] = 1 /\ opening'[n] = 0 =>
         \A k \in Objs(n) : obj[n][k].mgr = 1 => obj'[n][k].mgr = 1]_streamVars

\* What Read promises as a net.Conn: with no connection lost and no stream
\* ended or refused, an accepted stream gets what its opener wrote, from the
\* first frame on.  Not so: the frame that makes the stream is dropped.
FirstFrameArrives ==
    (/\ ~dropped /\ \A n \in Nodes : refusals[n] = {}
     /\ \A n \in Nodes : \A k \in Objs(n) : ~obj[n][k].closed /\ ~obj[n][k].reset)
    => \A n \in Nodes : \A k \in Objs(n), w \in Objs(Peer(n)) :
          ~obj[n][k].opened /\ obj[Peer(n)][w].id = obj[n][k].id =>
             Numbers(n, k, w) = 1 .. obj[Peer(n)][w].wrote

=============================================================================
