------------------------------ MODULE PbTunnel ------------------------------
(***************************************************************************)
(* One connection through the port tunnel (pbtunnel): a client's socket,   *)
(* the drift server that accepts it (handleP2x), the libp2p stream it      *)
(* opens, the handler of the tunnel protocol at the other peer             *)
(* (handleTunnel), the HTTP proxy it dials by default (serveConnect) and   *)
(* the target the proxy dials.  Each of the three hops runs two pumps, one *)
(* per direction, that read one side and write the other, and each closes  *)
(* a different thing when a pump ends: whether the end of one connection   *)
(* reaches the next is decided there.                                      *)
(*                                                                         *)
(*    client --0-- handleP2x --1-- handleTunnel --2-- serveConnect --3--   *)
(*    target                                                               *)
(*                                                                         *)
(* Data are counted, not carried: a pump never looks at what it copies.    *)
(***************************************************************************)
EXTENDS Naturals

CONSTANTS MaxData,     \* chunks each end may send
          Window,      \* chunks a socket or stream holds before writes block
          MaxFaults    \* sockets and streams the network breaks, opens and dials that fail

ASSUME PbTunnelAssumption == MaxData \in Nat \ {0} /\ Window \in Nat \ {0} /\ MaxFaults \in Nat

P2x    == 1
Tunnel == 2
Proxy  == 3
Hops   == {P2x, Tunnel, Proxy}
Links  == 0 .. 3
Dirs   == {"up", "down"}
Other(d) == IF d = "up" THEN "down" ELSE "up"
IsTcp(l) == l # 1

VARIABLES
    pipe,   \* of each link and direction: chunks queued, state, and whether it is still read
    hop,    \* of each hop: "wait", "open" (OpenStream, Dial), "on", "refused" or "done"
    pump,   \* of each hop and direction: "read", "write", "half" or "ended"
    sent,   \* in each direction: chunks the end has written
    got,    \* in each direction: chunks the other end has read
    faults

vars == <<pipe, hop, pump, sent, got, faults>>

Fresh == [d \in Dirs |-> [q |-> 0, st |-> "open", rx |-> TRUE]]

\* The client is accepted by Listen; nothing further exists yet.
Init ==
    /\ pipe = [l \in Links |-> Fresh]
    /\ hop = [h \in Hops |-> IF h = P2x THEN "open" ELSE "wait"]
    /\ pump = [h \in Hops |-> [d \in Dirs |-> "read"]]
    /\ sent = [d \in Dirs |-> 0]
    /\ got = [d \in Dirs |-> 0]
    /\ faults = 0

Fault == faults < MaxFaults /\ faults' = faults + 1

-----------------------------------------------------------------------------
(***************************************************************************)
(* Sockets and streams.  Closing stops both directions of an end: what it  *)
(* wrote is followed by an EOF, what it has not read is lost.  A TCP       *)
(* socket closed with data unread resets the connection, a stream does     *)
(* not.                                                                    *)
(***************************************************************************)
CloseWrite(link, w) == [link EXCEPT ![w].st = IF @ = "open" THEN "fin" ELSE @]

Reset(link) == [d \in Dirs |-> [link[d] EXCEPT !.st = "reset"]]

\* Close of the end of link l that writes direction w.
Close(l, link, w) ==
    LET r == Other(w)
        shut == IF IsTcp(l) /\ link[r].q > 0 THEN Reset(link) ELSE CloseWrite(link, w)
    IN  [shut EXCEPT ![r].rx = FALSE, ![r].q = 0]

\* The ends a hop holds: the right end of the link before it, the left end of its own.
CloseLeft(p, h)  == [p EXCEPT ![h - 1] = Close(h - 1, @, "down")]
CloseRight(p, h) == [p EXCEPT ![h] = Close(h, @, "up")]
CloseBoth(p, h)  == CloseLeft(CloseRight(p, h), h)

\* A reader meets data, or an error: its own end closed, a reset, an EOF.
Readable(c) == c.rx /\ c.q > 0
ReadFails(c) == \/ ~c.rx
                \/ c.st = "reset"
                \/ c.st = "fin" /\ c.q = 0

\* A writer blocks at a full window; there is no deadline.  TCP answers what is written
\* to an end that no longer reads with a reset.  The interface of the stream leaves
\* this to the muxer: it goes nowhere, and may be refused, or it stays in the window,
\* and what follows fills it, since nobody reads.
Written(p, l, d) ==
    LET c == p[l][d]
        queued == IF c.q < Window THEN {[p EXCEPT ![l][d].q = @ + 1]} ELSE {}
    IN  IF c.st # "open" THEN {}
        ELSE IF c.rx THEN queued
        ELSE IF IsTcp(l) THEN {[p EXCEPT ![l] = Reset(@)]}
        ELSE IF c.q = 0 THEN queued \cup {p} ELSE queued
WriteFails(p, l, d) ==
    p[l][d].st # "open" \/ (~IsTcp(l) /\ ~p[l][d].rx /\ p[l][d].q = 0)

-----------------------------------------------------------------------------
(***************************************************************************)
(* How the hops come up.                                                   *)
(***************************************************************************)
\* handleP2x: OpenStream succeeds, and the stream's handler starts at the other peer.
OpenOk ==
    /\ hop[P2x] = "open"
    /\ hop' = [hop EXCEPT ![P2x] = "on", ![Tunnel] = "open"]
    /\ UNCHANGED <<pipe, pump, sent, got, faults>>

\* It fails; the deferred connClose runs.
OpenFails ==
    /\ hop[P2x] = "open" /\ Fault
    /\ hop' = [hop EXCEPT ![P2x] = "done"]
    /\ pipe' = CloseLeft(pipe, P2x)
    /\ UNCHANGED <<pump, sent, got>>

\* handleTunnel: the target is dialled.
DialOk ==
    /\ hop[Tunnel] = "open"
    /\ hop' = [hop EXCEPT ![Tunnel] = "on", ![Proxy] = "open"]
    /\ UNCHANGED <<pipe, pump, sent, got, faults>>

\* ShouldReject resets the stream.
DialRejected ==
    /\ hop[Tunnel] = "open" /\ Fault
    /\ hop' = [hop EXCEPT ![Tunnel] = "done"]
    /\ pipe' = [pipe EXCEPT ![1] = Reset(Close(1, @, "down"))]
    /\ UNCHANGED <<pump, sent, got>>

\* The dial fails and the stream is closed.
DialFails ==
    /\ hop[Tunnel] = "open" /\ Fault
    /\ hop' = [hop EXCEPT ![Tunnel] = "done"]
    /\ pipe' = CloseLeft(pipe, Tunnel)
    /\ UNCHANGED <<pump, sent, got>>

\* The proxy reads a CONNECT request and answers it; a failed write is not looked at.
Answer(p) == IF WriteFails(p, 2, "down") THEN {p} ELSE Written(p, 2, "down")
ProxyAnswers ==
    /\ hop[Proxy] = "open" /\ Readable(pipe[2]["up"])
    /\ \E p \in Answer([pipe EXCEPT ![2]["up"].q = @ - 1]) : pipe' = p
    /\ got' = [got EXCEPT !["up"] = @ + 1]
    /\ sent' = [sent EXCEPT !["down"] = @ + 1]

\* serveConnect: the target is dialled, the connection hijacked, 200 written.
ConnectOk ==
    /\ ProxyAnswers
    /\ hop' = [hop EXCEPT ![Proxy] = "on"]
    /\ UNCHANGED <<pump, faults>>

\* The dial fails and 502 is written, or the connection cannot be hijacked, the target
\* is closed again and 500 is written; the HTTP server waits for another request.
ConnectFails ==
    /\ ProxyAnswers /\ Fault
    /\ UNCHANGED <<hop, pump>>

\* The HTTP server's connection ends without a tunnel.
ConnectEnds ==
    /\ hop[Proxy] = "open" /\ ReadFails(pipe[2]["up"])
    /\ pipe' = CloseLeft(pipe, Proxy)
    /\ hop' = [hop EXCEPT ![Proxy] = "done"]
    /\ UNCHANGED <<pump, sent, got, faults>>

-----------------------------------------------------------------------------
(***************************************************************************)
(* The pumps: for { n := Read; writen }.                                   *)
(***************************************************************************)
From(h, d) == IF d = "up" THEN h - 1 ELSE h
To(h, d)   == IF d = "up" THEN h ELSE h - 1

\* Mutant: handleTunnel leaves the closing to its end in both directions.
ClosersIdle(p, h, d) ==
    CASE h = Tunnel               -> p
      [] d = "up" /\ h # Tunnel   -> CloseRight(p, h)
      [] d = "down" /\ h # Tunnel -> CloseLeft(p, h)

\* Mutant: serveConnect's upward pump closes the side it reads from.
ClosersSwapped(p, h, d) ==
    CASE d = "up" /\ h = Proxy    -> CloseLeft(p, h)
      [] d = "up" /\ h # Proxy    -> CloseRight(p, h)
      [] d = "down" /\ h = Tunnel -> p
      [] d = "down" /\ h # Tunnel -> CloseLeft(p, h)

\* What a pump's deferred calls close.  The upward pump closes what it writes to: the
\* stream, the dialled connection, the target.  The downward one does the same, except
\* in handleTunnel, where the call is commented out.
Closers(p, h, d) ==
    CASE d = "up"                 -> CloseRight(p, h)
      [] d = "down" /\ h = Tunnel -> p
      [] d = "down" /\ h # Tunnel -> CloseLeft(p, h)

Pumping(h, d, pc) == hop[h] = "on" /\ pump[h][d] = pc

Ends(h, d) ==
    /\ pump' = [pump EXCEPT ![h][d] = "ended"]
    /\ pipe' = Closers(pipe, h, d)

Read(h, d) ==
    /\ Pumping(h, d, "read") /\ Readable(pipe[From(h, d)][d])
    /\ pipe' = [pipe EXCEPT ![From(h, d)][d].q = @ - 1]
    /\ pump' = [pump EXCEPT ![h][d] = "write"]
    /\ UNCHANGED <<hop, sent, got, faults>>

Write(h, d) ==
    /\ Pumping(h, d, "write")
    /\ \E p \in Written(pipe, To(h, d), d) : pipe' = p
    /\ pump' = [pump EXCEPT ![h][d] = "read"]
    /\ UNCHANGED <<hop, sent, got, faults>>

\* writen comes back short.
WriteEnds(h, d) ==
    /\ Pumping(h, d, "write") /\ WriteFails(pipe, To(h, d), d)
    /\ Ends(h, d)
    /\ UNCHANGED <<hop, sent, got, faults>>

\* Mutant: a read that times out ends the pump.
ReadEndsIdle(h, d) ==
    /\ Pumping(h, d, "read")
    /\ <<h, d>> # <<P2x, "up">>
    /\ Ends(h, d)
    /\ UNCHANGED <<hop, sent, got, faults>>

\* A read fails, other than by its deadline.  handleP2x calls CloseWrite on the stream before it closes it.
ReadEnds(h, d) ==
    /\ Pumping(h, d, "read") /\ ReadFails(pipe[From(h, d)][d])
    /\ <<h, d>> # <<P2x, "up">>
    /\ Ends(h, d)
    /\ UNCHANGED <<hop, sent, got, faults>>

ReadHalves ==
    /\ Pumping(P2x, "up", "read") /\ ReadFails(pipe[0]["up"])
    /\ pipe' = [pipe EXCEPT ![1] = CloseWrite(@, "up")]
    /\ pump' = [pump EXCEPT ![P2x]["up"] = "half"]
    /\ UNCHANGED <<hop, sent, got, faults>>

HalfEnds ==
    /\ Pumping(P2x, "up", "half")
    /\ Ends(P2x, "up")
    /\ UNCHANGED <<hop, sent, got, faults>>

\* wg.Wait returns; the handler's own deferred calls close both ends.
Finish(h) ==
    /\ hop[h] = "on" /\ \A d \in Dirs : pump[h][d] = "ended"
    /\ pipe' = CloseBoth(pipe, h)
    /\ hop' = [hop EXCEPT ![h] = "done"]
    /\ UNCHANGED <<pump, sent, got, faults>>

-----------------------------------------------------------------------------
(***************************************************************************)
(* The two ends and the network.                                           *)
(***************************************************************************)
Parties == {"client", "target"}
LinkOf(e) == IF e = "client" THEN 0 ELSE 3
Out(e) == IF e = "client" THEN "up" ELSE "down"
Up(e) == e = "target" => hop[Proxy] = "on" \/ pump[Proxy]["up"] = "ended"

EndSend(e) ==
    /\ Up(e) /\ sent[Out(e)] < MaxData
    /\ \E p \in Written(pipe, LinkOf(e), Out(e)) : pipe' = p
    /\ sent' = [sent EXCEPT ![Out(e)] = @ + 1]
    /\ UNCHANGED <<hop, pump, got, faults>>

EndRead(e) ==
    /\ Up(e) /\ Readable(pipe[LinkOf(e)][Other(Out(e))])
    /\ pipe' = [pipe EXCEPT ![LinkOf(e)][Other(Out(e))].q = @ - 1]
    /\ got' = [got EXCEPT ![Other(Out(e))] = @ + 1]
    /\ UNCHANGED <<hop, pump, sent, faults>>

\* It has no more to say but goes on reading.
EndShutdown(e) ==
    /\ Up(e) /\ pipe[LinkOf(e)][Out(e)].st = "open"
    /\ pipe' = [pipe EXCEPT ![LinkOf(e)] = CloseWrite(@, Out(e))]
    /\ UNCHANGED <<hop, pump, sent, got, faults>>

EndClose(e) ==
    /\ Up(e) /\ pipe[LinkOf(e)][Other(Out(e))].rx
    /\ pipe' = [pipe EXCEPT ![LinkOf(e)] = Close(LinkOf(e), @, Out(e))]
    /\ UNCHANGED <<hop, pump, sent, got, faults>>

\* A connection is reset under its users, or the relay drops the stream.
Break(l) ==
    /\ l \in Hops => hop[l] = "on"
    /\ \E d \in Dirs : pipe[l][d].st = "open" /\ pipe[l][d].rx
    /\ Fault
    /\ pipe' = [pipe EXCEPT ![l] = Reset(@)]
    /\ UNCHANGED <<hop, pump, sent, got>>

Start == \/ OpenOk \/ OpenFails
         \/ DialOk \/ DialRejected \/ DialFails
         \/ ConnectOk \/ ConnectFails \/ ConnectEnds
Pumps == \/ ReadHalves \/ HalfEnds
         \/ \E h \in Hops : Finish(h)
         \/ \E h \in Hops, d \in Dirs : Read(h, d) \/ Write(h, d) \/ WriteEnds(h, d) \/ ReadEnds(h, d)
Drain == \E e \in Parties : EndRead(e)

Next ==
    \/ Start \/ Pumps \/ Drain
    \/ \E e \in Parties : EndSend(e) \/ EndShutdown(e) \/ EndClose(e)
    \/ \E l \in Links : Break(l)

Spec == Init /\ [][Next]_vars

(***************************************************************************)
(* Goroutines run, OpenStream and Dial return (both have a time limit),    *)
(* and the two ends read what they are sent.  Nobody has to send or to     *)
(* close.  One condition for all of them is enough, and asks less than one *)
(* for each: the steps of others come to an end, so the only way to be     *)
(* left out is that all stop.                                              *)
(***************************************************************************)
FairSpec == Spec /\ WF_vars(Start \/ Pumps \/ Drain)

-----------------------------------------------------------------------------
(***************************************************************************)
(* What is checked.                                                        *)
(***************************************************************************)
\* The EOF the target reads says that the client is done: while the client still reads,
\* the target has closed nothing and no connection has been reset on the way, every
\* chunk the client has written has been read by then, through three hops that each
\* treat any end of a read as an EOF.
EofIsWhole ==
    /\ \A l \in Links, d \in Dirs : pipe[l][d].st # "reset"
    /\ pipe[0]["down"].rx
    /\ pipe[3]["up"].rx /\ pipe[3]["down"].st = "open"
    /\ pipe[3]["up"].st = "fin" /\ pipe[3]["up"].q = 0
    => got["up"] = sent["up"]

\* A pump waits in writen at a stream whose other end no longer reads and whose window
\* is full: no deadline ends the wait, and what the hop's other pump closes is not it.
Held(h, d) ==
    /\ Pumping(h, d, "write")
    /\ ~pipe[To(h, d)][d].rx
    /\ Written(pipe, To(h, d), d) = {} /\ ~WriteFails(pipe, To(h, d), d)

\* Once one pump of a hop has ended the other ends too, so the handler returns: what
\* the first closes is what the second waits for.  Two cases are left out: a pump that
\* a muxer holds, and the downward pump of handleTunnel, see TunnelExits.
EndsTogether ==
    []<>(\A h \in Hops, d \in Dirs :
            pump[h][d] = "ended" /\ <<h, d>> # <<Tunnel, "down">>
            => hop[h] = "done" \/ \E e \in Dirs : Held(h, e))

\* A client that has closed its socket leaves nothing behind, whatever breaks: every
\* handler along the way returns, with its sockets and streams closed, unless a pump
\* of it, or of a hop before it, is held by the muxer.
Released ==
    []<>(~pipe[0]["down"].rx =>
            \A h \in Hops : \/ hop[h] \in {"wait", "done"}
                            \/ \E g \in 1 .. h, d \in Dirs : Held(g, d))

\* Released without the exception.  pbtunnel/design.md:29 has the other direction's Read
\* return and its pump exit after any error; a pump in Write is not told.
LeavesNothing == []<>(~pipe[0]["down"].rx => \A h \in Hops : hop[h] \in {"wait", "done"})

\* "An error in either direction ... the other direction's Read returns EOF, exits"
\* (pbtunnel/design.md).  In handleTunnel the end of the target's data ends one pump
\* and tells nobody: the stream stays open, and the client waits.
TunnelExits == pump[Tunnel]["down"] = "ended" ~> pump[Tunnel]["up"] = "ended"
=============================================================================
