--------------------------- MODULE PbTunnelProofs ---------------------------
(***************************************************************************)
(* No early end of file through the tunnel, for any amount of data, any    *)
(* window and any number of faults.                                        *)
(*                                                                         *)
(* The argument has two parts.  Closing says, of every end of a link that  *)
(* is closed, which pump or handler closed it.  Flow says, as long as      *)
(* nothing was reset and neither end has closed, that the upward pumps end *)
(* one after the other, each with nothing left behind it, and that every   *)
(* chunk the client has written is in a queue, in a pump or read.          *)
(***************************************************************************)
EXTENDS PbTunnel, TLAPS

Channels == [q : Nat, st : {"open", "fin", "reset"}, rx : BOOLEAN]

Shape ==
    /\ pipe \in [Links -> [Dirs -> Channels]]
    /\ hop \in [Hops -> {"wait", "open", "on", "done"}]
    /\ pump \in [Hops -> [Dirs -> {"read", "write", "half", "ended"}]]
    /\ sent \in [Dirs -> Nat] /\ got \in [Dirs -> Nat]

\* The handlers start one after the other.
Order ==
    /\ hop[P2x] # "wait"
    /\ hop[P2x] = "open" => hop[Tunnel] = "wait"
    /\ hop[P2x] = "on" => hop[Tunnel] # "wait"
    /\ hop[Tunnel] \in {"wait", "open"} => hop[Proxy] = "wait"
    /\ hop[Tunnel] = "on" => hop[Proxy] # "wait"
    /\ \A h \in Hops, d \in Dirs :
         /\ pump[h][d] # "read" => hop[h] \in {"on", "done"}
         /\ pump[h][d] = "half" => h = P2x /\ d = "up"
    /\ hop[P2x] = "done" => (\A d \in Dirs : pump[P2x][d] = "ended") \/ hop[Tunnel] = "wait"
    /\ hop[Tunnel] = "done" => (\A d \in Dirs : pump[Tunnel][d] = "ended") \/ hop[Proxy] = "wait"

\* The handler has closed its end of the link to its left.
ClosedLeft(h) ==
    \/ hop[h] = "done"
    \/ hop[h] = "on" /\ h # Tunnel /\ pump[h]["down"] = "ended"

\* Who closes.
Closing ==
    \A h \in Hops :
       /\ pipe[h]["up"].st = "fin" => pump[h]["up"] \in {"half", "ended"}
       /\ ~pipe[h]["down"].rx => pump[h]["up"] = "ended"
       /\ ~pipe[h - 1]["up"].rx => ClosedLeft(h)
       /\ pipe[h - 1]["down"].st = "fin" => ClosedLeft(h)

\* The premises of EofIsWhole but the end of file.
Calm ==
    /\ \A l \in Links, d \in Dirs : pipe[l][d].st # "reset"
    /\ pipe[0]["down"].rx
    /\ pipe[3]["up"].rx /\ pipe[3]["down"].st = "open"

\* A handler gave up before it served.
Lost ==
    \/ hop[P2x] = "done" /\ hop[Tunnel] = "wait"
    \/ hop[Tunnel] = "done" /\ hop[Proxy] = "wait"

\* What the upward direction of a link holds, and what an upward pump does.
Queued(l) == pipe[l]["up"].q
Holds(h) == IF pump[h]["up"] = "write" THEN 1 ELSE 0

\* Upward pumps end in order with nothing behind them; no chunk is dropped.
Flow ==
    /\ pump[P2x]["up"] \in {"half", "ended"} => pipe[0]["up"].st = "fin" /\ Queued(0) = 0
    /\ pump[Tunnel]["up"] = "ended" => pump[P2x]["up"] \in {"half", "ended"} /\ Queued(1) = 0
    /\ pump[Proxy]["up"] = "ended" => pump[Tunnel]["up"] = "ended" /\ Queued(2) = 0
    /\ pump[P2x]["down"] = "ended" => pump[P2x]["up"] \in {"half", "ended"}
    /\ pump[Proxy]["down"] = "ended" => pump[Proxy]["up"] = "ended"
    /\ sent["up"] = got["up"] + Queued(0) + Holds(P2x) + Queued(1) + Holds(Tunnel) + Queued(2)
                    + Holds(Proxy) + Queued(3)

Inv == Shape /\ Order /\ Closing /\ (Calm /\ ~Lost => Flow)

-----------------------------------------------------------------------------
\* Links

Link == [Dirs -> Channels]

\* What no step undoes: a reset, an end that has stopped reading, an EOF.
Worsens(k, n) ==
    \A d \in Dirs : /\ n[d].rx => k[d].rx
                    /\ k[d].st = "reset" => n[d].st = "reset"
                    /\ n[d].st = "open" => k[d].st = "open"

\* An end stops reading.
LEMMA StopProps ==
    ASSUME NEW c \in Channels
    PROVE  LET e == [c EXCEPT !.rx = FALSE, !.q = 0]
           IN  e \in Channels /\ e.q = 0 /\ e.rx = FALSE /\ e.st = c.st
<1> DEFINE e == [c EXCEPT !.rx = FALSE, !.q = 0]
<1> DEFINE e1 == [c EXCEPT !.rx = FALSE]
           e2 == [e1 EXCEPT !.q = 0]
<1>1. e1 \in Channels /\ e1.rx = FALSE /\ e1.st = c.st BY Zenon DEF Channels
<1>2. e = e2 BY Zenon
<1> HIDE DEF e1
<1>3. e2 \in Channels /\ e2.q = 0 /\ e2.rx = FALSE /\ e2.st = c.st BY <1>1, Zenon DEF Channels
<1> HIDE DEF e2, e
<1>4. e \in Channels /\ e.q = 0 /\ e.rx = FALSE /\ e.st = c.st BY <1>2, <1>3, Zenon
<1> QED BY <1>4, Zenon DEF e

\* A reset touches nothing but the state.
LEMMA ResetProps ==
    ASSUME NEW k \in Link
    PROVE  /\ Reset(k) \in Link /\ Worsens(k, Reset(k))
           /\ \A d \in Dirs : Reset(k)[d].st = "reset" /\ Reset(k)[d].q = k[d].q /\ Reset(k)[d].rx = k[d].rx
<1>1. ASSUME NEW d \in Dirs
      PROVE  /\ Reset(k)[d].st = "reset" /\ Reset(k)[d].q = k[d].q /\ Reset(k)[d].rx = k[d].rx
             /\ Reset(k)[d] \in Channels
  <2>1. k[d] \in Channels BY Zenon DEF Link
  <2>2. Reset(k)[d] = [k[d] EXCEPT !.st = "reset"] BY Zenon DEF Reset
  <2> QED BY <2>1, <2>2, Zenon DEF Channels
<1>2. Reset(k) \in Link BY <1>1, Zenon DEF Reset, Link
<1> QED BY <1>1, <1>2, Zenon DEF Worsens

\* CloseWrite sends an EOF in one direction.
LEMMA CloseWriteProps ==
    ASSUME NEW k \in Link, NEW w \in Dirs
    PROVE  LET n == CloseWrite(k, w)
           IN  /\ n \in Link /\ Worsens(k, n)
               /\ \A d \in Dirs : n[d].q = k[d].q /\ n[d].rx = k[d].rx /\ (d # w => n[d].st = k[d].st)
               /\ n[w].st = IF k[w].st = "open" THEN "fin" ELSE k[w].st
<1> DEFINE n == CloseWrite(k, w)
           v == IF k[w].st = "open" THEN "fin" ELSE k[w].st
<1>1. n = [k EXCEPT ![w] = [k[w] EXCEPT !.st = v]] BY Zenon DEF CloseWrite, Link
<1>2. \A d \in Dirs : k[d] \in Channels BY Zenon DEF Link
<1>3. v \in {"open", "fin", "reset"} /\ (k[w].st = "reset" => v = "reset") /\ v # "open" BY <1>2, Zenon DEF Channels
<1>4. n[w] = [k[w] EXCEPT !.st = v] /\ \A d \in Dirs : d # w => n[d] = k[d] BY <1>1, Zenon DEF Link
<1>5. n[w] \in Channels /\ n[w].st = v /\ n[w].q = k[w].q /\ n[w].rx = k[w].rx
  BY <1>2, <1>3, <1>4, Zenon DEF Channels
<1>6. n \in Link BY <1>1, <1>4, <1>5, Zenon DEF Link
<1> HIDE DEF n
<1>7. \A d \in Dirs : n[d].q = k[d].q /\ n[d].rx = k[d].rx /\ (d # w => n[d].st = k[d].st) BY <1>4, <1>5, Zenon
<1>8. Worsens(k, n) BY <1>3, <1>5, <1>7, Zenon DEF Worsens
<1> QED BY <1>5, <1>6, <1>7, <1>8, Zenon DEF n

\* Close stops both directions of an end: TCP resets what was not read.
LEMMA CloseProps ==
    ASSUME NEW k \in Link, NEW l \in Links, NEW w \in Dirs, NEW r \in Dirs, r = Other(w)
    PROVE  LET n == Close(l, k, w)
           IN  /\ n \in Link /\ Worsens(k, n)
               /\ n[r].q = 0 /\ n[r].rx = FALSE /\ (n[r].st = "fin" => k[r].st = "fin")
               /\ n[w].q = k[w].q /\ n[w].rx = k[w].rx /\ n[w].st # "open"
               /\ n[r].st # "reset" => n[r].st = k[r].st /\ (IsTcp(l) => k[r].q = 0)
<1> DEFINE shut == IF IsTcp(l) /\ k[r].q > 0 THEN Reset(k) ELSE CloseWrite(k, w)
           n == [shut EXCEPT ![r] = [shut[r] EXCEPT !.rx = FALSE, !.q = 0]]
<1>1. r # w /\ r \in Dirs /\ k[r].q \in Nat BY Zenon DEF Other, Dirs, Link, Channels
<1>2. /\ shut \in Link /\ Worsens(k, shut) /\ shut[w].q = k[w].q /\ shut[w].rx = k[w].rx /\ shut[w].st # "open"
      /\ shut[r].st = "fin" => k[r].st = "fin"
      /\ shut[r].st # "reset" => shut[r].st = k[r].st /\ (IsTcp(l) => k[r].q = 0)
  <2>1. CASE IsTcp(l) /\ k[r].q > 0 BY <1>1, <2>1, ResetProps, Zenon
  <2>2. CASE ~(IsTcp(l) /\ k[r].q > 0)
    <3>1. shut = CloseWrite(k, w) /\ (IsTcp(l) => k[r].q = 0) BY <1>1, <2>2
    <3> HIDE DEF shut
    <3>2. /\ shut \in Link /\ Worsens(k, shut)
          /\ \A d \in Dirs : shut[d].q = k[d].q /\ shut[d].rx = k[d].rx /\ (d # w => shut[d].st = k[d].st)
          /\ shut[w].st = IF k[w].st = "open" THEN "fin" ELSE k[w].st
      BY <3>1, CloseWriteProps
    <3> QED BY <1>1, <3>1, <3>2, Zenon
  <2> QED BY <2>1, <2>2, Zenon
<1> HIDE DEF shut
<1>3. shut[r] \in Channels /\ shut[w] \in Channels BY <1>1, <1>2, Zenon DEF Link
<1>4. n[w] = shut[w] /\ n[r] = [shut[r] EXCEPT !.rx = FALSE, !.q = 0] BY <1>1, <1>2, Zenon DEF Link
<1>5. n[r] \in Channels /\ n[r].q = 0 /\ n[r].rx = FALSE /\ n[r].st = shut[r].st  BY <1>3, <1>4, StopProps, Zenon
<1>6. n \in Link BY <1>1, <1>2, <1>5, Zenon DEF Link
<1>7. Close(l, k, w) = n
  <2>1. Close(l, k, w) = [shut EXCEPT ![r].rx = FALSE, ![r].q = 0] BY Zenon DEF Close, shut
  <2> QED BY <1>1, <1>2, <2>1, Zenon DEF Link
<1> HIDE DEF n
<1>8. \A d \in Dirs : d = r \/ d = w BY DEF Dirs, Other
<1>9. Worsens(k, n)
  <2>1. SUFFICES ASSUME NEW d \in Dirs
                 PROVE  /\ n[d].rx => k[d].rx
                        /\ k[d].st = "reset" => n[d].st = "reset"
                        /\ n[d].st = "open" => k[d].st = "open"
    BY Zenon DEF Worsens
  <2>2. CASE d = w BY <1>2, <1>4, <2>2 DEF Worsens
  <2>3. CASE d = r BY <1>2, <1>5, <2>3, Zenon DEF Worsens
  <2> QED BY <1>8, <2>2, <2>3, Zenon
<1> QED BY <1>2, <1>4, <1>5, <1>6, <1>7, <1>9, Zenon

-----------------------------------------------------------------------------
\* Steps

Stopped == {"half", "ended"}

\* What a step does to one link.
LEMMA OneLink ==
    ASSUME Shape, NEW l \in Links, NEW n \in Link, pipe' = [pipe EXCEPT ![l] = n], Worsens(pipe[l], n)
    PROVE  /\ pipe' \in [Links -> [Dirs -> Channels]] /\ pipe'[l] = n
           /\ \A m \in Links : m # l => pipe'[m] = pipe[m]
           /\ \A m \in Links : Worsens(pipe[m], pipe'[m])
<1>1. /\ pipe' \in [Links -> [Dirs -> Channels]] /\ pipe'[l] = n
      /\ \A m \in Links : m # l => pipe'[m] = pipe[m]
  BY Zenon DEF Shape, Link
<1>2. ASSUME NEW m \in Links PROVE Worsens(pipe[m], pipe'[m])
  <2>1. CASE m = l BY <1>1, <2>1, Zenon
  <2>2. CASE m # l BY <1>1, <2>2, Zenon DEF Worsens
  <2> QED BY <2>1, <2>2, Zenon
<1> QED BY <1>1, <1>2, Zenon

\* Calm was so before.
LEMMA CalmBefore ==
    ASSUME \A l \in Links : Worsens(pipe[l], pipe'[l]), Calm'
    PROVE  Calm
<1>1. 0 \in Links /\ 3 \in Links /\ "up" \in Dirs /\ "down" \in Dirs BY DEF Links, Dirs
<1>2. ASSUME NEW l \in Links, NEW d \in Dirs PROVE pipe[l][d].st # "reset"
  BY DEF Calm, Worsens
<1>3. (pipe'[0]["down"].rx => pipe[0]["down"].rx) /\ (pipe'[3]["up"].rx => pipe[3]["up"].rx)
      /\ (pipe'[3]["down"].st = "open" => pipe[3]["down"].st = "open")
  BY <1>1, Zenon DEF Worsens
<1> QED BY <1>2, <1>3, Zenon DEF Calm

\* What a step must show: what it closes is closed by the right one, and Flow
\* where nothing is lost.
LEMMA Kept ==
    ASSUME Inv, Shape', Order', \A l \in Links : Worsens(pipe[l], pipe'[l]),
           Lost => Lost',
           \A h \in Hops :
              /\ pump[h]["up"] \in Stopped => pump'[h]["up"] \in Stopped
              /\ pump[h]["up"] = "ended" => pump'[h]["up"] = "ended"
              /\ ClosedLeft(h) => ClosedLeft(h)'
              /\ pipe'[h]["up"].st = "fin" => pipe[h]["up"].st = "fin" \/ pump'[h]["up"] \in Stopped
              /\ ~pipe'[h]["down"].rx => ~pipe[h]["down"].rx \/ pump'[h]["up"] = "ended"
              /\ ~pipe'[h - 1]["up"].rx => ~pipe[h - 1]["up"].rx \/ ClosedLeft(h)'
              /\ pipe'[h - 1]["down"].st = "fin" => pipe[h - 1]["down"].st = "fin" \/ ClosedLeft(h)',
           ASSUME Calm, Calm', ~Lost, ~Lost', Flow PROVE Flow'
    PROVE  Inv'
<1>1. Closing'
  <2>1. SUFFICES ASSUME NEW h \in Hops
                 PROVE  /\ pipe'[h]["up"].st = "fin" => pump'[h]["up"] \in {"half", "ended"}
                        /\ ~pipe'[h]["down"].rx => pump'[h]["up"] = "ended"
                        /\ ~pipe'[h - 1]["up"].rx => ClosedLeft(h)'
                        /\ pipe'[h - 1]["down"].st = "fin" => ClosedLeft(h)'
    BY Zenon DEF Closing
  <2>2. /\ pipe[h]["up"].st = "fin" => pump[h]["up"] \in {"half", "ended"}
        /\ ~pipe[h]["down"].rx => pump[h]["up"] = "ended"
        /\ ~pipe[h - 1]["up"].rx => ClosedLeft(h)
        /\ pipe[h - 1]["down"].st = "fin" => ClosedLeft(h)
    BY Zenon DEF Inv, Closing
  <2> QED BY <2>1, <2>2, Zenon DEF Stopped
<1>2. Calm' /\ ~Lost' => Flow' BY CalmBefore, Zenon DEF Inv
<1> QED BY <1>1, <1>2, Zenon DEF Inv

\* A step that leaves handlers and pumps alone, and closes nothing but an end of
\* the client or of the target.
LEMMA OutsideStep ==
    ASSUME Inv, UNCHANGED <<hop, pump>>, NEW l \in Links, NEW n \in Link, pipe' = [pipe EXCEPT ![l] = n],
           Worsens(pipe[l], n), sent' \in [Dirs -> Nat], got' \in [Dirs -> Nat],
           l # 0 => n["up"].st # "fin" \/ pipe[l]["up"].st = "fin",
           l # 3 => n["down"].st # "fin" \/ pipe[l]["down"].st = "fin",
           l # 0 => (~n["down"].rx => ~pipe[l]["down"].rx), l # 3 => (~n["up"].rx => ~pipe[l]["up"].rx),
           ASSUME Calm, Calm', ~Lost, ~Lost', Flow PROVE Flow'
    PROVE  Inv'
<1>1. Shape BY Zenon DEF Inv
<1>2. /\ pipe' \in [Links -> [Dirs -> Channels]] /\ pipe'[l] = n
      /\ \A m \in Links : m # l => pipe'[m] = pipe[m]
      /\ \A m \in Links : Worsens(pipe[m], pipe'[m])
  BY <1>1, OneLink, Zenon
<1>3. Shape' /\ Order' BY <1>2 DEF Inv, Shape, Order
<1>4. Lost' = Lost BY Zenon DEF Lost
<1>5. ASSUME NEW h \in Hops
      PROVE  /\ pump[h]["up"] \in Stopped => pump'[h]["up"] \in Stopped
             /\ pump[h]["up"] = "ended" => pump'[h]["up"] = "ended"
             /\ ClosedLeft(h) => ClosedLeft(h)'
             /\ pipe'[h]["up"].st = "fin" => pipe[h]["up"].st = "fin" \/ pump'[h]["up"] \in Stopped
             /\ ~pipe'[h]["down"].rx => ~pipe[h]["down"].rx \/ pump'[h]["up"] = "ended"
             /\ ~pipe'[h - 1]["up"].rx => ~pipe[h - 1]["up"].rx \/ ClosedLeft(h)'
             /\ pipe'[h - 1]["down"].st = "fin" => pipe[h - 1]["down"].st = "fin" \/ ClosedLeft(h)'
  <2>1. h \in Links /\ h - 1 \in Links /\ h # 0 /\ h - 1 # 3 BY DEF Hops, Links, P2x, Tunnel, Proxy
  <2>2. ClosedLeft(h) => ClosedLeft(h)' BY Zenon DEF ClosedLeft
  <2>3. /\ pipe'[h]["up"].st = "fin" => pipe[h]["up"].st = "fin"
        /\ ~pipe'[h]["down"].rx => ~pipe[h]["down"].rx
    <3>1. CASE h = l BY <1>2, <2>1, <3>1, Zenon
    <3>2. CASE h # l BY <1>2, <2>1, <3>2, Zenon
    <3> QED BY <3>1, <3>2, Zenon
  <2>4. /\ ~pipe'[h - 1]["up"].rx => ~pipe[h - 1]["up"].rx
        /\ pipe'[h - 1]["down"].st = "fin" => pipe[h - 1]["down"].st = "fin"
    <3>1. CASE h - 1 = l BY <1>2, <2>1, <3>1, Zenon
    <3>2. CASE h - 1 # l BY <1>2, <2>1, <3>2, Zenon
    <3> QED BY <3>1, <3>2, Zenon
  <2> QED BY <2>2, <2>3, <2>4, Zenon
<1> QED BY <1>2, <1>3, <1>4, <1>5, Kept, Zenon

\* A chunk more or less on a link.
LEMMA CountProps ==
    ASSUME NEW k \in Link, NEW d \in Dirs, NEW i \in Nat
    PROVE  LET n == [k EXCEPT ![d].q = i]
           IN  /\ n \in Link /\ Worsens(k, n) /\ n[d].q = i
               /\ \A e \in Dirs : n[e].st = k[e].st /\ n[e].rx = k[e].rx /\ (e # d => n[e].q = k[e].q)
<1> DEFINE c == [k[d] EXCEPT !.q = i]
           n == [k EXCEPT ![d] = c]
<1>1. k[d] \in Channels BY Zenon DEF Link
<1>2. c \in Channels /\ c.q = i /\ c.st = k[d].st /\ c.rx = k[d].rx BY <1>1, Zenon DEF Channels
<1> HIDE DEF c
<1>3. n \in Link /\ n[d] = c /\ \A e \in Dirs : e # d => n[e] = k[e] BY <1>2, Zenon DEF Link
<1>4. [k EXCEPT ![d].q = i] = n BY Zenon DEF Link, c
<1> HIDE DEF n
<1>5. \A e \in Dirs : n[e].st = k[e].st /\ n[e].rx = k[e].rx /\ (e # d => n[e].q = k[e].q) BY <1>2, <1>3, Zenon
<1>6. Worsens(k, n) BY <1>5, Zenon DEF Worsens
<1> QED BY <1>2, <1>3, <1>4, <1>5, <1>6, Zenon

\* What a write comes to: a chunk more, a reset, or what the muxer does on a stream
\* nobody reads.
LEMMA WrittenProps ==
    ASSUME NEW p \in [Links -> Link], NEW l \in Links, NEW d \in Dirs, NEW o \in Written(p, l, d)
    PROVE  p[l][d].st = "open" /\
           \E n \in Link :
              /\ o = [p EXCEPT ![l] = n] /\ Worsens(p[l], n)
              /\ \A e \in Dirs : /\ n[e].rx = p[l][e].rx /\ (e # d => n[e].q = p[l][e].q)
                                 /\ n[e].st = p[l][e].st \/ n[e].st = "reset"
              /\ \/ p[l][d].rx /\ n[d].q = p[l][d].q + 1
                 \/ n[d].st = "reset"
                 \/ ~IsTcp(l) /\ ~p[l][d].rx
<1>1. p[l] \in Link /\ p[l][d] \in Channels BY Zenon DEF Link
<1>2. p[l][d].q \in Nat /\ p[l][d].st = "open" BY <1>1, Zenon DEF Channels, Written
<1>3. CASE o = [p EXCEPT ![l][d].q = @ + 1] /\ (p[l][d].rx \/ ~IsTcp(l))
  <2> DEFINE n == [p[l] EXCEPT ![d].q = p[l][d].q + 1]
  <2>1. o = [p EXCEPT ![l][d].q = @ + 1] BY <1>3, Zenon
  <2>2. o = [p EXCEPT ![l] = n] BY <2>1, Zenon
  <2>3. /\ n \in Link /\ Worsens(p[l], n) /\ n[d].q = p[l][d].q + 1
        /\ \A e \in Dirs : n[e].st = p[l][e].st /\ n[e].rx = p[l][e].rx /\ (e # d => n[e].q = p[l][e].q)
    <3>1. p[l][d].q + 1 \in Nat BY <1>2
    <3>2. \A i \in Nat : LET m == [p[l] EXCEPT ![d].q = i]
                         IN  /\ m \in Link /\ Worsens(p[l], m) /\ m[d].q = i
                             /\ \A e \in Dirs : m[e].st = p[l][e].st /\ m[e].rx = p[l][e].rx
                                                /\ (e # d => m[e].q = p[l][e].q)
      BY <1>1, CountProps
    <3> QED BY <3>1, <3>2, Zenon
  <2> HIDE DEF n
  <2> QED BY <1>2, <1>3, <2>2, <2>3, Zenon
<1>4. CASE ~p[l][d].rx /\ IsTcp(l)
  <2> DEFINE n == Reset(p[l])
  <2>1. o = [p EXCEPT ![l] = n] BY <1>4, Zenon DEF Written
  <2>2. /\ n \in Link /\ Worsens(p[l], n)
        /\ \A e \in Dirs : n[e].st = "reset" /\ n[e].q = p[l][e].q /\ n[e].rx = p[l][e].rx
    BY <1>1, ResetProps, Zenon
  <2> HIDE DEF n
  <2> QED BY <1>2, <2>1, <2>2, Zenon
<1>5. CASE o = p /\ ~p[l][d].rx /\ ~IsTcp(l)
  <2>1. o = p BY <1>5, Zenon
  <2>2. o = [p EXCEPT ![l] = p[l]] BY <2>1, Zenon
  <2>3. Worsens(p[l], p[l]) BY Zenon DEF Worsens
  <2> QED BY <1>1, <1>2, <1>5, <2>2, <2>3, Zenon
<1>6. o = p \/ o = [p EXCEPT ![l][d].q = @ + 1] \/ (~p[l][d].rx /\ IsTcp(l)) BY Zenon DEF Written
<1>7. o = p => ~p[l][d].rx \/ o = [p EXCEPT ![l][d].q = @ + 1] BY Zenon DEF Written
<1> QED BY <1>3, <1>4, <1>5, <1>6, <1>7, Zenon

\* Flow looks at the upward queues and pumps, and at the ends of the downward ones.
LEMMA FlowSame ==
    ASSUME Flow, UNCHANGED <<sent["up"], got["up"]>>, \A l \in Links : Queued(l)' = Queued(l),
           \A h \in Hops : /\ pump'[h]["up"] = pump[h]["up"]
                           /\ pump'[h]["down"] = "ended" => pump[h]["down"] = "ended",
           pipe[0]["up"].st = "fin" => pipe'[0]["up"].st = "fin"
    PROVE  Flow'
<1>1. Queued(0)' = Queued(0) /\ Queued(1)' = Queued(1) /\ Queued(2)' = Queued(2) /\ Queued(3)' = Queued(3)
  BY DEF Links
<1>2. \A h \in Hops : Holds(h)' = Holds(h) BY Zenon DEF Holds
<1>3. Holds(P2x)' = Holds(P2x) /\ Holds(Tunnel)' = Holds(Tunnel) /\ Holds(Proxy)' = Holds(Proxy)
  BY <1>2, Zenon DEF Hops
<1>4. P2x \in Hops /\ Tunnel \in Hops /\ Proxy \in Hops BY Zenon DEF Hops
<1> QED BY <1>1, <1>3, <1>4, Zenon DEF Flow

\* The client or the target has no more to send.
LEMMA EndShutdownStep ==
    ASSUME Inv, NEW e \in Parties, EndShutdown(e)
    PROVE  Inv'
<1> DEFINE l == LinkOf(e)
           n == CloseWrite(pipe[l], Out(e))
<1>1. Shape /\ l \in Links /\ Out(e) \in Dirs BY DEF Inv, LinkOf, Links, Out, Dirs
<1>2. pipe[l] \in Link BY <1>1, Zenon DEF Shape, Link
<1>3. pipe' = [pipe EXCEPT ![l] = n] /\ UNCHANGED <<hop, pump, sent, got>> /\ pipe[l][Out(e)].st = "open"
  BY Zenon DEF EndShutdown
<1>4. /\ n \in Link /\ Worsens(pipe[l], n)
      /\ \A d \in Dirs : n[d].q = pipe[l][d].q /\ n[d].rx = pipe[l][d].rx
                         /\ (d # Out(e) => n[d].st = pipe[l][d].st)
      /\ n[Out(e)].st = "fin"
  BY <1>1, <1>2, <1>3, CloseWriteProps, Zenon
<1> HIDE DEF n
<1>5. /\ pipe' \in [Links -> [Dirs -> Channels]] /\ pipe'[l] = n
      /\ \A m \in Links : m # l => pipe'[m] = pipe[m]
  BY <1>1, <1>3, <1>4, OneLink, Zenon
<1>6. ASSUME Calm', Flow PROVE Flow'
  <2>1. e = "client"
    <3>1. CASE e = "target"
      <4>1. l = 3 /\ Out(e) = "down" BY <3>1, Zenon DEF LinkOf, Out
      <4>2. pipe'[3]["down"].st = "fin" BY <1>4, <1>5, <4>1, Zenon
      <4> QED BY <1>6, <4>2, Zenon DEF Calm
    <3> QED BY <3>1, Zenon DEF Parties
  <2>2. \A m \in Links : Queued(m)' = Queued(m) BY <1>4, <1>5, Zenon DEF Queued, Dirs
  <2>3. pipe'[0]["up"].st = "fin" BY <1>4, <1>5, <2>1, Zenon DEF LinkOf, Out
  <2> QED BY <1>3, <1>6, <2>2, <2>3, FlowSame, Zenon
<1>7. /\ l # 0 => n["up"].st # "fin" \/ pipe[l]["up"].st = "fin"
      /\ l # 3 => n["down"].st # "fin" \/ pipe[l]["down"].st = "fin"
      /\ l # 0 => (~n["down"].rx => ~pipe[l]["down"].rx)
      /\ l # 3 => (~n["up"].rx => ~pipe[l]["up"].rx)
  BY <1>4, Zenon DEF LinkOf, Out, Dirs, Parties
<1>8. sent' \in [Dirs -> Nat] /\ got' \in [Dirs -> Nat] BY <1>1, <1>3, Zenon DEF Shape
<1> HIDE DEF l
<1> QED BY <1>1, <1>3, <1>4, <1>6, <1>7, <1>8, OutsideStep, Zenon

\* The client or the target closes: what it had not read is lost, and the step is not calm.
LEMMA EndCloseStep ==
    ASSUME Inv, NEW e \in Parties, EndClose(e)
    PROVE  Inv'
<1> DEFINE l == LinkOf(e)
           r == Other(Out(e))
           n == Close(l, pipe[l], Out(e))
<1>1. Shape /\ l \in Links /\ Out(e) \in Dirs /\ r \in Dirs BY DEF Inv, LinkOf, Links, Out, Dirs, Other
<1>2. pipe[l] \in Link BY <1>1, Zenon DEF Shape, Link
<1>3. pipe' = [pipe EXCEPT ![l] = n] /\ UNCHANGED <<hop, pump, sent, got>> BY Zenon DEF EndClose
<1>4. /\ n \in Link /\ Worsens(pipe[l], n) /\ n[r].rx = FALSE /\ (n[r].st = "fin" => pipe[l][r].st = "fin")
      /\ n[Out(e)].rx = pipe[l][Out(e)].rx
  BY <1>1, <1>2, CloseProps, Zenon
<1> HIDE DEF n
<1>5. pipe'[l] = n BY <1>1, <1>3, <1>4, OneLink, Zenon
<1>6. ~Calm'
  <2>1. CASE e = "client" BY <1>4, <1>5, <2>1, Zenon DEF Calm, LinkOf, Out, Other
  <2>2. CASE e = "target" BY <1>4, <1>5, <2>2, Zenon DEF Calm, LinkOf, Out, Other
  <2> QED BY <2>1, <2>2, Zenon DEF Parties
<1>7. /\ l # 0 => n["up"].st # "fin" \/ pipe[l]["up"].st = "fin"
      /\ l # 3 => n["down"].st # "fin" \/ pipe[l]["down"].st = "fin"
      /\ l # 0 => (~n["down"].rx => ~pipe[l]["down"].rx)
      /\ l # 3 => (~n["up"].rx => ~pipe[l]["up"].rx)
  <2>1. CASE e = "client" BY <1>4, <2>1, Zenon DEF LinkOf, Out, Other
  <2>2. CASE e = "target" BY <1>4, <2>2, Zenon DEF LinkOf, Out, Other
  <2> QED BY <2>1, <2>2, Zenon DEF Parties
<1>8. sent' \in [Dirs -> Nat] /\ got' \in [Dirs -> Nat] BY <1>1, <1>3, Zenon DEF Shape
<1> HIDE DEF l, r
<1> QED BY <1>1, <1>3, <1>4, <1>6, <1>7, <1>8, OutsideStep, Zenon

\* A link is reset, so nothing is calm any more.
LEMMA BreakStep ==
    ASSUME Inv, NEW l \in Links, Break(l)
    PROVE  Inv'
<1> DEFINE n == Reset(pipe[l])
<1>1. Shape BY Zenon DEF Inv
<1>2. pipe[l] \in Link BY <1>1, Zenon DEF Shape, Link
<1>3. pipe' = [pipe EXCEPT ![l] = n] /\ UNCHANGED <<hop, pump, sent, got>> BY Zenon DEF Break
<1>4. /\ n \in Link /\ Worsens(pipe[l], n) /\ n["up"].st = "reset" /\ n["down"].st = "reset"
      /\ n["up"].rx = pipe[l]["up"].rx /\ n["down"].rx = pipe[l]["down"].rx
  BY <1>2, ResetProps, Zenon DEF Dirs
<1> HIDE DEF n
<1>5. pipe'[l] = n BY <1>1, <1>3, <1>4, OneLink, Zenon
<1>6. ~Calm' BY <1>4, <1>5, Zenon DEF Calm, Dirs
<1>7. sent' \in [Dirs -> Nat] /\ got' \in [Dirs -> Nat] BY <1>1, <1>3, Zenon DEF Shape
<1> QED BY <1>1, <1>3, <1>4, <1>6, <1>7, OutsideStep, Zenon

\* The counts are counts.
LEMMA Counts ==
    ASSUME Shape
    PROVE  /\ \A l \in Links : Queued(l) \in Nat
           /\ \A h \in Hops : Holds(h) \in Nat
           /\ sent["up"] \in Nat /\ got["up"] \in Nat
<1>1. ASSUME NEW l \in Links PROVE Queued(l) \in Nat
  <2>1. "up" \in Dirs BY Zenon DEF Dirs
  <2>2. pipe[l]["up"] \in Channels BY <2>1, Zenon DEF Shape
  <2> QED BY <2>2, Zenon DEF Queued, Channels
<1>2. \A h \in Hops : Holds(h) \in Nat BY Zenon DEF Holds
<1> QED BY <1>1, <1>2, Zenon DEF Shape, Dirs

\* A step that changes the count of one link, or resets it.
LEMMA PlainStep ==
    ASSUME Inv, Shape', Order', NEW l \in Links, NEW n \in Link, pipe' = [pipe EXCEPT ![l] = n],
           Worsens(pipe[l], n),
           \A d \in Dirs : n[d].rx = pipe[l][d].rx /\ (n[d].st = pipe[l][d].st \/ n[d].st = "reset"),
           Lost => Lost',
           \A h \in Hops :
              /\ pump[h]["up"] \in Stopped => pump'[h]["up"] \in Stopped
              /\ pump[h]["up"] = "ended" => pump'[h]["up"] = "ended"
              /\ ClosedLeft(h) => ClosedLeft(h)',
           ASSUME Calm, Calm', ~Lost, ~Lost', Flow PROVE Flow'
    PROVE  Inv'
<1>1. Shape BY Zenon DEF Inv
<1>2. /\ pipe'[l] = n
      /\ \A m \in Links : m # l => pipe'[m] = pipe[m]
      /\ \A m \in Links : Worsens(pipe[m], pipe'[m])
  BY <1>1, OneLink, Zenon
<1>3. ASSUME NEW m \in Links, NEW d \in Dirs
      PROVE  /\ pipe'[m][d].rx = pipe[m][d].rx
             /\ pipe'[m][d].st = "fin" => pipe[m][d].st = "fin"
  <2>1. CASE m = l BY <1>2, <2>1, Zenon
  <2>2. CASE m # l BY <1>2, <2>2, Zenon
  <2> QED BY <2>1, <2>2, Zenon
<1>4. ASSUME NEW h \in Hops
      PROVE  /\ pump[h]["up"] \in Stopped => pump'[h]["up"] \in Stopped
             /\ pump[h]["up"] = "ended" => pump'[h]["up"] = "ended"
             /\ ClosedLeft(h) => ClosedLeft(h)'
             /\ pipe'[h]["up"].st = "fin" => pipe[h]["up"].st = "fin" \/ pump'[h]["up"] \in Stopped
             /\ ~pipe'[h]["down"].rx => ~pipe[h]["down"].rx \/ pump'[h]["up"] = "ended"
             /\ ~pipe'[h - 1]["up"].rx => ~pipe[h - 1]["up"].rx \/ ClosedLeft(h)'
             /\ pipe'[h - 1]["down"].st = "fin" => pipe[h - 1]["down"].st = "fin" \/ ClosedLeft(h)'
  <2>1. h \in Links /\ h - 1 \in Links BY DEF Hops, Links, P2x, Tunnel, Proxy
  <2>2. "up" \in Dirs /\ "down" \in Dirs BY Zenon DEF Dirs
  <2> QED BY <1>3, <2>1, <2>2
<1> QED BY <1>2, <1>4, Kept, Zenon

\* A chunk enters the tunnel: one more sent, one more queued.
LEMMA EndSendStep ==
    ASSUME Inv, NEW e \in Parties, EndSend(e)
    PROVE  Inv'
<1> DEFINE l == LinkOf(e)
           d == Out(e)
<1>1. Shape /\ Order /\ l \in Links /\ d \in Dirs /\ IsTcp(l) BY DEF Inv, LinkOf, Links, Out, Dirs, IsTcp
<1>2. /\ pipe' \in Written(pipe, l, d) /\ UNCHANGED <<hop, pump, got>>
      /\ sent' = [sent EXCEPT ![d] = @ + 1]
  BY Zenon DEF EndSend
<1> HIDE DEF l, d
<1>3. pipe \in [Links -> Link] BY <1>1, Zenon DEF Shape, Link
<1>4. pipe[l][d].st = "open" BY <1>1, <1>2, <1>3, WrittenProps
<1>5. PICK n \in Link :
              /\ pipe' = [pipe EXCEPT ![l] = n] /\ Worsens(pipe[l], n)
              /\ \A f \in Dirs : /\ n[f].rx = pipe[l][f].rx /\ (f # d => n[f].q = pipe[l][f].q)
                                 /\ n[f].st = pipe[l][f].st \/ n[f].st = "reset"
              /\ \/ pipe[l][d].rx /\ n[d].q = pipe[l][d].q + 1
                 \/ n[d].st = "reset"
                 \/ ~IsTcp(l) /\ ~pipe[l][d].rx
  BY <1>1, <1>2, <1>3, WrittenProps
<1>6. /\ pipe' \in [Links -> [Dirs -> Channels]] /\ pipe'[l] = n
      /\ \A m \in Links : m # l => pipe'[m] = pipe[m]
  BY <1>1, <1>5, OneLink, Zenon
<1>7. sent' \in [Dirs -> Nat] /\ sent'[d] = sent[d] + 1 /\ \A f \in Dirs : f # d => sent'[f] = sent[f]
  BY <1>1, <1>2 DEF Shape
<1>8. Shape' /\ Order' BY <1>1, <1>2, <1>6, <1>7 DEF Shape, Order
<1>9. ASSUME Calm', Flow PROVE Flow'
  <2>1. n[d].q = pipe[l][d].q + 1
    <3>1. n[d].st # "reset" BY <1>1, <1>6, <1>9, Zenon DEF Calm
    <3> QED BY <1>1, <1>5, <3>1, Zenon
  <2>2. CASE e = "target"
    <3>1. l = 3 /\ d = "down" BY <2>2, Zenon DEF l, d, LinkOf, Out
    <3>2. \A m \in Links : Queued(m)' = Queued(m) BY <1>5, <1>6, <3>1, Zenon DEF Queued, Dirs
    <3>3. pipe'[0]["up"].st = pipe[0]["up"].st BY <1>6, <3>1 DEF Links
    <3>4. sent'["up"] = sent["up"] BY <1>7, <3>1, Zenon DEF Dirs
    <3> QED BY <1>2, <1>9, <3>2, <3>3, <3>4, FlowSame, Zenon
  <2>3. CASE e = "client"
    <3>1. l = 0 /\ d = "up" BY <2>3, Zenon DEF l, d, LinkOf, Out
    <3>2. /\ Queued(0)' = Queued(0) + 1 /\ Queued(1)' = Queued(1) /\ Queued(2)' = Queued(2)
          /\ Queued(3)' = Queued(3)
      BY <1>6, <2>1, <3>1 DEF Queued, Links
    <3>3. Holds(P2x)' = Holds(P2x) /\ Holds(Tunnel)' = Holds(Tunnel) /\ Holds(Proxy)' = Holds(Proxy)
      BY <1>2, Zenon DEF Holds
    <3>4. sent'["up"] = sent["up"] + 1 BY <1>7, <3>1, Zenon
    <3>5. /\ Queued(0) \in Nat /\ Queued(1) \in Nat /\ Queued(2) \in Nat /\ Queued(3) \in Nat
          /\ Holds(P2x) \in Nat /\ Holds(Tunnel) \in Nat /\ Holds(Proxy) \in Nat
          /\ sent["up"] \in Nat /\ got["up"] \in Nat
      BY <1>1, Counts DEF Links, Hops
    <3>6. sent'["up"] = got["up"] + Queued(0)' + Holds(P2x)' + Queued(1)' + Holds(Tunnel)' + Queued(2)'
                    + Holds(Proxy)' + Queued(3)'
      BY <1>9, <3>2, <3>3, <3>4, <3>5 DEF Flow
    <3>7. pump[P2x]["up"] \notin {"half", "ended"} BY <1>4, <1>9, <3>1, Zenon DEF Flow
    <3> QED BY <1>2, <1>9, <3>2, <3>6, <3>7, Zenon DEF Flow
  <2> QED BY <2>2, <2>3, Zenon DEF Parties
<1>10. Lost' = Lost /\ \A h \in Hops : ClosedLeft(h) => ClosedLeft(h)' BY <1>2, Zenon DEF Lost, ClosedLeft
<1> QED BY <1>1, <1>2, <1>5, <1>8, <1>9, <1>10, PlainStep, Zenon

\* A chunk leaves the tunnel: one fewer queued, one more read.
LEMMA EndReadStep ==
    ASSUME Inv, NEW e \in Parties, EndRead(e)
    PROVE  Inv'
<1> DEFINE l == LinkOf(e)
           d == Other(Out(e))
           i == pipe[l][d].q - 1
           n == [pipe[l] EXCEPT ![d].q = i]
<1>1. Shape /\ Order /\ l \in Links /\ d \in Dirs BY DEF Inv, LinkOf, Links, Out, Dirs, Other
<1>2. /\ pipe' = [pipe EXCEPT ![l][d].q = @ - 1] /\ UNCHANGED <<hop, pump, sent>>
      /\ got' = [got EXCEPT ![d] = @ + 1] /\ pipe[l][d].q > 0
  BY Zenon DEF EndRead, Readable
<1>3. pipe[l] \in Link /\ pipe[l][d] \in Channels BY <1>1, Zenon DEF Shape, Link
<1>4. i \in Nat /\ pipe[l][d].q = i + 1 BY <1>2, <1>3 DEF Channels
<1>5. pipe' = [pipe EXCEPT ![l] = n] BY <1>1, <1>2, Zenon DEF Shape
<1> HIDE DEF l, d, i
<1>6. /\ n \in Link /\ Worsens(pipe[l], n) /\ n[d].q = i
      /\ \A f \in Dirs : n[f].st = pipe[l][f].st /\ n[f].rx = pipe[l][f].rx /\ (f # d => n[f].q = pipe[l][f].q)
  BY <1>1, <1>3, <1>4, CountProps
<1> HIDE DEF n
<1>7. /\ pipe' \in [Links -> [Dirs -> Channels]] /\ pipe'[l] = n
      /\ \A m \in Links : m # l => pipe'[m] = pipe[m]
  BY <1>1, <1>5, <1>6, OneLink, Zenon
<1>8. got' \in [Dirs -> Nat] /\ got'[d] = got[d] + 1 /\ \A f \in Dirs : f # d => got'[f] = got[f]
  BY <1>1, <1>2 DEF Shape
<1>9. Shape' /\ Order' BY <1>1, <1>2, <1>7, <1>8 DEF Shape, Order
<1>10. ASSUME Flow PROVE Flow'
  <2>1. CASE e = "client"
    <3>1. l = 0 /\ d = "down" BY <2>1, Zenon DEF l, d, LinkOf, Out, Other
    <3>2. \A m \in Links : Queued(m)' = Queued(m) BY <1>6, <1>7, <3>1, Zenon DEF Queued, Dirs
    <3>3. pipe'[0]["up"].st = pipe[0]["up"].st BY <1>6, <1>7, <3>1, Zenon DEF Dirs
    <3>4. got'["up"] = got["up"] BY <1>8, <3>1, Zenon DEF Dirs
    <3> QED BY <1>2, <1>10, <3>2, <3>3, <3>4, FlowSame, Zenon
  <2>2. CASE e = "target"
    <3>1. l = 3 /\ d = "up" BY <2>2, Zenon DEF l, d, LinkOf, Out, Other
    <3>2. /\ Queued(0)' = Queued(0) /\ Queued(1)' = Queued(1) /\ Queued(2)' = Queued(2)
          /\ Queued(3) = Queued(3)' + 1 /\ Queued(3)' \in Nat
      BY <1>4, <1>6, <1>7, <3>1 DEF Queued, Links
    <3>3. Holds(P2x)' = Holds(P2x) /\ Holds(Tunnel)' = Holds(Tunnel) /\ Holds(Proxy)' = Holds(Proxy)
      BY <1>2, Zenon DEF Holds
    <3>4. got'["up"] = got["up"] + 1 BY <1>8, <3>1, Zenon
    <3>5. /\ Queued(0) \in Nat /\ Queued(1) \in Nat /\ Queued(2) \in Nat /\ Queued(3) \in Nat
          /\ Holds(P2x) \in Nat /\ Holds(Tunnel) \in Nat /\ Holds(Proxy) \in Nat
          /\ sent["up"] \in Nat /\ got["up"] \in Nat
      BY <1>1, Counts DEF Links, Hops
    <3>6. sent["up"] = got'["up"] + Queued(0)' + Holds(P2x)' + Queued(1)' + Holds(Tunnel)' + Queued(2)'
                    + Holds(Proxy)' + Queued(3)'
      BY <1>10, <3>2, <3>3, <3>4, <3>5 DEF Flow
    <3>7. pipe'[0] = pipe[0] BY <1>7, <3>1 DEF Links
    <3> QED BY <1>2, <1>10, <3>2, <3>6, <3>7, Zenon DEF Flow
  <2> QED BY <2>1, <2>2, Zenon DEF Parties
<1>11. Lost' = Lost /\ \A h \in Hops : ClosedLeft(h) => ClosedLeft(h)' BY <1>2, Zenon DEF Lost, ClosedLeft
<1>12. \A f \in Dirs : n[f].rx = pipe[l][f].rx /\ (n[f].st = pipe[l][f].st \/ n[f].st = "reset") BY <1>6, Zenon
<1>13. n \in Link /\ Worsens(pipe[l], n) BY <1>6, Zenon
<1> QED BY <1>1, <1>2, <1>5, <1>9, <1>10, <1>11, <1>12, <1>13, PlainStep, Zenon

\* A pump moves while its handler serves.
LEMMA PumpStep ==
    ASSUME Shape, Order, NEW h \in Hops, NEW d \in Dirs, NEW x \in {"read", "write", "half", "ended"},
           hop[h] = "on", UNCHANGED hop, pump[h][d] # "ended", pump[h][d] = "half" => x = "ended",
           x = "half" => h = P2x /\ d = "up", pump' = [pump EXCEPT ![h][d] = x]
    PROVE  /\ pump' \in [Hops -> [Dirs -> {"read", "write", "half", "ended"}]] /\ pump'[h][d] = x
           /\ \A g \in Hops, e \in Dirs : g # h \/ e # d => pump'[g][e] = pump[g][e]
           /\ Order' /\ Lost' = Lost
           /\ \A g \in Hops : /\ pump[g]["up"] \in Stopped => pump'[g]["up"] \in Stopped
                              /\ pump[g]["up"] = "ended" => pump'[g]["up"] = "ended"
                              /\ ClosedLeft(g) => ClosedLeft(g)'
<1>1. /\ pump' \in [Hops -> [Dirs -> {"read", "write", "half", "ended"}]] /\ pump'[h][d] = x
      /\ \A g \in Hops, e \in Dirs : g # h \/ e # d => pump'[g][e] = pump[g][e]
  <2>1. pump[h] \in [Dirs -> {"read", "write", "half", "ended"}] BY Zenon DEF Shape
  <2>2. pump' = [pump EXCEPT ![h] = [pump[h] EXCEPT ![d] = x]] BY Zenon DEF Shape
  <2>3. pump'[h] = [pump[h] EXCEPT ![d] = x] /\ \A g \in Hops : g # h => pump'[g] = pump[g]
    BY <2>2, Zenon DEF Shape
  <2>4. [pump[h] EXCEPT ![d] = x] \in [Dirs -> {"read", "write", "half", "ended"}] BY <2>1, Zenon
  <2>5. pump' \in [Hops -> [Dirs -> {"read", "write", "half", "ended"}]] BY <2>2, <2>4, Zenon DEF Shape
  <2>6. pump'[h][d] = x /\ \A e \in Dirs : e # d => pump'[h][e] = pump[h][e] BY <2>1, <2>3, Zenon
  <2> QED BY <2>3, <2>5, <2>6, Zenon
<1>2. "up" \in Dirs /\ "down" \in Dirs BY Zenon DEF Dirs
<1>3. ASSUME NEW g \in Hops, NEW e \in Dirs
      PROVE  /\ pump[g][e] = "ended" => pump'[g][e] = "ended"
             /\ pump[g][e] \in Stopped => pump'[g][e] \in Stopped
             /\ pump'[g][e] # "read" => hop[g] \in {"on", "done"}
             /\ pump'[g][e] = "half" => g = P2x /\ e = "up"
  <2>1. CASE g = h /\ e = d BY <1>1, <2>1, Zenon DEF Stopped
  <2>2. CASE g # h \/ e # d BY <1>1, <2>2 DEF Order
  <2> QED BY <2>1, <2>2, Zenon
<1>4. Lost' = Lost BY Zenon DEF Lost
<1>5. Order'
  <2>1. P2x \in Hops /\ Tunnel \in Hops BY Zenon DEF Hops
  <2>2. /\ hop[P2x] = "done" => (\A e \in Dirs : pump'[P2x][e] = "ended") \/ hop[Tunnel] = "wait"
        /\ hop[Tunnel] = "done" => (\A e \in Dirs : pump'[Tunnel][e] = "ended") \/ hop[Proxy] = "wait"
    BY <1>3, <2>1 DEF Order
  <2> QED BY <1>3, <2>2 DEF Order
<1>6. ASSUME NEW g \in Hops
      PROVE  /\ pump[g]["up"] \in Stopped => pump'[g]["up"] \in Stopped
             /\ pump[g]["up"] = "ended" => pump'[g]["up"] = "ended"
             /\ ClosedLeft(g) => ClosedLeft(g)'
  BY <1>2, <1>3 DEF ClosedLeft
<1> QED BY <1>1, <1>4, <1>5, <1>6, Zenon

\* A chunk passes from a queue to a pump.
LEMMA ReadStep ==
    ASSUME Inv, NEW h \in Hops, NEW d \in Dirs, Read(h, d)
    PROVE  Inv'
<1> DEFINE l == From(h, d)
           i == pipe[l][d].q - 1
           n == [pipe[l] EXCEPT ![d].q = i]
<1>1. Shape /\ Order /\ l \in Links BY DEF Inv, From, Links, Hops, P2x, Tunnel, Proxy
<1>2. /\ pipe' = [pipe EXCEPT ![l][d].q = @ - 1] /\ UNCHANGED <<hop, sent, got>>
      /\ pump' = [pump EXCEPT ![h][d] = "write"] /\ pipe[l][d].q > 0
      /\ hop[h] = "on" /\ pump[h][d] = "read"
  BY Zenon DEF Read, Readable, Pumping
<1>3. pipe[l] \in Link /\ pipe[l][d] \in Channels BY <1>1, Zenon DEF Shape, Link
<1>4. i \in Nat /\ pipe[l][d].q = i + 1 BY <1>2, <1>3 DEF Channels
<1>5. pipe' = [pipe EXCEPT ![l] = n] BY <1>1, <1>2, Zenon DEF Shape
<1> HIDE DEF l, i
<1>6. /\ n \in Link /\ Worsens(pipe[l], n) /\ n[d].q = i
      /\ \A f \in Dirs : n[f].st = pipe[l][f].st /\ n[f].rx = pipe[l][f].rx /\ (f # d => n[f].q = pipe[l][f].q)
  BY <1>1, <1>3, <1>4, CountProps
<1> HIDE DEF n
<1>7. /\ pipe' \in [Links -> [Dirs -> Channels]] /\ pipe'[l] = n
      /\ \A m \in Links : m # l => pipe'[m] = pipe[m]
  BY <1>1, <1>5, <1>6, OneLink, Zenon
<1>8. /\ pump' \in [Hops -> [Dirs -> {"read", "write", "half", "ended"}]] /\ pump'[h][d] = "write"
      /\ \A g \in Hops, e \in Dirs : g # h \/ e # d => pump'[g][e] = pump[g][e]
      /\ Order' /\ Lost' = Lost
      /\ \A g \in Hops : /\ pump[g]["up"] \in Stopped => pump'[g]["up"] \in Stopped
                         /\ pump[g]["up"] = "ended" => pump'[g]["up"] = "ended"
                         /\ ClosedLeft(g) => ClosedLeft(g)'
  BY <1>1, <1>2, PumpStep, Zenon
<1>9. Shape' BY <1>1, <1>2, <1>7, <1>8, Zenon DEF Shape
<1>10. \A m \in Links : pipe'[m]["up"].st = pipe[m]["up"].st BY <1>6, <1>7, Zenon DEF Dirs
<1>11. ASSUME Flow PROVE Flow'
  <2>0. 0 \in Links /\ "up" \in Dirs /\ "down" \in Dirs BY DEF Links, Dirs
  <2>1. CASE d = "down"
    <3>1. \A m \in Links : Queued(m)' = Queued(m) BY <1>6, <1>7, <2>0, <2>1, Zenon DEF Queued
    <3>2. \A g \in Hops : /\ pump'[g]["up"] = pump[g]["up"]
                          /\ pump'[g]["down"] = "ended" => pump[g]["down"] = "ended"
      BY <1>8, <2>0, <2>1, Zenon
    <3> QED BY <1>2, <1>10, <1>11, <2>0, <3>1, <3>2, FlowSame, Zenon
  <2>2. CASE d = "up"
    <3>1. l = h - 1 BY <2>2, Zenon DEF l, From
    <3>2. Queued(h - 1) = Queued(h - 1)' + 1 /\ Queued(h - 1)' \in Nat BY <1>4, <1>6, <1>7, <2>2, <3>1, Zenon DEF Queued
    <3>3. \A m \in Links : m # h - 1 => Queued(m)' = Queued(m) BY <1>7, <3>1, Zenon DEF Queued
    <3>4. Holds(h) = 0 /\ Holds(h)' = 1 /\ \A g \in Hops : g # h => Holds(g)' = Holds(g)
      BY <1>2, <1>8, <2>2, Zenon DEF Holds
    <3>5. /\ Queued(0) \in Nat /\ Queued(1) \in Nat /\ Queued(2) \in Nat /\ Queued(3) \in Nat
          /\ Holds(P2x) \in Nat /\ Holds(Tunnel) \in Nat /\ Holds(Proxy) \in Nat
          /\ sent["up"] \in Nat /\ got["up"] \in Nat
      BY <1>1, Counts DEF Links, Hops
    <3>0. sent["up"] = got["up"] + Queued(0) + Holds(P2x) + Queued(1) + Holds(Tunnel) + Queued(2)
                    + Holds(Proxy) + Queued(3)
      BY <1>11, Zenon DEF Flow
    <3>6. sent["up"] = got["up"] + Queued(0)' + Holds(P2x)' + Queued(1)' + Holds(Tunnel)' + Queued(2)'
                    + Holds(Proxy)' + Queued(3)'
      <4>1. CASE h = P2x
        <5>1. /\ Queued(0) = Queued(0)' + 1 /\ Queued(0)' \in Nat /\ Queued(1)' = Queued(1)
              /\ Queued(2)' = Queued(2) /\ Queued(3)' = Queued(3)
          BY <3>2, <3>3, <4>1 DEF P2x, Links
        <5>2. Holds(P2x) = 0 /\ Holds(P2x)' = 1 /\ Holds(Tunnel)' = Holds(Tunnel) /\ Holds(Proxy)' = Holds(Proxy)
          BY <3>4, <4>1 DEF P2x, Tunnel, Proxy, Hops
        <5> QED BY <3>0, <3>5, <5>1, <5>2
      <4>2. CASE h = Tunnel
        <5>1. /\ Queued(1) = Queued(1)' + 1 /\ Queued(1)' \in Nat /\ Queued(0)' = Queued(0)
              /\ Queued(2)' = Queued(2) /\ Queued(3)' = Queued(3)
          BY <3>2, <3>3, <4>2 DEF Tunnel, Links
        <5>2. Holds(Tunnel) = 0 /\ Holds(Tunnel)' = 1 /\ Holds(P2x)' = Holds(P2x) /\ Holds(Proxy)' = Holds(Proxy)
          BY <3>4, <4>2 DEF P2x, Tunnel, Proxy, Hops
        <5> QED BY <3>0, <3>5, <5>1, <5>2
      <4>3. CASE h = Proxy
        <5>1. /\ Queued(2) = Queued(2)' + 1 /\ Queued(2)' \in Nat /\ Queued(0)' = Queued(0)
              /\ Queued(1)' = Queued(1) /\ Queued(3)' = Queued(3)
          BY <3>2, <3>3, <4>3 DEF Proxy, Links
        <5>2. Holds(Proxy) = 0 /\ Holds(Proxy)' = 1 /\ Holds(P2x)' = Holds(P2x) /\ Holds(Tunnel)' = Holds(Tunnel)
          BY <3>4, <4>3 DEF P2x, Tunnel, Proxy, Hops
        <5> QED BY <3>0, <3>5, <5>1, <5>2
      <4> QED BY <4>1, <4>2, <4>3, Zenon DEF Hops
    <3>7. /\ pump'[P2x]["up"] \in {"half", "ended"} <=> pump[P2x]["up"] \in {"half", "ended"}
          /\ pump'[Tunnel]["up"] = "ended" <=> pump[Tunnel]["up"] = "ended"
          /\ pump'[Proxy]["up"] = "ended" <=> pump[Proxy]["up"] = "ended"
          /\ pump'[P2x]["down"] = pump[P2x]["down"] /\ pump'[Proxy]["down"] = pump[Proxy]["down"]
      BY <1>2, <1>8, <2>0, <2>2, Zenon DEF Hops
    <3>8. /\ Queued(0) = 0 => Queued(0)' = 0
          /\ Queued(1) = 0 => Queued(1)' = 0
          /\ Queued(2) = 0 => Queued(2)' = 0
      BY <3>2, <3>3 DEF Links
    <3>9. pipe'[0]["up"].st = pipe[0]["up"].st BY <1>10, <2>0, Zenon
    <3> QED BY <1>2, <1>11, <3>6, <3>7, <3>8, <3>9, Zenon DEF Flow
  <2> QED BY <2>1, <2>2, Zenon DEF Dirs
<1>12. \A f \in Dirs : n[f].rx = pipe[l][f].rx /\ (n[f].st = pipe[l][f].st \/ n[f].st = "reset") BY <1>6, Zenon
<1>13. n \in Link /\ Worsens(pipe[l], n) BY <1>6, Zenon
<1> QED BY <1>1, <1>5, <1>8, <1>9, <1>11, <1>12, <1>13, PlainStep, Zenon

\* The stream is read as long as chunks may come: handleTunnel returns after its
\* upward pump, or never served.
LEMMA StreamIsRead ==
    ASSUME Inv, ~Lost, Flow, pump[P2x]["up"] = "write"
    PROVE  pipe[1]["up"].rx
<1>1. Tunnel \in Hops /\ Tunnel - 1 = 1 /\ "up" \in Dirs BY DEF Hops, Tunnel, Dirs
<1>2. ~pipe[1]["up"].rx => hop[Tunnel] = "done" BY <1>1, Zenon DEF Inv, Closing, ClosedLeft
<1>3. hop[Tunnel] = "done" => pump[Tunnel]["up"] = "ended" BY <1>1, Zenon DEF Inv, Order, Lost
<1> QED BY <1>2, <1>3, Zenon DEF Flow

\* A chunk passes from a pump to a queue.
LEMMA WriteStep ==
    ASSUME Inv, NEW h \in Hops, NEW d \in Dirs, Write(h, d)
    PROVE  Inv'
<1> DEFINE l == To(h, d)
<1>1. Shape /\ Order /\ l \in Links BY DEF Inv, To, Links, Hops, P2x, Tunnel, Proxy
<1>2. /\ pipe' \in Written(pipe, l, d) /\ UNCHANGED <<hop, sent, got>>
      /\ pump' = [pump EXCEPT ![h][d] = "read"] /\ hop[h] = "on" /\ pump[h][d] = "write"
  BY Zenon DEF Write, Pumping
<1> HIDE DEF l
<1>3. pipe \in [Links -> Link] BY <1>1, Zenon DEF Shape, Link
<1>4. PICK n \in Link :
              /\ pipe' = [pipe EXCEPT ![l] = n] /\ Worsens(pipe[l], n)
              /\ \A f \in Dirs : /\ n[f].rx = pipe[l][f].rx /\ (f # d => n[f].q = pipe[l][f].q)
                                 /\ n[f].st = pipe[l][f].st \/ n[f].st = "reset"
              /\ \/ pipe[l][d].rx /\ n[d].q = pipe[l][d].q + 1
                 \/ n[d].st = "reset"
                 \/ ~IsTcp(l) /\ ~pipe[l][d].rx
  BY <1>1, <1>2, <1>3, WrittenProps
<1>5. /\ pipe' \in [Links -> [Dirs -> Channels]] /\ pipe'[l] = n
      /\ \A m \in Links : m # l => pipe'[m] = pipe[m]
  BY <1>1, <1>4, OneLink, Zenon
<1>6. /\ pump' \in [Hops -> [Dirs -> {"read", "write", "half", "ended"}]] /\ pump'[h][d] = "read"
      /\ \A g \in Hops, e \in Dirs : g # h \/ e # d => pump'[g][e] = pump[g][e]
      /\ Order' /\ Lost' = Lost
      /\ \A g \in Hops : /\ pump[g]["up"] \in Stopped => pump'[g]["up"] \in Stopped
                         /\ pump[g]["up"] = "ended" => pump'[g]["up"] = "ended"
                         /\ ClosedLeft(g) => ClosedLeft(g)'
  BY <1>1, <1>2, PumpStep, Zenon
<1>7. Shape' BY <1>1, <1>2, <1>5, <1>6, Zenon DEF Shape
<1>8. ASSUME Calm', ~Lost, Flow PROVE Flow'
  <2>0. 0 \in Links /\ "up" \in Dirs /\ "down" \in Dirs BY DEF Links, Dirs
  <2>1. \A m \in Links, e \in Dirs : pipe'[m][e].st # "reset" BY <1>8, Zenon DEF Calm
  <2>2. pipe'[0]["up"].st = pipe[0]["up"].st
    <3>1. CASE l = 0 BY <1>4, <1>5, <2>0, <2>1, <3>1, Zenon
    <3>2. CASE l # 0 BY <1>5, <2>0, <3>2, Zenon
    <3> QED BY <3>1, <3>2, Zenon
  <2>3. CASE d = "down"
    <3>1. \A m \in Links : Queued(m)' = Queued(m) BY <1>4, <1>5, <2>0, <2>3, Zenon DEF Queued
    <3>2. \A g \in Hops : /\ pump'[g]["up"] = pump[g]["up"]
                          /\ pump'[g]["down"] = "ended" => pump[g]["down"] = "ended"
      BY <1>6, <2>0, <2>3, Zenon
    <3> QED BY <1>2, <1>8, <2>2, <3>1, <3>2, FlowSame, Zenon
  <2>4. CASE d = "up"
    <3>1. l = h /\ h \in Links BY <1>1, <2>4, Zenon DEF l, To
    <3>2. n["up"].q = pipe[h]["up"].q + 1
      <4>1. CASE ~IsTcp(l) /\ ~pipe[l][d].rx
        <5>1. h = 1 /\ ~pipe[1]["up"].rx /\ pump[P2x]["up"] = "write" BY <1>2, <2>4, <3>1, <4>1, Zenon DEF IsTcp, P2x
        <5> QED BY <1>8, <5>1, StreamIsRead, Zenon
      <4>2. n[d].st # "reset" BY <1>1, <1>5, <2>1, Zenon
      <4> QED BY <1>4, <2>4, <3>1, <4>1, <4>2, Zenon
    <3>3. Queued(h)' = Queued(h) + 1 /\ \A m \in Links : m # h => Queued(m)' = Queued(m)
      BY <1>5, <3>1, <3>2, Zenon DEF Queued
    <3>4. Holds(h) = 1 /\ Holds(h)' = 0 /\ \A g \in Hops : g # h => Holds(g)' = Holds(g)
      BY <1>2, <1>6, <2>4, Zenon DEF Holds
    <3>5. /\ Queued(0) \in Nat /\ Queued(1) \in Nat /\ Queued(2) \in Nat /\ Queued(3) \in Nat
          /\ Holds(P2x) \in Nat /\ Holds(Tunnel) \in Nat /\ Holds(Proxy) \in Nat
          /\ sent["up"] \in Nat /\ got["up"] \in Nat
      BY <1>1, Counts DEF Links, Hops
    <3>0. sent["up"] = got["up"] + Queued(0) + Holds(P2x) + Queued(1) + Holds(Tunnel) + Queued(2)
                    + Holds(Proxy) + Queued(3)
      BY <1>8, Zenon DEF Flow
    <3>6. sent["up"] = got["up"] + Queued(0)' + Holds(P2x)' + Queued(1)' + Holds(Tunnel)' + Queued(2)'
                    + Holds(Proxy)' + Queued(3)'
      <4>1. CASE h = P2x
        <5>1. /\ Queued(1)' = Queued(1) + 1 /\ Queued(0)' = Queued(0)
              /\ Queued(2)' = Queued(2) /\ Queued(3)' = Queued(3)
          BY <3>3, <4>1 DEF P2x, Links
        <5>2. Holds(P2x) = 1 /\ Holds(P2x)' = 0 /\ Holds(Tunnel)' = Holds(Tunnel) /\ Holds(Proxy)' = Holds(Proxy)
          BY <3>4, <4>1 DEF P2x, Tunnel, Proxy, Hops
        <5> QED BY <3>0, <3>5, <5>1, <5>2
      <4>2. CASE h = Tunnel
        <5>1. /\ Queued(2)' = Queued(2) + 1 /\ Queued(0)' = Queued(0)
              /\ Queued(1)' = Queued(1) /\ Queued(3)' = Queued(3)
          BY <3>3, <4>2 DEF Tunnel, Links
        <5>2. Holds(Tunnel) = 1 /\ Holds(Tunnel)' = 0 /\ Holds(P2x)' = Holds(P2x) /\ Holds(Proxy)' = Holds(Proxy)
          BY <3>4, <4>2 DEF P2x, Tunnel, Proxy, Hops
        <5> QED BY <3>0, <3>5, <5>1, <5>2
      <4>3. CASE h = Proxy
        <5>1. /\ Queued(3)' = Queued(3) + 1 /\ Queued(0)' = Queued(0)
              /\ Queued(1)' = Queued(1) /\ Queued(2)' = Queued(2)
          BY <3>3, <4>3 DEF Proxy, Links
        <5>2. Holds(Proxy) = 1 /\ Holds(Proxy)' = 0 /\ Holds(P2x)' = Holds(P2x) /\ Holds(Tunnel)' = Holds(Tunnel)
          BY <3>4, <4>3 DEF P2x, Tunnel, Proxy, Hops
        <5> QED BY <3>0, <3>5, <5>1, <5>2
      <4> QED BY <4>1, <4>2, <4>3, Zenon DEF Hops
    <3>7. /\ pump'[P2x]["up"] \in {"half", "ended"} <=> pump[P2x]["up"] \in {"half", "ended"}
          /\ pump'[Tunnel]["up"] = "ended" <=> pump[Tunnel]["up"] = "ended"
          /\ pump'[Proxy]["up"] = "ended" <=> pump[Proxy]["up"] = "ended"
          /\ pump'[P2x]["down"] = pump[P2x]["down"] /\ pump'[Proxy]["down"] = pump[Proxy]["down"]
      BY <1>2, <1>6, <2>0, <2>4, Zenon DEF Hops
    <3>8. Queued(0)' = Queued(0) BY <3>1, <3>3 DEF Links, Hops, P2x, Tunnel, Proxy
    <3>9. pump[Tunnel]["up"] = "ended" => Queued(1)' = 0
      <4>1. pump[Tunnel]["up"] = "ended" => h # P2x BY <1>2, <1>8, <2>4, Zenon DEF Flow
      <4>2. h # P2x => Queued(1)' = Queued(1) BY <3>3 DEF Links, P2x
      <4> QED BY <1>8, <4>1, <4>2, Zenon DEF Flow
    <3>10. pump[Proxy]["up"] = "ended" => Queued(2)' = 0
      <4>1. pump[Proxy]["up"] = "ended" => h # Tunnel BY <1>2, <1>8, <2>4, Zenon DEF Flow
      <4>2. h # Tunnel => Queued(2)' = Queued(2) BY <3>3 DEF Links, Tunnel
      <4> QED BY <1>8, <4>1, <4>2, Zenon DEF Flow
    <3> QED BY <1>2, <1>8, <2>2, <3>6, <3>7, <3>8, <3>9, <3>10, Zenon DEF Flow
  <2> QED BY <2>3, <2>4, Zenon DEF Dirs
<1>9. \A f \in Dirs : n[f].rx = pipe[l][f].rx /\ (n[f].st = pipe[l][f].st \/ n[f].st = "reset") BY <1>4, Zenon
<1>10. pipe' = [pipe EXCEPT ![l] = n] /\ Worsens(pipe[l], n) BY <1>4, Zenon
<1> QED BY <1>1, <1>6, <1>7, <1>8, <1>9, <1>10, PlainStep, Zenon

-----------------------------------------------------------------------------
\* Closing

\* What closing the left end of a hop does to the link before it.
LEMMA LeftClosed ==
    ASSUME NEW p \in [Links -> Link], NEW h \in Hops
    PROVE  LET o == CloseLeft(p, h)
               k == p[h - 1]
               n == o[h - 1]
           IN  /\ o \in [Links -> Link] /\ \A m \in Links : m # h - 1 => o[m] = p[m]
               /\ \A m \in Links : Worsens(p[m], o[m])
               /\ n["down"].rx = k["down"].rx /\ n["up"].q = 0
               /\ n["up"].st = "fin" => k["up"].st = "fin"
               /\ n["up"].st # "reset" => n["up"].st = k["up"].st /\ (h # Tunnel => k["up"].q = 0)
<1> DEFINE l == h - 1
           n == Close(l, p[l], "down")
           o == CloseLeft(p, h)
<1>1. l \in Links /\ "up" \in Dirs /\ "down" \in Dirs /\ Other("down") = "up" /\ p[l] \in Link
      /\ (h # Tunnel => IsTcp(l))
  BY DEF Hops, Links, P2x, Tunnel, Proxy, Dirs, Other, IsTcp
<1>2. o = [p EXCEPT ![l] = n] BY Zenon DEF CloseLeft
<1> HIDE DEF l
<1>3. /\ n \in Link /\ Worsens(p[l], n)
      /\ n["up"].q = 0 /\ n["up"].rx = FALSE /\ (n["up"].st = "fin" => p[l]["up"].st = "fin")
      /\ n["down"].q = p[l]["down"].q /\ n["down"].rx = p[l]["down"].rx /\ n["down"].st # "open"
      /\ n["up"].st # "reset" => n["up"].st = p[l]["up"].st /\ (IsTcp(l) => p[l]["up"].q = 0)
  BY <1>1, CloseProps, Zenon
<1> HIDE DEF n, o
<1>4. o \in [Links -> Link] /\ o[l] = n /\ \A m \in Links : m # l => o[m] = p[m] BY <1>1, <1>2, <1>3, Zenon
<1>5. ASSUME NEW m \in Links PROVE Worsens(p[m], o[m])
  <2>1. CASE m = l BY <1>3, <1>4, <2>1, Zenon
  <2>2. CASE m # l BY <1>4, <2>2, Zenon DEF Worsens
  <2> QED BY <2>1, <2>2, Zenon
<1> QED BY <1>1, <1>3, <1>4, <1>5, Zenon DEF l, o

\* What closing its right end does to its own.
LEMMA RightClosed ==
    ASSUME NEW p \in [Links -> Link], NEW h \in Hops
    PROVE  LET o == CloseRight(p, h)
               k == p[h]
               n == o[h]
           IN  /\ o \in [Links -> Link] /\ \A m \in Links : m # h => o[m] = p[m]
               /\ \A m \in Links : Worsens(p[m], o[m])
               /\ n["up"].rx = k["up"].rx /\ n["up"].q = k["up"].q
               /\ n["down"].st = "fin" => k["down"].st = "fin"
<1> DEFINE n == Close(h, p[h], "up")
           o == CloseRight(p, h)
<1>1. h \in Links /\ "up" \in Dirs /\ "down" \in Dirs /\ Other("up") = "down" /\ p[h] \in Link
  BY DEF Hops, Links, P2x, Tunnel, Proxy, Dirs, Other
<1>2. o = [p EXCEPT ![h] = n] BY Zenon DEF CloseRight
<1>3. /\ n \in Link /\ Worsens(p[h], n) /\ n["up"].rx = p[h]["up"].rx /\ n["up"].q = p[h]["up"].q
      /\ n["down"].st = "fin" => p[h]["down"].st = "fin"
  BY <1>1, CloseProps, Zenon
<1> HIDE DEF n, o
<1>4. o \in [Links -> Link] /\ o[h] = n /\ \A m \in Links : m # h => o[m] = p[m] BY <1>1, <1>2, <1>3, Zenon
<1>5. ASSUME NEW m \in Links PROVE Worsens(p[m], o[m])
  <2>1. CASE m = h BY <1>3, <1>4, <2>1, Zenon
  <2>2. CASE m # h BY <1>4, <2>2, Zenon DEF Worsens
  <2> QED BY <2>1, <2>2, Zenon
<1> QED BY <1>3, <1>4, <1>5, Zenon DEF o

\* A step that closes the left end of a hop.
LEMMA LeftKept ==
    ASSUME Inv, Shape', Order', NEW h \in Hops, pipe' = CloseLeft(pipe, h), Lost => Lost', ClosedLeft(h)',
           \A g \in Hops :
              /\ pump[g]["up"] \in Stopped => pump'[g]["up"] \in Stopped
              /\ pump[g]["up"] = "ended" => pump'[g]["up"] = "ended"
              /\ ClosedLeft(g) => ClosedLeft(g)',
           ASSUME Calm, Calm', ~Lost, ~Lost', Flow PROVE Flow'
    PROVE  Inv'
<1>1. pipe \in [Links -> Link] BY Zenon DEF Inv, Shape, Link
<1>2. /\ \A m \in Links : m # h - 1 => pipe'[m] = pipe[m]
      /\ \A m \in Links : Worsens(pipe[m], pipe'[m])
      /\ pipe'[h - 1]["down"].rx = pipe[h - 1]["down"].rx
      /\ pipe'[h - 1]["up"].st = "fin" => pipe[h - 1]["up"].st = "fin"
  BY <1>1, LeftClosed, Zenon
<1>3. ASSUME NEW g \in Hops
      PROVE  /\ pump[g]["up"] \in Stopped => pump'[g]["up"] \in Stopped
             /\ pump[g]["up"] = "ended" => pump'[g]["up"] = "ended"
             /\ ClosedLeft(g) => ClosedLeft(g)'
             /\ pipe'[g]["up"].st = "fin" => pipe[g]["up"].st = "fin" \/ pump'[g]["up"] \in Stopped
             /\ ~pipe'[g]["down"].rx => ~pipe[g]["down"].rx \/ pump'[g]["up"] = "ended"
             /\ ~pipe'[g - 1]["up"].rx => ~pipe[g - 1]["up"].rx \/ ClosedLeft(g)'
             /\ pipe'[g - 1]["down"].st = "fin" => pipe[g - 1]["down"].st = "fin" \/ ClosedLeft(g)'
  <2>1. g \in Links /\ g - 1 \in Links /\ (g # h => g - 1 # h - 1) BY DEF Hops, Links, P2x, Tunnel, Proxy
  <2>2. /\ pipe'[g]["up"].st = "fin" => pipe[g]["up"].st = "fin"
        /\ ~pipe'[g]["down"].rx => ~pipe[g]["down"].rx
    <3>1. CASE g = h - 1 BY <1>2, <3>1, Zenon
    <3>2. CASE g # h - 1 BY <1>2, <2>1, <3>2, Zenon
    <3> QED BY <3>1, <3>2, Zenon
  <2>3. CASE g = h BY <2>2, <2>3, Zenon
  <2>4. CASE g # h
    <3>1. pipe'[g - 1] = pipe[g - 1] BY <1>2, <2>1, <2>4, Zenon
    <3> QED BY <2>2, <3>1, Zenon
  <2> QED BY <2>3, <2>4, Zenon
<1>4. \A m \in Links : Worsens(pipe[m], pipe'[m]) BY <1>2, Zenon
<1> QED BY <1>3, <1>4, Kept, Zenon

\* A step that ends the upward pump of a hop and closes its right end.
LEMMA RightKept ==
    ASSUME Inv, Shape', Order', NEW h \in Hops, pipe' = CloseRight(pipe, h), Lost => Lost',
           pump'[h]["up"] = "ended",
           \A g \in Hops :
              /\ pump[g]["up"] \in Stopped => pump'[g]["up"] \in Stopped
              /\ pump[g]["up"] = "ended" => pump'[g]["up"] = "ended"
              /\ ClosedLeft(g) => ClosedLeft(g)',
           ASSUME Calm, Calm', ~Lost, ~Lost', Flow PROVE Flow'
    PROVE  Inv'
<1>1. pipe \in [Links -> Link] BY Zenon DEF Inv, Shape, Link
<1>2. /\ \A m \in Links : m # h => pipe'[m] = pipe[m]
      /\ \A m \in Links : Worsens(pipe[m], pipe'[m])
      /\ pipe'[h]["up"].rx = pipe[h]["up"].rx
      /\ pipe'[h]["down"].st = "fin" => pipe[h]["down"].st = "fin"
  BY <1>1, RightClosed, Zenon
<1>3. ASSUME NEW g \in Hops
      PROVE  /\ pump[g]["up"] \in Stopped => pump'[g]["up"] \in Stopped
             /\ pump[g]["up"] = "ended" => pump'[g]["up"] = "ended"
             /\ ClosedLeft(g) => ClosedLeft(g)'
             /\ pipe'[g]["up"].st = "fin" => pipe[g]["up"].st = "fin" \/ pump'[g]["up"] \in Stopped
             /\ ~pipe'[g]["down"].rx => ~pipe[g]["down"].rx \/ pump'[g]["up"] = "ended"
             /\ ~pipe'[g - 1]["up"].rx => ~pipe[g - 1]["up"].rx \/ ClosedLeft(g)'
             /\ pipe'[g - 1]["down"].st = "fin" => pipe[g - 1]["down"].st = "fin" \/ ClosedLeft(g)'
  <2>1. g \in Links /\ g - 1 \in Links BY DEF Hops, Links, P2x, Tunnel, Proxy
  <2>2. /\ ~pipe'[g - 1]["up"].rx => ~pipe[g - 1]["up"].rx
        /\ pipe'[g - 1]["down"].st = "fin" => pipe[g - 1]["down"].st = "fin"
    <3>1. CASE g - 1 = h BY <1>2, <3>1, Zenon
    <3>2. CASE g - 1 # h BY <1>2, <2>1, <3>2, Zenon
    <3> QED BY <3>1, <3>2, Zenon
  <2>3. CASE g = h BY <2>2, <2>3, Zenon DEF Stopped
  <2>4. CASE g # h
    <3>1. pipe'[g] = pipe[g] BY <1>2, <2>1, <2>4, Zenon
    <3> QED BY <2>2, <3>1, Zenon
  <2> QED BY <2>3, <2>4, Zenon
<1>4. \A m \in Links : Worsens(pipe[m], pipe'[m]) BY <1>2, Zenon
<1> QED BY <1>3, <1>4, Kept, Zenon

\* Nothing is left of what the upward pump of h was to bring.
Drained(h) ==
    /\ pump[h]["up"] # "write"
    /\ h = P2x => pipe[0]["up"].st = "fin" /\ Queued(0) = 0
    /\ h = Tunnel => pump[P2x]["up"] \in Stopped /\ Queued(1) = 0
    /\ h = Proxy => pump[Tunnel]["up"] = "ended" /\ Queued(2) = 0

\* An upward pump ends.
LEMMA UpEnds ==
    ASSUME Inv, NEW h \in Hops, hop[h] = "on", pump[h]["up"] # "ended", pipe' = CloseRight(pipe, h),
           pump' = [pump EXCEPT ![h]["up"] = "ended"], UNCHANGED <<hop, sent, got>>,
           ASSUME Calm, ~Lost, Flow PROVE Drained(h)
    PROVE  Inv'
<1>1. Shape /\ Order /\ "up" \in Dirs /\ "down" \in Dirs BY Zenon DEF Inv, Dirs
<1>2. /\ pump' \in [Hops -> [Dirs -> {"read", "write", "half", "ended"}]] /\ pump'[h]["up"] = "ended"
      /\ \A g \in Hops, e \in Dirs : g # h \/ e # "up" => pump'[g][e] = pump[g][e]
      /\ Order' /\ Lost' = Lost
      /\ \A g \in Hops : /\ pump[g]["up"] \in Stopped => pump'[g]["up"] \in Stopped
                         /\ pump[g]["up"] = "ended" => pump'[g]["up"] = "ended"
                         /\ ClosedLeft(g) => ClosedLeft(g)'
  BY <1>1, PumpStep, Zenon
<1>3. pipe \in [Links -> Link] BY <1>1, Zenon DEF Shape, Link
<1>4. /\ pipe' \in [Links -> Link] /\ \A m \in Links : m # h => pipe'[m] = pipe[m]
      /\ pipe'[h]["up"].q = pipe[h]["up"].q
  BY <1>3, RightClosed, Zenon
<1>5. Shape' BY <1>1, <1>2, <1>4, Zenon DEF Shape, Link
<1>6. ASSUME Calm, ~Lost, Flow PROVE Flow'
  <2>1. Drained(h) BY <1>6, Zenon
  <2>2. ASSUME NEW m \in Links PROVE Queued(m)' = Queued(m)
    <3>1. CASE m = h BY <1>4, <3>1, Zenon DEF Queued
    <3>2. CASE m # h BY <1>4, <3>2, Zenon DEF Queued
    <3> QED BY <3>1, <3>2, Zenon
  <2>3. Queued(0)' = Queued(0) /\ Queued(1)' = Queued(1) /\ Queued(2)' = Queued(2) /\ Queued(3)' = Queued(3)
    BY <2>2 DEF Links
  <2>4. ASSUME NEW g \in Hops PROVE Holds(g)' = Holds(g)
    <3>1. CASE g = h BY <1>2, <2>1, <3>1, Zenon DEF Holds, Drained
    <3>2. CASE g # h BY <1>1, <1>2, <3>2, Zenon DEF Holds
    <3> QED BY <3>1, <3>2, Zenon
  <2>5. Holds(P2x)' = Holds(P2x) /\ Holds(Tunnel)' = Holds(Tunnel) /\ Holds(Proxy)' = Holds(Proxy)
    BY <2>4, Zenon DEF Hops
  <2>6. pipe'[0] = pipe[0] BY <1>4 DEF Links, Hops, P2x, Tunnel, Proxy
  <2>7. P2x \in Hops /\ Tunnel \in Hops /\ Proxy \in Hops BY Zenon DEF Hops
  <2>8. pump'[P2x]["down"] = pump[P2x]["down"] /\ pump'[Proxy]["down"] = pump[Proxy]["down"]
    BY <1>1, <1>2, <2>7, Zenon
  <2>9. pump'[P2x]["up"] \in {"half", "ended"} => pipe[0]["up"].st = "fin" /\ Queued(0) = 0
    BY <1>1, <1>2, <1>6, <2>1, <2>7, Zenon DEF Flow, Drained
  <2>10. pump'[Tunnel]["up"] = "ended" => pump'[P2x]["up"] \in {"half", "ended"} /\ Queued(1) = 0
    BY <1>1, <1>2, <1>6, <2>1, <2>7, Zenon DEF Flow, Drained, Stopped
  <2>11. pump'[Proxy]["up"] = "ended" => pump'[Tunnel]["up"] = "ended" /\ Queued(2) = 0
    BY <1>1, <1>2, <1>6, <2>1, <2>7, Zenon DEF Flow, Drained
  <2>12. /\ pump[P2x]["down"] = "ended" => pump'[P2x]["up"] \in {"half", "ended"}
         /\ pump[Proxy]["down"] = "ended" => pump'[Proxy]["up"] = "ended"
    BY <1>1, <1>2, <1>6, <2>7, Zenon DEF Flow, Stopped
  <2> QED BY <1>6, <2>3, <2>5, <2>6, <2>8, <2>9, <2>10, <2>11, <2>12, Zenon DEF Flow
<1> QED BY <1>2, <1>5, <1>6, RightKept, Zenon

\* A downward pump of handleP2x or serveConnect ends.
LEMMA DownEnds ==
    ASSUME Inv, NEW h \in Hops, h # Tunnel, hop[h] = "on", pump[h]["down"] # "ended",
           pump[h]["down"] # "half", pipe' = CloseLeft(pipe, h),
           pump' = [pump EXCEPT ![h]["down"] = "ended"], UNCHANGED <<hop, sent, got>>,
           ASSUME Calm, ~Lost, Flow
           PROVE  (h = P2x => pump[P2x]["up"] \in Stopped) /\ (h = Proxy => pump[Proxy]["up"] = "ended")
    PROVE  Inv'
<1>1. Shape /\ Order /\ "up" \in Dirs /\ "down" \in Dirs BY Zenon DEF Inv, Dirs
<1>2. /\ pump' \in [Hops -> [Dirs -> {"read", "write", "half", "ended"}]] /\ pump'[h]["down"] = "ended"
      /\ \A g \in Hops, e \in Dirs : g # h \/ e # "down" => pump'[g][e] = pump[g][e]
      /\ Order' /\ Lost' = Lost
      /\ \A g \in Hops : /\ pump[g]["up"] \in Stopped => pump'[g]["up"] \in Stopped
                         /\ pump[g]["up"] = "ended" => pump'[g]["up"] = "ended"
                         /\ ClosedLeft(g) => ClosedLeft(g)'
  BY <1>1, PumpStep, Zenon
<1>3. pipe \in [Links -> Link] BY <1>1, Zenon DEF Shape, Link
<1>4. /\ pipe' \in [Links -> Link] /\ \A m \in Links : m # h - 1 => pipe'[m] = pipe[m]
      /\ pipe'[h - 1]["up"].q = 0
      /\ pipe'[h - 1]["up"].st # "reset" => /\ pipe'[h - 1]["up"].st = pipe[h - 1]["up"].st
                                            /\ h # Tunnel => pipe[h - 1]["up"].q = 0
  BY <1>3, LeftClosed, Zenon
<1>5. Shape' /\ ClosedLeft(h)' BY <1>1, <1>2, <1>4, Zenon DEF Shape, Link, ClosedLeft
<1>6. ASSUME Calm, Calm', ~Lost, Flow PROVE Flow'
  <2>1. h - 1 \in Links BY DEF Hops, Links, P2x, Tunnel, Proxy
  <2>2. pipe'[h - 1]["up"].st # "reset" BY <1>1, <1>6, <2>1, Zenon DEF Calm
  <2>3. ASSUME NEW m \in Links PROVE Queued(m)' = Queued(m) /\ pipe'[m]["up"].st = pipe[m]["up"].st
    <3>1. CASE m = h - 1 BY <1>4, <2>2, <3>1, Zenon DEF Queued
    <3>2. CASE m # h - 1 BY <1>4, <3>2, Zenon DEF Queued
    <3> QED BY <3>1, <3>2, Zenon
  <2>4. /\ Queued(0)' = Queued(0) /\ Queued(1)' = Queued(1) /\ Queued(2)' = Queued(2) /\ Queued(3)' = Queued(3)
        /\ pipe'[0]["up"].st = pipe[0]["up"].st
    BY <2>3 DEF Links
  <2>5. \A g \in Hops : pump'[g]["up"] = pump[g]["up"] BY <1>1, <1>2, Zenon
  <2>6. P2x \in Hops /\ Tunnel \in Hops /\ Proxy \in Hops BY Zenon DEF Hops
  <2>7. Holds(P2x)' = Holds(P2x) /\ Holds(Tunnel)' = Holds(Tunnel) /\ Holds(Proxy)' = Holds(Proxy)
    BY <2>5, <2>6, Zenon DEF Holds
  <2>8. pump'[P2x]["down"] = "ended" => pump[P2x]["up"] \in {"half", "ended"}
    BY <1>1, <1>2, <1>6, <2>6, Zenon DEF Flow, Stopped
  <2>9. pump'[Proxy]["down"] = "ended" => pump[Proxy]["up"] = "ended"
    BY <1>1, <1>2, <1>6, <2>6, Zenon DEF Flow
  <2> QED BY <1>6, <2>4, <2>5, <2>6, <2>7, <2>8, <2>9, Zenon DEF Flow
<1> QED BY <1>2, <1>5, <1>6, LeftKept, Zenon

\* A step that leaves the links alone.
LEMMA StillStep ==
    ASSUME Inv, Shape', Order', UNCHANGED pipe, Lost => Lost',
           \A h \in Hops :
              /\ pump[h]["up"] \in Stopped => pump'[h]["up"] \in Stopped
              /\ pump[h]["up"] = "ended" => pump'[h]["up"] = "ended"
              /\ ClosedLeft(h) => ClosedLeft(h)',
           ASSUME Flow PROVE Flow'
    PROVE  Inv'
<1>1. 1 \in Links /\ pipe[1] \in Link BY DEF Inv, Shape, Link, Links
<1>2. pipe' = [pipe EXCEPT ![1] = pipe[1]] BY Zenon DEF Inv, Shape
<1>3. Worsens(pipe[1], pipe[1]) BY Zenon DEF Worsens
<1>4. PICK l \in Links, n \in Link : l = 1 /\ n = pipe[1] BY <1>1, Zenon
<1>5. pipe' = [pipe EXCEPT ![l] = n] /\ Worsens(pipe[l], n) /\ n = pipe[l] BY <1>2, <1>3, <1>4, Zenon
<1> QED BY <1>5, PlainStep, Zenon

\* The downward pump of handleTunnel ends and closes nothing.
LEMMA TunnelDownEnds ==
    ASSUME Inv, NEW h \in Hops, h \notin {P2x, Proxy}, hop[h] = "on", pump[h]["down"] # "ended", pump[h]["down"] # "half",
           UNCHANGED pipe, pump' = [pump EXCEPT ![h]["down"] = "ended"], UNCHANGED <<hop, sent, got>>
    PROVE  Inv'
<1>1. Shape /\ Order /\ "up" \in Dirs /\ "down" \in Dirs /\ Tunnel \in Hops BY Zenon DEF Inv, Dirs, Hops
<1>2. /\ pump' \in [Hops -> [Dirs -> {"read", "write", "half", "ended"}]] /\ pump'[h]["down"] = "ended"
      /\ \A g \in Hops, e \in Dirs : g # h \/ e # "down" => pump'[g][e] = pump[g][e]
      /\ Order' /\ Lost' = Lost
      /\ \A g \in Hops : /\ pump[g]["up"] \in Stopped => pump'[g]["up"] \in Stopped
                         /\ pump[g]["up"] = "ended" => pump'[g]["up"] = "ended"
                         /\ ClosedLeft(g) => ClosedLeft(g)'
  BY <1>1, PumpStep, Zenon
<1>3. Shape' BY <1>1, <1>2, Zenon DEF Shape
<1>4. ASSUME Flow PROVE Flow'
  <2>1. P2x \in Hops /\ Proxy \in Hops /\ P2x # h /\ Proxy # h BY Zenon DEF Hops
  <2>2. /\ pump'[P2x]["up"] = pump[P2x]["up"] /\ pump'[P2x]["down"] = pump[P2x]["down"]
        /\ pump'[Proxy]["up"] = pump[Proxy]["up"] /\ pump'[Proxy]["down"] = pump[Proxy]["down"]
        /\ pump'[Tunnel]["up"] = pump[Tunnel]["up"]
    BY <1>1, <1>2, <2>1, Zenon
  <2> QED BY <1>4, <2>2, Zenon DEF Flow, Holds, Queued
<1> QED BY <1>2, <1>3, <1>4, StillStep, Zenon

\* While handlers serve: what an end of file or a closed end tells.
LEMMA Tells ==
    ASSUME Inv, NEW h \in Hops, hop[h] = "on"
    PROVE  /\ pipe[h]["up"].st = "fin" => pump[h]["up"] \in Stopped
           /\ ~pipe[h]["down"].rx => pump[h]["up"] = "ended"
           /\ ~pipe[h - 1]["up"].rx => h # Tunnel /\ pump[h]["down"] = "ended"
           /\ pipe[h - 1]["down"].st = "fin" => h # Tunnel /\ pump[h]["down"] = "ended"
<1>1. ClosedLeft(h) => h # Tunnel /\ pump[h]["down"] = "ended" BY Zenon DEF ClosedLeft
<1> QED BY <1>1, Zenon DEF Inv, Closing, Stopped

\* Where nothing was reset, a state is open or an end of file.
LEMMA OpenOrFin ==
    ASSUME Shape, Calm, NEW l \in Links, NEW d \in Dirs
    PROVE  pipe[l][d].st \in {"open", "fin"}
<1>1. pipe[l][d] \in Channels BY Zenon DEF Shape
<1> QED BY <1>1, Zenon DEF Channels, Calm

\* handleP2x closes the stream it has half closed already.
LEMMA HalfEndsStep ==
    ASSUME Inv, HalfEnds
    PROVE  Inv'
<1>1. PICK h \in Hops : h = P2x BY Zenon DEF Hops
<1>2. /\ hop[h] = "on" /\ pump[h]["up"] = "half" /\ pipe' = CloseRight(pipe, h)
      /\ pump' = [pump EXCEPT ![h]["up"] = "ended"] /\ UNCHANGED <<hop, sent, got>>
  BY <1>1, Zenon DEF HalfEnds, Pumping, Ends, Closers
<1>3. ASSUME Flow PROVE Drained(h)
  BY <1>1, <1>2, <1>3 DEF Flow, Drained, P2x, Tunnel, Proxy
<1> QED BY <1>2, <1>3, UpEnds, Zenon

\* Nobody writes upward in vain where nothing was lost.
LEMMA WriteEndsStep ==
    ASSUME Inv, NEW h \in Hops, NEW d \in Dirs, WriteEnds(h, d)
    PROVE  Inv'
<1> DEFINE l == To(h, d)
<1>1. /\ hop[h] = "on" /\ pump[h][d] = "write" /\ UNCHANGED <<hop, sent, got>>
      /\ pump' = [pump EXCEPT ![h][d] = "ended"] /\ pipe' = Closers(pipe, h, d)
      /\ pipe[l][d].st # "open" \/ (~IsTcp(l) /\ ~pipe[l][d].rx)
  BY Zenon DEF WriteEnds, Pumping, Ends, WriteFails
<1>2. Shape /\ l \in Links BY DEF Inv, To, Hops, Links, P2x, Tunnel, Proxy
<1>3. CASE d = "up"
  <2>1. l = h /\ pipe' = CloseRight(pipe, h) BY <1>1, <1>3, Zenon DEF To, Closers
  <2> HIDE DEF l
  <2>2. ASSUME Calm, ~Lost, Flow PROVE Drained(h)
    <3>1. CASE pipe[l][d].st # "open"
      <4>1. pipe[h]["up"].st = "fin" BY <1>2, <1>3, <2>1, <2>2, <3>1, OpenOrFin, Zenon
      <4>2. pump[h]["up"] \in Stopped BY <1>1, <4>1, Tells, Zenon
      <4> QED BY <1>1, <1>3, <4>2, Zenon DEF Stopped
    <3>2. CASE ~IsTcp(l) /\ ~pipe[l][d].rx
      <4>1. h = 1 /\ ~pipe[1]["up"].rx /\ pump[P2x]["up"] = "write" BY <1>1, <1>3, <2>1, <3>2, Zenon DEF IsTcp, P2x
      <4> QED BY <2>2, <4>1, StreamIsRead, Zenon
    <3> QED BY <1>1, <3>1, <3>2, Zenon DEF l
  <2>3. pump[h]["up"] # "ended" /\ pump' = [pump EXCEPT ![h]["up"] = "ended"] BY <1>1, <1>3, Zenon
  <2> QED BY <1>1, <2>1, <2>2, <2>3, UpEnds, Zenon
<1>4. CASE d = "down"
  <2>1. l = h - 1 /\ pump[h]["down"] = "write" /\ pump' = [pump EXCEPT ![h]["down"] = "ended"]
    BY <1>1, <1>4, Zenon DEF To
  <2>2. CASE h = Tunnel
    <3>1. UNCHANGED pipe /\ h \notin {P2x, Proxy} BY <1>1, <1>4, <2>2 DEF Closers, P2x, Tunnel, Proxy
    <3> QED BY <1>1, <2>1, <3>1, TunnelDownEnds, Zenon
  <2>3. CASE h # Tunnel
    <3>1. pipe' = CloseLeft(pipe, h) BY <1>1, <1>4, <2>3, Zenon DEF Closers
    <3>2. ASSUME Calm, ~Lost, Flow
          PROVE  (h = P2x => pump[P2x]["up"] \in Stopped) /\ (h = Proxy => pump[Proxy]["up"] = "ended")
      <4>1. IsTcp(l) BY <2>1, <2>3 DEF IsTcp, Hops, P2x, Tunnel, Proxy
      <4> HIDE DEF l
      <4>2. pipe[l]["down"].st = "fin" BY <1>1, <1>2, <1>4, <3>2, <4>1, OpenOrFin, Zenon
      <4>3. pump[h]["down"] = "ended" BY <1>1, <2>1, <4>2, Tells, Zenon
      <4> QED BY <2>1, <4>3, Zenon
    <3> QED BY <1>1, <2>1, <2>3, <3>1, <3>2, DownEnds, Zenon
  <2> QED BY <2>2, <2>3, Zenon
<1> QED BY <1>3, <1>4, Zenon DEF Dirs

\* A read fails for one of three reasons: none of them is an early end of file.
LEMMA ReadEndsStep ==
    ASSUME Inv, NEW h \in Hops, NEW d \in Dirs, ReadEnds(h, d)
    PROVE  Inv'
<1> DEFINE l == From(h, d)
<1>1. /\ hop[h] = "on" /\ pump[h][d] = "read" /\ UNCHANGED <<hop, sent, got>>
      /\ pump' = [pump EXCEPT ![h][d] = "ended"] /\ pipe' = Closers(pipe, h, d)
      /\ ~pipe[l][d].rx \/ pipe[l][d].st = "reset" \/ (pipe[l][d].st = "fin" /\ pipe[l][d].q = 0)
      /\ h # P2x \/ d # "up"
  BY Zenon DEF ReadEnds, Pumping, Ends, ReadFails
<1>2. Shape /\ l \in Links BY DEF Inv, From, Hops, Links, P2x, Tunnel, Proxy
<1>3. ASSUME Calm PROVE ~pipe[l][d].rx \/ (pipe[l][d].st = "fin" /\ pipe[l][d].q = 0)
  BY <1>1, <1>2, <1>3, Zenon DEF Calm
<1>4. CASE d = "up"
  <2>1. l = h - 1 /\ pipe' = CloseRight(pipe, h) /\ h # P2x BY <1>1, <1>4, Zenon DEF From, Closers
  <2> HIDE DEF l
  <2>2. ASSUME Calm, ~Lost, Flow PROVE Drained(h)
    <3>1. pipe[h - 1]["up"].rx
      <4>1. ~pipe[h - 1]["up"].rx => h # Tunnel /\ pump[h]["down"] = "ended" BY <1>1, Tells, Zenon
      <4>2. h # Tunnel => h = Proxy BY <2>1, Zenon DEF Hops
      <4> QED BY <1>1, <1>4, <2>2, <4>1, <4>2, Zenon DEF Flow
    <3>2. pipe[h - 1]["up"].st = "fin" /\ Queued(h - 1) = 0 BY <1>3, <1>4, <2>1, <2>2, <3>1, Zenon DEF Queued
    <3>3. h - 1 \in Hops /\ h - 1 # 3 /\ (h = Tunnel => h - 1 = P2x) /\ (h = Proxy => h - 1 = Tunnel)
      BY <2>1 DEF Hops, P2x, Tunnel, Proxy
    <3>4. pump[h - 1]["up"] \in Stopped BY <3>2, <3>3, Zenon DEF Inv, Closing, Stopped
    <3>5. pump[Tunnel]["up"] # "half" BY DEF Inv, Order, Hops, Dirs, P2x, Tunnel
    <3>6. CASE h = Tunnel
      <4>1. Queued(1) = 0 BY <3>2, <3>6 DEF Tunnel
      <4>2. h # Proxy BY <3>6 DEF Tunnel, Proxy
      <4> QED BY <1>1, <1>4, <2>1, <3>3, <3>4, <3>6, <4>1, <4>2, Zenon DEF Drained
    <3>7. CASE h = Proxy
      <4>1. Queued(2) = 0 BY <3>2, <3>7 DEF Proxy
      <4>2. h # Tunnel BY <3>7 DEF Tunnel, Proxy
      <4> QED BY <1>1, <1>4, <2>1, <3>3, <3>4, <3>5, <3>7, <4>1, <4>2, Zenon DEF Drained, Stopped
    <3> QED BY <2>1, <3>6, <3>7, Zenon DEF Hops
  <2>3. pump[h]["up"] # "ended" /\ pump' = [pump EXCEPT ![h]["up"] = "ended"] BY <1>1, <1>4, Zenon
  <2> QED BY <1>1, <2>1, <2>2, <2>3, UpEnds, Zenon
<1>5. CASE d = "down"
  <2>1. l = h /\ pump[h]["down"] = "read" /\ pump' = [pump EXCEPT ![h]["down"] = "ended"]
    BY <1>1, <1>5, Zenon DEF From
  <2> HIDE DEF l
  <2>2. CASE h = Tunnel
    <3>1. UNCHANGED pipe /\ h \notin {P2x, Proxy} BY <1>1, <1>5, <2>2 DEF Closers, P2x, Tunnel, Proxy
    <3> QED BY <1>1, <2>1, <3>1, TunnelDownEnds, Zenon
  <2>3. CASE h # Tunnel
    <3>1. pipe' = CloseLeft(pipe, h) BY <1>1, <1>5, <2>3, Zenon DEF Closers
    <3>2. ASSUME Calm, ~Lost, Flow
          PROVE  (h = P2x => pump[P2x]["up"] \in Stopped) /\ (h = Proxy => pump[Proxy]["up"] = "ended")
      <4>1. CASE ~pipe[h]["down"].rx
        <5>1. pump[h]["up"] = "ended" BY <1>1, <4>1, Tells, Zenon
        <5> QED BY <5>1, Zenon DEF Stopped
      <4>2. CASE pipe[h]["down"].st = "fin"
        <5>1. h # Proxy BY <3>2, <4>2, Zenon DEF Calm, Proxy
        <5>2. h = P2x => pipe[Tunnel - 1]["down"].st = "fin" BY <4>2 DEF P2x, Tunnel
        <5>3. h = P2x => ClosedLeft(Tunnel) BY <5>2, Zenon DEF Inv, Closing, Hops
        <5>4. h = P2x => hop[Tunnel] = "done" BY <5>3, Zenon DEF ClosedLeft
        <5>5. h = P2x => pump[Tunnel]["up"] = "ended" BY <3>2, <5>4, Zenon DEF Inv, Order, Lost, Dirs
        <5> QED BY <3>2, <5>1, <5>5, Zenon DEF Flow, Stopped
      <4> QED BY <1>3, <1>5, <2>1, <3>2, <4>1, <4>2, Zenon
    <3> QED BY <1>1, <2>1, <2>3, <3>1, <3>2, DownEnds, Zenon
  <2> QED BY <2>2, <2>3, Zenon
<1> QED BY <1>4, <1>5, Zenon DEF Dirs

\* handleP2x has read the client's end of file.
LEMMA ReadHalvesStep ==
    ASSUME Inv, ReadHalves
    PROVE  Inv'
<1>1. PICK h \in Hops, l \in Links, d \in Dirs : h = P2x /\ l = 1 /\ d = "up" BY DEF Hops, Links, Dirs
<1> DEFINE n == CloseWrite(pipe[l], d)
<1>2. /\ hop[h] = "on" /\ pump[h][d] = "read" /\ pipe' = [pipe EXCEPT ![l] = n]
      /\ pump' = [pump EXCEPT ![h][d] = "half"] /\ UNCHANGED <<hop, sent, got>>
      /\ ~pipe[0]["up"].rx \/ pipe[0]["up"].st = "reset" \/ (pipe[0]["up"].st = "fin" /\ pipe[0]["up"].q = 0)
  BY <1>1, Zenon DEF ReadHalves, Pumping, ReadFails
<1>3. Shape /\ Order /\ pipe[l] \in Link BY Zenon DEF Inv, Shape, Link
<1>4. /\ n \in Link /\ Worsens(pipe[l], n)
      /\ \A e \in Dirs : n[e].q = pipe[l][e].q /\ n[e].rx = pipe[l][e].rx /\ (e # d => n[e].st = pipe[l][e].st)
  BY <1>3, CloseWriteProps, Zenon
<1> HIDE DEF n
<1>5. /\ pipe' \in [Links -> [Dirs -> Channels]] /\ pipe'[l] = n
      /\ \A m \in Links : m # l => pipe'[m] = pipe[m]
      /\ \A m \in Links : Worsens(pipe[m], pipe'[m])
  BY <1>2, <1>3, <1>4, OneLink, Zenon
<1>6. ASSUME NEW x \in {"read", "write", "half", "ended"}, x = "half" => h = P2x /\ d = "up",
              pump' = [pump EXCEPT ![h][d] = x]
       PROVE  /\ pump' \in [Hops -> [Dirs -> {"read", "write", "half", "ended"}]] /\ pump'[h][d] = x
              /\ \A g \in Hops, e \in Dirs : g # h \/ e # d => pump'[g][e] = pump[g][e]
              /\ Order' /\ Lost' = Lost
              /\ \A g \in Hops : /\ pump[g]["up"] \in Stopped => pump'[g]["up"] \in Stopped
                                 /\ pump[g]["up"] = "ended" => pump'[g]["up"] = "ended"
                                 /\ ClosedLeft(g) => ClosedLeft(g)'
  <2>1. hop[h] = "on" /\ pump[h][d] = "read" /\ UNCHANGED hop BY <1>2, Zenon
  <2> QED BY <1>3, <1>6, <2>1, PumpStep, Zenon
<1>7. /\ pump' \in [Hops -> [Dirs -> {"read", "write", "half", "ended"}]] /\ pump'[h][d] = "half"
      /\ \A g \in Hops, e \in Dirs : g # h \/ e # d => pump'[g][e] = pump[g][e]
      /\ Order' /\ Lost' = Lost
      /\ \A g \in Hops : /\ pump[g]["up"] \in Stopped => pump'[g]["up"] \in Stopped
                         /\ pump[g]["up"] = "ended" => pump'[g]["up"] = "ended"
                         /\ ClosedLeft(g) => ClosedLeft(g)'
  BY <1>1, <1>2, <1>6, Zenon
<1>8. Shape' BY <1>2, <1>3, <1>5, <1>7, Zenon DEF Shape
<1>9. ASSUME NEW m \in Links
      PROVE  /\ pipe'[m]["up"].q = pipe[m]["up"].q /\ pipe'[m]["up"].rx = pipe[m]["up"].rx
             /\ pipe'[m]["down"].rx = pipe[m]["down"].rx /\ pipe'[m]["down"].st = pipe[m]["down"].st
             /\ m # l => pipe'[m]["up"].st = pipe[m]["up"].st
  <2>1. "up" \in Dirs /\ "down" \in Dirs /\ "down" # d BY <1>1, Zenon DEF Dirs
  <2>2. CASE m = l BY <1>4, <1>5, <2>1, <2>2, Zenon
  <2>3. CASE m # l BY <1>5, <2>3, Zenon
  <2> QED BY <2>2, <2>3, Zenon
<1>10. ASSUME NEW g \in Hops
      PROVE  /\ pump[g]["up"] \in Stopped => pump'[g]["up"] \in Stopped
             /\ pump[g]["up"] = "ended" => pump'[g]["up"] = "ended"
             /\ ClosedLeft(g) => ClosedLeft(g)'
             /\ pipe'[g]["up"].st = "fin" => pipe[g]["up"].st = "fin" \/ pump'[g]["up"] \in Stopped
             /\ ~pipe'[g]["down"].rx => ~pipe[g]["down"].rx \/ pump'[g]["up"] = "ended"
             /\ ~pipe'[g - 1]["up"].rx => ~pipe[g - 1]["up"].rx \/ ClosedLeft(g)'
             /\ pipe'[g - 1]["down"].st = "fin" => pipe[g - 1]["down"].st = "fin" \/ ClosedLeft(g)'
  <2>1. g \in Links /\ g - 1 \in Links /\ "up" \in Dirs /\ "down" \in Dirs
    BY DEF Hops, Links, P2x, Tunnel, Proxy, Dirs
  <2>2. pipe'[g]["up"].st = "fin" => pipe[g]["up"].st = "fin" \/ pump'[g]["up"] \in Stopped
    <3>1. CASE g = h BY <1>1, <1>7, <3>1, Zenon DEF Stopped
    <3>2. CASE g # h
      <4>1. g # l BY <1>1, <3>2, Zenon DEF P2x
      <4> QED BY <1>9, <2>1, <4>1, Zenon
    <3> QED BY <3>1, <3>2, Zenon
  <2>3. /\ pipe'[g]["down"].rx = pipe[g]["down"].rx /\ pipe'[g - 1]["up"].rx = pipe[g - 1]["up"].rx
        /\ pipe'[g - 1]["down"].st = pipe[g - 1]["down"].st
    BY <1>1, <1>9, <2>1, Zenon
  <2> QED BY <1>7, <2>2, <2>3, Zenon
<1>11. ASSUME Calm, Flow PROVE Flow'
  <2>1. 0 \in Links /\ "up" \in Dirs /\ "down" \in Dirs BY DEF Links, Dirs
  <2>2. pipe[0]["up"].rx
    <3>1. ~pipe[h - 1]["up"].rx => pump[h]["down"] = "ended" BY <1>2, Tells, Zenon
    <3>2. h - 1 = 0 BY <1>1 DEF P2x
    <3> QED BY <1>1, <1>2, <1>11, <3>1, <3>2, Zenon DEF Flow
  <2>3. pipe[0]["up"].st = "fin" /\ Queued(0) = 0 BY <1>2, <1>11, <2>1, <2>2, Zenon DEF Calm, Queued
  <2>4. pipe'[0]["up"].st = pipe[0]["up"].st BY <1>1, <1>9, <2>1
  <2>5. \A m \in Links : Queued(m)' = Queued(m) BY <1>9, <2>1, Zenon DEF Queued
  <2>6. Queued(0)' = Queued(0) /\ Queued(1)' = Queued(1) /\ Queued(2)' = Queued(2) /\ Queued(3)' = Queued(3)
    BY <2>5 DEF Links
  <2>7. P2x \in Hops /\ Tunnel \in Hops /\ Proxy \in Hops /\ Tunnel # P2x /\ Proxy # P2x
    BY DEF Hops, P2x, Tunnel, Proxy
  <2>8. /\ pump'[P2x]["up"] = "half" /\ pump[P2x]["up"] = "read"
        /\ pump'[P2x]["down"] = pump[P2x]["down"] /\ pump'[Tunnel]["up"] = pump[Tunnel]["up"]
        /\ pump'[Proxy]["up"] = pump[Proxy]["up"] /\ pump'[Proxy]["down"] = pump[Proxy]["down"]
    BY <1>1, <1>2, <1>7, <2>1, <2>7
  <2>9. Holds(P2x)' = Holds(P2x) /\ Holds(Tunnel)' = Holds(Tunnel) /\ Holds(Proxy)' = Holds(Proxy)
    BY <2>8, Zenon DEF Holds
  <2> QED BY <1>2, <1>11, <2>3, <2>4, <2>6, <2>8, <2>9, Zenon DEF Flow
<1>12. \A m \in Links : Worsens(pipe[m], pipe'[m]) BY <1>5, Zenon
<1> QED BY <1>7, <1>8, <1>10, <1>11, <1>12, Kept, Zenon

-----------------------------------------------------------------------------
\* Handlers

\* A handler goes on, and no pump moves.
LEMMA HandlersOn ==
    ASSUME UNCHANGED pump,
           \A g \in Hops : /\ hop[g] = "done" => hop'[g] = "done"
                           /\ hop[g] = "on" => hop'[g] \in {"on", "done"}
    PROVE  \A g \in Hops : /\ pump[g]["up"] \in Stopped => pump'[g]["up"] \in Stopped
                           /\ pump[g]["up"] = "ended" => pump'[g]["up"] = "ended"
                           /\ ClosedLeft(g) => ClosedLeft(g)'
BY Zenon DEF ClosedLeft

\* The stream is opened, and the dial succeeds.
LEMMA StartsStep ==
    ASSUME Inv, OpenOk \/ DialOk
    PROVE  Inv'
<1>1. Shape /\ Order /\ UNCHANGED <<pipe, pump, sent, got>> BY Zenon DEF Inv, OpenOk, DialOk
<1>2. P2x \in Hops /\ Tunnel \in Hops /\ Proxy \in Hops /\ P2x # Tunnel /\ P2x # Proxy /\ Tunnel # Proxy
  BY DEF Hops, P2x, Tunnel, Proxy
<1>3. hop' \in [Hops -> {"wait", "open", "on", "done"}] BY <1>1, Zenon DEF OpenOk, DialOk, Shape
<1>4. \/ /\ hop[P2x] = "open" /\ hop'[P2x] = "on" /\ hop[Tunnel] = "wait" /\ hop'[Tunnel] = "open"
         /\ hop'[Proxy] = hop[Proxy] /\ hop[Proxy] = "wait"
      \/ /\ hop[Tunnel] = "open" /\ hop'[Tunnel] = "on" /\ hop[Proxy] = "wait" /\ hop'[Proxy] = "open"
         /\ hop'[P2x] = hop[P2x] /\ hop[P2x] # "open"
  BY <1>1, <1>2 DEF OpenOk, DialOk, Order, Shape
<1>5. \A g \in Hops : /\ hop[g] = "done" => hop'[g] = "done"
                      /\ hop[g] = "on" => hop'[g] \in {"on", "done"}
  BY <1>4, Zenon DEF Hops
<1>6. Shape' BY <1>1, <1>3, Zenon DEF Shape
<1>7. Order'
  <2>1. \A g \in Hops : hop[g] \in {"on", "done"} => hop'[g] \in {"on", "done"} BY <1>5, Zenon
  <2>2. \A g \in Hops, d \in Dirs : /\ pump'[g][d] # "read" => hop'[g] \in {"on", "done"}
                                    /\ pump'[g][d] = "half" => g = P2x /\ d = "up"
    BY <1>1, <2>1, Zenon DEF Order
  <2>3. (hop'[P2x] = "done" => \A d \in Dirs : pump[P2x][d] = "ended") /\ hop'[Tunnel] # "done"
    BY <1>1, <1>4, Zenon DEF Order
  <2> QED BY <1>1, <1>4, <2>2, <2>3, Zenon DEF Order
<1>8. Lost => Lost' BY <1>4, Zenon DEF Lost
<1>9. ASSUME Flow PROVE Flow' BY <1>1, <1>9, Zenon DEF Flow, Queued, Holds
<1> QED BY <1>1, <1>5, <1>6, <1>7, <1>8, <1>9, HandlersOn, StillStep, Zenon

\* OpenStream fails.
LEMMA OpenFailsStep ==
    ASSUME Inv, OpenFails
    PROVE  Inv'
<1>1. PICK h \in Hops : h = P2x BY Zenon DEF Hops
<1>2. /\ hop[h] = "open" /\ hop' = [hop EXCEPT ![h] = "done"] /\ pipe' = CloseLeft(pipe, h)
      /\ UNCHANGED <<pump, sent, got>>
  BY <1>1, Zenon DEF OpenFails
<1>3. Shape /\ Order /\ pipe \in [Links -> Link] BY Zenon DEF Inv, Shape, Link
<1>4. pipe' \in [Links -> Link] BY <1>2, <1>3, LeftClosed, Zenon
<1>5. hop' \in [Hops -> {"wait", "open", "on", "done"}] /\ hop'[h] = "done"
      /\ \A g \in Hops : g # h => hop'[g] = hop[g]
  BY <1>2, <1>3, Zenon DEF Shape
<1>6. Tunnel \in Hops /\ Proxy \in Hops /\ Tunnel # h /\ Proxy # h BY <1>1 DEF Hops, P2x, Tunnel, Proxy
<1>7. hop'[P2x] = "done" /\ hop[Tunnel] = "wait" /\ hop'[Tunnel] = "wait" /\ hop'[Proxy] = hop[Proxy]
  BY <1>1, <1>2, <1>3, <1>5, <1>6, Zenon DEF Order
<1>8. Shape' BY <1>2, <1>3, <1>4, <1>5, Zenon DEF Shape, Link
<1>9. \A g \in Hops : /\ hop[g] = "done" => hop'[g] = "done"
                      /\ hop[g] = "on" => hop'[g] \in {"on", "done"}
  BY <1>2, <1>5, Zenon
<1>10. Order'
  <2>1. \A g \in Hops, d \in Dirs : /\ pump'[g][d] # "read" => hop'[g] \in {"on", "done"}
                                    /\ pump'[g][d] = "half" => g = P2x /\ d = "up"
    BY <1>2, <1>3, <1>9 DEF Order
  <2> QED BY <1>3, <1>7, <2>1, Zenon DEF Order
<1>11. Lost' /\ ClosedLeft(h)' BY <1>5, <1>7, Zenon DEF Lost, ClosedLeft
<1> QED BY <1>2, <1>8, <1>9, <1>10, <1>11, HandlersOn, LeftKept, Zenon

\* The dial fails: the stream is closed, or reset.
LEMMA DialFailsStep ==
    ASSUME Inv, DialFails \/ DialRejected
    PROVE  Inv'
<1>1. PICK h \in Hops : h = Tunnel BY Zenon DEF Hops
<1>2. /\ hop[h] = "open" /\ hop' = [hop EXCEPT ![h] = "done"] /\ UNCHANGED <<pump, sent, got>>
  BY <1>1, Zenon DEF DialFails, DialRejected
<1>3. Shape /\ Order /\ pipe \in [Links -> Link] BY Zenon DEF Inv, Shape, Link
<1>4. hop' \in [Hops -> {"wait", "open", "on", "done"}] /\ hop'[h] = "done"
      /\ \A g \in Hops : g # h => hop'[g] = hop[g]
  BY <1>2, <1>3, Zenon DEF Shape
<1>5. P2x \in Hops /\ Proxy \in Hops /\ P2x # h /\ Proxy # h BY <1>1 DEF Hops, P2x, Tunnel, Proxy
<1>6. /\ hop'[Tunnel] = "done" /\ hop[Proxy] = "wait" /\ hop'[Proxy] = "wait" /\ hop'[P2x] = hop[P2x]
      /\ hop[P2x] # "open" /\ hop[Tunnel] = "open"
  BY <1>1, <1>2, <1>3, <1>4, <1>5, Zenon DEF Order
<1>7. \A g \in Hops : /\ hop[g] = "done" => hop'[g] = "done"
                      /\ hop[g] = "on" => hop'[g] \in {"on", "done"}
  BY <1>2, <1>4, Zenon
<1>8. Order'
  <2>1. \A g \in Hops, d \in Dirs : /\ pump'[g][d] # "read" => hop'[g] \in {"on", "done"}
                                    /\ pump'[g][d] = "half" => g = P2x /\ d = "up"
    BY <1>2, <1>3, <1>7 DEF Order
  <2>2. hop[P2x] = "done" => \A d \in Dirs : pump[P2x][d] = "ended" BY <1>3, <1>6, Zenon DEF Order
  <2> QED BY <1>2, <1>3, <1>6, <2>1, <2>2, Zenon DEF Order
<1>9. Lost' /\ ClosedLeft(h)' BY <1>4, <1>6, Zenon DEF Lost, ClosedLeft
<1>10. CASE DialFails
  <2>1. pipe' = CloseLeft(pipe, h) BY <1>1, <1>10, Zenon DEF DialFails
  <2>2. pipe' \in [Links -> Link] BY <1>3, <2>1, LeftClosed, Zenon
  <2>3. Shape' BY <1>2, <1>3, <1>4, <2>2, Zenon DEF Shape, Link
  <2> QED BY <1>2, <1>7, <1>8, <1>9, <2>1, <2>3, HandlersOn, LeftKept, Zenon
<1>11. CASE DialRejected
  <2> DEFINE c == Close(1, pipe[1], "down")
             n == Reset(c)
  <2>1. 1 \in Links /\ "up" \in Dirs /\ "down" \in Dirs /\ Other("down") = "up" /\ pipe[1] \in Link
    BY <1>3 DEF Links, Dirs, Other
  <2>2. pipe' = [pipe EXCEPT ![1] = n] BY <1>11, Zenon DEF DialRejected
  <2>3. c \in Link /\ Worsens(pipe[1], c) /\ c["up"].rx = FALSE /\ c["down"].rx = pipe[1]["down"].rx
    BY <2>1, CloseProps, Zenon
  <2> HIDE DEF c
  <2>4. /\ n \in Link /\ Worsens(c, n)
        /\ \A d \in Dirs : n[d].st = "reset" /\ n[d].rx = c[d].rx
    BY <2>3, ResetProps, Zenon
  <2> HIDE DEF n
  <2>5. Worsens(pipe[1], n) BY <2>3, <2>4, Zenon DEF Worsens
  <2>6. /\ pipe' \in [Links -> [Dirs -> Channels]] /\ pipe'[1] = n
        /\ \A m \in Links : m # 1 => pipe'[m] = pipe[m]
        /\ \A m \in Links : Worsens(pipe[m], pipe'[m])
    BY <1>3, <2>1, <2>2, <2>4, <2>5, OneLink, Zenon
  <2>7. Shape' BY <1>2, <1>3, <1>4, <2>6, Zenon DEF Shape
  <2>8. ASSUME NEW g \in Hops
        PROVE  /\ pump[g]["up"] \in Stopped => pump'[g]["up"] \in Stopped
               /\ pump[g]["up"] = "ended" => pump'[g]["up"] = "ended"
               /\ ClosedLeft(g) => ClosedLeft(g)'
               /\ pipe'[g]["up"].st = "fin" => pipe[g]["up"].st = "fin" \/ pump'[g]["up"] \in Stopped
               /\ ~pipe'[g]["down"].rx => ~pipe[g]["down"].rx \/ pump'[g]["up"] = "ended"
               /\ ~pipe'[g - 1]["up"].rx => ~pipe[g - 1]["up"].rx \/ ClosedLeft(g)'
               /\ pipe'[g - 1]["down"].st = "fin" => pipe[g - 1]["down"].st = "fin" \/ ClosedLeft(g)'
    <3>1. g \in Links /\ g - 1 \in Links /\ (g # h => g - 1 # 1)
      BY <1>1 DEF Hops, Links, P2x, Tunnel, Proxy
    <3>2. /\ pump[g]["up"] \in Stopped => pump'[g]["up"] \in Stopped
          /\ pump[g]["up"] = "ended" => pump'[g]["up"] = "ended"
          /\ ClosedLeft(g) => ClosedLeft(g)'
      BY <1>2, <1>7, HandlersOn, Zenon
    <3>3. n["up"].st = "reset" /\ n["down"].rx = pipe[1]["down"].rx BY <2>1, <2>3, <2>4, Zenon
    <3>4. /\ pipe'[g]["up"].st = "fin" => pipe[g]["up"].st = "fin"
          /\ ~pipe'[g]["down"].rx => ~pipe[g]["down"].rx
      <4>1. CASE g = 1 BY <2>6, <3>3, <4>1, Zenon
      <4>2. CASE g # 1 BY <2>6, <3>1, <4>2, Zenon
      <4> QED BY <4>1, <4>2, Zenon
    <3>5. CASE g = h BY <1>9, <3>2, <3>4, <3>5, Zenon
    <3>6. CASE g # h
      <4>1. pipe'[g - 1] = pipe[g - 1] BY <2>6, <3>1, <3>6, Zenon
      <4> QED BY <3>2, <3>4, <4>1, Zenon
    <3> QED BY <3>5, <3>6, Zenon
  <2>9. \A m \in Links : Worsens(pipe[m], pipe'[m]) BY <2>6, Zenon
  <2> QED BY <1>8, <1>9, <2>7, <2>8, <2>9, Kept, Zenon
<1> QED BY <1>10, <1>11, Zenon

\* The proxy's connection ends without a tunnel.
LEMMA ConnectEndsStep ==
    ASSUME Inv, ConnectEnds
    PROVE  Inv'
<1>1. PICK h \in Hops : h = Proxy BY Zenon DEF Hops
<1>2. /\ hop[h] = "open" /\ hop' = [hop EXCEPT ![h] = "done"] /\ pipe' = CloseLeft(pipe, h)
      /\ UNCHANGED <<pump, sent, got>>
  BY <1>1, Zenon DEF ConnectEnds
<1>3. Shape /\ Order /\ pipe \in [Links -> Link] BY Zenon DEF Inv, Shape, Link
<1>4. /\ pipe' \in [Links -> Link] /\ \A m \in Links : m # h - 1 => pipe'[m] = pipe[m]
      /\ pipe'[h - 1]["up"].q = 0
      /\ pipe'[h - 1]["up"].st # "reset" => /\ pipe'[h - 1]["up"].st = pipe[h - 1]["up"].st
                                            /\ h # Tunnel => pipe[h - 1]["up"].q = 0
  BY <1>2, <1>3, LeftClosed, Zenon
<1>5. hop' \in [Hops -> {"wait", "open", "on", "done"}] /\ hop'[h] = "done"
      /\ \A g \in Hops : g # h => hop'[g] = hop[g]
  BY <1>2, <1>3, Zenon DEF Shape
<1>6. P2x \in Hops /\ Tunnel \in Hops /\ P2x # h /\ Tunnel # h BY <1>1 DEF Hops, P2x, Tunnel, Proxy
<1>7. hop'[P2x] = hop[P2x] /\ hop'[Tunnel] = hop[Tunnel] /\ hop'[Proxy] = "done" /\ hop[Proxy] = "open"
  BY <1>1, <1>2, <1>5, <1>6, Zenon
<1>8. Shape' BY <1>2, <1>3, <1>4, <1>5, Zenon DEF Shape, Link
<1>9. \A g \in Hops : /\ hop[g] = "done" => hop'[g] = "done"
                      /\ hop[g] = "on" => hop'[g] \in {"on", "done"}
  BY <1>2, <1>5, Zenon
<1>10. Order'
  <2>1. \A g \in Hops, d \in Dirs : /\ pump'[g][d] # "read" => hop'[g] \in {"on", "done"}
                                    /\ pump'[g][d] = "half" => g = P2x /\ d = "up"
    BY <1>2, <1>3, <1>9 DEF Order
  <2> QED BY <1>2, <1>3, <1>7, <2>1, Zenon DEF Order
<1>11. (Lost => Lost') /\ ClosedLeft(h)' BY <1>5, <1>7, Zenon DEF Lost, ClosedLeft
<1>12. ASSUME Calm', Flow PROVE Flow'
  <2>1. h - 1 \in Links /\ "up" \in Dirs BY DEF Hops, Links, P2x, Tunnel, Proxy, Dirs
  <2>2. pipe'[h - 1]["up"].st # "reset" BY <1>12, <2>1, Zenon DEF Calm
  <2>3. ASSUME NEW m \in Links PROVE Queued(m)' = Queued(m) /\ pipe'[m]["up"].st = pipe[m]["up"].st
    <3>1. CASE m = h - 1 BY <1>4, <1>6, <2>2, <3>1, Zenon DEF Queued
    <3>2. CASE m # h - 1 BY <1>4, <3>2, Zenon DEF Queued
    <3> QED BY <3>1, <3>2, Zenon
  <2>4. pipe'[0]["up"].st = pipe[0]["up"].st BY <2>3 DEF Links
  <2> QED BY <1>2, <1>12, <2>3, <2>4, FlowSame, Zenon
<1> QED BY <1>2, <1>8, <1>9, <1>10, <1>11, <1>12, HandlersOn, LeftKept, Zenon

\* wg.Wait returns.
LEMMA FinishStep ==
    ASSUME Inv, NEW h \in Hops, Finish(h)
    PROVE  Inv'
<1> DEFINE p == CloseRight(pipe, h)
<1>1. /\ hop[h] = "on" /\ hop' = [hop EXCEPT ![h] = "done"] /\ pipe' = CloseLeft(p, h)
      /\ UNCHANGED <<pump, sent, got>> /\ \A d \in Dirs : pump[h][d] = "ended"
  BY Zenon DEF Finish, CloseBoth
<1>2. Shape /\ Order /\ pipe \in [Links -> Link] /\ "up" \in Dirs BY Zenon DEF Inv, Shape, Link, Dirs
<1>3. /\ p \in [Links -> Link] /\ \A m \in Links : m # h => p[m] = pipe[m]
      /\ \A m \in Links : Worsens(pipe[m], p[m])
      /\ p[h]["up"].rx = pipe[h]["up"].rx /\ p[h]["up"].q = pipe[h]["up"].q
      /\ p[h]["down"].st = "fin" => pipe[h]["down"].st = "fin"
  BY <1>2, RightClosed, Zenon
<1> HIDE DEF p
<1>4. /\ pipe' \in [Links -> Link] /\ \A m \in Links : m # h - 1 => pipe'[m] = p[m]
      /\ \A m \in Links : Worsens(p[m], pipe'[m])
      /\ pipe'[h - 1]["down"].rx = p[h - 1]["down"].rx /\ pipe'[h - 1]["up"].q = 0
      /\ pipe'[h - 1]["up"].st = "fin" => p[h - 1]["up"].st = "fin"
      /\ pipe'[h - 1]["up"].st # "reset" => /\ pipe'[h - 1]["up"].st = p[h - 1]["up"].st
                                            /\ h # Tunnel => p[h - 1]["up"].q = 0
  BY <1>1, <1>3, LeftClosed, Zenon
<1>5. h \in Links /\ h - 1 \in Links /\ h # h - 1 BY DEF Hops, Links, P2x, Tunnel, Proxy
<1>6. /\ pipe'[h] = p[h] /\ p[h - 1] = pipe[h - 1]
      /\ \A m \in Links : m # h /\ m # h - 1 => pipe'[m] = pipe[m]
      /\ \A m \in Links : Worsens(pipe[m], pipe'[m])
  <2>1. \A m \in Links : Worsens(pipe[m], pipe'[m]) BY <1>3, <1>4, Zenon DEF Worsens
  <2> QED BY <1>3, <1>4, <1>5, <2>1, Zenon
<1>7. hop' \in [Hops -> {"wait", "open", "on", "done"}] /\ hop'[h] = "done"
      /\ \A g \in Hops : g # h => hop'[g] = hop[g]
  BY <1>1, <1>2, Zenon DEF Shape
<1>8. Shape' BY <1>1, <1>2, <1>4, <1>7, Zenon DEF Shape, Link
<1>9. \A g \in Hops : /\ hop[g] = "done" => hop'[g] = "done"
                      /\ hop[g] = "on" => hop'[g] \in {"on", "done"}
  BY <1>1, <1>7, Zenon
<1>10. \A g \in Hops : /\ pump[g]["up"] \in Stopped => pump'[g]["up"] \in Stopped
                       /\ pump[g]["up"] = "ended" => pump'[g]["up"] = "ended"
                       /\ ClosedLeft(g) => ClosedLeft(g)'
  BY <1>1, <1>9, HandlersOn, Zenon
<1>11. P2x \in Hops /\ Tunnel \in Hops /\ Proxy \in Hops BY Zenon DEF Hops
<1>12. Order' /\ (Lost => Lost')
  <2>1. \A g \in Hops, d \in Dirs : /\ pump'[g][d] # "read" => hop'[g] \in {"on", "done"}
                                    /\ pump'[g][d] = "half" => g = P2x /\ d = "up"
    BY <1>1, <1>2, <1>9 DEF Order
  <2>2. \A g \in Hops : hop'[g] = hop[g] \/ (g = h /\ hop[g] = "on" /\ hop'[g] = "done"
                                             /\ \A d \in Dirs : pump[g][d] = "ended")
    BY <1>1, <1>7, Zenon
  <2>3. /\ hop'[P2x] # "wait"
        /\ hop'[P2x] = "open" => hop'[Tunnel] = "wait"
        /\ hop'[P2x] = "on" => hop'[Tunnel] # "wait"
        /\ hop'[Tunnel] \in {"wait", "open"} => hop'[Proxy] = "wait"
        /\ hop'[Tunnel] = "on" => hop'[Proxy] # "wait"
        /\ Lost => Lost'
    BY <1>2, <1>11, <2>2 DEF Order, Lost
  <2>4. /\ hop'[P2x] = "done" => (\A d \in Dirs : pump[P2x][d] = "ended") \/ hop'[Tunnel] = "wait"
        /\ hop'[Tunnel] = "done" => (\A d \in Dirs : pump[Tunnel][d] = "ended") \/ hop'[Proxy] = "wait"
    BY <1>2, <1>11, <2>2 DEF Order
  <2> QED BY <1>1, <2>1, <2>3, <2>4, Zenon DEF Order
<1>13. ASSUME NEW g \in Hops
       PROVE  /\ pipe'[g]["up"].st = "fin" => pipe[g]["up"].st = "fin" \/ pump'[g]["up"] \in Stopped
              /\ ~pipe'[g]["down"].rx => ~pipe[g]["down"].rx \/ pump'[g]["up"] = "ended"
              /\ ~pipe'[g - 1]["up"].rx => ~pipe[g - 1]["up"].rx \/ ClosedLeft(g)'
              /\ pipe'[g - 1]["down"].st = "fin" => pipe[g - 1]["down"].st = "fin" \/ ClosedLeft(g)'
  <2>1. g \in Links /\ g - 1 \in Links BY DEF Hops, Links, P2x, Tunnel, Proxy
  <2>2. CASE g = h
    <3>1. pump'[g]["up"] = "ended" /\ ClosedLeft(g)' BY <1>1, <1>2, <1>7, <2>2, Zenon DEF ClosedLeft
    <3> QED BY <3>1, Zenon DEF Stopped
  <2>3. CASE g # h
    <3>1. g - 1 # h - 1 BY <2>3 DEF Hops, P2x, Tunnel, Proxy
    <3>2. /\ pipe'[g]["up"].st = "fin" => pipe[g]["up"].st = "fin"
          /\ ~pipe'[g]["down"].rx => ~pipe[g]["down"].rx
      <4>1. CASE g = h - 1 BY <1>4, <1>6, <4>1, Zenon
      <4>2. CASE g # h - 1 BY <1>6, <2>1, <2>3, <4>2, Zenon
      <4> QED BY <4>1, <4>2, Zenon
    <3>3. /\ ~pipe'[g - 1]["up"].rx => ~pipe[g - 1]["up"].rx
          /\ pipe'[g - 1]["down"].st = "fin" => pipe[g - 1]["down"].st = "fin"
      <4>1. CASE g - 1 = h BY <1>3, <1>6, <4>1, Zenon
      <4>2. CASE g - 1 # h BY <1>6, <2>1, <3>1, <4>2, Zenon
      <4> QED BY <4>1, <4>2, Zenon
    <3> QED BY <3>2, <3>3, Zenon
  <2> QED BY <2>2, <2>3, Zenon
<1>14. ASSUME Calm', Flow PROVE Flow'
  <2>1. pipe'[h - 1]["up"].st # "reset" BY <1>2, <1>5, <1>14, Zenon DEF Calm
  <2>2. Queued(h - 1) = 0 /\ pipe'[h - 1]["up"].st = pipe[h - 1]["up"].st
    <3>1. CASE h = Tunnel
      <4>1. pump[Tunnel]["up"] = "ended" /\ h - 1 = 1 BY <1>1, <1>2, <3>1 DEF Tunnel
      <4> QED BY <1>4, <1>6, <1>14, <2>1, <4>1, Zenon DEF Flow
    <3>2. CASE h # Tunnel BY <1>4, <1>6, <2>1, <3>2, Zenon DEF Queued
    <3> QED BY <3>1, <3>2, Zenon
  <2>3. ASSUME NEW m \in Links PROVE Queued(m)' = Queued(m)
    <3>1. CASE m = h - 1 BY <1>4, <2>2, <3>1, Zenon DEF Queued
    <3>2. CASE m = h BY <1>3, <1>6, <3>2, Zenon DEF Queued
    <3>3. CASE m # h /\ m # h - 1 BY <1>6, <3>3, Zenon DEF Queued
    <3> QED BY <3>1, <3>2, <3>3, Zenon
  <2>4. pipe'[0]["up"].st = pipe[0]["up"].st
    <3>1. 0 \in Links /\ 0 # h BY DEF Links, Hops, P2x, Tunnel, Proxy
    <3>2. CASE 0 = h - 1 BY <2>2, <3>2, Zenon
    <3>3. CASE 0 # h - 1 BY <1>6, <3>1, <3>3, Zenon
    <3> QED BY <3>2, <3>3, Zenon
  <2> QED BY <1>1, <1>14, <2>3, <2>4, FlowSame, Zenon
<1>15. \A m \in Links : Worsens(pipe[m], pipe'[m]) BY <1>6, Zenon
<1> QED BY <1>8, <1>10, <1>12, <1>13, <1>14, <1>15, Kept, Zenon

\* The proxy reads a request and answers it.
LEMMA AnswerProps ==
    ASSUME Shape, ProxyAnswers, NEW l \in Links, l = 2
    PROVE  \E n \in Link : /\ pipe' = [pipe EXCEPT ![l] = n] /\ Worsens(pipe[l], n)
                           /\ \A f \in Dirs : /\ n[f].rx = pipe[l][f].rx
                                              /\ n[f].st = pipe[l][f].st \/ n[f].st = "reset"
                           /\ n["up"].q \in Nat /\ pipe[l]["up"].q = n["up"].q + 1
<1> DEFINE i == pipe[l]["up"].q - 1
           k == [pipe[l] EXCEPT !["up"].q = i]
           p == [pipe EXCEPT ![l] = k]
<1>1. pipe \in [Links -> Link] /\ "up" \in Dirs /\ "down" \in Dirs BY Zenon DEF Shape, Link, Dirs
<1>2. pipe[l] \in Link /\ pipe[l]["up"] \in Channels BY <1>1, Zenon DEF Link
<1>3. pipe[l]["up"].q > 0 BY Zenon DEF ProxyAnswers, Readable
<1>4. i \in Nat /\ pipe[l]["up"].q = i + 1 BY <1>2, <1>3 DEF Channels
<1>5. pipe' \in Answer(p)
  <2>1. [pipe EXCEPT ![2]["up"].q = @ - 1] = p BY <1>1, Zenon
  <2> QED BY <2>1, Zenon DEF ProxyAnswers
<1> HIDE DEF i
<1>6. /\ k \in Link /\ Worsens(pipe[l], k) /\ k["up"].q = i
      /\ \A f \in Dirs : k[f].st = pipe[l][f].st /\ k[f].rx = pipe[l][f].rx
  BY <1>1, <1>2, <1>4, CountProps
<1> HIDE DEF k
<1>7. p[l] = k BY <1>1, Zenon
<1>8. p \in [Links -> Link] BY <1>1, <1>6, Zenon
<1>9. CASE pipe' = p BY <1>4, <1>6, <1>9, Zenon
<1>10. CASE pipe' # p
  <2>1. pipe' \in Written(p, l, "down") BY <1>5, <1>10, Zenon DEF Answer
  <2> HIDE DEF p
  <2>2. PICK n \in Link :
              /\ pipe' = [p EXCEPT ![l] = n] /\ Worsens(p[l], n)
              /\ \A e \in Dirs : /\ n[e].rx = p[l][e].rx /\ (e # "down" => n[e].q = p[l][e].q)
                                 /\ n[e].st = p[l][e].st \/ n[e].st = "reset"
    BY <1>1, <1>8, <2>1, WrittenProps
  <2>3. pipe' = [pipe EXCEPT ![l] = n] BY <1>1, <2>2, Zenon DEF p
  <2>4. Worsens(pipe[l], n) BY <1>6, <1>7, <2>2, Zenon DEF Worsens
  <2>5. n["up"].q = i BY <1>1, <1>6, <1>7, <2>2, Zenon
  <2>6. \A f \in Dirs : n[f].rx = pipe[l][f].rx /\ (n[f].st = pipe[l][f].st \/ n[f].st = "reset")
    BY <1>6, <1>7, <2>2, Zenon
  <2> QED BY <1>4, <2>3, <2>4, <2>5, <2>6, Zenon
<1> QED BY <1>9, <1>10, Zenon

\* The target is dialled, or it is not: either way the proxy has answered.
LEMMA ConnectStep ==
    ASSUME Inv, ConnectOk \/ ConnectFails
    PROVE  Inv'
<1>1. /\ ProxyAnswers /\ UNCHANGED pump /\ hop[Proxy] = "open"
      /\ hop' = hop \/ hop' = [hop EXCEPT ![Proxy] = "on"]
      /\ got' = [got EXCEPT !["up"] = @ + 1] /\ sent' = [sent EXCEPT !["down"] = @ + 1]
  BY Zenon DEF ConnectOk, ConnectFails, ProxyAnswers
<1>2. Shape /\ Order BY Zenon DEF Inv
<1>3. PICK l \in Links : l = 2 BY DEF Links
<1>4. PICK n \in Link : /\ pipe' = [pipe EXCEPT ![l] = n] /\ Worsens(pipe[l], n)
                        /\ \A f \in Dirs : /\ n[f].rx = pipe[l][f].rx
                                           /\ n[f].st = pipe[l][f].st \/ n[f].st = "reset"
                        /\ n["up"].q \in Nat /\ pipe[l]["up"].q = n["up"].q + 1
  BY <1>1, <1>2, <1>3, AnswerProps, Zenon
<1>5. /\ pipe' \in [Links -> [Dirs -> Channels]] /\ pipe'[l] = n
      /\ \A m \in Links : m # l => pipe'[m] = pipe[m]
  <2>1. pipe' = [pipe EXCEPT ![l] = n] /\ Worsens(pipe[l], n) BY <1>4, Zenon
  <2> QED BY <1>2, <2>1, OneLink, Zenon
<1>6. P2x \in Hops /\ Tunnel \in Hops /\ Proxy \in Hops /\ P2x # Tunnel /\ P2x # Proxy /\ Tunnel # Proxy
  BY DEF Hops, P2x, Tunnel, Proxy
<1>7. /\ hop' \in [Hops -> {"wait", "open", "on", "done"}] /\ hop'[P2x] = hop[P2x]
      /\ hop'[Tunnel] = hop[Tunnel] /\ hop'[Proxy] \in {"open", "on"}
  BY <1>1, <1>2, <1>6, Zenon DEF Shape
<1>8. \A g \in Hops : /\ hop[g] = "done" => hop'[g] = "done"
                      /\ hop[g] = "on" => hop'[g] \in {"on", "done"}
  BY <1>1, <1>7, Zenon DEF Hops
<1>9. sent' \in [Dirs -> Nat] /\ got' \in [Dirs -> Nat] /\ sent'["up"] = sent["up"] /\ got'["up"] = got["up"] + 1
  BY <1>1, <1>2 DEF Shape, Dirs
<1>10. Shape' BY <1>1, <1>2, <1>5, <1>7, <1>9, Zenon DEF Shape
<1>11. Order'
  <2>1. \A g \in Hops, d \in Dirs : /\ pump'[g][d] # "read" => hop'[g] \in {"on", "done"}
                                    /\ pump'[g][d] = "half" => g = P2x /\ d = "up"
    BY <1>1, <1>2, <1>8, Zenon DEF Order
  <2> QED BY <1>1, <1>2, <1>7, <2>1, Zenon DEF Order
<1>12. Lost => Lost' BY <1>1, <1>7, Zenon DEF Lost
<1>13. ASSUME Calm', Flow PROVE Flow'
  <2>1. /\ Queued(0)' = Queued(0) /\ Queued(1)' = Queued(1) /\ Queued(2) = Queued(2)' + 1
        /\ Queued(2)' \in Nat /\ Queued(3)' = Queued(3) /\ pipe'[0] = pipe[0]
    BY <1>3, <1>4, <1>5 DEF Queued, Links
  <2>2. Holds(P2x)' = Holds(P2x) /\ Holds(Tunnel)' = Holds(Tunnel) /\ Holds(Proxy)' = Holds(Proxy)
    BY <1>1, Zenon DEF Holds
  <2>3. /\ Queued(0) \in Nat /\ Queued(1) \in Nat /\ Queued(2) \in Nat /\ Queued(3) \in Nat
        /\ Holds(P2x) \in Nat /\ Holds(Tunnel) \in Nat /\ Holds(Proxy) \in Nat
        /\ sent["up"] \in Nat /\ got["up"] \in Nat
    BY <1>2, Counts DEF Links, Hops
  <2>4. sent["up"] = got["up"] + Queued(0) + Holds(P2x) + Queued(1) + Holds(Tunnel) + Queued(2)
                    + Holds(Proxy) + Queued(3)
    BY <1>13, Zenon DEF Flow
  <2>5. sent'["up"] = got'["up"] + Queued(0)' + Holds(P2x)' + Queued(1)' + Holds(Tunnel)' + Queued(2)'
                    + Holds(Proxy)' + Queued(3)'
    BY <1>9, <2>1, <2>2, <2>3, <2>4
  <2>6. pump[Proxy]["up"] = "read" BY <1>1, <1>2, <1>6, Zenon DEF Order, Dirs
  <2> QED BY <1>1, <1>13, <2>1, <2>5, <2>6, Zenon DEF Flow
<1>14. \A g \in Hops : /\ pump[g]["up"] \in Stopped => pump'[g]["up"] \in Stopped
                       /\ pump[g]["up"] = "ended" => pump'[g]["up"] = "ended"
                       /\ ClosedLeft(g) => ClosedLeft(g)'
  BY <1>1, <1>8, HandlersOn, Zenon
<1>15. /\ pipe' = [pipe EXCEPT ![l] = n] /\ Worsens(pipe[l], n)
       /\ \A f \in Dirs : n[f].rx = pipe[l][f].rx /\ (n[f].st = pipe[l][f].st \/ n[f].st = "reset")
  BY <1>4, Zenon
<1> QED BY <1>10, <1>11, <1>12, <1>13, <1>14, <1>15, PlainStep, Zenon

-----------------------------------------------------------------------------
\* The theorem

\* Nothing is closed and nothing is queued before the client speaks.
LEMMA InitInv == ASSUME Init PROVE Inv
<1>1. Fresh \in [Dirs -> Channels] BY Zenon DEF Fresh, Channels
<1>2. \A l \in Links, d \in Dirs : pipe[l][d].q = 0 /\ pipe[l][d].st = "open" /\ pipe[l][d].rx = TRUE
  BY Zenon DEF Init, Fresh
<1>3. P2x \in Hops /\ Tunnel \in Hops /\ Proxy \in Hops /\ P2x # Tunnel /\ P2x # Proxy /\ "up" \in Dirs
      /\ "down" \in Dirs
  BY DEF Hops, P2x, Tunnel, Proxy, Dirs
<1>4. \A h \in Hops, d \in Dirs : pump[h][d] = "read" BY Zenon DEF Init
<1>5. hop[P2x] = "open" /\ hop[Tunnel] = "wait" /\ hop[Proxy] = "wait" BY <1>3, Zenon DEF Init
<1>6. Shape BY <1>1, Zenon DEF Init, Shape
<1>7. Order BY <1>4, <1>5, Zenon DEF Order
<1>8. Closing
  <2>1. SUFFICES ASSUME NEW h \in Hops
                 PROVE  /\ pipe[h]["up"].st # "fin" /\ pipe[h]["down"].rx
                        /\ pipe[h - 1]["up"].rx /\ pipe[h - 1]["down"].st # "fin"
    BY Zenon DEF Closing
  <2>2. h \in Links /\ h - 1 \in Links BY DEF Hops, Links, P2x, Tunnel, Proxy
  <2> QED BY <1>2, <1>3, <2>2, Zenon
<1>9. Flow
  <2>1. Queued(0) = 0 /\ Queued(1) = 0 /\ Queued(2) = 0 /\ Queued(3) = 0 BY <1>2, <1>3 DEF Queued, Links
  <2>2. /\ pump[P2x]["up"] = "read" /\ pump[Tunnel]["up"] = "read" /\ pump[Proxy]["up"] = "read"
        /\ pump[P2x]["down"] = "read" /\ pump[Proxy]["down"] = "read"
    BY <1>3, <1>4, Zenon
  <2>3. Holds(P2x) = 0 /\ Holds(Tunnel) = 0 /\ Holds(Proxy) = 0 BY <2>2, Zenon DEF Holds
  <2>4. sent["up"] = 0 /\ got["up"] = 0 BY <1>3, Zenon DEF Init
  <2> QED BY <2>1, <2>2, <2>3, <2>4 DEF Flow
<1> QED BY <1>6, <1>7, <1>8, <1>9, Zenon DEF Inv

\* Every step of a handler, a pump, an end or the network keeps the invariant.
LEMMA NextInv == ASSUME Inv, [Next]_vars PROVE Inv'
<1>1. CASE Start BY <1>1, StartsStep, OpenFailsStep, DialFailsStep, ConnectStep, ConnectEndsStep, Zenon DEF Start
<1>2. CASE Pumps
  BY <1>2, ReadHalvesStep, HalfEndsStep, FinishStep, ReadStep, WriteStep, WriteEndsStep, ReadEndsStep, Zenon DEF Pumps
<1>3. CASE \E e \in Parties : EndRead(e) \/ EndSend(e) \/ EndShutdown(e) \/ EndClose(e)
  BY <1>3, EndReadStep, EndSendStep, EndShutdownStep, EndCloseStep, Zenon
<1>4. CASE \E l \in Links : Break(l) BY <1>4, BreakStep, Zenon
<1>5. CASE UNCHANGED vars
  <2>1. UNCHANGED <<pipe, hop, pump, sent, got>> BY <1>5, Zenon DEF vars
  <2>2. Shape' /\ Order' BY <2>1, Zenon DEF Inv, Shape, Order
  <2>3. Lost' = Lost BY <2>1, Zenon DEF Lost
  <2>4. ASSUME Flow PROVE Flow' BY <2>1, <2>4, Zenon DEF Flow, Queued, Holds
  <2>5. \A g \in Hops : ClosedLeft(g) => ClosedLeft(g)' BY <2>1, Zenon DEF ClosedLeft
  <2> QED BY <2>1, <2>2, <2>3, <2>4, <2>5, StillStep, Zenon
<1> QED BY <1>1, <1>2, <1>3, <1>4, <1>5, Zenon DEF Next, Drain

\* The invariant holds throughout.
LEMMA Invariance == Spec => []Inv
BY InitInv, NextInv, PTL DEF Spec

\* An end of file at the target comes after everything: the upward pumps have ended one
\* after the other, so no queue and no pump holds a chunk.
LEMMA WholeAtEnd == ASSUME Inv PROVE EofIsWhole
<1>1. SUFFICES ASSUME Calm, pipe[3]["up"].st = "fin", pipe[3]["up"].q = 0
               PROVE  got["up"] = sent["up"]
  BY Zenon DEF EofIsWhole, Calm
<1>2. pump[Proxy]["up"] \in {"half", "ended"} BY <1>1, Zenon DEF Inv, Closing, Hops, Proxy
<1>3. pump[Proxy]["up"] = "ended" /\ hop[Proxy] # "wait"
  BY <1>2 DEF Inv, Order, Hops, Dirs, P2x, Proxy
<1>4. ~Lost
  <2>1. hop[Tunnel] # "wait" BY <1>3, Zenon DEF Inv, Order
  <2> QED BY <1>3, <2>1, Zenon DEF Lost
<1>5. Flow BY <1>1, <1>4, Zenon DEF Inv
<1>6. /\ Queued(0) = 0 /\ Queued(1) = 0 /\ Queued(2) = 0 /\ Queued(3) = 0
      /\ Holds(P2x) = 0 /\ Holds(Tunnel) = 0 /\ Holds(Proxy) = 0
  BY <1>1, <1>3, <1>5, Zenon DEF Flow, Holds, Queued
<1>7. sent["up"] \in Nat /\ got["up"] \in Nat BY Counts, Zenon DEF Inv
<1> QED BY <1>5, <1>6, <1>7 DEF Flow

\* EofIsWhole, whatever the ends send, the window of the connections and the number of
\* faults: an end of file reaches the target through the tunnel only behind all the data.
THEOREM EofTheorem == Spec => []EofIsWhole
BY Invariance, WholeAtEnd, PTL

=============================================================================
