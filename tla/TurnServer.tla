----------------------------- MODULE TurnServer -----------------------------
(***************************************************************************)
(* The connection to one TURN server (turnpool.go): the run loop that      *)
(* connects, checks and shuts down, and the acceptProc goroutines, one of  *)
(* which may replace the allocation on its own (reallocate) while the run  *)
(* loop goes on.  The two share fields without a lock around a whole       *)
(* lifecycle: what each does to the other's is what the model is about.    *)
(*                                                                         *)
(* A life is a call of connect.  It makes a reconnectNow channel and, once *)
(* the allocation stands, a control connection, both named by the life.    *)
(* The code tests the state only for TurnAlive.                            *)
(***************************************************************************)
EXTENDS Naturals

CONSTANTS MaxLives,    \* calls of connect
          MaxProcs,    \* slots for acceptProc goroutines, reused once they have exited
          MaxFaults    \* failures of the network and of the server

ASSUME TurnServerAssumption ==
    MaxLives \in Nat \ {0} /\ MaxProcs \in Nat \ {0} /\ MaxFaults \in Nat

None == 0
Lives == 1 .. MaxLives
Procs == 1 .. MaxProcs
MaxChans == MaxLives + MaxFaults

VARIABLES
    rpc,       \* where the run loop is
    initial,   \* the first connect, outside connectWithBackoff
    after,     \* where the run loop goes after a shutdown
    alive,     \* getState() = TurnAlive
    life,      \* calls of connect so far; names the current reconnectNow
    signalled, \* lives whose reconnectNow is closed
    acceptStopCh,  \* the current channel
    chans,     \* acceptStopCh channels made so far
    ended,     \* those that are closed
    client,    \* client and conn: the life they belong to, or None
    link,      \* of each life: its control connection
    alloc,     \* alloc and relayAddr are set
    peer,      \* "none", "running" or "stopped"
    peerLost,  \* a running TurnPeer has been overwritten
    stunFailCount,
    proc,      \* of each acceptProc: where it is
    my,        \* of each acceptProc: the channels and the client it has captured
    stopped,   \* stopCh is closed
    panicked,  \* a channel closed twice, or nil dereferenced
    raced,     \* connect or shutdown went on under an acceptProc that had yet to
               \* capture its channels, reallocated, or reported a fatal error;
               \* connect left one behind that nothing had told to stop; or one
               \* began to reallocate while another still did
    faults

runVars  == <<rpc, initial, after>>
lifeVars == <<life, signalled>>
chanVars == <<acceptStopCh, chans, ended>>
resVars  == <<client, link, alloc>>
peerVars == <<peer, peerLost>>
procVars == <<proc, my>>
vars == <<runVars, alive, lifeVars, chanVars, resVars, peerVars, stunFailCount, procVars,
          stopped, panicked, raced, faults>>

NoChannels == [stop |-> None, rec |-> None, client |-> None]

Init ==
    /\ rpc = "connect" /\ initial = TRUE /\ after = "loop" /\ alive = FALSE
    /\ life = 0 /\ signalled = {}
    /\ acceptStopCh = None /\ chans = 0 /\ ended = {}
    /\ client = None /\ link = [l \in Lives |-> "none"] /\ alloc = FALSE
    /\ peer = "none" /\ peerLost = FALSE /\ stunFailCount = 0
    /\ proc = [p \in Procs |-> "idle"] /\ my = [p \in Procs |-> NoChannels]
    /\ stopped = FALSE /\ panicked = FALSE /\ raced = FALSE /\ faults = 0

Fault == faults < MaxFaults /\ faults' = faults + 1

\* A request over the control connection of life l fails.
RequestFails(l) == IF link[l] = "open" THEN Fault ELSE UNCHANGED faults

Panic == panicked' = TRUE /\ UNCHANGED <<runVars, alive, lifeVars, chanVars, resVars, peerVars,
                                         stunFailCount, procVars, stopped, raced, faults>>

FreeProcs == {p \in Procs : proc[p] = "idle"}
Slot == CHOOSE p \in FreeProcs : TRUE

Reallocating == {"reallocate", "allocating", "asked", "drop", "failed", "close", "renew", "store", "counters",
                 "bind", "peer", "finish"}

\* The run loop sets fields under an acceptProc that is at one of pcs.
Races(pcs) == raced' = (raced \/ \E p \in Procs : proc[p] \in pcs)

\* connect makes a new acceptStopCh without a look at the one before, which an
\* acceptProc may still listen to: a connect that failed does not close it.
Outlived == \E p \in Procs : proc[p] \in {"top", "accept", "fatal", "signal"} /\ my[p].stop \notin ended

\* An acceptProc sets fields under the run loop in connect or shutdown.
Overlaps == raced' = (raced \/ rpc \notin {"loop", "select"})

\* reallocate starts, maybe under the run loop or under another reallocate.
Collides(p) ==
    raced' = (raced \/ rpc \notin {"loop", "select"}
              \/ \E q \in Procs \ {p} : proc[q] \in Reallocating \ {"reallocate"})

\* A panic ends the process.
At(pc) == ~panicked /\ rpc = pc
In(p, pc) == ~panicked /\ proc[p] = pc

-----------------------------------------------------------------------------
(* connect.                                                                *)

Connect ==
    /\ At("connect") /\ life < MaxLives /\ chans < MaxChans
    /\ life' = life + 1
    /\ acceptStopCh' = chans + 1 /\ chans' = chans + 1
    /\ alive' = FALSE /\ rpc' = "dial"
    /\ raced' = (raced \/ Outlived \/ \E p \in Procs : proc[p] \in Reallocating \cup {"new"})
    /\ UNCHANGED <<initial, after, signalled, ended, resVars, peerVars, stunFailCount, procVars,
                   stopped, panicked, faults>>

\* stopCh ends the wait for the dial: connect returns, and what the dial may
\* still bring stays open.
DialStopped ==
    /\ At("dial") /\ stopped
    /\ rpc' = "returned"
    /\ \/ UNCHANGED link
       \/ link' = [link EXCEPT ![life] = "leaked"]
    /\ UNCHANGED <<initial, after, alive, lifeVars, chanVars, client, alloc, peerVars, stunFailCount,
                   procVars, stopped, panicked, raced, faults>>

DialFails ==
    /\ At("dial") /\ Fault
    /\ alive' = FALSE /\ rpc' = "returned"
    /\ UNCHANGED <<initial, after, lifeVars, chanVars, resVars, peerVars, stunFailCount, procVars,
                   stopped, panicked, raced>>

DialOk ==
    /\ At("dial")
    /\ link' = [link EXCEPT ![life] = "open"] /\ alive' = FALSE /\ rpc' = "allocate"
    /\ UNCHANGED <<initial, after, lifeVars, chanVars, client, alloc, peerVars, stunFailCount, procVars,
                   stopped, panicked, raced, faults>>

\* Mutant: the connection stays open when the allocation fails.
AllocateFailsOpen ==
    /\ At("allocate") /\ RequestFails(life)
    /\ alive' = FALSE /\ rpc' = "returned"
    /\ UNCHANGED <<initial, after, lifeVars, chanVars, resVars, peerVars, stunFailCount,
                   procVars, stopped, panicked, raced>>

\* NewClient, Listen or AllocateTCP fails.
AllocateFails ==
    /\ At("allocate") /\ RequestFails(life)
    /\ alive' = FALSE /\ rpc' = "returned"
    /\ link' = [link EXCEPT ![life] = "closed"]
    /\ UNCHANGED <<initial, after, lifeVars, chanVars, client, alloc, peerVars, stunFailCount,
                   procVars, stopped, panicked, raced>>

\* The client, the connection and the allocation, under resourceMu, and go acceptProc.
AllocateOk ==
    /\ At("allocate") /\ link[life] = "open" /\ FreeProcs # {}
    /\ client' = life /\ alloc' = TRUE
    /\ proc' = [proc EXCEPT ![Slot] = "new"]
    /\ rpc' = "counters"
    /\ UNCHANGED <<initial, after, alive, lifeVars, chanVars, link, peerVars, stunFailCount, my,
                   stopped, panicked, raced, faults>>

ConnectCounters ==
    /\ At("counters") /\ stunFailCount' = 0 /\ rpc' = "alive"
    /\ UNCHANGED <<initial, after, alive, lifeVars, chanVars, resVars, peerVars, procVars,
                   stopped, panicked, raced, faults>>

\* The state is Alive, whatever the acceptProc has reported meanwhile.
ConnectAlive ==
    /\ At("alive") /\ alive' = TRUE /\ rpc' = "binding"
    /\ UNCHANGED <<initial, after, lifeVars, chanVars, resVars, peerVars, stunFailCount, procVars,
                   stopped, panicked, raced, faults>>

BindingFails ==
    /\ At("binding") /\ Races(Reallocating) /\ RequestFails(life)
    /\ alive' = FALSE /\ rpc' = "unbind"
    /\ UNCHANGED <<initial, after, lifeVars, chanVars, resVars, peerVars, stunFailCount, procVars,
                   stopped, panicked>>

Unbind ==
    /\ At("unbind") /\ rpc' = "returned"
    /\ client' = None /\ alloc' = FALSE /\ link' = [link EXCEPT ![life] = "closed"]
    /\ UNCHANGED <<initial, after, alive, lifeVars, chanVars, peerVars, stunFailCount, procVars,
                   stopped, panicked, raced, faults>>

\* Permissions, and a TurnPeer of its own.
BindingOk ==
    /\ At("binding") /\ Races(Reallocating) /\ link[life] = "open"
    /\ peer' = "running" /\ peerLost' = (peerLost \/ peer = "running")
    /\ rpc' = "returned"
    /\ UNCHANGED <<initial, after, alive, lifeVars, chanVars, resVars, stunFailCount, procVars,
                   stopped, panicked, faults>>

\* Back in runLoop, or in connectWithBackoff, which looks at the state first.
Returned ==
    /\ At("returned")
    /\ rpc' = (IF initial \/ alive THEN "loop" ELSE "backoff") /\ initial' = FALSE
    /\ UNCHANGED <<after, alive, lifeVars, chanVars, resVars, peerVars, stunFailCount, procVars,
                   stopped, panicked, raced, faults>>

Backoff ==
    /\ At("backoff")
    /\ \/ rpc' = "connect"
       \/ stopped /\ rpc' = "loop"
    /\ UNCHANGED <<initial, after, alive, lifeVars, chanVars, resVars, peerVars, stunFailCount, procVars,
                   stopped, panicked, raced, faults>>

-----------------------------------------------------------------------------
(* The run loop and shutdown.                                              *)

\* shutdown begins: the state, and TurnPeer.Stop, which closes a channel.
Shutdown(next) ==
    /\ alive' = FALSE /\ after' = next /\ Races(Reallocating \cup {"new"})
    /\ rpc' = IF peer = "none" THEN "checkStop" ELSE "peerStopped"
    /\ peer' = (IF peer = "none" THEN peer ELSE "stopped") /\ panicked' = (panicked \/ peer = "stopped")
    /\ UNCHANGED <<initial, lifeVars, chanVars, resVars, peerLost, stunFailCount, procVars, stopped, faults>>

\* ts.peer = nil, when there was one to stop.
ShutdownPeer ==
    /\ At("peerStopped") /\ peer' = "none" /\ rpc' = "checkStop"
    /\ UNCHANGED <<initial, after, alive, lifeVars, chanVars, resVars, peerLost, stunFailCount, procVars,
                   stopped, panicked, raced, faults>>

\* Mutant: acceptStopCh is closed without a look.
ShutdownUnchecked ==
    /\ At("checkStop") /\ rpc' = "closeStop"
    /\ UNCHANGED <<initial, after, alive, lifeVars, chanVars, resVars, peerVars, stunFailCount, procVars,
                   stopped, panicked, raced, faults>>

\* acceptStopCh is looked at, and then closed unless it is.
ShutdownCheck ==
    /\ At("checkStop") /\ rpc' = IF acceptStopCh \in ended THEN "release" ELSE "closeStop"
    /\ UNCHANGED <<initial, after, alive, lifeVars, chanVars, resVars, peerVars, stunFailCount, procVars,
                   stopped, panicked, raced, faults>>

ShutdownClose ==
    /\ At("closeStop")
    /\ ended' = ended \cup {acceptStopCh} /\ panicked' = (panicked \/ acceptStopCh \in ended)
    /\ rpc' = "release"
    /\ UNCHANGED <<initial, after, alive, lifeVars, acceptStopCh, chans, resVars, peerVars, stunFailCount,
                   procVars, stopped, raced, faults>>

\* The allocation, the client and the connection, under resourceMu.
Release ==
    /\ At("release")
    /\ link' = [l \in Lives |-> IF l = client THEN "closed" ELSE link[l]]
    /\ client' = None /\ alloc' = FALSE /\ rpc' = after /\ after' = "loop"
    /\ UNCHANGED <<initial, alive, lifeVars, chanVars, peerVars, stunFailCount, procVars,
                   stopped, panicked, raced, faults>>

LoopAlive ==
    /\ At("loop") /\ alive /\ rpc' = "select"
    /\ UNCHANGED <<initial, after, alive, lifeVars, chanVars, resVars, peerVars, stunFailCount, procVars,
                   stopped, panicked, raced, faults>>

LoopDown == At("loop") /\ ~alive /\ Shutdown("down")

LoopStops ==
    /\ At("down") /\ rpc' = IF stopped THEN "done" ELSE "connect"
    /\ UNCHANGED <<initial, after, alive, lifeVars, chanVars, resVars, peerVars, stunFailCount, procVars,
                   stopped, panicked, raced, faults>>

SelectStop == At("select") /\ stopped /\ Shutdown("done")

SelectReconnect == At("select") /\ life \in signalled /\ Shutdown("loop")

\* Mutant: failed checks are counted, and nothing comes of it.
SelectStunIdle ==
    /\ At("select") /\ client # None
    /\ \/ link[client] = "open" /\ stunFailCount' = 0 /\ UNCHANGED faults
       \/ RequestFails(client) /\ stunFailCount' = 2
    /\ rpc' = "loop"
    /\ UNCHANGED <<initial, after, alive, lifeVars, chanVars, resVars, peerVars, procVars, stopped, panicked, raced>>

\* stunCtrlKeepMappedPort, every 30 s; its look at the client decides nothing.
SelectStun ==
    /\ At("select") /\ client # None
    /\ \/ link[client] = "open" /\ stunFailCount' = 0 /\ UNCHANGED <<alive, faults>>
       \/ RequestFails(client) /\ stunFailCount' = stunFailCount + 1
          /\ alive' = (alive /\ stunFailCount' < 2)
    /\ rpc' = "loop"
    /\ UNCHANGED <<initial, after, lifeVars, chanVars, resVars, peerVars, procVars, stopped, panicked, raced>>

SelectStunNil == At("select") /\ client = None /\ Panic

-----------------------------------------------------------------------------
(* acceptProc.                                                             *)

GoesTo(p, pc) == proc' = [proc EXCEPT ![p] = pc]
Exits(p) == GoesTo(p, "idle") /\ my' = [my EXCEPT ![p] = NoChannels]

\* The goroutine starts, and captures the channels of that moment.
Capture(p) ==
    /\ In(p, "new") /\ GoesTo(p, "top")
    /\ my' = [my EXCEPT ![p].stop = acceptStopCh, ![p].rec = life]
    /\ UNCHANGED <<runVars, alive, lifeVars, chanVars, resVars, peerVars, stunFailCount, stopped, panicked,
                   raced, faults>>

AcceptTop(p) ==
    /\ In(p, "top")
    /\ IF my[p].stop \in ended \/ ~alloc THEN Exits(p) ELSE GoesTo(p, "accept") /\ UNCHANGED my
    /\ UNCHANGED <<runVars, alive, lifeVars, chanVars, resVars, peerVars, stunFailCount, stopped, panicked,
                   raced, faults>>

\* A connection (piped to the local port by a goroutine of its own), a
\* deadline, or an error that is only waited out.
AcceptAgain(p) ==
    /\ In(p, "accept") /\ GoesTo(p, "top")
    /\ UNCHANGED <<runVars, alive, lifeVars, chanVars, resVars, peerVars, stunFailCount, my, stopped, panicked,
                   raced, faults>>

\* "failed to bind connection", or "connection reset by peer".
AcceptError(p) ==
    /\ In(p, "accept") /\ Fault
    /\ IF my[p].stop \in ended THEN Exits(p)
       ELSE UNCHANGED my /\ \E pc \in {"fatal", "reallocate"} : GoesTo(p, pc)
    /\ UNCHANGED <<runVars, alive, lifeVars, chanVars, resVars, peerVars, stunFailCount, stopped, panicked, raced>>

FatalState(p) ==
    /\ In(p, "fatal") /\ alive' = FALSE /\ GoesTo(p, "signal") /\ Overlaps
    /\ UNCHANGED <<runVars, lifeVars, chanVars, resVars, peerVars, stunFailCount, my, stopped, panicked, faults>>

\* close of the reconnectNow channel of life l.
CloseReconnect(l) == signalled' = signalled \cup {l} /\ panicked' = (panicked \/ l \in signalled)

FatalSignal(p) ==
    /\ In(p, "signal") /\ CloseReconnect(my[p].rec) /\ Exits(p)
    /\ UNCHANGED <<runVars, alive, life, chanVars, resVars, peerVars, stunFailCount, stopped, raced, faults>>

-----------------------------------------------------------------------------
(* reallocate, in the goroutine of an acceptProc.                          *)

\* reconnectNow is captured; the allocation is closed and the client taken.
Reallocate(p) ==
    /\ In(p, "reallocate")
    /\ IF client = None THEN Exits(p)
       ELSE GoesTo(p, "allocating") /\ my' = [my EXCEPT ![p].rec = life, ![p].client = client]
    /\ Collides(p)
    /\ UNCHANGED <<runVars, alive, lifeVars, chanVars, resVars, peerVars, stunFailCount, stopped, panicked, faults>>

ReallocState(p) ==
    /\ In(p, "allocating") /\ alive' = FALSE /\ GoesTo(p, "asked")
    /\ UNCHANGED <<runVars, lifeVars, chanVars, resVars, peerVars, stunFailCount, my, stopped, panicked,
                   raced, faults>>

ReallocFails(p) ==
    /\ In(p, "asked") /\ RequestFails(my[p].client)
    /\ alive' = FALSE /\ GoesTo(p, "drop")
    /\ UNCHANGED <<runVars, lifeVars, chanVars, resVars, peerVars, stunFailCount, my, stopped, panicked, raced>>

\* The allocation of ts goes, also when it is a newer one.
ReallocDrop(p) ==
    /\ In(p, "drop") /\ alloc' = FALSE /\ GoesTo(p, "failed")
    /\ UNCHANGED <<runVars, alive, lifeVars, chanVars, client, link, peerVars, stunFailCount, my, stopped,
                   panicked, raced, faults>>

ReallocSignal(p) ==
    /\ In(p, "failed") /\ Exits(p)
    /\ IF acceptStopCh \in ended THEN UNCHANGED <<signalled, panicked>> ELSE CloseReconnect(my[p].rec)
    /\ UNCHANGED <<runVars, alive, life, chanVars, resVars, peerVars, stunFailCount, stopped, raced, faults>>

ReallocCheck(p) ==
    /\ In(p, "asked") /\ link[my[p].client] = "open"
    /\ GoesTo(p, IF acceptStopCh \in ended THEN "renew" ELSE "close")
    /\ UNCHANGED <<runVars, alive, lifeVars, chanVars, resVars, peerVars, stunFailCount, my, stopped, panicked,
                   raced, faults>>

ReallocClose(p) ==
    /\ In(p, "close") /\ GoesTo(p, "renew")
    /\ ended' = ended \cup {acceptStopCh} /\ panicked' = (panicked \/ acceptStopCh \in ended)
    /\ UNCHANGED <<runVars, alive, lifeVars, acceptStopCh, chans, resVars, peerVars, stunFailCount, my, stopped,
                   raced, faults>>

ReallocRenew(p) ==
    /\ In(p, "renew") /\ chans < MaxChans /\ GoesTo(p, "store")
    /\ acceptStopCh' = chans + 1 /\ chans' = chans + 1
    /\ UNCHANGED <<runVars, alive, lifeVars, ended, resVars, peerVars, stunFailCount, my, stopped, panicked,
                   raced, faults>>

\* The new allocation, and an acceptProc for it.
ReallocStore(p) ==
    /\ In(p, "store") /\ FreeProcs # {}
    /\ alloc' = TRUE /\ proc' = [proc EXCEPT ![p] = "counters", ![Slot] = "new"]
    /\ UNCHANGED <<runVars, alive, lifeVars, chanVars, client, link, peerVars, stunFailCount, my, stopped,
                   panicked, raced, faults>>

ReallocCounters(p) ==
    /\ In(p, "counters") /\ GoesTo(p, "bind") /\ stunFailCount' = 0
    /\ UNCHANGED <<runVars, alive, lifeVars, chanVars, resVars, peerVars, my, stopped, panicked, raced, faults>>

\* No signal: the run loop finds out at the next STUN check.
ReallocBindFails(p) ==
    /\ In(p, "bind") /\ RequestFails(my[p].client)
    /\ alive' = FALSE /\ Exits(p)
    /\ UNCHANGED <<runVars, lifeVars, chanVars, resVars, peerVars, stunFailCount, stopped, panicked, raced>>

\* ts.conn is used, and the TurnPeer stopped when there is one.
ReallocBind(p) ==
    /\ In(p, "bind") /\ link[my[p].client] = "open"
    /\ GoesTo(p, "peer")
    /\ panicked' = (panicked \/ client = None \/ peer = "stopped")
    /\ peer' = IF peer = "none" THEN peer ELSE "stopped"
    /\ UNCHANGED <<runVars, alive, lifeVars, chanVars, resVars, peerLost, stunFailCount, my, stopped, raced, faults>>

ReallocPeer(p) ==
    /\ In(p, "peer") /\ GoesTo(p, "finish")
    /\ peer' = "running" /\ peerLost' = (peerLost \/ peer = "running")
    /\ UNCHANGED <<runVars, alive, lifeVars, chanVars, resVars, stunFailCount, my, stopped, panicked,
                   raced, faults>>

\* ts.conn is used once more, and the state is Alive, whatever it was.
ReallocFinish(p) ==
    /\ In(p, "finish") /\ Exits(p)
    /\ alive' = TRUE /\ panicked' = (panicked \/ client = None)
    /\ UNCHANGED <<runVars, lifeVars, chanVars, resVars, peerVars, stunFailCount, stopped, raced, faults>>

-----------------------------------------------------------------------------

\* The control connection breaks.
Break(l) ==
    /\ ~panicked /\ link[l] = "open" /\ Fault
    /\ link' = [link EXCEPT ![l] = "broken"]
    /\ UNCHANGED <<runVars, alive, lifeVars, chanVars, client, alloc, peerVars, stunFailCount, procVars,
                   stopped, panicked, raced>>

stop ==
    /\ ~panicked /\ ~stopped /\ stopped' = TRUE
    /\ UNCHANGED <<runVars, alive, lifeVars, chanVars, resVars, peerVars, stunFailCount, procVars, panicked,
                   raced, faults>>

RunLoop ==
    \/ Connect \/ DialStopped \/ DialFails \/ DialOk \/ AllocateFails \/ AllocateOk
    \/ ConnectCounters \/ ConnectAlive
    \/ BindingFails \/ Unbind \/ BindingOk \/ Returned \/ Backoff
    \/ LoopAlive \/ LoopDown \/ LoopStops \/ ShutdownPeer \/ ShutdownCheck \/ ShutdownClose \/ Release
    \/ SelectStop \/ SelectReconnect \/ SelectStun \/ SelectStunNil

acceptProc(p) ==
    \/ Capture(p) \/ AcceptTop(p) \/ AcceptAgain(p) \/ AcceptError(p)
    \/ FatalState(p) \/ FatalSignal(p)
    \/ Reallocate(p) \/ ReallocState(p) \/ ReallocFails(p) \/ ReallocDrop(p) \/ ReallocSignal(p)
    \/ ReallocCheck(p) \/ ReallocClose(p) \/ ReallocRenew(p) \/ ReallocStore(p) \/ ReallocCounters(p)
    \/ ReallocBindFails(p)
    \/ ReallocBind(p) \/ ReallocPeer(p) \/ ReallocFinish(p)

Next ==
    \/ RunLoop
    \/ \E p \in Procs : acceptProc(p)
    \/ \E l \in Lives : Break(l)
    \/ stop

Spec == Init /\ [][Next]_vars

\* Goroutines are scheduled, and select is fair to reconnectNow.
FairSpec ==
    /\ Spec
    /\ WF_vars(RunLoop) /\ SF_vars(SelectReconnect)
    /\ \A p \in Procs : WF_vars(acceptProc(p))

-----------------------------------------------------------------------------
(* Properties.                                                             *)

\* Unless the run loop raced an acceptProc, every control connection but the
\* current one, and the one connect is building, has been closed, except what a
\* dial brought after stop.  (When an acceptProc reports a fatal error before
\* connect returns, connectWithBackoff dials again over a connection that stands.)
OneControl ==
    raced \/ \A l \in Lives :
       link[l] \in {"open", "broken"} => l = client \/ (l = life /\ rpc = "allocate")

\* The only ways to a panic (a channel closed twice, a nil client or conn) or to
\* a lost TurnPeer are a connect or a shutdown under an acceptProc at work, a
\* connect that leaves behind an acceptProc nobody told to stop, and two
\* reallocates at a time: fatal errors, reallocations, failed checks, backoff and
\* stop one after the other, in any order, are safe.
SafeUnlessRaced == (panicked \/ peerLost) => raced

Serving ==
    /\ alive /\ alloc /\ \E l \in Lives : l = client /\ link[l] = "open"
    /\ \E p \in Procs : proc[p] \in {"new", "top", "accept"}

\* A bound keeps the run loop or a reallocate from going on.
Spent ==
    \/ rpc = "connect" /\ (life = MaxLives \/ chans = MaxChans)
    \/ rpc = "allocate" /\ FreeProcs = {}
    \/ \E p \in Procs : proc[p] = "renew" /\ chans = MaxChans
    \/ \E p \in Procs : proc[p] = "store" /\ FreeProcs = {}

\* The state is Alive and there is no allocation, and no acceptProc to miss it.
\* A reallocate whose request fails after the run loop has connected again takes
\* the new allocation, but signals the reconnectNow of the old lifecycle; connect
\* then sets Alive, and the STUN check succeeds ever after.
Orphaned == raced /\ alive /\ ~alloc

\* Every failure is noticed and repaired: again and again there is a client, an
\* allocation and an acceptProc for it, also after a reallocate that failed
\* without a signal, unless the process stops or a reallocate raced a connect and
\* has left the server Alive without an allocation.
Recovers == []<>(Serving \/ stopped \/ panicked \/ Spent \/ Orphaned)

\* The same without that exception, which the code does not keep: the comment at
\* turnpool.go:499 has reallocate replace the allocation of its own connection.
RecoversAnyway == []<>(Serving \/ stopped \/ panicked \/ Spent)

\* reallocate allocates the relay again and "keeps the control connection"
\* (turnpool.go:499).  Not so: it sets a state that is not TurnAlive, the run loop
\* takes that for a lost connection and shuts down under it, and a channel is
\* closed twice or a nil client used.
ControlKept == ~panicked

=============================================================================
