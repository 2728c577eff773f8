-------------------------- MODULE TurnServerProofs --------------------------
(***************************************************************************)
(* What holds of one TURN server for every number of connects, goroutines  *)
(* and faults: its control connections are released, and a panic or a lost *)
(* TurnPeer takes a race.  raced never becomes false again, so the         *)
(* invariant says something only of the states before.                     *)
(***************************************************************************)
EXTENDS TurnServer, TLAPS

\* The acceptProcs that hold a reconnectNow: they, or the ones they start, may close it.
Holding == {"new", "top", "accept", "fatal", "signal", "reallocate", "allocating", "asked",
            "drop", "failed", "close", "renew", "store"}

\* Where connect has started an acceptProc and shutdown has not begun.
Running == {"counters", "alive", "binding", "unbind", "returned", "backoff", "connect", "loop", "select"}

\* reallocate has taken the client.
Underway == Reallocating \ {"reallocate"}

Pcs == {"idle"} \cup Holding \cup Reallocating
Captured == [stop : 0 .. chans, rec : 0 .. life, client : 0 .. life]

\* What the argument needs of the types.
Flags == alive \in BOOLEAN /\ panicked \in BOOLEAN /\ peerLost \in BOOLEAN /\ raced \in BOOLEAN

Shape ==
    /\ after \in {"loop", "down", "done"}
    /\ life \in 0 .. MaxLives /\ signalled \in SUBSET (0 .. life)
    /\ chans \in Nat /\ acceptStopCh \in 0 .. chans /\ ended \in SUBSET (0 .. chans)
    /\ client \in 0 .. life /\ link \in [Lives -> {"none", "open", "broken", "closed", "leaked"}]
    /\ proc \in [Procs -> Pcs] /\ my \in [Procs -> Captured]

TypeOK == Flags /\ Shape

\* The life whose reconnectNow an acceptProc holds, or will capture.
Rec(p) == IF proc[p] = "new" THEN life ELSE my[p].rec

\* No two acceptProcs can close the same reconnectNow, and none a closed one.
OneHolder ==
    /\ \A p \in Procs : proc[p] \in Holding => Rec(p) \in 1 .. life /\ Rec(p) \notin signalled
    /\ \A p, q \in Procs : proc[p] \in Holding /\ proc[q] \in Holding /\ p # q => Rec(p) # Rec(q)

\* An acceptProc that nobody told to stop is the one of the current life and channel.
Told ==
    /\ \A p \in Procs : proc[p] \in Holding \ {"new"} /\ my[p].stop \notin ended
                        => my[p].stop = acceptStopCh /\ my[p].rec = life
    /\ \A p \in Procs : proc[p] = "new"
                        => acceptStopCh \notin ended
                           /\ rpc \in Running

\* connect starts from nothing that can signal it.
Fresh ==
    rpc \in {"dial", "allocate"} =>
       /\ life # 0 /\ life \notin signalled /\ acceptStopCh \notin ended
       /\ \A p \in Procs : proc[p] \in Holding => my[p].stop \in ended /\ Rec(p) # life
       /\ \A p \in Procs : proc[p] # "reallocate"

\* One reallocate at a time, while the run loop waits.
Alone ==
    /\ \A p \in Procs : proc[p] \in Underway =>
          /\ rpc \in {"loop", "select"} /\ client # None /\ my[p].client \in Lives
          /\ proc[p] \in Holding => my[p].rec = life
          /\ proc[p] \in Holding => (my[p].stop \in ended <=> proc[p] \in {"renew", "store"})
          /\ proc[p] = "store" => acceptStopCh \notin ended
    /\ \A p, q \in Procs : proc[p] \in Underway /\ proc[q] \in Underway => p = q
    /\ \A p \in Procs : proc[p] = "reallocate" /\ my[p].stop \in ended => rpc = "release" \/ client = None

\* What the run loop has at each of its steps.
Phase ==
    /\ alive => client # None
    /\ rpc = "select" => client # None
    /\ rpc \in {"peerStopped", "checkStop", "closeStop", "release", "unbind"} => ~alive
    /\ rpc \in {"checkStop", "closeStop", "release"} => peer = "none"
    /\ rpc = "closeStop" => acceptStopCh \notin ended
    /\ rpc \in {"down", "connect", "dial", "allocate", "backoff"} => client = None /\ peer = "none"
    /\ rpc \in {"counters", "alive", "binding", "unbind"} => client = life /\ life # 0 /\ peer = "none"
    /\ rpc = "binding" => alive
    /\ rpc = "returned" => alive \/ (client = None /\ peer = "none")

\* TurnPeer is stopped only on the way to being replaced.
PeerHeld ==
    /\ peer = "stopped" => rpc = "peerStopped" \/ \E p \in Procs : proc[p] = "peer"
    /\ \A p \in Procs : proc[p] = "peer" => peer # "running"

LinkHeld ==
    \A l \in Lives : link[l] \in {"open", "broken"} => l = client \/ (l = life /\ rpc = "allocate")

Quiet ==
    /\ ~panicked /\ ~peerLost
    /\ OneHolder /\ Told /\ Fresh /\ Alone /\ Phase /\ PeerHeld /\ LinkHeld

Inv == TypeOK /\ (raced \/ Quiet)

\* The flags stay Boolean.
LEMMA FlagsStep == ASSUME Flags, [Next]_vars PROVE Flags'
<1> USE DEF Flags, peerVars
<1>1. CASE Connect BY <1>1, Zenon DEF Connect
<1>2. CASE DialStopped BY <1>2, Zenon DEF DialStopped
<1>3. CASE DialFails BY <1>3, Zenon DEF DialFails
<1>4. CASE DialOk BY <1>4, Zenon DEF DialOk
<1>5. CASE AllocateFails BY <1>5, Zenon DEF AllocateFails
<1>6. CASE AllocateOk BY <1>6, Zenon DEF AllocateOk
<1>7. CASE BindingFails BY <1>7, Zenon DEF BindingFails, Races
<1>8. CASE BindingOk BY <1>8, Zenon DEF BindingOk, Races
<1>9. CASE Returned BY <1>9, Zenon DEF Returned
<1>10. CASE Backoff BY <1>10, Zenon DEF Backoff
<1>11. CASE LoopAlive BY <1>11, Zenon DEF LoopAlive
<1>12. CASE LoopDown BY <1>12, Zenon DEF LoopDown, Shutdown, Races
<1>13. CASE LoopStops BY <1>13, Zenon DEF LoopStops
<1>14. CASE ShutdownPeer BY <1>14, Zenon DEF ShutdownPeer
<1>15. CASE ShutdownClose BY <1>15, Zenon DEF ShutdownClose
<1>16. CASE Release BY <1>16, Zenon DEF Release
<1>17. CASE SelectStop BY <1>17, Zenon DEF SelectStop, Shutdown, Races
<1>18. CASE SelectReconnect BY <1>18, Zenon DEF SelectReconnect, Shutdown, Races
<1>19. CASE SelectStun BY <1>19, Zenon DEF SelectStun
<1>20. CASE SelectStunNil BY <1>20, Zenon DEF SelectStunNil, Panic
<1>21. ASSUME NEW p \in Procs, Capture(p) PROVE Flags'
  BY <1>21, Zenon DEF Capture
<1>22. ASSUME NEW p \in Procs, AcceptTop(p) PROVE Flags'
  BY <1>22, Zenon DEF AcceptTop
<1>23. ASSUME NEW p \in Procs, AcceptAgain(p) PROVE Flags'
  BY <1>23, Zenon DEF AcceptAgain
<1>24. ASSUME NEW p \in Procs, AcceptError(p) PROVE Flags'
  BY <1>24, Zenon DEF AcceptError
<1>25. ASSUME NEW p \in Procs, FatalState(p) PROVE Flags'
  BY <1>25, Zenon DEF FatalState, Overlaps
<1>26. ASSUME NEW p \in Procs, FatalSignal(p) PROVE Flags'
  BY <1>26, Zenon DEF FatalSignal, CloseReconnect
<1>27. ASSUME NEW p \in Procs, Reallocate(p) PROVE Flags'
  BY <1>27, Zenon DEF Reallocate, Collides
<1>28. ASSUME NEW p \in Procs, ReallocState(p) PROVE Flags'
  BY <1>28, Zenon DEF ReallocState
<1>29. ASSUME NEW p \in Procs, ReallocFails(p) PROVE Flags'
  BY <1>29, Zenon DEF ReallocFails
<1>30. ASSUME NEW p \in Procs, ReallocSignal(p) PROVE Flags'
  BY <1>30, Zenon DEF ReallocSignal, CloseReconnect
<1>31. ASSUME NEW p \in Procs, ReallocCheck(p) PROVE Flags'
  BY <1>31, Zenon DEF ReallocCheck
<1>32. ASSUME NEW p \in Procs, ReallocClose(p) PROVE Flags'
  BY <1>32, Zenon DEF ReallocClose
<1>33. ASSUME NEW p \in Procs, ReallocRenew(p) PROVE Flags'
  BY <1>33, Zenon DEF ReallocRenew
<1>34. ASSUME NEW p \in Procs, ReallocBindFails(p) PROVE Flags'
  BY <1>34, Zenon DEF ReallocBindFails
<1>35. ASSUME NEW p \in Procs, ReallocBind(p) PROVE Flags'
  BY <1>35, Zenon DEF ReallocBind
<1>36. ASSUME NEW p \in Procs, ReallocPeer(p) PROVE Flags'
  BY <1>36, Zenon DEF ReallocPeer
<1>37. ASSUME NEW p \in Procs, ReallocFinish(p) PROVE Flags'
  BY <1>37, Zenon DEF ReallocFinish
<1>38. CASE \E l \in Lives : Break(l) BY <1>38, Zenon DEF Break
<1>39. CASE stop BY <1>39, Zenon DEF stop
<1>40. CASE UNCHANGED vars BY <1>40, Zenon DEF vars
<1>41. CASE ConnectCounters BY <1>41, Zenon DEF ConnectCounters
<1>42. CASE ConnectAlive BY <1>42, Zenon DEF ConnectAlive
<1>43. CASE Unbind BY <1>43, Zenon DEF Unbind
<1>44. CASE ShutdownCheck BY <1>44, Zenon DEF ShutdownCheck
<1>45. ASSUME NEW p \in Procs, ReallocDrop(p) PROVE Flags'
  BY <1>45, Zenon DEF ReallocDrop
<1>46. ASSUME NEW p \in Procs, ReallocStore(p) PROVE Flags'
  BY <1>46, Zenon DEF ReallocStore
<1>47. ASSUME NEW p \in Procs, ReallocCounters(p) PROVE Flags'
  BY <1>47, Zenon DEF ReallocCounters
<1> QED BY <1>1, <1>2, <1>3, <1>4, <1>5, <1>6, <1>7, <1>8, <1>9, <1>10, <1>11, <1>12, <1>13, <1>14, <1>15,
          <1>16, <1>17, <1>18, <1>19, <1>20, <1>21, <1>22, <1>23, <1>24, <1>25, <1>26, <1>27, <1>28, <1>29,
          <1>30, <1>31, <1>32, <1>33, <1>34, <1>35, <1>36, <1>37, <1>38, <1>39, <1>40, <1>41, <1>42, <1>43, <1>44,
          <1>45, <1>46, <1>47 DEF Next, RunLoop, acceptProc

\* A race is never forgotten: no step of turnpool.go makes raced false.
LEMMA RacedStep == ASSUME Flags, raced, [Next]_vars PROVE raced'
<1> USE DEF Flags
<1>1. CASE Connect BY <1>1, Zenon DEF Connect
<1>2. CASE DialStopped BY <1>2, Zenon DEF DialStopped
<1>3. CASE DialFails BY <1>3, Zenon DEF DialFails
<1>4. CASE DialOk BY <1>4, Zenon DEF DialOk
<1>5. CASE AllocateFails BY <1>5, Zenon DEF AllocateFails
<1>6. CASE AllocateOk BY <1>6, Zenon DEF AllocateOk
<1>7. CASE BindingFails BY <1>7, Zenon DEF BindingFails, Races
<1>8. CASE BindingOk BY <1>8, Zenon DEF BindingOk, Races
<1>9. CASE Returned BY <1>9, Zenon DEF Returned
<1>10. CASE Backoff BY <1>10, Zenon DEF Backoff
<1>11. CASE LoopAlive BY <1>11, Zenon DEF LoopAlive
<1>12. CASE LoopDown BY <1>12, Zenon DEF LoopDown, Shutdown, Races
<1>13. CASE LoopStops BY <1>13, Zenon DEF LoopStops
<1>14. CASE ShutdownPeer BY <1>14, Zenon DEF ShutdownPeer
<1>15. CASE ShutdownClose BY <1>15, Zenon DEF ShutdownClose
<1>16. CASE Release BY <1>16, Zenon DEF Release
<1>17. CASE SelectStop BY <1>17, Zenon DEF SelectStop, Shutdown, Races
<1>18. CASE SelectReconnect BY <1>18, Zenon DEF SelectReconnect, Shutdown, Races
<1>19. CASE SelectStun BY <1>19, Zenon DEF SelectStun
<1>20. CASE SelectStunNil BY <1>20, Zenon DEF SelectStunNil, Panic
<1>21. ASSUME NEW p \in Procs, Capture(p) PROVE raced'
  BY <1>21, Zenon DEF Capture
<1>22. ASSUME NEW p \in Procs, AcceptTop(p) PROVE raced'
  BY <1>22, Zenon DEF AcceptTop
<1>23. ASSUME NEW p \in Procs, AcceptAgain(p) PROVE raced'
  BY <1>23, Zenon DEF AcceptAgain
<1>24. ASSUME NEW p \in Procs, AcceptError(p) PROVE raced'
  BY <1>24, Zenon DEF AcceptError
<1>25. ASSUME NEW p \in Procs, FatalState(p) PROVE raced'
  BY <1>25, Zenon DEF FatalState, Overlaps
<1>26. ASSUME NEW p \in Procs, FatalSignal(p) PROVE raced'
  BY <1>26, Zenon DEF FatalSignal, CloseReconnect
<1>27. ASSUME NEW p \in Procs, Reallocate(p) PROVE raced'
  BY <1>27, Zenon DEF Reallocate, Collides
<1>28. ASSUME NEW p \in Procs, ReallocState(p) PROVE raced'
  BY <1>28, Zenon DEF ReallocState
<1>29. ASSUME NEW p \in Procs, ReallocFails(p) PROVE raced'
  BY <1>29, Zenon DEF ReallocFails
<1>30. ASSUME NEW p \in Procs, ReallocSignal(p) PROVE raced'
  BY <1>30, Zenon DEF ReallocSignal, CloseReconnect
<1>31. ASSUME NEW p \in Procs, ReallocCheck(p) PROVE raced'
  BY <1>31, Zenon DEF ReallocCheck
<1>32. ASSUME NEW p \in Procs, ReallocClose(p) PROVE raced'
  BY <1>32, Zenon DEF ReallocClose
<1>33. ASSUME NEW p \in Procs, ReallocRenew(p) PROVE raced'
  BY <1>33, Zenon DEF ReallocRenew
<1>34. ASSUME NEW p \in Procs, ReallocBindFails(p) PROVE raced'
  BY <1>34, Zenon DEF ReallocBindFails
<1>35. ASSUME NEW p \in Procs, ReallocBind(p) PROVE raced'
  BY <1>35, Zenon DEF ReallocBind
<1>36. ASSUME NEW p \in Procs, ReallocPeer(p) PROVE raced'
  BY <1>36, Zenon DEF ReallocPeer
<1>37. ASSUME NEW p \in Procs, ReallocFinish(p) PROVE raced'
  BY <1>37, Zenon DEF ReallocFinish
<1>38. CASE \E l \in Lives : Break(l) BY <1>38, Zenon DEF Break
<1>39. CASE stop BY <1>39, Zenon DEF stop
<1>40. CASE UNCHANGED vars BY <1>40, Zenon DEF vars
<1>41. CASE ConnectCounters BY <1>41, Zenon DEF ConnectCounters
<1>42. CASE ConnectAlive BY <1>42, Zenon DEF ConnectAlive
<1>43. CASE Unbind BY <1>43, Zenon DEF Unbind
<1>44. CASE ShutdownCheck BY <1>44, Zenon DEF ShutdownCheck
<1>45. ASSUME NEW p \in Procs, ReallocDrop(p) PROVE raced'
  BY <1>45, Zenon DEF ReallocDrop
<1>46. ASSUME NEW p \in Procs, ReallocStore(p) PROVE raced'
  BY <1>46, Zenon DEF ReallocStore
<1>47. ASSUME NEW p \in Procs, ReallocCounters(p) PROVE raced'
  BY <1>47, Zenon DEF ReallocCounters
<1> QED BY <1>1, <1>2, <1>3, <1>4, <1>5, <1>6, <1>7, <1>8, <1>9, <1>10, <1>11, <1>12, <1>13, <1>14, <1>15,
          <1>16, <1>17, <1>18, <1>19, <1>20, <1>21, <1>22, <1>23, <1>24, <1>25, <1>26, <1>27, <1>28, <1>29,
          <1>30, <1>31, <1>32, <1>33, <1>34, <1>35, <1>36, <1>37, <1>38, <1>39, <1>40, <1>41, <1>42, <1>43, <1>44,
          <1>45, <1>46, <1>47 DEF Next, RunLoop, acceptProc

\* connect, where it does not race, finds no acceptProc that could signal the life
\* it begins: those left have been told to stop and hold older channels.
LEMMA ConnectStep == ASSUME Inv, ~raced', Connect PROVE Quiet'
<1> USE DEF Quiet, None
<1>1. /\ TypeOK /\ Quiet
      /\ life' = life + 1 /\ acceptStopCh' = chans + 1 /\ chans' = chans + 1
      /\ rpc = "connect" /\ rpc' = "dial" /\ ~alive'
      /\ UNCHANGED <<signalled, ended, client, link, peer, peerLost, proc, my, panicked>>
  BY DEF Inv, Connect, At, resVars, peerVars, procVars
<1>2. ~Outlived /\ \A p \in Procs : proc[p] \notin Reallocating \cup {"new"}
  BY DEF Connect
<1>3. \A p \in Procs : proc[p] \in Holding => proc[p] \in {"top", "accept", "fatal", "signal"}
  BY <1>2 DEF Holding, Reallocating
<1>4. \A p \in Procs : proc[p] \in Holding => my[p].stop \in ended
  BY <1>2, <1>3 DEF Outlived
<1>5. \A p \in Procs : proc[p] \in Holding =>
         Rec(p)' = Rec(p) /\ Rec(p) \in 1 .. life /\ Rec(p) \notin signalled
  BY <1>1, <1>2 DEF Rec, OneHolder
<1>6. OneHolder' BY <1>1, <1>5 DEF OneHolder, TypeOK, Shape
<1>7. Told' BY <1>1, <1>2, <1>4 DEF Told
<1>8. Fresh' 
  <2>1. life + 1 \notin signalled BY <1>1 DEF TypeOK, Shape, OneHolder
  <2> QED BY <1>1, <1>2, <1>4, <1>5 DEF Fresh, TypeOK, Shape, Reallocating
<1>9. Alone' BY <1>1, <1>2 DEF Alone, Underway, Reallocating
<1>10. Phase' BY <1>1 DEF Phase
<1>11. PeerHeld' BY <1>1 DEF PeerHeld, Phase
<1>12. LinkHeld' BY <1>1 DEF LinkHeld
<1> QED BY <1>1, <1>6, <1>7, <1>8, <1>9, <1>10, <1>11, <1>12

\* The acceptProc that connect starts is the only one that can signal this life.
LEMMA AllocateOkStep == ASSUME Inv, ~raced', AllocateOk PROVE Quiet'
<1> USE DEF Quiet, None
<1>1. /\ TypeOK /\ Quiet
      /\ rpc = "allocate" /\ rpc' = "counters" /\ client' = life
      /\ UNCHANGED <<alive, life, signalled, acceptStopCh, chans, ended, link, peer, peerLost, my, panicked>>
  BY DEF Inv, AllocateOk, At, lifeVars, chanVars, peerVars
<1>2. PICK s \in Procs : proc[s] = "idle" /\ proc' = [proc EXCEPT ![s] = "new"]
  BY DEF AllocateOk, Slot, FreeProcs
<1>3. \A p \in Procs : p # s => proc'[p] = proc[p] /\ Rec(p)' = Rec(p)
  BY <1>1, <1>2 DEF TypeOK, Shape, Rec
<1>4. proc'[s] = "new" /\ Rec(s)' = life
  BY <1>1, <1>2 DEF TypeOK, Shape, Rec
<1>5. \A p \in Procs : proc[p] # "new" /\ proc[p] \notin Reallocating
  BY <1>1 DEF Told, Alone, Fresh, Underway, Running
<1>6. OneHolder'
  <2>1. life \in 1 .. life /\ life \notin signalled BY <1>1 DEF Fresh, TypeOK, Shape
  <2> QED BY <1>1, <1>3, <1>4, <2>1 DEF OneHolder, Fresh
<1>7. Told'
  <2>1. acceptStopCh \notin ended BY <1>1 DEF Fresh
  <2> QED BY <1>1, <1>3, <1>4, <2>1 DEF Told, Running
<1>8. Fresh' BY <1>1 DEF Fresh
<1>9. Alone' BY <1>1, <1>3, <1>4, <1>5 DEF Alone, Underway, Reallocating
<1>10. Phase' BY <1>1 DEF Phase, Fresh
<1>11. PeerHeld' BY <1>1, <1>3, <1>4 DEF PeerHeld, Phase
<1>12. LinkHeld' BY <1>1 DEF LinkHeld, Phase, Lives
<1> QED BY <1>1, <1>6, <1>7, <1>8, <1>9, <1>10, <1>11, <1>12

\* The TurnPeer that connect makes replaces none.
LEMMA BindingOkStep == ASSUME Inv, ~raced', BindingOk PROVE Quiet'
<1> USE DEF Quiet, None
<1>1. /\ TypeOK /\ Quiet
      /\ rpc = "binding" /\ rpc' = "returned" /\ peer' = "running" /\ peerLost' = (peerLost \/ peer = "running")
      /\ UNCHANGED <<alive, life, signalled, acceptStopCh, chans, ended, client, link, proc, my, panicked>>
  BY DEF Inv, BindingOk, At, Races, lifeVars, chanVars, resVars, procVars
<1>2. \A p \in Procs : proc[p] \notin Reallocating BY DEF BindingOk, Races
<1>3. ~peerLost' BY <1>1 DEF Phase
<1>4. OneHolder' BY <1>1 DEF OneHolder, Rec
<1>5. Told' BY <1>1 DEF Told, Running
<1>6. Fresh' /\ Phase' BY <1>1 DEF Fresh, Phase
<1>7. Alone' BY <1>1, <1>2 DEF Alone, Underway, Reallocating
<1>8. PeerHeld' BY <1>1, <1>2 DEF PeerHeld, Reallocating
<1>9. LinkHeld' BY <1>1 DEF LinkHeld
<1> QED BY <1>1, <1>3, <1>4, <1>5, <1>6, <1>7, <1>8, <1>9

\* shutdown, where it does not race, stops a TurnPeer that is running or none.
LEMMA ShutdownStep ==
    ASSUME Inv, ~raced', ~panicked, rpc \in {"loop", "select"}, NEW next, Shutdown(next)
    PROVE  Quiet'
<1> USE DEF Quiet, None
<1>1. /\ TypeOK /\ Quiet
      /\ rpc' = (IF peer = "none" THEN "checkStop" ELSE "peerStopped")
      /\ ~alive' /\ peer' = (IF peer = "none" THEN peer ELSE "stopped")
      /\ UNCHANGED <<life, signalled, acceptStopCh, chans, ended, client, link, peerLost, proc, my>>
  BY DEF Inv, Shutdown, Races, lifeVars, chanVars, resVars, procVars
<1>2. \A p \in Procs : proc[p] \notin Reallocating \cup {"new"} BY DEF Shutdown, Races
<1>3. ~panicked'
  <2>1. peer # "stopped" BY <1>1, <1>2 DEF PeerHeld, Reallocating
  <2> QED BY <2>1 DEF Shutdown
<1>4. OneHolder' BY <1>1 DEF OneHolder, Rec
<1>5. Told' BY <1>1, <1>2 DEF Told
<1>6. Fresh' /\ Phase' BY <1>1 DEF Fresh, Phase
<1>7. Alone' BY <1>1, <1>2 DEF Alone, Underway, Reallocating
<1>8. PeerHeld' BY <1>1, <1>2 DEF PeerHeld, Reallocating
<1>9. LinkHeld' BY <1>1 DEF LinkHeld
<1> QED BY <1>1, <1>3, <1>4, <1>5, <1>6, <1>7, <1>8, <1>9

\* acceptProc captures the channels it was started for.
LEMMA CaptureStep == ASSUME Inv, ~raced', NEW p \in Procs, Capture(p) PROVE Quiet'
<1> USE DEF Quiet, None
<1>1. /\ TypeOK /\ Quiet /\ proc[p] = "new"
      /\ UNCHANGED <<rpc, alive, life, signalled, acceptStopCh, chans, ended, client, link, peer,
                peerLost, panicked>>
  BY DEF Inv, Capture, In, runVars, lifeVars, chanVars, resVars, peerVars
<1>a. /\ proc' = [proc EXCEPT ![p] = "top"]
      /\ my' = [my EXCEPT ![p].stop = acceptStopCh, ![p].rec = life]
  BY DEF Capture, GoesTo
<1>2. \A q \in Procs : q # p => proc'[q] = proc[q] /\ my'[q] = my[q] /\ Rec(q)' = Rec(q)
  BY <1>1, <1>a DEF TypeOK, Shape, Rec
<1>3. proc'[p] = "top" /\ my'[p].stop = acceptStopCh /\ my'[p].rec = life /\ Rec(p) = life /\ Rec(p)' = life
  BY <1>1, <1>a DEF TypeOK, Shape, Rec
<1>4. OneHolder' BY <1>1, <1>2, <1>3 DEF OneHolder, Holding
<1>5. Told' BY <1>1, <1>2, <1>3 DEF Told
<1>6. Fresh' BY <1>1 DEF Fresh, Told, Running
<1>7. Alone' BY <1>1, <1>2, <1>3 DEF Alone, Underway, Reallocating
<1>8. Phase' BY <1>1 DEF Phase
<1>9. PeerHeld' BY <1>1, <1>2, <1>3 DEF PeerHeld
<1>10. LinkHeld' BY <1>1 DEF LinkHeld
<1> QED BY <1>1, <1>4, <1>5, <1>6, <1>7, <1>8, <1>9, <1>10

\* An acceptProc exits, maybe after closing the reconnectNow it holds.
LEMMA ExitStep ==
    ASSUME TypeOK, Quiet, NEW p \in Procs, Exits(p), proc[p] # "peer",
           \/ UNCHANGED signalled
           \/ proc[p] \in Holding \ {"new"} /\ signalled' = signalled \cup {my[p].rec},
           UNCHANGED <<rpc, life, acceptStopCh, chans, ended, client, link, peer, peerLost>>,
           ~panicked', Phase'
    PROVE  Quiet'
<1> USE DEF Quiet, None
<1>1. \A q \in Procs : q # p => proc'[q] = proc[q] /\ my'[q] = my[q] /\ Rec(q)' = Rec(q)
  BY DEF TypeOK, Shape, Rec, Exits, GoesTo
<1>2. proc'[p] = "idle" BY DEF TypeOK, Shape, Exits, GoesTo
<1>3. UNCHANGED signalled \/ (proc[p] \in Holding /\ signalled' = signalled \cup {Rec(p)})
  BY DEF Rec
<1>4. OneHolder' BY <1>1, <1>2, <1>3 DEF OneHolder, Holding
<1>5. Told' BY <1>1, <1>2 DEF Told, Holding
<1>6. Fresh' BY <1>1, <1>2, <1>3 DEF Fresh, Holding
<1>7. Alone' BY <1>1, <1>2 DEF Alone, Underway, Reallocating
<1>8. PeerHeld' BY <1>1, <1>2 DEF PeerHeld
<1>9. LinkHeld' BY DEF LinkHeld
<1> QED BY <1>4, <1>5, <1>6, <1>7, <1>8, <1>9

\* An acceptProc goes on listening, or turns to what it has heard.
LEMMA ListenStep ==
    ASSUME TypeOK, Quiet, NEW p \in Procs, NEW pc \in {"top", "accept", "fatal", "signal", "reallocate"},
           GoesTo(p, pc), proc[p] \in {"top", "accept", "fatal"},
           pc = "reallocate" => my[p].stop \notin ended,
           UNCHANGED <<rpc, life, signalled, acceptStopCh, chans, ended, client, link, peer, peerLost,
                       panicked, my>>,
           Phase'
    PROVE  Quiet'
<1> USE DEF Quiet, None
<1>1. \A q \in Procs : q # p => proc'[q] = proc[q] /\ Rec(q)' = Rec(q)
  BY DEF TypeOK, Shape, Rec, GoesTo
<1>2. proc'[p] = pc /\ Rec(p)' = Rec(p) BY DEF TypeOK, Shape, GoesTo, Rec
<1>3. OneHolder' BY <1>1, <1>2 DEF OneHolder, Holding
<1>4. Told' BY <1>1, <1>2 DEF Told, Holding
<1>5. Fresh' BY <1>1, <1>2 DEF Fresh, Holding
<1>6. Alone' BY <1>1, <1>2 DEF Alone, Underway, Reallocating
<1>7. PeerHeld' BY <1>1, <1>2 DEF PeerHeld
<1>8. LinkHeld' BY DEF LinkHeld
<1> QED BY <1>3, <1>4, <1>5, <1>6, <1>7, <1>8

\* A reallocate under way goes on, and closes nothing.
LEMMA MoveStep ==
    ASSUME TypeOK, Quiet, NEW p \in Procs, NEW pc \in Underway, GoesTo(p, pc), proc[p] \in Underway,
           pc \in Holding => proc[p] \in Holding,
           proc[p] \notin {"renew", "store"}, pc \notin {"renew", "store"},
           UNCHANGED <<rpc, life, signalled, acceptStopCh, chans, ended, client, link, my>>,
           ~panicked', ~peerLost', Phase', PeerHeld'
    PROVE  Quiet'
<1> USE DEF Quiet, None
<1>1. \A q \in Procs : q # p => proc'[q] = proc[q] /\ Rec(q)' = Rec(q)
  BY DEF TypeOK, Shape, Rec, GoesTo
<1>2. proc'[p] = pc /\ pc # "new" /\ pc # "reallocate" /\ proc[p] # "new" /\ Rec(p)' = Rec(p)
  BY DEF TypeOK, Shape, GoesTo, Rec, Underway, Reallocating
<1>3. OneHolder' BY <1>1, <1>2 DEF OneHolder
<1>4. Told' BY <1>1, <1>2 DEF Told
<1>5. Fresh' BY <1>1, <1>2 DEF Fresh
<1>6. Alone' BY <1>1, <1>2 DEF Alone
<1>7. LinkHeld' BY DEF LinkHeld
<1> QED BY <1>3, <1>4, <1>5, <1>6, <1>7

\* A reallocate that is not at its TurnPeer leaves what is held of it.
LEMMA PeerMoves ==
    ASSUME TypeOK, PeerHeld, NEW p \in Procs, NEW pc, GoesTo(p, pc), proc[p] # "peer", pc # "peer",
           UNCHANGED <<rpc, peer>>
    PROVE  PeerHeld'
<1>1. \A q \in Procs : proc'[q] = "peer" <=> proc[q] = "peer" BY DEF GoesTo, TypeOK, Shape
<1> QED BY <1>1 DEF PeerHeld

\* reallocate closes a channel that is open, and that no other acceptProc listens to.
LEMMA CloseStep == ASSUME Inv, ~raced', NEW p \in Procs, ReallocClose(p) PROVE Quiet'
<1> USE DEF Quiet, None
<1>1. /\ TypeOK /\ Quiet /\ proc[p] = "close" /\ proc' = [proc EXCEPT ![p] = "renew"]
      /\ ended' = ended \cup {acceptStopCh} /\ panicked' = (panicked \/ acceptStopCh \in ended)
      /\ UNCHANGED <<rpc, alive, life, signalled, acceptStopCh, chans, client, link, peer, peerLost, my>>
  BY DEF Inv, ReallocClose, In, GoesTo, runVars, lifeVars, resVars, peerVars
<1>2. \A q \in Procs : q # p => proc'[q] = proc[q] /\ Rec(q)' = Rec(q)
  BY <1>1 DEF TypeOK, Shape, Rec
<1>3. proc'[p] = "renew" /\ Rec(p)' = Rec(p) BY <1>1 DEF TypeOK, Shape, Rec
<1>4. /\ rpc \in {"loop", "select"} /\ client # None /\ Rec(p) = life
      /\ my[p].stop \notin ended /\ my[p].stop = acceptStopCh
  BY <1>1 DEF Alone, Told, Underway, Reallocating, Holding, Rec
<1>5. \A q \in Procs \ {p} : proc[q] \in Holding => Rec(q) # life /\ proc[q] # "new"
  BY <1>1, <1>4 DEF OneHolder, Holding, Rec
<1>6. \A q \in Procs \ {p} : proc[q] \in Holding => my[q].stop \in ended
  BY <1>1, <1>5 DEF Told, Rec
<1>7. OneHolder' BY <1>1, <1>2, <1>3 DEF OneHolder, Holding
<1>8. Told' BY <1>1, <1>2, <1>3, <1>4, <1>5, <1>6 DEF Told, Holding
<1>9. Fresh' /\ Phase' BY <1>1, <1>4 DEF Fresh, Phase
<1>10. Alone'
  <2>1. \A q \in Procs : q # p => proc'[q] \notin Underway
    BY <1>1, <1>2 DEF Alone, Underway, Reallocating
  <2>2. \A q \in Procs : proc'[q] = "reallocate" => q # p /\ my[q].stop \in ended
    BY <1>2, <1>3, <1>6 DEF Holding
  <2> QED BY <1>1, <1>2, <1>3, <1>4, <2>1, <2>2 DEF Alone, Holding, Underway, Reallocating
<1>11. PeerHeld' BY <1>1, PeerMoves DEF GoesTo
<1>12. LinkHeld' BY <1>1 DEF LinkHeld
<1> QED BY <1>1, <1>4, <1>7, <1>8, <1>9, <1>10, <1>11, <1>12

\* reallocate, where it does not collide, starts in the acceptProc of the current
\* life, or finds no client.
LEMMA ReallocateStep == ASSUME Inv, ~raced', NEW p \in Procs, Reallocate(p) PROVE Quiet'
<1> USE DEF Quiet, None
<1>1. /\ TypeOK /\ Quiet /\ proc[p] = "reallocate" /\ rpc \in {"loop", "select"}
      /\ \A q \in Procs : q # p => proc[q] \notin Underway
      /\ UNCHANGED <<rpc, alive, life, signalled, acceptStopCh, chans, ended, client, link, peer,
                peerLost, panicked>>
  BY DEF Inv, Reallocate, In, Collides, Underway, runVars, lifeVars, chanVars, resVars, peerVars
<1>2. CASE client = None
  <2>1. Phase' BY <1>1 DEF Phase
  <2> QED BY <1>1, <1>2, <2>1, ExitStep DEF Reallocate
<1>3. CASE client # None
  <2>1. /\ proc' = [proc EXCEPT ![p] = "allocating"]
        /\ my' = [my EXCEPT ![p].rec = life, ![p].client = client]
    BY <1>3 DEF Reallocate, GoesTo
  <2>2. my[p].stop \notin ended BY <1>1, <1>3 DEF Alone
  <2>3. my[p].stop = acceptStopCh /\ my[p].rec = life BY <1>1, <2>2 DEF Told, Holding
  <2>4. \A q \in Procs : q # p => proc'[q] = proc[q] /\ my'[q] = my[q] /\ Rec(q)' = Rec(q)
    BY <1>1, <2>1 DEF TypeOK, Shape, Rec
  <2>5. /\ proc'[p] = "allocating" /\ my'[p].stop = my[p].stop /\ my'[p].rec = life
        /\ my'[p].client = client /\ Rec(p) = life /\ Rec(p)' = life
    BY <1>1, <2>1, <2>3 DEF TypeOK, Shape, Rec
  <2>6. OneHolder'
    <3>1. \A q \in Procs : Rec(q)' = Rec(q) BY <2>4, <2>5
    <3>2. \A q \in Procs : proc'[q] \in Holding => proc[q] \in Holding BY <1>1, <2>4 DEF Holding
    <3> QED BY <1>1, <3>1, <3>2 DEF OneHolder
  <2>7. Told' BY <1>1, <2>3, <2>4, <2>5 DEF Told
  <2>8. Fresh' /\ Phase' BY <1>1 DEF Fresh, Phase
  <2>9. client \in Lives BY <1>1, <1>3, TurnServerAssumption DEF TypeOK, Shape, Lives
  <2>10. Alone' BY <1>1, <1>3, <2>2, <2>4, <2>5, <2>9 DEF Alone, Underway, Reallocating
  <2>11. PeerHeld' BY <1>1, <2>4, <2>5 DEF PeerHeld
  <2>12. LinkHeld' BY <1>1 DEF LinkHeld
  <2> QED BY <1>1, <2>6, <2>7, <2>8, <2>10, <2>11, <2>12
<1> QED BY <1>2, <1>3

\* reallocate makes a new acceptStopCh once the one before is closed.
LEMMA ReallocRenewStep == ASSUME Inv, ~raced', NEW p \in Procs, ReallocRenew(p) PROVE Quiet'
<1> USE DEF Quiet, None
<1>1. /\ TypeOK /\ Quiet /\ proc[p] = "renew" /\ proc' = [proc EXCEPT ![p] = "store"]
      /\ acceptStopCh' = chans + 1 /\ chans' = chans + 1
      /\ UNCHANGED <<rpc, alive, life, signalled, ended, client, link, peer, peerLost, panicked, my>>
  BY DEF Inv, ReallocRenew, In, GoesTo, runVars, lifeVars, resVars, peerVars
<1>2. \A q \in Procs : q # p => proc'[q] = proc[q] /\ Rec(q)' = Rec(q)
  BY <1>1 DEF TypeOK, Shape, Rec
<1>3. proc'[p] = "store" /\ Rec(p)' = Rec(p) BY <1>1 DEF TypeOK, Shape, Rec
<1>4. rpc \in {"loop", "select"} /\ Rec(p) = life /\ my[p].stop \in ended
  BY <1>1 DEF Alone, Underway, Reallocating, Holding, Rec
<1>5. \A q \in Procs \ {p} : proc[q] \in Holding => Rec(q) # life /\ proc[q] # "new"
  BY <1>1, <1>4 DEF OneHolder, Holding, Rec
<1>6. \A q \in Procs : proc[q] \in Holding => my[q].stop \in ended
  BY <1>1, <1>4, <1>5 DEF Told, Rec
<1>7. chans + 1 \notin ended BY <1>1 DEF TypeOK, Shape
<1>8. OneHolder' BY <1>1, <1>2, <1>3 DEF OneHolder, Holding
<1>9. Told'
  <2>1. \A q \in Procs : proc'[q] \in Holding => my'[q].stop \in ended' /\ proc'[q] # "new"
    BY <1>1, <1>2, <1>3, <1>5, <1>6 DEF Holding
  <2> QED BY <2>1 DEF Told, Holding
<1>10. Fresh' /\ Phase' BY <1>1, <1>4 DEF Fresh, Phase
<1>11. Alone' BY <1>1, <1>2, <1>3, <1>4, <1>7 DEF Alone, Underway, Reallocating, Holding
<1>12. PeerHeld' BY <1>1, PeerMoves DEF GoesTo
<1>13. LinkHeld' BY <1>1 DEF LinkHeld
<1> QED BY <1>1, <1>8, <1>9, <1>10, <1>11, <1>12, <1>13

\* The acceptProc that reallocate starts takes over the reconnectNow of the one
\* that starts it.
LEMMA ReallocStoreStep == ASSUME Inv, ~raced', NEW p \in Procs, ReallocStore(p) PROVE Quiet'
<1> USE DEF Quiet, None
<1>1. /\ TypeOK /\ Quiet /\ proc[p] = "store"
      /\ UNCHANGED <<rpc, alive, life, signalled, acceptStopCh, chans, ended, client, link, peer, peerLost,
                     panicked, my>>
  BY DEF Inv, ReallocStore, In, runVars, lifeVars, chanVars, peerVars
<1>2. PICK s \in Procs : proc[s] = "idle" /\ proc' = [proc EXCEPT ![p] = "counters", ![s] = "new"]
  BY DEF ReallocStore, Slot, FreeProcs
<1>3. /\ s # p /\ proc'[p] = "counters" /\ proc'[s] = "new" /\ Rec(s)' = life
      /\ \A q \in Procs \ {p, s} : proc'[q] = proc[q] /\ Rec(q)' = Rec(q)
  BY <1>1, <1>2 DEF TypeOK, Shape, Rec
<1>4. rpc \in {"loop", "select"} /\ Rec(p) = life /\ acceptStopCh \notin ended
  BY <1>1 DEF Alone, Underway, Reallocating, Holding, Rec
<1>5. \A q \in Procs \ {p} : proc[q] \in Holding => Rec(q) # life /\ proc[q] # "new"
  BY <1>1, <1>4 DEF OneHolder, Holding, Rec
<1>6. OneHolder' BY <1>1, <1>3, <1>4, <1>5 DEF OneHolder, Holding
<1>7. Told' BY <1>1, <1>3, <1>4, <1>5 DEF Told, Holding, Running
<1>8. Fresh' /\ Phase' BY <1>1, <1>4 DEF Fresh, Phase
<1>9. Alone' BY <1>1, <1>3 DEF Alone, Underway, Reallocating, Holding
<1>10. PeerHeld'
  <2>1. \A q \in Procs : proc[q] = "peer" => proc'[q] = "peer" BY <1>1, <1>2, <1>3
  <2>2. \A q \in Procs : proc'[q] = "peer" => proc[q] = "peer" BY <1>3
  <2> QED BY <1>1, <2>1, <2>2 DEF PeerHeld
<1>11. LinkHeld' BY <1>1 DEF LinkHeld
<1> QED BY <1>1, <1>6, <1>7, <1>8, <1>9, <1>10, <1>11

\* The run loop moves on between connect and shutdown, and leaves channels and
\* goroutines alone.
LEMMA RunMoves ==
    ASSUME TypeOK, Quiet, ~panicked', ~peerLost', Phase', PeerHeld', LinkHeld',
           UNCHANGED <<life, signalled, acceptStopCh, chans, ended, proc, my>>,
           rpc' \in {"dial", "allocate"} => rpc \in {"dial", "allocate"},
           rpc \in Running => rpc' \in Running,
           rpc \in {"loop", "select"} => rpc' \in {"loop", "select"} /\ client' = client,
           client' = None \/ (client' = client /\ rpc # "release")
    PROVE  Quiet'
<1> USE DEF Quiet
<1>1. OneHolder' BY DEF OneHolder, Rec
<1>2. Told' BY DEF Told
<1>3. Fresh' BY DEF Fresh, Rec
<1>4. Alone' BY DEF Alone
<1> QED BY <1>1, <1>2, <1>3, <1>4

\* A step of the run loop that does not race keeps the invariant.
LEMMA RunLoopStep == ASSUME Inv, ~raced', RunLoop PROVE Quiet'
<1> USE DEF At, runVars, lifeVars, chanVars, resVars, peerVars, procVars
<1>1. TypeOK /\ (raced \/ Quiet) BY DEF Inv
<1>2. raced => raced' BY <1>1, RacedStep DEF TypeOK, Next
<1>3. Quiet BY <1>1, <1>2
<1>4. ~panicked /\ ~peerLost /\ Phase /\ PeerHeld /\ LinkHeld BY <1>3 DEF Quiet
<1>5. CASE DialStopped
  <2>1. Phase' BY <1>4, <1>5 DEF DialStopped, Phase, None
  <2>2. PeerHeld' BY <1>4, <1>5 DEF DialStopped, PeerHeld, Phase
  <2>3. LinkHeld' BY <1>1, <1>4, <1>5 DEF DialStopped, LinkHeld, Phase, TypeOK, Shape, Lives, None
  <2> QED BY <1>1, <1>3, <1>4, <1>5, <2>1, <2>2, <2>3, RunMoves DEF DialStopped, Phase, None, Running
<1>6. CASE DialFails
  <2>1. Phase' BY <1>4, <1>6 DEF DialFails, Phase, None
  <2>2. PeerHeld' BY <1>4, <1>6 DEF DialFails, PeerHeld, Phase
  <2>3. LinkHeld' BY <1>1, <1>4, <1>6 DEF DialFails, LinkHeld, Phase, TypeOK, Shape, Lives, None
  <2> QED BY <1>1, <1>3, <1>4, <1>6, <2>1, <2>2, <2>3, RunMoves DEF DialFails, Phase, None, Running
<1>7. CASE DialOk
  <2>1. Phase' BY <1>4, <1>7 DEF DialOk, Phase, None
  <2>2. PeerHeld' BY <1>4, <1>7 DEF DialOk, PeerHeld, Phase
  <2>3. LinkHeld' BY <1>1, <1>4, <1>7 DEF DialOk, LinkHeld, Phase, TypeOK, Shape, Lives, None
  <2> QED BY <1>1, <1>3, <1>4, <1>7, <2>1, <2>2, <2>3, RunMoves DEF DialOk, Phase, None, Running
<1>8. CASE AllocateFails
  <2>1. Phase' BY <1>4, <1>8 DEF AllocateFails, Phase, None
  <2>2. PeerHeld' BY <1>4, <1>8 DEF AllocateFails, PeerHeld, Phase
  <2>3. LinkHeld' BY <1>1, <1>4, <1>8 DEF AllocateFails, LinkHeld, Phase, TypeOK, Shape, Lives, None
  <2> QED BY <1>1, <1>3, <1>4, <1>8, <2>1, <2>2, <2>3, RunMoves DEF AllocateFails, Phase, None, Running
<1>9. CASE BindingFails
  <2>1. Phase' BY <1>4, <1>9 DEF BindingFails, Phase, None
  <2>2. PeerHeld' BY <1>4, <1>9 DEF BindingFails, PeerHeld, Phase
  <2>3. LinkHeld' BY <1>1, <1>4, <1>9 DEF BindingFails, LinkHeld, Phase, TypeOK, Shape, Lives, None
  <2> QED BY <1>1, <1>3, <1>4, <1>9, <2>1, <2>2, <2>3, RunMoves DEF BindingFails, Phase, None, Running
<1>10. CASE Returned
  <2>1. Phase' BY <1>4, <1>10 DEF Returned, Phase, None
  <2>2. PeerHeld' BY <1>4, <1>10 DEF Returned, PeerHeld, Phase
  <2>3. LinkHeld' BY <1>1, <1>4, <1>10 DEF Returned, LinkHeld, Phase, TypeOK, Shape, Lives, None
  <2> QED BY <1>1, <1>3, <1>4, <1>10, <2>1, <2>2, <2>3, RunMoves DEF Returned, Phase, None, Running
<1>11. CASE Backoff
  <2>1. Phase' BY <1>4, <1>11 DEF Backoff, Phase, None
  <2>2. PeerHeld' BY <1>4, <1>11 DEF Backoff, PeerHeld, Phase
  <2>3. LinkHeld' BY <1>1, <1>4, <1>11 DEF Backoff, LinkHeld, Phase, TypeOK, Shape, Lives, None
  <2> QED BY <1>1, <1>3, <1>4, <1>11, <2>1, <2>2, <2>3, RunMoves DEF Backoff, Phase, None, Running
<1>12. CASE LoopAlive
  <2>1. Phase' BY <1>4, <1>12 DEF LoopAlive, Phase, None
  <2>2. PeerHeld' BY <1>4, <1>12 DEF LoopAlive, PeerHeld, Phase
  <2>3. LinkHeld' BY <1>1, <1>4, <1>12 DEF LoopAlive, LinkHeld, Phase, TypeOK, Shape, Lives, None
  <2> QED BY <1>1, <1>3, <1>4, <1>12, <2>1, <2>2, <2>3, RunMoves DEF LoopAlive, Phase, None, Running
<1>13. CASE LoopStops
  <2>1. Phase' BY <1>4, <1>13 DEF LoopStops, Phase, None
  <2>2. PeerHeld' BY <1>4, <1>13 DEF LoopStops, PeerHeld, Phase
  <2>3. LinkHeld' BY <1>1, <1>4, <1>13 DEF LoopStops, LinkHeld, Phase, TypeOK, Shape, Lives, None
  <2> QED BY <1>1, <1>3, <1>4, <1>13, <2>1, <2>2, <2>3, RunMoves DEF LoopStops, Phase, None, Running
<1>14. CASE ShutdownPeer
  <2>1. Phase' BY <1>4, <1>14 DEF ShutdownPeer, Phase, None
  <2>2. PeerHeld' BY <1>4, <1>14 DEF ShutdownPeer, PeerHeld, Phase
  <2>3. LinkHeld' BY <1>1, <1>4, <1>14 DEF ShutdownPeer, LinkHeld, Phase, TypeOK, Shape, Lives, None
  <2> QED BY <1>1, <1>3, <1>4, <1>14, <2>1, <2>2, <2>3, RunMoves DEF ShutdownPeer, Phase, None, Running
<1>15. CASE Release
  <2>a. after \in {"loop", "down", "done"} BY <1>1 DEF TypeOK, Shape
  <2>1. Phase' BY <1>4, <1>15, <2>a DEF Release, Phase, None
  <2>2. PeerHeld' BY <1>4, <1>15 DEF Release, PeerHeld, Phase
  <2>3. LinkHeld' BY <1>1, <1>4, <1>15 DEF Release, LinkHeld, Phase, TypeOK, Shape, Lives, None
  <2> QED BY <1>1, <1>3, <1>4, <1>15, <2>a, <2>1, <2>2, <2>3, RunMoves DEF Release, Phase, None, Running
<1>16. CASE SelectStun
  <2>1. Phase' BY <1>4, <1>16 DEF SelectStun, Phase, None
  <2>2. PeerHeld' BY <1>4, <1>16 DEF SelectStun, PeerHeld, Phase
  <2>3. LinkHeld' BY <1>1, <1>4, <1>16 DEF SelectStun, LinkHeld, Phase, TypeOK, Shape, Lives, None
  <2> QED BY <1>1, <1>3, <1>4, <1>16, <2>1, <2>2, <2>3, RunMoves DEF SelectStun, Phase, None, Running
<1>17. CASE ShutdownClose
  <2>1. ~panicked' BY <1>4, <1>17 DEF ShutdownClose, Phase
  <2>2. Phase' BY <1>4, <1>17 DEF ShutdownClose, Phase
  <2>3. PeerHeld' /\ LinkHeld' BY <1>4, <1>17 DEF ShutdownClose, PeerHeld, LinkHeld
  <2>4. OneHolder' BY <1>3, <1>17 DEF ShutdownClose, Quiet, OneHolder, Rec
  <2>5. Told' BY <1>3, <1>17 DEF ShutdownClose, Quiet, Told, Running
  <2>6. Fresh' BY <1>17 DEF ShutdownClose, Fresh
  <2>7. Alone' BY <1>3, <1>17 DEF ShutdownClose, Quiet, Alone
  <2> QED BY <1>4, <1>17, <2>1, <2>2, <2>3, <2>4, <2>5, <2>6, <2>7 DEF Quiet, ShutdownClose
<1>18. CASE SelectStunNil BY <1>4, <1>18 DEF SelectStunNil, Phase
<1>19. CASE LoopDown BY <1>19, ShutdownStep DEF LoopDown
<1>20. CASE SelectStop BY <1>20, ShutdownStep DEF SelectStop
<1>21. CASE SelectReconnect BY <1>21, ShutdownStep DEF SelectReconnect
<1>22. CASE ConnectCounters
  <2>1. Phase' BY <1>4, <1>22 DEF ConnectCounters, Phase, None
  <2>2. PeerHeld' BY <1>4, <1>22 DEF ConnectCounters, PeerHeld, Phase
  <2>3. LinkHeld' BY <1>1, <1>4, <1>22 DEF ConnectCounters, LinkHeld, Phase, TypeOK, Shape, Lives, None
  <2> QED BY <1>1, <1>3, <1>4, <1>22, <2>1, <2>2, <2>3, RunMoves DEF ConnectCounters, Phase, None, Running
<1>23. CASE ConnectAlive
  <2>1. Phase' BY <1>4, <1>23 DEF ConnectAlive, Phase, None
  <2>2. PeerHeld' BY <1>4, <1>23 DEF ConnectAlive, PeerHeld, Phase
  <2>3. LinkHeld' BY <1>1, <1>4, <1>23 DEF ConnectAlive, LinkHeld, Phase, TypeOK, Shape, Lives, None
  <2> QED BY <1>1, <1>3, <1>4, <1>23, <2>1, <2>2, <2>3, RunMoves DEF ConnectAlive, Phase, None, Running
<1>24. CASE Unbind
  <2>1. Phase' BY <1>4, <1>24 DEF Unbind, Phase, None
  <2>2. PeerHeld' BY <1>4, <1>24 DEF Unbind, PeerHeld, Phase
  <2>3. LinkHeld' BY <1>1, <1>4, <1>24 DEF Unbind, LinkHeld, Phase, TypeOK, Shape, Lives, None
  <2> QED BY <1>1, <1>3, <1>4, <1>24, <2>1, <2>2, <2>3, RunMoves DEF Unbind, Phase, None, Running
<1>25. CASE ShutdownCheck
  <2>1. Phase' BY <1>4, <1>25 DEF ShutdownCheck, Phase, None
  <2>2. PeerHeld' BY <1>4, <1>25 DEF ShutdownCheck, PeerHeld, Phase
  <2>3. LinkHeld' BY <1>1, <1>4, <1>25 DEF ShutdownCheck, LinkHeld, Phase, TypeOK, Shape, Lives, None
  <2> QED BY <1>1, <1>3, <1>4, <1>25, <2>1, <2>2, <2>3, RunMoves DEF ShutdownCheck, Phase, None, Running
<1> QED BY ConnectStep, AllocateOkStep, BindingOkStep,
           <1>5, <1>6, <1>7, <1>8, <1>9, <1>10, <1>11, <1>12, <1>13, <1>14, <1>15, <1>16, <1>17, <1>18,
                     <1>19, <1>20, <1>21, <1>22, <1>23, <1>24, <1>25 DEF RunLoop

\* A step of an acceptProc that does not race keeps the invariant.
LEMMA AcceptProcStep == ASSUME Inv, ~raced', NEW p \in Procs, acceptProc(p) PROVE Quiet'
<1> USE DEF In, runVars, lifeVars, chanVars, resVars, peerVars
<1>1. TypeOK /\ (raced \/ Quiet) BY DEF Inv
<1>2. raced => raced' BY <1>1, RacedStep DEF TypeOK, Next
<1>3. Quiet BY <1>1, <1>2
<1>4. ~panicked /\ ~peerLost /\ Phase /\ PeerHeld BY <1>3 DEF Quiet
<1>5. \A q \in Procs : proc[q] \in Underway => rpc \in {"loop", "select"} /\ client # None
  BY <1>3 DEF Quiet, Alone
<1>6. CASE AcceptTop(p) BY <1>1, <1>3, <1>4, <1>6, ExitStep, ListenStep DEF AcceptTop, Phase
<1>7. CASE AcceptAgain(p) BY <1>1, <1>3, <1>4, <1>7, ListenStep DEF AcceptAgain, Phase
<1>8. CASE AcceptError(p) BY <1>1, <1>3, <1>4, <1>8, ExitStep, ListenStep DEF AcceptError, Phase
<1>9. CASE FatalState(p)
  <2>1. Phase' BY <1>2, <1>4, <1>9 DEF FatalState, Overlaps, Phase
  <2> QED BY <1>1, <1>3, <1>9, <2>1, ListenStep DEF FatalState
<1>10. CASE FatalSignal(p)
  <2>1. my[p].rec \notin signalled BY <1>3, <1>10 DEF Quiet, OneHolder, FatalSignal, Rec, Holding
  <2> QED BY <1>1, <1>3, <1>4, <1>10, <2>1, ExitStep DEF FatalSignal, CloseReconnect, Holding, Phase
<1>11. CASE ReallocState(p)
  <2>1. proc[p] = "allocating" /\ GoesTo(p, "asked") BY <1>11 DEF ReallocState
  <2>2. Phase' BY <1>4, <1>5, <1>11, <2>1 DEF ReallocState, Phase, Underway, Reallocating
  <2>3. PeerHeld' BY <1>1, <1>4, <1>11, <2>1, PeerMoves DEF ReallocState
  <2> QED BY <1>1, <1>3, <1>4, <1>11, <2>1, <2>2, <2>3, MoveStep
          DEF ReallocState, Underway, Reallocating, Holding
<1>12. CASE ReallocFails(p)
  <2>1. proc[p] = "asked" /\ GoesTo(p, "drop") BY <1>12 DEF ReallocFails
  <2>2. Phase' BY <1>4, <1>5, <1>12, <2>1 DEF ReallocFails, Phase, Underway, Reallocating
  <2>3. PeerHeld' BY <1>1, <1>4, <1>12, <2>1, PeerMoves DEF ReallocFails
  <2> QED BY <1>1, <1>3, <1>4, <1>12, <2>1, <2>2, <2>3, MoveStep
          DEF ReallocFails, Underway, Reallocating, Holding
<1>13. CASE ReallocSignal(p)
  <2>1. my[p].rec \notin signalled BY <1>3, <1>13 DEF Quiet, OneHolder, ReallocSignal, Rec, Holding
  <2>2. Phase' BY <1>4, <1>13 DEF ReallocSignal, Phase
  <2>3. ~panicked' BY <1>4, <1>13, <2>1 DEF ReallocSignal, CloseReconnect
  <2>4. UNCHANGED signalled \/ signalled' = signalled \cup {my[p].rec}
    BY <1>13 DEF ReallocSignal, CloseReconnect
  <2> QED BY <1>1, <1>3, <1>13, <2>2, <2>3, <2>4, ExitStep DEF ReallocSignal, Holding
<1>14. CASE ReallocCheck(p)
  <2>a. proc[p] = "asked" BY <1>14 DEF ReallocCheck
  <2>b. acceptStopCh \notin ended
    BY <1>3, <2>a DEF Quiet, Alone, Told, Underway, Reallocating, Holding
  <2>1. proc[p] = "asked" /\ GoesTo(p, "close") BY <1>14, <2>b DEF ReallocCheck
  <2>2. Phase' BY <1>4, <1>14 DEF ReallocCheck, Phase
  <2>3. PeerHeld' BY <1>1, <1>4, <1>14, <2>1, PeerMoves DEF ReallocCheck
  <2> QED BY <1>1, <1>3, <1>4, <1>14, <2>1, <2>2, <2>3, MoveStep
          DEF ReallocCheck, Underway, Reallocating, Holding
<1>15. CASE ReallocClose(p) BY <1>15, <1>1, <1>2, CloseStep DEF Inv
<1>16. CASE ReallocBindFails(p) 
  <2>1. rpc \in {"loop", "select"} BY <1>5, <1>16 DEF ReallocBindFails, Underway, Reallocating
  <2> QED BY <1>1, <1>3, <1>4, <1>16, <2>1, ExitStep DEF ReallocBindFails, Phase
<1>17. CASE ReallocBind(p)
  <2>1. proc[p] = "bind" /\ GoesTo(p, "peer") BY <1>17 DEF ReallocBind
  <2>2. \A q \in Procs : proc[q] # "peer"
    BY <1>3, <2>1 DEF Quiet, Alone, Underway, Reallocating
  <2>3. rpc \in {"loop", "select"} /\ client # None /\ peer # "stopped"
    BY <1>4, <1>5, <2>1, <2>2 DEF PeerHeld, Underway, Reallocating
  <2>4. Phase' BY <1>4, <1>17, <2>3 DEF ReallocBind, Phase
  <2>5. proc'[p] = "peer" BY <1>1, <2>1 DEF GoesTo, TypeOK, Shape
  <2>6. PeerHeld' BY <1>17, <2>5 DEF PeerHeld, ReallocBind
  <2>7. ~panicked' /\ ~peerLost' BY <1>4, <1>17, <2>3 DEF ReallocBind
  <2> QED BY <1>1, <1>3, <1>17, <2>1, <2>4, <2>6, <2>7, MoveStep
          DEF ReallocBind, Underway, Reallocating, Holding
<1>18. CASE ReallocPeer(p)
  <2>1. proc[p] = "peer" /\ GoesTo(p, "finish") BY <1>18 DEF ReallocPeer
  <2>2. rpc \in {"loop", "select"} BY <1>5, <2>1 DEF Underway, Reallocating
  <2>3. Phase' BY <1>4, <1>18, <2>2 DEF ReallocPeer, Phase
  <2>4. \A q \in Procs : proc'[q] # "peer"
    BY <1>1, <1>3, <2>1 DEF GoesTo, TypeOK, Shape, Quiet, Alone, Underway, Reallocating
  <2>5. PeerHeld' BY <1>18, <2>4 DEF PeerHeld, ReallocPeer
  <2>6. ~panicked' /\ ~peerLost' BY <1>4, <1>18, <2>1 DEF ReallocPeer, PeerHeld
  <2> QED BY <1>1, <1>3, <1>18, <2>1, <2>3, <2>5, <2>6, MoveStep
          DEF ReallocPeer, Underway, Reallocating, Holding
<1>19. CASE ReallocFinish(p)
  <2>1. rpc \in {"loop", "select"} /\ client # None BY <1>5, <1>19 DEF ReallocFinish, Underway, Reallocating
  <2> QED BY <1>1, <1>3, <1>4, <1>19, <2>1, ExitStep DEF ReallocFinish, Phase
<1>20. CASE ReallocDrop(p)
  <2>1. proc[p] = "drop" /\ GoesTo(p, "failed") BY <1>20 DEF ReallocDrop
  <2>2. Phase' BY <1>4, <1>20 DEF ReallocDrop, Phase
  <2>3. PeerHeld' BY <1>1, <1>4, <1>20, <2>1, PeerMoves DEF ReallocDrop
  <2> QED BY <1>1, <1>3, <1>4, <1>20, <2>1, <2>2, <2>3, MoveStep
          DEF ReallocDrop, Underway, Reallocating, Holding
<1>21. CASE ReallocCounters(p)
  <2>1. proc[p] = "counters" /\ GoesTo(p, "bind") BY <1>21 DEF ReallocCounters
  <2>2. Phase' BY <1>4, <1>21 DEF ReallocCounters, Phase
  <2>3. PeerHeld' BY <1>1, <1>4, <1>21, <2>1, PeerMoves DEF ReallocCounters
  <2> QED BY <1>1, <1>3, <1>4, <1>21, <2>1, <2>2, <2>3, MoveStep
          DEF ReallocCounters, Underway, Reallocating, Holding
<1> QED BY CaptureStep, ReallocateStep, ReallocRenewStep, ReallocStoreStep, <1>6, <1>7, <1>8, <1>9, <1>10, <1>11, <1>12,
           <1>13, <1>14, <1>15, <1>16, <1>17, <1>18, <1>19, <1>20, <1>21 DEF acceptProc

\* What a goroutine leaves behind when it exits.
LEMMA ExitsShape ==
    ASSUME Shape, NEW p \in Procs, Exits(p) PROVE proc' \in [Procs -> Pcs] /\ my' \in [Procs -> Captured]
  BY DEF Shape, Exits, GoesTo, Pcs, Captured, NoChannels, None

\* A goroutine moves between the steps it has.
LEMMA GoesShape ==
    ASSUME Shape, NEW p \in Procs, NEW pc \in Pcs, GoesTo(p, pc) PROVE proc' \in [Procs -> Pcs]
  BY DEF Shape, GoesTo

\* Every step keeps channels, lives and connections in their ranges.
LEMMA ShapeStep == ASSUME Shape, [Next]_vars PROVE Shape'
<1> USE TurnServerAssumption
<1>1. ASSUME RunLoop PROVE Shape'
  <2> USE DEF Shape, Captured, Lives, None, At, runVars, lifeVars, chanVars, resVars, procVars
  <2>1. CASE Connect BY <2>1 DEF Connect
  <2>2. CASE DialStopped BY <2>2 DEF DialStopped
  <2>3. CASE DialFails BY <2>3 DEF DialFails
  <2>4. CASE DialOk BY <2>4 DEF DialOk
  <2>5. CASE AllocateFails BY <2>5 DEF AllocateFails
  <2>6. CASE AllocateOk BY <2>6 DEF AllocateOk, Slot, FreeProcs, Pcs, Holding
  <2>7. CASE Unbind
    <3>1. link' \in [Lives -> {"none", "open", "broken", "closed", "leaked"}] BY <2>7 DEF Unbind
    <3>2. client' \in 0 .. life BY <2>7 DEF Unbind
    <3> QED BY <2>7, <3>1, <3>2 DEF Unbind
  <2>8. CASE BindingOk BY <2>8 DEF BindingOk
  <2>9. CASE Returned BY <2>9 DEF Returned
  <2>10. CASE Backoff BY <2>10 DEF Backoff
  <2>11. CASE LoopAlive BY <2>11 DEF LoopAlive
  <2>12. CASE LoopDown BY <2>12 DEF LoopDown, Shutdown
  <2>13. CASE LoopStops BY <2>13 DEF LoopStops
  <2>14. CASE ShutdownPeer BY <2>14 DEF ShutdownPeer
  <2>15. CASE ShutdownClose BY <2>15 DEF ShutdownClose
  <2>16. CASE Release BY <2>16 DEF Release
  <2>17. CASE SelectStop BY <2>17 DEF SelectStop, Shutdown
  <2>18. CASE SelectReconnect BY <2>18 DEF SelectReconnect, Shutdown
  <2>19. CASE SelectStun BY <2>19 DEF SelectStun
  <2>20. CASE SelectStunNil BY <2>20 DEF SelectStunNil, Panic
  <2>21. CASE BindingFails BY <2>21 DEF BindingFails
  <2>22. CASE ConnectCounters BY <2>22 DEF ConnectCounters
  <2>23. CASE ConnectAlive BY <2>23 DEF ConnectAlive
  <2>24. CASE ShutdownCheck BY <2>24 DEF ShutdownCheck
  <2> QED BY <1>1, <2>1, <2>2, <2>3, <2>4, <2>5, <2>6, <2>7, <2>8, <2>9, <2>10, <2>11, <2>12, <2>13, <2>14,
            <2>15, <2>16, <2>17, <2>18, <2>19, <2>20, <2>21, <2>22, <2>23, <2>24 DEF RunLoop
<1>2. ASSUME NEW p \in Procs, acceptProc(p) PROVE Shape'
  <2> USE DEF runVars, lifeVars, chanVars, resVars
  <2>1. {"top", "accept", "fatal", "signal", "reallocate", "allocating", "asked", "drop", "failed", "close",
         "renew", "store", "counters", "bind", "peer", "finish", "new"} \subseteq Pcs
    BY DEF Pcs, Holding, Reallocating
  <2>2. my[p] \in Captured BY DEF Shape
  <2>3. CASE Capture(p)
    <3>1. my'[p] \in Captured /\ my' = [my EXCEPT ![p] = my'[p]]
      <4>1. my' = [my EXCEPT ![p] = [my[p] EXCEPT !.stop = acceptStopCh, !.rec = life]]
        BY <2>3 DEF Capture, Shape
      <4>2. [my[p] EXCEPT !.stop = acceptStopCh, !.rec = life] \in Captured
        <5>1. acceptStopCh \in 0 .. chans /\ life \in 0 .. life BY DEF Shape
        <5> QED BY <2>2, <5>1 DEF Captured
      <4> QED BY <4>1, <4>2 DEF Shape
    <3>2. proc' \in [Procs -> Pcs] BY <2>1, <2>3, GoesShape DEF Capture
    <3> QED BY <2>3, <3>1, <3>2 DEF Capture, Shape, Captured
  <2>4. CASE AcceptTop(p) BY <2>1, <2>4, ExitsShape, GoesShape DEF AcceptTop, Shape, Captured
  <2>5. CASE AcceptError(p) BY <2>1, <2>5, ExitsShape, GoesShape DEF AcceptError, Shape, Captured
  <2>6. CASE Reallocate(p)
    <3>1. CASE client = None BY <2>6, <3>1, ExitsShape DEF Reallocate, Shape, Captured
    <3>2. CASE client # None
      <4>1. my'[p] \in Captured /\ my' = [my EXCEPT ![p] = my'[p]]
        BY <2>2, <2>6, <3>2 DEF Reallocate, Shape, Captured
      <4>2. proc' \in [Procs -> Pcs] BY <2>1, <2>6, <3>2, GoesShape DEF Reallocate
      <4> QED BY <2>6, <4>1, <4>2 DEF Reallocate, Shape, Captured
    <3> QED BY <3>1, <3>2
  <2>7. CASE ReallocCheck(p) BY <2>1, <2>7, GoesShape DEF ReallocCheck, Shape, Captured
  <2>8. CASE ReallocRenew(p) BY <2>1, <2>8, GoesShape DEF ReallocRenew, Shape, Captured
  <2>9. CASE AcceptAgain(p) BY <2>1, <2>9, GoesShape DEF AcceptAgain, Shape, Captured
  <2>10. CASE FatalState(p) BY <2>1, <2>10, GoesShape DEF FatalState, Shape, Captured
  <2>11. CASE ReallocState(p) BY <2>1, <2>11, GoesShape DEF ReallocState, Shape, Captured
  <2>12. CASE ReallocFails(p) BY <2>1, <2>12, GoesShape DEF ReallocFails, Shape, Captured
  <2>13. CASE ReallocClose(p) BY <2>1, <2>13, GoesShape DEF ReallocClose, Shape, Captured
  <2>14. CASE ReallocBind(p) BY <2>1, <2>14, GoesShape DEF ReallocBind, Shape, Captured
  <2>15. CASE ReallocPeer(p) BY <2>1, <2>15, GoesShape DEF ReallocPeer, Shape, Captured
  <2>16. CASE FatalSignal(p) BY <2>16, ExitsShape DEF FatalSignal, Shape, Captured, CloseReconnect
  <2>17. CASE ReallocSignal(p)
    <3>1. signalled' \in SUBSET (0 .. life)
      BY <2>2, <2>17 DEF ReallocSignal, CloseReconnect, Shape, Captured
    <3> QED BY <2>17, <3>1, ExitsShape DEF ReallocSignal, Shape, Captured
  <2>18. CASE ReallocBindFails(p) BY <2>18, ExitsShape DEF ReallocBindFails, Shape, Captured
  <2>19. CASE ReallocFinish(p) BY <2>19, ExitsShape DEF ReallocFinish, Shape, Captured
  <2>20. CASE ReallocStore(p)
    <3>1. proc' \in [Procs -> Pcs] BY <2>1, <2>20 DEF ReallocStore, Slot, FreeProcs, Shape
    <3> QED BY <2>20, <3>1 DEF ReallocStore, Shape, Captured
  <2>21. CASE ReallocDrop(p) BY <2>1, <2>21, GoesShape DEF ReallocDrop, Shape, Captured
  <2>22. CASE ReallocCounters(p) BY <2>1, <2>22, GoesShape DEF ReallocCounters, Shape, Captured
  <2> QED BY <1>2, <2>3, <2>4, <2>5, <2>6, <2>7, <2>8, <2>9, <2>10, <2>11, <2>12, <2>13, <2>14, <2>15, <2>16,
            <2>17, <2>18, <2>19, <2>20, <2>21, <2>22 DEF acceptProc
<1>3. ASSUME NEW l \in Lives, Break(l) PROVE Shape'
  BY <1>3 DEF Break, Shape, Captured, runVars, lifeVars, chanVars, procVars
<1>4. ASSUME stop \/ UNCHANGED vars PROVE Shape'
  BY <1>4 DEF stop, vars, Shape, Captured, runVars, lifeVars, chanVars, resVars, procVars
<1> QED BY <1>1, <1>2, <1>3, <1>4 DEF Next

\* The invariant is inductive.
LEMMA InvStep == ASSUME Inv, [Next]_vars PROVE Inv'
<1>1. TypeOK' BY FlagsStep, ShapeStep DEF Inv, TypeOK
<1>2. ASSUME ~raced' PROVE Quiet'
  <2>1. Quiet BY <1>2, RacedStep DEF Inv, TypeOK
  <2>2. ASSUME NEW l \in Lives, Break(l) PROVE Quiet'
    <3>1. LinkHeld' BY <2>1, <2>2 DEF Break, Quiet, LinkHeld, Inv, TypeOK, Shape, runVars, lifeVars
    <3> QED BY <2>1, <2>2, <3>1
            DEF Break, Quiet, OneHolder, Rec, Told, Fresh, Alone, Phase, PeerHeld,
                runVars, lifeVars, chanVars, peerVars, procVars
  <2>3. ASSUME stop \/ UNCHANGED vars PROVE Quiet'
    <3>1. UNCHANGED <<rpc, alive, life, signalled, acceptStopCh, chans, ended, client, link, peer,
                      peerLost, proc, my, panicked>>
      BY <2>3 DEF stop, vars, runVars, lifeVars, chanVars, resVars, peerVars, procVars
    <3> QED BY <2>1, <3>1 DEF Quiet, OneHolder, Rec, Told, Fresh, Alone, Phase, PeerHeld, LinkHeld
  <2> QED BY <1>2, <2>2, <2>3, RunLoopStep, AcceptProcStep DEF Next
<1> QED BY <1>1, <1>2 DEF Inv

\* The invariant holds.
LEMMA TurnInv == Spec => []Inv
<1>1. Init => Inv
  <2> SUFFICES ASSUME Init PROVE Inv OBVIOUS
  <2>1. Flags BY DEF Init, Flags
  <2>2. Shape BY TurnServerAssumption DEF Init, Shape, Pcs, Captured, None, NoChannels
  <2>3. Quiet BY TurnServerAssumption DEF Init, Lives, None, Quiet, OneHolder, Told, Fresh, Alone, Underway,
            Reallocating, Holding, Phase, PeerHeld, LinkHeld
  <2> QED BY <2>1, <2>2, <2>3 DEF Inv, TypeOK
<1> QED BY <1>1, InvStep, PTL DEF Spec

\* connect, connectWithBackoff and shutdown close every control connection but the
\* current one, unless they raced an acceptProc.
THEOREM OneControlTheorem == Spec => []OneControl
<1>1. Inv => OneControl BY DEF Inv, Quiet, LinkHeld, OneControl
<1> QED BY <1>1, TurnInv, PTL

\* No channel is closed twice, no nil client or conn used and no running TurnPeer
\* overwritten, unless connect, shutdown or reallocate raced an acceptProc.
THEOREM SafeTheorem == Spec => []SafeUnlessRaced
<1>1. Inv => SafeUnlessRaced BY DEF Inv, Quiet, SafeUnlessRaced
<1> QED BY <1>1, TurnInv, PTL

=============================================================================
