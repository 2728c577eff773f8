---------------------------- MODULE RelayManager ----------------------------
(***************************************************************************)
(* The goroutine that keeps K relay reservations (relayPoolManager and     *)
(* doRelayReserve in p2put/libp2p_bs.go) composed with the relay pool.     *)
(*                                                                         *)
(* Bootstrap has entered and protected the static relays, fewer than the   *)
(* high-water mark; from then on this goroutine is the only caller of the  *)
(* pool that changes it.  Its calls of the host (Connect, Reserve) take    *)
(* time, and connections come and go between its steps.                    *)
(***************************************************************************)
EXTENDS RelayPool

CONSTANTS
    NoPeer,
    K,              \* reservations wanted
    MaxFailures     \* bound: calls of Connect or Reserve that fail

ASSUME ManagerAssumption ==
    /\ NoPeer \notin Peers
    /\ IsFiniteSet(Peers) /\ Cardinality(Peers) <= HighWater
    /\ K \in Nat /\ MaxFailures \in Nat

VARIABLES
    connected,      \* relays the host is connected to
    pc,             \* the loop the goroutine is in: "start", "initial", "idle", "check", "fill"
    todo,           \* relays this loop has yet to visit
    toRemove,       \* relays the check loop has found to be given up
    call,           \* the call of the host in progress, [kind, relay]
    failures        \* calls that have failed

loopVars == <<pc, todo, toRemove, call>>
managerVars == <<poolVars, connected, loopVars, failures>>

NoCall == [kind |-> "none", relay |-> NoPeer]

\* The goroutine is neither in a call of the host nor in prune.
Free == call = NoCall /\ owed = 0

IsCircuitOpen(p) == p \in Held /\ items[p].circuitOpen

\* Mutant: open circuits are not left out.
SelectNAll(n) == AnyOf(Held, n)

\* SelectN: the n best relays with a closed circuit; any ranking is possible.
SelectN(n) == AnyOf({p \in Held : ~IsCircuitOpen(p)}, n)

\* The static relays are in the pool, in some order: below the high-water mark
\* nothing depends on it.
ManagerInit ==
    /\ items = [p \in Peers |-> NewItem]
    /\ before = CHOOSE R \in SUBSET (Peers \X Peers) : Orders(R, Peers)
    /\ protected = Peers /\ managed = {} /\ pinging = {} /\ owed = 0
    /\ connected = {} /\ pc = "start" /\ todo = {} /\ toRemove = {} /\ call = NoCall
    /\ failures = 0

-----------------------------------------------------------------------------
\* doRelayReserve, one step per call of the host

\* The call ends with the given result, which is recorded.
Answer(result) ==
    /\ owed = 0
    /\ failures' = failures + (IF result = "failed" THEN 1 ELSE 0)
    /\ failures' <= MaxFailures
    /\ IF call.relay \in Held THEN RecordResult(call.relay, result)
                                   ELSE UNCHANGED poolVars
    /\ UNCHANGED <<pc, todo, toRemove>>

Connected(result) ==
    /\ call.kind = "connect"
    /\ Answer(result)
    /\ IF result = "ok"
       THEN connected' = connected \cup {call.relay} /\ call' = [call EXCEPT !.kind = "reserve"]
       ELSE connected' = connected /\ call' = NoCall

Reserved(result) ==
    /\ call.kind = "reserve"
    /\ Answer(result)
    /\ call' = NoCall
    /\ UNCHANGED connected

-----------------------------------------------------------------------------
\* relayPoolManager

SelectInitial ==
    /\ pc = "start"
    /\ \E initial \in SelectN(K) : AddManaged(initial) /\ todo' = initial
    /\ pc' = "initial"
    /\ UNCHANGED <<connected, toRemove, call, failures>>

ReserveInitial(p) ==
    /\ pc = "initial" /\ Free /\ p \in todo
    /\ todo' = todo \ {p}
    /\ call' = [kind |-> "connect", relay |-> p]
    /\ UNCHANGED <<poolVars, connected, pc, toRemove, failures>>

\* The loop over the initial relays or the refill loop ends.
AwaitTick ==
    /\ pc \in {"initial", "fill"} /\ Free /\ todo = {}
    /\ pc' = "idle"
    /\ UNCHANGED <<poolVars, connected, todo, toRemove, call, failures>>

Tick ==
    /\ pc = "idle"
    /\ pc' = "check" /\ todo' = managed /\ toRemove' = {}
    /\ UNCHANGED <<poolVars, connected, call, failures>>

\* Mutant: a relay whose circuit is open is kept while it is connected.
CheckKeepsOpen(p) ==
    /\ pc = "check" /\ Free /\ p \in todo
    /\ todo' = todo \ {p}
    /\ IF p \notin connected
       THEN toRemove' = toRemove \cup {p} /\ UNCHANGED call
       ELSE toRemove' = toRemove /\ call' = [kind |-> "reserve", relay |-> p]
    /\ UNCHANGED <<poolVars, connected, pc, failures>>

\* A managed relay is given up when it is disconnected or its circuit is open,
\* and is asked for a new reservation otherwise.
Check(p) ==
    /\ pc = "check" /\ Free /\ p \in todo
    /\ todo' = todo \ {p}
    /\ IF p \notin connected \/ IsCircuitOpen(p)
       THEN toRemove' = toRemove \cup {p} /\ connected' = connected \ {p} /\ UNCHANGED call
       ELSE /\ call' = [kind |-> "reserve", relay |-> p]
            /\ UNCHANGED <<toRemove, connected>>
    /\ UNCHANGED <<poolVars, pc, failures>>

\* Mutant: K relays are selected, whatever is managed already.
RefillAll ==
    /\ pc = "check" /\ Free /\ todo = {}
    /\ RemoveManaged(toRemove)
    /\ IF Cardinality(managed') < K
       THEN pc' = "fill" /\ todo' \in SelectN(K)
       ELSE pc' = "idle" /\ todo' = {}
    /\ toRemove' = {}
    /\ UNCHANGED <<connected, call, failures>>

\* The relays given up are removed, and the number that is missing is selected.
Refill ==
    /\ pc = "check" /\ Free /\ todo = {}
    /\ RemoveManaged(toRemove)
    /\ IF Cardinality(managed') < K
       THEN pc' = "fill" /\ todo' \in SelectN(K - Cardinality(managed'))
       ELSE pc' = "idle" /\ todo' = {}
    /\ toRemove' = {}
    /\ UNCHANGED <<connected, call, failures>>

\* A selected relay that is connected already is passed over.
Fill(p) ==
    /\ pc = "fill" /\ Free /\ p \in todo
    /\ todo' = todo \ {p}
    /\ IF p \in connected
       THEN UNCHANGED <<poolVars, call>>
       ELSE AddManaged({p}) /\ call' = [kind |-> "connect", relay |-> p]
    /\ UNCHANGED <<connected, pc, toRemove, failures>>

\* RecordResult ends with prune.
PruneStep == Prune /\ UNCHANGED <<connected, loopVars, failures>>

\* Connections are opened and lost by others.
Environment(p) ==
    /\ connected' \in {connected \cup {p}, connected \ {p}}
    /\ UNCHANGED <<poolVars, loopVars, failures>>

Manager ==
    \/ SelectInitial \/ AwaitTick \/ Tick \/ Refill \/ PruneStep
    \/ \E p \in Peers : ReserveInitial(p) \/ Check(p) \/ Fill(p)
    \/ \E result \in {"ok", "limited", "failed"} : Connected(result) \/ Reserved(result)

ManagerNext == Manager \/ \E p \in Peers : Environment(p)

ManagerSpec == ManagerInit /\ [][ManagerNext]_managerVars

\* The goroutine runs: calls of the host return (Reserve is given a timeout and
\* the host bounds a dial) and the ticker ticks.
FairSpec == ManagerSpec /\ WF_managerVars(Manager)

-----------------------------------------------------------------------------
\* Properties

\* Types of the pool and the loop; the relays to be given up are managed ones.
ManagerTypeOK ==
    /\ TypeOK
    /\ connected \subseteq Peers /\ todo \subseteq Peers /\ toRemove \subseteq managed
    /\ pc \in {"start", "initial", "idle", "check", "fill"}
    /\ call = NoCall \/ call \in [kind : {"connect", "reserve"}, relay : Peers]
    /\ failures \in 0 .. MaxFailures

\* At most K relays are managed at any time, also while the refill loop adds
\* relays one by one and connections come and go between its steps.
ManagedBound == Cardinality(managed) <= K

\* The host is never asked to connect to or reserve at a relay whose circuit is
\* open, although loops go on with the relays selected or listed at their start.
NoOpenCalls == call # NoCall => ~IsCircuitOpen(call.relay)

\* A managed relay whose circuit opens is given up at a later tick.
Released == \A p \in Peers : p \in managed /\ IsCircuitOpen(p) ~> p \notin managed

\* docs/relaypool-design.md:18, a relay that failed is degraded or its circuit
\* opened, and it joins again when it has recovered.  Calls fail a bounded number
\* of times, so every relay recovers: an open circuit should be closed some time.
Recovers == \A p \in Peers : IsCircuitOpen(p) ~> ~IsCircuitOpen(p)
=============================================================================
