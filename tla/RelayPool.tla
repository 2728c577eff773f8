----------------------------- MODULE RelayPool ------------------------------
(***************************************************************************)
(* The relay pool (p2put/relaypool.go): relays on probation and proven     *)
(* ("main") relays, promotion and demotion by recorded results, a circuit  *)
(* breaker, and pruning from the high-water to the low-water mark.         *)
(*                                                                         *)
(* Every method is one critical section of p.mu, except that Add and       *)
(* RecordResult unlock before they call prune, which locks again: "owed"   *)
(* counts the callers between the two.  The callers are any goroutines.    *)
(*                                                                         *)
(* Scores (successScore, latency, limits, TTL, uptime and their weights)   *)
(* only rank relays; here every ranking is possible.  connectedSince only  *)
(* orders relays; here it is that order, the relation "before".            *)
(***************************************************************************)
EXTENDS Naturals, FiniteSets, FiniteSetsExt

CONSTANTS
    Peers,
    HighWater, LowWater,    \* poolHighWater, poolLowWater
    DemoteThreshold,        \* consecutive failures that demote
    CircuitThreshold,       \* consecutive failures that open the circuit
    UptimeK,                \* main relays the third round protects
    MaxOwed                 \* bound: callers between their update and prune

ASSUME PoolAssumption ==
    /\ HighWater \in Nat /\ LowWater \in 0 .. HighWater
    /\ DemoteThreshold \in Nat \ {0}
    /\ CircuitThreshold \in Nat /\ CircuitThreshold >= DemoteThreshold
    /\ UptimeK \in Nat /\ MaxOwed \in Nat

VARIABLES
    items,          \* the pool: a function on the relays it holds
    before,         \* pairs of those relays, the one with the earlier connectedSince first
    protected,      \* p.protected
    managed,        \* p.managed
    pinging,        \* the targets of the health check's current round
    owed            \* callers that have yet to call prune

poolVars == <<items, before, protected, managed, pinging, owed>>

Held == DOMAIN items
Main == {p \in Held : items[p].inMain}
Probation == Held \ Main

\* A relay as Add enters it.  The failures beyond CircuitThreshold are not
\* counted: nothing tells them apart.
NewItem == [inMain |-> FALSE, fails |-> 0, circuitOpen |-> FALSE, recent |-> FALSE]

PoolInit ==
    /\ items = << >> /\ before = {}
    /\ protected = {} /\ managed = {} /\ pinging = {} /\ owed = 0

\* R is a strict total order of S, as points in time are.
Orders(R, S) ==
    /\ R \subseteq S \X S
    /\ \A p \in S : <<p, p>> \notin R
    /\ \A p, q \in S : p # q => <<p, q>> \in R \/ <<q, p>> \in R
    /\ \A p, q, r \in S : <<p, q>> \in R /\ <<q, r>> \in R => <<p, r>> \in R

-----------------------------------------------------------------------------
\* Eviction

\* Mutant: sorted the other way round.
Newest(S, n) == {p \in S : Cardinality({q \in S : <<p, q>> \in before}) < n}

\* The n relays of S that have been in the pool longest, or all of them: those
\* that fewer than n others precede.
Oldest(S, n) == {p \in S : Cardinality({q \in S : <<q, p>> \in before}) < n}

\* The subsets of S that a ranking can put first when n are to be taken.
AnyOf(S, n) == kSubset(Min({n, Cardinality(S)}), S)

\* How many to evict from probation and from main: half of the excess each,
\* and what one tier lacks is added to the other.
Quotas ==
    LET need  == Cardinality(Held) - LowWater
        half  == need \div 2
        prob  == IF half > Cardinality(Probation) THEN Cardinality(Probation) ELSE half
        main  == need - prob
        taken == IF main > Cardinality(Main) THEN Cardinality(Main) ELSE main
    IN  [probation |-> need - taken, main |-> taken]

\* Mutant: the first round is left out.
CandidatesUnprotected == Main \ protected

\* Main relays that may go: not protected, no result in the last five minutes.
Candidates == {p \in Main \ protected : ~items[p].recent}

\* Rounds two and three: the best fifth stays, then the longest connected stay.
Exposed(top) ==
    LET rest == Candidates \ top
    IN  rest \ Oldest(rest, UptimeK)

TopCount == (Cardinality(Candidates) + 4) \div 5

\* Mutant: what main cannot give is not taken from probation.
EvictionsNoSpill ==
    {Oldest(Probation, Quotas.probation) \cup out :
        out \in UNION {AnyOf(Exposed(top), Quotas.main) : top \in AnyOf(Candidates, TopCount)}}

\* The sets of relays that prune may evict.
Evictions ==
    LET first == Oldest(Probation, Quotas.probation)
    IN  {first \cup out \cup Oldest(Probation \ first, Quotas.main - Cardinality(out)) :
            out \in UNION {AnyOf(Exposed(top), Quotas.main) :
                              top \in AnyOf(Candidates, TopCount)}}

Evict(gone) ==
    /\ items' = [p \in Held \ gone |-> items[p]]
    /\ before' = {r \in before : r[1] \notin gone /\ r[2] \notin gone}
    /\ protected' = protected \ gone

-----------------------------------------------------------------------------
\* Methods

Add(p) ==
    /\ p \notin Held
    /\ owed < MaxOwed
    /\ items' = [q \in Held \cup {p} |-> IF q = p THEN NewItem ELSE items[q]]
    /\ before' = before \cup (Held \X {p})
    /\ owed' = owed + 1
    /\ UNCHANGED <<protected, managed, pinging>>

Prune ==
    /\ owed > 0
    /\ owed' = owed - 1
    /\ IF Cardinality(Held) <= HighWater
       THEN UNCHANGED <<items, before, protected>>
       ELSE \E gone \in Evictions : Evict(gone)
    /\ UNCHANGED <<managed, pinging>>

Remove(p) ==
    /\ p \in Held \cup protected \cup managed
    /\ items' = [q \in Held \ {p} |-> items[q]]
    /\ before' = {r \in before : p \notin {r[1], r[2]}}
    /\ protected' = protected \ {p}
    /\ managed' = managed \ {p}
    /\ UNCHANGED <<pinging, owed>>

Protect(p) ==
    /\ protected' = protected \cup {p}
    /\ UNCHANGED <<items, before, managed, pinging, owed>>

Unprotect(p) ==
    /\ protected' = protected \ {p}
    /\ UNCHANGED <<items, before, managed, pinging, owed>>

AddManaged(S) ==
    /\ managed' = managed \cup S
    /\ UNCHANGED <<items, before, protected, pinging, owed>>

RemoveManaged(S) ==
    /\ managed' = managed \ S
    /\ UNCHANGED <<items, before, protected, pinging, owed>>

\* Mutant: demotion needs one failure more than the threshold.
RecordedLate(item, result) ==
    LET fails == IF item.fails < CircuitThreshold THEN item.fails + 1 ELSE item.fails
    IN  CASE result = "ok" ->
               [inMain |-> TRUE, fails |-> 0, circuitOpen |-> FALSE, recent |-> TRUE]
          [] result = "limited" -> [item EXCEPT !.recent = TRUE]
          [] result = "failed" ->
               [inMain |-> item.inMain /\ fails <= DemoteThreshold,
                fails |-> fails,
                circuitOpen |-> item.circuitOpen \/ fails >= CircuitThreshold,
                recent |-> TRUE]

\* What a result of class "ok", "limited" or "failed" (classifyError) does to
\* a relay.
Recorded(item, result) ==
    LET fails == IF item.fails < CircuitThreshold THEN item.fails + 1 ELSE item.fails
    IN  CASE result = "ok" ->
               [inMain |-> TRUE, fails |-> 0, circuitOpen |-> FALSE, recent |-> TRUE]
          [] result = "limited" -> [item EXCEPT !.recent = TRUE]
          [] result = "failed" ->
               [inMain |-> item.inMain /\ fails < DemoteThreshold,
                fails |-> fails,
                circuitOpen |-> item.circuitOpen \/ fails >= CircuitThreshold,
                recent |-> TRUE]

\* Mutant: no prune afterwards.
RecordOnly(p, result) ==
    /\ items' = [items EXCEPT ![p] = Recorded(@, result)]
    /\ UNCHANGED <<before, protected, managed, owed>>

\* RecordResult up to its unlock, for a relay in the pool.
Record(p, result) ==
    /\ owed < MaxOwed
    /\ owed' = owed + 1
    /\ items' = [items EXCEPT ![p] = Recorded(@, result)]
    /\ UNCHANGED <<before, protected, managed>>

RecordResult(p, result) == p \in Held /\ Record(p, result) /\ UNCHANGED pinging

\* The health check lists the relays to ping, those connected and not open ...
HealthTick(connected) ==
    /\ pinging = {}
    /\ pinging' = {p \in Held \cap connected : ~items[p].circuitOpen}
    /\ UNCHANGED <<items, before, protected, managed, owed>>

\* ... and applies each answer when it comes.  A ping that succeeds clears the
\* failures and leaves tier, circuit and lastResult as they are by now.
HealthOK(p) ==
    /\ p \in pinging
    /\ pinging' = pinging \ {p}
    /\ items' = [q \in Held |-> IF q = p THEN [items[q] EXCEPT !.fails = 0] ELSE items[q]]
    /\ UNCHANGED <<before, protected, managed, owed>>

HealthError(p, result) ==
    /\ p \in pinging
    /\ pinging' = pinging \ {p}
    /\ IF p \in Held THEN Record(p, result)
                     ELSE UNCHANGED <<items, before, protected, managed, owed>>

\* Five minutes pass since the last result of p.
Quiet(p) ==
    /\ p \in Held /\ items[p].recent
    /\ items' = [items EXCEPT ![p].recent = FALSE]
    /\ UNCHANGED <<before, protected, managed, pinging, owed>>

-----------------------------------------------------------------------------
\* The pool with any callers

CONSTANTS
    Pinned,         \* the relays somebody may protect
    Pingable        \* the relays the host is connected to

Next ==
    \/ \E p \in Peers : Add(p) \/ Remove(p) \/ Quiet(p)
    \/ \E p \in Pinned : Protect(p) \/ Unprotect(p)
    \/ \E p \in Peers, result \in {"ok", "limited", "failed"} : RecordResult(p, result)
    \/ HealthTick(Pingable)
    \/ \E p \in Pingable : HealthOK(p) \/ \E r \in {"limited", "failed"} : HealthError(p, r)
    \/ Prune

Spec == PoolInit /\ [][Next]_poolVars

-----------------------------------------------------------------------------
\* Properties

\* Types of the pool; before is a strict total order of its relays.
TypeOK ==
    /\ Held \subseteq Peers
    /\ \A p \in Held : items[p] \in [inMain : BOOLEAN, fails : 0 .. CircuitThreshold,
                                     circuitOpen : BOOLEAN, recent : BOOLEAN]
    /\ Orders(before, Held)
    /\ protected \subseteq Peers /\ managed \subseteq Peers /\ pinging \subseteq Peers
    /\ owed \in 0 .. MaxOwed

\* A proven relay is one that works: it has fewer failures in a row than demote
\* it and its circuit is closed.  RecordResult demotes before it opens the
\* circuit, and only a success promotes; a health check that succeeds late
\* clears the failures of a relay whose circuit has opened meanwhile.
MainIsHealthy ==
    \A p \in Main : items[p].fails < DemoteThreshold /\ ~items[p].circuitOpen

\* Once every caller has pruned, a pool above its high-water mark holds proven
\* relays only: nothing on probation is kept while the mark is exceeded, however
\* the updates and the prunes of several callers interleave.
NoIdleExcess == owed = 0 /\ Cardinality(Held) > HighWater => Probation = {}

\* prune never evicts a proven relay that is protected or was active in the last
\* five minutes, also when quotas move from one tier to the other.
ShieldedSurvive ==
    [][owed' < owed => \A p \in Main : p \in protected \/ items[p].recent => p \in DOMAIN items']_poolVars

\* Probation is first in, first out: prune never evicts a relay on probation and
\* keeps one that has been there longer, over both passes that evict from it.
ProbationFIFO ==
    [][owed' < owed =>
          \A p, q \in Probation :
              <<p, q>> \in before /\ q \notin DOMAIN items' => p \notin DOMAIN items']_poolVars

\* prune goes down to the low-water mark exactly, or keeps only proven relays that
\* its three rounds protect; never does it go below the mark.
PruneTarget ==
    [][owed' < owed /\ Cardinality(Held) > HighWater =>
          LET left == DOMAIN items'
          IN  /\ Cardinality(left) >= LowWater
              /\ Cardinality(left) > LowWater =>
                    /\ left \subseteq Main
                    /\ Cardinality(left \cap Candidates) <= TopCount + UptimeK]_poolVars
=============================================================================
