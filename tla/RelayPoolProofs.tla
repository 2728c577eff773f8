-------------------------- MODULE RelayPoolProofs ---------------------------
(***************************************************************************)
(* What the relay pool promises of its proven relays and of pruning, for   *)
(* any set of relays, any thresholds and water marks, and any number of    *)
(* callers; and what its manager promises of the relays it reserves.       *)
(***************************************************************************)
EXTENDS RelayManager, FiniteSetTheorems, TLAPS

Item == [inMain : BOOLEAN, fails : Nat, circuitOpen : BOOLEAN, recent : BOOLEAN]

\* A proven relay works.
Healthy(item) == item.inMain => item.fails < DemoteThreshold /\ ~item.circuitOpen

Inv ==
    /\ \A p \in Held : items[p] \in Item /\ Healthy(items[p])
    /\ owed \in Nat
    /\ IsFiniteSet(Held) /\ Orders(before, Held)

-----------------------------------------------------------------------------

\* No result makes a relay proven that does not work, or leaves it proven.
LEMMA RecordedHealthy ==
    ASSUME NEW item \in Item, Healthy(item),
           NEW result \in {"ok", "limited", "failed"}
    PROVE  Recorded(item, result) \in Item /\ Healthy(Recorded(item, result))
  <1>1. CASE result = "ok"
    BY <1>1, PoolAssumption DEF Recorded, Item, Healthy
  <1>2. CASE result = "limited"
    BY <1>2, PoolAssumption DEF Recorded, Item, Healthy
  <1>3. CASE result = "failed"
    BY <1>3, PoolAssumption DEF Recorded, Item, Healthy
  <1> QED
    BY <1>1, <1>2, <1>3

\* What is left of the order orders what is left of the relays.
LEMMA OrderLeft ==
    ASSUME NEW S, NEW R, Orders(R, S), NEW T, NEW Q,
           \A p \in S, q \in S : <<p, q>> \in Q <=> <<p, q>> \in R /\ p \in T /\ q \in T,
           Q \subseteq R, T \subseteq S
    PROVE  Orders(Q, T)
  <1>1. Q \subseteq T \X T
    <2>1. SUFFICES ASSUME NEW x \in Q PROVE x \in T \X T
      OBVIOUS
    <2>2. PICK p \in S, q \in S : x = <<p, q>>
      BY <2>1 DEF Orders
    <2> QED
      BY <2>1, <2>2
  <1> QED
    BY <1>1 DEF Orders

\* Relays that leave, and nothing else, keep the invariant.
LEMMA LeavingInv ==
    ASSUME Inv, NEW gone, items' = [q \in Held \ gone |-> items[q]], owed' \in Nat,
           before' = {r \in before : r[1] \notin gone /\ r[2] \notin gone}
    PROVE  Inv' /\ Held' = Held \ gone
  <1>1. Held' = Held \ gone
    BY DEF Held
  <1>2. \A p \in Held' : items'[p] \in Item /\ Healthy(items'[p])
    BY <1>1 DEF Inv, Held
  <1>3. IsFiniteSet(Held')
    BY <1>1, FS_Subset DEF Inv
  <1>4. \A p \in Held, q \in Held : <<p, q>> \in before' <=> <<p, q>> \in before /\ p \in Held' /\ q \in Held'
    BY <1>1
  <1>5. Orders(before', Held')
    BY <1>1, <1>4, OrderLeft DEF Inv
  <1> QED
    BY <1>1, <1>2, <1>3, <1>5 DEF Inv

\* A relay that is entered is the last in the order.
LEMMA OrderGrows ==
    ASSUME NEW S, NEW R, Orders(R, S), NEW x, x \notin S
    PROVE  Orders(R \cup (S \X {x}), S \cup {x})
  <1> DEFINE Q == R \cup (S \X {x})
  <1>1. \A p, q : <<p, q>> \in Q <=> <<p, q>> \in R \/ (p \in S /\ q = x)
    OBVIOUS
  <1>2. \A p, q : <<p, q>> \in R => p \in S /\ q \in S
    BY DEF Orders
  <1>3. Q \subseteq (S \cup {x}) \X (S \cup {x})
    BY DEF Orders
  <1> HIDE DEF Q
  <1>4. \A p \in S \cup {x} : <<p, p>> \notin Q
    BY <1>1, <1>2 DEF Orders
  <1>5. \A p, q \in S \cup {x} : p # q => <<p, q>> \in Q \/ <<q, p>> \in Q
    BY <1>1 DEF Orders
  <1>6. \A p, q, r \in S \cup {x} : <<p, q>> \in Q /\ <<q, r>> \in Q => <<p, r>> \in Q
    BY <1>1, <1>2 DEF Orders
  <1>7. Orders(Q, S \cup {x})
    BY <1>3, <1>4, <1>5, <1>6 DEF Orders
  <1> QED
    BY <1>7 DEF Q

\* A result is recorded.
LEMMA RecordInv ==
    ASSUME Inv, NEW p \in Held, NEW result \in {"ok", "limited", "failed"}, Record(p, result)
    PROVE  Inv'
  <1>1. Held' = Held /\ before' = before
    BY DEF Record, Held
  <1>2. ASSUME NEW q \in Held
        PROVE  items'[q] \in Item /\ Healthy(items'[q])
    <2>1. CASE q = p
      BY <2>1, RecordedHealthy DEF Record, Inv, Held
    <2>2. CASE q # p
      BY <2>2 DEF Record, Inv, Held
    <2> QED
      BY <2>1, <2>2
  <1> QED
    BY <1>1, <1>2 DEF Inv, Record

\* The pool starts empty.
LEMMA InitInv == PoolInit => Inv
  <1>1. ASSUME PoolInit PROVE Inv
    <2>1. Held = {} /\ before = {} /\ owed = 0
      BY <1>1 DEF PoolInit, Held
    <2> QED
      BY <2>1, FS_EmptySet DEF Inv, Orders
  <1> QED
    BY <1>1

\* A step that changes no tier, order or count but that of items it keeps.
LEMMA KeepsInv ==
    ASSUME Inv, Held' = Held, before' = before, owed' \in Nat,
           \A q \in Held : items'[q] \in Item /\ Healthy(items'[q])
    PROVE  Inv'
  BY DEF Inv

\* Every call keeps the invariant.
LEMMA NextInv ==
    ASSUME Inv, [Next]_poolVars
    PROVE  Inv'
  <1>1. ASSUME NEW p \in Peers, Add(p)
        PROVE  Inv'
    <2>1. p \notin Held /\ Held' = Held \cup {p} /\ before' = before \cup (Held \X {p}) /\ owed' \in Nat
      BY <1>1 DEF Add, Held, Inv
    <2>2. \A q \in Held' : items'[q] \in Item /\ Healthy(items'[q])
      BY <1>1, PoolAssumption DEF Add, Inv, Held, NewItem, Item, Healthy
    <2>3. IsFiniteSet(Held')
      BY <2>1, FS_AddElement DEF Inv
    <2>4. Orders(before', Held')
      BY <2>1, OrderGrows DEF Inv
    <2> QED
      BY <2>1, <2>2, <2>3, <2>4 DEF Inv
  <1>2. ASSUME NEW p \in Peers, Remove(p)
        PROVE  Inv'
    <2> DEFINE gone == {p}
    <2>1. items' = [q \in Held \ gone |-> items[q]] /\ owed' \in Nat
      BY <1>2 DEF Remove, Inv
    <2>2. before' = {r \in before : r[1] \notin gone /\ r[2] \notin gone}
      BY <1>2 DEF Remove
    <2> HIDE DEF gone
    <2> QED
      BY <2>1, <2>2, LeavingInv
  <1>3. ASSUME NEW p \in Peers, Quiet(p)
        PROVE  Inv'
    <2>1. Held' = Held /\ before' = before /\ owed' \in Nat
      BY <1>3 DEF Quiet, Held, Inv
    <2>2. \A q \in Held : items'[q] \in Item /\ Healthy(items'[q])
      BY <1>3 DEF Quiet, Inv, Held, Item, Healthy
    <2> QED
      BY <2>1, <2>2, KeepsInv
  <1>4. ASSUME NEW p \in Peers, NEW r \in {"ok", "limited", "failed"}, RecordResult(p, r)
        PROVE  Inv'
    BY <1>4, RecordInv DEF RecordResult
  <1>5. ASSUME NEW p \in Pingable, HealthOK(p)
        PROVE  Inv'
    <2>1. Held' = Held /\ before' = before /\ owed' \in Nat
      BY <1>5 DEF HealthOK, Held, Inv
    <2>2. \A q \in Held : items'[q] \in Item /\ Healthy(items'[q])
      BY <1>5, PoolAssumption DEF HealthOK, Inv, Held, Item, Healthy
    <2> QED
      BY <2>1, <2>2, KeepsInv
  <1>6. ASSUME NEW p \in Pingable, NEW r \in {"limited", "failed"}, HealthError(p, r)
        PROVE  Inv'
    <2>1. CASE p \in Held
      BY <1>6, <2>1, RecordInv DEF HealthError
    <2>2. CASE p \notin Held
      BY <1>6, <2>2 DEF HealthError, Inv, Held
    <2> QED
      BY <2>1, <2>2
  <1>7. CASE Prune
    <2>1. owed' \in Nat
      BY <1>7 DEF Prune, Inv
    <2>2. CASE UNCHANGED <<items, before, protected>>
      BY <2>1, <2>2 DEF Inv, Held
    <2>3. CASE \E gone \in Evictions : Evict(gone)
      BY <2>1, <2>3, LeavingInv DEF Evict
    <2> QED
      BY <1>7, <2>2, <2>3 DEF Prune
  <1>8. ASSUME NEW p \in Pinned, Protect(p) \/ Unprotect(p)
        PROVE  Inv'
    BY <1>8 DEF Protect, Unprotect, Inv, Held
  <1>9. CASE HealthTick(Pingable) \/ UNCHANGED poolVars
    BY <1>9 DEF HealthTick, poolVars, Inv, Held
  <1> QED
    BY <1>1, <1>2, <1>3, <1>4, <1>5, <1>6, <1>7, <1>8, <1>9 DEF Next

\* The invariant holds throughout.
LEMMA Invariance == Spec => []Inv
  BY InitInv, NextInv, PTL DEF Spec

\* A proven relay has fewer failures in a row than demote it, and its circuit is
\* closed, whatever results and health checks of however many callers interleave
\* (RecordResult, the health check): for every pair of thresholds of which the
\* circuit's is not the lower.
THEOREM HealthTheorem == Spec => []MainIsHealthy
  <1>1. Inv => MainIsHealthy
    BY DEF Inv, MainIsHealthy, Main, Healthy
  <1> QED
    BY <1>1, Invariance, PTL

-----------------------------------------------------------------------------

\* Neither tier's pass takes a shielded relay: those over probation take relays on
\* probation, and the rounds over main take candidates only.
LEMMA EvictionsSpare ==
    ASSUME NEW gone \in Evictions, NEW p \in Main, p \in protected \/ items[p].recent
    PROVE  p \notin gone
  <1> DEFINE first == Oldest(Probation, Quotas.probation)
  <1>1. PICK out \in UNION {AnyOf(Exposed(top), Quotas.main) : top \in AnyOf(Candidates, TopCount)} :
           gone = first \cup out \cup Oldest(Probation \ first, Quotas.main - Cardinality(out))
    BY DEF Evictions
  <1>2. p \notin out
    BY DEF AnyOf, kSubset, Exposed, Candidates
  <1>3. p \notin first
    BY DEF Oldest, Probation
  <1>4. p \notin Oldest(Probation \ first, Quotas.main - Cardinality(out))
    <2> HIDE DEF first
    <2> QED
      BY DEF Oldest, Probation
  <1> QED
    BY <1>1, <1>2, <1>3, <1>4

\* Only prune lowers the number of callers that have yet to prune.
LEMMA OnlyPrune ==
    ASSUME Inv, Next, owed' < owed
    PROVE  Prune
  <1>1. owed' # owed /\ owed' # owed + 1
    BY DEF Inv
  <1> QED
    BY <1>1, Zenon DEF Next, Add, Remove, Quiet, Protect, Unprotect, RecordResult,
                       Record, HealthTick, HealthOK, HealthError

\* prune never evicts a proven relay that is protected or was active in the last
\* five minutes, for every pair of water marks and every ranking of the relays
\* (prune and its three rounds).
THEOREM ShieldTheorem == Spec => ShieldedSurvive
  <1>1. ASSUME Inv, Next, owed' < owed,
               NEW p \in Main, p \in protected \/ items[p].recent
        PROVE  p \in DOMAIN items'
    <2>1. Prune
      BY <1>1, OnlyPrune
    <2>2. p \in Held
      BY DEF Main
    <2>3. CASE items' = items
      BY <2>2, <2>3 DEF Held
    <2>4. CASE \E gone \in Evictions : Evict(gone)
      BY <1>1, <2>2, <2>4, EvictionsSpare DEF Evict
    <2> QED
      BY <2>1, <2>3, <2>4 DEF Prune
  <1>2. Inv /\ [Next]_poolVars =>
           [owed' < owed => \A p \in Main :
               p \in protected \/ items[p].recent => p \in DOMAIN items']_poolVars
    BY <1>1
  <1> QED
    BY <1>2, InitInv, NextInv, PTL DEF Spec, ShieldedSurvive

-----------------------------------------------------------------------------
\* What the passes over probation take

\* A relay of S goes before a younger one of S.
LEMMA OldestFirst ==
    ASSUME Inv, NEW S \in SUBSET Held, NEW n \in Nat,
           NEW p \in S, NEW q \in Oldest(S, n), <<p, q>> \in before
    PROVE  p \in Oldest(S, n)
  <1> DEFINE Below(x) == {o \in S : <<o, x>> \in before}
  <1>1. IsFiniteSet(S) /\ q \in S
    BY FS_Subset DEF Inv, Oldest
  <1>2. Below(p) \subseteq Below(q)
    BY <1>1 DEF Inv, Orders
  <1>3. IsFiniteSet(Below(q)) /\ Below(p) \in SUBSET Below(q)
    BY <1>1, <1>2, FS_Subset
  <1>4. Cardinality(Below(q)) < n
    BY DEF Oldest
  <1>5. Cardinality(Below(p)) \in Nat /\ Cardinality(Below(q)) \in Nat
    BY <1>1, FS_Subset, FS_CardinalityType
  <1>6. Cardinality(Below(p)) <= Cardinality(Below(q))
    <2> HIDE DEF Below
    <2> QED
      BY <1>3, FS_Subset
  <1>7. Cardinality(Below(p)) < n
    <2> HIDE DEF Below
    <2> QED
      BY <1>4, <1>5, <1>6
  <1> QED
    BY <1>7 DEF Oldest

\* There are as many oldest relays as are asked for, or all of them: the number of
\* relays before each counts S from 0 on without a gap.
LEMMA OldestCount ==
    ASSUME Inv, NEW S \in SUBSET Held, NEW n \in Nat
    PROVE  /\ IsFiniteSet(Oldest(S, n))
           /\ Cardinality(Oldest(S, n)) = IF n < Cardinality(S) THEN n ELSE Cardinality(S)
  <1> DEFINE Below(x) == {o \in S : <<o, x>> \in before}
             m == Cardinality(S)
             k == IF n < m THEN n ELSE m
             rank == [x \in S |-> Cardinality(Below(x))]
             T == Oldest(S, n)
  <1>1. IsFiniteSet(S) /\ m \in Nat /\ k \in Nat /\ k <= m
    BY FS_Subset, FS_CardinalityType DEF Inv
  <1>2. ASSUME NEW x \in S
        PROVE  rank[x] \in 0 .. m - 1
    <2>1. Below(x) \in SUBSET S /\ Below(x) # S
      BY <1>2 DEF Inv, Orders
    <2>2. /\ Cardinality(Below(x)) \in Nat /\ Cardinality(Below(x)) <= m /\ Cardinality(Below(x)) # m
      <3> HIDE DEF Below
      <3> QED
        BY <1>1, <2>1, FS_Subset, FS_CardinalityType
    <2> QED
      BY <1>1, <1>2, <2>2
  <1>3. ASSUME NEW x \in S, NEW y \in S, <<x, y>> \in before
        PROVE  rank[x] < rank[y]
    <2>1. Below(x) \in SUBSET Below(y) /\ Below(x) # Below(y) /\ Below(y) \in SUBSET S
      BY <1>3 DEF Inv, Orders
    <2>2. /\ Cardinality(Below(x)) \in Nat /\ Cardinality(Below(y)) \in Nat
          /\ Cardinality(Below(x)) <= Cardinality(Below(y)) /\ Cardinality(Below(x)) # Cardinality(Below(y))
      <3> HIDE DEF Below
      <3>1. IsFiniteSet(Below(y))
        BY <1>1, <2>1, FS_Subset
      <3>2. IsFiniteSet(Below(x))
        BY <2>1, <3>1, FS_Subset
      <3> QED
        BY <2>1, <3>1, <3>2, FS_Subset, FS_CardinalityType
    <2> QED
      BY <1>3, <2>2
  <1>4. \A x \in S : rank[x] = Cardinality(Below(x))
    OBVIOUS
  <1>5. rank \in [S -> 0 .. m - 1]
    BY <1>2
  <1> HIDE DEF rank, m
  <1>6. \A x, y \in S : rank[x] = rank[y] => x = y
    <2>1. SUFFICES ASSUME NEW x \in S, NEW y \in S, x # y
                   PROVE  rank[x] # rank[y]
      OBVIOUS
    <2>2. <<x, y>> \in before \/ <<y, x>> \in before
      BY <2>1 DEF Inv, Orders
    <2>3. rank[x] \in Nat /\ rank[y] \in Nat
      BY <1>1, <1>2
    <2> QED
      BY <1>3, <2>2, <2>3
  <1>7. rank \in Injection(S, 0 .. m - 1)
    BY <1>5, <1>6 DEF Injection, IsInjective
  <1>8. \A c \in Nat : IsFiniteSet(0 .. c - 1) /\ Cardinality(0 .. c - 1) = c
    <2>1. SUFFICES ASSUME NEW c \in Nat
                   PROVE  IsFiniteSet(0 .. c - 1) /\ Cardinality(0 .. c - 1) = c
      OBVIOUS
    <2>2. 0 \in Int /\ c - 1 \in Int
      OBVIOUS
    <2>3. /\ IsFiniteSet(0 .. c - 1)
          /\ Cardinality(0 .. c - 1) = IF 0 > c - 1 THEN 0 ELSE (c - 1) - 0 + 1
      BY <2>2, FS_Interval
    <2> QED
      BY <2>3
  <1>9. rank \in Surjection(S, 0 .. m - 1)
    <2>1. IsFiniteSet(0 .. m - 1) /\ Cardinality(0 .. m - 1) = Cardinality(S)
      BY <1>1, <1>8 DEF m
    <2> QED
      BY <1>7, <2>1, FS_Injection
  <1>10. T = {x \in S : rank[x] < n} /\ T \subseteq S
    BY <1>4 DEF Oldest
  <1> HIDE DEF T, k
  <1>11. \A x \in T : rank[x] \in 0 .. k - 1
    <2>1. SUFFICES ASSUME NEW x \in T PROVE rank[x] \in 0 .. k - 1
      OBVIOUS
    <2>2. rank[x] \in 0 .. m - 1 /\ rank[x] < n
      BY <1>2, <1>10
    <2> QED
      BY <1>1, <2>2 DEF k
  <1> DEFINE f == [x \in T |-> rank[x]]
  <1>12. f \in Injection(T, 0 .. k - 1)
    <2>1. f \in [T -> 0 .. k - 1]
      BY <1>11
    <2>2. \A x, y \in T : f[x] = f[y] => x = y
      BY <1>6, <1>10
    <2> QED
      BY <2>1, <2>2 DEF Injection, IsInjective
  <1>13. f \in Surjection(T, 0 .. k - 1)
    <2>1. \A i \in 0 .. k - 1 : \E x \in T : f[x] = i
      <3>1. SUFFICES ASSUME NEW i \in 0 .. k - 1 PROVE \E x \in T : f[x] = i
        OBVIOUS
      <3>2. i \in 0 .. m - 1 /\ i < n
        BY <1>1 DEF k
      <3>3. PICK x \in S : rank[x] = i
        BY <1>9, <3>2 DEF Surjection
      <3> QED
        BY <1>10, <3>2, <3>3
    <2>2. f \in [T -> 0 .. k - 1]
      BY <1>11
    <2> QED
      BY <2>1, <2>2 DEF Surjection
  <1>14. IsFiniteSet(0 .. k - 1) /\ Cardinality(0 .. k - 1) = k
    BY <1>1, <1>8
  <1> HIDE DEF f
  <1>15. IsFiniteSet(T) /\ Cardinality(T) = k
    BY <1>12, <1>13, <1>14, FS_Injection
  <1> QED
    BY <1>15 DEF T, k, m

-----------------------------------------------------------------------------
\* How much prune takes

\* Cardinalities of a part and of the rest.
LEMMA Parts ==
    ASSUME NEW S, IsFiniteSet(S), NEW T \in SUBSET S
    PROVE  /\ IsFiniteSet(T) /\ IsFiniteSet(S \ T)
           /\ Cardinality(S) \in Nat /\ Cardinality(T) \in Nat /\ Cardinality(S \ T) \in Nat
           /\ Cardinality(S) = Cardinality(T) + Cardinality(S \ T)
  <1>1. IsFiniteSet(T) /\ IsFiniteSet(S \ T) /\ S \cap T = T
    BY FS_Subset, FS_Difference
  <1>2. Cardinality(S) \in Nat /\ Cardinality(T) \in Nat /\ Cardinality(S \ T) \in Nat
    BY <1>1, FS_CardinalityType
  <1>3. Cardinality(S \ T) = Cardinality(S) - Cardinality(T)
    BY <1>1, FS_Difference
  <1> QED
    BY <1>1, <1>2, <1>3

\* Cardinalities of two sets with nothing in common.
LEMMA Apart ==
    ASSUME NEW S, IsFiniteSet(S), NEW T, IsFiniteSet(T), S \cap T = {}
    PROVE  IsFiniteSet(S \cup T) /\ Cardinality(S \cup T) = Cardinality(S) + Cardinality(T)
  <1>1. Cardinality(S) \in Nat /\ Cardinality(T) \in Nat
    BY FS_CardinalityType
  <1>2. /\ IsFiniteSet(S \cup T)
        /\ Cardinality(S \cup T) = Cardinality(S) + Cardinality(T) - Cardinality(S \cap T)
    BY FS_Union
  <1>3. Cardinality(S \cap T) = 0
    BY FS_EmptySet
  <1> QED
    BY <1>1, <1>2, <1>3

\* A set that a ranking puts first.
LEMMA AnyOfProps ==
    ASSUME NEW S, IsFiniteSet(S), NEW n \in Nat, NEW T \in AnyOf(S, n)
    PROVE  /\ T \subseteq S /\ IsFiniteSet(T) /\ Cardinality(T) \in Nat /\ Cardinality(T) <= n
           /\ Cardinality(T) < n => T = S
  <1> DEFINE c == Cardinality(S)
  <1>1. c \in Nat
    BY FS_CardinalityType
  <1>2. T \in SUBSET S /\ Cardinality(T) = Min({n, c})
    BY DEF AnyOf, kSubset
  <1>3. Min({n, c}) = IF n <= c THEN n ELSE c
    <2> HIDE DEF c
    <2> DEFINE x == IF n <= c THEN n ELSE c
    <2>1. x \in {n, c} /\ \A y \in {n, c} : x <= y
      BY <1>1
    <2>2. \A z \in {n, c} : (\A y \in {n, c} : z <= y) => z = x
      BY <1>1
    <2> HIDE DEF x
    <2>3. Min({n, c}) = x
      BY <2>1, <2>2, Zenon DEF Min
    <2> QED
      BY <2>3 DEF x
  <1>4. IsFiniteSet(T) /\ (Cardinality(S) = Cardinality(T) => S = T)
    BY <1>2, FS_Subset
  <1> QED
    BY <1>1, <1>2, <1>3, <1>4

\* The quotas add up to the excess, and probation has its part.
LEMMA QuotaProps ==
    ASSUME Inv, Cardinality(Held) > HighWater
    PROVE  /\ IsFiniteSet(Main) /\ IsFiniteSet(Probation)
           /\ Quotas.main \in Nat /\ Quotas.probation \in Nat
           /\ Quotas.probation <= Cardinality(Probation)
           /\ Quotas.probation + Quotas.main = Cardinality(Held) - LowWater
  <1> DEFINE need  == Cardinality(Held) - LowWater
             half  == need \div 2
             P     == Cardinality(Probation)
             M     == Cardinality(Main)
             prob  == IF half > P THEN P ELSE half
             main  == need - prob
             taken == IF main > M THEN M ELSE main
  <1>1. Main \in SUBSET Held /\ Probation = Held \ Main /\ IsFiniteSet(Held)
    BY DEF Main, Probation, Inv
  <1>2. /\ IsFiniteSet(Main) /\ IsFiniteSet(Probation) /\ Cardinality(Held) \in Nat /\ M \in Nat /\ P \in Nat
        /\ Cardinality(Held) = M + P
    BY <1>1, Parts
  <1>3. Quotas.probation = need - taken /\ Quotas.main = taken
    BY DEF Quotas
  <1>4. need \in Nat /\ need = M + P - LowWater /\ LowWater \in Nat
    BY <1>2, PoolAssumption
  <1> HIDE DEF need, P, M
  <1>5. half \in Nat /\ half <= need
    BY <1>4
  <1> HIDE DEF half
  <1>6. prob \in Nat /\ prob <= P /\ prob <= need
    BY <1>2, <1>4, <1>5
  <1> HIDE DEF prob
  <1>7. taken \in Nat /\ taken <= need /\ need - taken <= P
    BY <1>2, <1>4, <1>6
  <1> QED
    BY <1>2, <1>3, <1>4, <1>7 DEF need, P

\* What is evicted: the oldest of probation, exposed relays, and more of probation for
\* the exposed relays that are lacking.
LEMMA EvictedParts ==
    ASSUME Inv, Cardinality(Held) > HighWater, NEW gone \in Evictions
    PROVE  \E first, out, more, top :
              /\ gone = first \cup out \cup more
              /\ first = Oldest(Probation, Quotas.probation)
              /\ top \in AnyOf(Candidates, TopCount) /\ out \in AnyOf(Exposed(top), Quotas.main)
              /\ more = Oldest(Probation \ first, Quotas.main - Cardinality(out))
  <1> DEFINE first == Oldest(Probation, Quotas.probation)
  <1>1. PICK out \in UNION {AnyOf(Exposed(top), Quotas.main) : top \in AnyOf(Candidates, TopCount)} :
           gone = first \cup out \cup Oldest(Probation \ first, Quotas.main - Cardinality(out))
    BY DEF Evictions
  <1>2. PICK top \in AnyOf(Candidates, TopCount) : out \in AnyOf(Exposed(top), Quotas.main)
    BY <1>1
  <1> QED
    BY <1>1, <1>2

\* The parts of the pool that the rounds over main go by.
LEMMA MainParts ==
    ASSUME Inv, NEW top \in AnyOf(Candidates, TopCount)
    PROVE  /\ IsFiniteSet(Main) /\ IsFiniteSet(Candidates) /\ Candidates \subseteq Main
           /\ Exposed(top) \subseteq Candidates /\ IsFiniteSet(Exposed(top)) /\ TopCount \in Nat
           /\ IsFiniteSet(Candidates \ Exposed(top))
           /\ Cardinality(Candidates \ Exposed(top)) \in Nat
           /\ Cardinality(Candidates \ Exposed(top)) <= TopCount + UptimeK
  <1> DEFINE rest == Candidates \ top
             old == Oldest(rest, UptimeK)
  <1>1. Candidates \subseteq Main /\ Main \subseteq Held /\ IsFiniteSet(Held) /\ UptimeK \in Nat
    BY PoolAssumption DEF Candidates, Main, Inv
  <1>2. IsFiniteSet(Main) /\ IsFiniteSet(Candidates)
    BY <1>1, FS_Subset
  <1>3. TopCount \in Nat
    <2>1. Cardinality(Candidates) \in Nat
      BY <1>2, FS_CardinalityType
    <2> QED
      BY <2>1 DEF TopCount
  <1>4. top \subseteq Candidates /\ IsFiniteSet(top) /\ Cardinality(top) \in Nat /\ Cardinality(top) <= TopCount
    BY <1>2, <1>3, AnyOfProps
  <1>5. rest \in SUBSET Held
    BY <1>1
  <1>6. IsFiniteSet(rest) /\ Cardinality(rest) \in Nat
    BY <1>1, <1>5, FS_Subset, FS_CardinalityType
  <1>7. Exposed(top) = rest \ old
    BY DEF Exposed
  <1>8. old \subseteq rest
    BY DEF Oldest
  <1>9. IsFiniteSet(old) /\ Cardinality(old) \in Nat /\ Cardinality(old) <= UptimeK
    <2>1. IsFiniteSet(old) /\ Cardinality(old) = IF UptimeK < Cardinality(rest) THEN UptimeK ELSE Cardinality(rest)
      BY <1>1, <1>5, OldestCount
    <2> QED
      BY <1>1, <1>6, <2>1
  <1> HIDE DEF old
  <1>10. Candidates \ Exposed(top) = top \cup old /\ top \cap old = {} /\ Exposed(top) \subseteq Candidates
    BY <1>4, <1>7, <1>8
  <1>11. IsFiniteSet(top \cup old) /\ Cardinality(top \cup old) = Cardinality(top) + Cardinality(old)
    BY <1>4, <1>9, <1>10, Apart
  <1>12. IsFiniteSet(Exposed(top))
    BY <1>2, <1>10, FS_Subset
  <1> QED
    BY <1>1, <1>2, <1>3, <1>4, <1>9, <1>10, <1>11, <1>12

\* prune takes the whole excess, or all of probation and every exposed relay.
LEMMA PruneCount ==
    ASSUME Inv, Cardinality(Held) > HighWater, NEW gone \in Evictions
    PROVE  /\ Cardinality(Held \ gone) \in Nat /\ Cardinality(Held \ gone) >= LowWater
           /\ Cardinality(Held \ gone) > LowWater =>
                 /\ Held \ gone \subseteq Main
                 /\ Cardinality((Held \ gone) \cap Candidates) <= TopCount + UptimeK
  <1> DEFINE left == Held \ gone
             qp == Quotas.probation
             qm == Quotas.main
  <1>1. PICK first, out, more, top :
              /\ gone = first \cup out \cup more
              /\ first = Oldest(Probation, Quotas.probation)
              /\ top \in AnyOf(Candidates, TopCount) /\ out \in AnyOf(Exposed(top), Quotas.main)
              /\ more = Oldest(Probation \ first, Quotas.main - Cardinality(out))
    BY EvictedParts
  <1> DEFINE R == Probation \ first
             P == Cardinality(Probation)
             k == qm - Cardinality(out)
  <1>2. /\ IsFiniteSet(Main) /\ IsFiniteSet(Probation) /\ qm \in Nat /\ qp \in Nat
        /\ qp <= P /\ qp + qm = Cardinality(Held) - LowWater
    BY QuotaProps
  <1>3. /\ Main \subseteq Held /\ Probation = Held \ Main /\ IsFiniteSet(Held) /\ LowWater \in Nat
        /\ UptimeK \in Nat
    BY PoolAssumption DEF Main, Probation, Inv
  <1>4. /\ Candidates \subseteq Main /\ Exposed(top) \subseteq Candidates /\ IsFiniteSet(Exposed(top))
        /\ TopCount \in Nat /\ IsFiniteSet(Candidates \ Exposed(top))
        /\ Cardinality(Candidates \ Exposed(top)) \in Nat
        /\ Cardinality(Candidates \ Exposed(top)) <= TopCount + UptimeK
    BY <1>1, MainParts
  <1>5. /\ out \subseteq Exposed(top) /\ IsFiniteSet(out) /\ Cardinality(out) \in Nat /\ Cardinality(out) <= qm
        /\ Cardinality(out) < qm => out = Exposed(top)
    BY <1>1, <1>2, <1>4, AnyOfProps
  <1>6. k \in Nat
    BY <1>2, <1>5
  <1>7. P \in Nat
    BY <1>2, FS_CardinalityType
  <1>8. first \subseteq Probation /\ IsFiniteSet(first) /\ Cardinality(first) = qp
    <2>1. first \subseteq Probation
      BY <1>1 DEF Oldest
    <2>2. IsFiniteSet(first) /\ Cardinality(first) = IF qp < P THEN qp ELSE P
      <3>1. Probation \in SUBSET Held
        BY <1>3
      <3> QED
        BY <1>1, <1>2, <3>1, OldestCount
    <2> QED
      BY <1>2, <1>7, <2>1, <2>2
  <1>9. more \subseteq R /\ R \in SUBSET Held /\ IsFiniteSet(R) /\ Cardinality(R) \in Nat
    <2>1. R \in SUBSET Held
      BY <1>3
    <2>2. more \subseteq R
      BY <1>1 DEF Oldest
    <2> QED
      BY <1>3, <2>1, <2>2, FS_Subset, FS_CardinalityType
  <1> HIDE DEF R
  <1>10. IsFiniteSet(more) /\ Cardinality(more) = IF k < Cardinality(R) THEN k ELSE Cardinality(R)
    <2>1. more = Oldest(R, k)
      BY <1>1 DEF R
    <2> QED
      BY <1>6, <1>9, <2>1, OldestCount
  <1> HIDE DEF k, qp, qm
  <1>11. first \cap out = {} /\ (first \cup out) \cap more = {} /\ gone \in SUBSET Held
    BY <1>1, <1>3, <1>4, <1>5, <1>8, <1>9 DEF R
  <1>12. Cardinality(gone) = qp + Cardinality(out) + Cardinality(more)
    <2>1. IsFiniteSet(first \cup out) /\ Cardinality(first \cup out) = qp + Cardinality(out)
      BY <1>5, <1>8, <1>11, Apart
    <2>2. Cardinality((first \cup out) \cup more) = Cardinality(first \cup out) + Cardinality(more)
      BY <1>10, <1>11, <2>1, Apart
    <2> QED
      BY <1>1, <2>1, <2>2
  <1>13. /\ Cardinality(left) \in Nat /\ Cardinality(gone) \in Nat /\ IsFiniteSet(left)
         /\ Cardinality(Held) = Cardinality(gone) + Cardinality(left) /\ Cardinality(Held) \in Nat
    BY <1>3, <1>11, Parts
  <1>14. Cardinality(more) \in Nat /\ Cardinality(more) <= k
    BY <1>6, <1>9, <1>10
  <1> HIDE DEF left
  <1>15. Cardinality(left) = LowWater + (k - Cardinality(more))
    BY <1>2, <1>3, <1>5, <1>12, <1>13, <1>14 DEF k
  <1>16. Cardinality(left) >= LowWater
    BY <1>3, <1>6, <1>14, <1>15
  <1>17. ASSUME Cardinality(left) > LowWater
         PROVE  left \subseteq Main /\ Cardinality(left \cap Candidates) <= TopCount + UptimeK
    <2>1. Cardinality(more) < k
      BY <1>3, <1>6, <1>14, <1>15, <1>17
    <2>2. Cardinality(more) = Cardinality(R)
      BY <1>6, <1>9, <1>10, <2>1
    <2>3. more = R
      BY <1>9, <2>2, FS_Subset
    <2>4. out = Exposed(top)
      BY <1>2, <1>5, <1>14, <2>1 DEF k
    <2>5. left \subseteq Main
      BY <1>1, <1>3, <2>3 DEF left, R
    <2>6. left \cap Candidates \in SUBSET (Candidates \ Exposed(top))
      BY <1>1, <2>4 DEF left
    <2>7. /\ Cardinality(left \cap Candidates) <= Cardinality(Candidates \ Exposed(top))
          /\ Cardinality(left \cap Candidates) \in Nat
      BY <1>4, <2>6, FS_Subset, FS_CardinalityType
    <2> QED
      BY <1>3, <1>4, <2>5, <2>7
  <1> QED
    BY <1>13, <1>16, <1>17 DEF left

\* Of two relays on probation the older one goes first.
LEMMA PruneOrder ==
    ASSUME Inv, Cardinality(Held) > HighWater, NEW gone \in Evictions,
           NEW p \in Probation, NEW q \in Probation, <<p, q>> \in before, q \in gone
    PROVE  p \in gone
  <1>1. PICK first, out, more, top :
              /\ gone = first \cup out \cup more
              /\ first = Oldest(Probation, Quotas.probation)
              /\ top \in AnyOf(Candidates, TopCount) /\ out \in AnyOf(Exposed(top), Quotas.main)
              /\ more = Oldest(Probation \ first, Quotas.main - Cardinality(out))
    BY EvictedParts
  <1>2. Quotas.probation \in Nat /\ Quotas.main \in Nat
    BY QuotaProps
  <1>3. Exposed(top) \subseteq Main /\ IsFiniteSet(Exposed(top))
    BY <1>1, MainParts
  <1>4. out \subseteq Main /\ Quotas.main - Cardinality(out) \in Nat
    <2>1. out \subseteq Exposed(top) /\ Cardinality(out) \in Nat /\ Cardinality(out) <= Quotas.main
      BY <1>1, <1>2, <1>3, AnyOfProps
    <2> QED
      BY <1>2, <1>3, <2>1
  <1>5. q \notin out /\ Probation \in SUBSET Held /\ Probation \ first \in SUBSET Held
    BY <1>4 DEF Probation
  <1>6. CASE q \in first
    BY <1>1, <1>2, <1>5, <1>6, OldestFirst
  <1>7. CASE q \in more /\ p \notin first
    <2>1. p \in Probation \ first
      BY <1>7
    <2> QED
      BY <1>1, <1>4, <1>5, <1>7, <2>1, OldestFirst
  <1> QED
    BY <1>1, <1>5, <1>6, <1>7

\* prune goes down to the low-water mark exactly, or keeps only proven relays that
\* its rounds protect, for every pair of water marks and every number of relays in
\* either tier (RelayPool.prune and the quotas it moves between the tiers).
THEOREM TargetTheorem == Spec => PruneTarget
  <1> DEFINE left == DOMAIN items'
             Met == /\ Cardinality(left) >= LowWater
                    /\ Cardinality(left) > LowWater =>
                          /\ left \subseteq Main
                          /\ Cardinality(left \cap Candidates) <= TopCount + UptimeK
  <1>1. ASSUME Inv, Next, owed' < owed, Cardinality(Held) > HighWater
        PROVE  Met
    <2>1. Prune /\ ~(Cardinality(Held) <= HighWater)
      <3>1. Cardinality(Held) \in Nat /\ HighWater \in Nat
        BY <1>1, FS_CardinalityType, PoolAssumption DEF Inv
      <3> QED
        BY <1>1, <3>1, OnlyPrune
    <2>2. PICK gone \in Evictions : Evict(gone)
      BY <2>1, Zenon DEF Prune
    <2>3. left = Held \ gone
      BY <2>2 DEF Evict
    <2> HIDE DEF left
    <2> QED
      BY <1>1, <2>3, PruneCount
  <1>2. Inv /\ [Next]_poolVars =>
           [owed' < owed /\ Cardinality(Held) > HighWater => Met]_poolVars
    <2> HIDE DEF Met
    <2> QED
      BY <1>1
  <1> QED
    BY <1>2, InitInv, NextInv, PTL DEF Spec, PruneTarget

\* Probation is first in, first out, over both passes of prune that evict from it
\* and whatever quota main hands back (RelayPool.prune).
THEOREM FIFOTheorem == Spec => ProbationFIFO
  <1>1. ASSUME Inv, Next, owed' < owed, NEW p \in Probation, NEW q \in Probation,
               <<p, q>> \in before, q \notin DOMAIN items'
        PROVE  p \notin DOMAIN items'
    <2>1. Prune
      BY <1>1, OnlyPrune
    <2>2. p \in Held /\ q \in Held
      BY DEF Probation
    <2>3. items' # items
      BY <1>1, <2>2 DEF Held
    <2>4. ~(Cardinality(Held) <= HighWater)
      BY <2>1, <2>3, Zenon DEF Prune
    <2>5. PICK gone \in Evictions : Evict(gone)
      BY <2>1, <2>4, Zenon DEF Prune
    <2>6. DOMAIN items' = Held \ gone
      BY <2>5 DEF Evict
    <2>7. Cardinality(Held) > HighWater
      BY <1>1, <2>4, FS_CardinalityType, PoolAssumption DEF Inv
    <2>8. q \in gone
      BY <1>1, <2>2, <2>6
    <2> QED
      BY <1>1, <2>6, <2>7, <2>8, PruneOrder
  <1>2. Inv /\ [Next]_poolVars =>
           [owed' < owed =>
              \A p, q \in Probation :
                 <<p, q>> \in before /\ q \notin DOMAIN items' => p \notin DOMAIN items']_poolVars
    BY <1>1
  <1> QED
    BY <1>2, InitInv, NextInv, PTL DEF Spec, ProbationFIFO

-----------------------------------------------------------------------------
\* The pool at rest

\* Fewer relays and none demoted: nothing joins probation.
LEMMA ShrinkKeeps ==
    ASSUME Inv, NoIdleExcess, Held' \subseteq Held, owed' = owed,
           \A q \in Held' : items'[q].inMain = items[q].inMain
    PROVE  NoIdleExcess'
  <1>1. SUFFICES ASSUME owed' = 0, Cardinality(Held') > HighWater
                 PROVE  Probation' = {}
    BY DEF NoIdleExcess
  <1>2. IsFiniteSet(Held) /\ Held' \in SUBSET Held
    BY DEF Inv
  <1>3. /\ Cardinality(Held') <= Cardinality(Held)
        /\ Cardinality(Held) \in Nat /\ Cardinality(Held') \in Nat /\ HighWater \in Nat
    BY <1>2, FS_Subset, FS_CardinalityType, PoolAssumption
  <1>4. Probation = {}
    BY <1>1, <1>3 DEF NoIdleExcess
  <1> QED
    BY <1>4 DEF Probation, Main

\* A prune that leaves the pool above the low-water mark leaves no probation.
LEMMA PruneRests ==
    ASSUME Inv, Prune
    PROVE  NoIdleExcess'
  <1>1. Cardinality(Held) \in Nat /\ HighWater \in Nat /\ LowWater \in Nat /\ LowWater <= HighWater
    BY FS_CardinalityType, PoolAssumption DEF Inv
  <1>2. CASE Cardinality(Held) <= HighWater
    <2>1. Held' = Held
      BY <1>2, Zenon DEF Prune, Held
    <2>2. ~(Cardinality(Held') > HighWater)
      BY <1>1, <1>2, <2>1
    <2> QED
      BY <2>2 DEF NoIdleExcess
  <1>3. CASE ~(Cardinality(Held) <= HighWater)
    <2>1. PICK gone \in Evictions : Evict(gone)
      BY <1>3, Zenon DEF Prune
    <2>2. Held' = Held \ gone /\ \A q \in Held' : items'[q] = items[q]
      BY <2>1 DEF Evict, Held
    <2>3. Cardinality(Held) > HighWater
      BY <1>1, <1>3
    <2>4. /\ Cardinality(Held \ gone) \in Nat
          /\ Cardinality(Held \ gone) > LowWater => Held \ gone \subseteq Main
      BY <2>3, PruneCount
    <2>5. Cardinality(Held') > HighWater => Held' \subseteq Main
      BY <1>1, <2>2, <2>4
    <2>6. Held' \subseteq Main => Probation' = {}
      BY <2>2 DEF Main, Probation
    <2> QED
      BY <2>5, <2>6 DEF NoIdleExcess
  <1> QED
    BY <1>2, <1>3

\* Once every caller has pruned, a pool above its high-water mark holds proven
\* relays only, however many callers update it and prune it and in whatever order
\* they do (Add, RecordResult and the health check unlock before they prune).
THEOREM RestTheorem == Spec => []NoIdleExcess
  <1>1. PoolInit => NoIdleExcess
    BY DEF PoolInit, NoIdleExcess, Probation, Main, Held
  <1>2. ASSUME Inv, NoIdleExcess, [Next]_poolVars
        PROVE  NoIdleExcess'
    <2>1. ASSUME owed' = owed + 1
          PROVE  NoIdleExcess'
      <3>1. owed' # 0
        BY <1>2, <2>1 DEF Inv
      <3> QED
        BY <3>1 DEF NoIdleExcess
    <2>2. ASSUME items' = items, owed' = owed
          PROVE  NoIdleExcess'
      BY <1>2, <2>2, ShrinkKeeps DEF Held
    <2>3. ASSUME NEW p, Remove(p)
          PROVE  NoIdleExcess'
      <3>1. Held' \subseteq Held /\ owed' = owed /\ \A q \in Held' : items'[q].inMain = items[q].inMain
        BY <2>3 DEF Remove, Held
      <3> QED
        BY <1>2, <3>1, ShrinkKeeps
    <2>4. ASSUME NEW p, Quiet(p)
          PROVE  NoIdleExcess'
      <3>1. /\ Held' \subseteq Held /\ owed' = owed
            /\ \A q \in Held' : items'[q].inMain = items[q].inMain
        BY <1>2, <2>4 DEF Quiet, Held, Inv, Item
      <3> QED
        BY <1>2, <3>1, ShrinkKeeps
    <2>5. ASSUME NEW p, HealthOK(p)
          PROVE  NoIdleExcess'
      <3>1. /\ Held' \subseteq Held /\ owed' = owed
            /\ \A q \in Held' : items'[q].inMain = items[q].inMain
        BY <1>2, <2>5 DEF HealthOK, Held, Inv, Item
      <3> QED
        BY <1>2, <3>1, ShrinkKeeps
    <2>6. CASE Prune
      BY <1>2, <2>6, PruneRests
    <2>7. CASE UNCHANGED poolVars
      BY <2>2, <2>7 DEF poolVars
    <2>8. ASSUME NEW p, NEW result, RecordResult(p, result) \/ HealthError(p, result)
          PROVE  NoIdleExcess'
      BY <2>1, <2>2, <2>8, Zenon DEF RecordResult, HealthError, Record
    <2>9. ASSUME NEW p, Add(p) \/ Protect(p) \/ Unprotect(p) \/ HealthTick(Pingable)
          PROVE  NoIdleExcess'
      BY <2>1, <2>2, <2>9, Zenon DEF Add, Protect, Unprotect, HealthTick
    <2> QED
      BY <1>2, <2>3, <2>4, <2>5, <2>6, <2>7, <2>8, <2>9, Zenon DEF Next
  <1> QED
    BY <1>1, <1>2, InitInv, NextInv, PTL DEF Spec

-----------------------------------------------------------------------------
\* The manager

\* While the refill loop runs, the relays managed and those it has yet to visit
\* are at most K together.  What the two loops that call the host without a look
\* at the circuit have yet to visit has its circuit closed, and is not the relay
\* of the call in progress, whose result may open it.
ManagerInv ==
    /\ Held = Peers /\ managed \subseteq Peers /\ todo \subseteq Peers
    /\ Cardinality(managed) <= K
    /\ pc = "start" => managed = {} /\ call = NoCall
    /\ pc = "fill" => Cardinality(managed) + Cardinality(todo) <= K
    /\ pc \in {"initial", "fill"} => \A p \in todo : ~IsCircuitOpen(p) /\ p # call.relay
    /\ NoOpenCalls

LEMMA ManagerInitInv == ManagerInit => ManagerInv
  <1> SUFFICES ASSUME ManagerInit
               PROVE  ManagerInv
    OBVIOUS
  <1>1. Held = Peers /\ managed = {} /\ todo = {} /\ call = NoCall /\ pc = "start"
    BY DEF ManagerInit, Held
  <1>2. Cardinality({}) <= K
    BY FS_EmptySet, ManagerAssumption
  <1> QED
    BY <1>1, <1>2 DEF ManagerInv, NoOpenCalls

\* The sets of relays have as many elements as their sizes say.
LEMMA ManagerFinite ==
    ASSUME NEW S \in SUBSET Peers
    PROVE  IsFiniteSet(S) /\ Cardinality(S) \in Nat /\ Cardinality(S) <= Cardinality(Peers)
  BY FS_Subset, FS_CardinalityType, ManagerAssumption

\* SelectN returns at most n relays, all with a closed circuit.
LEMMA SelectNProps ==
    ASSUME Held = Peers, NEW n \in Nat, NEW S \in SelectN(n)
    PROVE  /\ S \subseteq Peers /\ Cardinality(S) \in Nat /\ Cardinality(S) <= n
           /\ \A p \in S : ~IsCircuitOpen(p)
  <1> DEFINE C == {p \in Held : ~IsCircuitOpen(p)}
  <1>1. C \in SUBSET Peers /\ S \in AnyOf(C, n)
    BY DEF SelectN
  <1>2. IsFiniteSet(C)
    BY <1>1, ManagerFinite
  <1> HIDE DEF C
  <1>3. S \subseteq C /\ Cardinality(S) \in Nat /\ Cardinality(S) <= n
    BY <1>1, <1>2, AnyOfProps
  <1> QED
    BY <1>1, <1>3 DEF C

\* The result of a call changes the circuit of its relay alone, and a success
\* closes it.
LEMMA AnswerProps ==
    ASSUME ManagerInv, NEW result \in {"ok", "limited", "failed"}, Answer(result)
    PROVE  /\ Held' = Peers /\ UNCHANGED <<managed, pc, todo>>
           /\ \A p \in Peers : p # call.relay => (IsCircuitOpen(p)' <=> IsCircuitOpen(p))
           /\ result = "ok" => ~(call.relay \in Held' /\ items'[call.relay].circuitOpen)
  <1>1. CASE call.relay \in Held
    <2>1. items' = [items EXCEPT ![call.relay] = Recorded(@, result)] /\ UNCHANGED <<managed, pc, todo>>
      BY <1>1 DEF Answer, RecordResult, Record
    <2>2. Held' = Held
      BY <2>1 DEF Held
    <2>3. \A p \in Peers : p # call.relay => items'[p] = items[p]
      BY <2>1
    <2>4. result = "ok" => items'[call.relay].circuitOpen = FALSE
      BY <1>1, <2>1 DEF Recorded, Held
    <2> QED
      BY <2>1, <2>2, <2>3, <2>4 DEF IsCircuitOpen, ManagerInv
  <1>2. CASE call.relay \notin Held
    <2>1. UNCHANGED <<items, managed, pc, todo>>
      BY <1>2 DEF Answer, poolVars
    <2>2. Held' = Held
      BY <2>1 DEF Held
    <2> QED
      BY <1>2, <2>1, <2>2 DEF IsCircuitOpen, ManagerInv
  <1> QED
    BY <1>1, <1>2

\* Every step keeps the invariant.
LEMMA ManagerNextInv ==
    ASSUME ManagerInv, [ManagerNext]_managerVars
    PROVE  ManagerInv'
  <1> USE DEF ManagerInv
  <1>0. NoPeer \notin Peers /\ NoCall.relay = NoPeer /\ K \in Nat
    BY ManagerAssumption DEF NoCall
  <1>1. CASE SelectInitial
    <2>1. PICK initial \in SelectN(K) : AddManaged(initial) /\ todo' = initial
      BY <1>1 DEF SelectInitial
    <2>2. /\ initial \subseteq Peers /\ Cardinality(initial) <= K
          /\ \A p \in initial : ~IsCircuitOpen(p)
      BY <1>0, SelectNProps
    <2>3. /\ items' = items /\ managed' = initial /\ todo' = initial /\ pc' = "initial"
          /\ call' = NoCall /\ call = NoCall
      BY <1>1, <2>1 DEF SelectInitial, AddManaged
    <2> QED
      BY <1>0, <2>2, <2>3 DEF Held, IsCircuitOpen, NoOpenCalls
  <1>2. ASSUME NEW p \in Peers, ReserveInitial(p)
        PROVE  ManagerInv'
    BY <1>0, <1>2 DEF ReserveInitial, poolVars, Held, IsCircuitOpen, NoOpenCalls
  <1>3. CASE AwaitTick \/ Tick
    BY <1>3 DEF AwaitTick, Tick, poolVars, Held, IsCircuitOpen, NoOpenCalls
  <1>4. ASSUME NEW p \in Peers, Check(p)
        PROVE  ManagerInv'
    BY <1>0, <1>4 DEF Check, poolVars, Held, IsCircuitOpen, NoOpenCalls
  <1>5. CASE Refill
    <2>1. /\ items' = items /\ managed' = managed \ toRemove /\ call' = NoCall /\ call = NoCall
          /\ pc' \in {"fill", "idle"}
      BY <1>5 DEF Refill, RemoveManaged, Free
    <2>2. Cardinality(managed') \in Nat /\ Cardinality(managed') <= K
      <3>1. /\ managed \in SUBSET Peers /\ managed' \in SUBSET managed
        BY <2>1
      <3>2. IsFiniteSet(managed) /\ Cardinality(managed) \in Nat
        BY <3>1, ManagerFinite
      <3>3. Cardinality(managed') <= Cardinality(managed) /\ Cardinality(managed') \in Nat
        BY <3>1, <3>2, FS_Subset, FS_CardinalityType
      <3> QED
        BY <1>0, <3>2, <3>3
    <2>3. CASE Cardinality(managed') < K
      <3>1. K - Cardinality(managed') \in Nat /\ todo' \in SelectN(K - Cardinality(managed'))
        BY <1>0, <1>5, <2>2, <2>3 DEF Refill
      <3>2. /\ todo' \subseteq Peers /\ Cardinality(todo') \in Nat
            /\ Cardinality(todo') <= K - Cardinality(managed')
            /\ \A p \in todo' : ~IsCircuitOpen(p)
        BY <3>1, SelectNProps
      <3>3. Cardinality(managed') + Cardinality(todo') <= K
        BY <1>0, <2>2, <3>2
      <3> QED
        BY <1>0, <2>1, <2>2, <3>2, <3>3 DEF Held, IsCircuitOpen, NoOpenCalls
    <2>4. CASE ~(Cardinality(managed') < K)
      <3>1. pc' = "idle" /\ todo' = {}
        BY <1>5, <2>4 DEF Refill
      <3> QED
        BY <2>1, <2>2, <3>1 DEF Held, IsCircuitOpen, NoOpenCalls
    <2> QED
      BY <2>3, <2>4
  <1>6. ASSUME NEW p \in Peers, Fill(p)
        PROVE  ManagerInv'
    <2>1. /\ items' = items /\ pc = "fill" /\ pc' = "fill" /\ p \in todo /\ todo' = todo \ {p}
          /\ call = NoCall
          /\ \/ managed' = managed /\ call' = NoCall
             \/ managed' = managed \cup {p} /\ call' = [kind |-> "connect", relay |-> p]
      BY <1>6 DEF Fill, Free, AddManaged, poolVars
    <2>2. /\ IsFiniteSet(todo) /\ IsFiniteSet(managed)
          /\ Cardinality(todo) \in Nat /\ Cardinality(managed) \in Nat
      BY ManagerFinite
    <2>3. Cardinality(todo') = Cardinality(todo) - 1
      BY <2>1, <2>2, FS_RemoveElement
    <2>4. /\ Cardinality(managed') \in Nat /\ Cardinality(managed') <= Cardinality(managed) + 1
      <3>1. CASE managed' = managed
        BY <2>2, <3>1
      <3>2. CASE managed' = managed \cup {p}
        <4>1. Cardinality(managed') = IF p \in managed THEN Cardinality(managed) ELSE Cardinality(managed) + 1
          BY <2>2, <3>2, FS_AddElement
        <4> QED
          BY <2>2, <4>1
      <3> QED
        BY <2>1, <3>1, <3>2
    <2>5. /\ Cardinality(managed') <= K
          /\ Cardinality(managed') + Cardinality(todo') <= K
      <3>1. Cardinality(todo') \in Nat
        BY <2>1, ManagerFinite
      <3> QED
        BY <1>0, <2>1, <2>2, <2>3, <2>4, <3>1
    <2> QED
      BY <1>0, <2>1, <2>5 DEF Held, IsCircuitOpen, NoOpenCalls
  <1>7. CASE PruneStep
    <2>1. Cardinality(Held) <= HighWater
      BY ManagerAssumption
    <2>2. UNCHANGED <<items, managed, pc, todo, call>>
      BY <1>7, <2>1, Zenon DEF PruneStep, Prune, loopVars
    <2> QED
      BY <2>2 DEF Held, IsCircuitOpen, NoOpenCalls
  <1>8. ASSUME NEW result \in {"ok", "limited", "failed"}, Connected(result)
        PROVE  ManagerInv'
    <2>1. /\ Held' = Peers /\ UNCHANGED <<managed, pc, todo>>
          /\ \A p \in Peers : p # call.relay => (IsCircuitOpen(p)' <=> IsCircuitOpen(p))
          /\ result = "ok" => ~(call.relay \in Held' /\ items'[call.relay].circuitOpen)
      BY <1>8, AnswerProps DEF Connected
    <2>2. pc # "start"
      BY <1>8 DEF Connected, NoCall
    <2>3. CASE result = "ok"
      <3>1. call' = [call EXCEPT !.kind = "reserve"]
        BY <1>8, <2>3 DEF Connected
      <3>2. call'.relay = call.relay
        BY <3>1
      <3> QED
        BY <2>1, <2>2, <2>3, <3>2 DEF NoOpenCalls, IsCircuitOpen
    <2>4. CASE result # "ok"
      <3>1. call' = NoCall
        BY <1>8, <2>4 DEF Connected
      <3> QED
        BY <1>0, <2>1, <2>2, <3>1 DEF NoOpenCalls
    <2> QED
      BY <2>3, <2>4
  <1>9. ASSUME NEW result \in {"ok", "limited", "failed"}, Reserved(result)
        PROVE  ManagerInv'
    <2>1. /\ Held' = Peers /\ UNCHANGED <<managed, pc, todo>>
          /\ \A p \in Peers : p # call.relay => (IsCircuitOpen(p)' <=> IsCircuitOpen(p))
      BY <1>9, AnswerProps DEF Reserved
    <2>2. pc # "start" /\ call' = NoCall
      BY <1>9 DEF Reserved, NoCall
    <2> QED
      BY <1>0, <2>1, <2>2 DEF NoOpenCalls
  <1>10. CASE (\E p \in Peers : Environment(p)) \/ UNCHANGED managerVars
    BY <1>10 DEF Environment, managerVars, poolVars, loopVars, Held, IsCircuitOpen, NoOpenCalls
  <1> QED
    BY <1>1, <1>2, <1>3, <1>4, <1>5, <1>6, <1>7, <1>8, <1>9, <1>10, Zenon DEF ManagerNext, Manager

\* At most K relays are managed at any time, for every number of static relays
\* below the high-water mark, every K and any number of failed calls
\* (relayPoolManager: the refill loop adds one relay per call of the host).
THEOREM ManagedTheorem == ManagerSpec => []ManagedBound
  <1>1. ManagerInv => ManagedBound
    BY DEF ManagerInv, ManagedBound
  <1> QED
    BY <1>1, ManagerInitInv, ManagerNextInv, PTL DEF ManagerSpec

\* The host is never asked for a relay whose circuit is open, for every number
\* of relays and any number of failures and of connections gained and lost while
\* a loop works through its list (relayPoolManager, doRelayReserve).
THEOREM OpenCallsTheorem == ManagerSpec => []NoOpenCalls
  <1>1. ManagerInv => NoOpenCalls
    BY DEF ManagerInv
  <1> QED
    BY <1>1, ManagerInitInv, ManagerNextInv, PTL DEF ManagerSpec

=============================================================================
