----------------------- MODULE AcquisitionRouterProofs -----------------------
(***************************************************************************)
(* Theorems about AcquisitionRouter, for any chain of collectors, pages,   *)
(* robots.txt files, replies, egress nodes and bounds.  They begin with    *)
(* the router's two parts.  AdapterCircuit: what the ranking returns, and  *)
(* what an outcome does to a circuit.  EgressPool: the node a selection    *)
(* yields, and that a failover moves off the node that failed.             *)
(***************************************************************************)
EXTENDS AcquisitionRouter, FiniteSetTheorems, FunctionTheorems, WellFoundedInduction, TLAPS

USE CircuitAssumption

-----------------------------------------------------------------------------
\* Sorting by score is a total order of the places.
LEMMA SoonerIsStrict ==
  ASSUME NEW default, NEW preferred, NEW last, NEW i \in Nat, NEW j \in Nat, NEW k \in Nat
  PROVE  /\ ~Sooner(default, preferred, last, i, i)
         /\ Sooner(default, preferred, last, i, j) /\ Sooner(default, preferred, last, j, k)
              => Sooner(default, preferred, last, i, k)
         /\ i # j => \/ Sooner(default, preferred, last, i, j)
                     \/ Sooner(default, preferred, last, j, i)
<1>1. \A c : Score(c, preferred, last) \in Nat
  BY DEF Score
<1> QED
  BY <1>1 DEF Sooner

\* rank_collectors returns the collectors whose circuits let them be asked, all
\* of them, each once, and by score.
THEOREM RankedOnce ==
  ASSUME NEW S, NEW default \in Seq(S), NEW stats, NEW preferred, NEW last,
         \A i, j \in DOMAIN default : default[i] = default[j] => i = j
  PROVE  LET q == Ranked(default, stats, preferred, last)
         IN  /\ q \in Seq({default[i] : i \in Askable(default, stats)})
             /\ {q[k] : k \in DOMAIN q} = {default[i] : i \in Askable(default, stats)}
             /\ \A i, j \in DOMAIN q : q[i] = q[j] => i = j
             /\ \A i, j \in DOMAIN q :
                  i < j => Score(q[i], preferred, last) <= Score(q[j], preferred, last)
<1> DEFINE A        == Askable(default, stats)
           Place(i) == Position(default, preferred, last, A, i)
           At(k)    == CHOOSE i \in A : Place(i) = k
           q        == Ranked(default, stats, preferred, last)
<1>1. A \subseteq 1..Len(default) /\ Len(default) \in Nat /\ DOMAIN default = 1..Len(default)
  BY DEF Askable
<1>2. /\ Cardinality(A) \in Nat
      /\ \A k \in 1..Cardinality(A) : \E i \in A : Place(i) = k
      /\ \A i \in A : Place(i) \in 1..Cardinality(A)
      /\ \A i, j \in A : Place(i) = Place(j) => i = j
      /\ \A i, j \in A : Sooner(default, preferred, last, i, j) => Place(i) < Place(j)
  <2>a. A \subseteq Nat
    BY <1>1
  <2>b. IsFiniteSet(1..Len(default))
    BY <1>1, FS_Interval
  <2>c. IsFiniteSet(A)
    BY <1>1, <2>b, FS_Subset
  <2> HIDE DEF A
  <2> DEFINE Before(i) == {j \in A : Sooner(default, preferred, last, j, i)}
             P == [i \in A |-> Place(i)]
  <2>1. Cardinality(A) \in Nat
    BY <2>c, FS_CardinalityType
  <2>2. ASSUME NEW i \in A
        PROVE  /\ IsFiniteSet(Before(i)) /\ Cardinality(Before(i)) \in Nat
               /\ Place(i) = Cardinality(Before(i)) + 1
               /\ Place(i) \in 1..Cardinality(A)
    <3>1. i \notin Before(i) /\ Before(i) \subseteq A \ {i}
      BY <2>a, SoonerIsStrict
    <3>2. /\ IsFiniteSet(A \ {i}) /\ Cardinality(A \ {i}) = Cardinality(A) - 1
      BY <2>1, <2>c, FS_RemoveElement
    <3>3. IsFiniteSet(Before(i)) /\ Cardinality(Before(i)) <= Cardinality(A \ {i})
      BY <3>1, <3>2, FS_Subset
    <3>4. Cardinality(Before(i)) \in Nat
      BY <3>3, FS_CardinalityType
    <3>5. Place(i) = Cardinality(Before(i)) + 1
      BY DEF Position
    <3> HIDE DEF Before, Place
    <3> QED
      BY <2>1, <3>2, <3>3, <3>4, <3>5
  <2>3. ASSUME NEW i \in A, NEW j \in A, Sooner(default, preferred, last, i, j)
        PROVE  Place(i) < Place(j)
    <3>1. Before(i) \subseteq Before(j) /\ i \in Before(j) /\ i \notin Before(i)
      BY <2>a, <2>3, SoonerIsStrict
    <3>2. /\ Cardinality(Before(i)) <= Cardinality(Before(j))
          /\ Cardinality(Before(i)) # Cardinality(Before(j))
      BY <3>1, <2>2, FS_Subset
    <3> HIDE DEF Before, Place
    <3> QED
      BY <3>2, <2>2
  <2>4. ASSUME NEW i \in A, NEW j \in A, i # j
        PROVE  Place(i) # Place(j)
    <3> HIDE DEF Before, Place
    <3>0. Place(i) \in Nat /\ Place(j) \in Nat
      BY <2>1, <2>2
    <3>1. CASE Sooner(default, preferred, last, i, j)
      BY <3>1, <2>2, <2>3, <3>0
    <3>2. CASE Sooner(default, preferred, last, j, i)
      BY <3>2, <2>2, <2>3, <3>0
    <3> QED
      BY <2>a, <2>4, <3>1, <3>2, SoonerIsStrict
  <2>5. P \in Injection(A, 1..Cardinality(A))
    <3>1. \A i \in A : Place(i) \in 1..Cardinality(A)
      BY <2>2
    <3>2. P \in [A -> 1..Cardinality(A)]
      BY <3>1
    <3>3. \A i, j \in A : P[i] = P[j] => i = j
      BY <2>4
    <3> QED
      BY <3>2, <3>3, Fun_IsInj
  <2>6. IsFiniteSet(1..Cardinality(A)) /\ Cardinality(1..Cardinality(A)) = Cardinality(A)
    BY <2>1, FS_Interval
  <2>7. P \in Surjection(A, 1..Cardinality(A))
    BY <2>5, <2>6, FS_Injection
  <2>8. \A k \in 1..Cardinality(A) : \E i \in A : Place(i) = k
    <3>1. \A k \in 1..Cardinality(A) : \E i \in A : P[i] = k
      <4> HIDE DEF P
      <4> QED BY <2>7 DEF Surjection
    <3> QED
      BY <3>1
  <2> HIDE DEF Place
  <2> QED
    BY <2>1, <2>2, <2>3, <2>4, <2>8
<1>3. \A k \in 1..Cardinality(A) : At(k) \in A /\ Place(At(k)) = k
  BY <1>2
<1>4. q = [k \in 1..Cardinality(A) |-> default[At(k)]]
  BY DEF Ranked
<1> HIDE DEF A, q
<1>5. q \in Seq({default[i] : i \in A})
  <2> HIDE DEF At
  <2> QED BY <1>2, <1>3, <1>4
<1>6. DOMAIN q = 1..Cardinality(A)
  BY <1>4
<1>7. ASSUME NEW i \in DOMAIN q, NEW j \in DOMAIN q, q[i] = q[j]
      PROVE  i = j
  <2>1. default[At(i)] = default[At(j)] /\ At(i) \in A /\ At(j) \in A
    BY <1>3, <1>4, <1>6, <1>7
  <2>2. At(i) = At(j)
    <3>1. \A a, b \in A : default[a] = default[b] => a = b
      BY <1>1
    <3> HIDE DEF At
    <3> QED BY <2>1, <3>1
  <2>3. Place(At(i)) = i /\ Place(At(j)) = j
    <3> HIDE DEF At, Place
    <3> QED BY <1>3, <1>6
  <2> QED
    <3> HIDE DEF At, Place
    <3> QED BY <2>2, <2>3
<1>8. {q[k] : k \in DOMAIN q} = {default[i] : i \in A}
  <2>1. ASSUME NEW i \in A
        PROVE  Place(i) \in DOMAIN q /\ q[Place(i)] = default[i]
    <3> HIDE DEF At, Place
    <3>1. Place(i) \in 1..Cardinality(A)
      BY <1>2
    <3>2. At(Place(i)) = i
      BY <1>2, <1>3, <3>1
    <3> QED
      BY <1>4, <1>6, <3>1, <3>2
  <2>2. \A k \in DOMAIN q : At(k) \in A /\ q[k] = default[At(k)]
    <3> HIDE DEF At, Place
    <3> QED BY <1>3, <1>4, <1>6
  <2> HIDE DEF At, Place
  <2> QED
    BY <2>1, <2>2
<1>9. ASSUME NEW i \in DOMAIN q, NEW j \in DOMAIN q, i < j
      PROVE  Score(q[i], preferred, last) <= Score(q[j], preferred, last)
  <2>1. /\ At(i) \in A /\ q[i] = default[At(i)] /\ Place(At(i)) = i
        /\ At(j) \in A /\ q[j] = default[At(j)] /\ Place(At(j)) = j
    <3> HIDE DEF At, Place
    <3> QED BY <1>3, <1>4, <1>6
  <2>2. ~Sooner(default, preferred, last, At(j), At(i))
    <3>1. i \in Nat /\ j \in Nat
      BY <1>2, <1>6
    <3> HIDE DEF At, Place
    <3> QED BY <1>2, <1>9, <2>1, <3>1
  <2>3. Score(q[i], preferred, last) \in Nat /\ Score(q[j], preferred, last) \in Nat
    BY DEF Score
  <2> HIDE DEF At, Place
  <2> QED
    BY <2>1, <2>2, <2>3 DEF Sooner
<1> QED
  BY <1>5, <1>7, <1>8, <1>9 DEF q, A

-----------------------------------------------------------------------------
\* What an outcome writes: a neutral one leaves the row's count; any other that
\* is no success counts one more failure than the profile, and opens the
\* circuit at the threshold.
THEOREM RecordedCircuit ==
  ASSUME NEW row \in Circuit, NEW stats \in Circuit, NEW status
  PROVE  LET after == Recorded(row, stats, status)
         IN  /\ after \in Circuit
             /\ status \in Neutral => after.failures = row.failures
             /\ status \notin Neutral \union {"success"} =>
                  /\ OneMore(stats.failures) <= after.failures
                  /\ OneMore(stats.failures) = FailureThreshold => after.state = "open"
<1> DEFINE w == Recorded(row, stats, status)
<1>1. /\ stats.failures \in 0..FailureThreshold /\ row.failures \in 0..FailureThreshold
      /\ stats.state \in {"closed", "open", "half_open"} /\ stats.cooling \in BOOLEAN
      /\ FailureThreshold \in Nat
      /\ stats = [state |-> stats.state, failures |-> stats.failures, cooling |-> stats.cooling]
  BY DEF Circuit
<1>2. OneMore(stats.failures) \in 0..FailureThreshold
  BY <1>1 DEF OneMore
<1> SUFFICES /\ w \in Circuit
             /\ status \in Neutral => w.failures = row.failures
             /\ status \notin Neutral \union {"success"} =>
                  /\ OneMore(stats.failures) <= w.failures
                  /\ OneMore(stats.failures) = FailureThreshold => w.state = "open"
  OBVIOUS
<1>3. CASE status = "success"
  <2>1. w = Closed
    BY <1>3 DEF Recorded, SnapshotAfter, Neutral, PolicyOpen
  <2> HIDE DEF w
  <2> QED
    <3>1. Closed \in Circuit
      BY <1>1 DEF Closed, Circuit
    <3> QED
      BY <1>3, <2>1, <3>1 DEF Neutral
<1>4. CASE status \in Neutral
  <2>1. w = [stats EXCEPT !.failures = row.failures]
    BY <1>4 DEF Recorded, SnapshotAfter, Neutral, PolicyOpen
  <2> HIDE DEF w
  <2>2. w = [state |-> stats.state, failures |-> row.failures, cooling |-> stats.cooling]
    BY <1>1, <2>1
  <2>3. w \in Circuit
    BY <1>1, <2>2 DEF Circuit
  <2> QED
    BY <1>4, <2>2, <2>3
<1>5. CASE status \in PolicyOpen
  <2>1. w = [state |-> "open", failures |-> OneMore(stats.failures), cooling |-> TRUE]
    BY <1>5 DEF Recorded, SnapshotAfter, Neutral, PolicyOpen
  <2> HIDE DEF w
  <2> QED
    BY <1>1, <1>2, <1>5, <2>1 DEF Circuit, Neutral, PolicyOpen
<1>6. CASE status \notin {"success"} \union Neutral \union PolicyOpen
  <2>1. w = IF stats.failures + 1 >= FailureThreshold THEN Opened
                ELSE [stats EXCEPT !.failures = @ + 1,
                                   !.state = IF @ = "open" THEN "closed" ELSE @]
    BY <1>6 DEF Recorded, SnapshotAfter
  <2> HIDE DEF w
  <2>2. CASE stats.failures + 1 >= FailureThreshold
    BY <1>1, <1>2, <1>6, <2>1, <2>2 DEF Circuit, Opened
  <2>3. CASE ~(stats.failures + 1 >= FailureThreshold)
    <3>1. w = [state    |-> IF stats.state = "open" THEN "closed" ELSE stats.state,
               failures |-> stats.failures + 1, cooling |-> stats.cooling]
      BY <1>1, <2>1, <2>3
    <3>2. stats.failures + 1 \in 0..FailureThreshold
          /\ OneMore(stats.failures) = stats.failures + 1
          /\ OneMore(stats.failures) # FailureThreshold
      BY <1>1, <2>3 DEF OneMore
    <3>3. w \in Circuit
      BY <1>1, <3>1, <3>2 DEF Circuit
    <3> QED
      BY <1>1, <1>6, <3>1, <3>2, <3>3
  <2> QED
    BY <2>2, <2>3
<1> QED
  BY <1>3, <1>4, <1>5, <1>6

LEMMA ProbedCircuit ==
  ASSUME NEW stats \in Circuit
  PROVE  Probed(stats) \in Circuit /\ Probed(stats).failures = stats.failures
  BY DEF Probed, Circuit

USE EgressAssumption

Pools == [NodeIds -> [healthy : BOOLEAN, load : Nat]]

-----------------------------------------------------------------------------
Smaller == {p \in Nat \X Nat : p[1] < p[2]}

\* A set of natural numbers has a least member.
LEMMA LeastMember ==
  ASSUME NEW S, S \subseteq Nat, S # {}
  PROVE  \E m \in S : \A n \in S : m <= n
<1>1. Smaller = OpToRel(<, Nat)
  BY DEF Smaller, OpToRel
<1>2. IsWellFoundedOn(Smaller, Nat)
  BY <1>1, NatLessThanWellFounded
<1>3. PICK m \in S : \A n \in S : ~(<<n, m>> \in Smaller)
  <2> HIDE DEF Smaller
  <2> QED BY <1>2, WFMin
<1>4. \A n \in S : ~(n < m)
  BY <1>3 DEF Smaller
<1> QED
  BY <1>4

\* The first of some nodes is one of them.
LEMMA FirstOfSome ==
  ASSUME NEW S, S \subseteq NodeIds, S # {}
  PROVE  First(S) \in S
<1> DEFINE places == {i \in DOMAIN Nodes : Nodes[i] \in S}
           Leads(k) == Nodes[k] \in S /\ \A j \in 1..k-1 : Nodes[j] \notin S
<1>1. DOMAIN Nodes = 1..Len(Nodes) /\ Len(Nodes) \in Nat
  OBVIOUS
<1>2. places \subseteq Nat /\ places # {}
  BY <1>1 DEF NodeIds
<1>3. PICK k \in places : \A n \in places : k <= n
  <2> HIDE DEF places
  <2> QED BY <1>2, LeastMember
<1>4. \A j \in 1..k-1 : j \in DOMAIN Nodes /\ j \notin places
  BY <1>1, <1>3
<1>5. k \in DOMAIN Nodes /\ Leads(k)
  BY <1>3, <1>4
<1>6. LET i == CHOOSE h \in DOMAIN Nodes : Leads(h) IN Nodes[i] \in S
  BY <1>5
<1> QED
  BY <1>6 DEF First

LEMMA FirstOfNone == First({}) = NoNode
  BY DEF First

\* The lightest of the candidates exist.
LEMMA LightestExists ==
  ASSUME NEW fleet \in Pools, NEW S, S \subseteq NodeIds, S # {}
  PROVE  \E n \in S : \A k \in S : fleet[n].load <= fleet[k].load
<1> DEFINE loads == {fleet[n].load : n \in S}
<1>1. loads \subseteq Nat /\ loads # {}
  BY DEF Pools
<1>2. PICK l \in loads : \A m \in loads : l <= m
  <2> HIDE DEF loads
  <2> QED BY <1>1, LeastMember
<1> QED
  BY <1>2

-----------------------------------------------------------------------------
LEMMA CandidatesAreHealthy ==
  ASSUME NEW fleet
  PROVE  /\ PoolCandidates(fleet) \subseteq Healthy(fleet)
         /\ PoolCandidates(fleet) \subseteq NodeIds
  BY DEF PoolCandidates, Healthy

\* Loads do not decide who is a candidate.
LEMMA CandidatesByHealth ==
  ASSUME NEW fleet, NEW other, Healthy(fleet) = Healthy(other)
  PROVE  PoolCandidates(fleet) = PoolCandidates(other)
  BY DEF PoolCandidates

\* select yields a candidate whenever there is one.
LEMMA SelectPoolAmong ==
  ASSUME NEW fleet \in Pools, PoolCandidates(fleet) # {}
  PROVE  SelectPool(fleet) \in PoolCandidates(fleet)
<1> DEFINE some == PoolCandidates(fleet)
           lightest == {n \in some : \A k \in some : fleet[n].load <= fleet[k].load}
<1>1. some \subseteq NodeIds /\ some # {}
  BY CandidatesAreHealthy
<1>2. lightest # {}
  <2> HIDE DEF some
  <2> QED BY <1>1, LightestExists
<1>3. First(lightest) \in lightest /\ First(some) \in some
  <2> HIDE DEF some
  <2>1. lightest \subseteq NodeIds
    BY <1>1
  <2> HIDE DEF lightest
  <2> QED BY <1>1, <1>2, <2>1, FirstOfSome
<1> QED
  BY <1>3 DEF SelectPool

LEMMA SelectPoolNone ==
  ASSUME NEW fleet, PoolCandidates(fleet) = {}
  PROVE  SelectPool(fleet) = NoNode
<1>1. {n \in PoolCandidates(fleet) :
         \A k \in PoolCandidates(fleet) : fleet[n].load <= fleet[k].load} = {}
  OBVIOUS
<1> QED
  BY <1>1, FirstOfNone DEF SelectPool

\* Whatever the pool, the selection is one of the nodes.
LEMMA SelectNodeType ==
  ASSUME NEW fleet \in Pools
  PROVE  SelectNode(fleet) \in NodeIds
<1>1. SelectDirect(fleet) \in NodeIds
  <2>1. DirectNodes \cap Healthy(fleet) \subseteq NodeIds
    OBVIOUS
  <2> QED
    BY <2>1, FirstOfSome DEF SelectDirect
<1>2. SelectStatic \in NodeIds \/ SelectStatic = NoNode
  BY FirstOfSome, FirstOfNone DEF SelectStatic
<1>3. SelectPool(fleet) \in NodeIds \/ SelectPool(fleet) = NoNode
  BY SelectPoolAmong, SelectPoolNone, CandidatesAreHealthy
<1> QED
  BY <1>1, <1>2, <1>3 DEF SelectNode

LEMMA PoolUpdates ==
  ASSUME NEW fleet \in Pools, NEW n \in NodeIds
  PROVE  /\ CreateSession(fleet, n) \in Pools
         /\ Healthy(CreateSession(fleet, n)) = Healthy(fleet)
         /\ CloseSession(fleet, n) \in Pools
         /\ MarkUnhealthy(fleet, n) \in Pools
         /\ Healthy(MarkUnhealthy(fleet, n)) \subseteq NodeIds \ {n}
<1>1. fleet[n] \in [healthy : BOOLEAN, load : Nat]
  BY DEF Pools
<1>a. ASSUME NEW l \in Nat
      PROVE  [fleet EXCEPT ![n].load = l] \in Pools
  BY <1>1 DEF Pools
<1>2. CreateSession(fleet, n) \in Pools
  <2> DEFINE l == IF fleet[n].load < MaxLoad THEN fleet[n].load + 1 ELSE fleet[n].load
  <2>1. l \in Nat
    BY <1>1
  <2>2. CreateSession(fleet, n) = [fleet EXCEPT ![n].load = l]
    BY DEF CreateSession
  <2> HIDE DEF l
  <2> QED
    BY <2>1, <2>2, <1>a
<1>3. Healthy(CreateSession(fleet, n)) = Healthy(fleet)
  BY <1>1 DEF Pools, CreateSession, Healthy
<1>4. CloseSession(fleet, n) \in Pools
  <2> DEFINE l == IF fleet[n].load > 0 THEN fleet[n].load - 1 ELSE 0
  <2>1. l \in Nat
    BY <1>1
  <2>2. CloseSession(fleet, n) = [fleet EXCEPT ![n].load = l]
    BY DEF CloseSession
  <2> HIDE DEF l
  <2> QED
    BY <2>1, <2>2, <1>a
<1>5. MarkUnhealthy(fleet, n) \in Pools
  BY <1>1 DEF Pools, MarkUnhealthy
<1>6. Healthy(MarkUnhealthy(fleet, n)) \subseteq NodeIds \ {n}
  BY <1>1 DEF Pools, MarkUnhealthy, Healthy
<1> QED
  BY <1>2, <1>3, <1>4, <1>5, <1>6

\* acquire yields a node, a pool and a session of the right kinds.
LEMMA AcquireType ==
  ASSUME NEW fleet \in Pools, NEW sticky \in NodeIds \union {NoNode}, NEW restart \in BOOLEAN
  PROVE  LET got == Acquire(fleet, sticky, restart)
         IN  /\ got.node \in NodeIds
             /\ got.pool \in Pools
             /\ got.session \in NodeIds \union {NoNode}
<1>1. SelectNode(fleet) \in NodeIds
  BY SelectNodeType
<1>2. CreateSession(fleet, SelectNode(fleet)) \in Pools
  BY <1>1, PoolUpdates
<1> QED
  BY <1>1, <1>2 DEF Acquire

LEMMA FailoverType ==
  ASSUME NEW fleet \in Pools, NEW sticky, NEW current \in NodeIds
  PROVE  LET got == Failover(fleet, sticky, current)
         IN  /\ got.node \in NodeIds
             /\ got.pool \in Pools
             /\ got.session \in NodeIds \union {NoNode}
<1> DEFINE closed == IF Policy.sticky THEN CloseSession(fleet, current) ELSE fleet
           marked == MarkUnhealthy(closed, current)
<1>1. closed \in Pools
  BY PoolUpdates
<1>2. marked \in Pools
  <2> HIDE DEF closed
  <2> QED BY <1>1, PoolUpdates
<1> QED
  <2> HIDE DEF marked
  <2>1. LET got == Acquire(marked, NoNode, TRUE)
        IN  /\ got.node \in NodeIds
            /\ got.pool \in Pools
            /\ got.session \in NodeIds \union {NoNode}
    BY <1>2, AcquireType
  <2> QED
    BY <2>1 DEF Failover, marked

\* A failover under a pool's mode goes to a healthy node other than the one
\* that failed, if the pool knows one.
THEOREM FailoverLeaves ==
  ASSUME NEW fleet \in Pools, NEW sticky, NEW current \in NodeIds,
         EffectiveMode \notin {"direct", "static_proxy"},
         PoolCandidates(Failover(fleet, sticky, current).pool) # {}
  PROVE  LET got == Failover(fleet, sticky, current)
         IN  got.node # current /\ got.pool[got.node].healthy
<1> DEFINE closed == IF Policy.sticky THEN CloseSession(fleet, current) ELSE fleet
           marked == MarkUnhealthy(closed, current)
           got    == Acquire(marked, NoNode, TRUE)
           n      == SelectNode(marked)
<1>1. closed \in Pools
  BY PoolUpdates
<1>2. marked \in Pools /\ current \notin Healthy(marked)
  <2> HIDE DEF closed
  <2> QED BY <1>1, PoolUpdates
<1>3. Failover(fleet, sticky, current) = got
  BY DEF Failover
<1> HIDE DEF marked
<1>4. n \in NodeIds
  BY <1>2, SelectNodeType
<1>5. got.node = n /\ got.pool = IF Policy.sticky THEN CreateSession(marked, n) ELSE marked
  BY DEF Acquire
<1>6. Healthy(got.pool) = Healthy(marked)
  BY <1>2, <1>4, <1>5, PoolUpdates
<1>7. PoolCandidates(marked) # {}
  BY <1>3, <1>6, CandidatesByHealth
<1>8. SelectPool(marked) \in PoolCandidates(marked)
  BY <1>2, <1>7, SelectPoolAmong
<1>9. n = SelectPool(marked)
  BY <1>8, CandidatesAreHealthy DEF SelectNode
<1>10. n \in Healthy(got.pool) /\ n # current
  BY <1>2, <1>6, <1>8, <1>9, CandidatesAreHealthy
<1> QED
  BY <1>3, <1>5, <1>10 DEF Healthy

-----------------------------------------------------------------------------
\* The collectors that a source read over HTTP without a feed has.
HttpOnly == Collectors \subseteq {"html", "json"}

Outcomes == [status : Statuses, category : {"network", "restriction", "none"}]

-----------------------------------------------------------------------------
(***************************************************************************)
(* The inductive invariant.                                                *)
(***************************************************************************)

\* Where the run is, the collectors left to it, and its slot.
RunInv ==
  /\ pc \in {"idle", "attempt", "fetch", "browse"}
  /\ queue \in Seq(Collectors)
  /\ \A i, j \in DOMAIN queue : queue[i] = queue[j] => i = j
  /\ Running <=> queue # <<>>
  /\ retries \in 0..MaxAdapterRetries
  /\ pc = "browse" => Tried \in Browsers
  /\ inFlight = IF Running THEN 1 ELSE 0

\* An attempt over HTTP has pages of its collector left to read, each once.
FetchInv ==
  /\ asks \in [Urls -> Nat] /\ refused \in BOOLEAN /\ limited \in BOOLEAN
  /\ \A u \in DOMAIN pages : pages[u] \in Replies
  /\ lastStop \in Outcomes \union {NoStop}
  /\ capture # NoCapture => capture.status \in Statuses
  /\ pc = "fetch" =>
       /\ Tried \notin Browsers
       /\ landing \in Seq(Urls) /\ landing # <<>>
       /\ \A i, j \in DOMAIN landing : landing[i] = landing[j] => i = j
       /\ \A i \in DOMAIN landing : \E j \in DOMAIN UrlsOf[Tried] : landing[i] = UrlsOf[Tried][j]
       /\ lastStop.category = "network" => "unreachable" \in seen

TypedInv == RunInv /\ FetchInv

-----------------------------------------------------------------------------
(***************************************************************************)
(* What a step does.                                                       *)
(***************************************************************************)

\* The ways out of a collector's result.
Ended(status) ==
  /\ pc' = "idle" /\ queue' = <<>> /\ retries' = 0
  /\ inFlight' = inFlight - 1
  /\ cooldown' = (cooldown \/ status = "rate_limited")
  /\ Counted(Tried, status)

MovedOn(status) ==
  /\ status \in Fallback \union Retry
  /\ Len(queue) > 1 /\ queue' = Tail(queue) /\ retries' = 0 /\ pc' = "attempt"
  /\ UNCHANGED <<inFlight, cooldown>>
  /\ Counted(Tried, status)

Retried(status) ==
  /\ status \in Retry
  /\ retries < MaxAdapterRetries /\ retries' = retries + 1 /\ pc' = "attempt"
  /\ UNCHANGED <<queue, inFlight, cooldown, streak>>

\* The rest of a sequence without repetitions.
LEMMA TailOnce ==
  ASSUME NEW S, NEW q \in Seq(S), q # <<>>,
         \A i, j \in DOMAIN q : q[i] = q[j] => i = j
  PROVE  /\ Tail(q) \in Seq(S)
         /\ \A i, j \in DOMAIN Tail(q) : Tail(q)[i] = Tail(q)[j] => i = j
         /\ \A i \in DOMAIN Tail(q) : i + 1 \in DOMAIN q /\ Tail(q)[i] = q[i + 1]
         /\ \A i \in DOMAIN Tail(q) : Tail(q)[i] # Head(q)
         /\ Tail(q) = <<>> <=> Len(q) = 1
<1>1. Len(q) \in Nat /\ Len(q) >= 1 /\ DOMAIN q = 1..Len(q)
  OBVIOUS
<1>2. Tail(q) \in Seq(S) /\ Len(Tail(q)) = Len(q) - 1 /\ Head(q) = q[1]
  OBVIOUS
<1>3. \A i \in 1..Len(q) - 1 : Tail(q)[i] = q[i + 1]
  OBVIOUS
<1>4. DOMAIN Tail(q) = 1..Len(q) - 1
  BY <1>2
<1>5. \A i \in DOMAIN Tail(q) : i \in Nat /\ i + 1 \in DOMAIN q /\ i + 1 # 1 /\ 1 \in DOMAIN q
  BY <1>1, <1>4
<1>6. Tail(q) = <<>> <=> Len(q) = 1
  BY <1>1, <1>2
<1>7. \A i, j \in DOMAIN Tail(q) : Tail(q)[i] = Tail(q)[j] => i = j
  BY <1>3, <1>4, <1>5
<1>8. \A i \in DOMAIN Tail(q) : Tail(q)[i] # Head(q)
  BY <1>2, <1>3, <1>4, <1>5
<1> QED
  BY <1>2, <1>3, <1>4, <1>5, <1>6, <1>7, <1>8

LEMMA SettleCases ==
  ASSUME RunInv, Running, NEW o \in Outcomes, Settle(o)
  PROVE  Ended(o.status) \/ MovedOn(o.status) \/ Retried(o.status)
<1>1. queue \in Seq(Collectors) /\ queue # <<>> /\ Len(queue) \in Nat /\ Len(queue) >= 1
  BY DEF RunInv
<1>2. ASSUME NEW s, NextCollector(s), Counted(Tried, s), s \in Fallback \union Retry
      PROVE  Ended(s) \/ MovedOn(s)
  <2>1. CASE Len(queue) = 1
    <3>1. EndRun(s)
      BY <1>2, <2>1 DEF NextCollector
    <3> QED
      BY <1>2, <3>1 DEF EndRun, Ended
  <2>2. CASE Len(queue) # 1
    <3> PICK n : n = Len(queue)
      OBVIOUS
    <3>1. n \in Nat /\ n >= 1 /\ n # 1
      BY <1>1, <2>2
    <3>2. n > 1
      BY <3>1
    <3> QED
      BY <1>2, <2>2, <3>2 DEF NextCollector, MovedOn
  <2> QED
    BY <2>1, <2>2
<1>3. CASE o.status \in Stop \union {"success", "rate_limited"} /\ EndRun(o.status) /\ Counted(Tried, o.status)
  BY <1>3 DEF EndRun, Ended
<1>4. CASE o.status \in Fallback /\ NextCollector(o.status) /\ Counted(Tried, o.status)
  BY <1>2, <1>4
<1>5. CASE o.status \in Retry /\ RetryOrMoveOn(o.status)
  BY <1>2, <1>5 DEF RetryOrMoveOn, Retried
<1> QED
  BY <1>3, <1>4, <1>5 DEF Settle

LEMMA SettleRun ==
  ASSUME RunInv, Running, NEW o \in Outcomes, Settle(o)
  PROVE  RunInv'
<1>1. /\ queue \in Seq(Collectors) /\ queue # <<>> /\ inFlight = 1
      /\ \A i, j \in DOMAIN queue : queue[i] = queue[j] => i = j
      /\ MaxAdapterRetries \in Nat /\ retries \in 0..MaxAdapterRetries
  BY RouterAssumption DEF RunInv
<1>2. CASE Ended(o.status)
  BY <1>1, <1>2 DEF Ended, RunInv, Running
<1>3. CASE MovedOn(o.status)
  <2>1. /\ Tail(queue) \in Seq(Collectors) /\ Tail(queue) # <<>>
        /\ \A i, j \in DOMAIN Tail(queue) : Tail(queue)[i] = Tail(queue)[j] => i = j
    BY <1>1, <1>3, TailOnce DEF MovedOn
  <2> QED
    BY <1>1, <1>3, <2>1 DEF MovedOn, RunInv, Running
<1>4. CASE Retried(o.status)
  BY <1>1, <1>4 DEF Retried, RunInv, Running
<1> QED
  BY <1>2, <1>3, <1>4, SettleCases

-----------------------------------------------------------------------------
\* What a page of each kind leads to.
LEMMA PageCases ==
  ASSUME NEW p \in Page
  PROVE  /\ Category(p) \in {"network", "restriction", "none"}
         /\ Category(p) = "network" => p.code = 0
         /\ LandingError(p) \in Statuses \union {"ok"}
         /\ Refusal(p) => LandingError(p) \in {"blocked", "captcha_blocked"}
         /\ p.code = 429 => LandingError(p) \in {"blocked", "captcha_blocked", "rate_limited"}
         /\ FeedOutcome(p) \in Outcomes /\ FeedOutcome(p).status \notin Retry
<1>1. p.code \in {0, 200, 403, 404, 429, 503} /\ p.text \in Texts
  BY DEF Page
<1>2. PageStatus(p) \in {"network_error", "blocked", "rate_limited", "temporary_failure",
                        "no_results", "ok"}
  BY <1>1 DEF PageStatus
<1>3. Category(p) \in {"network", "restriction", "none"} /\ (Category(p) = "network" => p.code = 0)
  BY <1>1 DEF Category
<1>4. LandingStatus(p) \in {"captcha_blocked"} \union
        {"network_error", "blocked", "rate_limited", "temporary_failure", "no_results", "ok"}
  BY <1>2 DEF LandingStatus
<1>5. LandingError(p) \in Statuses \union {"ok"}
  BY <1>4 DEF LandingError, PageError, Statuses
<1>6. Refusal(p) => LandingError(p) \in {"blocked", "captcha_blocked"}
  <2>1. CASE p.text = "challenge"
    BY <2>1 DEF LandingError, LandingStatus, PageError
  <2>2. CASE p.text # "challenge" /\ p.code = 403
    BY <2>2 DEF LandingError, LandingStatus, PageError, PageStatus
  <2>3. CASE p.text = "denial" /\ p.code >= 400 /\ p.code # 429
    BY <1>1, <2>3 DEF LandingError, LandingStatus, PageError, PageStatus
  <2> QED
    BY <2>1, <2>2, <2>3 DEF Refusal
<1>7. p.code = 429 => LandingError(p) \in {"blocked", "captcha_blocked", "rate_limited"}
  BY <1>1 DEF LandingError, LandingStatus, PageError, PageStatus
<1>8. FeedOutcome(p) \in Outcomes /\ FeedOutcome(p).status \notin Retry
  BY <1>2, <1>3 DEF FeedOutcome, PageError, Parsed, Outcome, Outcomes, Statuses, Retry
<1> QED
  BY <1>3, <1>5, <1>6, <1>7, <1>8

\* An attempt goes on to its next page.
Advance ==
  /\ Len(landing) > 1 /\ landing' = Tail(landing)
  /\ lastStop' \in Outcomes \union {NoStop}
  /\ UNCHANGED <<pc, lease, kept, browse>>

\* The page leads to a failure of the network only if it, or the error kept
\* from a page before it, is one.
LEMMA ReadPageCases ==
  ASSUME FetchInv, pc = "fetch", NEW p \in Page, ReadPage(p)
  PROVE  \/ /\ Advance
            /\ lastStop'.category = "network" => lastStop.category = "network" \/ p.code = 0
            /\ Tried # "feed" /\ ~Refusal(p) /\ p.code # 429
         \/ \E o \in Outcomes :
              /\ Settle(o)
              /\ o.status \in Retry /\ o.category = "network" =>
                   lastStop.category = "network" \/ p.code = 0
              /\ Tried # "feed" /\ Refusal(p) => o.status \in {"blocked", "captcha_blocked"}
              /\ Tried # "feed" /\ p.code = 429 =>
                   o.status \in {"blocked", "captcha_blocked", "rate_limited"}
<1> DEFINE error == LandingError(p)
           stop  == IF error = "ok" THEN lastStop ELSE Outcome(error, Category(p))
           last  == IF stop.status \in Retry THEN stop ELSE Outcome("no_results", "none")
           found == Outcome("success", "none")
           ends  == Outcome(error, Category(p))
<1>1. lastStop \in Outcomes \union {NoStop}
  BY DEF FetchInv
<1>2. /\ stop \in Outcomes \union {NoStop}
      /\ stop.category = "network" => lastStop.category = "network" \/ p.code = 0
  BY <1>1, PageCases DEF Outcome, Outcomes, NoStop
<1>3. /\ last \in Outcomes
      /\ last.category = "network" => lastStop.category = "network" \/ p.code = 0
  BY <1>2 DEF Outcome, Outcomes, NoStop, Retry, Statuses
<1>4. CASE Tried = "feed"
  <2>1. Settle(FeedOutcome(p))
    BY <1>4 DEF ReadPage
  <2> QED
    BY <1>4, <2>1, PageCases
<1>5. CASE Tried # "feed" /\ error \in EndsLanding
  <2>1. Settle(ends)
    BY <1>5 DEF ReadPage
  <2>2. /\ ends \in Outcomes /\ ends.status = error /\ ends.status \notin Retry
    BY <1>5, PageCases DEF EndsLanding, Outcome, Outcomes, Statuses, Retry
  <2> QED
    BY <2>1, <2>2, PageCases
<1>6. CASE Tried # "feed" /\ error \notin EndsLanding
  <2>1. ~Refusal(p) /\ p.code # 429
    BY <1>6, PageCases DEF EndsLanding
  <2>2. CASE error = "ok" /\ p.text = "fares"
    <3>1. Settle(found) /\ found \in Outcomes /\ found.status \notin Retry
      BY <1>6, <2>2 DEF ReadPage, Outcome, Outcomes, Statuses, Retry
    <3> QED
      BY <2>1, <3>1
  <2>3. CASE ~(error = "ok" /\ p.text = "fares") /\ Len(landing) > 1
    <3>1. landing' = Tail(landing) /\ lastStop' = stop /\ UNCHANGED <<pc, lease, kept, browse>>
      BY <1>6, <2>3 DEF ReadPage
    <3> HIDE DEF stop
    <3> QED
      BY <1>2, <1>6, <2>1, <2>3, <3>1 DEF Advance
  <2>4. CASE ~(error = "ok" /\ p.text = "fares") /\ ~(Len(landing) > 1)
    <3>1. Settle(last)
      BY <1>6, <2>4 DEF ReadPage
    <3> HIDE DEF last
    <3> QED
      BY <1>3, <2>1, <3>1
  <2> QED
    BY <2>2, <2>3, <2>4
<1> QED
  BY <1>4, <1>5, <1>6

\* The requests of a step: none, or one for the page that is up.
Asked ==
  \/ asks' = asks
  \/ pc = "fetch" /\ Url \notin disallowed /\ asks' = [asks EXCEPT ![Url] = @ + 1]

\* The page cache, the capture and the histories hold what they may.
PagesKept ==
  /\ refused' \in BOOLEAN /\ limited' \in BOOLEAN
  /\ \A u \in DOMAIN pages' : pages'[u] \in Replies
  /\ capture' # NoCapture => capture'.status \in Statuses

\* Where neither a browser nor the feed was at work.
Plain == pc # "browse" /\ Tried # "feed"

\* A step that goes on to the next page.
Fetched ==
  /\ pc = "fetch" /\ Advance /\ Asked /\ PagesKept
  /\ lastStop'.category = "network" => "unreachable" \in seen'
  /\ Plain => UNCHANGED <<refused, limited>>

\* A step that settles a result: a refusal or a 429 heard in it shows.
Turn(o) ==
  /\ Running /\ Settle(o) /\ Asked /\ PagesKept
  /\ o.status \in Retry /\ o.category = "network" => "unreachable" \in seen'
  /\ Plain => /\ refused' => refused \/ o.status \in {"blocked", "captcha_blocked"}
              /\ limited' => limited \/ o.status \in {"blocked", "captcha_blocked", "rate_limited"}

\* A page of the cache or of the source is read.
LEMMA PageTurn ==
  ASSUME TypedInv, pc = "fetch", NEW p \in Page, ReadPage(p), Asked, PagesKept,
         seen \subseteq seen', p.code = 0 => "unreachable" \in seen',
         refused' => refused \/ Refusal(p), refused => refused',
         limited' => limited \/ p.code = 429, limited => limited'
  PROVE  Fetched \/ \E o \in Outcomes : Turn(o)
<1>1. FetchInv /\ RunInv /\ Running
  BY DEF TypedInv, Running
<1>2. lastStop.category = "network" => "unreachable" \in seen'
  BY <1>1 DEF FetchInv
<1>3. CASE /\ Advance
           /\ lastStop'.category = "network" => lastStop.category = "network" \/ p.code = 0
           /\ Tried # "feed" /\ ~Refusal(p) /\ p.code # 429
  <2>1. UNCHANGED <<refused, limited>>
    BY <1>1, <1>3 DEF FetchInv, PagesKept
  <2> QED
    BY <1>2, <1>3, <2>1 DEF Fetched
<1>4. ASSUME NEW o \in Outcomes,
             Settle(o),
             o.status \in Retry /\ o.category = "network" =>
               lastStop.category = "network" \/ p.code = 0,
             Tried # "feed" /\ Refusal(p) => o.status \in {"blocked", "captcha_blocked"},
             Tried # "feed" /\ p.code = 429 =>
               o.status \in {"blocked", "captcha_blocked", "rate_limited"}
      PROVE  Turn(o)
  BY <1>1, <1>2, <1>4 DEF Turn, Plain
<1> QED
  BY <1>1, <1>3, <1>4, ReadPageCases

\* What the run itself does, by what becomes of the attempt.
LEMMA ProceedCases ==
  ASSUME TypedInv, Proceed
  PROVE  \/ BeginHttp \/ OpenBrowser \/ FillSearch
         \/ \E p \in Replies : Loaded(p.code)
         \/ Fetched
         \/ \E o \in Outcomes : Turn(o)
<1>0. /\ \A u \in DOMAIN pages : pages[u] \in Replies
      /\ refused \in BOOLEAN /\ limited \in BOOLEAN
      /\ capture # NoCapture => capture.status \in Statuses
      /\ Replies \subseteq {p \in Page : p.code # 0}
      /\ Unreachable \in Page
  BY RouterAssumption DEF TypedInv, FetchInv, Unreachable, Page, Texts
<1>1. CASE LeaseInvalid
  <2> DEFINE o == Outcome("policy_denied", "restriction")
  <2>1. o \in Outcomes /\ o.status \notin Retry
    BY DEF Outcome, Outcomes, Statuses, Retry
  <2>2. Turn(o)
    BY <1>0, <1>1, <2>1 DEF LeaseInvalid, Turn, Running, Asked, PagesKept
  <2> QED
    BY <2>1, <2>2
<1>2. CASE ReadCached
  <2>1. pages[Url] \in Page /\ pages[Url].code # 0
    BY <1>0, <1>2 DEF ReadCached
  <2>2. Asked /\ PagesKept /\ UNCHANGED <<seen, refused, limited>>
    BY <1>0, <1>2 DEF ReadCached, Asked, PagesKept, history
  <2> QED
    BY <1>2, <2>1, <2>2, PageTurn DEF ReadCached
<1>3. CASE SkipDisallowed
  <2> DEFINE o == Outcome("policy_denied", "restriction")
  <2>1. o \in Outcomes /\ o.status \notin Retry
    BY DEF Outcome, Outcomes, Statuses, Retry
  <2>2. Turn(o)
    BY <1>0, <1>3, <2>1 DEF SkipDisallowed, Turn, Running, Asked, PagesKept, history
  <2> QED
    BY <2>1, <2>2
<1>4. ASSUME NEW p \in Replies \union {Unreachable}, Ask(p)
      PROVE  Fetched \/ \E o \in Outcomes : Turn(o)
  <2>1. p \in Page /\ (p.code # 0 => p \in Replies)
    BY <1>0 DEF Unreachable
  <2>2. PagesKept
    BY <1>0, <1>4, <2>1 DEF Ask, Cacheable, PagesKept
  <2>3. Asked
    BY <1>4 DEF Ask, Asked
  <2>4. /\ seen \subseteq seen' /\ (p.code = 0 => "unreachable" \in seen')
        /\ refused' = (refused \/ Refusal(p))
        /\ limited' = (limited \/ p.code = 429)
        /\ pc = "fetch" /\ ReadPage(p)
    BY <1>4 DEF Ask
  <2>5. refused' \in BOOLEAN /\ limited' \in BOOLEAN
    BY <2>4
  <2> QED
    BY <2>1, <2>2, <2>3, <2>4, <2>5, PageTurn
<1>5. CASE Crash
  <2> DEFINE o == Outcome("temporary_failure", "none")
  <2>1. o \in Outcomes /\ o.category # "network"
    BY DEF Outcome, Outcomes, Statuses
  <2>2. Turn(o)
    BY <1>0, <1>5, <2>1 DEF Crash, Turn, Running, Asked, PagesKept
  <2> QED
    BY <2>1, <2>2
<1>6. ASSUME NEW c, NEW cap, cap.status \in Statuses
      PROVE  /\ CaptureOutcome(c, cap) \in Outcomes
             /\ CaptureOutcome(c, cap).category # "network"
  BY <1>6 DEF CaptureOutcome, Outcome, Outcomes, Statuses
<1>7. CASE ReadCapture
  <2> DEFINE o == CaptureOutcome(Tried, capture)
  <2>1. o \in Outcomes /\ o.category # "network"
    BY <1>6, <1>7 DEF ReadCapture, TypedInv, FetchInv
  <2>2. Turn(o)
    <3> HIDE DEF o
    <3> QED BY <1>0, <1>7, <2>1 DEF o, ReadCapture, Turn, Running, Asked, PagesKept
  <2> HIDE DEF o
  <2> QED
    BY <2>1, <2>2
<1>8. CASE NoBrowser
  <2>1. PICK status \in {"unsupported", "temporary_failure"} :
          /\ Settle(Outcome(status, "none"))
          /\ capture' \in {capture, [NoCapture EXCEPT !.status = "unsupported"]}
    BY <1>8 DEF NoBrowser
  <2> DEFINE o == Outcome(status, "none")
  <2>2. o \in Outcomes /\ o.category # "network"
    BY DEF Outcome, Outcomes, Statuses
  <2>3. PagesKept
    BY <1>0, <1>8, <2>1 DEF NoBrowser, PagesKept, NoCapture, Statuses
  <2>4. Turn(o)
    BY <1>8, <2>1, <2>2, <2>3 DEF NoBrowser, Turn, Running, Asked
  <2> QED
    BY <2>2, <2>4
<1>9. CASE BrowserDenied
  <2> DEFINE o == CaptureOutcome(Tried, [NoCapture EXCEPT !.status = "policy_denied"])
  <2>1. o \in Outcomes /\ o.category # "network"
    BY <1>6 DEF NoCapture, Statuses
  <2>2. PagesKept
    BY <1>0, <1>9 DEF BrowserDenied, PagesKept, NoCapture, Statuses
  <2>3. Turn(o)
    <3> HIDE DEF o
    <3> QED BY <1>9, <2>1, <2>2 DEF o, BrowserDenied, Turn, Running, Asked
  <2> HIDE DEF o
  <2> QED
    BY <2>1, <2>3
<1>10. ASSUME pc = "browse", NEW cap, cap.status \in Statuses, EndSession(cap),
              refused' \in BOOLEAN, limited' \in BOOLEAN
       PROVE  \E o \in Outcomes : Turn(o)
  <2> DEFINE o == CaptureOutcome(Tried, cap)
  <2>1. o \in Outcomes /\ o.category # "network"
    BY <1>6, <1>10
  <2>2. Turn(o)
    <3> HIDE DEF o
    <3> QED BY <1>0, <1>10, <2>1 DEF o, EndSession, Turn, Running, Asked, PagesKept, Plain
  <2> HIDE DEF o
  <2> QED
    BY <2>1, <2>2
<1>11. ASSUME NEW text \in Texts, NEW json \in BOOLEAN, Captured(text, json)
       PROVE  \E o \in Outcomes : Turn(o)
  <2>1. CaptureStatus(browse.http, browse.blocked, text) \in Statuses
    BY DEF CaptureStatus, Statuses
  <2>2. refused' \in BOOLEAN /\ limited' \in BOOLEAN
    BY <1>0, <1>11 DEF Captured
  <2> QED
    BY <1>10, <1>11, <2>1, <2>2 DEF Captured
<1>12. ASSUME NEW status \in Retry, BrowserFails(status)
       PROVE  \E o \in Outcomes : Turn(o)
  BY <1>0, <1>10, <1>12 DEF BrowserFails, Statuses, Retry
<1> QED
  BY <1>1, <1>2, <1>3, <1>4, <1>5, <1>7, <1>8, <1>9, <1>11, <1>12 DEF Proceed

-----------------------------------------------------------------------------
(***************************************************************************)
(* The typed part of the invariant.                                        *)
(***************************************************************************)
LEMMA InitTyped == Init => TypedInv
<1> SUFFICES ASSUME Init PROVE TypedInv
  OBVIOUS
<1>1. RunInv
  BY RouterAssumption DEF Init, RunInv, Running
<1>2. FetchInv
  BY DEF Init, FetchInv, NoStop
<1> QED
  BY <1>1, <1>2 DEF TypedInv

\* The collector being tried is one of the chain.
LEMMA TriedIsCollector ==
  ASSUME RunInv, Running
  PROVE  Tried \in Collectors
  BY DEF RunInv, Tried

LEMMA ReadRobotsTyped ==
  ASSUME TypedInv, NEW robots, ReadRobots(robots), pc' \in {"idle", "attempt"}
  PROVE  FetchInv'
  BY DEF TypedInv, FetchInv, ReadRobots, NoCapture, attempt

LEMMA DenyRunTyped ==
  ASSUME TypedInv, NEW robots, DenyRun(robots)
  PROVE  TypedInv'
<1>1. pc' = "idle" /\ pc = "idle" /\ queue' = queue /\ inFlight' = inFlight /\ retries' = 0
  BY DEF DenyRun, ReadRobots, Running
<1>2. RunInv'
  BY <1>1, RouterAssumption DEF TypedInv, RunInv, Running
<1> QED
  BY <1>1, <1>2, ReadRobotsTyped DEF DenyRun, TypedInv

LEMMA StartRunTyped ==
  ASSUME TypedInv, NEW robots, StartRun(robots)
  PROVE  TypedInv'
<1>1. /\ pc = "idle" /\ retries' = 0 /\ inFlight = 0
      /\ queue' = Ranked(Chain, circuit, Preferred, lastSuccess)
  BY DEF StartRun, ReadRobots, Running, TypedInv, RunInv
<1>2. /\ queue' \in Seq(Collectors)
      /\ \A i, j \in DOMAIN queue' : queue'[i] = queue'[j] => i = j
  <2>1. Chain \in Seq({"feed", "html", "json", "network", "dom"})
    BY RouterAssumption
  <2>2. \A i, j \in DOMAIN Chain : Chain[i] = Chain[j] => i = j
    BY RouterAssumption
  <2>3. /\ queue' \in Seq({Chain[i] : i \in Askable(Chain, circuit)})
        /\ \A i, j \in DOMAIN queue' : queue'[i] = queue'[j] => i = j
    BY <1>1, <2>1, <2>2, RankedOnce
  <2>4. {Chain[i] : i \in Askable(Chain, circuit)} \subseteq Collectors
    BY DEF Askable, Collectors
  <2> QED
    BY <2>3, <2>4
<1>3. /\ pc' \in {"idle", "attempt"}
      /\ pc' # "idle" <=> queue' # <<>>
      /\ inFlight' = IF pc' # "idle" THEN 1 ELSE 0
  BY <1>1 DEF StartRun
<1>4. RunInv'
  BY <1>1, <1>2, <1>3, RouterAssumption DEF RunInv, Running
<1> QED
  BY <1>3, <1>4, ReadRobotsTyped DEF StartRun, TypedInv

LEMMA BeginHttpTyped == TypedInv /\ BeginHttp => TypedInv'
<1> SUFFICES ASSUME TypedInv, BeginHttp PROVE TypedInv'
  OBVIOUS
<1>1. /\ pc' = "fetch" /\ pc = "attempt" /\ Tried \notin Browsers /\ landing' = UrlsOf[Tried]
      /\ lastStop' = NoStop /\ UNCHANGED <<queue, retries, inFlight, asks, pages, capture, refused, limited>>
  BY DEF BeginHttp, kept, stored
<1>2. RunInv'
  BY <1>1 DEF TypedInv, RunInv, Running, Tried
<1>3. Tried \in Collectors \ Browsers /\ Tried' = Tried
  BY <1>1, TriedIsCollector DEF TypedInv, Running, Tried
<1>4. /\ UrlsOf[Tried] \in Seq(Urls) \ {<<>>}
      /\ \A i, j \in DOMAIN UrlsOf[Tried] : UrlsOf[Tried][i] = UrlsOf[Tried][j] => i = j
  BY <1>3, RouterAssumption
<1>5. /\ asks \in [Urls -> Nat] /\ refused \in BOOLEAN /\ limited \in BOOLEAN
      /\ \A u \in DOMAIN pages : pages[u] \in Replies
      /\ capture # NoCapture => capture.status \in Statuses
  BY DEF TypedInv, FetchInv
<1>6. NoStop \in Outcomes \union {NoStop} /\ NoStop.category # "network"
  BY DEF NoStop, Outcome
<1>7. /\ landing' \in Seq(Urls) /\ landing' # <<>> /\ Tried' \notin Browsers
      /\ \A i, j \in DOMAIN landing' : landing'[i] = landing'[j] => i = j
      /\ \A i \in DOMAIN landing' : \E j \in DOMAIN UrlsOf[Tried'] : landing'[i] = UrlsOf[Tried'][j]
  BY <1>1, <1>3, <1>4
<1>8. FetchInv'
  BY <1>1, <1>5, <1>6, <1>7 DEF FetchInv
<1> QED
  BY <1>2, <1>8 DEF TypedInv

LEMMA FetchedTyped == TypedInv /\ Fetched => TypedInv'
<1> SUFFICES ASSUME TypedInv, Fetched PROVE TypedInv'
  OBVIOUS
<1>1. /\ pc = "fetch" /\ pc' = pc /\ Len(landing) > 1 /\ landing' = Tail(landing)
      /\ lastStop' \in Outcomes \union {NoStop}
      /\ UNCHANGED <<queue, retries, inFlight>>
  BY DEF Fetched, Advance, kept, stored
<1>2. RunInv'
  BY <1>1 DEF TypedInv, RunInv, Running, Tried
<1>3. /\ landing \in Seq(Urls) /\ landing # <<>> /\ Tried \notin Browsers /\ Tried' = Tried
      /\ \A i, j \in DOMAIN landing : landing[i] = landing[j] => i = j
      /\ \A i \in DOMAIN landing : \E j \in DOMAIN UrlsOf[Tried] : landing[i] = UrlsOf[Tried][j]
  BY <1>1 DEF TypedInv, FetchInv, Tried
<1>4. /\ landing' \in Seq(Urls) /\ landing' # <<>>
      /\ \A i, j \in DOMAIN landing' : landing'[i] = landing'[j] => i = j
      /\ \A i \in DOMAIN landing' : \E j \in DOMAIN UrlsOf[Tried] : landing'[i] = UrlsOf[Tried][j]
  BY <1>1, <1>3, TailOnce
<1>5. asks' \in [Urls -> Nat]
  BY DEF Fetched, Asked, TypedInv, FetchInv
<1>6. FetchInv'
  BY <1>1, <1>3, <1>4, <1>5 DEF Fetched, PagesKept, FetchInv
<1> QED
  BY <1>2, <1>6 DEF TypedInv

LEMMA TurnTyped ==
  ASSUME TypedInv, NEW o \in Outcomes, Turn(o)
  PROVE  TypedInv'
<1>1. RunInv' /\ pc' # "fetch"
  BY SettleRun, SettleCases DEF Turn, TypedInv, Ended, MovedOn, Retried
<1>2. asks' \in [Urls -> Nat]
  BY DEF Turn, Asked, TypedInv, FetchInv
<1>3. lastStop' = NoStop
  BY DEF Turn, Settle
<1>4. FetchInv'
  BY <1>1, <1>2, <1>3 DEF Turn, PagesKept, FetchInv
<1> QED
  BY <1>1, <1>4 DEF TypedInv

LEMMA OpenBrowserTyped == TypedInv /\ OpenBrowser => TypedInv'
  BY DEF TypedInv, RunInv, FetchInv, OpenBrowser, Running, Tried, kept, stored

\* Steps of a browser session, and what happens beside the run.
Beside ==
  \/ FillSearch \/ (\E p \in Replies : Loaded(p.code))
  \/ Environment \/ UNCHANGED vars

LEMMA BesideUnchanged ==
  Beside => UNCHANGED <<pc, queue, retries, inFlight, disallowed, blockedPaths, listed, streak,
                        profile, egress, pool, pages, landing, lastStop, capture, asks, opened, seen>>
  BY DEF Beside, FillSearch, Loaded, Environment, LeaseExpires, SessionExpires, CooldownEnds,
         OnResponse, vars, kept, stored, attempt, history

LEMMA BesideTyped == TypedInv /\ Beside => TypedInv'
<1> SUFFICES ASSUME TypedInv, Beside PROVE TypedInv'
  OBVIOUS
<1>1. refused' \in BOOLEAN /\ limited' \in BOOLEAN
  <2>1. refused \in BOOLEAN /\ limited \in BOOLEAN
    BY DEF TypedInv, FetchInv
  <2>2. CASE \/ \E p \in Replies : Loaded(p.code)
             \/ \E code \in {403, 429} : OnResponse(code)
    BY <2>2 DEF Loaded, OnResponse
  <2>3. CASE FillSearch \/ LeaseExpires \/ SessionExpires \/ CooldownEnds
    <3>1. UNCHANGED history
      BY <2>3 DEF FillSearch, LeaseExpires, SessionExpires, CooldownEnds
    <3> QED
      BY <2>1, <3>1 DEF history
  <2>4. CASE UNCHANGED vars
    BY <2>1, <2>4 DEF vars, history
  <2> QED
    BY <2>2, <2>3, <2>4 DEF Beside, Environment
<1> QED
  BY <1>1, BesideUnchanged DEF TypedInv, RunInv, FetchInv, Running, Tried

\* Every step is one of these.
LEMMA NextCases ==
  ASSUME TypedInv, [Next]_vars
  PROVE  \/ \E robots \in RobotsFiles : DenyRun(robots) \/ StartRun(robots)
         \/ BeginHttp
         \/ OpenBrowser
         \/ Fetched
         \/ \E o \in Outcomes : Turn(o)
         \/ Beside
  BY ProceedCases DEF Next, Beside

LEMMA NextTyped == TypedInv /\ [Next]_vars => TypedInv'
<1> SUFFICES ASSUME TypedInv, [Next]_vars PROVE TypedInv'
  OBVIOUS
<1>1. ASSUME NEW robots \in RobotsFiles, DenyRun(robots) \/ StartRun(robots)
      PROVE  TypedInv'
  BY <1>1, DenyRunTyped, StartRunTyped
<1>2. CASE BeginHttp
  BY <1>2, BeginHttpTyped
<1>3. CASE OpenBrowser
  BY <1>3, OpenBrowserTyped
<1>4. CASE Fetched
  BY <1>4, FetchedTyped
<1>5. ASSUME NEW o \in Outcomes, Turn(o)
      PROVE  TypedInv'
  BY <1>5, TurnTyped
<1>6. CASE Beside
  BY <1>6, BesideTyped
<1> QED
  BY <1>1, <1>2, <1>3, <1>4, <1>5, <1>6, NextCases

\* In every state the run is where its queue, its pages and its slot say.
THEOREM Typed == Spec => []TypedInv
<1> QED
  BY InitTyped, NextTyped, PTL DEF Spec

\* The in-flight slot is given back on every way out of a run.
THEOREM SlotIsReturned == Spec => []SlotReturned
<1>1. TypedInv => SlotReturned
  BY DEF TypedInv, RunInv, SlotReturned
<1> QED
  BY <1>1, Typed, PTL

-----------------------------------------------------------------------------
(***************************************************************************)
(* The budget of requests.  A page has been requested no more often than   *)
(* the collectors that are done with it account for, and the one being     *)
(* tried by its attempts so far.                                           *)
(***************************************************************************)
Attempts == MaxAdapterRetries + 1
Done(u)  == Readers(u) \ {queue[i] : i \in DOMAIN queue}
Passed(u) == IF pc = "fetch" /\ \A i \in DOMAIN landing : landing[i] # u THEN 1 ELSE 0
Spent(u) == IF Running /\ Tried \in Readers(u) THEN retries + Passed(u) ELSE 0

AskInv == \A u \in Urls : asks[u] <= Attempts * Cardinality(Done(u)) + Spent(u)

\* The browser has been opened once at most, and then its session is open or
\* has been captured.
OpenedInv ==
  /\ opened \in {0, 1}
  /\ opened = 1 => pc = "browse" \/ capture # NoCapture
  /\ pc = "browse" => opened = 1

LEMMA ReadersFinite ==
  ASSUME NEW u
  PROVE  /\ IsFiniteSet(Readers(u))
         /\ \A D \in SUBSET Readers(u) :
              /\ IsFiniteSet(D)
              /\ Cardinality(D) \in Nat
              /\ Cardinality(D) <= Cardinality(Readers(u))
         /\ Cardinality(Readers(u)) \in Nat
<1>1. IsFiniteSet({"feed", "html", "json", "network", "dom"})
  <2>1. IsFiniteSet({} \union {"feed"} \union {"html"} \union {"json"} \union {"network"} \union {"dom"})
    BY FS_EmptySet, FS_AddElement
  <2>2. {"feed", "html", "json", "network", "dom"}
          = {} \union {"feed"} \union {"html"} \union {"json"} \union {"network"} \union {"dom"}
    OBVIOUS
  <2> QED
    BY <2>1, <2>2
<1>2. Readers(u) \subseteq {"feed", "html", "json", "network", "dom"}
  <2>1. Chain \in Seq({"feed", "html", "json", "network", "dom"})
    BY RouterAssumption
  <2>2. Collectors \subseteq {"feed", "html", "json", "network", "dom"}
    BY <2>1 DEF Collectors
  <2> QED
    BY <2>2 DEF Readers
<1>3. IsFiniteSet(Readers(u))
  BY <1>1, <1>2, FS_Subset
<1> QED
  BY <1>3, FS_Subset, FS_CardinalityType

\* The collectors done with a page grow by one that reads it.
LEMMA DoneGrows ==
  ASSUME NEW u, NEW c, NEW D, NEW E,
         D \subseteq Readers(u), E \subseteq Readers(u), D \subseteq E, c \notin D,
         c \in Readers(u) => c \in E
  PROVE  Cardinality(D) + (IF c \in Readers(u) THEN 1 ELSE 0) <= Cardinality(E)
<1>1. IsFiniteSet(D) /\ IsFiniteSet(E) /\ Cardinality(D) \in Nat /\ Cardinality(E) \in Nat
  BY ReadersFinite
<1>2. CASE c \in Readers(u)
  <2>1. Cardinality(D \union {c}) = Cardinality(D) + 1
    BY <1>1, FS_AddElement
  <2>2. Cardinality(D \union {c}) <= Cardinality(E)
    BY <1>1, <1>2, FS_Subset
  <2> QED
    BY <1>2, <2>1, <2>2
<1>3. CASE c \notin Readers(u)
  BY <1>1, <1>3, FS_Subset
<1> QED
  BY <1>2, <1>3

LEMMA BudgetArithmetic ==
  ASSUME NEW b \in Nat, NEW d \in Nat, NEW e \in Nat
  PROVE  /\ b * d \in Nat /\ b * e \in Nat
         /\ d <= e => b * d <= b * e
         /\ d + 1 <= e => b * d + b <= b * e
<1>1. ASSUME d <= e
      PROVE  b * d <= b * e
  <2>1. PICK k \in Nat : e = d + k
    BY <1>1
  <2>2. b * e = b * d + b * k /\ b * k \in Nat /\ b * d \in Nat
    BY <2>1
  <2> QED
    BY <2>2
<1>2. ASSUME d + 1 <= e
      PROVE  b * d + b <= b * e
  <2>1. PICK k \in Nat : e = d + 1 + k
    BY <1>2
  <2>2. b * e = b * d + b + b * k /\ b * k \in Nat /\ b * d \in Nat
    BY <2>1
  <2> QED
    BY <2>2
<1> QED
  BY <1>1, <1>2

\* The page that is up is one the collector being tried reads, and it has not
\* been passed in this attempt.
LEMMA UrlIsUp ==
  ASSUME TypedInv, pc = "fetch"
  PROVE  /\ Url \in Urls /\ Tried \in Readers(Url) /\ Passed(Url) = 0
         /\ 1 \in DOMAIN landing /\ landing[1] = Url
<1>1. landing \in Seq(Urls) /\ landing # <<>> /\ Tried \notin Browsers
  BY DEF TypedInv, FetchInv
<1>2. 1 \in DOMAIN landing /\ Url = landing[1]
  BY <1>1 DEF Url
<1>3. \E j \in DOMAIN UrlsOf[Tried] : Url = UrlsOf[Tried][j]
  BY <1>2 DEF TypedInv, FetchInv
<1>4. Tried \in Collectors
  BY TriedIsCollector DEF TypedInv, Running
<1>5. Url \in Urls
  BY <1>1, <1>2
<1>6. Tried \in Readers(Url)
  BY <1>1, <1>3, <1>4 DEF Readers
<1>7. Passed(Url) = 0
  BY <1>2 DEF Passed
<1> QED
  BY <1>2, <1>5, <1>6, <1>7

\* What a request of this step leaves of the budget.
LEMMA AskedBudget ==
  ASSUME TypedInv, AskInv, Running, Asked, NEW u \in Urls
  PROVE  asks'[u] <= Attempts * Cardinality(Done(u))
                       + (IF Tried \in Readers(u) THEN retries + 1 ELSE 0)
<1>1. /\ asks \in [Urls -> Nat] /\ retries \in Nat /\ Attempts \in Nat
      /\ Attempts * Cardinality(Done(u)) \in Nat
  <2>1. Cardinality(Done(u)) \in Nat
    BY ReadersFinite DEF Done
  <2>2. MaxAdapterRetries \in Nat
    BY RouterAssumption
  <2> QED
    BY <2>1, <2>2, BudgetArithmetic DEF TypedInv, RunInv, FetchInv, Attempts
<1>2. asks[u] <= Attempts * Cardinality(Done(u)) + Spent(u)
  BY DEF AskInv
<1> DEFINE spent == Attempts * Cardinality(Done(u))
<1> HIDE DEF spent
<1>3. CASE asks' = asks
  BY <1>1, <1>2, <1>3 DEF Spent, Passed, spent
<1>4. CASE pc = "fetch" /\ asks' = [asks EXCEPT ![Url] = @ + 1]
  <2>1. CASE u = Url
    BY <1>1, <1>2, <1>4, <2>1, UrlIsUp DEF Spent, spent
  <2>2. CASE u # Url
    BY <1>1, <1>2, <1>4, <2>2 DEF Spent, Passed, spent
  <2> QED
    BY <2>1, <2>2
<1> QED
  BY <1>3, <1>4 DEF Asked

LEMMA TurnBudget ==
  ASSUME TypedInv, AskInv, NEW o \in Outcomes, Turn(o)
  PROVE  AskInv'
<1> SUFFICES ASSUME NEW u \in Urls
             PROVE  (asks[u] <= Attempts * Cardinality(Done(u)) + Spent(u))'
  BY DEF AskInv
<1>1. Running /\ Asked /\ Settle(o) /\ RunInv
  BY DEF Turn, TypedInv
<1>2. /\ queue \in Seq(Collectors) /\ queue # <<>> /\ 1 \in DOMAIN queue /\ queue[1] = Tried
      /\ \A i, j \in DOMAIN queue : queue[i] = queue[j] => i = j
      /\ retries \in 0..MaxAdapterRetries /\ MaxAdapterRetries \in Nat
  BY <1>1, RouterAssumption DEF RunInv, Tried
<1> DEFINE d == Cardinality(Done(u))
           e == Cardinality(Done(u)')
<1>3. asks'[u] <= Attempts * d + (IF Tried \in Readers(u) THEN retries + 1 ELSE 0)
  BY <1>1, AskedBudget
<1>4. /\ Attempts \in Nat /\ d \in Nat /\ asks'[u] \in Nat
      /\ Done(u) \subseteq Readers(u) /\ Done(u)' \subseteq Readers(u) /\ e \in Nat
      /\ Tried \notin Done(u)
  <2>1. asks'[u] \in Nat
    BY TurnTyped DEF TypedInv, FetchInv
  <2>2. Done(u) \subseteq Readers(u) /\ Done(u)' \subseteq Readers(u) /\ Tried \notin Done(u)
    BY <1>2 DEF Done, Readers
  <2>3. d \in Nat /\ e \in Nat
    BY <2>2, ReadersFinite
  <2> QED
    BY <1>2, <2>1, <2>2, <2>3 DEF Attempts
<1>5. CASE Ended(o.status) \/ MovedOn(o.status)
  <2>1. Done(u) \subseteq Done(u)' /\ (Tried \in Readers(u) => Tried \in Done(u)')
    <3>1. CASE Ended(o.status)
      BY <3>1 DEF Ended, Done, Readers
    <3>2. CASE MovedOn(o.status)
      BY <1>2, <3>2, TailOnce DEF MovedOn, Done, Readers, Tried
    <3> QED
      BY <1>5, <3>1, <3>2
  <2>2. d + (IF Tried \in Readers(u) THEN 1 ELSE 0) <= e
    BY <1>4, <2>1, DoneGrows
  <2>3. asks'[u] <= Attempts * e
    <3> HIDE DEF d, e
    <3>1. /\ Attempts * d \in Nat /\ Attempts * e \in Nat
          /\ d <= e => Attempts * d <= Attempts * e
          /\ d + 1 <= e => Attempts * d + Attempts <= Attempts * e
      BY <1>4, BudgetArithmetic
    <3>2. CASE Tried \in Readers(u)
      <4>1. asks'[u] <= Attempts * d + Attempts
        BY <1>2, <1>3, <1>4, <3>1, <3>2 DEF Attempts
      <4> QED
        BY <1>4, <2>2, <3>1, <3>2, <4>1
    <3>3. CASE Tried \notin Readers(u)
      BY <1>3, <1>4, <2>2, <3>1, <3>3
    <3> QED
      BY <3>2, <3>3
  <2>4. Spent(u)' = 0
    BY <1>5 DEF Ended, MovedOn, Spent, Passed, Running
  <2> QED
    BY <1>4, <2>3, <2>4, BudgetArithmetic DEF Attempts
<1>6. CASE Retried(o.status)
  <2>1. Done(u)' = Done(u)
    BY <1>6 DEF Retried, Done, Readers
  <2>2. Spent(u)' = IF Tried \in Readers(u) THEN retries + 1 ELSE 0
    BY <1>2, <1>6 DEF Retried, Spent, Passed, Running, Tried, Readers
  <2> QED
    BY <1>3, <2>1, <2>2 DEF Attempts
<1> QED
  BY <1>1, <1>5, <1>6, SettleCases

LEMMA FetchedBudget == TypedInv /\ AskInv /\ Fetched => AskInv'
<1> SUFFICES ASSUME TypedInv, AskInv, Fetched, NEW u \in Urls
             PROVE  (asks[u] <= Attempts * Cardinality(Done(u)) + Spent(u))'
  BY DEF AskInv
<1>1. /\ pc = "fetch" /\ pc' = "fetch" /\ queue' = queue /\ retries' = retries
      /\ Asked /\ landing' = Tail(landing) /\ Tried' = Tried
  BY DEF Fetched, Advance, kept, Tried
<1>2. /\ landing \in Seq(Urls) /\ landing # <<>> /\ asks \in [Urls -> Nat] /\ retries \in Nat
      /\ \A i, j \in DOMAIN landing : landing[i] = landing[j] => i = j
  BY <1>1 DEF TypedInv, FetchInv, RunInv
<1>3. Done(u)' = Done(u) /\ Readers(u)' = Readers(u)
  BY <1>1 DEF Done, Readers
<1>4. (u = Url => Passed(u)' = 1) /\ Passed(u) \in {0, 1} /\ Passed(u)' \in {0, 1}
      /\ (Passed(u) = 1 => Passed(u)' = 1)
  <2>1. \A i \in DOMAIN landing' : landing'[i] # Url
    BY <1>1, <1>2, TailOnce DEF Url
  <2>2. \A i \in DOMAIN landing' : \E j \in DOMAIN landing : landing'[i] = landing[j]
    <3>1. \A i \in DOMAIN landing' : i + 1 \in DOMAIN landing /\ landing'[i] = landing[i + 1]
      BY <1>1, <1>2, TailOnce
    <3> QED
      BY <3>1
  <2>3. u = Url => Passed(u)' = 1
    BY <1>1, <2>1 DEF Passed
  <2>4. Passed(u) = 1 => Passed(u)' = 1
    BY <1>1, <2>2 DEF Passed
  <2>5. Passed(u) \in {0, 1} /\ Passed(u)' \in {0, 1}
    BY DEF Passed
  <2> QED
    BY <2>3, <2>4, <2>5
<1>5. asks[u] <= Attempts * Cardinality(Done(u)) + Spent(u)
  BY DEF AskInv
<1>6. Attempts * Cardinality(Done(u)) \in Nat
  <2>1. Cardinality(Done(u)) \in Nat
    BY ReadersFinite DEF Done
  <2> QED
    BY <2>1, RouterAssumption, BudgetArithmetic DEF Attempts
<1>7. asks'[u] <= Attempts * Cardinality(Done(u)) + Spent(u)'
  <2> DEFINE spent == Attempts * Cardinality(Done(u))
  <2>a. spent \in Nat /\ asks[u] <= spent + Spent(u)
    BY <1>5, <1>6
  <2> HIDE DEF spent
  <2> SUFFICES asks'[u] <= spent + Spent(u)'
    BY DEF spent
  <2>1. CASE asks' = asks
    BY <1>1, <1>2, <1>3, <1>4, <2>a, <2>1 DEF Spent, Running
  <2>2. CASE asks' = [asks EXCEPT ![Url] = @ + 1]
    <3>1. CASE u = Url
      <4>1. Tried \in Readers(u) /\ Passed(u) = 0
        BY <1>1, <3>1, UrlIsUp
      <4>2. Spent(u) = retries
        BY <1>1, <1>2, <4>1 DEF Spent, Running
      <4>3. Passed(u)' = 1
        BY <1>4, <3>1
      <4>4. Spent(u)' = retries + 1
        BY <1>1, <1>3, <4>1, <4>3 DEF Spent, Running
      <4>5. asks'[u] = asks[u] + 1 /\ asks[u] \in Nat
        BY <1>2, <2>2, <3>1
      <4> QED
        BY <1>2, <2>a, <4>2, <4>4, <4>5
    <3>2. CASE u # Url
      BY <1>1, <1>2, <1>3, <1>4, <2>a, <2>2, <3>2 DEF Spent, Running
    <3> QED
      BY <3>1, <3>2
  <2> QED
    BY <1>1, <2>1, <2>2 DEF Asked
<1> QED
  BY <1>3, <1>7 DEF Attempts

\* A step that asks nothing and leaves the attempt where it is, or begins one.
LEMMA BesideBudget ==
  ASSUME TypedInv, AskInv, BeginHttp \/ OpenBrowser \/ Beside
  PROVE  AskInv'
<1> SUFFICES ASSUME NEW u \in Urls
             PROVE  (asks[u] <= Attempts * Cardinality(Done(u)) + Spent(u))'
  BY DEF AskInv
<1>1. /\ asks' = asks /\ queue' = queue /\ retries' = retries
      /\ \/ pc' = pc /\ landing' = landing
         \/ pc = "attempt" /\ pc' = "browse"
         \/ pc = "attempt" /\ pc' = "fetch" /\ Tried \notin Browsers /\ landing' = UrlsOf[Tried]
  BY BesideUnchanged DEF BeginHttp, OpenBrowser, kept
<1>2. Done(u)' = Done(u) /\ Readers(u)' = Readers(u) /\ Tried' = Tried
  BY <1>1 DEF Done, Readers, Tried
<1>3. Spent(u)' = Spent(u)
  <2>1. CASE pc' = pc /\ landing' = landing
    BY <1>1, <1>2, <2>1 DEF Spent, Passed, Running
  <2>2. CASE pc = "attempt" /\ pc' = "browse"
    BY <1>1, <1>2, <2>2 DEF Spent, Passed, Running
  <2>3. CASE pc = "attempt" /\ pc' = "fetch" /\ Tried \notin Browsers /\ landing' = UrlsOf[Tried]
    <3>1. CASE Tried \in Readers(u)
      <4>1. \E i \in DOMAIN UrlsOf[Tried] : UrlsOf[Tried][i] = u
        BY <3>1 DEF Readers
      <4>2. Passed(u)' = 0 /\ Passed(u) = 0
        BY <2>3, <4>1 DEF Passed
      <4> QED
        BY <1>1, <1>2, <2>3, <4>2 DEF Spent, Running
    <3>2. CASE Tried \notin Readers(u)
      BY <1>2, <3>2 DEF Spent
    <3> QED
      BY <3>1, <3>2
  <2> QED
    BY <1>1, <2>1, <2>2, <2>3
<1>4. asks[u] <= Attempts * Cardinality(Done(u)) + Spent(u)
  BY DEF AskInv
<1> QED
  BY <1>1, <1>2, <1>3, <1>4 DEF Attempts

\* No page has been asked for when a job begins.
LEMMA BeginBudget ==
  ASSUME TypedInv', asks' = [u \in Urls |-> 0], pc' # "fetch"
  PROVE  AskInv'
<1> SUFFICES ASSUME NEW u \in Urls
             PROVE  (asks[u] <= Attempts * Cardinality(Done(u)) + Spent(u))'
  BY DEF AskInv
<1>1. Cardinality(Done(u)') \in Nat
  <2>1. Done(u)' \subseteq Readers(u)
    BY DEF Done, Readers
  <2> QED
    BY <2>1, ReadersFinite
<1>2. Attempts * Cardinality(Done(u)') \in Nat /\ Attempts' = Attempts
  BY <1>1, RouterAssumption, BudgetArithmetic DEF Attempts
<1>3. Spent(u)' \in Nat
  <2>1. retries' \in Nat
    BY RouterAssumption DEF TypedInv, RunInv
  <2>2. Passed(u)' \in {0, 1}
    BY DEF Passed
  <2> QED
    BY <2>1, <2>2 DEF Spent
<1>4. asks'[u] = 0
  OBVIOUS
<1> DEFINE spent == Attempts * Cardinality(Done(u)')
<1> HIDE DEF spent
<1>5. 0 <= spent + Spent(u)'
  BY <1>2, <1>3 DEF spent
<1> QED
  BY <1>2, <1>4, <1>5 DEF spent

LEMMA InitBudget == Init => AskInv
<1> SUFFICES ASSUME Init, NEW u \in Urls
             PROVE  asks[u] <= Attempts * Cardinality(Done(u)) + Spent(u)
  BY DEF AskInv
<1>1. Cardinality(Done(u)) \in Nat
  BY ReadersFinite DEF Done
<1>2. Attempts * Cardinality(Done(u)) \in Nat
  BY <1>1, RouterAssumption, BudgetArithmetic DEF Attempts
<1>3. asks[u] = 0 /\ Spent(u) = 0
  BY DEF Init, Spent, Running
<1> QED
  BY <1>2, <1>3

LEMMA NextBudget == TypedInv /\ AskInv /\ [Next]_vars => AskInv'
<1> SUFFICES ASSUME TypedInv, AskInv, [Next]_vars PROVE AskInv'
  OBVIOUS
<1>1. ASSUME NEW robots \in RobotsFiles, DenyRun(robots) \/ StartRun(robots)
      PROVE  AskInv'
  <2>1. asks' = [u \in Urls |-> 0] /\ pc' # "fetch"
    BY <1>1 DEF DenyRun, StartRun, ReadRobots, Running
  <2> QED
    BY <2>1, BeginBudget, NextTyped
<1>2. CASE Fetched
  BY <1>2, FetchedBudget
<1>3. ASSUME NEW o \in Outcomes, Turn(o)
      PROVE  AskInv'
  BY <1>3, TurnBudget
<1>4. CASE BeginHttp \/ OpenBrowser \/ Beside
  BY <1>4, BesideBudget
<1> QED
  BY <1>1, <1>2, <1>3, <1>4, NextCases

\* A result settled leaves no session open, and neither does a page.
LEMMA SettledElsewhere ==
  /\ \A o : Settle(o) => pc' \in {"idle", "attempt"}
  /\ \A p : pc = "fetch" /\ ReadPage(p) => pc' \in {"idle", "attempt", "fetch"}
<1>1. ASSUME NEW o, Settle(o)
      PROVE  pc' \in {"idle", "attempt"}
  BY <1>1 DEF Settle, RetryOrMoveOn, NextCollector, EndRun
<1>2. ASSUME NEW p, pc = "fetch", ReadPage(p)
      PROVE  pc' \in {"idle", "attempt", "fetch"}
  BY <1>1, <1>2 DEF ReadPage
<1> QED
  BY <1>1, <1>2

\* A session that has ended has been captured, whatever it ended with.
LEMMA SessionCaptured ==
  ASSUME NEW cap, cap.status \in Statuses, EndSession(cap)
  PROVE  pc' # "browse" /\ opened' = opened /\ capture' # NoCapture
<1>1. NoCapture.status \notin Statuses
  BY DEF NoCapture, Statuses
<1> QED
  BY <1>1, SettledElsewhere DEF EndSession

LEMMA NextOpened == OpenedInv /\ [Next]_vars => OpenedInv'
<1> SUFFICES ASSUME OpenedInv, [Next]_vars PROVE OpenedInv'
  OBVIOUS
<1>1. ASSUME NEW robots \in RobotsFiles, DenyRun(robots) \/ StartRun(robots)
      PROVE  OpenedInv'
  <2>1. ReadRobots(robots) /\ (pc' = pc \/ pc' = "attempt")
    BY <1>1 DEF DenyRun, StartRun
  <2>2. pc = "idle" /\ opened' = 0
    BY <2>1 DEF ReadRobots, Running
  <2> QED
    BY <2>1, <2>2 DEF OpenedInv
<1>2. ASSUME pc \in {"attempt", "fetch"}, pc' # "browse", opened' = opened,
             capture = NoCapture \/ capture' = capture
      PROVE  OpenedInv'
  BY <1>2 DEF OpenedInv
<1>3. CASE LeaseInvalid \/ ReadCapture \/ NoBrowser \/ BrowserDenied \/ Crash
  BY <1>2, <1>3, SettledElsewhere
     DEF LeaseInvalid, ReadCapture, NoBrowser, BrowserDenied, Crash
<1>4. CASE BeginHttp \/ ReadCached \/ SkipDisallowed
  <2>1. CASE BeginHttp
    BY <1>2, <2>1 DEF BeginHttp
  <2>2. CASE ReadCached
    <3>1. pc = "fetch" /\ ReadPage(pages[Url]) /\ opened' = opened /\ capture' = capture
      BY <2>2 DEF ReadCached, history
    <3>2. pc' \in {"idle", "attempt", "fetch"}
      BY <3>1, SettledElsewhere
    <3> QED
      BY <1>2, <3>1, <3>2
  <2>3. CASE SkipDisallowed
    BY <1>2, <2>3, SettledElsewhere DEF SkipDisallowed, history
  <2> QED
    BY <1>4, <2>1, <2>2, <2>3
<1>5. ASSUME NEW p, Ask(p)
      PROVE  OpenedInv'
  BY <1>2, <1>5, SettledElsewhere DEF Ask
<1>6. CASE OpenBrowser
  BY <1>6 DEF OpenBrowser, OpenedInv
<1>7. CASE FillSearch \/ (\E p \in Replies : Loaded(p.code)) \/ Environment \/ UNCHANGED vars
  BY <1>7, BesideUnchanged DEF Beside, OpenedInv
<1>8. ASSUME NEW text \in Texts, NEW json \in BOOLEAN, Captured(text, json)
      PROVE  OpenedInv'
  <2>1. CaptureStatus(browse.http, browse.blocked, text) \in Statuses
    BY DEF CaptureStatus, Statuses
  <2> QED
    BY <1>8, <2>1, SessionCaptured DEF Captured, OpenedInv
<1>9. ASSUME NEW status \in Retry, BrowserFails(status)
      PROVE  OpenedInv'
  <2>1. status \in Statuses
    BY DEF Retry, Statuses
  <2> QED
    BY <1>9, <2>1, SessionCaptured DEF BrowserFails, OpenedInv
<1> QED
  BY <1>1, <1>3, <1>4, <1>5, <1>6, <1>7, <1>8, <1>9 DEF Next, Proceed

\* What has been spent on a page is within the budget.
LEMMA BudgetBounds == TypedInv /\ AskInv /\ OpenedInv => AskBudget
<1> SUFFICES ASSUME TypedInv, AskInv, NEW u \in Urls
             PROVE  asks[u] <= Cardinality(Readers(u)) * (MaxAdapterRetries + 1)
  BY DEF AskBudget, OpenedInv
<1> DEFINE d == Cardinality(Done(u))
           e == Cardinality(Readers(u))
<1>1. /\ d \in Nat /\ e \in Nat /\ Attempts \in Nat /\ asks[u] \in Nat
      /\ asks[u] <= Attempts * d + Spent(u)
  <2>1. Done(u) \subseteq Readers(u)
    BY DEF Done
  <2>2. d \in Nat /\ e \in Nat
    BY <2>1, ReadersFinite
  <2>3. asks[u] \in Nat /\ Attempts \in Nat
    BY RouterAssumption DEF TypedInv, FetchInv, Attempts
  <2> QED
    BY <2>2, <2>3 DEF AskInv
<1>2. CASE Running /\ Tried \in Readers(u)
  <2>1. Tried \notin Done(u)
    BY <1>2 DEF TypedInv, RunInv, Done, Tried
  <2>2. d + 1 <= e
    BY <1>2, <2>1, DoneGrows DEF Done
  <2>3. Spent(u) <= Attempts /\ Spent(u) \in Nat
    BY <1>2, RouterAssumption DEF TypedInv, RunInv, Spent, Passed, Attempts
  <2> HIDE DEF d, e
  <2>4. Attempts * d \in Nat /\ Attempts * e \in Nat /\ Attempts * d + Attempts <= Attempts * e
    BY <1>1, <2>2, BudgetArithmetic
  <2>5. asks[u] <= Attempts * e
    BY <1>1, <2>3, <2>4
  <2> QED
    BY <1>1, <2>5 DEF Attempts, e
<1>3. CASE ~(Running /\ Tried \in Readers(u))
  <2>1. Spent(u) = 0
    BY <1>3 DEF Spent
  <2>2. d <= e
    BY ReadersFinite DEF Done
  <2> HIDE DEF d, e
  <2>3. Attempts * d \in Nat /\ Attempts * e \in Nat /\ Attempts * d <= Attempts * e
    BY <1>1, <2>2, BudgetArithmetic
  <2>4. asks[u] <= Attempts * e
    BY <1>1, <2>1, <2>3
  <2> QED
    BY <1>1, <2>4 DEF Attempts, e
<1> QED
  BY <1>2, <1>3

\* Retries and fallbacks never ask for a page more often than the collectors
\* that read it may attempt it, however they are ranked and whatever the source
\* answers; and they open the browser on it once.
THEOREM AskBudgetKept == Spec => []AskBudget
<1>1. Init => TypedInv /\ AskInv /\ OpenedInv
  BY InitTyped, InitBudget DEF Init, OpenedInv
<1>2. TypedInv /\ AskInv /\ OpenedInv /\ [Next]_vars => (TypedInv /\ AskInv /\ OpenedInv)'
  BY NextTyped, NextBudget, NextOpened
<1>3. TypedInv /\ AskInv /\ OpenedInv => AskBudget
  BY BudgetBounds
<1> QED
  BY <1>1, <1>2, <1>3, PTL DEF Spec

-----------------------------------------------------------------------------
(***************************************************************************)
(* The circuit breaker.  A circuit's row, and for the collectors a run     *)
(* still has before it the profile the row will be written from, hold at   *)
(* least the failures that runs in a row have ended with.                  *)
(***************************************************************************)
BreakerInv ==
  /\ circuit \in [Collectors -> Circuit] /\ profile \in [Collectors -> Circuit]
  /\ streak \in [Collectors -> 0..FailureThreshold]
  /\ \A c \in Collectors : streak[c] <= circuit[c].failures
  /\ \A i \in DOMAIN queue : streak[queue[i]] <= profile[queue[i]].failures

\* The failures an outcome leaves counted.
CountAfter(n, status) ==
  CASE status = "success" -> 0 [] status \in Neutral -> n [] OTHER -> OneMore(n)

\* An outcome's row covers the count it leaves, and a count that reaches the
\* threshold opens the circuit.
LEMMA OutcomeCovers ==
  ASSUME NEW row \in Circuit, NEW stats \in Circuit, NEW status,
         NEW n \in 0..FailureThreshold, n <= row.failures, n <= stats.failures
  PROVE  LET after == Recorded(row, stats, status)
         IN  /\ after \in Circuit
             /\ CountAfter(n, status) \in 0..FailureThreshold
             /\ CountAfter(n, status) <= after.failures
             /\ status \notin Neutral => n <= after.failures \/ status = "success"
             /\ CountAfter(n, status) > n /\ CountAfter(n, status) = FailureThreshold
                  => after.state = "open"
<1> DEFINE after == Recorded(row, stats, status)
<1>1. /\ FailureThreshold \in Nat /\ stats.failures \in 0..FailureThreshold
      /\ row.failures \in 0..FailureThreshold
  BY CircuitAssumption DEF Circuit
<1>2. /\ after \in Circuit
      /\ status \in Neutral => after.failures = row.failures
      /\ status \notin Neutral \union {"success"} =>
           /\ OneMore(stats.failures) <= after.failures
           /\ OneMore(stats.failures) = FailureThreshold => after.state = "open"
  BY RecordedCircuit
<1>3. after.failures \in 0..FailureThreshold
  BY <1>2 DEF Circuit
<1>4. /\ OneMore(n) \in 0..FailureThreshold /\ OneMore(stats.failures) \in 0..FailureThreshold
      /\ n <= OneMore(n) /\ OneMore(n) <= OneMore(stats.failures)
  BY <1>1 DEF OneMore
<1> HIDE DEF after
<1>5. CASE status = "success"
  BY <1>1, <1>2, <1>3, <1>5 DEF CountAfter, Neutral, after
<1>6. CASE status \in Neutral
  BY <1>1, <1>2, <1>3, <1>6 DEF CountAfter, Neutral, after
<1>7. CASE status \notin Neutral \union {"success"}
  <2>1. CountAfter(n, status) = OneMore(n)
    BY <1>7 DEF CountAfter
  <2>2. OneMore(n) = FailureThreshold => OneMore(stats.failures) = FailureThreshold
    BY <1>1, <1>4
  <2> QED
    BY <1>1, <1>2, <1>3, <1>4, <1>7, <2>1, <2>2 DEF after
<1> QED
  BY <1>5, <1>6, <1>7

\* What settling an outcome does to the breaker.
LEMMA SettleBreaker ==
  ASSUME TypedInv, BreakerInv, NEW o \in Outcomes, Turn(o)
  PROVE  /\ BreakerInv'
         /\ \A c \in Collectors : streak'[c] > streak[c] /\ streak'[c] = FailureThreshold
              => circuit'[c].state = "open"
<1> DEFINE t     == Tried
           after == Recorded(circuit[t], profile[t], o.status)
<1>1. /\ queue \in Seq(Collectors) /\ queue # <<>> /\ 1 \in DOMAIN queue /\ queue[1] = t
      /\ \A i, j \in DOMAIN queue : queue[i] = queue[j] => i = j
      /\ t \in Collectors
  BY DEF Turn, TypedInv, RunInv, Tried
<1>2. circuit' = [circuit EXCEPT ![t] = after] /\ profile' = profile
  BY DEF Turn, Settle, RecordOutcome
<1>3. /\ circuit[t] \in Circuit /\ profile[t] \in Circuit /\ streak[t] \in 0..FailureThreshold
      /\ streak[t] <= circuit[t].failures /\ streak[t] <= profile[t].failures
      /\ FailureThreshold \in Nat
  BY <1>1, CircuitAssumption DEF BreakerInv
<1>4. /\ after \in Circuit
      /\ CountAfter(streak[t], o.status) \in 0..FailureThreshold
      /\ CountAfter(streak[t], o.status) <= after.failures
      /\ o.status \notin Neutral => streak[t] <= after.failures \/ o.status = "success"
      /\ CountAfter(streak[t], o.status) > streak[t]
           /\ CountAfter(streak[t], o.status) = FailureThreshold => after.state = "open"
  BY <1>3, OutcomeCovers
<1> HIDE DEF after
<1>5. /\ circuit' \in [Collectors -> Circuit] /\ profile' \in [Collectors -> Circuit]
      /\ circuit'[t] = after /\ \A c \in Collectors \ {t} : circuit'[c] = circuit[c]
  BY <1>1, <1>2, <1>4 DEF BreakerInv
<1>6. CASE (Ended(o.status) \/ MovedOn(o.status))
  <2>1. streak' = [streak EXCEPT ![t] = CountAfter(@, o.status)]
    BY <1>6 DEF Ended, MovedOn, Counted, CountAfter
  <2>2. /\ streak' \in [Collectors -> 0..FailureThreshold]
        /\ streak'[t] = CountAfter(streak[t], o.status)
        /\ \A c \in Collectors \ {t} : streak'[c] = streak[c]
    BY <1>1, <1>4, <2>1 DEF BreakerInv
  <2>3. \A c \in Collectors : streak'[c] <= circuit'[c].failures
    BY <1>4, <1>5, <2>2 DEF BreakerInv
  <2>4. \A i \in DOMAIN queue' : streak'[queue'[i]] <= profile'[queue'[i]].failures
    <3>1. CASE Ended(o.status)
      BY <3>1 DEF Ended
    <3>2. CASE MovedOn(o.status)
      <4> SUFFICES ASSUME NEW i \in DOMAIN queue'
                   PROVE  streak'[queue'[i]] <= profile'[queue'[i]].failures
        OBVIOUS
      <4>1. /\ i + 1 \in DOMAIN queue /\ queue'[i] = queue[i + 1] /\ queue'[i] # t
        BY <1>1, <3>2, TailOnce DEF MovedOn, Tried
      <4>2. queue'[i] \in Collectors
        BY <1>1, <4>1
      <4> QED
        BY <1>2, <2>2, <4>1, <4>2 DEF BreakerInv
    <3> QED
      BY <1>6, <3>1, <3>2
  <2>5. BreakerInv'
    BY <1>5, <2>2, <2>3, <2>4 DEF BreakerInv
  <2>6. \A c \in Collectors : streak'[c] > streak[c] /\ streak'[c] = FailureThreshold
          => circuit'[c].state = "open"
    BY <1>4, <1>5, <2>2 DEF BreakerInv
  <2> QED
    BY <2>5, <2>6
<1>7. CASE Retried(o.status)
  <2>1. streak' = streak /\ queue' = queue /\ o.status \in Retry
    BY <1>7 DEF Retried
  <2>2. streak[t] <= after.failures
    BY <1>4, <2>1 DEF Retry, Neutral
  <2>3. BreakerInv'
    BY <1>2, <1>5, <2>1, <2>2 DEF BreakerInv
  <2>4. \A c \in Collectors : streak[c] \in Nat
    BY <1>3 DEF BreakerInv
  <2> QED
    BY <2>1, <2>3, <2>4
<1> QED
  BY <1>6, <1>7, SettleCases DEF Turn, TypedInv

\* A step that settles nothing leaves the counts alone.
LEMMA OtherBreaker ==
  ASSUME TypedInv, BreakerInv,
         \/ \E robots \in RobotsFiles : DenyRun(robots) \/ StartRun(robots)
         \/ BeginHttp \/ OpenBrowser \/ Fetched \/ Beside
  PROVE  BreakerInv' /\ streak' = streak
<1>1. ASSUME NEW robots \in RobotsFiles, DenyRun(robots)
      PROVE  BreakerInv' /\ streak' = streak
  BY <1>1 DEF DenyRun, ReadRobots, BreakerInv
<1>2. ASSUME NEW robots \in RobotsFiles, StartRun(robots)
      PROVE  BreakerInv' /\ streak' = streak
  <2>1. /\ profile' = [c \in Collectors |-> Probed(circuit[c])]
        /\ circuit' = circuit /\ streak' = streak
    BY <1>2 DEF StartRun, ReadRobots
  <2>2. queue' \in Seq(Collectors)
    BY <1>2, StartRunTyped DEF TypedInv, RunInv
  <2>3. /\ profile' \in [Collectors -> Circuit]
        /\ \A c \in Collectors : profile'[c].failures = circuit[c].failures
    BY <2>1, ProbedCircuit DEF BreakerInv
  <2>4. \A i \in DOMAIN queue' : streak'[queue'[i]] <= profile'[queue'[i]].failures
    <3>1. \A i \in DOMAIN queue' : queue'[i] \in Collectors
      BY <2>2
    <3> QED
      BY <2>1, <2>3, <3>1 DEF BreakerInv
  <2> QED
    BY <2>1, <2>3, <2>4 DEF BreakerInv
<1>3. CASE BeginHttp \/ OpenBrowser \/ Fetched
  BY <1>3 DEF BeginHttp, OpenBrowser, Fetched, Advance, kept, stored, BreakerInv
<1>4. CASE Beside
  <2>1. UNCHANGED <<queue, profile, streak>>
    BY <1>4, BesideUnchanged
  <2>2. \/ circuit' = circuit
        \/ \E c \in Collectors : circuit' = [circuit EXCEPT ![c].cooling = FALSE]
    BY <1>4 DEF Beside, FillSearch, Loaded, Environment, LeaseExpires, SessionExpires,
       CooldownEnds, OnResponse, vars, kept, stored
  <2>3. /\ circuit' \in [Collectors -> Circuit]
        /\ \A c \in Collectors : circuit'[c].failures = circuit[c].failures
    <3>1. ASSUME NEW c \in Collectors, circuit' = [circuit EXCEPT ![c].cooling = FALSE]
          PROVE  /\ circuit' \in [Collectors -> Circuit]
                 /\ \A d \in Collectors : circuit'[d].failures = circuit[d].failures
      <4>1. circuit[c] \in Circuit
        BY DEF BreakerInv
      <4>2. /\ [circuit[c] EXCEPT !.cooling = FALSE] \in Circuit
            /\ [circuit[c] EXCEPT !.cooling = FALSE].failures = circuit[c].failures
        BY <4>1 DEF Circuit
      <4> QED
        BY <3>1, <4>1, <4>2 DEF BreakerInv
    <3> QED
      BY <2>2, <3>1 DEF BreakerInv
  <2> QED
    BY <2>1, <2>3 DEF BreakerInv
<1> QED
  BY <1>1, <1>2, <1>3, <1>4

LEMMA InitBreaker == Init => BreakerInv
<1> SUFFICES ASSUME Init PROVE BreakerInv
  OBVIOUS
<1>1. PICK open \in OpenAtFirst :
        /\ circuit = [c \in Collectors |-> IF c \in open THEN Opened ELSE Closed]
        /\ streak  = [c \in Collectors |-> IF c \in open THEN FailureThreshold ELSE 0]
  BY DEF Init
<1>2. /\ Opened \in Circuit /\ Closed \in Circuit
      /\ Opened.failures = FailureThreshold /\ Closed.failures = 0
      /\ FailureThreshold \in Nat
  BY CircuitAssumption DEF Opened, Closed, Circuit
<1>3. profile = circuit /\ queue = <<>>
  BY DEF Init
<1> QED
  BY <1>1, <1>2, <1>3 DEF BreakerInv

\* What a step does to the breaker, whichever step it is.
LEMMA NextBreaker ==
  ASSUME TypedInv, BreakerInv, [Next]_vars
  PROVE  /\ BreakerInv'
         /\ \A c \in Collectors : streak'[c] > streak[c] /\ streak'[c] = FailureThreshold
              => circuit'[c].state = "open"
<1>1. CASE \E o \in Outcomes : Turn(o)
  BY <1>1, SettleBreaker
<1>2. CASE \/ \E robots \in RobotsFiles : DenyRun(robots) \/ StartRun(robots)
           \/ BeginHttp \/ OpenBrowser \/ Fetched \/ Beside
  <2>1. BreakerInv' /\ streak' = streak
    BY <1>2, OtherBreaker
  <2>2. \A c \in Collectors : streak[c] \in Nat
    BY CircuitAssumption DEF BreakerInv
  <2> QED
    BY <2>1, <2>2
<1> QED
  BY <1>1, <1>2, NextCases

\* An adapter whose failures reach the threshold, in runs in a row, is open
\* when the last of them ends, though the row is written from the profile that
\* its run began with.
THEOREM BreakerAlwaysTrips == Spec => BreakerTrips
<1>1. Init => TypedInv /\ BreakerInv
  BY InitTyped, InitBreaker
<1>2. TypedInv /\ BreakerInv /\ [Next]_vars => (TypedInv /\ BreakerInv)'
  BY NextTyped, NextBreaker
<1>3. TypedInv /\ BreakerInv /\ [Next]_vars =>
        [\A c \in Collectors : streak'[c] > streak[c] /\ streak'[c] = FailureThreshold
           => circuit'[c].state = "open"]_vars
  BY NextBreaker
<1> QED
  BY <1>1, <1>2, <1>3, PTL DEF Spec, BreakerTrips

-----------------------------------------------------------------------------
(***************************************************************************)
(* The egress: a run goes out by a node of the list.                       *)
(***************************************************************************)
EgressInv ==
  /\ pool \in Pools
  /\ session \in NodeIds \union {NoNode}
  /\ Running => egress.node \in NodeIds
  /\ egress.failovers \in Nat

\* What a step does to the egress.
LEMMA EgressCases ==
  ASSUME TypedInv, [Next]_vars
  PROVE  \/ UNCHANGED <<egress, pool>> /\ session' \in {session, NoNode} /\ (Running' => Running)
         \/ /\ egress' = NoEgress /\ UNCHANGED <<pool, session>> /\ ~Running'
         \/ LET got == Acquire(pool, session, FALSE)
            IN  egress' = [node |-> got.node, failovers |-> 0] /\ pool' = got.pool /\ session' = got.session
         \/ LET got == Failover(pool, session, egress.node)
            IN  /\ Running
                /\ egress' = [node |-> got.node, failovers |-> egress.failovers + 1]
                /\ pool' = got.pool /\ session' = got.session
<1>1. ASSUME NEW robots \in RobotsFiles, DenyRun(robots)
      PROVE  UNCHANGED <<egress, pool, session, pc>>
  BY <1>1 DEF DenyRun
<1>2. ASSUME NEW robots \in RobotsFiles, StartRun(robots)
      PROVE  \/ egress' = NoEgress /\ UNCHANGED <<pool, session>> /\ ~Running'
             \/ LET got == Acquire(pool, session, FALSE)
                IN  /\ egress' = [node |-> got.node, failovers |-> 0]
                    /\ pool' = got.pool /\ session' = got.session
  BY <1>2 DEF StartRun, ReadRobots, Running
<1>3. CASE BeginHttp \/ OpenBrowser \/ Fetched
  BY <1>3 DEF BeginHttp, OpenBrowser, Fetched, Advance, kept, stored, Running
<1>4. ASSUME NEW o \in Outcomes, Turn(o)
      PROVE  \/ UNCHANGED <<egress, pool, session>> /\ Running
             \/ LET got == Failover(pool, session, egress.node)
                IN  /\ Running
                    /\ egress' = [node |-> got.node, failovers |-> egress.failovers + 1]
                    /\ pool' = got.pool /\ session' = got.session
  BY <1>4 DEF Turn, Settle
<1>5. CASE Beside
  <2>1. UNCHANGED <<pc, egress, pool>>
    BY <1>5, BesideUnchanged
  <2>2. session' \in {session, NoNode}
    BY <1>5 DEF Beside, FillSearch, Loaded, Environment, LeaseExpires, SessionExpires,
       CooldownEnds, OnResponse, vars, kept, stored
  <2> QED
    BY <2>1, <2>2 DEF Running
<1> QED
  <2>1. CASE \E robots \in RobotsFiles : DenyRun(robots) \/ StartRun(robots)
    BY <1>1, <1>2, <2>1 DEF Running
  <2>2. CASE \E o \in Outcomes : Turn(o)
    BY <1>4, <2>2
  <2> QED
    BY <1>3, <1>5, <2>1, <2>2, NextCases

\* The action under FailoverMoves.
Moves ==
  egress'.failovers > egress.failovers /\ EffectiveMode \notin {"direct", "static_proxy"}
    /\ PoolCandidates(pool') # {}
  => egress'.node # egress.node /\ pool'[egress'.node].healthy

LEMMA NextEgress == TypedInv /\ EgressInv /\ [Next]_vars => EgressInv' /\ Moves
<1> SUFFICES ASSUME TypedInv, EgressInv, [Next]_vars PROVE EgressInv' /\ Moves
  OBVIOUS
<1>0. egress.failovers \in Nat /\ pool \in Pools /\ session \in NodeIds \union {NoNode}
  BY DEF EgressInv
<1>1. CASE UNCHANGED <<egress, pool>> /\ session' \in {session, NoNode} /\ (Running' => Running)
  BY <1>0, <1>1 DEF EgressInv, Moves
<1>2. CASE egress' = NoEgress /\ UNCHANGED <<pool, session>> /\ ~Running'
  BY <1>0, <1>2 DEF EgressInv, Moves, NoEgress
<1>3. CASE LET got == Acquire(pool, session, FALSE)
           IN  egress' = [node |-> got.node, failovers |-> 0] /\ pool' = got.pool /\ session' = got.session
  <2> DEFINE got == Acquire(pool, session, FALSE)
  <2>1. got.node \in NodeIds /\ got.pool \in Pools /\ got.session \in NodeIds \union {NoNode}
    BY <1>0, AcquireType
  <2>2. egress' = [node |-> got.node, failovers |-> 0] /\ pool' = got.pool /\ session' = got.session
    BY <1>3
  <2> HIDE DEF got
  <2>3. EgressInv'
    BY <2>1, <2>2 DEF EgressInv
  <2> QED
    BY <1>0, <2>2, <2>3 DEF Moves
<1>4. CASE LET got == Failover(pool, session, egress.node)
           IN  /\ Running
               /\ egress' = [node |-> got.node, failovers |-> egress.failovers + 1]
               /\ pool' = got.pool /\ session' = got.session
  <2> DEFINE got == Failover(pool, session, egress.node)
  <2>1. egress.node \in NodeIds
    BY <1>4 DEF EgressInv
  <2>2. got.node \in NodeIds /\ got.pool \in Pools /\ got.session \in NodeIds \union {NoNode}
    BY <1>0, <2>1, FailoverType
  <2>3. EffectiveMode \notin {"direct", "static_proxy"} /\ PoolCandidates(got.pool) # {}
          => got.node # egress.node /\ got.pool[got.node].healthy
    BY <1>0, <2>1, FailoverLeaves
  <2>4. /\ egress' = [node |-> got.node, failovers |-> egress.failovers + 1]
        /\ pool' = got.pool /\ session' = got.session
    BY <1>4
  <2> HIDE DEF got
  <2>5. EgressInv'
    BY <1>0, <2>2, <2>4 DEF EgressInv
  <2> QED
    BY <2>3, <2>4, <2>5 DEF Moves
<1> QED
  BY <1>1, <1>2, <1>3, <1>4, EgressCases

LEMMA InitEgress == Init => EgressInv
  BY DEF Init, EgressInv, Pools, AllHealthy, NoEgress, Running

\* Under a pool's mode a failover leaves the node that failed for a healthy
\* one, as long as the source's policy has one left.
THEOREM FailoverAlwaysMoves == Spec => FailoverMoves
<1>1. Init => TypedInv /\ EgressInv
  BY InitTyped, InitEgress
<1>2. TypedInv /\ EgressInv /\ [Next]_vars => (TypedInv /\ EgressInv)'
  BY NextTyped, NextEgress
<1>3. TypedInv /\ EgressInv /\ [Next]_vars =>
        [egress'.failovers > egress.failovers /\ EffectiveMode \notin {"direct", "static_proxy"}
           /\ PoolCandidates(pool') # {}
         => egress'.node # egress.node /\ pool'[egress'.node].healthy]_vars
  BY NextEgress DEF Moves
<1> QED
  BY <1>1, <1>2, <1>3, PTL DEF Spec, FailoverMoves

-----------------------------------------------------------------------------
(***************************************************************************)
(* What robots.txt has listed.                                             *)
(***************************************************************************)
ListedInv ==
  /\ listed \subseteq Urls
  /\ listed \subseteq BlockedUrls(blockedPaths)
  /\ Running => listed \subseteq disallowed

\* A job that begins excludes what any robots.txt has listed so far.
LEMMA ReadRobotsListed ==
  ASSUME ListedInv, NEW robots \in RobotsFiles, ReadRobots(robots)
  PROVE  ListedInv'
<1> DEFINE now == DisallowPaths(robots.lines)
<1>1. /\ blockedPaths' = blockedPaths \union now
      /\ disallowed' = BlockedUrls(blockedPaths') \union Denied(robots.lines)
      /\ listed' = listed \union BlockedUrls(now)
  BY DEF ReadRobots, Merged
<1>2. now \subseteq DOMAIN Matches /\ \A p \in DOMAIN Matches : Matches[p] \subseteq Urls
  BY RouterAssumption
<1> HIDE DEF now
<1>3. BlockedUrls(now) \subseteq Urls
  BY <1>2 DEF BlockedUrls
<1>4. BlockedUrls(blockedPaths') = BlockedUrls(blockedPaths) \union BlockedUrls(now)
  BY <1>1 DEF BlockedUrls
<1> QED
  BY <1>1, <1>3, <1>4 DEF ListedInv

LEMMA NextListed ==
  ASSUME TypedInv, ListedInv, [Next]_vars
  PROVE  ListedInv' /\ \A u \in listed : asks'[u] <= asks[u]
<1>1. asks \in [Urls -> Nat] /\ listed \subseteq Urls
  BY DEF TypedInv, FetchInv, ListedInv
<1>2. CASE \E robots \in RobotsFiles : DenyRun(robots) \/ StartRun(robots)
  <2>1. PICK robots \in RobotsFiles : ReadRobots(robots)
    BY <1>2 DEF DenyRun, StartRun
  <2>2. asks' = [u \in Urls |-> 0]
    BY <2>1 DEF ReadRobots
  <2> QED
    BY <1>1, <2>1, <2>2, ReadRobotsListed
<1>3. ASSUME Running, Asked, UNCHANGED <<listed, blockedPaths, disallowed>>
      PROVE  ListedInv' /\ \A u \in listed : asks'[u] <= asks[u]
  <2>1. ListedInv'
    BY <1>3 DEF ListedInv
  <2>2. listed \subseteq disallowed
    BY <1>3 DEF ListedInv
  <2> QED
    BY <1>1, <1>3, <2>1, <2>2 DEF Asked
<1>4. CASE BeginHttp \/ OpenBrowser
  BY <1>1, <1>3, <1>4 DEF BeginHttp, OpenBrowser, Running, Asked, kept, stored
<1>5. CASE Fetched
  BY <1>3, <1>5 DEF Fetched, Advance, Running, kept, stored
<1>6. CASE \E o \in Outcomes : Turn(o)
  BY <1>3, <1>6 DEF Turn, Settle
<1>7. CASE Beside
  BY <1>1, <1>7, BesideUnchanged DEF ListedInv, Running
<1> QED
  BY <1>2, <1>4, <1>5, <1>6, <1>7, NextCases

\* A page that robots.txt has once listed for every agent is never requested
\* again, by any collector, in any later run.
THEOREM ListedIsKept == Spec => ListedStays
<1>1. Init => TypedInv /\ ListedInv
  BY InitTyped DEF Init, ListedInv
<1>2. TypedInv /\ ListedInv /\ [Next]_vars => (TypedInv /\ ListedInv)'
  BY NextTyped, NextListed
<1>3. TypedInv /\ ListedInv /\ [Next]_vars => [\A u \in listed : asks'[u] <= asks[u]]_vars
  BY NextListed
<1> QED
  BY <1>1, <1>2, <1>3, PTL DEF Spec, ListedStays

-----------------------------------------------------------------------------
(***************************************************************************)
(* Where every collector reads pages over HTTP: what a refusal and a 429   *)
(* lead to.  Of the feed and of a browser session none of this holds.      *)
(***************************************************************************)
HeardInv ==
  /\ pc # "browse"
  /\ refused => restricted /\ ~Running
  /\ limited => ~Running

\* The requests of a step, where no browser is at work.
LEMMA HttpStep ==
  ASSUME HttpOnly, TypedInv, HeardInv, Running
  PROVE  Tried \notin Browsers /\ Plain /\ ~refused /\ ~limited
<1>1. Tried \in Collectors
  BY TriedIsCollector DEF TypedInv
<1> QED
  BY <1>1 DEF HttpOnly, Browsers, Plain, HeardInv

\* What a step does with a refusal or a 429.
Heeded ==
  /\ refused => ~Contacts
  /\ limited' /\ Running /\ ~Running' => cooldown' \/ restricted'
  /\ egress'.failovers > egress.failovers => "unreachable" \in seen' /\ ~refused' /\ ~limited'

LEMMA TurnHeeded ==
  ASSUME HttpOnly, TypedInv, HeardInv, NEW o \in Outcomes, Turn(o),
         egress.failovers \in Nat
  PROVE  HeardInv' /\ Heeded
<1>1. Running /\ Settle(o) /\ RunInv
  BY DEF Turn, TypedInv
<1>2. /\ ~refused /\ ~limited
      /\ refused' => o.status \in {"blocked", "captcha_blocked"}
      /\ limited' => o.status \in {"blocked", "captcha_blocked", "rate_limited"}
  BY <1>1, HttpStep DEF Turn
<1>3. /\ pc' \in {"idle", "attempt"}
      /\ o.status \in Stop \union {"rate_limited"} =>
           pc' = "idle" /\ cooldown' = (cooldown \/ o.status = "rate_limited")
  BY <1>1, SettleCases DEF Ended, MovedOn, Retried, Stop, Fallback, Retry
<1>4. restricted' = (restricted \/ o.status \in {"blocked", "captcha_blocked"})
  BY <1>1 DEF Settle, RecordOutcome
<1>5. HeardInv'
  BY <1>2, <1>3, <1>4 DEF HeardInv, Running, Stop
<1>6. limited' /\ Running /\ ~Running' => cooldown' \/ restricted'
  BY <1>2, <1>3, <1>4 DEF Stop
<1>7. egress'.failovers > egress.failovers => "unreachable" \in seen' /\ ~refused' /\ ~limited'
  <2>1. CASE o.status \in Retry /\ MayFailover(o.category)
    BY <1>2, <2>1 DEF Turn, MayFailover, Retry
  <2>2. CASE ~(o.status \in Retry /\ MayFailover(o.category))
    BY <1>1, <2>2 DEF Settle
  <2> QED
    BY <2>1, <2>2
<1> QED
  BY <1>2, <1>5, <1>6, <1>7 DEF Heeded

LEMMA OtherHeeded ==
  ASSUME HttpOnly, TypedInv, HeardInv, egress.failovers \in Nat,
         \/ \E robots \in RobotsFiles : DenyRun(robots) \/ StartRun(robots)
         \/ BeginHttp \/ OpenBrowser \/ Fetched \/ Beside
  PROVE  HeardInv' /\ Heeded
<1>0. asks \in [Urls -> Nat]
  BY DEF TypedInv, FetchInv
<1>1. ASSUME NEW robots \in RobotsFiles, DenyRun(robots)
      PROVE  HeardInv' /\ Heeded
  BY <1>0, <1>1 DEF DenyRun, ReadRobots, HeardInv, Heeded, Contacts, Running, attempt
<1>2. ASSUME NEW robots \in RobotsFiles, StartRun(robots)
      PROVE  HeardInv' /\ Heeded
  <2>1. ~Running /\ ~restricted /\ ~refused /\ refused' = refused /\ limited' = FALSE
    BY <1>2 DEF StartRun, ReadRobots, Permitted, HeardInv
  <2>2. pc' \in {"idle", "attempt"}
    BY <1>2 DEF StartRun, ReadRobots, Running
  <2>3. ~(egress'.failovers > egress.failovers)
    <3>1. \E n : egress' = [node |-> n, failovers |-> 0]
      BY <1>2 DEF StartRun, NoEgress
    <3>2. egress'.failovers = 0
      BY <3>1
    <3> QED
      BY <3>2
  <2> QED
    BY <2>1, <2>2, <2>3 DEF HeardInv, Heeded
<1>3. CASE BeginHttp
  BY <1>3 DEF BeginHttp, HeardInv, Heeded, Running, kept, stored
<1>4. CASE OpenBrowser
  BY <1>4, HttpStep DEF OpenBrowser, Running
<1>5. CASE Fetched
  <2>1. UNCHANGED <<pc, refused, limited, restricted, egress>> /\ Running
    BY <1>5, HttpStep DEF Fetched, Advance, Running, kept, stored
  <2> QED
    BY <2>1, HttpStep DEF HeardInv, Heeded, Running
<1>6. CASE Beside
  <2>1. UNCHANGED <<pc, asks, egress>>
    BY <1>6, BesideUnchanged
  <2>2. UNCHANGED <<browse, refused, limited, restricted>>
    BY <1>6 DEF HeardInv, Beside, FillSearch, Loaded, Environment, LeaseExpires, SessionExpires,
       CooldownEnds, OnResponse, vars, kept, stored, attempt, history
  <2> QED
    BY <1>0, <2>1, <2>2 DEF HeardInv, Heeded, Contacts, Running
<1> QED
  BY <1>1, <1>2, <1>3, <1>4, <1>5, <1>6

LEMMA NextHeeded ==
  ASSUME HttpOnly, TypedInv, EgressInv, HeardInv, [Next]_vars
  PROVE  HeardInv' /\ Heeded
<1>1. egress.failovers \in Nat
  BY DEF EgressInv
<1> QED
  BY <1>1, TurnHeeded, OtherHeeded, NextCases

HttpInv == TypedInv /\ EgressInv /\ HeardInv

LEMMA HttpInvariant ==
  ASSUME HttpOnly
  PROVE  Spec => []HttpInv
<1>1. Init => HttpInv
  BY InitTyped, InitEgress DEF Init, HeardInv, HttpInv
<1>2. HttpInv /\ [Next]_vars => HttpInv'
  BY NextTyped, NextEgress, NextHeeded DEF HttpInv
<1> QED
  BY <1>1, <1>2, PTL DEF Spec

\* A source that has rejected automated access is restricted when the run has
\* ended, if its collectors read pages over HTTP.
THEOREM RefusalIsKept ==
  ASSUME HttpOnly
  PROVE  Spec => []RefusalRestricts
<1>1. HttpInv => RefusalRestricts
  BY DEF HttpInv, HeardInv, RefusalRestricts
<1> QED
  BY <1>1, HttpInvariant, PTL

\* And it is never contacted again, in that run or a later one.
THEOREM RefusalEndsContact ==
  ASSUME HttpOnly
  PROVE  Spec => NoContactAfterRefusal
<1>1. HttpInv /\ [Next]_vars => [refused => ~Contacts]_vars
  BY NextHeeded DEF HttpInv, Heeded
<1> QED
  BY <1>1, HttpInvariant, PTL DEF Spec, NoContactAfterRefusal

\* A run that met a 429 ends with the cooldown, or with the restriction.
THEOREM LimitIsKept ==
  ASSUME HttpOnly
  PROVE  Spec => LimitBacksOff
<1>1. HttpInv /\ [Next]_vars =>
        [limited' /\ Running /\ ~Running' => cooldown' \/ restricted']_vars
  BY NextHeeded DEF HttpInv, Heeded
<1> QED
  BY <1>1, HttpInvariant, PTL DEF Spec, LimitBacksOff

\* The egress node changes only after a request without a response, and never
\* in answer to a refusal or a limit.
THEOREM EgressNeverEvades ==
  ASSUME HttpOnly
  PROVE  Spec => EgressForNetworkOnly
<1>1. HttpInv /\ [Next]_vars =>
        [egress'.failovers > egress.failovers => "unreachable" \in seen' /\ ~refused' /\ ~limited']_vars
  BY NextHeeded DEF HttpInv, Heeded
<1> QED
  BY <1>1, HttpInvariant, PTL DEF Spec, EgressForNetworkOnly
=============================================================================
