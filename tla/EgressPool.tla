----------------------------- MODULE EgressPool -----------------------------
(***************************************************************************)
(* The egress nodes under the collectors (app/network_egress): which one a *)
(* run of a source goes out by, the sticky session that keeps a source on  *)
(* its node, and what a failover does to both.  A pool is a function from  *)
(* nodes to [healthy, load]; mark_healthy and latency_ms have no caller,   *)
(* so a node that failed stays unhealthy, and of the healthy ones none has *)
(* a failure or a latency to be ordered by.                                *)
(***************************************************************************)
EXTENDS Naturals, Sequences

CONSTANTS
  Nodes,        \* the enabled nodes, in list_enabled's order
  DirectNodes,  \* those whose provider is "direct"
  Region,       \* by node
  GlobalMode,   \* settings.egress_mode
  Policy,       \* the source's network_policy: enabled, mode, sticky,
                \* preferred, allowed, strategy
  NoRegion,     \* no preferred region
  MaxLoad       \* bound: active_sessions is counted up to it

NodeIds == {Nodes[i] : i \in DOMAIN Nodes}

NoNode == "no node"

ASSUME EgressAssumption ==
  /\ Nodes \in Seq(STRING) /\ NoNode \notin NodeIds
  /\ DirectNodes \subseteq NodeIds /\ DirectNodes # {}   \* seeding adds one
  /\ Region \in [NodeIds -> STRING]
  /\ GlobalMode \in {"direct", "static_proxy", "proxy_pool"}
  /\ Policy.enabled \in BOOLEAN /\ Policy.sticky \in BOOLEAN
  /\ Policy.mode \in {"direct", "static_proxy", "proxy_pool", "region_pinned", "failover"}
  /\ MaxLoad \in Nat

AllHealthy == [n \in NodeIds |-> [healthy |-> TRUE, load |-> 0]]

\* effective_mode.
EffectiveMode == IF GlobalMode = "direct" \/ ~Policy.enabled THEN "direct" ELSE Policy.mode

\* The first of a set of nodes in the order of the list.
First(S) ==
  IF S = {} THEN NoNode
  ELSE LET i == CHOOSE k \in DOMAIN Nodes :
                  Nodes[k] \in S /\ \A j \in 1..k-1 : Nodes[j] \notin S
       IN  Nodes[i]

Healthy(pool) == {n \in NodeIds : pool[n].healthy}

\* DirectProvider.select: an unhealthy direct node is better than none.
SelectDirect(pool) ==
  IF DirectNodes \cap Healthy(pool) # {} THEN First(DirectNodes \cap Healthy(pool))
  ELSE First(DirectNodes)

\* StaticProxyProvider.select: whatever its health.
SelectStatic == First(NodeIds \ DirectNodes)

\* The candidates of a pool: the preferred region if it has any, and of those
\* the ones in an allowed region.
PoolCandidates(pool) ==
  LET candidates == Healthy(pool) \ DirectNodes
      regional   == {n \in candidates : Region[n] = Policy.preferred}
      preferred  == IF Policy.preferred # NoRegion /\ regional # {} THEN regional ELSE candidates
  IN  IF Policy.allowed = {} THEN preferred
      ELSE {n \in preferred : Region[n] \in Policy.allowed}

\* ProxyPoolProvider.select.
SelectPool(pool) ==
  LET candidates == PoolCandidates(pool)
      lightest   == {n \in candidates : \A k \in candidates : pool[n].load <= pool[k].load}
  IN  First(IF Policy.strategy = "least_loaded" THEN lightest ELSE candidates)

\* _select_node: a direct node where the mode's provider has none.
SelectNode(pool) ==
  LET proxy == IF EffectiveMode = "static_proxy" THEN SelectStatic ELSE SelectPool(pool)
  IN  IF EffectiveMode = "direct" \/ proxy = NoNode THEN SelectDirect(pool) ELSE proxy

CreateSession(pool, n) ==
  [pool EXCEPT ![n].load = IF @ < MaxLoad THEN @ + 1 ELSE @]

CloseSession(pool, n) ==
  [pool EXCEPT ![n].load = IF @ > 0 THEN @ - 1 ELSE 0]

MarkUnhealthy(pool, n) == [pool EXCEPT ![n].healthy = FALSE]

\* acquire: the node of the source's active session, else a node of the pool
\* and, for a sticky source, a new session on it.  A session that has expired
\* is not closed: its node keeps the load.
Acquire(pool, session, restart) ==
  IF Policy.sticky /\ ~restart /\ session # NoNode
  THEN [node |-> session, pool |-> pool, session |-> session]
  ELSE LET n == SelectNode(pool)
       IN  IF Policy.sticky
           THEN [node |-> n, pool |-> CreateSession(pool, n), session |-> n]
           ELSE [node |-> n, pool |-> pool, session |-> session]

\* Mutated: the node is marked when its replacement has been chosen.
FailoverLate(pool, session, current) ==
  LET got == Acquire(IF Policy.sticky THEN CloseSession(pool, current) ELSE pool, NoNode, TRUE)
  IN  [got EXCEPT !.pool = MarkUnhealthy(got.pool, current)]

\* failover: the node is marked, the selection's session closed, and another
\* node acquired.
Failover(pool, session, current) ==
  Acquire(MarkUnhealthy(IF Policy.sticky THEN CloseSession(pool, current) ELSE pool, current),
          NoNode, TRUE)
=============================================================================
