----------------------- MODULE IndexPublicationProofs -----------------------
(***************************************************************************)
(* Proofs about IndexPublication.  One invariant, where a transaction      *)
(* stands tells what it has in hand (Typed), and three that are inductive  *)
(* with it: an uncommitted version row belongs to one session and to no    *)
(* committed row (Lineage); the stamps of the runs grow with what they     *)
(* have seen (Stamped); a version lost to another session is there to be   *)
(* found (LostOnce).                                                       *)
(***************************************************************************)
EXTENDS IndexPublication, TLAPS

USE PublicationAssumption DEF Publishers, Sessions, Tables, Statuses, Kinds, Methods

\* The steps at which a transaction has its basket row, its weights row, and
\* the record of its run.
PastBasket  == {"weights", "add weights", "list", "compute", "store", "commit"}
PastWeights == {"list", "compute", "store", "commit"}
Running     == {"compute", "store"}

\* What a transaction has in hand, by where it stands.
Hand(p) ==
  /\ pc[p] \in PastBasket  => own[p]["basket"] # NoRow
  /\ pc[p] \in PastWeights => own[p]["weights"] # NoRow
  /\ pc[p] \in {"list", "compute", "store"} => p \in Publishers
  /\ pc[p] \in Running \/ (pc[p] = "commit" /\ p \in Publishers)
       => /\ mine[p] \in RunRecords
          /\ mine[p].basket = own[p]["basket"]
          /\ mine[p].weights = own[p]["weights"]

InHand == \A p \in Sessions : Hand(p)

Typed == TypeOK /\ InHand

\* ensure_versions() goes from the basket to the weights, and from there to the
\* listing or, for a starting API, to the commit.
LEMMA Afterwards ==
  ASSUME NEW p \in Sessions
  PROVE  /\ After(p, "basket") = "weights"
         /\ p \in Publishers => After(p, "weights") = "list"
         /\ p \notin Publishers => After(p, "weights") = "commit"
BY DEF After

LEMMA TypedInit == Init => Typed
<1> SUFFICES ASSUME Init PROVE Typed
  OBVIOUS
<1>1. TypeOK
  BY DEF Init, TypeOK, Rows, RunRecords, Keys, Steps
<1>2. InHand
  BY DEF Init, InHand, Hand, PastBasket, PastWeights, Running
<1> QED
  BY <1>1, <1>2 DEF Typed

(***************************************************************************)
(* The steps, one lemma for each part of ensure_versions() and publish().  *)
(***************************************************************************)
LEMMA HasRows ==
  ASSUME Typed, NEW p \in Sessions, pc[p] \in PastWeights
  PROVE  \A t \in Tables : own[p][t] \in Rows
<1>1. \A t \in Tables : own[p][t] \in Rows \union {NoRow}
  BY DEF Typed, TypeOK
<1>2. own[p]["basket"] # NoRow /\ own[p]["weights"] # NoRow
  BY DEF Typed, InHand, Hand, PastBasket, PastWeights
<1> QED
  BY <1>1, <1>2

LEMMA TypedEnded ==
  ASSUME Typed, NEW p \in Sessions, Ended(p)
  PROVE  /\ inserting' \in [Keys -> Sessions \union {NoSession}]
         /\ own'  \in [Sessions -> [Tables -> Rows \union {NoRow}]]
         /\ mine' \in [Sessions -> RunRecords \union {NoRun}]
BY DEF Typed, TypeOK, Ended

LEMMA TypedLookup ==
  ASSUME Typed, NEW p \in Sessions, Lookup(p)
  PROVE  Typed'
<1> DEFINE t == TableOf(pc[p])
<1>1. pc[p] = t /\ t \in Tables
  BY DEF Lookup, TableOf
<1>2. CASE Found(t, config[p]) = {}
  <2>1. /\ pc' = [pc EXCEPT ![p] = IF t = "basket" THEN "add basket" ELSE "add weights"]
        /\ own' = own
    BY <1>2 DEF Lookup, GoTo
  <2>2. TypeOK'
    BY <1>1, <2>1 DEF Lookup, Typed, TypeOK, Steps, settings, database
  <2>3. InHand'
    BY <1>1, <2>1 DEF Lookup, Typed, TypeOK, InHand, Hand, PastBasket, PastWeights, Running
  <2> QED
    BY <2>2, <2>3 DEF Typed
<1>3. CASE Found(t, config[p]) # {}
  <2>1. PICK r \in Found(t, config[p]) : own' = [own EXCEPT ![p][t] = r]
    BY <1>3 DEF Lookup
  <2>2. pc' = [pc EXCEPT ![p] = After(p, t)]
    BY <1>3 DEF Lookup, GoTo
  <2>3. r \in Rows
    BY <2>1 DEF Found, Typed, TypeOK
  <2>4. TypeOK'
    BY <1>1, <2>1, <2>2, <2>3, Afterwards DEF Lookup, Typed, TypeOK, Steps, settings, database
  <2>5. InHand'
    <3>1. mine' = mine
      BY DEF Lookup
    <3>2. ASSUME NEW q \in Sessions, q # p PROVE Hand(q)'
      BY <2>1, <2>2, <3>1, <3>2 DEF Typed, TypeOK, InHand, Hand
    <3>3. Hand(p)'
      <4>1. own'[p][t] # NoRow /\ (t = "weights" => own'[p]["basket"] = own[p]["basket"])
        BY <1>1, <2>1, <2>3 DEF Typed, TypeOK
      <4>2. pc'[p] = After(p, t)
        BY <2>2 DEF Typed, TypeOK
      <4>3. t = "weights" => own[p]["basket"] # NoRow
        BY <1>1 DEF Typed, InHand, Hand, PastBasket
      <4> HIDE DEF t
      <4> QED
        BY <1>1, <4>1, <4>2, <4>3, Afterwards DEF Hand, PastBasket, PastWeights, Running
    <3> QED
      BY <3>2, <3>3 DEF InHand
  <2> QED
    BY <2>4, <2>5 DEF Typed
<1> QED
  BY <1>2, <1>3

LEMMA TypedInsert ==
  ASSUME Typed, NEW p \in Sessions, Insert(p)
  PROVE  Typed'
<1> DEFINE t   == TableOf(pc[p])
           row == [table |-> t, version |-> config[p], by |-> p]
<1>1. /\ t \in Tables
      /\ pc[p] = IF t = "basket" THEN "add basket" ELSE "add weights"
  BY DEF Insert, TableOf
<1>2. /\ inserting' = [inserting EXCEPT ![Key(p, t)] = p]
      /\ own' = [own EXCEPT ![p][t] = row]
      /\ pc' = [pc EXCEPT ![p] = After(p, t)]
  BY DEF Insert, GoTo
<1>3. row \in Rows /\ Key(p, t) \in Keys
  BY <1>1 DEF Typed, TypeOK, Rows, Key, Keys
<1> HIDE DEF t, row
<1>4. TypeOK'
  <2>1. inserting' \in [Keys -> Sessions \union {NoSession}]
    BY <1>2, <1>3 DEF Typed, TypeOK
  <2>2. own' \in [Sessions -> [Tables -> Rows \union {NoRow}]]
    BY <1>1, <1>2, <1>3 DEF Typed, TypeOK
  <2>3. After(p, t) \in Steps
    BY <1>1, Afterwards DEF Steps
  <2>4. pc' \in [Sessions -> Steps]
    BY <1>2, <2>3 DEF Typed, TypeOK
  <2> QED
    BY <2>1, <2>2, <2>4 DEF Insert, Typed, TypeOK, settings, database
<1>5. InHand'
  <2>1. mine' = mine
    BY DEF Insert
  <2>2. ASSUME NEW q \in Sessions, q # p PROVE Hand(q)'
    BY <1>2, <2>1, <2>2 DEF Typed, TypeOK, InHand, Hand
  <2>3. Hand(p)'
    <3>1. own'[p][t] # NoRow /\ (t = "weights" => own'[p]["basket"] = own[p]["basket"])
      <4>1. own'[p] = [own[p] EXCEPT ![t] = row]
        BY <1>2 DEF Typed, TypeOK
      <4>2. own'[p][t] = row
        BY <1>1, <4>1 DEF Typed, TypeOK
      <4>3. t = "weights" => own'[p]["basket"] = own[p]["basket"]
        BY <4>1 DEF Typed, TypeOK
      <4>4. row # NoRow
        BY <1>3
      <4> QED
        BY <4>2, <4>3, <4>4
    <3>2. pc'[p] = After(p, t)
      BY <1>2 DEF Typed, TypeOK
    <3>3. t = "weights" => own[p]["basket"] # NoRow
      BY <1>1 DEF Typed, InHand, Hand, PastBasket
    <3> QED
      BY <1>1, <3>1, <3>2, <3>3, Afterwards DEF Hand, PastBasket, PastWeights, Running
  <2> QED
    BY <2>2, <2>3 DEF InHand
<1> QED
  BY <1>4, <1>5 DEF Typed

LEMMA TypedConflict ==
  ASSUME Typed, NEW p \in Sessions, Conflict(p)
  PROVE  Typed'
<1> DEFINE k == Key(p, TableOf(pc[p]))
<1>1. /\ pc' = [pc EXCEPT ![p] = "idle"]
      /\ Ended(p)
      /\ conflicts' = [conflicts EXCEPT ![p][k] = @ + 1]
      /\ UNCHANGED <<settings, database, clock, begun, rollbacks>>
  BY DEF Conflict, GoTo
<1>2. k \in Keys
  BY DEF Key, Keys, TableOf, Typed, TypeOK
<1> HIDE DEF k
<1>3. conflicts' \in [Sessions -> [Keys -> Nat]]
  BY <1>1, <1>2 DEF Typed, TypeOK
<1>4. TypeOK'
  BY <1>1, <1>3, TypedEnded DEF Typed, TypeOK, Steps, settings, database
<1>5. InHand'
  BY <1>1 DEF Ended, Typed, TypeOK, InHand, Hand, PastBasket, PastWeights, Running
<1> QED
  BY <1>4, <1>5 DEF Typed

LEMMA TypedList ==
  ASSUME Typed, NEW p \in Sessions, List(p)
  PROVE  Typed'
<1> DEFINE seen == {r.completed : r \in {q \in runs : q.status = "COMPLETED"}}
           run(kind) == [status |-> "RUNNING", completed |-> 0, points |-> "none", fares |-> kind,
                         basket |-> own[p]["basket"], weights |-> own[p]["weights"], by |-> p,
                         before |-> seen]
<1>0. PICK found \in Kinds : mine' = [mine EXCEPT ![p] = run(found)]
  BY DEF List
<1> DEFINE listed == run(found)
<1>1. /\ pc[p] = "list"
      /\ mine' = [mine EXCEPT ![p] = listed]
      /\ pc' = [pc EXCEPT ![p] = "compute"]
      /\ UNCHANGED <<settings, database, inserting, clock, begun, own, rollbacks, conflicts>>
  BY <1>0 DEF List, GoTo
<1>2. own[p]["basket"] \in Rows /\ own[p]["weights"] \in Rows
  BY <1>1, HasRows DEF PastWeights
<1>3. seen \in SUBSET Nat
  BY DEF Typed, TypeOK, RunRecords
<1>4. p \in Publishers
  BY <1>1 DEF Typed, InHand, Hand
<1>5. /\ listed \in RunRecords
      /\ listed.basket = own[p]["basket"] /\ listed.weights = own[p]["weights"]
  BY <1>0, <1>2, <1>3, <1>4 DEF RunRecords
<1> HIDE DEF listed, seen
<1>6. TypeOK'
  BY <1>1, <1>5 DEF Typed, TypeOK, Steps, settings, database
<1>7. InHand'
  BY <1>1, <1>4, <1>5 DEF Typed, TypeOK, InHand, Hand, PastBasket, PastWeights, Running
<1> QED
  BY <1>6, <1>7 DEF Typed

\* A step that rewrites fields of the run but not its versions.
LEMMA TypedRun ==
  ASSUME Typed, NEW p \in Sessions, pc[p] \in Running,
         NEW run, NEW step \in {"store", "commit"},
         run \in RunRecords, run.basket = mine[p].basket, run.weights = mine[p].weights,
         mine' = [mine EXCEPT ![p] = run], pc' = [pc EXCEPT ![p] = step],
         clock' \in Nat \ {0},
         UNCHANGED <<settings, database, inserting, begun, own, rollbacks, conflicts>>
  PROVE  Typed'
<1>1. TypeOK'
  BY DEF Typed, TypeOK, Steps, settings, database
<1>2. InHand'
  BY DEF Typed, TypeOK, InHand, Hand, PastBasket, PastWeights, Running
<1> QED
  BY <1>1, <1>2 DEF Typed

LEMMA TypedSkip ==
  ASSUME Typed, NEW p \in Sessions, Skip(p)
  PROVE  Typed'
<1>1. pc[p] = "compute" /\ mine[p] \in RunRecords /\ clock \in Nat \ {0}
  BY DEF Skip, Typed, TypeOK, InHand, Hand, Running
<1>2. pc[p] \in Running /\ "commit" \in {"store", "commit"}
  BY <1>1 DEF Running
<1>3. CASE p \in Workers /\ ~HasQuotes(mine[p])
  <2> DEFINE run == [mine[p] EXCEPT !.status = "FAILED", !.completed = clock]
  <2>1. run \in RunRecords
    BY <1>1 DEF RunRecords
  <2>2. run.basket = mine[p].basket /\ run.weights = mine[p].weights
    BY <1>1 DEF RunRecords
  <2>3. mine' = [mine EXCEPT ![p] = run]
    BY <1>3 DEF Skip, Typed, TypeOK
  <2>4. /\ clock' \in Nat \ {0}
        /\ pc' = [pc EXCEPT ![p] = "commit"]
        /\ UNCHANGED <<settings, database, inserting, begun, own, rollbacks, conflicts>>
    BY <1>1, <1>3 DEF Skip, GoTo
  <2> HIDE DEF run
  <2> QED
    BY <1>2, <2>1, <2>2, <2>3, <2>4, TypedRun
<1>4. CASE p \in Workers /\ HasQuotes(mine[p])
  <2>1. mine' = [mine EXCEPT ![p] = mine[p]]
    BY <1>4 DEF Skip, Typed, TypeOK
  <2>2. /\ clock' \in Nat \ {0}
        /\ pc' = [pc EXCEPT ![p] = "commit"]
        /\ UNCHANGED <<settings, database, inserting, begun, own, rollbacks, conflicts>>
    BY <1>1, <1>4 DEF Skip, GoTo
  <2> QED
    BY <1>1, <1>2, <2>1, <2>2, TypedRun
<1>5. CASE p \notin Workers
  <2>1. /\ pc' = [pc EXCEPT ![p] = "idle"]
        /\ Ended(p)
        /\ UNCHANGED <<settings, database, clock, begun, rollbacks, conflicts>>
    BY <1>5 DEF Skip, GoTo
  <2>2. TypeOK'
    BY <2>1, TypedEnded DEF Typed, TypeOK, Steps, settings, database
  <2>3. InHand'
    BY <2>1 DEF Ended, Typed, TypeOK, InHand, Hand, PastBasket, PastWeights, Running
  <2> QED
    BY <2>2, <2>3 DEF Typed
<1> QED
  BY <1>3, <1>4, <1>5

LEMMA TypedComplete ==
  ASSUME Typed, NEW p \in Sessions, Complete(p)
  PROVE  Typed'
<1> DEFINE run == [mine[p] EXCEPT !.status = "COMPLETED", !.completed = clock]
<1>1. pc[p] = "compute" /\ mine[p] \in RunRecords /\ clock \in Nat \ {0}
  BY DEF Complete, Typed, TypeOK, InHand, Hand, Running
<1>2. run \in RunRecords /\ run.basket = mine[p].basket /\ run.weights = mine[p].weights
  BY <1>1 DEF RunRecords
<1>3. mine' = [mine EXCEPT ![p] = run]
  BY DEF Complete, Typed, TypeOK
<1>4. /\ clock' \in Nat \ {0}
      /\ pc' = [pc EXCEPT ![p] = "store"]
      /\ UNCHANGED <<settings, database, inserting, begun, own, rollbacks, conflicts>>
  BY <1>1 DEF Complete, GoTo
<1>5. pc[p] \in Running /\ "store" \in {"store", "commit"}
  BY <1>1 DEF Running
<1> HIDE DEF run
<1> QED
  BY <1>2, <1>3, <1>4, <1>5, TypedRun

LEMMA TypedStore ==
  ASSUME Typed, NEW p \in Sessions, Store(p)
  PROVE  Typed'
<1> DEFINE run == [mine[p] EXCEPT !.points = "all"]
<1>1. pc[p] = "store" /\ mine[p] \in RunRecords /\ clock \in Nat \ {0}
  BY DEF Store, Typed, TypeOK, InHand, Hand, Running
<1>2. run \in RunRecords /\ run.basket = mine[p].basket /\ run.weights = mine[p].weights
  BY <1>1 DEF RunRecords
<1>3. mine' = [mine EXCEPT ![p] = run]
  BY DEF Store, Typed, TypeOK
<1>4. /\ clock' \in Nat \ {0}
      /\ pc' = [pc EXCEPT ![p] = "commit"]
      /\ UNCHANGED <<settings, database, inserting, begun, own, rollbacks, conflicts>>
  BY <1>1 DEF Store, GoTo
<1>5. pc[p] \in Running /\ "commit" \in {"store", "commit"}
  BY <1>1 DEF Running
<1> HIDE DEF run
<1> QED
  BY <1>2, <1>3, <1>4, <1>5, TypedRun

LEMMA TypedCommit ==
  ASSUME Typed, NEW p \in Sessions, Commit(p)
  PROVE  Typed'
<1>1. /\ pc[p] = "commit"
      /\ pc' = [pc EXCEPT ![p] = IF p \in Publishers THEN "idle" ELSE "up"]
      /\ Ended(p)
      /\ UNCHANGED <<settings, clock, begun, rollbacks, conflicts>>
  BY DEF Commit, GoTo
<1>2. rows' \subseteq Rows
  <2>1. \A t \in Tables : own[p][t] \in Rows
    BY <1>1, HasRows DEF PastWeights
  <2> QED
    BY <2>1 DEF Commit, Typed, TypeOK
<1>3. runs' \subseteq RunRecords
  BY <1>1 DEF Commit, Typed, TypeOK, InHand, Hand
<1>4. TypeOK'
  BY <1>1, <1>2, <1>3, TypedEnded DEF Typed, TypeOK, Steps, settings
<1>5. InHand'
  BY <1>1 DEF Ended, Typed, TypeOK, InHand, Hand, PastBasket, PastWeights, Running
<1> QED
  BY <1>4, <1>5 DEF Typed

LEMMA TypedCrash ==
  ASSUME Typed, NEW p \in Sessions, Crash(p)
  PROVE  Typed'
<1>1. /\ pc' = [pc EXCEPT ![p] = "idle"]
      /\ Ended(p)
      /\ rollbacks' \in 0..MaxRollbacks
      /\ UNCHANGED <<settings, database, clock, begun, conflicts>>
  BY DEF Crash, GoTo, Typed, TypeOK
<1>2. TypeOK'
  BY <1>1, TypedEnded DEF Typed, TypeOK, Steps, settings, database
<1>3. InHand'
  BY <1>1 DEF Ended, Typed, TypeOK, InHand, Hand, PastBasket, PastWeights, Running
<1> QED
  BY <1>2, <1>3 DEF Typed

LEMMA TypedBegin ==
  ASSUME Typed, NEW p \in Sessions, Begin(p)
  PROVE  Typed'
<1>1. /\ pc' = [pc EXCEPT ![p] = "basket"]
      /\ UNCHANGED <<settings, database, inserting, clock, own, mine, rollbacks, conflicts>>
  BY DEF Begin, GoTo
<1>2. begun' \in 0..MaxRuns
  BY DEF Begin, Typed, TypeOK
<1>3. TypeOK'
  BY <1>1, <1>2 DEF Typed, TypeOK, Steps, settings, database
<1>4. InHand'
  BY <1>1 DEF Typed, TypeOK, InHand, Hand, PastBasket, PastWeights, Running
<1> QED
  BY <1>3, <1>4 DEF Typed

LEMMA TypedNext == Typed /\ [Next]_vars => Typed'
<1> SUFFICES ASSUME Typed, [Next]_vars PROVE Typed'
  OBVIOUS
<1>1. CASE UNCHANGED vars
  BY <1>1 DEF vars, settings, database, local, Typed, TypeOK, InHand, Hand
<1>2. ASSUME NEW p \in Sessions, Begin(p) \/ Step(p) \/ Crash(p)
      PROVE  Typed'
  BY <1>2, TypedBegin, TypedCrash, TypedLookup, TypedInsert, TypedConflict, TypedList,
     TypedSkip, TypedComplete, TypedStore, TypedCommit DEF Step
<1> QED
  BY <1>1, <1>2 DEF Next

THEOREM TypedAlways == Spec => []Typed
<1> QED
  BY TypedInit, TypedNext, PTL DEF Spec

\* Types, for every number of processes, versions and crashes.
THEOREM TypeCorrect == Spec => []TypeOK
<1>1. Typed => TypeOK
  BY DEF Typed
<1> QED
  BY <1>1, TypedAlways, PTL

-----------------------------------------------------------------------------
(***************************************************************************)
(* Lineage.  A key somebody is inserting has no committed row, so what a   *)
(* transaction has in hand is committed or its own, and its commit adds a  *)
(* row under a key that has none.                                          *)
(***************************************************************************)
Row(p, t) == [table |-> t, version |-> config[p], by |-> p]

Exclusive ==
  \A k \in Keys : inserting[k] # NoSession => Found(k[1], k[2]) = {}

OwnResolves ==
  \A p \in Sessions : \A t \in Tables :
    own[p][t] # NoRow =>
      \/ own[p][t] \in rows
      \/ inserting[Key(p, t)] = p /\ own[p][t] = Row(p, t)

RunsResolve == \A r \in runs : {r.basket, r.weights} \subseteq rows

OneRow == \A a, b \in rows : a.table = b.table /\ a.version = b.version => a = b

Lineage == Exclusive /\ OwnResolves /\ RunsResolve /\ OneRow

LEMMA LineageInit == Init => Lineage
BY DEF Init, Lineage, Exclusive, OwnResolves, RunsResolve, OneRow

LEMMA LineageLookup ==
  ASSUME Typed, Lineage, NEW p \in Sessions, Lookup(p)
  PROVE  Lineage'
<1>1. UNCHANGED <<config, rows, runs, inserting>>
  BY DEF Lookup, settings, database
<1>2. OwnResolves'
  <2>1. CASE own' = own
    BY <1>1, <2>1 DEF Lineage, OwnResolves, Key, Row
  <2>2. CASE \E r \in rows : \E t \in Tables : own' = [own EXCEPT ![p][t] = r]
    <3>1. PICK r \in rows, t \in Tables : own' = [own EXCEPT ![p][t] = r]
      BY <2>2
    <3>2. ASSUME NEW q \in Sessions, NEW u \in Tables
          PROVE  own'[q][u] = own[q][u] \/ own'[q][u] \in rows
      BY <3>1 DEF Typed, TypeOK
    <3>3. \A q \in Sessions : \A u \in Tables :
            Key(q, u)' = Key(q, u) /\ Row(q, u)' = Row(q, u)
      BY <1>1 DEF Key, Row
    <3> QED
      BY <1>1, <3>2, <3>3 DEF Lineage, OwnResolves
  <2>3. TableOf(pc[p]) \in Tables
    BY DEF TableOf
  <2>4. CASE Found(TableOf(pc[p]), config[p]) = {}
    BY <2>1, <2>4 DEF Lookup
  <2>5. CASE Found(TableOf(pc[p]), config[p]) # {}
    <3>1. \E r \in Found(TableOf(pc[p]), config[p]) : own' = [own EXCEPT ![p][TableOf(pc[p])] = r]
      BY <2>5 DEF Lookup
    <3> QED
      BY <2>2, <2>3, <3>1 DEF Found
  <2> QED
    BY <2>4, <2>5
<1> QED
  BY <1>1, <1>2 DEF Lineage, Exclusive, RunsResolve, OneRow, Found

LEMMA LineageInsert ==
  ASSUME Typed, Lineage, NEW p \in Sessions, Insert(p)
  PROVE  Lineage'
<1> DEFINE t == TableOf(pc[p])
<1>1. /\ t \in Tables
      /\ inserting[Key(p, t)] = NoSession
      /\ Found(t, config[p]) = {}
      /\ inserting' = [inserting EXCEPT ![Key(p, t)] = p]
      /\ own' = [own EXCEPT ![p][t] = Row(p, t)]
      /\ UNCHANGED <<config, rows, runs>>
  BY DEF Insert, TableOf, settings, database, Row
<1>2. Key(p, t) \in Keys /\ Key(p, t)[1] = t /\ Key(p, t)[2] = config[p]
  BY <1>1 DEF Key, Keys, Typed, TypeOK
<1> HIDE DEF t
<1>3. Exclusive'
  BY <1>1, <1>2 DEF Lineage, Exclusive, Found, Typed, TypeOK
<1>4. OwnResolves'
  <2>0. \A q \in Sessions : \A u \in Tables :
          Key(q, u)' = Key(q, u) /\ Row(q, u)' = Row(q, u)
    BY <1>1 DEF Key, Row
  <2> SUFFICES ASSUME NEW q \in Sessions, NEW u \in Tables, own'[q][u] # NoRow
               PROVE  \/ own'[q][u] \in rows
                      \/ inserting'[Key(q, u)] = q /\ own'[q][u] = Row(q, u)
    BY <1>1, <2>0 DEF OwnResolves
  <2>1. CASE q = p /\ u = t
    <3>1. own'[p] = [own[p] EXCEPT ![t] = Row(p, t)]
      BY <1>1 DEF Typed, TypeOK
    <3>2. own'[p][t] = Row(p, t)
      BY <1>1, <3>1 DEF Typed, TypeOK
    <3>3. inserting'[Key(p, t)] = p
      BY <1>1, <1>2 DEF Typed, TypeOK
    <3> QED
      BY <2>1, <3>2, <3>3
  <2>2. CASE ~(q = p /\ u = t)
    <3>1. own'[q][u] = own[q][u]
      BY <1>1, <2>2 DEF Typed, TypeOK
    <3>2. Key(q, u) \in Keys
      BY DEF Key, Keys, Typed, TypeOK
    <3>3. inserting[Key(q, u)] = q => inserting'[Key(q, u)] = q
      BY <1>1, <1>2, <3>2 DEF Typed, TypeOK
    <3> QED
      BY <3>1, <3>3 DEF Lineage, OwnResolves
  <2> QED
    BY <2>1, <2>2
<1> QED
  BY <1>1, <1>3, <1>4 DEF Lineage, RunsResolve, OneRow

\* A transaction that ends without a commit takes nothing committed with it.
LEMMA LineageRollback ==
  ASSUME Typed, Lineage, NEW p \in Sessions, Ended(p), UNCHANGED <<config, rows, runs>>
  PROVE  Lineage'
<1>1. Exclusive'
  BY DEF Lineage, Exclusive, Found, Ended, Typed, TypeOK
<1>2. OwnResolves'
  <2> SUFFICES ASSUME NEW q \in Sessions, NEW u \in Tables, own'[q][u] # NoRow
               PROVE  \/ own'[q][u] \in rows
                      \/ inserting'[Key(q, u)] = q /\ own'[q][u] = Row(q, u)
    BY DEF OwnResolves, Key, Row
  <2>1. q # p /\ own'[q][u] = own[q][u]
    BY DEF Ended, Typed, TypeOK
  <2>2. Key(q, u) \in Keys
    BY DEF Key, Keys, Typed, TypeOK
  <2>3. inserting[Key(q, u)] = q => inserting'[Key(q, u)] = q
    BY <2>1, <2>2 DEF Ended
  <2> QED
    BY <2>1, <2>3 DEF Lineage, OwnResolves
<1> QED
  BY <1>1, <1>2 DEF Lineage, RunsResolve, OneRow

\* What a commit adds to the version tables.
Added(p) == {own[p][t] : t \in {u \in Tables : inserting[Key(p, u)] = p}}

LEMMA AddedRows ==
  ASSUME Typed, Lineage, NEW p \in Sessions, pc[p] = "commit", NEW r \in Added(p)
  PROVE  \/ r \in rows
         \/ \E t \in Tables : inserting[Key(p, t)] = p /\ r = Row(p, t)
<1>1. PICK t \in Tables : inserting[Key(p, t)] = p /\ r = own[p][t]
  BY DEF Added
<1>2. own[p][t] # NoRow
  BY HasRows DEF PastWeights
<1> QED
  BY <1>1, <1>2 DEF Lineage, OwnResolves

LEMMA LineageCommit ==
  ASSUME Typed, Lineage, NEW p \in Sessions, Commit(p)
  PROVE  Lineage'
<1>1. /\ pc[p] = "commit"
      /\ rows' = rows \union Added(p)
      /\ runs' = IF p \in Publishers THEN runs \union {mine[p]} ELSE runs
      /\ Ended(p)
      /\ UNCHANGED config
  BY DEF Commit, Added, settings
<1>2. ASSUME NEW t \in Tables, inserting[Key(p, t)] = p
      PROVE  /\ Key(p, t) \in Keys
             /\ \A r \in rows : ~(r.table = t /\ r.version = config[p])
  <2>1. Key(p, t) \in Keys /\ Key(p, t)[1] = t /\ Key(p, t)[2] = config[p]
    BY DEF Key, Keys, Typed, TypeOK
  <2>2. Found(t, config[p]) = {}
    BY <1>2, <2>1 DEF Lineage, Exclusive
  <2> QED
    BY <2>1, <2>2 DEF Found
<1>3. Exclusive'
  <2> SUFFICES ASSUME NEW k \in Keys, inserting'[k] # NoSession, NEW r \in rows',
                      r.table = k[1], r.version = k[2]
               PROVE  FALSE
    BY DEF Exclusive, Found
  <2>1. inserting[k] = inserting'[k] /\ inserting[k] # p
    BY <1>1 DEF Ended
  <2>2. r \notin rows
    BY <2>1 DEF Lineage, Exclusive, Found
  <2>3. PICK t \in Tables : inserting[Key(p, t)] = p /\ r = Row(p, t)
    BY <1>1, <2>2, AddedRows
  <2>4. k = Key(p, t)
    BY <2>3 DEF Row, Key, Keys
  <2> QED
    BY <2>1, <2>3, <2>4
<1>4. OwnResolves'
  <2> SUFFICES ASSUME NEW q \in Sessions, NEW u \in Tables, own'[q][u] # NoRow
               PROVE  \/ own'[q][u] \in rows'
                      \/ inserting'[Key(q, u)] = q /\ own'[q][u] = Row(q, u)
    BY <1>1 DEF OwnResolves, Key, Row
  <2>1. q # p /\ own'[q][u] = own[q][u]
    BY <1>1 DEF Ended, Typed, TypeOK
  <2>2. Key(q, u) \in Keys
    BY DEF Key, Keys, Typed, TypeOK
  <2>3. inserting[Key(q, u)] = q => inserting'[Key(q, u)] = q
    BY <1>1, <2>1, <2>2 DEF Ended
  <2> QED
    BY <1>1, <2>1, <2>3 DEF Lineage, OwnResolves
<1>5. RunsResolve'
  <2>1. CASE p \in Publishers
    <3>1. /\ own[p]["basket"] # NoRow /\ own[p]["weights"] # NoRow
          /\ mine[p].basket = own[p]["basket"] /\ mine[p].weights = own[p]["weights"]
      BY <1>1, <2>1 DEF Typed, InHand, Hand, PastBasket, PastWeights
    <3>2. \A t \in Tables : own[p][t] # NoRow => own[p][t] \in rows \union Added(p)
      BY DEF Lineage, OwnResolves, Added
    <3> QED
      BY <1>1, <2>1, <3>1, <3>2 DEF Lineage, RunsResolve
  <2>2. CASE p \notin Publishers
    BY <1>1, <2>2 DEF Lineage, RunsResolve
  <2> QED
    BY <2>1, <2>2
<1>6. OneRow'
  <2> SUFFICES ASSUME NEW a \in rows', NEW b \in rows', a.table = b.table, a.version = b.version
               PROVE  a = b
    BY DEF OneRow
  <2>1. \A r \in rows' \ rows : \E t \in Tables : inserting[Key(p, t)] = p /\ r = Row(p, t)
    BY <1>1, AddedRows
  <2>2. CASE a \in rows /\ b \in rows
    BY <2>2 DEF Lineage, OneRow
  <2>3. CASE a \notin rows /\ b \notin rows
    BY <2>1, <2>3 DEF Row
  <2>4. CASE a \notin rows /\ b \in rows
    BY <1>2, <2>1, <2>4 DEF Row
  <2>5. CASE a \in rows /\ b \notin rows
    BY <1>2, <2>1, <2>5 DEF Row
  <2> QED
    BY <2>2, <2>3, <2>4, <2>5
<1> QED
  BY <1>3, <1>4, <1>5, <1>6 DEF Lineage

LEMMA LineageNext == Typed /\ Lineage /\ [Next]_vars => Lineage'
<1> SUFFICES ASSUME Typed, Lineage, [Next]_vars PROVE Lineage'
  OBVIOUS
<1>1. ASSUME UNCHANGED <<config, rows, runs, inserting, own>>
      PROVE  Lineage'
  BY <1>1 DEF Lineage, Exclusive, OwnResolves, RunsResolve, OneRow, Found, Key, Row
<1>2. CASE UNCHANGED vars
  BY <1>1, <1>2 DEF vars, settings, database, local
<1>3. ASSUME NEW p \in Sessions,
             Begin(p) \/ List(p) \/ Complete(p) \/ Store(p)
      PROVE  Lineage'
  BY <1>1, <1>3 DEF Begin, List, Complete, Store, settings, database
<1>4. ASSUME NEW p \in Sessions, Conflict(p) \/ Crash(p) PROVE Lineage'
  BY <1>4, LineageRollback DEF Conflict, Crash, settings, database
<1>5. ASSUME NEW p \in Sessions, Skip(p) PROVE Lineage'
  <2>1. CASE p \in Workers
    BY <1>1, <1>5, <2>1 DEF Skip, settings, database
  <2>2. CASE p \notin Workers
    BY <1>5, <2>2, LineageRollback DEF Skip, settings, database
  <2> QED
    BY <2>1, <2>2
<1>6. ASSUME NEW p \in Sessions, Lookup(p) \/ Insert(p) \/ Commit(p) PROVE Lineage'
  BY <1>6, LineageLookup, LineageInsert, LineageCommit
<1> QED
  BY <1>2, <1>3, <1>4, <1>5, <1>6 DEF Next, Step

LEMMA LineageAlways == Spec => [](Typed /\ Lineage)
<1>1. Init => Typed /\ Lineage
  BY TypedInit, LineageInit
<1>2. Typed /\ Lineage /\ [Next]_vars => (Typed /\ Lineage)'
  BY TypedNext, LineageNext
<1> QED
  BY <1>1, <1>2, PTL DEF Spec

\* Every committed run names version rows that exist, and a version has one row.
THEOREM LineageAlwaysResolves == Spec => []LineageResolves
<1>1. Typed /\ Lineage => LineageResolves
  BY DEF Lineage, RunsResolve, OneRow, LineageResolves
<1> QED
  BY <1>1, LineageAlways, PTL

-----------------------------------------------------------------------------
(***************************************************************************)
(* Stamps.  A run has seen only runs completed before it is completed      *)
(* itself, and among the completed runs one is the latest.                 *)
(***************************************************************************)
Whole(r) == r.points = "all" /\ HasQuotes(r) /\ \A c \in r.before : c < r.completed

Decided(r) ==
  /\ r.status = "RUNNING"   => HasQuotes(r) /\ ~Computable(r)
  /\ r.status = "FAILED"    => ~HasQuotes(r)
  /\ r.status = "COMPLETED" => Computable(r)
  /\ r.by \in Requests      => r.status = "COMPLETED"

\* What is known of a run that has been committed, or is about to be.
RunOK(r) ==
  /\ Decided(r)
  /\ r.status = "COMPLETED" => Whole(r)
  /\ r.completed < clock

\* What is known of it earlier on.
InFlight(p) ==
  /\ pc[p] = "compute" => /\ mine[p].status = "RUNNING"
                          /\ mine[p].completed = 0
                          /\ mine[p].by = p
                          /\ \A c \in mine[p].before : c < clock
  /\ pc[p] = "store" => /\ mine[p].status = "COMPLETED"
                        /\ Computable(mine[p])
                        /\ mine[p].completed < clock
                        /\ \A c \in mine[p].before : c < mine[p].completed
  /\ pc[p] = "commit" /\ p \in Publishers => RunOK(mine[p])

HasLatest ==
  Completed # {} => \E r \in Completed : \A q \in Completed : q.completed <= r.completed

Stamped ==
  /\ \A r \in runs : RunOK(r)
  /\ \A p \in Sessions : InFlight(p)
  /\ HasLatest

LEMMA StampedInit == Init => Stamped
BY DEF Init, Stamped, InFlight, HasLatest, Completed

\* A step of p that leaves the committed runs alone, and the clock or moves it on.
LEMMA StampedStep ==
  ASSUME Typed, Stamped, NEW p \in Sessions, NEW step \in Steps, NEW run,
         pc' = [pc EXCEPT ![p] = step], mine' = [mine EXCEPT ![p] = run],
         clock' \in {clock, clock + 1}, UNCHANGED <<method, runs>>,
         InFlight(p)'
  PROVE  Stamped'
<1>1. ASSUME NEW r, RunOK(r), r.completed \in Nat
      PROVE  RunOK(r)'
  BY <1>1 DEF RunOK, Decided, Whole, HasQuotes, Computable, Typed, TypeOK
<1>2. \A r \in runs' : RunOK(r)'
  BY <1>1 DEF Stamped, Typed, TypeOK, RunRecords
<1>3. ASSUME NEW q \in Sessions, q # p
      PROVE  InFlight(q)'
  <2>1. pc'[q] = pc[q] /\ mine'[q] = mine[q]
    BY <1>3 DEF Typed, TypeOK
  <2>2. pc[q] \in Running \/ (pc[q] = "commit" /\ q \in Publishers) => mine[q] \in RunRecords
    BY DEF Typed, InHand, Hand
  <2>3. pc[q] = "commit" /\ q \in Publishers => RunOK(mine[q])'
    BY <2>1, <2>2
       DEF Stamped, InFlight, RunOK, Decided, Whole, HasQuotes, Computable, RunRecords, Typed, TypeOK
  <2>4. pc[q] = "compute" => \A c \in mine[q].before : c < clock'
    BY <2>2 DEF Stamped, InFlight, RunRecords, Running, Typed, TypeOK
  <2>5. pc[q] = "store" => mine[q].completed < clock'
    BY <2>2 DEF Stamped, InFlight, RunRecords, Running, Typed, TypeOK
  <2> QED
    BY <2>1, <2>3, <2>4, <2>5 DEF Stamped, InFlight, HasQuotes, Computable
<1>4. HasLatest'
  BY DEF Stamped, HasLatest, Completed
<1> QED
  BY <1>2, <1>3, <1>4 DEF Stamped

\* The same for a step that ends the transaction or has not listed yet.
LEMMA StampedIdle ==
  ASSUME Typed, Stamped, NEW p \in Sessions, NEW step \in Steps, NEW run,
         step \notin {"compute", "store"}, step = "commit" => p \notin Publishers,
         pc' = [pc EXCEPT ![p] = step], mine' = [mine EXCEPT ![p] = run],
         UNCHANGED <<clock, method, runs>>
  PROVE  Stamped'
<1>1. InFlight(p)'
  BY DEF InFlight, Typed, TypeOK
<1> QED
  BY <1>1, StampedStep

LEMMA StampedList ==
  ASSUME Typed, Stamped, NEW p \in Sessions, List(p)
  PROVE  Stamped'
<1> DEFINE seen == {r.completed : r \in {q \in runs : q.status = "COMPLETED"}}
           run(kind) == [status |-> "RUNNING", completed |-> 0, points |-> "none", fares |-> kind,
                         basket |-> own[p]["basket"], weights |-> own[p]["weights"], by |-> p,
                         before |-> seen]
<1>0. PICK found \in Kinds : mine' = [mine EXCEPT ![p] = run(found)]
  BY DEF List
<1> DEFINE listed == run(found)
<1>1. /\ mine' = [mine EXCEPT ![p] = listed]
      /\ pc' = [pc EXCEPT ![p] = "compute"]
      /\ UNCHANGED <<method, runs, clock>>
  BY <1>0 DEF List, GoTo, settings, database
<1>2. \A c \in seen : c < clock
  BY DEF Stamped, RunOK
<1>3. /\ listed.status = "RUNNING" /\ listed.completed = 0
      /\ listed.by = p /\ listed.before = seen
  OBVIOUS
<1> HIDE DEF listed, seen
<1>4. InFlight(p)'
  BY <1>1, <1>2, <1>3 DEF InFlight, Typed, TypeOK
<1> QED
  BY <1>1, <1>4, StampedStep DEF Steps

LEMMA StampedSkip ==
  ASSUME Typed, Stamped, NEW p \in Sessions, Skip(p)
  PROVE  Stamped'
<1>1. /\ pc[p] = "compute"
      /\ mine[p] \in RunRecords
      /\ mine[p].status = "RUNNING"
      /\ mine[p].completed = 0
      /\ mine[p].by = p
      /\ clock \in Nat \ {0}
      /\ UNCHANGED <<method, runs>>
  BY DEF Skip, Typed, TypeOK, InHand, Hand, Running, Stamped, InFlight, settings, database
<1>2. CASE p \in Workers /\ ~HasQuotes(mine[p])
  <2> DEFINE run == [mine[p] EXCEPT !.status = "FAILED", !.completed = clock]
  <2>1. /\ run.status = "FAILED" /\ run.completed = clock /\ run.by = p
        /\ ~HasQuotes(run)
    BY <1>1, <1>2 DEF RunRecords, HasQuotes
  <2>2. /\ mine' = [mine EXCEPT ![p] = run]
        /\ pc' = [pc EXCEPT ![p] = "commit"]
        /\ clock' = clock + 1
    BY <1>2 DEF Skip, GoTo, Typed, TypeOK
  <2> HIDE DEF run
  <2>3. InFlight(p)'
    BY <1>1, <1>2, <2>1, <2>2 DEF InFlight, RunOK, Decided, HasQuotes, Typed, TypeOK
  <2> QED
    BY <1>1, <2>2, <2>3, StampedStep DEF Steps
<1>3. CASE p \in Workers /\ HasQuotes(mine[p])
  <2>1. /\ mine' = [mine EXCEPT ![p] = mine[p]]
        /\ pc' = [pc EXCEPT ![p] = "commit"]
        /\ clock' = clock
    BY <1>3 DEF Skip, GoTo, Typed, TypeOK
  <2>2. Decided(mine[p])
    BY <1>1, <1>3 DEF Skip, Decided
  <2>3. InFlight(p)'
    BY <1>1, <2>1, <2>2 DEF InFlight, RunOK, Decided, HasQuotes, Computable, Typed, TypeOK
  <2> QED
    BY <1>1, <2>1, <2>3, StampedStep DEF Steps
<1>4. CASE p \notin Workers
  BY <1>1, <1>4, StampedIdle DEF Skip, Ended, GoTo, Steps
<1> QED
  BY <1>2, <1>3, <1>4

LEMMA StampedComplete ==
  ASSUME Typed, Stamped, NEW p \in Sessions, Complete(p)
  PROVE  Stamped'
<1> DEFINE run == [mine[p] EXCEPT !.status = "COMPLETED", !.completed = clock]
<1>1. /\ pc[p] = "compute"
      /\ mine[p] \in RunRecords
      /\ Computable(mine[p])
      /\ \A c \in mine[p].before : c < clock
      /\ clock \in Nat \ {0}
  BY DEF Complete, Typed, TypeOK, InHand, Hand, Running, Stamped, InFlight
<1>2. /\ run.status = "COMPLETED"
      /\ run.completed = clock
      /\ run.before = mine[p].before
      /\ Computable(run)
  BY <1>1 DEF RunRecords, Computable
<1>3. /\ mine' = [mine EXCEPT ![p] = run]
      /\ pc' = [pc EXCEPT ![p] = "store"]
      /\ clock' = clock + 1
      /\ UNCHANGED <<method, runs>>
  BY DEF Complete, GoTo, Typed, TypeOK, settings, database
<1> HIDE DEF run
<1>4. InFlight(p)'
  BY <1>1, <1>2, <1>3 DEF InFlight, Computable, Typed, TypeOK
<1> QED
  BY <1>3, <1>4, StampedStep DEF Steps

LEMMA StampedStore ==
  ASSUME Typed, Stamped, NEW p \in Sessions, Store(p)
  PROVE  Stamped'
<1> DEFINE run == [mine[p] EXCEPT !.points = "all"]
<1>1. /\ pc[p] = "store"
      /\ mine[p] \in RunRecords
      /\ mine[p].status = "COMPLETED"
      /\ Computable(mine[p])
      /\ mine[p].completed < clock
      /\ \A c \in mine[p].before : c < mine[p].completed
  BY DEF Store, Typed, InHand, Hand, Running, Stamped, InFlight
<1>2. /\ run.status = "COMPLETED"
      /\ run.completed = mine[p].completed
      /\ Whole(run) /\ Computable(run)
  BY <1>1 DEF RunRecords, Whole, HasQuotes, Computable
<1>3. /\ mine' = [mine EXCEPT ![p] = run]
      /\ pc' = [pc EXCEPT ![p] = "commit"]
      /\ UNCHANGED <<method, runs, clock>>
  BY DEF Store, GoTo, Typed, TypeOK, settings, database
<1> HIDE DEF run
<1>4. InFlight(p)'
  BY <1>1, <1>2, <1>3 DEF InFlight, RunOK, Decided, Whole, HasQuotes, Computable, Typed, TypeOK
<1> QED
  BY <1>3, <1>4, StampedStep DEF Steps

LEMMA StampedCommit ==
  ASSUME Typed, Stamped, NEW p \in Sessions, Commit(p)
  PROVE  Stamped'
<1>1. /\ pc[p] = "commit"
      /\ runs' = IF p \in Publishers THEN runs \union {mine[p]} ELSE runs
      /\ pc' = [pc EXCEPT ![p] = IF p \in Publishers THEN "idle" ELSE "up"]
      /\ mine' = [mine EXCEPT ![p] = NoRun]
      /\ UNCHANGED <<method, clock>>
  BY DEF Commit, GoTo, Ended, settings
<1>2. CASE p \notin Publishers
  BY <1>1, <1>2, StampedIdle DEF Steps
<1>3. CASE p \in Publishers
  <2>1. mine[p] \in RunRecords /\ RunOK(mine[p])
    BY <1>1, <1>3 DEF Typed, InHand, Hand, Stamped, InFlight
  <2>2. \A r \in runs' : RunOK(r)'
    BY <1>1, <1>3, <2>1 DEF Stamped, RunOK, Decided, Whole, HasQuotes, Computable
  <2>3. ASSUME NEW q \in Sessions
        PROVE  InFlight(q)'
    <3>1. CASE q = p
      BY <1>1, <1>3, <3>1 DEF InFlight, Typed, TypeOK
    <3>2. CASE q # p
      BY <1>1, <3>2 DEF Stamped, InFlight, RunOK, Decided, Whole, HasQuotes, Computable, Typed, TypeOK
    <3> QED
      BY <3>1, <3>2
  <2>4. HasLatest'
    <3>1. \A r \in runs' : r.completed \in Nat
      BY <1>1, <1>3, <2>1 DEF Typed, TypeOK, RunRecords
    <3>2. CASE mine[p].status # "COMPLETED"
      <4>1. Completed' = Completed
        BY <1>1, <1>3, <3>2 DEF Completed
      <4> QED
        BY <4>1 DEF Stamped, HasLatest
    <3>3. CASE mine[p].status = "COMPLETED"
      <4>1. Completed' = Completed \union {mine[p]}
        BY <1>1, <1>3, <3>3 DEF Completed
      <4>2. CASE Completed = {}
        BY <3>1, <4>1, <4>2 DEF HasLatest, Completed
      <4>3. CASE Completed # {}
        <5>1. PICK m \in Completed : \A q \in Completed : q.completed <= m.completed
          BY <4>3 DEF Stamped, HasLatest
        <5>2. /\ m.completed \in Nat
              /\ mine[p].completed \in Nat
              /\ \A q \in Completed : q.completed \in Nat
          BY <2>1, <5>1 DEF Completed, RunRecords, Typed, TypeOK
        <5>3. CASE mine[p].completed <= m.completed
          BY <4>1, <5>1, <5>3 DEF HasLatest
        <5>4. CASE ~(mine[p].completed <= m.completed)
          <6>1. \A q \in Completed' : q.completed <= mine[p].completed
            BY <4>1, <5>1, <5>2, <5>4
          <6> QED
            BY <4>1, <6>1 DEF HasLatest
        <5> QED
          BY <5>3, <5>4
      <4> QED
        BY <4>2, <4>3
    <3> QED
      BY <3>2, <3>3
  <2> QED
    BY <2>2, <2>3, <2>4 DEF Stamped
<1> QED
  BY <1>2, <1>3

LEMMA StampedNext == Typed /\ Stamped /\ [Next]_vars => Stamped'
<1> SUFFICES ASSUME Typed, Stamped, [Next]_vars PROVE Stamped'
  OBVIOUS
<1>1. CASE UNCHANGED vars
  <2>1. UNCHANGED <<pc, mine, clock, method, runs>>
    BY <1>1 DEF vars, settings, database, local
  <2> QED
    BY <2>1
       DEF Stamped, RunOK, Decided, Whole, HasQuotes, Computable, InFlight, HasLatest, Completed
<1>2. ASSUME NEW p \in Sessions, Begin(p)
      PROVE  Stamped'
  <2>1. /\ pc' = [pc EXCEPT ![p] = "basket"]
        /\ mine' = [mine EXCEPT ![p] = mine[p]]
        /\ UNCHANGED <<clock, method, runs>>
    BY <1>2 DEF Begin, GoTo, settings, database, Typed, TypeOK
  <2> QED
    BY <2>1, StampedIdle DEF Steps
<1>3. ASSUME NEW p \in Sessions, Lookup(p) \/ Insert(p)
      PROVE  Stamped'
  <2>1. /\ mine' = [mine EXCEPT ![p] = mine[p]]
        /\ UNCHANGED <<clock, method, runs>>
    BY <1>3 DEF Lookup, Insert, settings, database, Typed, TypeOK
  <2>2. PICK step \in {"add basket", "add weights", After(p, TableOf(pc[p]))} :
          pc' = [pc EXCEPT ![p] = step]
    BY <1>3 DEF Lookup, Insert, GoTo
  <2>3. TableOf(pc[p]) \in Tables
    BY DEF TableOf
  <2>4. /\ step \in Steps
        /\ step \notin {"compute", "store"}
        /\ step = "commit" => p \notin Publishers
    BY <2>2, <2>3, Afterwards DEF Steps
  <2> QED
    BY <2>1, <2>2, <2>4, StampedIdle
<1>4. ASSUME NEW p \in Sessions, Conflict(p) \/ Crash(p)
      PROVE  Stamped'
  <2>1. /\ pc' = [pc EXCEPT ![p] = "idle"]
        /\ mine' = [mine EXCEPT ![p] = NoRun]
        /\ UNCHANGED <<clock, method, runs>>
    BY <1>4 DEF Conflict, Crash, Ended, GoTo, settings, database
  <2> QED
    BY <2>1, StampedIdle DEF Steps
<1>5. ASSUME NEW p \in Sessions,
             List(p) \/ Skip(p) \/ Complete(p) \/ Store(p) \/ Commit(p)
      PROVE  Stamped'
  BY <1>5, StampedList, StampedSkip, StampedComplete, StampedStore, StampedCommit
<1> QED
  BY <1>1, <1>2, <1>3, <1>4, <1>5 DEF Next, Step

LEMMA StampedAlways == Spec => [](Typed /\ Stamped)
<1>1. Init => Typed /\ Stamped
  BY TypedInit, StampedInit
<1>2. Typed /\ Stamped /\ [Next]_vars => (Typed /\ Stamped)'
  BY TypedNext, StampedNext
<1> QED
  BY <1>1, <1>2, PTL DEF Spec

\* latest_run() finds a completed run that no other completed run is later than.
LEMMA LatestIsLast ==
  ASSUME HasLatest, Completed # {}
  PROVE  Latest \in Completed /\ \A q \in Completed : q.completed <= Latest.completed
BY DEF HasLatest, Latest

\* Readers are served the points of a run that has them all, however many
\* publications and rollbacks came before.
THEOREM ServedAlwaysWhole == Spec => []ServedWhole
<1>1. ASSUME Typed, Stamped
      PROVE  ServedWhole
  <2>1. CASE Completed = {}
    BY <2>1 DEF ServedWhole, Latest
  <2>2. CASE Completed # {}
    BY <1>1, <2>2, LatestIsLast DEF Stamped, Completed, RunOK, Whole, ServedWhole
  <2> QED
    BY <2>1, <2>2
<1> QED
  BY <1>1, StampedAlways, PTL

\* The series of a publication never stays hidden behind one it was begun after,
\* in whatever order the transactions commit.
THEOREM KnownRunAlwaysSuperseded == Spec => []KnownRunSuperseded
<1>1. ASSUME Typed, Stamped
      PROVE  KnownRunSuperseded
  <2> SUFFICES ASSUME NEW r \in Completed, Latest.completed \in r.before PROVE FALSE
    BY DEF KnownRunSuperseded
  <2>1. /\ Latest \in Completed
        /\ r.completed <= Latest.completed
    BY <1>1, LatestIsLast DEF Stamped
  <2>2. Latest.completed < r.completed
    BY <1>1 DEF Stamped, Completed, RunOK, Whole
  <2>3. r.completed \in Nat /\ Latest.completed \in Nat
    BY <1>1, <2>1 DEF Completed, Typed, TypeOK, RunRecords
  <2> QED
    BY <2>1, <2>2, <2>3
<1> QED
  BY <1>1, StampedAlways, PTL

\* A committed run is FAILED if it had no quotes, COMPLETED if the index could be
\* computed, and RUNNING if it had quotes the engine refuses, whoever publishes and
\* whatever is collected meanwhile; a request leaves only completed runs.
THEOREM RunsAlwaysDecided == Spec => []RunsDecided
<1>1. Typed /\ Stamped => RunsDecided
  BY DEF Stamped, RunOK, Decided, RunsDecided
<1> QED
  BY <1>1, StampedAlways, PTL

-----------------------------------------------------------------------------
(***************************************************************************)
(* Conflicts.  A session inserts a version only after a lookup that missed *)
(* it; an insert is lost only to a committed row, which every later lookup *)
(* of that version finds.                                                  *)
(***************************************************************************)
Adding(p, t) == pc[p] = IF t = "basket" THEN "add basket" ELSE "add weights"

LostOnce ==
  \A p \in Sessions : \A t \in Tables :
    /\ \A v \in Versions : /\ conflicts[p][<<t, v>>] <= 1
                           /\ conflicts[p][<<t, v>>] > 0 => Found(t, v) # {}
    /\ Adding(p, t) => conflicts[p][<<t, config[p]>>] = 0

LEMMA LostInit == Init => LostOnce
BY DEF Init, LostOnce, Adding, Keys

\* A step of p that loses no insert and does not start one.
LEMMA LostStep ==
  ASSUME Typed, LostOnce, NEW p \in Sessions, NEW step \in Steps \ {"add basket", "add weights"},
         pc' = [pc EXCEPT ![p] = step], rows \subseteq rows', UNCHANGED <<config, conflicts>>
  PROVE  LostOnce'
<1>1. \A t \in Tables, v \in Versions : Found(t, v) # {} => Found(t, v)' # {}
  BY DEF Found
<1>2. \A q \in Sessions, t \in Tables : Adding(q, t)' => Adding(q, t)
  BY DEF Adding, Typed, TypeOK
<1> QED
  BY <1>1, <1>2 DEF LostOnce

LEMMA LostLookup ==
  ASSUME Typed, LostOnce, NEW p \in Sessions, Lookup(p)
  PROVE  LostOnce'
<1> DEFINE t == TableOf(pc[p])
<1>1. t \in Tables /\ UNCHANGED <<rows, config, conflicts>>
  BY DEF Lookup, TableOf, settings, database
<1>2. CASE Found(t, config[p]) = {}
  <2>1. pc' = [pc EXCEPT ![p] = IF t = "basket" THEN "add basket" ELSE "add weights"]
    BY <1>2 DEF Lookup, GoTo
  <2>2. conflicts[p][<<t, config[p]>>] = 0
    <3>1. config[p] \in Versions
      BY DEF Typed, TypeOK
    <3>2. <<t, config[p]>> \in Keys
      BY <1>1, <3>1 DEF Keys
    <3>3. conflicts[p][<<t, config[p]>>] \in Nat
      BY <3>2 DEF Typed, TypeOK
    <3>4. ~(conflicts[p][<<t, config[p]>>] > 0)
      BY <1>1, <1>2, <3>1 DEF LostOnce
    <3> QED
      BY <3>3, <3>4
  <2>3. ASSUME NEW q \in Sessions, NEW u \in Tables, Adding(q, u)'
        PROVE  Adding(q, u) \/ (q = p /\ u = t)
    <3>1. CASE q # p
      BY <2>1, <2>3, <3>1 DEF Adding, Typed, TypeOK
    <3>2. CASE q = p
      BY <1>1, <2>1, <2>3, <3>2 DEF Adding, Typed, TypeOK
    <3> QED
      BY <3>1, <3>2
  <2>4. \A u \in Tables, v \in Versions : Found(u, v)' = Found(u, v)
    BY <1>1 DEF Found
  <2>5. config' = config /\ conflicts' = conflicts
    BY <1>1
  <2> HIDE DEF t
  <2> SUFFICES ASSUME NEW q \in Sessions, NEW u \in Tables
               PROVE  /\ \A v \in Versions : /\ conflicts'[q][<<u, v>>] <= 1
                                             /\ conflicts'[q][<<u, v>>] > 0 => Found(u, v)' # {}
                      /\ Adding(q, u)' => conflicts'[q][<<u, config'[q]>>] = 0
    BY DEF LostOnce
  <2>6. ASSUME NEW v \in Versions
        PROVE  conflicts[q][<<u, v>>] <= 1 /\ (conflicts[q][<<u, v>>] > 0 => Found(u, v) # {})
    BY DEF LostOnce
  <2>7. Adding(q, u)' => conflicts[q][<<u, config[q]>>] = 0
    BY <2>2, <2>3 DEF LostOnce
  <2> QED
    BY <2>4, <2>5, <2>6, <2>7
<1>3. CASE Found(t, config[p]) # {}
  <2>1. pc' = [pc EXCEPT ![p] = After(p, t)]
    BY <1>3 DEF Lookup, GoTo
  <2>2. After(p, t) \in Steps \ {"add basket", "add weights"}
    BY <1>1, Afterwards DEF Steps
  <2> QED
    BY <1>1, <2>1, <2>2, LostStep
<1> QED
  BY <1>2, <1>3

LEMMA LostConflict ==
  ASSUME Typed, LostOnce, NEW p \in Sessions, Conflict(p)
  PROVE  LostOnce'
<1> DEFINE t == TableOf(pc[p])
           k == <<t, config[p]>>
<1>1. /\ t \in Tables
      /\ Adding(p, t)
      /\ Found(t, config[p]) # {}
      /\ conflicts' = [conflicts EXCEPT ![p][k] = @ + 1]
      /\ pc' = [pc EXCEPT ![p] = "idle"]
      /\ UNCHANGED <<rows, config>>
  BY DEF Conflict, TableOf, Adding, Key, GoTo, settings, database
<1>2. k \in Keys /\ conflicts[p][k] = 0
  BY <1>1 DEF LostOnce, Keys, Typed, TypeOK
<1> HIDE DEF t, k
<1>3. /\ conflicts'[p][k] = 1
      /\ \A j \in Keys : j # k => conflicts'[p][j] = conflicts[p][j]
  <2>1. conflicts \in [Sessions -> [Keys -> Nat]]
    BY DEF Typed, TypeOK
  <2> HIDE DEF Keys
  <2> QED
    BY <1>1, <1>2, <2>1
<1>4. \A u \in Tables, v \in Versions : Found(u, v)' = Found(u, v)
  BY <1>1 DEF Found
<1>5. \A q \in Sessions, u \in Tables : Adding(q, u)' => Adding(q, u) /\ q # p
  BY <1>1 DEF Adding, Typed, TypeOK
<1>6. \A q \in Sessions : q # p => conflicts'[q] = conflicts[q]
  BY <1>1 DEF Typed, TypeOK
<1>7. \A u \in Tables, v \in Versions :
        /\ <<u, v>> = k => conflicts'[p][<<u, v>>] = 1 /\ Found(u, v) # {}
        /\ <<u, v>> # k => conflicts'[p][<<u, v>>] = conflicts[p][<<u, v>>]
  BY <1>1, <1>3 DEF Keys, k
<1> QED
  <2> SUFFICES ASSUME NEW q \in Sessions, NEW u \in Tables
               PROVE  /\ \A v \in Versions : /\ conflicts'[q][<<u, v>>] <= 1
                                             /\ conflicts'[q][<<u, v>>] > 0 => Found(u, v)' # {}
                      /\ Adding(q, u)' => conflicts'[q][<<u, config'[q]>>] = 0
    BY DEF LostOnce
  <2>1. CASE q # p
    <3>1. conflicts'[q] = conflicts[q]
      BY <1>6, <2>1
    <3>2. Adding(q, u)' => Adding(q, u)
      BY <1>5
    <3>3. config' = config
      BY <1>1
    <3>4. ASSUME NEW v \in Versions
          PROVE  conflicts[q][<<u, v>>] <= 1 /\ (conflicts[q][<<u, v>>] > 0 => Found(u, v) # {})
      BY DEF LostOnce
    <3>5. Adding(q, u) => conflicts[q][<<u, config[q]>>] = 0
      BY DEF LostOnce
    <3> QED
      BY <1>4, <3>1, <3>2, <3>3, <3>4, <3>5
  <2>2. CASE q = p
    <3>1. ~Adding(q, u)'
      BY <1>5, <2>2
    <3>2. ASSUME NEW v \in Versions
          PROVE  conflicts'[p][<<u, v>>] <= 1 /\ (conflicts'[p][<<u, v>>] > 0 => Found(u, v) # {})
      <4>1. CASE <<u, v>> = k
        BY <1>7, <4>1
      <4>2. CASE <<u, v>> # k
        BY <1>7, <4>2 DEF LostOnce
      <4> QED
        BY <4>1, <4>2
    <3> QED
      BY <1>4, <2>2, <3>1, <3>2
  <2> QED
    BY <2>1, <2>2

LEMMA LostNext == Typed /\ LostOnce /\ [Next]_vars => LostOnce'
<1> SUFFICES ASSUME Typed, LostOnce, [Next]_vars PROVE LostOnce'
  OBVIOUS
<1>1. CASE UNCHANGED vars
  <2>1. UNCHANGED <<pc, rows, config, conflicts>>
    BY <1>1 DEF vars, settings, database, local
  <2> QED
    <3>1. \A p \in Sessions, t \in Tables : Adding(p, t)' <=> Adding(p, t)
      BY <2>1 DEF Adding
    <3>2. \A t \in Tables, v \in Versions : Found(t, v)' = Found(t, v)
      BY <2>1 DEF Found
    <3> QED
      BY <2>1, <3>1, <3>2 DEF LostOnce
<1>2. ASSUME NEW p \in Sessions, Insert(p)
      PROVE  LostOnce'
  <2>1. pc' = [pc EXCEPT ![p] = After(p, TableOf(pc[p]))] /\ UNCHANGED <<rows, config, conflicts>>
    BY <1>2 DEF Insert, GoTo, settings, database
  <2>2. After(p, TableOf(pc[p])) \in Steps \ {"add basket", "add weights"}
    BY Afterwards DEF Steps, TableOf
  <2> QED
    BY <2>1, <2>2, LostStep
<1>3. ASSUME NEW p \in Sessions,
             Begin(p) \/ Crash(p) \/ List(p) \/ Skip(p) \/ Complete(p) \/ Store(p) \/ Commit(p)
      PROVE  LostOnce'
  <2>1. PICK step \in {"basket", "idle", "compute", "store", "commit", "up"} :
          pc' = [pc EXCEPT ![p] = step]
    BY <1>3 DEF Begin, Crash, List, Skip, Complete, Store, Commit, GoTo
  <2>2. rows \subseteq rows' /\ UNCHANGED <<config, conflicts>>
    BY <1>3 DEF Begin, Crash, List, Skip, Complete, Store, Commit, settings, database
  <2>3. step \in Steps \ {"add basket", "add weights"}
    BY DEF Steps
  <2> QED
    BY <2>1, <2>2, <2>3, LostStep
<1>4. ASSUME NEW p \in Sessions, Lookup(p) \/ Conflict(p)
      PROVE  LostOnce'
  BY <1>4, LostLookup, LostConflict
<1> QED
  BY <1>1, <1>2, <1>3, <1>4 DEF Next, Step

\* A session loses a version to a concurrent first publication once at most: its
\* next attempt finds the row.
THEOREM ConflictAlwaysOnce == Spec => []ConflictOnce
<1>1. Init => Typed /\ LostOnce
  BY TypedInit, LostInit
<1>2. Typed /\ LostOnce /\ [Next]_vars => (Typed /\ LostOnce)'
  BY TypedNext, LostNext
<1>3. LostOnce => ConflictOnce
  <2> SUFFICES ASSUME LostOnce, NEW p \in Sessions, NEW k \in Keys
               PROVE  conflicts[p][k] <= 1
    BY DEF ConflictOnce
  <2>1. PICK t \in Tables, v \in Versions : k = <<t, v>>
    BY DEF Keys
  <2> QED
    BY <2>1 DEF LostOnce
<1> QED
  BY <1>1, <1>2, <1>3, PTL DEF Spec
=============================================================================
