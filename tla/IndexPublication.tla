-------------------------- MODULE IndexPublication --------------------------
(***************************************************************************)
(* How publications of the index meet in the database.                     *)
(*                                                                         *)
(* The publisher worker, POST /v1/index/publish and `cli run-index` all    *)
(* run IndexPublisher.publish() in a transaction of their own, and every   *)
(* start of the API records the configured basket and weights.  Nothing    *)
(* keeps two of them apart: they meet at the unique keys of the version    *)
(* tables and at latest_run(), by which every reader finds the series.     *)
(*                                                                         *)
(* The database is PostgreSQL at READ COMMITTED, as in Collection: a       *)
(* SELECT sees what is committed; the INSERT of a version another          *)
(* transaction has inserted waits for that transaction, and fails if it    *)
(* commits.  What a transaction wrote (own, mine) reaches the committed    *)
(* state with its commit.  Of the observations only what a publication     *)
(* finds them to come to matters (Kinds): they are collected and go stale  *)
(* all the time, so that any two listings may differ in any way.           *)
(***************************************************************************)
EXTENDS Naturals, FiniteSets

CONSTANTS
  Workers,       \* publisher processes
  Requests,      \* API requests and CLI calls that publish
  Boots,         \* API processes, which record the versions when they start
  Versions,      \* versions of config/basket.yaml and config/weights.yaml
  MaxRuns,       \* bound on the publications begun
  MaxRollbacks,  \* bound on the crashes explored
  NoSession,     \* a key nobody is inserting
  NoRow,         \* a version not looked up yet
  NoRun          \* a transaction without a run, a series never published

Publishers == Workers \union Requests
Sessions   == Publishers \union Boots
Tables     == {"basket", "weights"}
Statuses   == {"RUNNING", "COMPLETED", "FAILED"}

\* What the observations come to, cleaned: none passes the gates, some do but none with a
\* positive price, priced quotes but none of the period a method may pin, or
\* priced quotes of that period too.
Kinds == {"none", "worthless", "later", "base"}

\* method.yaml leaves the base to the engine, pins it, or holds a number the
\* engine refuses: a link_factor that is not positive, omegas that add up to none.
Methods == {"free", "pinned", "refused"}

\* A version row, told from a rolled-back one of the same key by who wrote it.
Rows == [table : Tables, version : Versions, by : Sessions]

\* A run row, the points stored with it, the observations it lists, and, as
\* history, who publishes it and the completed_at of the completed runs committed
\* before it listed them.
RunRecords ==
  [status : Statuses, completed : Nat, points : {"none", "all"}, fares : Kinds,
   basket : Rows, weights : Rows, by : Publishers, before : SUBSET Nat]

ASSUME PublicationAssumption ==
  /\ Versions = 1..Cardinality(Versions)
  /\ Versions # {}
  /\ {MaxRuns, MaxRollbacks} \subseteq Nat
  /\ Workers \cap Requests = {}
  /\ Publishers \cap Boots = {}
  /\ NoSession \notin Sessions
  /\ NoRow \notin Rows
  /\ NoRun \notin RunRecords

VARIABLES
  config,     \* the version of the configuration files each process reads
  method,     \* config/method.yaml
  rows,       \* committed: basket_versions and weight_versions
  runs,       \* committed: index_runs, each with the points stored for it
  inserting,  \* who holds the uncommitted row of a unique key
  clock,      \* completed_at of the next run
  begun,      \* publications begun, the id of the newest
  pc,         \* where each session's transaction is
  own,        \* the version rows a transaction works with
  mine,       \* the run it has written, uncommitted
  rollbacks,  \* crashes so far
  conflicts   \* history: the inserts each session lost

database == <<rows, runs>>
local    == <<pc, own, mine>>
settings == <<config, method>>
vars     == <<settings, database, inserting, clock, begun, local, rollbacks, conflicts>>

Keys == Tables \X Versions

Key(p, t) == <<t, config[p]>>

\* Mutated: the session is left open, and with it its uncommitted rows.
EndedOpen(p) ==
  /\ own'  = [own  EXCEPT ![p] = [t \in Tables |-> NoRow]]
  /\ mine' = [mine EXCEPT ![p] = NoRun]
  /\ UNCHANGED inserting

\* An unhandled exception or a crash of p, or its commit, ends the transaction.
Ended(p) ==
  /\ inserting' = [k \in Keys |-> IF inserting[k] = p THEN NoSession ELSE inserting[k]]
  /\ own'  = [own  EXCEPT ![p] = [t \in Tables |-> NoRow]]
  /\ mine' = [mine EXCEPT ![p] = NoRun]

GoTo(p, step) == pc' = [pc EXCEPT ![p] = step]

Init ==
  /\ method \in Methods
  /\ rows      = {}
  /\ runs      = {}
  /\ inserting = [k \in Keys |-> NoSession]
  /\ clock     = 1
  /\ begun     = 0
  /\ pc        = [p \in Sessions |-> "idle"]
  /\ config    \in [Sessions -> Versions]
  /\ own       = [p \in Sessions |-> [t \in Tables |-> NoRow]]
  /\ mine      = [p \in Sessions |-> NoRun]
  /\ rollbacks = 0
  /\ conflicts = [p \in Sessions |-> [k \in Keys |-> 0]]

-----------------------------------------------------------------------------
(***************************************************************************)
(* ensure_versions(): the basket, then the weights, each looked up by its  *)
(* version and inserted when it is missing.                                *)
(***************************************************************************)
Begin(p) ==
  /\ pc[p] = "idle"
  /\ IF p \in Publishers THEN /\ begun < MaxRuns
                              /\ begun' = begun + 1
                         ELSE UNCHANGED begun
  /\ GoTo(p, "basket")
  /\ UNCHANGED <<settings, database, inserting, clock, own, mine, rollbacks, conflicts>>

\* The table a step of ensure_versions() is about.
TableOf(step) == IF step \in {"basket", "add basket"} THEN "basket" ELSE "weights"

\* Where ensure_versions() goes on; a starting API has nothing else to do.
After(p, t) == IF t = "basket" THEN "weights"
               ELSE IF p \in Publishers THEN "list" ELSE "commit"

Found(t, v) == {r \in rows : r.table = t /\ r.version = v}

\* Mutated: the version is inserted without being looked up.
LookupNothing(p) ==
  /\ pc[p] \in Tables
  /\ LET t == TableOf(pc[p]) IN
       /\ GoTo(p, IF t = "basket" THEN "add basket" ELSE "add weights")
       /\ UNCHANGED own
  /\ UNCHANGED <<settings, database, inserting, clock, begun, mine, rollbacks, conflicts>>

Lookup(p) ==
  /\ pc[p] \in Tables
  /\ LET t     == TableOf(pc[p])
         found == Found(t, config[p])
     IN  IF found = {}
         THEN /\ GoTo(p, IF t = "basket" THEN "add basket" ELSE "add weights")
              /\ UNCHANGED own
         ELSE /\ \E r \in found : own' = [own EXCEPT ![p][t] = r]
              /\ GoTo(p, After(p, t))
  /\ UNCHANGED <<settings, database, inserting, clock, begun, mine, rollbacks, conflicts>>

\* The INSERT goes through: the key is nobody's.
Insert(p) ==
  /\ pc[p] \in {"add basket", "add weights"}
  /\ LET t == TableOf(pc[p]) IN
       /\ inserting[Key(p, t)] = NoSession
       /\ Found(t, config[p]) = {}
       /\ inserting' = [inserting EXCEPT ![Key(p, t)] = p]
       /\ own' = [own EXCEPT ![p][t] = [table |-> t, version |-> config[p], by |-> p]]
       /\ GoTo(p, After(p, t))
  /\ UNCHANGED <<settings, database, clock, begun, mine, rollbacks, conflicts>>

\* Mutated: the lost insert is ignored and the publication goes on.
ConflictIgnored(p) ==
  /\ pc[p] \in {"add basket", "add weights"}
  /\ LET t == TableOf(pc[p]) IN
       /\ inserting[Key(p, t)] = NoSession
       /\ Found(t, config[p]) # {}
       /\ conflicts' = [conflicts EXCEPT ![p][Key(p, t)] = @ + 1]
       /\ own' = [own EXCEPT ![p][t] = [table |-> t, version |-> config[p], by |-> p]]
       /\ GoTo(p, After(p, t))
  /\ UNCHANGED <<settings, database, inserting, clock, begun, mine, rollbacks>>

\* Another transaction committed the key in between: IntegrityError, which
\* nobody catches.
Conflict(p) ==
  /\ pc[p] \in {"add basket", "add weights"}
  /\ LET t == TableOf(pc[p]) IN
       /\ inserting[Key(p, t)] = NoSession
       /\ Found(t, config[p]) # {}
       /\ conflicts' = [conflicts EXCEPT ![p][Key(p, t)] = @ + 1]
  /\ Ended(p)
  /\ GoTo(p, "idle")
  /\ UNCHANGED <<settings, database, clock, begun, rollbacks>>

-----------------------------------------------------------------------------
(***************************************************************************)
(* publish(): list the observations, record the run as RUNNING, compute,   *)
(* complete the run and store its points.                                  *)
(***************************************************************************)
\* Mutated: the run does not name its weights.
ListUnweighted(p) ==
  /\ pc[p] = "list"
  /\ \E found \in Kinds : mine' = [mine EXCEPT ![p] =
       [status |-> "RUNNING", completed |-> 0, points |-> "none",
        fares |-> found,
        basket |-> own[p]["basket"], weights |-> NoRow, by |-> p,
        before |-> {r.completed : r \in {q \in runs : q.status = "COMPLETED"}}]]
  /\ GoTo(p, "compute")
  /\ UNCHANGED <<settings, database, inserting, clock, begun, own, rollbacks, conflicts>>

List(p) ==
  /\ pc[p] = "list"
  /\ \E found \in Kinds : mine' = [mine EXCEPT ![p] =
       [status |-> "RUNNING", completed |-> 0, points |-> "none",
        fares |-> found,
        basket |-> own[p]["basket"], weights |-> own[p]["weights"], by |-> p,
        before |-> {r.completed : r \in {q \in runs : q.status = "COMPLETED"}}]]
  /\ GoTo(p, "compute")
  /\ UNCHANGED <<settings, database, inserting, clock, begun, own, rollbacks, conflicts>>

HasQuotes(run) == run.fares # "none"

\* compute() raises when no quote has a price, when none is of the pinned base
\* period, never collected or gated out, and when the method is refused.
Computable(run) ==
  \/ method = "free"   /\ run.fares \in {"later", "base"}
  \/ method = "pinned" /\ run.fares = "base"

\* Mutated: a publication without quotes is not failed.
SkipUnfailed(p) ==
  /\ pc[p] = "compute"
  /\ ~Computable(mine[p])
  /\ p \in Workers
  /\ GoTo(p, "commit")
  /\ UNCHANGED <<clock, mine, settings, database, inserting, begun, own, rollbacks, conflicts>>

\* ValueError.  Without quotes the run is failed first.  The worker commits
\* whatever is written; a request or the command line rolls back.
Skip(p) ==
  /\ pc[p] = "compute"
  /\ ~Computable(mine[p])
  /\ IF p \in Workers
     THEN /\ GoTo(p, "commit")
          /\ IF ~HasQuotes(mine[p])
             THEN /\ mine' = [mine EXCEPT ![p].status = "FAILED", ![p].completed = clock]
                  /\ clock' = clock + 1
             ELSE UNCHANGED <<mine, clock>>
          /\ UNCHANGED <<inserting, own>>
     ELSE /\ GoTo(p, "idle")
          /\ Ended(p)
          /\ UNCHANGED clock
  /\ UNCHANGED <<settings, database, begun, rollbacks, conflicts>>

Complete(p) ==
  /\ pc[p] = "compute"
  /\ Computable(mine[p])
  /\ mine' = [mine EXCEPT ![p].status = "COMPLETED", ![p].completed = clock]
  /\ clock' = clock + 1
  /\ GoTo(p, "store")
  /\ UNCHANGED <<settings, database, inserting, begun, own, rollbacks, conflicts>>

\* Cells, daily, weekly and monthly points.
Store(p) ==
  /\ pc[p] = "store"
  /\ mine' = [mine EXCEPT ![p].points = "all"]
  /\ GoTo(p, "commit")
  /\ UNCHANGED <<settings, database, inserting, clock, begun, own, rollbacks, conflicts>>

Commit(p) ==
  /\ pc[p] = "commit"
  /\ rows' = rows \union {own[p][t] : t \in {u \in Tables : inserting[Key(p, u)] = p}}
  /\ runs' = IF p \in Publishers THEN runs \union {mine[p]} ELSE runs
  /\ GoTo(p, IF p \in Publishers THEN "idle" ELSE "up")
  /\ Ended(p)
  /\ UNCHANGED <<settings, clock, begun, rollbacks, conflicts>>

Crash(p) ==
  /\ pc[p] \notin {"idle", "up"}
  /\ rollbacks < MaxRollbacks
  /\ rollbacks' = rollbacks + 1
  /\ GoTo(p, "idle")
  /\ Ended(p)
  /\ UNCHANGED <<settings, database, clock, begun, conflicts>>

\* What a session does by itself once it has begun.
Step(p) == \/ Lookup(p) \/ Insert(p) \/ Conflict(p) \/ List(p)
           \/ Skip(p) \/ Complete(p) \/ Store(p) \/ Commit(p)

Next ==
  \E p \in Sessions : Begin(p) \/ Step(p) \/ Crash(p)

Spec == Init /\ [][Next]_vars

FairSpec == Spec /\ \A p \in Sessions : WF_vars(Step(p))

-----------------------------------------------------------------------------

Completed == {r \in runs : r.status = "COMPLETED"}

\* Mutated: a failed run, which has a completed_at too, is served.
LatestOfAll ==
  IF runs = {} THEN NoRun ELSE CHOOSE r \in runs : \A q \in runs : q.completed <= r.completed

\* Mutated: ascending order.
LatestAscending ==
  IF Completed = {} THEN NoRun
  ELSE CHOOSE r \in Completed : \A q \in Completed : q.completed >= r.completed

\* latest_run(): the run whose points readers are served.
Latest ==
  IF Completed = {} THEN NoRun
  ELSE CHOOSE r \in Completed : \A q \in Completed : q.completed <= r.completed

-----------------------------------------------------------------------------

Steps == {"idle", "basket", "add basket", "weights", "add weights", "list",
          "compute", "store", "commit", "up"}

TypeOK ==
  /\ method \in Methods
  /\ rows \subseteq Rows
  /\ runs \subseteq RunRecords
  /\ inserting \in [Keys -> Sessions \union {NoSession}]
  /\ clock \in Nat \ {0}
  /\ begun \in 0..MaxRuns
  /\ pc \in [Sessions -> Steps]
  /\ config \in [Sessions -> Versions]
  /\ own \in [Sessions -> [Tables -> Rows \union {NoRow}]]
  /\ mine \in [Sessions -> RunRecords \union {NoRun}]
  /\ rollbacks \in 0..MaxRollbacks
  /\ conflicts \in [Sessions -> [Keys -> Nat]]

\* Every committed run names a basket and a weight row that exist, whoever
\* inserted them and whatever was rolled back in between, and a version has
\* one row only.
LineageResolves ==
  /\ \A r \in runs : {r.basket, r.weights} \subseteq rows
  /\ \A a, b \in rows : a.table = b.table /\ a.version = b.version => a = b

\* Readers are served the points of a run that has them all.
ServedWhole == Latest # NoRun => Latest.points = "all" /\ HasQuotes(Latest)

\* A publication begun when the served run could be seen takes its place: no
\* completed run has seen the one readers get, so what a run adds is not hidden
\* behind an older series by transactions that commit out of order.
KnownRunSuperseded ==
  \A r \in Completed : Latest.completed \notin r.before

\* What a committed run says of itself is so, whatever was collected or expired
\* while it was published and whoever published it: FAILED if it had no quotes,
\* COMPLETED if the index could be computed, and RUNNING for good if there were
\* quotes the engine refuses.  A request leaves only completed runs behind.
RunsDecided ==
  \A r \in runs :
    /\ r.status = "RUNNING"   => HasQuotes(r) /\ ~Computable(r)
    /\ r.status = "FAILED"    => ~HasQuotes(r)
    /\ r.status = "COMPLETED" => Computable(r)
    /\ r.by \in Requests      => r.status = "COMPLETED"

\* An insert lost to a concurrent first publication costs a session one attempt:
\* the next one finds the row.
ConflictOnce == \A p \in Sessions : \A k \in Keys : conflicts[p][k] <= 1

\* Sessions that wait for each other's versions all end, since they insert the
\* basket before the weights.
EveryPublicationEnds ==
  \A p \in Sessions : pc[p] \notin {"idle", "up"} ~> pc[p] \in {"idle", "up"}
=============================================================================
