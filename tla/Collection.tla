----------------------------- MODULE Collection -----------------------------
(***************************************************************************)
(* The transactional core of the Nabhsetu collection service.              *)
(*                                                                         *)
(* A collection job is carried out inside ONE database transaction: the    *)
(* worker claims the job, refreshes robots.txt (live mode), asks the       *)
(* compliance governor for a rate reservation, collects, stores the        *)
(* observations with their provenance chain and commits at the very end.   *)
(* POST /collection-jobs does the same for a job it creates itself.        *)
(*                                                                         *)
(* The database is PostgreSQL at READ COMMITTED: a SELECT sees what is     *)
(* committed when it runs and takes no lock; an UPDATE or INSERT takes the *)
(* row's lock when the ORM flushes it, waits for the holder, and keeps the *)
(* lock until the transaction ends.  An UPDATE writes the value the ORM    *)
(* computed from its earlier SELECT.  What a transaction has written is    *)
(* kept here in its local variables and reaches the committed state when   *)
(* it commits; a crash or an exception rolls all of it back.               *)
(*                                                                         *)
(* One value of a CollectionStatus stands for those the service treats     *)
(* alike: "blocked" for BLOCKED and CAPTCHA_BLOCKED, "failed" for every    *)
(* other failure, "denied" for POLICY_DENIED.                              *)
(***************************************************************************)
EXTENDS Naturals, FiniteSets

CONSTANTS
  Workers,       \* collection-worker processes
  Clients,       \* API requests that submit a job and run it themselves
  Jobs,          \* jobs, numbered by created_at
  Sources,       \* fare sources
  SourceOf,      \* the source each job's query names
  Limit,         \* daily_request_limit of every source
  Live,          \* TRUE: APIX_DATA_MODE=live, FALSE: mock
  MaxRollbacks,  \* bound on the crashes and exceptions explored
  NoSession,     \* an unlocked row
  NoJob,         \* a session at rest; the chain's beginning
  NoLink         \* a transaction that has stored no observation

Sessions == Workers \union Clients

\* A provenance record: its job, the job its prev_chain_hash names, created_at.
Links == [job : Jobs, prev : Jobs \union {NoJob}, stamp : Nat]

ASSUME CollectionAssumption ==
  /\ Jobs \subseteq Nat
  /\ SourceOf \in [Jobs -> Sources]
  /\ Limit \in Nat \ {0}
  /\ Live \in BOOLEAN
  /\ MaxRollbacks \in Nat
  /\ Workers \cap Clients = {}
  /\ NoSession \notin Sessions
  /\ NoJob \notin Jobs
  /\ NoLink \notin Links

VARIABLES
  jobs,          \* committed: "absent", "pending" or the job's result
  hasWindow,     \* committed: the source has a rate window row for today
  count,         \* committed: request_count of that row
  blocked,       \* committed: sources.temporarily_blocked
  ledger,        \* committed: provenance records, one link per job
  sourceLock,    \* who holds the row lock on the source
  windowLock,    \* who holds the row lock on the source's rate window
  selected,      \* sources the scheduler's current cycle enqueues for
  clock,         \* created_at of the next provenance record
  pc,            \* where each session's transaction is
  job,           \* the job it runs
  robots,        \* robots.txt permitted the source when it was fetched
  snap,          \* request_count as the governor read it
  result,        \* the CollectionStatus of the run
  link,          \* the provenance link it has stored, uncommitted
  rollbacks,     \* rollbacks so far (bounded by MaxRollbacks)
  collections,   \* history: collections admitted and carried out, per source
  lost           \* history: those whose transaction was rolled back

database == <<jobs, hasWindow, count, blocked, ledger>>
locks    == <<sourceLock, windowLock>>
local    == <<pc, job, robots, snap, result, link>>
history  == <<collections, lost>>
vars     == <<database, locks, selected, clock, local, rollbacks, history>>

-----------------------------------------------------------------------------

\* What a collection can end with, and the JobStatus the service derives.
Collected == IF Live THEN {"success", "no_results", "failed", "denied", "blocked"}
                     ELSE {"success", "no_results", "failed", "denied"}
Results   == {"success", "no_results", "failed", "denied", "blocked"}
Waiting   == {"absent", "pending"}

Steps == {"idle", "robots", "evaluate", "insert", "flush",
          "collect", "persist", "finish", "deny"}

Source(w) == SourceOf[job[w]]

Claimed == {job[w] : w \in Sessions}

\* Mutated: uncommitted records are visible.
LatestLinkDirty ==
  LET seen == (ledger \union {link[w] : w \in Sessions}) \ {NoLink}
  IN  IF seen = {} THEN NoJob
      ELSE (CHOOSE r \in seen : \A q \in seen : q.stamp <= r.stamp).job

\* The record ORDER BY created_at DESC LIMIT 1 finds among the committed ones.
LatestLink ==
  IF ledger = {} THEN NoJob
  ELSE (CHOOSE r \in ledger : \A q \in ledger : q.stamp <= r.stamp).job

\* Ending a transaction releases every row lock it holds.
ReleaseLocks(w) ==
  /\ sourceLock' = [s \in Sources |-> IF sourceLock[s] = w THEN NoSession ELSE sourceLock[s]]
  /\ windowLock' = [s \in Sources |-> IF windowLock[s] = w THEN NoSession ELSE windowLock[s]]

GoTo(w, step) == pc' = [pc EXCEPT ![w] = step]

AtRest(w) ==
  /\ pc'     = [pc     EXCEPT ![w] = "idle"]
  /\ job'    = [job    EXCEPT ![w] = NoJob]
  /\ robots' = [robots EXCEPT ![w] = FALSE]
  /\ snap'   = [snap   EXCEPT ![w] = 0]
  /\ result' = [result EXCEPT ![w] = "failed"]
  /\ link'   = [link   EXCEPT ![w] = NoLink]

Init ==
  /\ jobs        = [j \in Jobs |-> "absent"]
  /\ hasWindow   = [s \in Sources |-> FALSE]
  /\ count       = [s \in Sources |-> 0]
  /\ blocked     = [s \in Sources |-> FALSE]
  /\ ledger      = {}
  /\ sourceLock  = [s \in Sources |-> NoSession]
  /\ windowLock  = [s \in Sources |-> NoSession]
  /\ selected    = {}
  /\ clock       = 0
  /\ pc          = [w \in Sessions |-> "idle"]
  /\ job         = [w \in Sessions |-> NoJob]
  /\ robots      = [w \in Sessions |-> FALSE]
  /\ snap        = [w \in Sessions |-> 0]
  /\ result      = [w \in Sessions |-> "failed"]
  /\ link        = [w \in Sessions |-> NoLink]
  /\ rollbacks   = 0
  /\ collections = [s \in Sources |-> 0]
  /\ lost        = [s \in Sources |-> 0]

-----------------------------------------------------------------------------
(***************************************************************************)
(* The scheduler.  It reads the source profiles, then creates the jobs of  *)
(* one cycle and commits them together: a source may be restricted between *)
(* the two.  Nothing stops it from enqueueing for a source whose earlier   *)
(* jobs are still pending.                                                 *)
(***************************************************************************)
SelectSources ==
  /\ selected' = {s \in Sources : Live => ~blocked[s]}
  /\ UNCHANGED <<database, locks, clock, local, rollbacks, history>>

Enqueue(batch) ==
  /\ batch # {}
  /\ \A j \in batch : /\ jobs[j] = "absent"
                      /\ j \notin Claimed
                      /\ SourceOf[j] \in selected
  /\ jobs' = [j \in Jobs |-> IF j \in batch THEN "pending" ELSE jobs[j]]
  /\ selected' = {}
  /\ UNCHANGED <<hasWindow, count, blocked, ledger, locks, clock, local, rollbacks, history>>

-----------------------------------------------------------------------------
(***************************************************************************)
(* Starting a transaction.  A worker takes the oldest pending job no other *)
(* transaction has locked (FOR UPDATE SKIP LOCKED) and marks it RUNNING,   *)
(* which nobody else sees before the commit.  An API request creates the   *)
(* job it runs in its own transaction.                                     *)
(***************************************************************************)
Begin(w, j) ==
  /\ pc[w] = "idle"
  /\ job' = [job EXCEPT ![w] = j]
  /\ GoTo(w, IF Live THEN "robots" ELSE "evaluate")
  /\ UNCHANGED <<database, locks, selected, clock, robots, snap, result, link,
                 rollbacks, history>>

\* Mutated: no FOR UPDATE SKIP LOCKED.
ClaimableUnlocked == {j \in Jobs : jobs[j] = "pending"}

\* Mutated: jobs of a restricted source are not claimed.
ClaimableOpen == {j \in Jobs : jobs[j] = "pending" /\ j \notin Claimed /\ ~blocked[SourceOf[j]]}

Claimable == {j \in Jobs : jobs[j] = "pending" /\ j \notin Claimed}

Claim(w) ==
  \E j \in Claimable :
    /\ \A k \in Claimable : j <= k
    /\ Begin(w, j)

Submit(c) ==
  \E j \in Jobs :
    /\ jobs[j] = "absent"
    /\ j \notin Claimed
    /\ Begin(c, j)

\* Mutated: the snapshot is flushed only at the commit, so no lock is held.
RefreshRobotsUnlocked(w) ==
  /\ pc[w] = "robots"
  /\ \E permits \in BOOLEAN : robots' = [robots EXCEPT ![w] = permits]
  /\ GoTo(w, "evaluate")
  /\ UNCHANGED <<database, locks, selected, clock, job, snap, result, link,
                 rollbacks, history>>

(***************************************************************************)
(* Live mode fetches robots.txt and writes what it found to the source's   *)
(* row.  The router's next SELECT flushes that UPDATE, so the transaction  *)
(* holds the source's row lock before it reads the profile.                *)
(***************************************************************************)
RefreshRobots(w) ==
  /\ pc[w] = "robots"
  /\ sourceLock[Source(w)] = NoSession
  /\ sourceLock' = [sourceLock EXCEPT ![Source(w)] = w]
  /\ \E permits \in BOOLEAN : robots' = [robots EXCEPT ![w] = permits]
  /\ GoTo(w, "evaluate")
  /\ UNCHANGED <<database, windowLock, selected, clock, job, snap, result, link,
                 rollbacks, history>>

-----------------------------------------------------------------------------
(***************************************************************************)
(* ComplianceGovernor.evaluate: the profile's checks, then the unlocked    *)
(* SELECT of the rate window.  A missing window row is INSERTed at once;   *)
(* an existing one is updated in memory and flushed by the next query.     *)
(***************************************************************************)
\* Mutated: temporarily_blocked is not looked at.
PermittedWhenBlocked(w) == Live => robots[w]

Permitted(w) == ~blocked[Source(w)] /\ (Live => robots[w])

\* Mutated: the limit itself still passes.
ExhaustedBeyond(w) == hasWindow[Source(w)] /\ count[Source(w)] > Limit

Exhausted(w) == hasWindow[Source(w)] /\ count[Source(w)] >= Limit

\* Besides what Permitted and Exhausted say, the governor denies for reasons
\* this module leaves open: the terms review, the route, the minimum interval
\* since the last request, a cooldown.
Deny(w) ==
  /\ pc[w] = "evaluate"
  /\ result' = [result EXCEPT ![w] = "denied"]
  /\ GoTo(w, "deny")
  /\ UNCHANGED <<database, locks, selected, clock, job, robots, snap, link,
                 rollbacks, history>>

ReadWindow(w) ==
  /\ pc[w] = "evaluate"
  /\ Permitted(w)
  /\ ~Exhausted(w)
  /\ snap' = [snap EXCEPT ![w] = count[Source(w)]]
  /\ GoTo(w, IF hasWindow[Source(w)] THEN "flush" ELSE "insert")
  /\ UNCHANGED <<database, locks, selected, clock, job, robots, result, link,
                 rollbacks, history>>

\* Mutated: the reservation is flushed on a second connection, which waits for
\* the row the first one has inserted.
WindowFreeElsewhere(w) == windowLock[Source(w)] = NoSession

WindowFree(w) == windowLock[Source(w)] \in {NoSession, w}

\* The INSERT waits for another transaction's uncommitted row of the same key.
InsertWindow(w) ==
  /\ pc[w] = "insert"
  /\ WindowFree(w)
  /\ ~hasWindow[Source(w)]
  /\ windowLock' = [windowLock EXCEPT ![Source(w)] = w]
  /\ GoTo(w, "flush")
  /\ UNCHANGED <<database, sourceLock, selected, clock, job, robots, snap, result, link,
                 rollbacks, history>>

\* If that transaction committed, the INSERT fails with an IntegrityError,
\* nothing handles it, and the session rolls back.
InsertConflict(w) ==
  /\ pc[w] = "insert"
  /\ WindowFree(w)
  /\ hasWindow[Source(w)]
  /\ AtRest(w)
  /\ ReleaseLocks(w)
  /\ UNCHANGED <<database, selected, clock, rollbacks, history>>

\* The UPDATE of the reservation is flushed by the egress manager's query.
FlushReservation(w) ==
  /\ pc[w] = "flush"
  /\ WindowFree(w)
  /\ windowLock' = [windowLock EXCEPT ![Source(w)] = w]
  /\ GoTo(w, "collect")
  /\ UNCHANGED <<database, sourceLock, selected, clock, job, robots, snap, result, link,
                 rollbacks, history>>

-----------------------------------------------------------------------------
(***************************************************************************)
(* The router's attempts, seen from the transaction: the source is really  *)
(* contacted, then the outcome decides what is written.  A collector that  *)
(* finds its lease expired returns POLICY_DENIED after the reservation.    *)
(***************************************************************************)
Collect(w) ==
  /\ pc[w] = "collect"
  /\ collections' = [collections EXCEPT ![Source(w)] = @ + 1]
  /\ \E status \in Collected :
       /\ result' = [result EXCEPT ![w] = status]
       /\ GoTo(w, IF status = "success" THEN "persist" ELSE "finish")
  /\ UNCHANGED <<database, locks, selected, clock, job, robots, snap, link,
                 rollbacks, lost>>

\* Mutated: the observations are committed on their own.
PersistCommitted(w) ==
  /\ pc[w] = "persist"
  /\ ledger' = ledger \union {[job |-> job[w], prev |-> LatestLink, stamp |-> clock]}
  /\ clock' = clock + 1
  /\ GoTo(w, "finish")
  /\ UNCHANGED <<jobs, hasWindow, count, blocked, locks, selected, job, robots, snap,
                 result, link, rollbacks, history>>

\* The observations are stored and linked to the newest committed record.
Persist(w) ==
  /\ pc[w] = "persist"
  /\ link' = [link EXCEPT ![w] = [job |-> job[w], prev |-> LatestLink, stamp |-> clock]]
  /\ clock' = clock + 1
  /\ GoTo(w, "finish")
  /\ UNCHANGED <<database, locks, selected, job, robots, snap, result,
                 rollbacks, history>>

-----------------------------------------------------------------------------
\* A denied job writes nothing but its own status.
CommitDenied(w) ==
  /\ pc[w] = "deny"
  /\ jobs' = [jobs EXCEPT ![job[w]] = result[w]]
  /\ AtRest(w)
  /\ ReleaseLocks(w)
  /\ UNCHANGED <<hasWindow, count, blocked, ledger, selected, clock, rollbacks, history>>

\* Mutated: the reservation of a run that failed is given back.
ChargedUnlessFailed(w) == IF result[w] = "failed" THEN snap[w] ELSE snap[w] + 1

\* The request_count the reservation's UPDATE writes: an absolute value.
Charged(w) == snap[w] + 1

\* Mutated: a run without observations appends a record all the same.
AppendedAlways(w) == {link[w]}

\* The provenance records the transaction has stored.
Appended(w) == {link[w]} \ {NoLink}

\* One commit makes the job's status, the reservation, the restriction and
\* the observations visible together.
CommitCollected(w) ==
  /\ pc[w] = "finish"
  /\ jobs'      = [jobs      EXCEPT ![job[w]] = result[w]]
  /\ hasWindow' = [hasWindow EXCEPT ![Source(w)] = TRUE]
  /\ count'     = [count     EXCEPT ![Source(w)] = Charged(w)]
  /\ blocked'   = [blocked   EXCEPT ![Source(w)] = @ \/ result[w] = "blocked"]
  /\ ledger'    = ledger \union Appended(w)
  /\ AtRest(w)
  /\ ReleaseLocks(w)
  /\ UNCHANGED <<selected, clock, rollbacks, history>>

\* A crash, a lost connection or an exception anywhere in the transaction.
Rollback(w) ==
  /\ pc[w] # "idle"
  /\ rollbacks < MaxRollbacks
  /\ rollbacks' = rollbacks + 1
  /\ lost' = IF pc[w] \in {"persist", "finish"}
             THEN [lost EXCEPT ![Source(w)] = @ + 1]
             ELSE lost
  /\ AtRest(w)
  /\ ReleaseLocks(w)
  /\ UNCHANGED <<database, selected, clock, collections>>

-----------------------------------------------------------------------------
\* What a started transaction does next by itself.
Proceed(w) ==
  \/ RefreshRobots(w)
  \/ Deny(w)
  \/ ReadWindow(w)
  \/ InsertWindow(w)
  \/ InsertConflict(w)
  \/ FlushReservation(w)
  \/ Collect(w)
  \/ Persist(w)
  \/ CommitDenied(w)
  \/ CommitCollected(w)

Schedule ==
  \/ SelectSources
  \/ \E batch \in SUBSET Jobs : Enqueue(batch)

Next ==
  \/ Schedule
  \/ \E w \in Workers : Claim(w)
  \/ \E c \in Clients : Submit(c)
  \/ \E w \in Sessions : Proceed(w)
  \/ \E w \in Sessions : Rollback(w)

Spec == Init /\ [][Next]_vars

(***************************************************************************)
(* A worker loops for ever, and PostgreSQL queues the waiters of a row     *)
(* lock, so a waiting transaction is not overtaken without end.  Neither   *)
(* the scheduler nor the clients nor the crashes are fair.                 *)
(***************************************************************************)
Fairness ==
  /\ \A w \in Workers : WF_vars(Claim(w))
  /\ \A w \in Sessions : SF_vars(Proceed(w))

FairSpec == Spec /\ Fairness

-----------------------------------------------------------------------------
TypeOK ==
  /\ jobs        \in [Jobs -> Waiting \union Results]
  /\ hasWindow   \in [Sources -> BOOLEAN]
  /\ count       \in [Sources -> Nat]
  /\ blocked     \in [Sources -> BOOLEAN]
  /\ ledger      \subseteq Links
  /\ sourceLock  \in [Sources -> Sessions \union {NoSession}]
  /\ windowLock  \in [Sources -> Sessions \union {NoSession}]
  /\ selected    \subseteq Sources
  /\ clock       \in Nat
  /\ pc          \in [Sessions -> Steps]
  /\ job         \in [Sessions -> Jobs \union {NoJob}]
  /\ robots      \in [Sessions -> BOOLEAN]
  /\ snap        \in [Sessions -> Nat]
  /\ result      \in [Sessions -> Results]
  /\ link        \in [Sessions -> Links \union {NoLink}]
  /\ rollbacks   \in 0..MaxRollbacks
  /\ collections \in [Sources -> Nat]
  /\ lost        \in [Sources -> Nat]

-----------------------------------------------------------------------------
(***************************************************************************)
(* Safety.                                                                 *)
(***************************************************************************)

\* FOR UPDATE SKIP LOCKED hands a job to one transaction at a time.
ExclusiveClaim ==
  \A v, w \in Sessions : v # w /\ job[v] # NoJob => job[v] # job[w]

\* The single commit is all or nothing: a job is shown as successful exactly
\* when its observations are in the ledger, and a job that was retried after
\* a rollback never leaves two sets of them.
AllOrNothing ==
  /\ \A j \in Jobs : jobs[j] = "success" <=> \E r \in ledger : r.job = j
  /\ \A q, r \in ledger : q.job = r.job => q = r

\* A stored link names an earlier link that is itself stored: no provenance
\* record points at work that was rolled back.
ChainGrounded ==
  \A r \in ledger : r.prev # NoJob =>
    \E q \in ledger : q.job = r.prev /\ q.stamp < r.stamp

\* chain_hash_n = SHA256(chain_hash_{n-1} || record_n): one chain, so no two
\* records continue the same one.
ChainLinear ==
  \A q, r \in ledger : q.prev = r.prev => q = r

\* A transaction that has contacted the source and is not decided yet.
Unsettled(w) == pc[w] \in {"persist", "finish"}

\* "Rate capacity is reserved atomically": when no transaction on a source is
\* unsettled, every collection carried out is in the window's count, or was
\* lost to a rollback.
NoLostReservation ==
  \A s \in Sources :
    (\A w \in Sessions : Unsettled(w) => Source(w) # s)
      => collections[s] = count[s] + lost[s]

\* The daily cap: only a rollback, which takes the reservation back after the
\* source was contacted, lets more collections through than the limit.
QuotaHeld == \A s \in Sources : collections[s] <= Limit + lost[s]

\* Once a source's refusal (403, CAPTCHA) is committed no transaction contacts
\* it again, not even one that passed the governor before the commit.
BlockedStops ==
  [][\A s \in Sources : blocked[s] => collections'[s] = collections[s]]_vars

\* A settled job keeps its result: no other session runs it again.
Settled == [][\A j \in Jobs : jobs[j] \in Results => jobs'[j] = jobs[j]]_vars

\* The live service carries out each job as if in one step: the transactions
\* of one source are serialisable, although READ COMMITTED promises less.
Atomic == INSTANCE AtomicCollection WITH stored <- {r.job : r \in ledger}
AtomicSpec == Atomic!Spec

(***************************************************************************)
(* Liveness, under FairSpec.                                               *)
(***************************************************************************)

\* Every job a scheduler enqueued is settled in the end, whatever crashes
\* (finitely many) and other jobs' locks do to the sessions that try it.
EveryJobSettles == \A j \in Jobs : jobs[j] = "pending" ~> jobs[j] \in Results

\* No transaction waits for a row lock for ever.
EveryTransactionEnds == \A w \in Sessions : pc[w] # "idle" ~> pc[w] = "idle"
=============================================================================
