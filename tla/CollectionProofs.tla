-------------------------- MODULE CollectionProofs --------------------------
(***************************************************************************)
(* Theorems about Collection, for any number of workers, clients, jobs and *)
(* sources.                                                                *)
(***************************************************************************)
EXTENDS Collection, TLAPS

USE CollectionAssumption DEF Sessions

-----------------------------------------------------------------------------
(***************************************************************************)
(* The inductive invariant.  ClaimInv and LedgerInv hold in both modes,    *)
(* LockInv is what the source's row lock gives the live mode.              *)
(***************************************************************************)

\* A claimed job is unsettled, and only its own transaction can settle it.
ClaimInv ==
  /\ ExclusiveClaim
  /\ \A w \in Sessions : pc[w] = "idle" <=> job[w] = NoJob
  /\ \A w \in Sessions : job[w] # NoJob => jobs[job[w]] \in Waiting

\* What a transaction holds uncommitted agrees with the step it is at.
LinkOK(w) ==
  /\ pc[w] = "deny" => result[w] = "denied"
  /\ pc[w] = "persist" => result[w] = "success"
  /\ link[w] # NoLink => /\ pc[w] = "finish"
                         /\ result[w] = "success"
                         /\ link[w].job = job[w]
  /\ pc[w] = "finish" /\ result[w] = "success" => link[w] # NoLink

LinkInv == \A w \in Sessions : LinkOK(w)

LedgerInv ==
  /\ AllOrNothing
  /\ LinkInv

\* The ledger has a newest record, older than whatever is stored next, and an
\* uncommitted record is grounded as the committed ones are.
ChainInv ==
  /\ ChainGrounded
  /\ ledger # {} => \E r \in ledger : \A q \in ledger : q.stamp <= r.stamp
  /\ \A r \in ledger : r.stamp < clock
  /\ \A w \in Sessions : link[w] # NoLink =>
        /\ link[w].stamp < clock
        /\ link[w].prev # NoJob =>
             \E q \in ledger : q.job = link[w].prev /\ q.stamp < link[w].stamp

\* The steps between taking the source's lock and ending the transaction.
Holding  == Steps \ {"idle", "robots"}
Admitted == {"insert", "flush", "collect", "persist", "finish"}

\* The source's row is locked from the robots.txt snapshot to the commit ...
HoldInv == \A w \in Sessions : pc[w] \in Holding => sourceLock[Source(w)] = w

\* ... so what the governor read is still true when the source is contacted ...
AdmittedOK(w) ==
  pc[w] \in Admitted =>
    /\ ~blocked[Source(w)]
    /\ snap[w] = count[Source(w)]
    /\ snap[w] < Limit

\* ... and the window's count lacks at most the one collection in progress.
InProgress(s) == \E w \in Sessions : Unsettled(w) /\ Source(w) = s

CountInv ==
  \A s \in Sources :
    /\ ~hasWindow[s] => count[s] = 0
    /\ count[s] <= Limit
    /\ collections[s] = count[s] + lost[s] + (IF InProgress(s) THEN 1 ELSE 0)

LockInv ==
  /\ HoldInv
  /\ \A w \in Sessions : AdmittedOK(w)
  /\ CountInv

IInv ==
  /\ TypeOK
  /\ ClaimInv
  /\ LedgerInv
  /\ ChainInv
  /\ Live => LockInv

-----------------------------------------------------------------------------
(***************************************************************************)
(* Type correctness.                                                       *)
(***************************************************************************)

\* What a session does to its own variables when its transaction ends.
LEMMA AtRestType ==
  ASSUME TypeOK, NEW w \in Sessions, AtRest(w)
  PROVE  /\ pc'     \in [Sessions -> Steps]
         /\ job'    \in [Sessions -> Jobs \union {NoJob}]
         /\ robots' \in [Sessions -> BOOLEAN]
         /\ snap'   \in [Sessions -> Nat]
         /\ result' \in [Sessions -> Results]
         /\ link'   \in [Sessions -> Links \union {NoLink}]
  BY DEF TypeOK, AtRest, Steps, Results

LEMMA ReleaseLocksType ==
  ASSUME TypeOK, NEW w \in Sessions, ReleaseLocks(w)
  PROVE  /\ sourceLock' \in [Sources -> Sessions \union {NoSession}]
         /\ windowLock' \in [Sources -> Sessions \union {NoSession}]
  BY DEF TypeOK, ReleaseLocks

LEMMA InitType == Init => TypeOK
  BY DEF Init, TypeOK, Steps, Results, Waiting

LEMMA ScheduleType == TypeOK /\ Schedule => TypeOK'
<1> SUFFICES ASSUME TypeOK, Schedule PROVE TypeOK'
  OBVIOUS
<1>1. CASE SelectSources
  BY <1>1 DEF TypeOK, SelectSources, database, locks, local, history
<1>2. CASE \E batch \in SUBSET Jobs : Enqueue(batch)
  BY <1>2 DEF TypeOK, Enqueue, Waiting, locks, local, history
<1> QED
  BY <1>1, <1>2 DEF Schedule

LEMMA BeginType ==
  ASSUME TypeOK, NEW w \in Sessions, NEW j \in Jobs, Begin(w, j)
  PROVE  TypeOK'
  BY DEF TypeOK, Begin, GoTo, Steps, database, locks, history

LEMMA SourceType ==
  ASSUME TypeOK, NEW w \in Sessions, job[w] # NoJob
  PROVE  Source(w) \in Sources
  BY DEF TypeOK, Source

LEMMA LatestLinkIsNewest ==
  ASSUME ChainInv, ledger # {}
  PROVE  \E r \in ledger : /\ LatestLink = r.job
                           /\ \A q \in ledger : q.stamp <= r.stamp
  BY DEF ChainInv, LatestLink

\* The record a transaction stores is a proper one.
LEMMA RecordType ==
  ASSUME TypeOK, ClaimInv, ChainInv, NEW w \in Sessions, pc[w] # "idle"
  PROVE  [job |-> job[w], prev |-> LatestLink, stamp |-> clock] \in Links
<1>1. LatestLink \in Jobs \union {NoJob}
  BY LatestLinkIsNewest DEF LatestLink, TypeOK, Links
<1>2. job[w] \in Jobs
  BY DEF ClaimInv, TypeOK
<1> QED
  BY <1>1, <1>2 DEF Links, TypeOK

LEMMA ProceedType ==
  ASSUME TypeOK, ClaimInv, ChainInv, NEW w \in Sessions, Proceed(w)
  PROVE  TypeOK'
<1>1. CASE RefreshRobots(w)
  BY <1>1 DEF TypeOK, RefreshRobots, GoTo, Steps, database, history
<1>2. CASE Deny(w)
  BY <1>2 DEF TypeOK, Deny, GoTo, Steps, Results, database, locks, history
<1>3. CASE ReadWindow(w)
  <2>1. count[Source(w)] \in Nat
    BY <1>3, SourceType DEF ReadWindow, ClaimInv, TypeOK
  <2> QED
    BY <1>3, <2>1 DEF TypeOK, ReadWindow, GoTo, Steps, database, locks, history
<1>4. CASE InsertWindow(w)
  BY <1>4 DEF TypeOK, InsertWindow, GoTo, Steps, database, history
<1>5. CASE InsertConflict(w)
  BY <1>5, AtRestType, ReleaseLocksType DEF TypeOK, InsertConflict, database, history
<1>6. CASE FlushReservation(w)
  BY <1>6 DEF TypeOK, FlushReservation, GoTo, Steps, database, history
<1>7. CASE Collect(w)
  <2>1. PICK status \in Collected :
          /\ result' = [result EXCEPT ![w] = status]
          /\ GoTo(w, IF status = "success" THEN "persist" ELSE "finish")
    BY <1>7 DEF Collect
  <2>2. status \in Results
    BY <2>1 DEF Collected, Results
  <2>3. collections' \in [Sources -> Nat]
    BY <1>7, SourceType DEF Collect, ClaimInv, TypeOK
  <2> QED
    BY <1>7, <2>1, <2>2, <2>3 DEF TypeOK, Collect, GoTo, Steps, database, locks
<1>8. CASE Persist(w)
  <2>3. [job |-> job[w], prev |-> LatestLink, stamp |-> clock] \in Links
    BY <1>8, RecordType DEF Persist
  <2> QED
    BY <1>8, <2>3 DEF TypeOK, Persist, GoTo, Steps, database, locks, history
<1>9. CASE CommitDenied(w)
  BY <1>9, AtRestType, ReleaseLocksType DEF TypeOK, CommitDenied, history
<1>10. CASE CommitCollected(w)
  <2>1. /\ jobs'      \in [Jobs -> Waiting \union Results]
        /\ hasWindow' \in [Sources -> BOOLEAN]
    BY <1>10 DEF TypeOK, CommitCollected
  <2>3. Charged(w) \in Nat
    BY DEF TypeOK, Charged
  <2>4. count' \in [Sources -> Nat]
    BY <1>10, <2>3 DEF TypeOK, CommitCollected
  <2>5. blocked[Source(w)] \in BOOLEAN
    BY <1>10, SourceType DEF TypeOK, ClaimInv, CommitCollected
  <2>6. blocked' \in [Sources -> BOOLEAN]
    BY <1>10, <2>5 DEF TypeOK, CommitCollected
  <2>2. ledger' \subseteq Links
    BY <1>10 DEF TypeOK, CommitCollected, Appended
  <2> QED
    BY <1>10, <2>1, <2>2, <2>4, <2>6, AtRestType, ReleaseLocksType DEF TypeOK, CommitCollected, history
<1> QED
  BY <1>1, <1>2, <1>3, <1>4, <1>5, <1>6, <1>7, <1>8, <1>9, <1>10 DEF Proceed

LEMMA RollbackType ==
  ASSUME TypeOK, ClaimInv, NEW w \in Sessions, Rollback(w)
  PROVE  TypeOK'
<1>1. rollbacks' \in 0..MaxRollbacks
  BY DEF Rollback, TypeOK
<1>2. lost' \in [Sources -> Nat]
  BY SourceType DEF Rollback, ClaimInv, TypeOK
<1> QED
  BY <1>1, <1>2, AtRestType, ReleaseLocksType DEF TypeOK, Rollback, database

-----------------------------------------------------------------------------
(***************************************************************************)
(* Claims.  To a claim a transaction only begins, moves on, or ends, with  *)
(* or without settling its job.                                            *)
(***************************************************************************)
MovesOn(w) ==
  /\ pc[w] # "idle"
  /\ \E step \in Steps \ {"idle"} : GoTo(w, step)
  /\ UNCHANGED <<jobs, job>>

Ends(w) ==
  /\ pc[w] # "idle"
  /\ AtRest(w)
  /\ ReleaseLocks(w)
  /\ UNCHANGED selected
  /\ jobs' \in {jobs, [jobs EXCEPT ![job[w]] = result[w]]}

LEMMA ProceedMovesOnOrEnds ==
  ASSUME NEW w \in Sessions, Proceed(w)
  PROVE  MovesOn(w) \/ Ends(w)
<1> USE DEF Steps
<1>1. CASE RefreshRobots(w)
  BY <1>1 DEF RefreshRobots, MovesOn, database
<1>2. CASE Deny(w)
  BY <1>2 DEF Deny, MovesOn, database
<1>3. CASE ReadWindow(w)
  <2>1. (IF hasWindow[Source(w)] THEN "flush" ELSE "insert") \in Steps \ {"idle"}
    OBVIOUS
  <2> QED
    BY <1>3, <2>1 DEF ReadWindow, MovesOn, database
<1>4. CASE InsertWindow(w)
  BY <1>4 DEF InsertWindow, MovesOn, database
<1>5. CASE InsertConflict(w)
  BY <1>5 DEF InsertConflict, Ends, database
<1>6. CASE FlushReservation(w)
  BY <1>6 DEF FlushReservation, MovesOn, database
<1>7. CASE Collect(w)
  BY <1>7 DEF Collect, MovesOn, database
<1>8. CASE Persist(w)
  BY <1>8 DEF Persist, MovesOn, database
<1>9. CASE CommitDenied(w)
  BY <1>9 DEF CommitDenied, Ends
<1>10. CASE CommitCollected(w)
  BY <1>10 DEF CommitCollected, Ends
<1> QED
  BY <1>1, <1>2, <1>3, <1>4, <1>5, <1>6, <1>7, <1>8, <1>9, <1>10 DEF Proceed

LEMMA RollbackEnds ==
  ASSUME NEW w \in Sessions, Rollback(w)
  PROVE  Ends(w)
  BY DEF Rollback, Ends, database

\* A job is begun only when it is unsettled and no transaction runs it.
LEMMA BeginsUnclaimed ==
  ASSUME NEW w \in Sessions, Claim(w) \/ Submit(w)
  PROVE  \E j \in Jobs : /\ Begin(w, j)
                         /\ jobs[j] \in Waiting
                         /\ \A v \in Sessions : job[v] # j
  BY DEF Claim, Submit, Claimable, Claimed, Waiting

LEMMA BeginClaim ==
  ASSUME TypeOK, ClaimInv, NEW w \in Sessions, NEW j \in Jobs, Begin(w, j),
         jobs[j] \in Waiting, \A v \in Sessions : job[v] # j
  PROVE  ClaimInv'
<1>1. /\ job' = [job EXCEPT ![w] = j]
      /\ pc' = [pc EXCEPT ![w] = IF Live THEN "robots" ELSE "evaluate"]
      /\ jobs' = jobs
  BY DEF Begin, GoTo, database
<1>2. \A v \in Sessions : job'[v] = IF v = w THEN j ELSE job[v]
  BY <1>1 DEF TypeOK
<1>3. pc'[w] # "idle" /\ \A v \in Sessions \ {w} : pc'[v] = pc[v]
  BY <1>1 DEF TypeOK
<1>4. ExclusiveClaim'
  BY <1>2 DEF ClaimInv, ExclusiveClaim
<1> QED
  BY <1>1, <1>2, <1>3, <1>4 DEF ClaimInv

LEMMA MovesOnClaim ==
  ASSUME TypeOK, ClaimInv, NEW w \in Sessions, MovesOn(w)
  PROVE  ClaimInv'
<1>1. PICK step \in Steps \ {"idle"} : pc' = [pc EXCEPT ![w] = step]
  BY DEF MovesOn, GoTo
<1>2. \A v \in Sessions : pc'[v] = "idle" <=> pc[v] = "idle"
  BY <1>1 DEF TypeOK, MovesOn
<1> QED
  BY <1>2 DEF ClaimInv, ExclusiveClaim, MovesOn

LEMMA EndsClaim ==
  ASSUME TypeOK, ClaimInv, NEW w \in Sessions, Ends(w)
  PROVE  ClaimInv'
<1>1. \A v \in Sessions : job'[v] = IF v = w THEN NoJob ELSE job[v]
  BY DEF TypeOK, Ends, AtRest
<1>2. \A v \in Sessions : pc'[v] = IF v = w THEN "idle" ELSE pc[v]
  BY DEF TypeOK, Ends, AtRest
<1>3. ASSUME NEW v \in Sessions, job'[v] # NoJob
      PROVE  jobs'[job'[v]] = jobs[job[v]]
  <2>1. v # w /\ job'[v] = job[v]
    BY <1>1, <1>3
  <2>2. job[v] \in Jobs /\ job[v] # job[w]
    BY <1>3, <2>1 DEF TypeOK, ClaimInv, ExclusiveClaim
  <2>3. CASE jobs' = jobs
    BY <2>1, <2>3
  <2>4. CASE jobs' = [jobs EXCEPT ![job[w]] = result[w]]
    BY <2>1, <2>2, <2>4 DEF TypeOK
  <2> QED
    BY <2>3, <2>4 DEF Ends
<1> QED
  BY <1>1, <1>2, <1>3 DEF ClaimInv, ExclusiveClaim

LEMMA ScheduleClaim ==
  ASSUME TypeOK, ClaimInv, Schedule
  PROVE  ClaimInv'
<1>1. UNCHANGED <<pc, job>>
  BY DEF Schedule, SelectSources, Enqueue, local
<1>2. \A j \in Jobs : jobs[j] \in Waiting => jobs'[j] \in Waiting
  BY DEF Schedule, SelectSources, Enqueue, database, Waiting
<1> QED
  BY <1>1, <1>2 DEF TypeOK, ClaimInv, ExclusiveClaim

-----------------------------------------------------------------------------
(***************************************************************************)
(* The ledger and the jobs' results.                                       *)
(***************************************************************************)
LEMMA AtRestLink ==
  ASSUME TypeOK, LinkInv, NEW w \in Sessions, AtRest(w)
  PROVE  LinkInv'
<1>1. \A v \in Sessions :
        /\ pc'[v]     = IF v = w THEN "idle" ELSE pc[v]
        /\ job'[v]    = IF v = w THEN NoJob ELSE job[v]
        /\ result'[v] = IF v = w THEN "failed" ELSE result[v]
        /\ link'[v]   = IF v = w THEN NoLink ELSE link[v]
  BY DEF TypeOK, AtRest
<1> QED
  BY <1>1 DEF LinkInv, LinkOK

LEMMA ScheduleLedger ==
  ASSUME TypeOK, LedgerInv, Schedule
  PROVE  LedgerInv'
<1>1. UNCHANGED <<ledger, pc, job, result, link>>
  BY DEF Schedule, SelectSources, Enqueue, database, local
<1>2. \A j \in Jobs : jobs'[j] = "success" <=> jobs[j] = "success"
  BY DEF Schedule, SelectSources, Enqueue, database
<1> QED
  BY <1>1, <1>2 DEF LedgerInv, LinkInv, LinkOK, AllOrNothing

LEMMA BeginLedger ==
  ASSUME TypeOK, LedgerInv, NEW w \in Sessions, NEW j \in Jobs, Begin(w, j)
  PROVE  LedgerInv'
<1>1. /\ pc[w] = "idle"
      /\ job' = [job EXCEPT ![w] = j]
      /\ pc' = [pc EXCEPT ![w] = IF Live THEN "robots" ELSE "evaluate"]
      /\ UNCHANGED <<jobs, ledger, result, link>>
  BY DEF Begin, GoTo, database
<1>2. pc'[w] \in {"robots", "evaluate"} /\ \A v \in Sessions \ {w} : pc'[v] = pc[v]
  BY <1>1 DEF TypeOK
<1>3. \A v \in Sessions \ {w} : job'[v] = job[v]
  BY <1>1 DEF TypeOK
<1>4. link[w] = NoLink
  BY <1>1 DEF LedgerInv, LinkInv, LinkOK
<1>5. LinkInv'
  BY <1>1, <1>2, <1>3, <1>4 DEF LedgerInv, LinkInv, LinkOK
<1> QED
  BY <1>1, <1>5 DEF LedgerInv, AllOrNothing

\* A step of w within its transaction concerns nobody else's uncommitted state.
LEMMA LinkOfOthers ==
  ASSUME TypeOK, LinkInv, NEW w \in Sessions, NEW step \in Steps, GoTo(w, step),
         UNCHANGED job,
         \A v \in Sessions \ {w} : result'[v] = result[v] /\ link'[v] = link[v],
         LinkOK(w)'
  PROVE  LinkInv'
<1>1. \A v \in Sessions \ {w} : pc'[v] = pc[v]
  BY DEF GoTo, TypeOK
<1> QED
  BY <1>1 DEF LinkInv, LinkOK

\* Before the observations are stored there is no link.
LEMMA NoLinkYet ==
  ASSUME TypeOK, LinkInv, NEW w \in Sessions, NEW step \in Steps \ {"deny", "persist", "finish"},
         pc[w] # "finish", GoTo(w, step), UNCHANGED <<job, result, link>>
  PROVE  LinkInv'
<1>1. pc'[w] = step /\ link[w] = NoLink
  BY DEF GoTo, TypeOK, LinkInv, LinkOK
<1>2. LinkOK(w)'
  BY <1>1 DEF LinkOK
<1> QED
  BY <1>2, LinkOfOthers

LEMMA MovesOnLink ==
  ASSUME TypeOK, ClaimInv, ChainInv, LinkInv, NEW w \in Sessions,
         \/ RefreshRobots(w) \/ Deny(w) \/ ReadWindow(w) \/ InsertWindow(w)
         \/ FlushReservation(w) \/ Collect(w) \/ Persist(w)
  PROVE  LinkInv' /\ UNCHANGED <<jobs, ledger>>
<1>1. CASE RefreshRobots(w)
  BY <1>1, NoLinkYet DEF RefreshRobots, database, Steps
<1>2. CASE Deny(w)
  <2>1. LinkOK(w)'
    BY <1>2 DEF Deny, GoTo, TypeOK, LinkInv, LinkOK
  <2>2. \A v \in Sessions \ {w} : result'[v] = result[v] /\ link'[v] = link[v]
    BY <1>2 DEF Deny, TypeOK
  <2> QED
    BY <1>2, <2>1, <2>2, LinkOfOthers DEF Deny, database, Steps
<1>3. CASE ReadWindow(w)
  <2>1. (IF hasWindow[Source(w)] THEN "flush" ELSE "insert") \in Steps \ {"deny", "persist", "finish"}
    BY DEF Steps
  <2> QED
    BY <1>3, <2>1, NoLinkYet DEF ReadWindow, database
<1>4. CASE InsertWindow(w)
  BY <1>4, NoLinkYet DEF InsertWindow, database, Steps
<1>5. CASE FlushReservation(w)
  BY <1>5, NoLinkYet DEF FlushReservation, database, Steps
<1>6. CASE Collect(w)
  <2>1. PICK status \in Collected :
          /\ result' = [result EXCEPT ![w] = status]
          /\ GoTo(w, IF status = "success" THEN "persist" ELSE "finish")
    BY <1>6 DEF Collect
  <2>2. link[w] = NoLink /\ link' = link
    BY <1>6 DEF Collect, LinkInv, LinkOK
  <2>3. /\ result'[w] = status
        /\ pc'[w] = IF status = "success" THEN "persist" ELSE "finish"
    BY <2>1 DEF GoTo, TypeOK
  <2>4. LinkOK(w)'
    BY <2>2, <2>3 DEF LinkOK
  <2>5. \A v \in Sessions \ {w} : result'[v] = result[v] /\ link'[v] = link[v]
    BY <2>1, <2>2 DEF TypeOK
  <2>6. (IF status = "success" THEN "persist" ELSE "finish") \in Steps
    BY DEF Steps
  <2> QED
    BY <1>6, <2>1, <2>4, <2>5, <2>6, LinkOfOthers DEF Collect, database
<1>7. CASE Persist(w)
  <2> DEFINE record == [job |-> job[w], prev |-> LatestLink, stamp |-> clock]
  <2>1. link' = [link EXCEPT ![w] = record] /\ GoTo(w, "finish") /\ UNCHANGED <<job, result>>
    BY <1>7 DEF Persist
  <2>2. /\ link'[w] = record
        /\ pc'[w] = "finish"
        /\ result'[w] = "success"
    BY <1>7, <2>1 DEF Persist, GoTo, TypeOK, LinkInv, LinkOK
  <2>3. record.job = job'[w]
    BY <2>1
  <2>4. record # NoLink
    BY <1>7, RecordType DEF Persist
  <2>5. LinkOK(w)'
    BY <2>2, <2>3, <2>4 DEF LinkOK
  <2>6. \A v \in Sessions \ {w} : result'[v] = result[v] /\ link'[v] = link[v]
    BY <2>1 DEF TypeOK
  <2> QED
    BY <1>7, <2>1, <2>5, <2>6, LinkOfOthers DEF Persist, database, Steps
<1> QED
  BY <1>1, <1>2, <1>3, <1>4, <1>5, <1>6, <1>7

\* A transaction that ends without storing anything settles its job, if at
\* all, with another result than success.
LEMMA EndsUnstored ==
  ASSUME TypeOK, ClaimInv, LedgerInv, NEW w \in Sessions, AtRest(w), UNCHANGED ledger,
         \/ UNCHANGED jobs
         \/ /\ pc[w] # "idle" /\ result[w] # "success"
            /\ jobs' = [jobs EXCEPT ![job[w]] = result[w]]
  PROVE  LedgerInv'
<1>1. \A j \in Jobs : jobs'[j] = "success" <=> jobs[j] = "success"
  <2>1. CASE UNCHANGED jobs
    BY <2>1
  <2>2. CASE /\ pc[w] # "idle" /\ result[w] # "success"
             /\ jobs' = [jobs EXCEPT ![job[w]] = result[w]]
    BY <2>2 DEF TypeOK, ClaimInv, Waiting
  <2> QED
    BY <2>1, <2>2
<1>2. AllOrNothing'
  BY <1>1 DEF LedgerInv, AllOrNothing
<1> QED
  BY <1>2, AtRestLink DEF LedgerInv

\* The one commit that stores observations is the one that says "success".
LEMMA CommitCollectedLedger ==
  ASSUME TypeOK, ClaimInv, LedgerInv, NEW w \in Sessions, CommitCollected(w)
  PROVE  LedgerInv'
<1>1. LinkInv'
  BY AtRestLink DEF CommitCollected, LedgerInv
<1>2. job[w] \in Jobs /\ jobs[job[w]] \in Waiting
  BY DEF CommitCollected, ClaimInv, TypeOK
<1>3. jobs' = [jobs EXCEPT ![job[w]] = result[w]] /\ ledger' = ledger \union Appended(w)
  BY DEF CommitCollected
<1>4. CASE link[w] = NoLink
  <2>1. result[w] # "success"
    BY <1>4 DEF CommitCollected, LedgerInv, LinkInv, LinkOK
  <2>2. ledger' = ledger
    BY <1>3, <1>4 DEF Appended
  <2>3. \A j \in Jobs : jobs'[j] = "success" <=> jobs[j] = "success"
    BY <1>2, <1>3, <2>1 DEF TypeOK, Waiting
  <2> QED
    BY <1>1, <2>2, <2>3 DEF LedgerInv, AllOrNothing
<1>5. CASE link[w] # NoLink
  <2>1. result[w] = "success" /\ link[w].job = job[w]
    BY <1>5 DEF LedgerInv, LinkInv, LinkOK
  <2>2. ledger' = ledger \union {link[w]}
    BY <1>3, <1>5 DEF Appended
  <2>3. \A r \in ledger : r.job # job[w]
    BY <1>2 DEF LedgerInv, AllOrNothing, Waiting
  <2>4. \A j \in Jobs : jobs'[j] = "success" <=> jobs[j] = "success" \/ j = job[w]
    BY <1>2, <1>3, <2>1 DEF TypeOK
  <2>5. AllOrNothing'
    BY <2>1, <2>2, <2>3, <2>4 DEF LedgerInv, AllOrNothing
  <2> QED
    BY <1>1, <2>5 DEF LedgerInv
<1> QED
  BY <1>4, <1>5

LEMMA ProceedLedger ==
  ASSUME TypeOK, ClaimInv, LedgerInv, ChainInv, NEW w \in Sessions, Proceed(w)
  PROVE  LedgerInv'
<1>1. CASE \/ RefreshRobots(w) \/ Deny(w) \/ ReadWindow(w) \/ InsertWindow(w)
           \/ FlushReservation(w) \/ Collect(w) \/ Persist(w)
  <2>1. LinkInv' /\ UNCHANGED <<jobs, ledger>>
    BY <1>1, MovesOnLink DEF LedgerInv
  <2> QED
    BY <2>1 DEF LedgerInv, AllOrNothing
<1>2. CASE InsertConflict(w)
  BY <1>2, EndsUnstored DEF InsertConflict, database
<1>3. CASE CommitDenied(w)
  <2>1. result[w] = "denied"
    BY <1>3 DEF CommitDenied, LedgerInv, LinkInv, LinkOK
  <2> QED
    BY <1>3, <2>1, EndsUnstored DEF CommitDenied
<1>4. CASE CommitCollected(w)
  BY <1>4, CommitCollectedLedger
<1> QED
  BY <1>1, <1>2, <1>3, <1>4 DEF Proceed

LEMMA RollbackLedger ==
  ASSUME TypeOK, ClaimInv, LedgerInv, NEW w \in Sessions, Rollback(w)
  PROVE  LedgerInv'
  BY EndsUnstored DEF Rollback, database

-----------------------------------------------------------------------------
(***************************************************************************)
(* The provenance chain.                                                   *)
(***************************************************************************)
LEMMA ChainKept ==
  ASSUME ChainInv, UNCHANGED <<ledger, clock>>,
         \A w \in Sessions : link'[w] \in {link[w], NoLink}
  PROVE  ChainInv'
  BY DEF ChainInv, ChainGrounded

LEMMA AtRestChain ==
  ASSUME TypeOK, ChainInv, NEW w \in Sessions, AtRest(w), UNCHANGED <<ledger, clock>>
  PROVE  ChainInv'
<1>1. \A v \in Sessions : link'[v] \in {link[v], NoLink}
  BY DEF AtRest, TypeOK
<1> QED
  BY <1>1, ChainKept

LEMMA PersistChain ==
  ASSUME TypeOK, ClaimInv, ChainInv, NEW w \in Sessions, Persist(w)
  PROVE  ChainInv'
<1> DEFINE record == [job |-> job[w], prev |-> LatestLink, stamp |-> clock]
<1>1. /\ ledger' = ledger
      /\ clock' = clock + 1
      /\ \A v \in Sessions : link'[v] = IF v = w THEN record ELSE link[v]
  BY DEF Persist, TypeOK, database
<1>2. \A r \in ledger : r.stamp \in Nat
  BY DEF TypeOK, Links
<1>3. /\ record.stamp = clock
      /\ record.prev # NoJob =>
           \E q \in ledger : q.job = record.prev /\ q.stamp < record.stamp
  BY LatestLinkIsNewest DEF ChainInv, LatestLink
<1>4. \A v \in Sessions : link[v] # NoLink => link[v].stamp \in Nat
  BY DEF TypeOK, Links
<1>5. \A v \in Sessions : link'[v] # NoLink =>
        /\ link'[v].stamp < clock'
        /\ link'[v].prev # NoJob =>
             \E q \in ledger : q.job = link'[v].prev /\ q.stamp < link'[v].stamp
  <2> SUFFICES ASSUME NEW v \in Sessions, link'[v] # NoLink
               PROVE  /\ link'[v].stamp < clock'
                      /\ link'[v].prev # NoJob =>
                           \E q \in ledger : q.job = link'[v].prev /\ q.stamp < link'[v].stamp
    OBVIOUS
  <2>1. CASE v = w
    <3>1. link'[v] = record
      BY <1>1, <2>1
    <3>2. clock < clock'
      BY <1>1 DEF TypeOK
    <3> QED
      BY <1>3, <3>1, <3>2
  <2>2. CASE v # w
    <3>1. link'[v] = link[v] /\ link[v] # NoLink
      BY <1>1, <2>2
    <3>2. link[v].stamp < clock /\ clock' = clock + 1 /\ clock \in Nat
      BY <1>1, <3>1 DEF ChainInv, TypeOK
    <3> QED
      BY <1>4, <3>1, <3>2 DEF ChainInv
  <2> QED
    BY <2>1, <2>2
<1>6. \A r \in ledger : r.stamp < clock'
  BY <1>1, <1>2 DEF ChainInv, TypeOK
<1> QED
  BY <1>1, <1>5, <1>6 DEF ChainInv, ChainGrounded

LEMMA CommitCollectedChain ==
  ASSUME TypeOK, ClaimInv, ChainInv, NEW w \in Sessions, CommitCollected(w)
  PROVE  ChainInv'
<1>1. /\ ledger' = ledger \union Appended(w)
      /\ clock' = clock
      /\ AtRest(w)
  BY DEF CommitCollected
<1>2. CASE link[w] = NoLink
  <2>1. ledger' = ledger
    BY <1>1, <1>2 DEF Appended
  <2> QED
    BY <1>1, <2>1, AtRestChain
<1>3. CASE link[w] # NoLink
  <2>1. ledger' = ledger \union {link[w]}
    BY <1>1, <1>3 DEF Appended
  <2>2. \A v \in Sessions : link'[v] \in {link[v], NoLink}
    BY <1>1 DEF AtRest, TypeOK
  <2>3. link[w].stamp < clock /\ \A r \in ledger' : r.stamp \in Nat
    BY <1>3, <2>1 DEF ChainInv, TypeOK, Links
  <2>4. ChainGrounded'
    BY <1>3, <2>1 DEF ChainInv, ChainGrounded
  <2>5. \E r \in ledger' : \A q \in ledger' : q.stamp <= r.stamp
    <3>1. CASE ledger = {}
      BY <2>1, <2>3, <3>1
    <3>2. CASE ledger # {}
      <4>1. PICK r \in ledger : \A q \in ledger : q.stamp <= r.stamp
        BY <3>2 DEF ChainInv
      <4>2. CASE r.stamp <= link[w].stamp
        BY <2>1, <2>3, <4>1, <4>2
      <4>3. CASE link[w].stamp <= r.stamp
        BY <2>1, <2>3, <4>1, <4>3
      <4> QED
        BY <2>1, <2>3, <4>2, <4>3
    <3> QED
      BY <3>1, <3>2
  <2>6. \A r \in ledger' : r.stamp < clock'
    BY <1>1, <2>1, <2>3 DEF ChainInv
  <2> QED
    BY <1>1, <2>1, <2>2, <2>4, <2>5, <2>6 DEF ChainInv
<1> QED
  BY <1>2, <1>3

LEMMA ScheduleChain ==
  ASSUME ChainInv, Schedule
  PROVE  ChainInv'
  BY ChainKept DEF Schedule, SelectSources, Enqueue, database, local

LEMMA BeginChain ==
  ASSUME ChainInv, NEW w \in Sessions, NEW j \in Jobs, Begin(w, j)
  PROVE  ChainInv'
  BY ChainKept DEF Begin, database

LEMMA ProceedChain ==
  ASSUME TypeOK, ClaimInv, ChainInv, NEW w \in Sessions, Proceed(w)
  PROVE  ChainInv'
<1>1. CASE Persist(w)
  BY <1>1, PersistChain
<1>2. CASE CommitCollected(w)
  BY <1>2, CommitCollectedChain
<1>3. CASE InsertConflict(w) \/ CommitDenied(w)
  BY <1>3, AtRestChain DEF InsertConflict, CommitDenied, database
<1>4. CASE \/ RefreshRobots(w) \/ Deny(w) \/ ReadWindow(w) \/ InsertWindow(w)
           \/ FlushReservation(w) \/ Collect(w)
  BY <1>4, ChainKept DEF RefreshRobots, Deny, ReadWindow, InsertWindow,
     FlushReservation, Collect, database
<1> QED
  BY <1>1, <1>2, <1>3, <1>4 DEF Proceed

LEMMA RollbackChain ==
  ASSUME TypeOK, ChainInv, NEW w \in Sessions, Rollback(w)
  PROVE  ChainInv'
  BY AtRestChain DEF Rollback, database

-----------------------------------------------------------------------------
(***************************************************************************)
(* The live mode's row lock.                                               *)
(***************************************************************************)

\* One transaction at a time is past the robots.txt snapshot of a source.
LEMMA Alone ==
  ASSUME HoldInv, NEW v \in Sessions, NEW w \in Sessions,
         pc[v] \in Holding, pc[w] \in Holding, Source(v) = Source(w)
  PROVE  v = w
  BY DEF HoldInv

LEMMA ScheduleLock ==
  ASSUME LockInv, Schedule
  PROVE  LockInv'
  BY DEF Schedule, SelectSources, Enqueue, database, locks, local, history,
     LockInv, HoldInv, AdmittedOK, CountInv, InProgress, Unsettled, Source

LEMMA BeginLock ==
  ASSUME Live, TypeOK, LockInv, NEW w \in Sessions, NEW j \in Jobs, Begin(w, j)
  PROVE  LockInv'
<1>1. /\ pc[w] = "idle" /\ pc'[w] = "robots"
      /\ \A v \in Sessions \ {w} : pc'[v] = pc[v] /\ Source(v)' = Source(v)
      /\ UNCHANGED <<database, locks, snap, history>>
  BY DEF Begin, GoTo, TypeOK, Source
<1>2. \A v \in Sessions : /\ pc'[v] \in Holding => pc[v] \in Holding /\ v # w
                          /\ Unsettled(v)' <=> Unsettled(v)
                          /\ Unsettled(v) => v # w
  BY <1>1 DEF Holding, Unsettled
<1>3. HoldInv'
  BY <1>1, <1>2 DEF LockInv, HoldInv, locks
<1>4. \A v \in Sessions : AdmittedOK(v)'
  BY <1>1 DEF LockInv, AdmittedOK, Admitted, database
<1>5. \A s \in Sources : InProgress(s)' <=> InProgress(s)
  BY <1>1, <1>2 DEF InProgress
<1>6. CountInv'
  BY <1>1, <1>5 DEF LockInv, CountInv, database, history
<1> QED
  BY <1>3, <1>4, <1>6 DEF LockInv

\* A step between the governor's read and the commit that contacts nobody.
LEMMA QuietLock ==
  ASSUME TypeOK, LockInv, NEW w \in Sessions, NEW step \in Holding, GoTo(w, step),
         pc[w] \in Holding,
         Unsettled(w) <=> step \in {"persist", "finish"},
         UNCHANGED <<database, sourceLock, job, history>>,
         \A v \in Sessions \ {w} : snap'[v] = snap[v],
         AdmittedOK(w)'
  PROVE  LockInv'
<1>1. pc'[w] = step /\ \A v \in Sessions \ {w} : pc'[v] = pc[v]
  BY DEF GoTo, TypeOK
<1>2. \A v \in Sessions : Source(v)' = Source(v) /\ (Unsettled(v)' <=> Unsettled(v))
  BY <1>1 DEF Source, Unsettled
<1>3. HoldInv'
  BY <1>1, <1>2 DEF LockInv, HoldInv
<1>4. \A v \in Sessions : AdmittedOK(v)'
  BY <1>1, <1>2 DEF LockInv, AdmittedOK, database
<1>5. \A s \in Sources : InProgress(s)' <=> InProgress(s)
  BY <1>2 DEF InProgress
<1>6. CountInv'
  BY <1>5 DEF LockInv, CountInv, database, history
<1> QED
  BY <1>3, <1>4, <1>6 DEF LockInv

LEMMA RefreshRobotsLock ==
  ASSUME TypeOK, ClaimInv, LockInv, NEW w \in Sessions, RefreshRobots(w)
  PROVE  LockInv'
<1>1. pc[w] = "robots" /\ pc'[w] = "evaluate" /\ \A v \in Sessions \ {w} : pc'[v] = pc[v]
  BY DEF RefreshRobots, GoTo, TypeOK
<1>2. \A v \in Sessions : Source(v)' = Source(v) /\ (Unsettled(v)' <=> Unsettled(v))
  BY <1>1 DEF RefreshRobots, Source, Unsettled
<1>3. Source(w) \in Sources
  BY <1>1, SourceType DEF ClaimInv
<1>4. HoldInv'
  <2>1. ASSUME NEW v \in Sessions, pc'[v] \in Holding
        PROVE  sourceLock'[Source(v)] = v
    <3>1. CASE v = w
      BY <1>3, <3>1 DEF RefreshRobots, TypeOK
    <3>2. CASE v # w
      <4>1. sourceLock[Source(v)] = v /\ Source(v) # Source(w)
        BY <1>1, <2>1, <3>2 DEF LockInv, HoldInv, RefreshRobots
      <4> QED
        BY <1>3, <4>1 DEF RefreshRobots, TypeOK
    <3> QED
      BY <3>1, <3>2
  <2> QED
    BY <1>2, <2>1 DEF HoldInv
<1>5. \A v \in Sessions : AdmittedOK(v)'
  BY <1>1, <1>2 DEF LockInv, AdmittedOK, Admitted, RefreshRobots, database
<1>6. \A s \in Sources : InProgress(s)' <=> InProgress(s)
  BY <1>2 DEF InProgress
<1>7. CountInv'
  BY <1>6 DEF LockInv, CountInv, RefreshRobots, database, history
<1> QED
  BY <1>4, <1>5, <1>7 DEF LockInv

LEMMA ReadWindowLock ==
  ASSUME TypeOK, ClaimInv, LockInv, NEW w \in Sessions, ReadWindow(w)
  PROVE  LockInv'
<1> DEFINE step == IF hasWindow[Source(w)] THEN "flush" ELSE "insert"
<1>1. pc[w] = "evaluate" /\ GoTo(w, step) /\ step \in {"flush", "insert"}
  BY DEF ReadWindow
<1>2. snap'[w] = count[Source(w)] /\ \A v \in Sessions \ {w} : snap'[v] = snap[v]
  BY DEF ReadWindow, TypeOK
<1>3. Source(w) \in Sources
  BY <1>1, SourceType DEF ClaimInv
<1>4. count[Source(w)] < Limit
  <2>1. CASE hasWindow[Source(w)]
    BY <1>3, <2>1 DEF ReadWindow, Exhausted, TypeOK
  <2>2. CASE ~hasWindow[Source(w)]
    BY <1>3, <2>2 DEF LockInv, CountInv
  <2> QED
    BY <2>1, <2>2
<1>5. AdmittedOK(w)'
  BY <1>2, <1>4 DEF ReadWindow, Permitted, AdmittedOK, Source, database
<1>6. UNCHANGED <<database, sourceLock, job, history>>
  BY DEF ReadWindow, locks
<1> HIDE DEF step
<1> QED
  BY <1>1, <1>2, <1>5, <1>6, QuietLock DEF Holding, Steps, Unsettled

LEMMA CollectLock ==
  ASSUME TypeOK, ClaimInv, LockInv, NEW w \in Sessions, Collect(w)
  PROVE  LockInv'
<1>1. PICK status \in Collected : GoTo(w, IF status = "success" THEN "persist" ELSE "finish")
  BY DEF Collect
<1>2. /\ pc[w] = "collect" /\ pc'[w] \in {"persist", "finish"}
      /\ \A v \in Sessions \ {w} : pc'[v] = pc[v]
  BY <1>1 DEF Collect, GoTo, TypeOK
<1>3. Source(w) \in Sources
  BY <1>2, SourceType DEF ClaimInv
<1>4. \A v \in Sessions : Source(v)' = Source(v)
  BY DEF Collect, Source
<1>5. HoldInv'
  BY <1>2, <1>4 DEF LockInv, HoldInv, Holding, Steps, Collect, locks
<1>6. \A v \in Sessions : AdmittedOK(v)'
  BY <1>2, <1>4 DEF LockInv, AdmittedOK, Admitted, Collect, database
<1>7. ~InProgress(Source(w))
  BY <1>2, Alone DEF InProgress, Unsettled, LockInv, Holding, Steps
<1>8. \A s \in Sources : InProgress(s)' <=> InProgress(s) \/ s = Source(w)
  BY <1>2, <1>4 DEF InProgress, Unsettled
<1>9. collections' = [collections EXCEPT ![Source(w)] = @ + 1] /\ lost' = lost
  BY DEF Collect
<1>10. CountInv'
  <2>1. ASSUME NEW s \in Sources
        PROVE  collections'[s] = count[s] + lost[s] + (IF InProgress(s)' THEN 1 ELSE 0)
    <3>1. collections[s] = count[s] + lost[s] + (IF InProgress(s) THEN 1 ELSE 0)
      BY DEF LockInv, CountInv
    <3>2. CASE s = Source(w)
      BY <1>7, <1>8, <1>9, <3>1, <3>2 DEF TypeOK
    <3>3. CASE s # Source(w)
      BY <1>8, <1>9, <3>1, <3>3 DEF TypeOK
    <3> QED
      BY <3>2, <3>3
  <2> QED
    BY <2>1 DEF LockInv, CountInv, Collect, database
<1> QED
  BY <1>5, <1>6, <1>10 DEF LockInv

\* A transaction that ends leaves its source to the others: their locks and
\* what they read of other sources stand.
LEMMA EndsOthers ==
  ASSUME TypeOK, ClaimInv, LockInv, NEW w \in Sessions, AtRest(w), ReleaseLocks(w),
         pc[w] # "idle",
         \A s \in Sources \ {Source(w)} :
           /\ blocked'[s] = blocked[s] /\ hasWindow'[s] = hasWindow[s]
           /\ count'[s] = count[s]
           /\ collections'[s] = collections[s] /\ lost'[s] = lost[s],
         \/ pc[w] \in Holding
         \/ blocked'[Source(w)] = blocked[Source(w)] /\ count'[Source(w)] = count[Source(w)],
         LET s == Source(w)
         IN  /\ ~hasWindow'[s] => count'[s] = 0
             /\ count'[s] <= Limit
             /\ collections'[s] = count'[s] + lost'[s]
                  + (IF \E v \in Sessions \ {w} : Unsettled(v) /\ Source(v) = s THEN 1 ELSE 0)
  PROVE  LockInv'
<1>1. \A v \in Sessions :
        /\ pc'[v] = IF v = w THEN "idle" ELSE pc[v]
        /\ job'[v] = IF v = w THEN NoJob ELSE job[v]
        /\ snap'[v] = IF v = w THEN 0 ELSE snap[v]
  BY DEF AtRest, TypeOK
<1>2. \A v \in Sessions \ {w} : Source(v)' = Source(v)
  BY <1>1 DEF Source
<1>3. \A v \in Sessions \ {w} : pc[v] # "idle" => Source(v) \in Sources
  BY SourceType DEF ClaimInv
<1>4. HoldInv'
  BY <1>1, <1>2, <1>3 DEF LockInv, HoldInv, ReleaseLocks, Holding
<1>5. ASSUME NEW v \in Sessions, pc'[v] \in Admitted
      PROVE  ~blocked'[Source(v)'] /\ snap'[v] = count'[Source(v)'] /\ snap'[v] < Limit
  <2>1. v # w /\ pc[v] \in Admitted /\ pc[v] \in Holding
    BY <1>1, <1>5 DEF Admitted, Holding, Steps
  <2>2. Source(v) \in Sources
    BY <1>3, <2>1 DEF Admitted
  <2>3. ~blocked[Source(v)] /\ snap[v] = count[Source(v)] /\ snap[v] < Limit
    BY <2>1 DEF LockInv, AdmittedOK
  <2>4. blocked'[Source(v)] = blocked[Source(v)] /\ count'[Source(v)] = count[Source(v)]
    <3>1. CASE Source(v) = Source(w)
      <4>1. pc[w] \notin Holding
        BY <2>1, <3>1, Alone DEF LockInv
      <4> QED
        BY <3>1, <4>1
    <3>2. CASE Source(v) # Source(w)
      BY <2>2, <3>2
    <3> QED
      BY <3>1, <3>2
  <2> QED
    BY <1>1, <1>2, <2>1, <2>3, <2>4
<1>6. \A s \in Sources :
        InProgress(s)' <=> \E v \in Sessions \ {w} : Unsettled(v) /\ Source(v) = s
  BY <1>1, <1>2 DEF InProgress, Unsettled
<1>7. \A s \in Sources \ {Source(w)} : InProgress(s)' <=> InProgress(s)
  BY <1>6 DEF InProgress
<1>8. CountInv'
  BY <1>6, <1>7 DEF LockInv, CountInv
<1> QED
  BY <1>4, <1>5, <1>8 DEF LockInv, AdmittedOK

\* A transaction that never contacted the source leaves no trace.
LEMMA EndsUncollected ==
  ASSUME TypeOK, ClaimInv, LockInv, NEW w \in Sessions, AtRest(w), ReleaseLocks(w),
         pc[w] # "idle", ~Unsettled(w),
         UNCHANGED <<hasWindow, count, blocked, history>>
  PROVE  LockInv'
<1>1. Source(w) \in Sources
  BY SourceType DEF ClaimInv
<1>2. InProgress(Source(w)) <=> \E v \in Sessions \ {w} : Unsettled(v) /\ Source(v) = Source(w)
  BY DEF InProgress
<1>3. /\ ~hasWindow[Source(w)] => count[Source(w)] = 0
      /\ count[Source(w)] <= Limit
      /\ collections[Source(w)] = count[Source(w)] + lost[Source(w)]
           + (IF InProgress(Source(w)) THEN 1 ELSE 0)
  BY <1>1 DEF LockInv, CountInv
<1> QED
  BY <1>2, <1>3, EndsOthers DEF history

\* One that did is the only one in progress on its source.
LEMMA UnsettledAlone ==
  ASSUME TypeOK, ClaimInv, LockInv, NEW w \in Sessions, Unsettled(w)
  PROVE  /\ Source(w) \in Sources
         /\ pc[w] \in Holding
         /\ ~ \E v \in Sessions \ {w} : Unsettled(v) /\ Source(v) = Source(w)
         /\ ~blocked[Source(w)]
         /\ snap[w] = count[Source(w)] /\ snap[w] < Limit
         /\ collections[Source(w)] = count[Source(w)] + lost[Source(w)] + 1
<1>1. pc[w] \in Holding /\ pc[w] \in Admitted /\ pc[w] # "idle"
  BY DEF Unsettled, Holding, Steps, Admitted
<1>2. Source(w) \in Sources
  BY <1>1, SourceType DEF ClaimInv
<1>3. ~ \E v \in Sessions \ {w} : Unsettled(v) /\ Source(v) = Source(w)
  BY <1>1, Alone DEF LockInv, Unsettled, Holding, Steps
<1>4. InProgress(Source(w))
  BY DEF InProgress
<1>5. collections[Source(w)] = count[Source(w)] + lost[Source(w)] + 1
  BY <1>2, <1>4 DEF LockInv, CountInv
<1> QED
  BY <1>1, <1>2, <1>3, <1>5 DEF LockInv, AdmittedOK

LEMMA CommitCollectedLock ==
  ASSUME TypeOK, ClaimInv, LockInv, NEW w \in Sessions, CommitCollected(w)
  PROVE  LockInv'
<1> DEFINE s == Source(w)
<1>1. Unsettled(w) /\ pc[w] # "idle" /\ AtRest(w) /\ ReleaseLocks(w)
  BY DEF CommitCollected, Unsettled
<1>2. s \in Sources
  BY <1>1, UnsettledAlone
<1>3. /\ hasWindow' = [hasWindow EXCEPT ![s] = TRUE]
      /\ count' = [count EXCEPT ![s] = count[s] + 1]
      /\ blocked' = [blocked EXCEPT ![s] = @ \/ result[w] = "blocked"]
      /\ collections' = collections /\ lost' = lost
  BY <1>1, UnsettledAlone DEF CommitCollected, Charged, history
<1>4. hasWindow'[s] /\ count'[s] = count[s] + 1
  BY <1>2, <1>3 DEF TypeOK
<1>5. count[s] < Limit /\ count[s] \in Nat
  BY <1>1, <1>2, UnsettledAlone DEF TypeOK
<1>6. count'[s] <= Limit
  BY <1>4, <1>5
<1>7. collections'[s] = count'[s] + lost'[s]
        + (IF \E v \in Sessions \ {w} : Unsettled(v) /\ Source(v) = s THEN 1 ELSE 0)
  BY <1>1, <1>2, <1>3, <1>4, <1>5, UnsettledAlone DEF TypeOK
<1>8. \A z \in Sources \ {s} :
        /\ blocked'[z] = blocked[z] /\ hasWindow'[z] = hasWindow[z]
        /\ count'[z] = count[z]
        /\ collections'[z] = collections[z] /\ lost'[z] = lost[z]
  BY <1>3 DEF TypeOK
<1>9. pc[w] \in Holding
  BY <1>1, UnsettledAlone
<1> QED
  BY <1>1, <1>4, <1>6, <1>7, <1>8, <1>9, EndsOthers

LEMMA RollbackLock ==
  ASSUME TypeOK, ClaimInv, LockInv, NEW w \in Sessions, Rollback(w)
  PROVE  LockInv'
<1> DEFINE s == Source(w)
<1>1. /\ pc[w] # "idle" /\ AtRest(w) /\ ReleaseLocks(w)
      /\ UNCHANGED <<hasWindow, count, blocked, collections>>
      /\ lost' = IF Unsettled(w) THEN [lost EXCEPT ![s] = @ + 1] ELSE lost
  BY DEF Rollback, Unsettled, database
<1>2. CASE ~Unsettled(w)
  BY <1>1, <1>2, EndsUncollected DEF history
<1>3. CASE Unsettled(w)
  <2>1. s \in Sources
    BY <1>3, UnsettledAlone
  <2>2. lost'[s] = lost[s] + 1 /\ \A z \in Sources \ {s} : lost'[z] = lost[z]
    BY <1>1, <1>3, <2>1 DEF TypeOK
  <2>3. collections'[s] = count'[s] + lost'[s]
          + (IF \E v \in Sessions \ {w} : Unsettled(v) /\ Source(v) = s THEN 1 ELSE 0)
    BY <1>1, <1>3, <2>1, <2>2, UnsettledAlone DEF TypeOK
  <2>4. (~hasWindow'[s] => count'[s] = 0) /\ count'[s] <= Limit
    BY <1>1, <2>1 DEF LockInv, CountInv
  <2> QED
    BY <1>1, <2>2, <2>3, <2>4, EndsOthers
<1> QED
  BY <1>2, <1>3

LEMMA ProceedLock ==
  ASSUME TypeOK, ClaimInv, LockInv, NEW w \in Sessions, Proceed(w)
  PROVE  LockInv'
<1>1. CASE RefreshRobots(w)
  BY <1>1, RefreshRobotsLock
<1>2. CASE Deny(w)
  <2>1. AdmittedOK(w)'
    BY <1>2 DEF Deny, GoTo, TypeOK, AdmittedOK, Admitted
  <2> QED
    BY <1>2, <2>1, QuietLock DEF Deny, locks, Holding, Steps, Unsettled
<1>3. CASE ReadWindow(w)
  BY <1>3, ReadWindowLock
<1>4. CASE InsertWindow(w)
  <2>1. AdmittedOK(w)'
    BY <1>4 DEF InsertWindow, LockInv, AdmittedOK, Admitted, Source, database
  <2> QED
    BY <1>4, <2>1, QuietLock DEF InsertWindow, Holding, Steps, Unsettled
<1>5. CASE InsertConflict(w)
  BY <1>5, EndsUncollected DEF InsertConflict, Unsettled, database
<1>6. CASE FlushReservation(w)
  <2>1. AdmittedOK(w)'
    BY <1>6 DEF FlushReservation, LockInv, AdmittedOK, Admitted, Source, database
  <2> QED
    BY <1>6, <2>1, QuietLock DEF FlushReservation, Holding, Steps, Unsettled
<1>7. CASE Collect(w)
  BY <1>7, CollectLock
<1>8. CASE Persist(w)
  <2>1. AdmittedOK(w)'
    BY <1>8 DEF Persist, LockInv, AdmittedOK, Admitted, Source, database
  <2> QED
    BY <1>8, <2>1, QuietLock DEF Persist, locks, Holding, Steps, Unsettled
<1>9. CASE CommitDenied(w)
  BY <1>9, EndsUncollected DEF CommitDenied, Unsettled, database
<1>10. CASE CommitCollected(w)
  BY <1>10, CommitCollectedLock
<1> QED
  BY <1>1, <1>2, <1>3, <1>4, <1>5, <1>6, <1>7, <1>8, <1>9, <1>10 DEF Proceed

-----------------------------------------------------------------------------
(***************************************************************************)
(* The inductive invariant holds.                                          *)
(***************************************************************************)
LEMMA InitIInv == Init => IInv
<1> SUFFICES ASSUME Init PROVE IInv
  OBVIOUS
<1>1. ClaimInv
  BY DEF Init, ClaimInv, ExclusiveClaim
<1>2. LedgerInv
  BY DEF Init, LedgerInv, AllOrNothing, LinkInv, LinkOK
<1>3. ChainInv
  BY DEF Init, ChainInv, ChainGrounded
<1>4. LockInv
  BY DEF Init, LockInv, HoldInv, AdmittedOK, CountInv, InProgress, Unsettled,
     Holding, Admitted
<1> QED
  BY <1>1, <1>2, <1>3, <1>4, InitType DEF IInv

LEMMA NextIInv == IInv /\ [Next]_vars => IInv'
<1> SUFFICES ASSUME IInv, [Next]_vars PROVE IInv'
  OBVIOUS
<1> USE DEF IInv
<1>1. CASE Schedule
  BY <1>1, ScheduleType, ScheduleClaim, ScheduleLedger, ScheduleChain, ScheduleLock
<1>2. ASSUME NEW w \in Sessions, Claim(w) \/ Submit(w)
      PROVE  IInv'
  <2>1. PICK j \in Jobs : /\ Begin(w, j)
                          /\ jobs[j] \in Waiting
                          /\ \A v \in Sessions : job[v] # j
    BY <1>2, BeginsUnclaimed
  <2> QED
    BY <2>1, BeginType, BeginClaim, BeginLedger, BeginChain, BeginLock
<1>3. ASSUME NEW w \in Sessions, Proceed(w)
      PROVE  IInv'
  <2>1. ClaimInv'
    BY <1>3, ProceedMovesOnOrEnds, MovesOnClaim, EndsClaim
  <2> QED
    BY <1>3, <2>1, ProceedType, ProceedLedger, ProceedChain, ProceedLock
<1>4. ASSUME NEW w \in Sessions, Rollback(w)
      PROVE  IInv'
  <2>1. ClaimInv'
    BY <1>4, RollbackEnds, EndsClaim
  <2> QED
    BY <1>4, <2>1, RollbackType, RollbackLedger, RollbackChain, RollbackLock
<1>5. CASE UNCHANGED vars
  BY <1>5 DEF vars, database, locks, local, history, TypeOK, ClaimInv, ExclusiveClaim,
     LedgerInv, AllOrNothing, LinkInv, LinkOK, ChainInv, ChainGrounded,
     LockInv, HoldInv, AdmittedOK, CountInv, InProgress, Unsettled, Source
<1> QED
  BY <1>1, <1>2, <1>3, <1>4, <1>5 DEF Next

THEOREM InductiveInvariant == Spec => []IInv
BY InitIInv, NextIInv, PTL DEF Spec

\* Every reachable state of the collection service is well typed.
THEOREM TypeCorrect == Spec => []TypeOK
<1>1. IInv => TypeOK
  BY DEF IInv
<1> QED
  BY <1>1, InductiveInvariant, PTL

\* A job is never in the hands of two transactions, in either mode.
THEOREM JobsClaimedOnce == Spec => []ExclusiveClaim
<1>1. IInv => ExclusiveClaim
  BY DEF IInv, ClaimInv
<1> QED
  BY <1>1, InductiveInvariant, PTL

\* A job reads "success" exactly when its observations are stored, once.
THEOREM SuccessMeansStored == Spec => []AllOrNothing
<1>1. IInv => AllOrNothing
  BY DEF IInv, LedgerInv
<1> QED
  BY <1>1, InductiveInvariant, PTL

\* No stored provenance record continues one that was rolled back.
THEOREM ProvenanceGrounded == Spec => []ChainGrounded
<1>1. IInv => ChainGrounded
  BY DEF IInv, ChainInv
<1> QED
  BY <1>1, InductiveInvariant, PTL

\* In live mode no rate reservation is lost: whenever no transaction is between
\* its collection and its end, the window counts every collection that was not
\* rolled back.
THEOREM LiveReservationsKept == Live => (Spec => []NoLostReservation)
<1> SUFFICES ASSUME Live PROVE Spec => []NoLostReservation
  OBVIOUS
<1>1. IInv => NoLostReservation
  BY DEF IInv, LockInv, CountInv, InProgress, NoLostReservation, TypeOK
<1> QED
  BY <1>1, InductiveInvariant, PTL

\* In live mode the daily limit is exceeded by rolled back collections only.
THEOREM LiveQuotaHeld == Live => (Spec => []QuotaHeld)
<1> SUFFICES ASSUME Live PROVE Spec => []QuotaHeld
  OBVIOUS
<1>1. ASSUME IInv
      PROVE  QuotaHeld
  <2>1. ASSUME NEW s \in Sources
        PROVE  collections[s] <= Limit + lost[s]
    <3>1. /\ collections[s] = count[s] + lost[s] + (IF InProgress(s) THEN 1 ELSE 0)
          /\ count[s] <= Limit
          /\ count[s] \in Nat /\ lost[s] \in Nat
      BY <1>1 DEF IInv, LockInv, CountInv, TypeOK
    <3>2. CASE InProgress(s)
      <4>1. PICK w \in Sessions : Unsettled(w) /\ Source(w) = s
        BY <3>2 DEF InProgress
      <4>2. count[s] < Limit
        BY <1>1, <4>1, UnsettledAlone DEF IInv
      <4> QED
        BY <3>1, <3>2, <4>2
    <3>3. CASE ~InProgress(s)
      BY <3>1, <3>3
    <3> QED
      BY <3>2, <3>3
  <2> QED
    BY <2>1 DEF QuotaHeld
<1> QED
  BY <1>1, InductiveInvariant, PTL

LEMMA OnlyCollectCollects ==
  ASSUME [Next]_vars, collections' # collections
  PROVE  \E w \in Sessions : Collect(w)
<1>1. CASE Schedule
  BY <1>1 DEF Schedule, SelectSources, Enqueue, history
<1>2. ASSUME NEW w \in Sessions, Claim(w) \/ Submit(w)
      PROVE  FALSE
  BY <1>2 DEF Claim, Submit, Begin, history
<1>3. ASSUME NEW w \in Sessions, Proceed(w)
      PROVE  Collect(w)
  BY <1>3 DEF Proceed, RefreshRobots, Deny, ReadWindow, InsertWindow, InsertConflict,
     FlushReservation, Persist, CommitDenied, CommitCollected, history
<1>4. ASSUME NEW w \in Sessions, Rollback(w)
      PROVE  FALSE
  BY <1>4 DEF Rollback
<1>5. CASE UNCHANGED vars
  BY <1>5 DEF vars, history
<1> QED
  BY <1>1, <1>2, <1>3, <1>4, <1>5 DEF Next

\* In live mode a source whose refusal is committed is not contacted again.
THEOREM LiveBlockedStops == Live => (Spec => BlockedStops)
<1> SUFFICES ASSUME Live PROVE Spec => BlockedStops
  OBVIOUS
<1>1. ASSUME IInv, [Next]_vars, NEW s \in Sources, blocked[s]
      PROVE  collections'[s] = collections[s]
  <2>1. CASE collections' = collections
    BY <2>1
  <2>2. CASE collections' # collections
    <3>1. PICK w \in Sessions : Collect(w)
      BY <1>1, <2>2, OnlyCollectCollects
    <3>2. ~blocked[Source(w)]
      BY <1>1, <3>1 DEF IInv, LockInv, AdmittedOK, Admitted, Collect
    <3> QED
      BY <1>1, <3>1, <3>2 DEF Collect, IInv, TypeOK
  <2> QED
    BY <2>1, <2>2
<1>2. IInv /\ [Next]_vars
        => [\A s \in Sources : blocked[s] => collections'[s] = collections[s]]_vars
  BY <1>1
<1> QED
  BY <1>2, InductiveInvariant, PTL DEF Spec, BlockedStops

\* Once committed, a job's result is final, in either mode.
THEOREM ResultsAreFinal == Spec => Settled
<1>1. ASSUME IInv, [Next]_vars, NEW j \in Jobs, jobs[j] \in Results
      PROVE  jobs'[j] = jobs[j]
  <2> USE <1>1
  <2>1. jobs[j] \notin Waiting
    BY DEF Waiting, Results
  <2>2. ASSUME NEW w \in Sessions, Ends(w)
        PROVE  jobs'[j] = jobs[j]
    BY <2>1, <2>2 DEF Ends, IInv, ClaimInv, TypeOK
  <2>3. CASE Schedule
    BY <2>1, <2>3 DEF Schedule, SelectSources, Enqueue, database, Waiting
  <2>4. ASSUME NEW w \in Sessions, Claim(w) \/ Submit(w)
        PROVE  jobs'[j] = jobs[j]
    BY <2>4 DEF Claim, Submit, Begin, database
  <2>5. ASSUME NEW w \in Sessions, Proceed(w)
        PROVE  jobs'[j] = jobs[j]
    BY <2>2, <2>5, ProceedMovesOnOrEnds DEF MovesOn
  <2>6. ASSUME NEW w \in Sessions, Rollback(w)
        PROVE  jobs'[j] = jobs[j]
    BY <2>2, <2>6, RollbackEnds
  <2>7. CASE UNCHANGED vars
    BY <2>7 DEF vars, database
  <2> QED
    BY <2>3, <2>4, <2>5, <2>6, <2>7 DEF Next
<1>2. IInv /\ [Next]_vars
        => [\A j \in Jobs : jobs[j] \in Results => jobs'[j] = jobs[j]]_vars
  BY <1>1
<1> QED
  BY <1>2, InductiveInvariant, PTL DEF Spec, Settled

-----------------------------------------------------------------------------
(***************************************************************************)
(* The live service implements AtomicCollection.                           *)
(***************************************************************************)
Stored == {r.job : r \in ledger}

LEMMA RefuseStep ==
  ASSUME TypeOK, ClaimInv, LedgerInv, NEW w \in Sessions, CommitDenied(w)
  PROVE  Atomic!Next
<1>1. job[w] \in Jobs /\ jobs[job[w]] \in Atomic!Waiting
  BY DEF CommitDenied, ClaimInv, TypeOK, Waiting, Atomic!Waiting
<1>2. result[w] = "denied"
  BY DEF CommitDenied, LedgerInv, LinkInv, LinkOK
<1>3. Atomic!Refuse(job[w])
  BY <1>1, <1>2 DEF CommitDenied, Atomic!Refuse
<1> QED
  BY <1>1, <1>3 DEF Atomic!Next

LEMMA RunStep ==
  ASSUME TypeOK, ClaimInv, LedgerInv, LockInv, NEW w \in Sessions, CommitCollected(w)
  PROVE  Atomic!Next
<1> DEFINE s == Source(w)
<1>1. Unsettled(w) /\ job[w] \in Jobs /\ jobs[job[w]] \in Atomic!Waiting
  BY DEF CommitCollected, Unsettled, ClaimInv, TypeOK, Waiting, Atomic!Waiting
<1>2. ~blocked[s] /\ snap[w] = count[s] /\ count[s] < Limit /\ s \in Sources
  BY <1>1, UnsettledAlone
<1>3. result[w] \in Atomic!Taken
  BY DEF TypeOK, Results, Atomic!Taken
<1>4. Stored' = IF result[w] = "success" THEN Stored \union {job[w]} ELSE Stored
  <2>1. ledger' = ledger \union Appended(w)
    BY DEF CommitCollected
  <2>2. CASE result[w] = "success"
    <3>1. link[w] # NoLink /\ link[w].job = job[w]
      BY <2>2 DEF CommitCollected, LedgerInv, LinkInv, LinkOK
    <3> QED
      BY <2>1, <2>2, <3>1 DEF Stored, Appended
  <2>3. CASE result[w] # "success"
    <3>1. link[w] = NoLink
      BY <2>3 DEF LedgerInv, LinkInv, LinkOK
    <3> QED
      BY <2>1, <2>3, <3>1 DEF Stored, Appended
  <2> QED
    BY <2>2, <2>3
<1>5. blocked' = [blocked EXCEPT ![s] = (result[w] = "blocked")]
  BY <1>2 DEF CommitCollected, TypeOK
<1>6. count' = [count EXCEPT ![s] = @ + 1]
  BY <1>2 DEF CommitCollected, Charged
<1>7. PICK j \in Jobs, status \in Atomic!Taken : j = job[w] /\ status = result[w]
  BY <1>1, <1>3
<1>8. Atomic!Run(j, status)
  BY <1>1, <1>2, <1>4, <1>5, <1>6, <1>7 DEF CommitCollected, Atomic!Run, Source, Stored
<1> QED
  BY <1>8 DEF Atomic!Next

\* Every step of the live service is a step of the atomic one, or none.
LEMMA StepSimulation ==
  ASSUME Live, IInv, [Next]_vars
  PROVE  [Atomic!Next]_(Atomic!vars)
<1> USE DEF IInv
<1>1. CASE SelectSources
  BY <1>1 DEF SelectSources, database, Atomic!vars
<1>2. ASSUME NEW batch \in SUBSET Jobs, Enqueue(batch)
      PROVE  Atomic!Next
  <2>1. Atomic!Enqueue(batch)
    BY <1>2 DEF Enqueue, Atomic!Enqueue
  <2> QED
    BY <2>1 DEF Atomic!Next
<1>3. ASSUME NEW w \in Sessions, Claim(w) \/ Submit(w) \/ Rollback(w)
      PROVE  UNCHANGED Atomic!vars
  BY <1>3 DEF Claim, Submit, Begin, Rollback, database, Atomic!vars
<1>4. ASSUME NEW w \in Sessions, Proceed(w)
      PROVE  Atomic!Next \/ UNCHANGED Atomic!vars
  BY <1>4, RefuseStep, RunStep DEF Proceed, RefreshRobots, Deny, ReadWindow, InsertWindow,
     InsertConflict, FlushReservation, Collect, Persist, database, Atomic!vars
<1>5. CASE UNCHANGED vars
  BY <1>5 DEF vars, database, Atomic!vars
<1> QED
  BY <1>1, <1>2, <1>3, <1>4, <1>5 DEF Next, Schedule

\* In live mode every job is carried out as if in one step, on the capacity and
\* the restrictions committed at that moment.
THEOREM LiveIsAtomic == Live => (Spec => AtomicSpec)
<1> SUFFICES ASSUME Live PROVE Spec => AtomicSpec
  OBVIOUS
<1>1. Init => Atomic!Init
  BY DEF Init, Atomic!Init
<1>2. IInv /\ [Next]_vars => [Atomic!Next]_(Atomic!vars)
  BY StepSimulation
<1> QED
  BY <1>1, <1>2, InductiveInvariant, PTL DEF Spec, AtomicSpec, Atomic!Spec
=============================================================================
