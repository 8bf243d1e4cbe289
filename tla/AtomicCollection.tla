-------------------------- MODULE AtomicCollection --------------------------
(***************************************************************************)
(* What the collection service promises about its jobs, its rate capacity  *)
(* and a source's refusal: each job is carried out in ONE step, on the     *)
(* state it finds.  Capacity is checked and taken together, and a refused  *)
(* source gets no further collection.                                      *)
(***************************************************************************)
EXTENDS Naturals

CONSTANTS Jobs, Sources, SourceOf, Limit

VARIABLES
  jobs,      \* "absent", "pending" or the job's result
  count,     \* collections that took capacity today, per source
  blocked,   \* the source has refused automated access
  stored     \* jobs whose observations are stored

vars == <<jobs, count, blocked, stored>>

Waiting == {"absent", "pending"}
Taken   == {"success", "no_results", "failed", "denied", "blocked"}

Init ==
  /\ jobs    = [j \in Jobs |-> "absent"]
  /\ count   = [s \in Sources |-> 0]
  /\ blocked = [s \in Sources |-> FALSE]
  /\ stored  = {}

Enqueue(batch) ==
  /\ \A j \in batch : jobs[j] = "absent"
  /\ jobs' = [j \in Jobs |-> IF j \in batch THEN "pending" ELSE jobs[j]]
  /\ UNCHANGED <<count, blocked, stored>>

\* The governor may always refuse (robots.txt, terms, capacity).
Refuse(j) ==
  /\ jobs[j] \in Waiting
  /\ jobs' = [jobs EXCEPT ![j] = "denied"]
  /\ UNCHANGED <<count, blocked, stored>>

Run(j, status) ==
  /\ jobs[j] \in Waiting
  /\ ~blocked[SourceOf[j]]
  /\ count[SourceOf[j]] < Limit
  /\ jobs'    = [jobs EXCEPT ![j] = status]
  /\ count'   = [count EXCEPT ![SourceOf[j]] = @ + 1]
  /\ blocked' = [blocked EXCEPT ![SourceOf[j]] = (status = "blocked")]
  /\ stored'  = IF status = "success" THEN stored \union {j} ELSE stored

Next ==
  \/ \E batch \in SUBSET Jobs : Enqueue(batch)
  \/ \E j \in Jobs : Refuse(j)
  \/ \E j \in Jobs, status \in Taken : Run(j, status)

Spec == Init /\ [][Next]_vars
=============================================================================
