--------------------------- MODULE AdapterCircuit ---------------------------
(***************************************************************************)
(* The circuit breaker of one adapter of one source, and the ranking that  *)
(* consults it.  "cooling" is cooldown_until in the future.                *)
(***************************************************************************)
EXTENDS Naturals, Sequences, FiniteSets

CONSTANT FailureThreshold   \* circuit_failure_threshold

ASSUME CircuitAssumption == FailureThreshold \in Nat \ {0}

\* Failures are counted up to the threshold: above it nothing changes.
Circuit == [state : {"closed", "open", "half_open"},
            failures : 0..FailureThreshold, cooling : BOOLEAN]

Closed == [state |-> "closed", failures |-> 0, cooling |-> FALSE]
Opened == [state |-> "open", failures |-> FailureThreshold, cooling |-> TRUE]

Neutral    == {"unsupported", "no_results"}
PolicyOpen == {"blocked", "captcha_blocked", "policy_denied"}

OneMore(n) == IF n < FailureThreshold THEN n + 1 ELSE n

\* Mutated: the circuit opens one failure after the threshold.
SnapshotAfterBeyond(stats, status) ==
  CASE status = "success"       -> Closed
    [] status \in Neutral       -> stats
    [] status \in PolicyOpen    -> [state |-> "open", failures |-> OneMore(stats.failures),
                                    cooling |-> TRUE]
    [] OTHER -> IF stats.failures + 1 > FailureThreshold
                THEN Opened
                ELSE [stats EXCEPT !.failures = @ + 1,
                                   !.state = IF @ = "open" THEN "closed" ELSE @]

\* The circuit an outcome leaves, from the circuit the run's profile holds.
SnapshotAfter(stats, status) ==
  CASE status = "success"       -> Closed
    [] status \in Neutral       -> stats
    [] status \in PolicyOpen    -> [state |-> "open", failures |-> OneMore(stats.failures),
                                    cooling |-> TRUE]
    [] OTHER -> IF stats.failures + 1 >= FailureThreshold
                THEN Opened
                ELSE [stats EXCEPT !.failures = @ + 1,
                                   !.state = IF @ = "open" THEN "closed" ELSE @]

\* Written to source_adapter_stats: a neutral outcome leaves the row's count.
Recorded(row, stats, status) ==
  LET after == SnapshotAfter(stats, status)
  IN  IF status \in Neutral THEN [after EXCEPT !.failures = row.failures] ELSE after

CanProbe(stats) == ~(stats.state = "open" /\ stats.cooling)

\* Asking an open circuit whose cooldown has passed makes it half open in the
\* profile the run goes on with.
Probed(stats) == IF stats.state = "open" /\ CanProbe(stats)
                 THEN [stats EXCEPT !.state = "half_open"] ELSE stats

\* The places of those that may be asked.
Askable(default, stats) == {i \in DOMAIN default : CanProbe(stats[default[i]])}

\* score: the preferred one, the last successful one, then the default order.
Score(c, preferred, last) == IF c = preferred THEN 0 ELSE IF c = last THEN 1 ELSE 2

Sooner(default, preferred, last, i, j) ==
  LET a == Score(default[i], preferred, last)
      b == Score(default[j], preferred, last)
  IN  a < b \/ (a = b /\ i < j)

\* The position of place i when they are sorted by score.
Position(default, preferred, last, places, i) ==
  Cardinality({j \in places : Sooner(default, preferred, last, j, i)}) + 1

\* The collectors to try, sorted by score.
Ranked(default, stats, preferred, last) ==
  LET places == Askable(default, stats)
  IN  [k \in 1..Cardinality(places) |->
         default[CHOOSE i \in places : Position(default, preferred, last, places, i) = k]]
=============================================================================
