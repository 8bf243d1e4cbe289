----------------------------- MODULE RateWindow -----------------------------
(***************************************************************************)
(* The rate window of one live source as days go by: reserving capacity    *)
(* for a run and releasing it, with the minimum interval, the daily quota, *)
(* the concurrency limit and the backoff after a 429.                      *)
(*                                                                         *)
(* Windows are kept per calendar day: a reservation reads the row of the   *)
(* day it is made on, a release writes the row of the day IT is made on.   *)
(* A run is one transaction, and the runs of a live source follow each     *)
(* other (the robots.txt refresh holds the source's row): a run that is    *)
(* rolled back leaves the windows as they were before it.                  *)
(***************************************************************************)
EXTENDS Naturals

CONSTANTS
  DayLength,        \* clock ticks in a day
  MinimumInterval,  \* minimum_interval_seconds
  DailyLimit,       \* daily_request_limit
  MaxConcurrency,   \* maximum_concurrency
  Cooldown,         \* cooldown_after_429_seconds
  MaxTime           \* bound on the clock

ASSUME RateAssumption ==
  /\ DayLength \in Nat \ {0} /\ MaxTime \in Nat \ {0}
  /\ MinimumInterval \in Nat /\ DailyLimit \in Nat /\ Cooldown \in Nat
  /\ MaxConcurrency \in Nat \ {0}

VARIABLES
  clock,    \* the time, from 1: 0 is "never" below
  windows,  \* source_rate_windows, by day; NoWindow is a missing row
  run,      \* "idle", or "running" while a run holds a reservation
  before,   \* the windows as committed before the run, for a rollback
  started,  \* when the run reserved
  last,     \* history: when the last committed run reserved, 0 for never
  backoff,  \* history: end of the backoff the last 429 of a committed run asked for
  asker,    \* history: when that run reserved, 0 for none
  charged   \* history: committed reservations by day

history == <<last, backoff, asker, charged>>
vars    == <<clock, windows, run, before, started, history>>

Times    == 0..MaxTime
Day(t)   == t \div DayLength
Days     == {Day(t) : t \in Times}
NoWindow == [row |-> "none", count |-> 0, inFlight |-> 0, last |-> 0, cooldown |-> 0]
Inserted == [NoWindow EXCEPT !.row = "stored"]
Today    == Day(clock)

Init ==
  /\ clock = 1
  /\ windows = [d \in Days |-> NoWindow]
  /\ run = "idle" /\ before = windows /\ started = 0
  /\ last = 0 /\ backoff = 0 /\ asker = 0
  /\ charged = [d \in Days |-> 0]

-----------------------------------------------------------------------------

\* Mutated: the quota is let through once more.
RefusesBeyond(w) ==
  \/ w.cooldown > clock
  \/ w.count > DailyLimit
  \/ w.inFlight >= MaxConcurrency
  \/ w.last # 0 /\ clock - w.last < MinimumInterval

\* Mutated: the interval is not looked at.
RefusesHasty(w) ==
  \/ w.cooldown > clock
  \/ w.count >= DailyLimit
  \/ w.inFlight >= MaxConcurrency

\* The reasons for which reserve() refuses.
Refuses(w) ==
  \/ w.cooldown > clock
  \/ w.count >= DailyLimit
  \/ w.inFlight >= MaxConcurrency
  \/ w.last # 0 /\ clock - w.last < MinimumInterval

\* The row reserve() looks at: it is inserted when there is none.
Found(d) == IF windows[d].row = "stored" THEN windows[d] ELSE Inserted

\* Mutated: the reservation is not counted.
ReservedFree(w) == [w EXCEPT !.inFlight = @ + 1, !.last = clock]

Reserved(w) == [w EXCEPT !.count = @ + 1, !.inFlight = @ + 1, !.last = clock]

\* A run reserves capacity; its requests follow at once.
Reserve ==
  /\ run = "idle" /\ ~Refuses(Found(Today))
  /\ windows' = [windows EXCEPT ![Today] = Reserved(Found(Today))]
  /\ run' = "running" /\ started' = clock
  /\ before' = windows
  /\ UNCHANGED <<clock, history>>

\* A run is refused; the job is denied, and the inserted row is committed.
Refuse ==
  /\ run = "idle" /\ Refuses(Found(Today))
  /\ windows' = [windows EXCEPT ![Today] = Found(Today)]
  /\ before' = windows'
  /\ UNCHANGED <<clock, run, started, history>>

\* Mutated: after a 429 only the cooldown is written.
ReleasedCooling(w, limited) ==
  IF limited THEN [w EXCEPT !.cooldown = clock + Cooldown]
  ELSE [w EXCEPT !.inFlight = IF @ = 0 THEN 0 ELSE @ - 1]

\* Mutated: the cooldown is dropped.
ReleasedWarm(w, limited) == [w EXCEPT !.inFlight = IF @ = 0 THEN 0 ELSE @ - 1]

\* The row after a release: in_flight never falls below 0.
Released(w, limited) ==
  [w EXCEPT !.inFlight = IF @ = 0 THEN 0 ELSE @ - 1,
            !.cooldown = IF limited THEN clock + Cooldown ELSE @]

\* The run ends, after a 429 or not, and is committed.  A release on a day
\* without a row does nothing.
Release(limited) ==
  /\ run = "running"
  /\ windows' = IF windows[Today].row = "stored"
                THEN [windows EXCEPT ![Today] = Released(windows[Today], limited)]
                ELSE windows
  /\ before' = windows'
  /\ run' = "idle"
  /\ last' = started
  /\ backoff' = IF limited THEN clock + Cooldown ELSE backoff
  /\ asker' = IF limited THEN started ELSE asker
  /\ charged' = [charged EXCEPT ![Day(started)] = @ + 1]
  /\ UNCHANGED <<clock, started>>

\* The transaction is rolled back: the reservation was never there.
Rollback ==
  /\ run = "running"
  /\ windows' = before
  /\ run' = "idle"
  /\ UNCHANGED <<clock, before, started, history>>

Tick ==
  /\ clock < MaxTime
  /\ clock' = clock + 1
  /\ UNCHANGED <<windows, run, before, started, history>>

Next == Reserve \/ Refuse \/ (\E limited \in BOOLEAN : Release(limited)) \/ Rollback \/ Tick

Spec == Init /\ [][Next]_vars

-----------------------------------------------------------------------------

Window == [row : {"none", "stored"}, count : 0..DailyLimit,
           inFlight : 0..MaxConcurrency, last : Times, cooldown : Nat]

TypeOK ==
  /\ clock \in Times \ {0}
  /\ windows \in [Days -> Window]
  /\ run \in {"idle", "running"}
  /\ before \in [Days -> Window]
  /\ started \in Times /\ last \in Times /\ asker \in Times
  /\ backoff \in Nat
  /\ charged \in [Days -> 0..DailyLimit]

Contacts == run = "idle" /\ run' = "running"

\* The source is not contacted again before the backoff that a committed run was
\* asked for is over.
BackoffHonoured == [][Contacts => clock >= backoff]_vars

\* Nor, on the day of the run that was asked, whatever other runs of that day
\* did in between: a refused one, one rolled back, one begun the day before.
BackoffWithinDay ==
  [][Contacts /\ asker # 0 /\ Day(asker) = Today => clock >= backoff]_vars

\* Two committed runs of one day start at least the minimum interval apart.
IntervalWithinDay ==
  [][Contacts /\ last # 0 /\ Day(last) = Today => clock - last >= MinimumInterval]_vars

\* An idle source never has today's slot taken: neither a run over midnight nor
\* a rollback leaves a reservation behind that would refuse every later run.
SlotFree == run = "idle" => windows[Today].inFlight = 0

\* Between the runs every day's count is what its committed runs have reserved,
\* on whichever day they were released and whichever runs were rolled back, and
\* stays within the quota.
QuotaPerDay ==
  run = "idle" =>
    \A d \in Days : windows[d].count = charged[d] /\ charged[d] <= DailyLimit
=============================================================================
