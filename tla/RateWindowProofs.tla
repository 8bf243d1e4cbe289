--------------------------- MODULE RateWindowProofs ---------------------------
(***************************************************************************)
(* Proofs about RateWindow, for every length of the day, limit and clock   *)
(* bound.  The inductive invariant ties the windows to those committed     *)
(* before the run: a run changes the row of the day it reserved on, and no *)
(* later row.                                                              *)
(***************************************************************************)
EXTENDS RateWindow, TLAPS

LEMMA DayIsNat ==
  ASSUME NEW t \in Nat PROVE Day(t) \in Nat
BY RateAssumption DEF Day

LEMMA DayIsMonotone ==
  ASSUME NEW s \in Nat, NEW t \in Nat, s <= t PROVE Day(s) <= Day(t)
<1> DEFINE L == DayLength
<1>1. L \in Nat /\ L > 0 BY RateAssumption
<1> HIDE DEF L
<1>2. s \div L <= t \div L BY <1>1, Z3
<1> QED BY <1>2 DEF Day, L

LEMMA DaysOfTimes ==
  ASSUME NEW t \in Times PROVE Day(t) \in Days
BY DEF Days

LEMMA DaysAreNat == Days \subseteq Nat
BY DayIsNat, RateAssumption DEF Days, Times

LEMMA MakeWindow ==
  ASSUME NEW e \in {"none", "stored"}, NEW c \in 0..DailyLimit, NEW f \in 0..MaxConcurrency,
         NEW l \in Times, NEW k \in Nat
  PROVE  [row |-> e, count |-> c, inFlight |-> f, last |-> l, cooldown |-> k] \in Window
BY Zenon DEF Window

-----------------------------------------------------------------------------

\* The day the free slots are counted from.
Since == IF run = "idle" THEN Day(clock) ELSE Day(started)

IInv ==
  /\ TypeOK
  /\ run = "idle" => before = windows
  /\ run = "running" =>
       /\ started \in Times /\ started <= clock
       /\ windows = [before EXCEPT ![Day(started)] = windows[Day(started)]]
       /\ windows[Day(started)].row = "stored"
       /\ windows[Day(started)].inFlight = 1
       /\ windows[Day(started)].count = before[Day(started)].count + 1
       /\ windows[Day(started)].last = started
       /\ windows[Day(started)].cooldown = before[Day(started)].cooldown
  /\ \A d \in Days : d >= Since => before[d].inFlight = 0
  /\ \A d \in Days : before[d].count = charged[d]
  /\ \A d \in Days : before[d].row # "stored" => before[d] = NoWindow

LEMMA InitInv == Init => IInv
<1> SUFFICES ASSUME Init PROVE IInv OBVIOUS
<1>1. NoWindow \in Window BY RateAssumption DEF NoWindow, Window, Times
<1>2. TypeOK BY <1>1, RateAssumption DEF Init, TypeOK, Times
<1> QED BY <1>2 DEF Init, IInv, NoWindow

LEMMA FoundIsWindow ==
  ASSUME IInv, run = "idle"
  PROVE  /\ Today \in Days /\ Found(Today) \in Window
         /\ Found(Today).row = "stored" /\ Found(Today).inFlight = 0
         /\ Found(Today).count = charged[Today]
         /\ Found(Today).last = windows[Today].last
         /\ Found(Today).cooldown = windows[Today].cooldown
<1>1. Today \in Days BY DaysOfTimes DEF IInv, TypeOK, Today
<1>2. windows[Today] \in Window /\ before = windows /\ windows[Today].count = charged[Today]
  BY <1>1 DEF IInv, TypeOK
<1>3. windows[Today].inFlight = 0
  <2>1. Since = Today BY DEF Since, Today
  <2>2. Today \in Nat BY <1>1, DaysAreNat
  <2> QED BY <1>1, <1>2, <2>1, <2>2 DEF IInv
<1>4. CASE windows[Today].row = "stored" BY <1>1, <1>2, <1>3, <1>4 DEF Found
<1>5. CASE windows[Today].row # "stored"
  <2>1. windows[Today] = NoWindow BY <1>1, <1>2, <1>5 DEF IInv
  <2>2. Found(Today) = [NoWindow EXCEPT !.row = "stored"] BY <1>5 DEF Found, Inserted
  <2>3. [NoWindow EXCEPT !.row = "stored"] \in Window
    <3>1. [NoWindow EXCEPT !.row = "stored"] =
            [row |-> "stored", count |-> 0, inFlight |-> 0, last |-> 0, cooldown |-> 0]
      BY DEF NoWindow
    <3>2. 0 \in 0..DailyLimit /\ 0 \in 0..MaxConcurrency /\ 0 \in Times /\ 0 \in Nat
      BY RateAssumption DEF Times
    <3> QED BY <3>1, <3>2, MakeWindow
  <2>4. /\ Found(Today).row = "stored" /\ Found(Today).inFlight = NoWindow.inFlight
        /\ Found(Today).count = NoWindow.count /\ Found(Today).last = NoWindow.last
        /\ Found(Today).cooldown = NoWindow.cooldown
    BY <2>2 DEF NoWindow
  <2> QED BY <1>1, <1>2, <1>3, <2>1, <2>2, <2>3, <2>4
<1> QED BY <1>4, <1>5

LEMMA NextInv == IInv /\ [Next]_vars => IInv'
<1> SUFFICES ASSUME IInv, [Next]_vars PROVE IInv' OBVIOUS
<1> USE RateAssumption
<1>1. CASE Reserve
  <2> DEFINE found == Found(Today)
  <2>1. /\ run = "idle" /\ Today \in Days /\ found \in Window /\ found.inFlight = 0
        /\ found.count = charged[Today] /\ found.row = "stored"
        /\ found.cooldown = windows[Today].cooldown
    BY <1>1, FoundIsWindow DEF Reserve, history
  <2>2. found.count < DailyLimit
    BY <1>1, <2>1 DEF Reserve, Refuses, Window
  <2> HIDE DEF found
  <2>3. /\ Reserved(found) \in Window /\ Reserved(found).inFlight = 1
        /\ Reserved(found).count = found.count + 1 /\ Reserved(found).row = "stored"
        /\ Reserved(found).last = clock /\ Reserved(found).cooldown = found.cooldown
    <3>1. /\ found.row \in {"none", "stored"} /\ found.count \in Nat
          /\ found.count + 1 \in 0..DailyLimit
          /\ found.inFlight + 1 = 1 /\ 1 \in 0..MaxConcurrency
          /\ found.cooldown \in Nat /\ clock \in Times
      BY <2>1, <2>2 DEF Window, IInv, TypeOK
    <3>2. Reserved(found) = [found EXCEPT !.count = found.count + 1,
                                          !.inFlight = 1, !.last = clock]
      BY <3>1 DEF Reserved
    <3> DEFINE c == found.count + 1
               v == [found EXCEPT !.count = c, !.inFlight = 1, !.last = clock]
    <3>3. c \in 0..DailyLimit /\ 1 \in 0..MaxConcurrency /\ clock \in Times BY <3>1
    <3> HIDE DEF c
    <3>4. /\ v \in Window /\ v.row = found.row /\ v.cooldown = found.cooldown
          /\ v.count = c /\ v.inFlight = 1 /\ v.last = clock
      BY <2>1, <3>3 DEF Window
    <3>5. Reserved(found) = v BY <3>2 DEF c
    <3> HIDE DEF v
    <3> QED BY <2>1, <3>4, <3>5 DEF c
  <2>4. /\ windows' = [windows EXCEPT ![Today] = Reserved(found)]
        /\ run' = "running" /\ started' = clock /\ before' = windows
        /\ UNCHANGED <<clock, last, backoff, asker, charged>>
    BY <1>1 DEF Reserve, history, found
  <2>5. /\ windows \in [Days -> Window] /\ clock \in Times /\ clock >= 1 /\ before = windows
        /\ Day(started') = Today
    BY <2>1, <2>4 DEF IInv, TypeOK, Times, Today
  <2>6. TypeOK' BY <2>1, <2>3, <2>4, <2>5 DEF IInv, TypeOK, Times
  <2>7. /\ windows' = [before' EXCEPT ![Day(started')] = windows'[Day(started')]]
        /\ windows'[Day(started')] = Reserved(found)
    BY <2>1, <2>4, <2>5
  <2>8. started' \in Times /\ started' <= clock' BY <2>4, <2>5 DEF Times
  <2>9. windows'[Day(started)'].count = before'[Day(started)'].count + 1
    BY <2>1, <2>3, <2>4, <2>5, <2>7 DEF IInv
  <2>10. Since' = Since /\ before' = before /\ charged' = charged
    BY <2>1, <2>4, <2>5 DEF Since, Today
  <2>11. /\ windows'[Day(started')].row = "stored" /\ windows'[Day(started')].inFlight = 1
         /\ windows'[Day(started')].last = started'
    BY <2>1, <2>3, <2>4, <2>7
  <2>12. windows'[Day(started')].cooldown = before'[Day(started')].cooldown
    BY <2>1, <2>3, <2>4, <2>5, <2>7
  <2>13. /\ \A d \in Days : d >= Since' => before'[d].inFlight = 0
         /\ \A d \in Days : before'[d].count = charged'[d]
         /\ \A d \in Days : before'[d].row # "stored" => before'[d] = NoWindow
    BY <2>10 DEF IInv
  <2>14. run' # "idle" BY <2>4
  <2> QED BY <2>6, <2>7, <2>8, <2>9, <2>11, <2>12, <2>13, <2>14 DEF IInv
<1>2. CASE Refuse
  <2> DEFINE found == Found(Today)
  <2>1. /\ run = "idle" /\ Today \in Days /\ found \in Window /\ found.inFlight = 0
        /\ found.count = charged[Today] /\ found.row = "stored"
    BY <1>2, FoundIsWindow DEF Refuse, history
  <2> HIDE DEF found
  <2>2. /\ windows' = [windows EXCEPT ![Today] = found] /\ before' = windows'
        /\ UNCHANGED <<clock, run, started, last, backoff, asker, charged>>
    BY <1>2 DEF Refuse, history, found
  <2>3. windows \in [Days -> Window] /\ before = windows BY <2>1 DEF IInv, TypeOK
  <2>4. TypeOK' BY <2>1, <2>2, <2>3 DEF IInv, TypeOK
  <2>5. Since' = Since /\ run' # "running" BY <2>1, <2>2 DEF Since
  <2>6. \A d \in Days : d >= Since' => before'[d].inFlight = 0
    BY <2>1, <2>2, <2>3, <2>5 DEF IInv
  <2>7. \A d \in Days : before'[d].count = charged'[d]
    BY <2>1, <2>2, <2>3 DEF IInv
  <2>8. \A d \in Days : before'[d].row # "stored" => before'[d] = NoWindow
    BY <2>1, <2>2, <2>3 DEF IInv
  <2> QED BY <2>2, <2>4, <2>5, <2>6, <2>7, <2>8 DEF IInv
<1>3. ASSUME NEW limited \in BOOLEAN, Release(limited) PROVE IInv'
  <2> DEFINE d0 == Day(started)
  <2>1. /\ run = "running" /\ run' = "idle" /\ before' = windows' /\ last' = started
        /\ UNCHANGED <<clock, started>>
        /\ backoff' = (IF limited THEN clock + Cooldown ELSE backoff)
        /\ asker' = (IF limited THEN started ELSE asker)
        /\ charged' = [charged EXCEPT ![d0] = @ + 1]
    BY <1>3 DEF Release, history
  <2>2. /\ clock \in Nat /\ started \in Nat /\ started <= clock
        /\ clock \in Times /\ started \in Times
    BY <2>1 DEF IInv, TypeOK, Times
  <2>3. /\ d0 \in Days /\ Today \in Days /\ d0 \in Nat /\ Today \in Nat /\ d0 <= Today
    BY <2>2, DaysOfTimes, DayIsNat, DayIsMonotone DEF Today
  <2>4. /\ windows \in [Days -> Window] /\ before \in [Days -> Window]
        /\ charged \in [Days -> 0..DailyLimit]
        /\ windows = [before EXCEPT ![d0] = windows[d0]]
        /\ windows[d0].row = "stored" /\ windows[d0].inFlight = 1
        /\ windows[d0].count = before[d0].count + 1
    BY <2>1 DEF IInv, TypeOK
  <2>5. \A d \in Days : d # d0 => windows[d] = before[d] BY <2>4
  <2>6. ASSUME NEW w \in Window
        PROVE  /\ Released(w, limited) \in Window
               /\ w.inFlight <= 1 => Released(w, limited).inFlight = 0
               /\ Released(w, limited).count = w.count
               /\ Released(w, limited).row = w.row
    <3> DEFINE left == IF w.inFlight = 0 THEN 0 ELSE w.inFlight - 1
               until == IF limited THEN clock + Cooldown ELSE w.cooldown
    <3>1. /\ w.row \in {"none", "stored"} /\ w.count \in 0..DailyLimit
          /\ w.inFlight \in 0..MaxConcurrency /\ w.last \in Times /\ w.cooldown \in Nat
      BY DEF Window
    <3>2. /\ left \in 0..MaxConcurrency /\ until \in Nat
          /\ w.inFlight <= 1 => left = 0
      BY <2>2, <3>1
    <3>3. Released(w, limited) = [w EXCEPT !.inFlight = left, !.cooldown = until]
      BY DEF Released
    <3> HIDE DEF left, until
    <3> DEFINE v == [w EXCEPT !.inFlight = left, !.cooldown = until]
    <3>4. /\ v \in Window /\ v.row = w.row /\ v.count = w.count
          /\ v.inFlight = left /\ v.cooldown = until
      BY <3>2 DEF Window
    <3>5. Released(w, limited) = v BY <3>3
    <3> HIDE DEF v
    <3> QED BY <3>2, <3>4, <3>5
  <2>7. windows' = IF windows[Today].row = "stored"
                   THEN [windows EXCEPT ![Today] = Released(windows[Today], limited)]
                   ELSE windows
    BY <1>3 DEF Release, history
  <2>8. windows' \in [Days -> Window] BY <2>3, <2>4, <2>6, <2>7
  <2>9. \A d \in Days : windows'[d].count = windows[d].count
    BY <2>3, <2>4, <2>6, <2>7
  <2>10. \A d \in Days : windows[d].count = charged'[d]
    <3>1. \A d \in Days : before[d].count = charged[d] BY DEF IInv
    <3> QED BY <2>1, <2>3, <2>4, <2>5, <3>1
  <2>11. windows[d0].count \in 0..DailyLimit BY <2>3, <2>4 DEF Window
  <2>12. charged' \in [Days -> 0..DailyLimit]
    <3>1. charged'[d0] = charged[d0] + 1 BY <2>1, <2>3, <2>4
    <3>2. charged'[d0] \in 0..DailyLimit BY <2>3, <2>10, <2>11
    <3> QED BY <2>1, <2>3, <2>4, <3>1, <3>2
  <2>13. TypeOK'
    BY <2>1, <2>2, <2>8, <2>12 DEF IInv, TypeOK, Times
  <2>14. \A d \in Days : d >= Today => windows'[d].inFlight = 0
    <3> TAKE d \in Days
    <3> HAVE d >= Today
    <3>1. d \in Nat /\ windows[d] \in Window BY DaysAreNat, <2>4
    <3>2. windows[d].inFlight = IF d = d0 THEN 1 ELSE 0
      <4>1. CASE d = d0 BY <2>4, <4>1
      <4>2. CASE d # d0
        <5>1. Since = d0 BY <2>1 DEF Since
        <5>2. before[d].inFlight = 0 BY <2>3, <3>1, <5>1 DEF IInv
        <5> QED BY <2>5, <4>2, <5>2
      <4> QED BY <4>1, <4>2
    <3>3. CASE windows[Today].row = "stored" /\ d = Today
      BY <2>3, <2>4, <2>6, <2>7, <3>1, <3>2, <3>3
    <3>4. CASE ~(windows[Today].row = "stored" /\ d = Today)
      <4>1. windows'[d] = windows[d] BY <2>3, <2>4, <2>7, <3>4
      <4>2. d # d0 BY <2>3, <2>4, <3>1, <3>4
      <4> QED BY <3>2, <4>1, <4>2
    <3> QED BY <3>3, <3>4
  <2>15. \A d \in Days : windows'[d].row # "stored" => windows'[d] = NoWindow
    <3> TAKE d \in Days
    <3> HAVE windows'[d].row # "stored"
    <3>1. windows[d] \in Window BY <2>4
    <3>2. windows[d].row # "stored" /\ windows'[d] = windows[d]
      BY <2>3, <2>4, <2>6, <2>7, <3>1
    <3>3. d # d0 BY <2>4, <3>2
    <3> QED BY <2>5, <3>2, <3>3 DEF IInv
  <2>16. Since' = Today BY <2>1 DEF Since, Today
  <2>17. \A d \in Days : before'[d].count = charged'[d] BY <2>1, <2>9, <2>10
  <2>18. \A d \in Days : d >= Since' => before'[d].inFlight = 0
    BY <2>1, <2>14, <2>16
  <2>19. run' # "running" /\ before' = windows' BY <2>1
  <2>20. \A d \in Days : before'[d].row # "stored" => before'[d] = NoWindow
    BY <2>15, <2>19
  <2> HIDE DEF d0
  <2> QED BY <2>13, <2>17, <2>18, <2>19, <2>20 DEF IInv
<1>4. CASE Rollback
  <2>1. /\ run = "running" /\ windows' = before /\ run' = "idle"
        /\ UNCHANGED <<clock, before, started, last, backoff, asker, charged>>
    BY <1>4 DEF Rollback, history
  <2>2. TypeOK' BY <2>1 DEF IInv, TypeOK
  <2>3. Since <= Since' /\ Since \in Nat /\ Since' \in Nat
    <3>1. clock \in Nat /\ started \in Nat /\ started <= clock
      BY <2>1 DEF IInv, TypeOK, Times
    <3>2. Since = Day(started) /\ Since' = Day(clock) BY <2>1 DEF Since
    <3> QED BY <3>1, <3>2, DayIsNat, DayIsMonotone
  <2>4. \A d \in Days : d >= Since' => before'[d].inFlight = 0
    BY <2>1, <2>3, DaysAreNat DEF IInv
  <2> QED BY <2>1, <2>2, <2>4 DEF IInv
<1>5. CASE Tick
  <2>1. /\ clock < MaxTime /\ clock' = clock + 1
        /\ UNCHANGED <<windows, run, before, started, last, backoff, asker, charged>>
    BY <1>5 DEF Tick, history
  <2>2. clock \in Nat /\ clock' \in Times \ {0} /\ clock <= clock'
    BY <2>1 DEF IInv, TypeOK, Times
  <2>3. TypeOK' BY <2>1, <2>2 DEF IInv, TypeOK
  <2>4. Since <= Since' /\ Since \in Nat /\ Since' \in Nat
    <3>1. CASE run = "idle"
      BY <2>1, <2>2, <3>1, DayIsNat, DayIsMonotone DEF Since, Times
    <3>2. CASE run # "idle"
      <4>1. started \in Nat BY DEF IInv, TypeOK, Times
      <4>2. Since = Day(started) /\ Since' = Day(started) BY <2>1, <3>2 DEF Since
      <4> QED BY <4>1, <4>2, DayIsNat
    <3> QED BY <3>1, <3>2
  <2>5. \A d \in Days : d >= Since' => before'[d].inFlight = 0
    BY <2>1, <2>4, DaysAreNat DEF IInv
  <2>6. run' = "running" => started' <= clock' BY <2>1, <2>2 DEF IInv, TypeOK, Times
  <2> QED BY <2>1, <2>3, <2>5, <2>6 DEF IInv
<1>6. CASE UNCHANGED vars
  BY <1>6 DEF vars, history, IInv, TypeOK, Since
<1> QED BY <1>1, <1>2, <1>3, <1>4, <1>5, <1>6 DEF Next

\* The invariant above holds throughout: it is what the theorems below follow
\* from.
THEOREM WindowInvariant == Spec => []IInv
BY InitInv, NextInv, PTL DEF Spec

-----------------------------------------------------------------------------
\* Every reachable state of the rate window is well typed: the count never
\* passes the quota nor in_flight the concurrency limit.
THEOREM WindowTypeCorrect == Spec => []TypeOK
<1>1. IInv => TypeOK BY DEF IInv
<1> QED BY WindowInvariant, <1>1, PTL

\* An idle source has today's slot free, over any number of midnights and
\* rollbacks.
THEOREM SlotAlwaysFree == Spec => []SlotFree
<1>1. IInv => SlotFree
  <2> SUFFICES ASSUME IInv, run = "idle" PROVE windows[Today].inFlight = 0 BY DEF SlotFree
  <2>1. Today \in Days /\ Today = Since
    BY DaysOfTimes DEF IInv, TypeOK, Today, Since
  <2>2. Today \in Nat BY <2>1, DaysAreNat
  <2> QED BY <2>1, <2>2 DEF IInv
<1> QED BY WindowInvariant, <1>1, PTL

\* Every day's count is exact between the runs, and within the quota.
THEOREM QuotaAlwaysHeld == Spec => []QuotaPerDay
<1>1. IInv => QuotaPerDay
  BY RateAssumption DEF IInv, TypeOK, QuotaPerDay
<1> QED BY WindowInvariant, <1>1, PTL

-----------------------------------------------------------------------------
\* The row of the day remembers when the source was last contacted on it and
\* what it asked for on it.
Remembered ==
  /\ last <= clock /\ asker <= clock
  /\ last # 0 => before[Day(last)].last = last
  /\ asker # 0 /\ Day(asker) = Today => before[Today].cooldown = backoff

LEMMA InitRemembered == Init => Remembered
BY DEF Init, Remembered

\* A day that was today at an earlier moment and is today after the tick is
\* today before it.
LEMMA TodayMovesOn ==
  ASSUME TypeOK, TypeOK', NEW t \in Times, t <= clock, clock <= clock', Day(t) = Today'
  PROVE  Day(t) = Today /\ Today' = Today
<1>1. t \in Nat /\ clock \in Nat /\ clock' \in Nat BY DEF TypeOK, Times
<1>2. Day(t) <= Day(clock) /\ Day(clock) <= Day(clock') BY <1>1, DayIsMonotone
<1>3. Day(t) \in Nat /\ Day(clock) \in Nat /\ Day(clock') \in Nat BY <1>1, DayIsNat
<1> QED BY <1>2, <1>3 DEF Today

LEMMA NextRemembered == IInv /\ IInv' /\ Remembered /\ [Next]_vars => Remembered'
<1> SUFFICES ASSUME IInv, IInv', Remembered, [Next]_vars PROVE Remembered' OBVIOUS
<1>1. /\ windows \in [Days -> Window] /\ clock \in Times /\ clock \in Nat
      /\ last \in Times /\ asker \in Times /\ started \in Times /\ TypeOK /\ TypeOK'
  BY RateAssumption DEF IInv, TypeOK, Times
<1>2. Today \in Days /\ Day(last) \in Days /\ Day(started) \in Days
  BY <1>1, DaysOfTimes DEF Today
<1>3. CASE Reserve
  BY <1>3 DEF Reserve, history, Remembered, IInv, Today
<1>4. CASE Refuse
  <2>1. /\ run = "idle" /\ before' = [windows EXCEPT ![Today] = Found(Today)]
        /\ backoff' = backoff /\ last' = last /\ asker' = asker /\ clock' = clock
    BY <1>4 DEF Refuse, history
  <2>2. Found(Today).cooldown = windows[Today].cooldown /\ Found(Today).last = windows[Today].last
    BY <2>1, FoundIsWindow
  <2>3. before = windows /\ Today' = Today BY <2>1 DEF IInv, Today
  <2>4. last # 0 => before'[Day(last)].last = last
    BY <1>1, <1>2, <2>1, <2>2, <2>3 DEF Remembered
  <2>5. before'[Today].cooldown = before[Today].cooldown BY <1>1, <1>2, <2>1, <2>2, <2>3
  <2> QED BY <2>1, <2>3, <2>4, <2>5 DEF Remembered
<1>5. ASSUME NEW limited \in BOOLEAN, Release(limited) PROVE Remembered'
  <2> DEFINE d0 == Day(started)
             w  == windows[Today]
  <2>1. run = "running" BY <1>5 DEF Release
  <2>2. /\ windows[d0].row = "stored" /\ windows[d0].last = started
        /\ windows[d0].cooldown = before[d0].cooldown /\ started <= clock
        /\ windows = [before EXCEPT ![d0] = windows[d0]]
        /\ before \in [Days -> Window]
    BY <2>1 DEF IInv, TypeOK
  <2>3. w \in Window BY <1>1, <1>2
  <2>4. /\ Released(w, limited).last = w.last
        /\ Released(w, limited).cooldown = IF limited THEN clock + Cooldown ELSE w.cooldown
    BY <2>3 DEF Released, Window
  <2>5. /\ before' = IF w.row = "stored" THEN [windows EXCEPT ![Today] = Released(w, limited)]
                     ELSE windows
        /\ last' = started /\ clock' = clock
        /\ backoff' = (IF limited THEN clock + Cooldown ELSE backoff)
        /\ asker' = (IF limited THEN started ELSE asker)
    BY <1>5 DEF Release
  <2>6. Today' = Today BY <2>5 DEF Today
  <2>7. before'[d0].last = started
    <3>1. CASE d0 = Today BY <1>1, <1>2, <2>2, <2>4, <2>5, <3>1
    <3>2. CASE d0 # Today BY <1>1, <1>2, <2>2, <2>5, <3>2
    <3> QED BY <3>1, <3>2
  <2>8. asker' # 0 /\ Day(asker') = Today => before'[Today].cooldown = backoff'
    <3> SUFFICES ASSUME asker' # 0, Day(asker') = Today
                 PROVE  before'[Today].cooldown = backoff'
      OBVIOUS
    <3>1. CASE limited
      <4>1. d0 = Today BY <2>5, <3>1
      <4> QED BY <1>1, <1>2, <2>2, <2>4, <2>5, <3>1, <4>1
    <3>2. CASE ~limited
      <4>1. /\ before'[Today].cooldown = windows[Today].cooldown
            /\ asker' = asker /\ backoff' = backoff
        BY <1>1, <1>2, <2>4, <2>5, <3>2
      <4>2. windows[Today].cooldown = before[Today].cooldown
        BY <1>2, <2>2
      <4>3. before[Today].cooldown = backoff BY <4>1 DEF Remembered
      <4> QED BY <4>1, <4>2, <4>3
    <3> QED BY <3>1, <3>2
  <2>9. asker' <= clock' /\ last' <= clock' BY <2>2, <2>5 DEF Remembered
  <2> HIDE DEF d0, w
  <2> QED BY <2>5, <2>6, <2>7, <2>8, <2>9 DEF Remembered, d0
<1>6. CASE Rollback BY <1>6 DEF Rollback, history, Remembered, Today
<1>7. CASE Tick
  <2>1. clock' = clock + 1 /\ UNCHANGED <<before, last, backoff, asker>>
    BY <1>7 DEF Tick, history
  <2>2. clock <= clock' /\ last' <= clock' /\ asker' <= clock'
    BY <1>1, <2>1 DEF Remembered, Times
  <2>3. ASSUME Day(asker) = Today' PROVE Day(asker) = Today /\ Today' = Today
    BY <1>1, <2>2, <2>3, TodayMovesOn DEF Remembered
  <2> QED BY <2>1, <2>2, <2>3 DEF Remembered
<1>8. CASE UNCHANGED vars BY <1>8 DEF vars, history, Remembered, Today
<1> QED BY <1>3, <1>4, <1>5, <1>6, <1>7, <1>8 DEF Next

LEMMA ContactFacts ==
  ASSUME IInv, Remembered, [Next]_vars, Contacts
  PROVE  /\ asker # 0 /\ Day(asker) = Today => clock >= backoff
         /\ last # 0 /\ Day(last) = Today => clock - last >= MinimumInterval
<1>1. Reserve
  BY DEF Contacts, Next, vars, Refuse, Release, Rollback, Tick
<1>2. run = "idle" /\ before = windows BY <1>1 DEF Reserve, IInv
<1>3. clock \in Nat /\ last \in Nat /\ backoff \in Nat
  BY RateAssumption DEF IInv, TypeOK, Times
<1>4. /\ Found(Today).cooldown = windows[Today].cooldown
      /\ Found(Today).last = windows[Today].last
  BY <1>2, FoundIsWindow
<1>5. /\ ~(windows[Today].cooldown > clock)
      /\ ~(windows[Today].last # 0 /\ clock - windows[Today].last < MinimumInterval)
  BY <1>1, <1>4 DEF Reserve, Refuses
<1>6. asker # 0 /\ Day(asker) = Today => windows[Today].cooldown = backoff
  BY <1>2 DEF Remembered
<1>7. last # 0 /\ Day(last) = Today => windows[Today].last = last
  BY <1>2 DEF Remembered
<1> QED BY <1>3, <1>5, <1>6, <1>7, RateAssumption

LEMMA AlwaysRemembered == Spec => []Remembered
<1>1. IInv /\ IInv' /\ Remembered /\ [Next]_vars => Remembered' BY NextRemembered
<1> QED BY WindowInvariant, InitRemembered, <1>1, PTL DEF Spec

\* No run starts before the backoff is over that a run of the same day was
\* asked for.
THEOREM BackoffHeldWithinDay == Spec => BackoffWithinDay
<1>1. IInv /\ Remembered /\ [Next]_vars =>
        [Contacts /\ asker # 0 /\ Day(asker) = Today => clock >= backoff]_vars
  BY ContactFacts
<1> QED BY WindowInvariant, AlwaysRemembered, <1>1, PTL DEF Spec, BackoffWithinDay

\* The committed runs of a source start at least the minimum interval apart, if
\* they start on the same day.
THEOREM IntervalHeldWithinDay == Spec => IntervalWithinDay
<1>1. IInv /\ Remembered /\ [Next]_vars =>
        [Contacts /\ last # 0 /\ Day(last) = Today => clock - last >= MinimumInterval]_vars
  BY ContactFacts
<1> QED BY WindowInvariant, AlwaysRemembered, <1>1, PTL DEF Spec, IntervalWithinDay
=============================================================================
