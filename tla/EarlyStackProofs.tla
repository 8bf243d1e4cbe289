--------------------------- MODULE EarlyStackProofs ---------------------------
(***************************************************************************)
(* Theorems about EarlyCollection and EarlyStack.  However many processes  *)
(* of `backfill` race for the ledger, over whatever ladder and days, the   *)
(* chain verifies and every stored quote leads to a record that counted    *)
(* it; the stack's processes collect so; and what the stack serves of the  *)
(* published index is labelled synthetic if a simulated quote went in,     *)
(* unless, while it was read, an index command that had read its quotes    *)
(* earlier replaced what a later reading had flagged.                      *)
(***************************************************************************)
EXTENDS EarlyStack, FiniteSetTheorems, FunctionTheorems, TLAPS

-----------------------------------------------------------------------------
(***************************************************************************)
(* The inductive invariant.                                                *)
(***************************************************************************)
Outcomes == {"", "OK", "ERROR", "KILL_SWITCH", "ROBOTS_BLOCKED"}
Pids    == (Collectors \X Nat) \X Nat \X Nat
Offered == UNION ({Simulated(d, h) : d \in Days, h \in Hashes} \union {Fares[d] : d \in Days})
Batches == [offer : Offered, pid : Pids]

Records == [seq : Nat, prev : Pids \union {Genesis}, run : Collectors \X Nat, day : Nat,
            rung : Nat, source : DOMAIN Type, outcome : Outcomes, n : Nat]

Processes ==
  [pc : {"idle", "rung", "append", "store", "done", "refused", "died"}, nr : Nat,
   simulate : BOOLEAN, keyed : BOOLEAN, hash : Hashes \union {0},
   first : Nat, day : Nat, last : Nat, rung : Nat,
   tip : [seq : Nat, hash : Pids \union {Genesis}],
   outcome : Outcomes, rows : SUBSET Offered, batch : SUBSET Batches, stored : BOOLEAN]

TypeOK == coll \in [Collectors -> Processes] /\ ledger \subseteq Records /\ IsFiniteSet(ledger)

\* The k-th record has the hash h, or the chain begins there.
Link(k, h) == (k = 0 /\ h = Genesis) \/ \E r \in ledger : r.seq = k /\ HashOf(r) = h

\* The ledger: a chain, of records that their run, day and rung identify, of
\* runs that have begun.
ChainInv ==
  /\ \A r \in ledger : r.seq \in 1..Cardinality(ledger) /\ Link(r.seq - 1, r.prev)
  /\ \A k \in 1..Cardinality(ledger) : \E r \in ledger : r.seq = k
  /\ \A r, s \in ledger : r.seq = s.seq => r = s
  /\ \A r, s \in ledger : HashOf(r) = HashOf(s) => r = s
  /\ \A r \in ledger : r.run[2] <= coll[r.run[1]].nr

\* A run that is on its way or has reached its end; what it has behind it.
Live(c) == coll[c].pc \in {"rung", "append", "store", "done", "refused"}

Passed(c, d, i) ==
  \/ d < coll[c].day
  \/ d = coll[c].day /\ (coll[c].pc \in {"store", "done", "refused"} \/ i < coll[c].rung)

\* A process on its way stands at a day of its range and a rung of the ladder;
\* with rows in hand it holds the tip it read, then or now the last record.
PlaceInv(c) ==
  /\ Running(c) =>
       /\ coll[c].day \in Days /\ coll[c].last \in Days /\ coll[c].day <= coll[c].last
       /\ coll[c].rung \in Rungs /\ coll[c].hash \in Hashes
  /\ coll[c].pc = "store" => coll[c].rung = 1
  /\ coll[c].pc = "append" =>
       /\ Link(coll[c].tip.seq, coll[c].tip.hash)
       /\ RowsOf(coll[c].rows, Source(c), coll[c].day)
       /\ coll[c].rows # {} => coll[c].outcome = "OK"

\* A run has a record of every rung it has passed, and of no other.
PassedInv(c) ==
  Live(c) =>
    /\ \A r \in ledger : r.run = RunOf(c) => Passed(c, r.day, r.rung)
    /\ \A d \in coll[c].first..coll[c].last, i \in Rungs :
         Passed(c, d, i) => \E r \in ledger : HashOf(r) = <<RunOf(c), d, i>>

\* The rows a process holds for the day lead to records of it that count them.
RowsUnder(batch, pid) == {b \in batch : b.pid = pid}

BatchInv(c) ==
  /\ IsFiniteSet(coll[c].batch)
  /\ ~Running(c) => coll[c].batch = {}
  /\ \A b \in coll[c].batch : \E r \in ledger :
       /\ HashOf(r) = b.pid /\ r.run = RunOf(c) /\ r.day = coll[c].day
       /\ r.outcome = "OK" /\ b.offer.source = r.source /\ b.offer.day = r.day
       /\ Cardinality(RowsUnder(coll[c].batch, b.pid)) <= r.n

\* What has been stored of a run that is on its way is of days behind it.
StoredInv ==
  \A q \in quotes, c \in Collectors :
    Running(c) /\ q.pid[1] = RunOf(c) => q.pid[2] < coll[c].day

LedgerInv ==
  /\ TypeOK /\ ChainInv
  /\ \A c \in Collectors : PlaceInv(c) /\ PassedInv(c)

QuotesInv ==
  /\ \A c \in Collectors : BatchInv(c)
  /\ QuotesTraced /\ StoredInv

-----------------------------------------------------------------------------
(***************************************************************************)
(* The chain.                                                              *)
(***************************************************************************)
LEMMA HashIsPid ==
  ASSUME NEW r \in Records
  PROVE  HashOf(r) \in Pids
  BY DEF Records, HashOf, Pids

\* _tip: the last record's place and hash.
LEMMA TipLinks ==
  ASSUME TypeOK, ChainInv
  PROVE  /\ Tip \in [seq : Nat, hash : Pids \union {Genesis}]
         /\ Tip.seq = Cardinality(ledger) /\ Link(Tip.seq, Tip.hash)
<1> DEFINE n == Cardinality(ledger)
<1>1. n \in Nat
  BY FS_CardinalityType DEF TypeOK
<1>2. CASE ledger = {}
  BY <1>2, FS_EmptySet DEF Tip, NoTip, Link
<1>3. CASE ledger # {}
  <2>1. n # 0
    BY <1>3, FS_EmptySet DEF TypeOK
  <2>2. PICK r \in ledger : r.seq = n
    BY <1>1, <2>1 DEF ChainInv
  <2>3. \A s \in ledger : s.seq \in Nat /\ s.seq <= n
    BY <1>1 DEF ChainInv
  <2> DEFINE last == CHOOSE s \in ledger : \A t \in ledger : t.seq <= s.seq
  <2>4. last \in ledger /\ \A t \in ledger : t.seq <= last.seq
    BY <2>2, <2>3
  <2>5. last.seq = n
    BY <1>1, <2>2, <2>3, <2>4
  <2>6. Tip = [seq |-> last.seq, hash |-> HashOf(last)]
    BY <1>3 DEF Tip
  <2> HIDE DEF last, n
  <2>7. HashOf(last) \in Pids
    BY <2>4, HashIsPid DEF TypeOK
  <2> QED
    BY <1>1, <2>4, <2>5, <2>6, <2>7 DEF Link, n
<1> QED
  BY <1>2, <1>3

\* A tip that was read stays a link while the ledger grows.
LEMMA LinkStays ==
  ASSUME NEW k, NEW h, ledger \subseteq ledger', Link(k, h)
  PROVE  Link(k, h)'
  BY DEF Link

\* An insert that the unique index lets through stands behind the last record.
LEMMA FreeSeqIsNext ==
  ASSUME TypeOK, ChainInv, NEW k \in Nat, NEW h, Link(k, h),
         ~ \E r \in ledger : r.seq = k + 1
  PROVE  k = Cardinality(ledger)
<1>1. Cardinality(ledger) \in Nat
  BY FS_CardinalityType DEF TypeOK
<1>2. k <= Cardinality(ledger)
  BY <1>1 DEF Link, ChainInv
<1>3. ~(k + 1 \in 1..Cardinality(ledger))
  BY DEF ChainInv
<1> QED
  BY <1>1, <1>2, <1>3

LEMMA ChainGrows ==
  ASSUME TypeOK, ChainInv, NEW rec \in Records,
         rec.seq = Cardinality(ledger) + 1, Link(Cardinality(ledger), rec.prev),
         \A r \in ledger : HashOf(r) # HashOf(rec),
         ledger' = ledger \union {rec},
         \A c \in Collectors : coll'[c].nr = coll[c].nr,
         rec.run[2] <= coll[rec.run[1]].nr
  PROVE  ledger' \subseteq Records /\ IsFiniteSet(ledger') /\ ChainInv'
<1>0. PICK n \in Nat : n = Cardinality(ledger)
  BY FS_CardinalityType DEF TypeOK
<1>1. n \in Nat /\ ledger \subseteq Records /\ ledger \subseteq ledger'
  BY DEF TypeOK
<1>2. \A r \in ledger : r.seq \in 1..n
  BY <1>0 DEF ChainInv
<1>3. rec \notin ledger
  BY <1>0, <1>1, <1>2
<1>4. IsFiniteSet(ledger') /\ Cardinality(ledger') = n + 1
  BY <1>0, <1>3, FS_AddElement DEF TypeOK
<1>5. ledger' \subseteq Records
  BY <1>1
<1>6. ASSUME NEW r \in ledger'
      PROVE  r.seq \in 1..n + 1 /\ Link(r.seq - 1, r.prev)'
  <2>1. CASE r \in ledger
    <3>1. Link(r.seq - 1, r.prev)
      BY <2>1 DEF ChainInv
    <3>2. Link(r.seq - 1, r.prev)'
      BY <1>1, <3>1, LinkStays
    <3> QED
      BY <1>1, <1>2, <2>1, <3>2
  <2>2. CASE r = rec
    <3>1. r.seq = n + 1 /\ r.seq - 1 = n
      BY <1>0, <1>1, <2>2
    <3>2. Link(n, rec.prev)'
      BY <1>0, <1>1, LinkStays
    <3> QED
      BY <1>1, <2>2, <3>1, <3>2
  <2> QED
    BY <2>1, <2>2
<1>7. \A k \in 1..n + 1 : \E r \in ledger' : r.seq = k
  <2>1. ASSUME NEW k \in 1..n + 1
        PROVE  \E r \in ledger' : r.seq = k
    <3>1. CASE k = n + 1
      BY <1>0, <3>1
    <3>2. CASE k # n + 1
      <4>1. k \in 1..n
        BY <1>1, <3>2
      <4> QED
        BY <1>0, <1>1, <4>1 DEF ChainInv
    <3> QED
      BY <3>1, <3>2
  <2> QED
    BY <2>1
<1>8. \A r, s \in ledger' : r.seq = s.seq => r = s
  <2>1. rec.seq \notin 1..n
    BY <1>0, <1>1
  <2> QED
    BY <1>2, <2>1 DEF ChainInv
<1>9. \A r, s \in ledger' : HashOf(r) = HashOf(s) => r = s
  BY DEF ChainInv
<1>10. \A r \in ledger' : r.run[2] <= coll'[r.run[1]].nr
  <2>1. \A r \in ledger' : r.run[1] \in Collectors
    BY <1>5 DEF Records
  <2> QED
    BY <2>1 DEF ChainInv
<1> QED
  BY <1>4, <1>5, <1>6, <1>7, <1>8, <1>9, <1>10 DEF ChainInv

LEMMA ChainStays ==
  ASSUME TypeOK, ChainInv, ledger' = ledger,
         \A c \in Collectors : coll'[c].nr \in Nat /\ coll[c].nr <= coll'[c].nr
  PROVE  ChainInv'
<1>1. \A r \in ledger : r.run[1] \in Collectors /\ r.run[2] \in Nat
  BY DEF TypeOK, Records
<1>2. \A r \in ledger : r.run[2] <= coll[r.run[1]].nr /\ coll[r.run[1]].nr \in Nat
  BY <1>1 DEF ChainInv, TypeOK, Processes
<1>3. \A r \in ledger : r.run[2] <= coll'[r.run[1]].nr
  BY <1>1, <1>2
<1> QED
  BY <1>3 DEF ChainInv, Link

-----------------------------------------------------------------------------
(***************************************************************************)
(* What a step does.                                                       *)
(***************************************************************************)

\* The outcome of a rung is in hand, and the tip read.
Obtains(c) ==
  \E outcome \in Outcomes, rows \in SUBSET Offered :
    /\ RowsOf(rows, Source(c), coll[c].day)
    /\ rows # {} => outcome = "OK"
    /\ Obtained(c, outcome, rows)

\* A record is appended behind the last one, and stamps the rows.
Appends(c) ==
  \E tip \in [seq : Nat, hash : Pids \union {Genesis}], outcome \in Outcomes, rows \in SUBSET Offered :
    /\ coll[c].pc = "append"
    /\ tip.seq = Cardinality(ledger) /\ Link(tip.seq, tip.hash)
    /\ RowsOf(rows, Source(c), coll[c].day)
    /\ rows # {} => outcome = "OK"
    /\ ledger' = ledger \union {Record(c, tip, outcome, Cardinality(rows))}
    /\ NextRung(c, rows)
    /\ UNCHANGED quotes

Dies(c) == Running(c) /\ Ended(c, "died") /\ UNCHANGED <<ledger, quotes>>

LEMMA RungsAre == /\ Len(Ladder) \in Nat \ {0} /\ Rungs = 1..Len(Ladder)
                  /\ 1 \in Rungs /\ Rungs \subseteq Nat \ {0}
<1>1. Ladder \in Seq(DOMAIN Type) /\ Ladder # <<>>
  BY CollectionAssumption
<1>2. Len(Ladder) \in Nat \ {0} /\ Rungs = 1..Len(Ladder)
  BY <1>1 DEF Rungs
<1> QED
  BY <1>2

LEMMA SourceOfLadder ==
  ASSUME NEW c \in Collectors, PlaceInv(c), Running(c)
  PROVE  /\ coll[c].rung \in Rungs /\ Source(c) \in DOMAIN Type
         /\ Type[Source(c)] = "simulator" =>
              /\ RowsOf(Simulated(coll[c].day, coll[c].hash), Source(c), coll[c].day)
              /\ Simulated(coll[c].day, coll[c].hash) \subseteq Offered
         /\ Type[Source(c)] = "duffel" =>
              /\ \A rows \in SUBSET Fares[coll[c].day] : RowsOf(rows, Source(c), coll[c].day)
              /\ Fares[coll[c].day] \subseteq Offered
<1>1. coll[c].rung \in Rungs /\ coll[c].day \in Days /\ coll[c].hash \in Hashes
  BY DEF PlaceInv
<1>2. Source(c) \in DOMAIN Type
  BY <1>1, CollectionAssumption DEF Source, Rungs
<1>3. ASSUME Type[Source(c)] = "simulator"
      PROVE  /\ RowsOf(Simulated(coll[c].day, coll[c].hash), Source(c), coll[c].day)
             /\ Simulated(coll[c].day, coll[c].hash) \subseteq Offered
  BY <1>1, <1>3, CollectionAssumption DEF Source, Rungs, Offered
<1>4. ASSUME Type[Source(c)] = "duffel"
      PROVE  /\ \A rows \in SUBSET Fares[coll[c].day] : RowsOf(rows, Source(c), coll[c].day)
             /\ Fares[coll[c].day] \subseteq Offered
  <2>1. RowsOf(Fares[coll[c].day], Source(c), coll[c].day)
    BY <1>1, <1>4, CollectionAssumption DEF Source, Rungs
  <2>2. \A rows \in SUBSET Fares[coll[c].day] : RowsOf(rows, Source(c), coll[c].day)
    BY <2>1, FS_Subset DEF RowsOf
  <2> QED
    BY <1>1, <2>2 DEF Offered
<1> QED
  BY <1>1, <1>2, <1>3, <1>4

LEMMA NoRows ==
  ASSUME NEW source, NEW day
  PROVE  RowsOf({}, source, day) /\ {} \in SUBSET Offered
  BY FS_EmptySet DEF RowsOf

LEMMA ObtainCases ==
  ASSUME NEW c \in Collectors, PlaceInv(c),
         SkipDisabled(c) \/ Simulate(c) \/ CheckPage(c) \/ AskDuffel(c) \/ SkipLicensed(c)
  PROVE  Obtains(c)
<1>1. ASSUME NEW outcome \in Outcomes, Obtained(c, outcome, {})
      PROVE  Obtains(c)
  BY <1>1, NoRows DEF Obtains
<1>2. ASSUME NEW rows \in SUBSET Offered, Obtained(c, "OK", rows),
             RowsOf(rows, Source(c), coll[c].day)
      PROVE  Obtains(c)
  BY <1>2 DEF Obtains, Outcomes
<1>3. Running(c)
  BY DEF SkipDisabled, Simulate, CheckPage, AskDuffel, SkipLicensed, Obtained, Running
<1>4. CASE SkipDisabled(c) \/ SkipLicensed(c)
  BY <1>1, <1>4 DEF SkipDisabled, SkipLicensed, Outcomes
<1>5. CASE Simulate(c)
  BY <1>2, <1>3, <1>5, SourceOfLadder DEF Simulate
<1>6. CASE CheckPage(c)
  <2>1. PICK robots \in RobotsFiles :
          Obtained(c, IF Verdict(Source(c), robots) = "OK" THEN "ERROR"
                      ELSE Verdict(Source(c), robots), {})
    BY <1>6 DEF CheckPage
  <2>2. Verdict(Source(c), robots) \in Outcomes
    BY DEF Verdict, Outcomes
  <2>3. "ERROR" \in Outcomes
    BY DEF Outcomes
  <2> QED
    BY <1>1, <2>1, <2>2, <2>3
<1>7. CASE AskDuffel(c)
  <2>1. CASE \E rows \in SUBSET Fares[coll[c].day] : Obtained(c, "OK", rows)
    BY <1>2, <1>3, <1>7, <2>1, SourceOfLadder DEF AskDuffel
  <2>2. CASE Obtained(c, "ERROR", {})
    BY <1>1, <2>2 DEF Outcomes
  <2> QED
    BY <1>7, <2>1, <2>2 DEF AskDuffel
<1> QED
  BY <1>4, <1>5, <1>6, <1>7

LEMMA AppendCases ==
  ASSUME TypeOK, ChainInv, NEW c \in Collectors, PlaceInv(c),
         AppendRecord(c) \/ RecordDuffelError(c)
  PROVE  Appends(c)
<1>1. coll[c] \in Processes
  BY DEF TypeOK
<1>2. CASE AppendRecord(c)
  <2>1. coll[c].tip.seq = Cardinality(ledger)
    BY <1>1, <1>2, FreeSeqIsNext DEF AppendRecord, SeqTaken, PlaceInv, Processes
  <2>2. /\ coll[c].tip \in [seq : Nat, hash : Pids \union {Genesis}]
        /\ coll[c].outcome \in Outcomes /\ coll[c].rows \in SUBSET Offered
    BY <1>1 DEF Processes
  <2> QED
    BY <1>2, <2>1, <2>2 DEF AppendRecord, PlaceInv, Appends
<1>3. CASE RecordDuffelError(c)
  <2>1. ledger' = ledger \union {Record(c, Tip, "ERROR", Cardinality({}))}
    BY <1>3, FS_EmptySet DEF RecordDuffelError
  <2>2. "ERROR" \in Outcomes /\ {} \in SUBSET Offered
    BY DEF Outcomes
  <2>3. /\ coll[c].pc = "append" /\ NextRung(c, {}) /\ UNCHANGED quotes
    BY <1>3 DEF RecordDuffelError
  <2>4. RowsOf({}, Source(c), coll[c].day)
    BY NoRows
  <2>5. /\ Tip \in [seq : Nat, hash : Pids \union {Genesis}]
        /\ Tip.seq = Cardinality(ledger) /\ Link(Tip.seq, Tip.hash)
    BY TipLinks
  <2> HIDE DEF Tip
  <2> QED
    BY <2>1, <2>2, <2>3, <2>4, <2>5 DEF Appends
<1> QED
  BY <1>2, <1>3

\* Every step is one of these.
LEMMA StepCases ==
  ASSUME LedgerInv, CollectionNext
  PROVE  \E c \in Collectors : Start(c) \/ Obtains(c) \/ Appends(c) \/ Store(c) \/ Dies(c)
<1>1. PICK c \in Collectors : Start(c) \/ CollectorStep(c) \/ Crash(c)
  BY DEF CollectionNext
<1>2. TypeOK /\ ChainInv /\ PlaceInv(c)
  BY DEF LedgerInv
<1>3. CASE DieOfCollision(c) \/ Crash(c)
  BY <1>3 DEF DieOfCollision, Crash, Dies, Running
<1>4. CASE SkipDisabled(c) \/ Simulate(c) \/ CheckPage(c) \/ AskDuffel(c) \/ SkipLicensed(c)
  BY <1>2, <1>4, ObtainCases
<1>5. CASE AppendRecord(c) \/ RecordDuffelError(c)
  BY <1>2, <1>5, AppendCases
<1> QED
  BY <1>1, <1>3, <1>4, <1>5 DEF CollectorStep

-----------------------------------------------------------------------------
(***************************************************************************)
(* What becomes of the processes.                                          *)
(***************************************************************************)

\* A step of one process leaves the others alone.
LEMMA Alone ==
  ASSUME TypeOK, NEW c \in Collectors, NEW p \in Processes, coll' = [coll EXCEPT ![c] = p]
  PROVE  /\ coll' \in [Collectors -> Processes] /\ coll'[c] = p
         /\ \A d \in Collectors : d # c => coll'[d] = coll[d]
  BY DEF TypeOK

\* A process whose state stays, while others' records are appended.
LEMMA OthersKept ==
  ASSUME NEW c \in Collectors, PlaceInv(c), PassedInv(c), coll'[c] = coll[c],
         ledger \subseteq ledger', \A r \in ledger' \ ledger : r.run # RunOf(c)
  PROVE  PlaceInv(c)' /\ PassedInv(c)' /\ (BatchInv(c) => BatchInv(c)')
<1>1. PlaceInv(c)'
  BY LinkStays DEF PlaceInv, Running, Source
<1>2. PassedInv(c)'
  BY DEF PassedInv, Live, Passed, RunOf
<1>3. ASSUME BatchInv(c)
      PROVE  BatchInv(c)'
  BY <1>3 DEF BatchInv, Running, RunOf
<1> QED
  BY <1>1, <1>2, <1>3

LEMMA IdleIsProcess == Idle \in Processes
  BY FS_EmptySet DEF Idle, Processes, NoTip, Genesis, Outcomes

\* Start.
LEMMA StartFields ==
  ASSUME TypeOK, NEW c \in Collectors, Start(c)
  PROVE  /\ coll' \in [Collectors -> Processes]
         /\ \A d \in Collectors : d # c => coll'[d] = coll[d]
         /\ ~Running(c) /\ coll'[c].pc = "rung" /\ coll'[c].nr = coll[c].nr + 1
         /\ coll'[c].first \in Days /\ coll'[c].day = coll'[c].first /\ coll'[c].last \in Days
         /\ coll'[c].day <= coll'[c].last /\ coll'[c].rung = 1 /\ coll'[c].hash \in Hashes
         /\ coll'[c].batch = {}
<1>1. PICK range \in Ranges[c], env \in Environments, h \in Hashes :
        /\ range[1] <= range[2]
        /\ coll' = [coll EXCEPT ![c] =
             [Idle EXCEPT !.pc = "rung", !.nr = coll[c].nr + 1, !.simulate = env.simulate,
                          !.keyed = env.keyed, !.hash = h,
                          !.first = range[1], !.day = range[1], !.last = range[2]]]
  BY DEF Start
<1>2. range[1] \in Days /\ range[2] \in Days /\ Days \subseteq Nat /\ env.simulate \in BOOLEAN
      /\ env.keyed \in BOOLEAN /\ coll[c].nr + 1 \in Nat
  BY CollectionAssumption DEF TypeOK, Processes
<1>3. PICK nr \in Nat, simulate \in BOOLEAN, keyed \in BOOLEAN, first \in Days, last \in Days :
        /\ nr = coll[c].nr + 1 /\ simulate = env.simulate /\ keyed = env.keyed
        /\ first = range[1] /\ last = range[2]
  BY <1>2, Zenon
<1> DEFINE p == [Idle EXCEPT !.pc = "rung", !.nr = nr, !.simulate = simulate, !.keyed = keyed,
                             !.hash = h, !.first = first, !.day = first, !.last = last]
<1>4. Idle \in Processes /\ Idle.rung = 1 /\ Idle.batch = {}
  BY IdleIsProcess DEF Idle
<1>5. first \in Nat /\ last \in Nat
  BY <1>2
<1>6. p \in Processes
  BY <1>4, <1>5 DEF Processes
<1>7. /\ p.pc = "rung" /\ p.nr = nr /\ p.hash = h /\ p.first = first /\ p.day = first
      /\ p.last = last /\ p.rung = 1 /\ p.batch = {}
  BY <1>4 DEF Processes
<1>8. coll' = [coll EXCEPT ![c] = p]
  BY <1>1, <1>3, Zenon
<1> HIDE DEF p
<1>9. /\ coll' \in [Collectors -> Processes] /\ coll'[c] = p
      /\ \A d \in Collectors : d # c => coll'[d] = coll[d]
  BY <1>6, <1>8, Alone
<1>10. ~Running(c) /\ first <= last
  BY <1>1, <1>3 DEF Start
<1> QED
  BY <1>3, <1>7, <1>9, <1>10

\* An outcome in hand.
LEMMA ObtainFields ==
  ASSUME TypeOK, ChainInv, NEW c \in Collectors, NEW outcome \in Outcomes,
         NEW rows \in SUBSET Offered, Obtained(c, outcome, rows)
  PROVE  /\ coll' \in [Collectors -> Processes]
         /\ \A d \in Collectors : d # c => coll'[d] = coll[d]
         /\ coll[c].pc = "rung" /\ coll'[c].pc = "append"
         /\ coll'[c].tip = Tip /\ coll'[c].outcome = outcome /\ coll'[c].rows = rows
         /\ coll'[c].nr = coll[c].nr /\ coll'[c].hash = coll[c].hash
         /\ coll'[c].first = coll[c].first /\ coll'[c].day = coll[c].day
         /\ coll'[c].last = coll[c].last /\ coll'[c].rung = coll[c].rung
         /\ coll'[c].batch = coll[c].batch
<1> DEFINE p == [coll[c] EXCEPT !.pc = "append", !.tip = Tip, !.outcome = outcome, !.rows = rows]
<1>1. coll[c] \in Processes
  BY DEF TypeOK
<1>2. p \in Processes
  BY <1>1, TipLinks DEF Processes
<1>3. coll' = [coll EXCEPT ![c] = p] /\ coll[c].pc = "rung"
  BY DEF Obtained
<1>4. /\ p.pc = "append" /\ p.tip = Tip /\ p.outcome = outcome /\ p.rows = rows
      /\ p.nr = coll[c].nr /\ p.hash = coll[c].hash
      /\ p.first = coll[c].first /\ p.day = coll[c].day
      /\ p.last = coll[c].last /\ p.rung = coll[c].rung /\ p.batch = coll[c].batch
  BY <1>1 DEF Processes
<1> HIDE DEF p
<1> QED
  BY <1>2, <1>3, <1>4, Alone

\* The next rung.
LEMMA NextRungFields ==
  ASSUME TypeOK, NEW c \in Collectors, NEW rows \in SUBSET Offered, NextRung(c, rows),
         PlaceInv(c), coll[c].pc = "append"
  PROVE  LET stamped == {[offer |-> o, pid |-> <<RunOf(c), coll[c].day, coll[c].rung>>] : o \in rows}
         IN  /\ coll' \in [Collectors -> Processes]
             /\ \A d \in Collectors : d # c => coll'[d] = coll[d]
             /\ IF coll[c].rung = Len(Ladder)
                THEN coll'[c].pc = "store" /\ coll'[c].rung = 1
                ELSE coll'[c].pc = "rung" /\ coll'[c].rung = coll[c].rung + 1
             /\ coll'[c].nr = coll[c].nr /\ coll'[c].hash = coll[c].hash
             /\ coll'[c].first = coll[c].first /\ coll'[c].day = coll[c].day
             /\ coll'[c].last = coll[c].last
             /\ coll'[c].batch = coll[c].batch \union stamped
<1> DEFINE stamped == {[offer |-> o, pid |-> <<RunOf(c), coll[c].day, coll[c].rung>>] : o \in rows}
           p(pc, rung) == [coll[c] EXCEPT !.pc = pc, !.rung = rung,
                                          !.batch = coll[c].batch \union stamped,
                                          !.tip = NoTip, !.rows = {}, !.outcome = ""]
<1>1. coll[c] \in Processes /\ coll[c].rung \in Nat /\ coll[c].batch \in SUBSET Batches
  BY DEF TypeOK, Processes
<1>2. PICK pc \in {"store", "rung"}, rung \in Nat :
      /\ IF coll[c].rung = Len(Ladder) THEN pc = "store" /\ rung = 1
         ELSE pc = "rung" /\ rung = coll[c].rung + 1
      /\ coll' = [coll EXCEPT ![c] = p(pc, rung)]
  <2>1. CASE coll[c].rung = Len(Ladder)
    <3>1. coll' = [coll EXCEPT ![c] = p("store", 1)]
      BY <2>1 DEF NextRung
    <3> QED
      BY <2>1, <3>1
  <2>2. CASE coll[c].rung # Len(Ladder)
    <3>1. coll' = [coll EXCEPT ![c] = p("rung", coll[c].rung + 1)]
      BY <2>2 DEF NextRung
    <3>2. coll[c].rung + 1 \in Nat
      BY <1>1
    <3> HIDE DEF p
    <3> QED
      BY <2>2, <3>1, <3>2
  <2> QED
    BY <2>1, <2>2
<1>3. stamped \subseteq Batches
  <2>1. <<RunOf(c), coll[c].day, coll[c].rung>> \in Pids
    BY DEF TypeOK, Processes, Pids, RunOf
  <2> QED
    BY <2>1 DEF Batches
<1> HIDE DEF stamped
<1>4. p(pc, rung) \in Processes
  <2>1. NoTip \in [seq : Nat, hash : Pids \union {Genesis}] /\ "" \in Outcomes
    BY DEF NoTip, Genesis, Outcomes
  <2> QED
    BY <1>1, <1>3, <2>1 DEF Processes
<1> DEFINE n == p(pc, rung)
<1>5. /\ n.pc = pc /\ n.rung = rung
      /\ n.nr = coll[c].nr /\ n.hash = coll[c].hash /\ n.first = coll[c].first
      /\ n.day = coll[c].day /\ n.last = coll[c].last /\ n.batch = coll[c].batch \union stamped
  BY <1>1 DEF Processes
<1> HIDE DEF p
<1> QED
  BY <1>2, <1>4, <1>5, Alone DEF stamped

\* The end of a day.
LEMMA StoreFields ==
  ASSUME TypeOK, NEW c \in Collectors, Store(c)
  PROVE  /\ coll' \in [Collectors -> Processes]
         /\ \A d \in Collectors : d # c => coll'[d] = coll[d]
         /\ coll[c].pc = "store" /\ coll'[c].batch = {}
         /\ coll'[c].nr = coll[c].nr /\ coll'[c].hash = coll[c].hash
         /\ coll'[c].first = coll[c].first /\ coll'[c].last = coll[c].last
         /\ coll'[c].rung = coll[c].rung
         /\ IF coll[c].day < coll[c].last
            THEN coll'[c].pc = "rung" /\ coll'[c].day = coll[c].day + 1
            ELSE coll'[c].pc \in {"done", "refused"} /\ coll'[c].day = coll[c].day
<1>0. coll[c] \in Processes /\ coll[c].day + 1 \in Nat
  BY DEF TypeOK, Processes
<1>1. PICK day \in Nat : day = coll[c].day + 1 /\ coll[c] \in Processes
  BY <1>0
<1> DEFINE p(stored) == [coll[c] EXCEPT !.pc = "rung", !.day = day, !.batch = {},
                                        !.stored = stored]
           q(stored, pc) == [coll[c] EXCEPT !.pc = pc, !.batch = {}, !.stored = stored]
<1>2. PICK stored \in BOOLEAN, pc \in {"done", "refused"} :
      /\ coll[c].pc = "store"
      /\ coll[c].day < coll[c].last => coll' = [coll EXCEPT ![c] = p(stored)]
      /\ ~(coll[c].day < coll[c].last) => coll' = [coll EXCEPT ![c] = q(stored, pc)]
  <2> DEFINE stored == coll[c].stored \/ Inserted(c) # {}
             pc == IF stored THEN "done" ELSE "refused"
  <2>1. stored \in BOOLEAN /\ pc \in {"done", "refused"}
    OBVIOUS
  <2>2. /\ coll[c].pc = "store"
        /\ coll[c].day < coll[c].last => coll' = [coll EXCEPT ![c] = p(stored)]
        /\ ~(coll[c].day < coll[c].last) => coll' = [coll EXCEPT ![c] = q(stored, pc)]
    BY <1>1, Zenon DEF Store
  <2> HIDE DEF stored, pc, p, q
  <2> QED
    BY <2>1, <2>2, Zenon
<1>3. p(stored) \in Processes /\ q(stored, pc) \in Processes
  <2>1. p(stored) \in Processes
    BY <1>1 DEF Processes
  <2>2. q(stored, pc) \in Processes
    BY <1>1 DEF Processes
  <2> QED
    BY <2>1, <2>2
<1>4. /\ p(stored).pc = "rung" /\ p(stored).day = coll[c].day + 1 /\ p(stored).batch = {}
      /\ p(stored).nr = coll[c].nr /\ p(stored).hash = coll[c].hash
      /\ p(stored).first = coll[c].first /\ p(stored).last = coll[c].last /\ p(stored).rung = coll[c].rung
  BY <1>1 DEF Processes
<1>5. /\ q(stored, pc).pc \in {"done", "refused"} /\ q(stored, pc).day = coll[c].day /\ q(stored, pc).batch = {}
      /\ q(stored, pc).nr = coll[c].nr /\ q(stored, pc).hash = coll[c].hash
      /\ q(stored, pc).first = coll[c].first /\ q(stored, pc).last = coll[c].last /\ q(stored, pc).rung = coll[c].rung
  BY <1>1 DEF Processes
<1> HIDE DEF p, q
<1> QED
  BY <1>2, <1>3, <1>4, <1>5, Alone

\* Death.
LEMMA DiesFields ==
  ASSUME TypeOK, NEW c \in Collectors, Dies(c)
  PROVE  /\ coll' \in [Collectors -> Processes]
         /\ \A d \in Collectors : d # c => coll'[d] = coll[d]
         /\ coll'[c].pc = "died" /\ coll'[c].nr = coll[c].nr /\ coll'[c].batch = {}
<1> DEFINE p == [Idle EXCEPT !.pc = "died", !.nr = coll[c].nr]
<1>1. coll[c].nr \in Nat
  BY DEF TypeOK, Processes
<1>2. p \in Processes
  BY <1>1, IdleIsProcess DEF Processes
<1>3. coll' = [coll EXCEPT ![c] = p]
  BY DEF Dies, Ended
<1>4. p.pc = "died" /\ p.nr = coll[c].nr /\ p.batch = {}
  BY DEF Idle
<1> HIDE DEF p
<1> QED
  BY <1>2, <1>3, <1>4, Alone

-----------------------------------------------------------------------------
(***************************************************************************)
(* The ledger.                                                             *)
(***************************************************************************)
LEMMA InitLedger == CollectionInit => LedgerInv
<1> SUFFICES ASSUME CollectionInit PROVE LedgerInv
  OBVIOUS
<1>1. TypeOK
  BY IdleIsProcess, FS_EmptySet DEF CollectionInit, TypeOK
<1>2. ChainInv
  BY FS_EmptySet DEF CollectionInit, ChainInv
<1>3. \A c \in Collectors : PlaceInv(c) /\ PassedInv(c)
  BY DEF CollectionInit, Idle, PlaceInv, PassedInv, Live, Running
<1> QED
  BY <1>1, <1>2, <1>3 DEF LedgerInv

\* A new run has nothing behind it, and nothing is in its name.
LEMMA StartLedger ==
  ASSUME LedgerInv, NEW c \in Collectors, Start(c)
  PROVE  LedgerInv'
<1>1. /\ TypeOK /\ ChainInv /\ ledger' = ledger
      /\ \A d \in Collectors : PlaceInv(d) /\ PassedInv(d) /\ coll[d].nr \in Nat
  BY DEF LedgerInv, Start, TypeOK, Processes
<1>2. TypeOK'
  BY <1>1, StartFields DEF TypeOK
<1>3. ChainInv'
  <2>1. \A d \in Collectors : coll'[d].nr \in Nat /\ coll[d].nr <= coll'[d].nr
    BY <1>1, StartFields
  <2> QED
    BY <1>1, <2>1, ChainStays
<1>4. PlaceInv(c)'
  <2>1. 1 \in Rungs
    BY RungsAre
  <2> QED
    BY <1>1, <2>1, StartFields DEF PlaceInv, Running
<1>5. PassedInv(c)'
  <2>1. \A r \in ledger : r.run # RunOf(c)'
    BY <1>1, StartFields DEF ChainInv, RunOf, TypeOK, Records
  <2>2. \A d \in coll'[c].first..coll'[c].last, i \in Rungs : ~Passed(c, d, i)'
    <3>1. coll'[c].first \in Nat /\ coll'[c].day = coll'[c].first /\ coll'[c].last \in Nat
          /\ coll'[c].rung = 1 /\ coll'[c].pc = "rung" /\ Rungs \subseteq Nat \ {0}
      BY <1>1, StartFields, RungsAre, CollectionAssumption
    <3>2. ASSUME NEW d \in coll'[c].first..coll'[c].last, NEW i \in Rungs
          PROVE  ~Passed(c, d, i)'
      <4>1. d \in Nat /\ ~(d < coll'[c].day) /\ i \in Nat /\ ~(i < coll'[c].rung)
        BY <3>1
      <4> QED
        BY <3>1, <4>1 DEF Passed
    <3> QED
      BY <3>2
  <2> QED
    BY <1>1, <2>1, <2>2 DEF PassedInv
<1>6. ASSUME NEW d \in Collectors, d # c
      PROVE  PlaceInv(d)' /\ PassedInv(d)'
  BY <1>1, <1>6, StartFields, OthersKept
<1> QED
  BY <1>2, <1>3, <1>4, <1>5, <1>6 DEF LedgerInv

\* An outcome in hand: the tip is a link of the chain.
LEMMA ObtainLedger ==
  ASSUME LedgerInv, NEW c \in Collectors, Obtains(c)
  PROVE  LedgerInv'
<1>1. PICK outcome \in Outcomes, rows \in SUBSET Offered :
        /\ RowsOf(rows, Source(c), coll[c].day) /\ (rows # {} => outcome = "OK")
        /\ Obtained(c, outcome, rows)
  BY DEF Obtains
<1>2. /\ TypeOK /\ ChainInv /\ ledger' = ledger
      /\ \A d \in Collectors : PlaceInv(d) /\ PassedInv(d) /\ coll[d].nr \in Nat
  BY <1>1 DEF LedgerInv, Obtained, TypeOK, Processes
<1>3. TypeOK'
  BY <1>1, <1>2, ObtainFields DEF TypeOK
<1>4. ChainInv'
  <2>1. \A d \in Collectors : coll'[d].nr \in Nat /\ coll[d].nr <= coll'[d].nr
    BY <1>1, <1>2, ObtainFields
  <2> QED
    BY <1>2, <2>1, ChainStays
<1>5. PlaceInv(c)'
  <2>1. Link(coll[c].tip.seq, coll[c].tip.hash)'
    <3>1. Link(Tip.seq, Tip.hash)
      BY <1>2, TipLinks
    <3>2. coll'[c].tip = Tip
      BY <1>1, <1>2, ObtainFields
    <3> HIDE DEF Tip
    <3> QED
      BY <1>2, <3>1, <3>2 DEF Link
  <2>2. RowsOf(coll'[c].rows, Source(c)', coll'[c].day)
    BY <1>1, <1>2, ObtainFields DEF Source
  <2>3. coll'[c].rows # {} => coll'[c].outcome = "OK"
    BY <1>1, <1>2, ObtainFields
  <2>4. coll'[c].pc = "append" /\ Running(c)
    BY <1>1, <1>2, ObtainFields DEF Running
  <2>5. /\ coll'[c].day \in Days /\ coll'[c].last \in Days /\ coll'[c].day <= coll'[c].last
        /\ coll'[c].rung \in Rungs /\ coll'[c].hash \in Hashes
    BY <1>1, <1>2, <2>4, ObtainFields DEF PlaceInv
  <2> QED
    BY <2>1, <2>2, <2>3, <2>4, <2>5 DEF PlaceInv
<1>6. PassedInv(c)'
  BY <1>1, <1>2, ObtainFields DEF PassedInv, Live, Passed, RunOf
<1>7. ASSUME NEW d \in Collectors, d # c
      PROVE  PlaceInv(d)' /\ PassedInv(d)'
  BY <1>1, <1>2, <1>7, ObtainFields, OthersKept
<1> QED
  BY <1>3, <1>4, <1>5, <1>6, <1>7 DEF LedgerInv

\* The record that is appended.
LEMMA NewRecord ==
  ASSUME LedgerInv, NEW c \in Collectors, coll[c].pc = "append",
         NEW tip \in [seq : Nat, hash : Pids \union {Genesis}], NEW outcome \in Outcomes,
         NEW n \in Nat
  PROVE  LET rec == Record(c, tip, outcome, n)
         IN  /\ rec \in Records /\ rec.seq = tip.seq + 1 /\ rec.prev = tip.hash
             /\ rec.run = RunOf(c) /\ rec.day = coll[c].day /\ rec.rung = coll[c].rung
             /\ rec.source = Source(c) /\ rec.outcome = outcome /\ rec.n = n
             /\ HashOf(rec) = <<RunOf(c), coll[c].day, coll[c].rung>>
             /\ \A r \in ledger : HashOf(r) # HashOf(rec)
<1>1. /\ coll[c] \in Processes /\ PlaceInv(c) /\ PassedInv(c) /\ Running(c) /\ Live(c)
  BY DEF LedgerInv, TypeOK, Running, Live
<1>2. /\ Source(c) \in DOMAIN Type /\ RunOf(c) \in Collectors \X Nat
      /\ coll[c].day \in Nat /\ coll[c].rung \in Nat
  BY <1>1, SourceOfLadder DEF Processes, RunOf
<1> DEFINE rec == Record(c, tip, outcome, n)
<1>3. /\ rec \in Records /\ rec.seq = tip.seq + 1 /\ rec.prev = tip.hash
      /\ rec.run = RunOf(c) /\ rec.day = coll[c].day /\ rec.rung = coll[c].rung
      /\ rec.source = Source(c) /\ rec.outcome = outcome /\ rec.n = n
      /\ HashOf(rec) = <<RunOf(c), coll[c].day, coll[c].rung>>
  BY <1>2 DEF Record, Records, HashOf
<1>4. ~Passed(c, coll[c].day, coll[c].rung)
  BY <1>2 DEF Passed
<1>5. \A r \in ledger : HashOf(r) # <<RunOf(c), coll[c].day, coll[c].rung>>
  BY <1>1, <1>4 DEF HashOf, PassedInv
<1> HIDE DEF rec
<1> QED
  BY <1>3, <1>5 DEF rec

LEMMA AppendLedger ==
  ASSUME LedgerInv, NEW c \in Collectors, Appends(c)
  PROVE  LedgerInv'
<1>1. PICK tip \in [seq : Nat, hash : Pids \union {Genesis}], outcome \in Outcomes,
           rows \in SUBSET Offered :
        /\ coll[c].pc = "append"
        /\ tip.seq = Cardinality(ledger) /\ Link(tip.seq, tip.hash)
        /\ RowsOf(rows, Source(c), coll[c].day)
        /\ ledger' = ledger \union {Record(c, tip, outcome, Cardinality(rows))}
        /\ NextRung(c, rows)
  BY DEF Appends
<1> DEFINE old == coll[c]
           new == coll'[c]
<1>2. /\ TypeOK /\ ChainInv /\ PlaceInv(c) /\ PassedInv(c) /\ Running(c) /\ Live(c)
      /\ \A d \in Collectors : PlaceInv(d) /\ PassedInv(d)
      /\ old.nr \in Nat /\ old.day \in Nat /\ old.rung \in Rungs
  BY <1>1 DEF LedgerInv, TypeOK, Processes, Running, Live, PlaceInv
<1>3. Rungs = 1..Len(Ladder) /\ Len(Ladder) \in Nat
  BY RungsAre
<1>4. PICK rec \in Records :
      /\ rec = Record(c, tip, outcome, Cardinality(rows))
      /\ rec.seq = tip.seq + 1 /\ rec.prev = tip.hash /\ rec.run = RunOf(c)
      /\ rec.day = old.day /\ rec.rung = old.rung
      /\ HashOf(rec) = <<RunOf(c), old.day, old.rung>>
      /\ \A r \in ledger : HashOf(r) # HashOf(rec)
  <2>1. Cardinality(rows) \in Nat
    BY <1>1, FS_CardinalityType DEF RowsOf
  <2> QED
    BY <1>1, <2>1, NewRecord
<1>5. ledger' = ledger \union {rec}
  BY <1>1, <1>4
<1>6. /\ coll' \in [Collectors -> Processes]
      /\ \A d \in Collectors : d # c => coll'[d] = coll[d]
      /\ old.rung = Len(Ladder) => new.pc = "store" /\ new.rung = 1
      /\ old.rung # Len(Ladder) => new.pc = "rung" /\ new.rung = old.rung + 1
      /\ new.nr = old.nr /\ new.hash = old.hash /\ new.first = old.first
      /\ new.day = old.day /\ new.last = old.last
  BY <1>1, <1>2, NextRungFields
<1>7. TypeOK' /\ ChainInv'
  <2>1. \A d \in Collectors : coll'[d].nr = coll[d].nr
    BY <1>6
  <2>2. rec.run[2] <= coll[rec.run[1]].nr
    BY <1>2, <1>4 DEF RunOf
  <2>3. Link(Cardinality(ledger), rec.prev) /\ rec.seq = Cardinality(ledger) + 1
    BY <1>1, <1>4
  <2> QED
    BY <1>2, <1>4, <1>5, <1>6, <2>1, <2>2, <2>3, ChainGrows DEF TypeOK
<1>8. PlaceInv(c)'
  <2>1. new.rung \in Rungs
    BY <1>2, <1>3, <1>6
  <2>2. new.pc \in {"rung", "store"} /\ (new.pc = "store" => new.rung = 1)
    BY <1>6
  <2> QED
    BY <1>2, <1>6, <2>1, <2>2 DEF PlaceInv
<1>9. PassedInv(c)'
  <2>1. \A d \in Nat, i \in Rungs :
          Passed(c, d, i)' <=> Passed(c, d, i) \/ (d = old.day /\ i = old.rung)
    <3>1. CASE old.rung = Len(Ladder)
      BY <1>1, <1>2, <1>3, <1>6, <3>1 DEF Passed
    <3>2. CASE old.rung # Len(Ladder)
      BY <1>1, <1>2, <1>3, <1>6, <3>2 DEF Passed
    <3> QED
      BY <3>1, <3>2
  <2>2. \A d \in Nat, i \in Nat : Passed(c, d, i) => Passed(c, d, i)'
    BY <1>1, <1>2, <1>3, <1>6 DEF Passed
  <2>3. RunOf(c)' = RunOf(c)
    BY <1>6 DEF RunOf
  <2>4. \A r \in ledger' : r.run = RunOf(c)' => Passed(c, r.day, r.rung)'
    <3>1. \A r \in ledger : r.run = RunOf(c) => Passed(c, r.day, r.rung)
      BY <1>2 DEF PassedInv
    <3>2. \A r \in ledger : r.day \in Nat /\ r.rung \in Nat
      BY <1>2 DEF TypeOK, Records
    <3>3. Passed(c, rec.day, rec.rung)'
      BY <1>2, <1>4, <2>1
    <3> QED
      BY <1>5, <2>2, <2>3, <3>1, <3>2, <3>3
  <2>5. ASSUME NEW d \in new.first..new.last, NEW i \in Rungs, Passed(c, d, i)'
        PROVE  \E r \in ledger' : HashOf(r) = <<RunOf(c), d, i>>
    <3>0. d \in Nat /\ d \in old.first..old.last
      BY <1>2, <1>6 DEF TypeOK, Processes
    <3>1. CASE Passed(c, d, i)
      <4>1. \E r \in ledger : HashOf(r) = <<RunOf(c), d, i>>
        BY <1>2, <3>0, <3>1 DEF PassedInv
      <4> QED
        BY <1>5, <4>1
    <3>2. CASE d = old.day /\ i = old.rung
      BY <1>4, <1>5, <3>2
    <3> QED
      BY <2>1, <2>5, <3>0, <3>1, <3>2
  <2> QED
    BY <2>3, <2>4, <2>5 DEF PassedInv
<1>10. ASSUME NEW d \in Collectors, d # c
       PROVE  PlaceInv(d)' /\ PassedInv(d)'
  <2>1. rec.run # RunOf(d)
    BY <1>4, <1>10 DEF RunOf
  <2> QED
    BY <1>2, <1>5, <1>6, <1>10, <2>1, OthersKept
<1> QED
  BY <1>7, <1>8, <1>9, <1>10 DEF LedgerInv

LEMMA StoreLedger ==
  ASSUME LedgerInv, NEW c \in Collectors, Store(c)
  PROVE  LedgerInv'
<1> DEFINE old == coll[c]
           new == coll'[c]
<1>1. /\ TypeOK /\ ChainInv /\ ledger' = ledger /\ Running(c) /\ Live(c)
      /\ \A d \in Collectors : PlaceInv(d) /\ PassedInv(d) /\ coll[d].nr \in Nat
      /\ old.day \in Days /\ old.last \in Days /\ old.rung = 1 /\ old.rung \in Rungs
      /\ old.hash \in Hashes /\ old.pc = "store"
  BY DEF LedgerInv, Store, TypeOK, Processes, PlaceInv, Running, Live
<1>2. /\ Days \subseteq Nat /\ (\A d \in Days : 1..d \subseteq Days) /\ Rungs \subseteq Nat \ {0}
      /\ old.day \in Nat /\ old.last \in Nat
  BY <1>1, RungsAre, CollectionAssumption
<1>3. /\ coll' \in [Collectors -> Processes]
      /\ \A d \in Collectors : d # c => coll'[d] = coll[d]
      /\ new.nr = old.nr /\ new.hash = old.hash /\ new.first = old.first /\ new.last = old.last
      /\ new.rung = old.rung
      /\ old.day < old.last => new.pc = "rung" /\ new.day = old.day + 1
      /\ ~(old.day < old.last) => new.pc \in {"done", "refused"} /\ new.day = old.day
  BY <1>1, StoreFields
<1>4. TypeOK'
  BY <1>1, <1>3 DEF TypeOK
<1>5. ChainInv'
  <2>1. \A d \in Collectors : coll'[d].nr \in Nat /\ coll[d].nr <= coll'[d].nr
    BY <1>1, <1>3
  <2> QED
    BY <1>1, <2>1, ChainStays
<1>6. PlaceInv(c)'
  <2>1. CASE old.day < old.last
    <3>1. old.day + 1 \in 1..old.last
      BY <1>1, <1>2, <2>1
    <3>2. new.day \in Days /\ new.day <= new.last
      BY <1>1, <1>2, <1>3, <2>1, <3>1
    <3> QED
      BY <1>1, <1>3, <2>1, <3>2 DEF PlaceInv
  <2>2. CASE ~(old.day < old.last)
    BY <1>3, <2>2 DEF PlaceInv, Running
  <2> QED
    BY <2>1, <2>2
<1>7. PassedInv(c)'
  <2>1. \A d \in Nat, i \in Rungs : Passed(c, d, i)' <=> Passed(c, d, i)
    <3>1. CASE old.day < old.last
      BY <1>1, <1>2, <1>3, <3>1 DEF Passed
    <3>2. CASE ~(old.day < old.last)
      BY <1>1, <1>2, <1>3, <3>2 DEF Passed
    <3> QED
      BY <3>1, <3>2
  <2>2. \A r \in ledger : r.day \in Nat
    BY <1>1 DEF TypeOK, Records
  <2>3. \A d \in Nat, i \in Nat : Passed(c, d, i) => Passed(c, d, i)'
    <3>1. CASE old.day < old.last
      BY <1>1, <1>2, <1>3, <3>1 DEF Passed
    <3>2. CASE ~(old.day < old.last)
      BY <1>1, <1>2, <1>3, <3>2 DEF Passed
    <3> QED
      BY <3>1, <3>2
  <2>4. \A r \in ledger : r.rung \in Nat
    BY <1>1 DEF TypeOK, Records
  <2>5. \A r \in ledger : r.run = RunOf(c) => Passed(c, r.day, r.rung)'
    BY <1>1, <2>2, <2>3, <2>4 DEF PassedInv
  <2>6. RunOf(c)' = RunOf(c) /\ new.first..new.last = old.first..old.last
    BY <1>3 DEF RunOf
  <2>7. \A d \in old.first..old.last, i \in Rungs :
          Passed(c, d, i)' => \E r \in ledger : HashOf(r) = <<RunOf(c), d, i>>
    <3>1. \A d \in old.first..old.last : d \in Nat
      BY <1>1 DEF TypeOK, Processes
    <3> QED
      BY <1>1, <2>1, <3>1 DEF PassedInv
  <2> QED
    BY <1>1, <2>5, <2>6, <2>7 DEF PassedInv
<1>8. ASSUME NEW d \in Collectors, d # c
      PROVE  PlaceInv(d)' /\ PassedInv(d)'
  BY <1>1, <1>3, <1>8, OthersKept
<1> QED
  BY <1>4, <1>5, <1>6, <1>7, <1>8 DEF LedgerInv

LEMMA DiesLedger ==
  ASSUME LedgerInv, NEW c \in Collectors, Dies(c)
  PROVE  LedgerInv'
<1>1. /\ TypeOK /\ ChainInv /\ ledger' = ledger
      /\ \A d \in Collectors : PlaceInv(d) /\ PassedInv(d) /\ coll[d].nr \in Nat
  BY DEF LedgerInv, Dies, TypeOK, Processes
<1>2. TypeOK'
  BY <1>1, DiesFields DEF TypeOK
<1>3. ChainInv'
  <2>1. \A d \in Collectors : coll'[d].nr \in Nat /\ coll[d].nr <= coll'[d].nr
    BY <1>1, DiesFields
  <2> QED
    BY <1>1, <2>1, ChainStays
<1>4. PlaceInv(c)' /\ PassedInv(c)'
  BY <1>1, DiesFields DEF PlaceInv, PassedInv, Running, Live
<1>5. ASSUME NEW d \in Collectors, d # c
      PROVE  PlaceInv(d)' /\ PassedInv(d)'
  BY <1>1, <1>5, DiesFields, OthersKept
<1> QED
  BY <1>2, <1>3, <1>4, <1>5 DEF LedgerInv

LEMMA NextLedger == LedgerInv /\ [CollectionNext]_collectionVars => LedgerInv'
<1>1. ASSUME LedgerInv, CollectionNext
      PROVE  LedgerInv'
  BY <1>1, StepCases, StartLedger, ObtainLedger, AppendLedger, StoreLedger, DiesLedger
<1>2. ASSUME LedgerInv, UNCHANGED collectionVars
      PROVE  LedgerInv'
  <2>1. ledger' = ledger /\ coll' = coll
    BY <1>2 DEF collectionVars
  <2>2. TypeOK' /\ ChainInv'
    BY <1>2, <2>1 DEF LedgerInv, TypeOK, ChainInv, Link
  <2>3. \A c \in Collectors : PlaceInv(c)' /\ PassedInv(c)'
    BY <1>2, <2>1, OthersKept DEF LedgerInv
  <2> QED
    BY <2>2, <2>3 DEF LedgerInv
<1> QED
  BY <1>1, <1>2

LEMMA LedgerIsHonest == LedgerInv => LedgerHonest
<1> SUFFICES ASSUME LedgerInv PROVE LedgerHonest
  OBVIOUS
<1>1. TypeOK /\ ChainInv /\ \A c \in Collectors : PassedInv(c)
  BY DEF LedgerInv
<1>2. Intact(ledger)
  <2> SUFFICES ASSUME NEW r \in ledger
               PROVE  /\ r.seq \in 1..Cardinality(ledger)
                      /\ \A s \in ledger : s.seq = r.seq => s = r
                      /\ r.prev = IF r.seq = 1 THEN Genesis
                                  ELSE HashOf(CHOOSE s \in ledger : s.seq = r.seq - 1)
    BY DEF Intact
  <2>1. r.seq \in 1..Cardinality(ledger) /\ Cardinality(ledger) \in Nat /\ Link(r.seq - 1, r.prev)
    BY <1>1, FS_CardinalityType DEF TypeOK, ChainInv
  <2>2. CASE r.seq = 1
    <3>1. \A s \in ledger : s.seq # 0
      BY <1>1 DEF ChainInv
    <3> QED
      BY <1>1, <2>1, <2>2, <3>1 DEF Link, ChainInv
  <2>3. CASE r.seq # 1
    <3>1. PICK s \in ledger : s.seq = r.seq - 1 /\ HashOf(s) = r.prev
      BY <2>1, <2>3 DEF Link
    <3>2. \A t \in ledger : t.seq = r.seq - 1 => t = s
      BY <1>1, <3>1 DEF ChainInv
    <3>3. (CHOOSE t \in ledger : t.seq = r.seq - 1) = s
      BY <3>1, <3>2
    <3> QED
      BY <1>1, <2>1, <2>3, <3>1, <3>3 DEF ChainInv
  <2> QED
    BY <2>2, <2>3
<1>3. ASSUME NEW c \in Collectors, coll[c].pc \in {"rung", "append", "store", "done", "refused"},
             NEW d \in DaysDone(c), NEW i \in Rungs
      PROVE  Cardinality({r \in ledger : HashOf(r) = <<RunOf(c), d, i>>}) = 1
  <2>1. Passed(c, d, i) /\ d \in coll[c].first..coll[c].last
    BY DEF DaysDone, Passed
  <2>2. PICK r \in ledger : HashOf(r) = <<RunOf(c), d, i>>
    BY <1>1, <1>3, <2>1 DEF PassedInv, Live
  <2>3. {s \in ledger : HashOf(s) = <<RunOf(c), d, i>>} = {r}
    BY <1>1, <2>2 DEF ChainInv
  <2> QED
    BY <2>3, FS_Singleton
<1> QED
  BY <1>2, <1>3 DEF LedgerHonest

\* However many processes race for the ledger's tip and die on the way, the
\* chain verifies, and a run holds one record of each rung it has passed.
THEOREM LedgerAlwaysHonest == CollectionSpec => []LedgerHonest
<1> QED
  BY InitLedger, NextLedger, LedgerIsHonest, PTL DEF CollectionSpec

-----------------------------------------------------------------------------
(***************************************************************************)
(* The quotes.                                                             *)
(***************************************************************************)

\* What is made of the members of a finite set is no more than they are.
LEMMA MadeOf ==
  ASSUME NEW S, IsFiniteSet(S), NEW f, f = [x \in S |-> f[x]],
         NEW T, \A t \in T : \E x \in S : t = f[x]
  PROVE  IsFiniteSet(T) /\ Cardinality(T) <= Cardinality(S)
<1> DEFINE image == {f[x] : x \in S}
<1>1. f \in Surjection(S, image)
  BY DEF Surjection
<1>2. IsFiniteSet(image) /\ Cardinality(image) <= Cardinality(S)
  BY <1>1, FS_Surjection
<1>3. T \in SUBSET image
  OBVIOUS
<1> HIDE DEF image
<1>4. IsFiniteSet(T) /\ Cardinality(T) <= Cardinality(image)
  BY <1>2, <1>3, FS_Subset
<1>5. Cardinality(S) \in Nat /\ Cardinality(image) \in Nat /\ Cardinality(T) \in Nat
  BY <1>2, <1>4, FS_CardinalityType
<1> QED
  BY <1>2, <1>4, <1>5

\* While no quote is stored, the quotes stay traced.
LEMMA TracedStays ==
  ASSUME QuotesTraced, ledger \subseteq ledger', quotes' = quotes
  PROVE  QuotesTraced'
  BY DEF QuotesTraced

LEMMA InitQuotes == CollectionInit => QuotesInv
<1> SUFFICES ASSUME CollectionInit PROVE QuotesInv
  OBVIOUS
<1>1. \A c \in Collectors : BatchInv(c)
  BY FS_EmptySet DEF CollectionInit, BatchInv, Idle
<1>2. QuotesTraced /\ StoredInv
  BY DEF CollectionInit, QuotesTraced, StoredInv
<1> QED
  BY <1>1, <1>2 DEF QuotesInv

\* A new run: nothing has been stored in its name.
LEMMA StartQuotes ==
  ASSUME LedgerInv, QuotesInv, NEW c \in Collectors, Start(c)
  PROVE  QuotesInv'
<1>1. /\ TypeOK /\ ChainInv /\ ledger' = ledger /\ quotes' = quotes /\ coll[c].nr \in Nat
      /\ \A d \in Collectors : PlaceInv(d) /\ PassedInv(d) /\ BatchInv(d)
      /\ QuotesTraced /\ StoredInv
  BY DEF LedgerInv, QuotesInv, Start, TypeOK, Processes
<1>2. /\ \A d \in Collectors : d # c => coll'[d] = coll[d]
      /\ coll'[c].pc = "rung" /\ coll'[c].nr = coll[c].nr + 1 /\ coll'[c].batch = {}
  BY <1>1, StartFields
<1>3. BatchInv(c)'
  BY <1>2, FS_EmptySet DEF BatchInv, Running
<1>4. ASSUME NEW d \in Collectors, d # c
      PROVE  BatchInv(d)'
  BY <1>1, <1>2, <1>4, OthersKept
<1>5. QuotesTraced'
  BY <1>1, TracedStays
<1>6. StoredInv'
  <2>1. ASSUME NEW q \in quotes
        PROVE  q.pid[1] # RunOf(c)'
    <3>1. PICK r \in ledger : HashOf(r) = q.pid
      BY <1>1 DEF QuotesTraced
    <3>2. q.pid[1] = r.run
      BY <3>1 DEF HashOf
    <3>3. r.run[1] \in Collectors /\ r.run[2] \in Nat /\ r.run[2] <= coll[r.run[1]].nr
      BY <1>1 DEF TypeOK, Records, ChainInv
    <3> QED
      BY <1>1, <1>2, <3>2, <3>3 DEF RunOf
  <2>2. ASSUME NEW q \in quotes, NEW d \in Collectors, d # c, Running(d)', q.pid[1] = RunOf(d)'
        PROVE  q.pid[2] < coll'[d].day
    BY <1>1, <1>2, <2>2 DEF StoredInv, Running, RunOf
  <2> QED
    BY <1>1, <2>1, <2>2 DEF StoredInv
<1> QED
  BY <1>3, <1>4, <1>5, <1>6 DEF QuotesInv

LEMMA ObtainQuotes ==
  ASSUME LedgerInv, QuotesInv, NEW c \in Collectors, Obtains(c)
  PROVE  QuotesInv'
<1>1. PICK outcome \in Outcomes, rows \in SUBSET Offered : Obtained(c, outcome, rows)
  BY DEF Obtains
<1>2. /\ TypeOK /\ ChainInv /\ ledger' = ledger /\ quotes' = quotes
      /\ \A d \in Collectors : PlaceInv(d) /\ PassedInv(d) /\ BatchInv(d)
      /\ QuotesTraced /\ StoredInv
  BY <1>1 DEF LedgerInv, QuotesInv, Obtained
<1>3. /\ \A d \in Collectors : d # c => coll'[d] = coll[d]
      /\ coll[c].pc = "rung" /\ coll'[c].pc = "append" /\ coll'[c].nr = coll[c].nr
      /\ coll'[c].day = coll[c].day /\ coll'[c].batch = coll[c].batch
  BY <1>1, <1>2, ObtainFields
<1>4. BatchInv(c)'
  BY <1>2, <1>3 DEF BatchInv, Running, RunOf
<1>5. ASSUME NEW d \in Collectors, d # c
      PROVE  BatchInv(d)'
  BY <1>2, <1>3, <1>5, OthersKept
<1>6. QuotesTraced'
  BY <1>2, TracedStays
<1>7. StoredInv'
  BY <1>2, <1>3 DEF StoredInv, Running, RunOf
<1> QED
  BY <1>4, <1>5, <1>6, <1>7 DEF QuotesInv

\* The record that is appended counts the rows that take its id.
LEMMA AppendQuotes ==
  ASSUME LedgerInv, QuotesInv, NEW c \in Collectors, Appends(c)
  PROVE  QuotesInv'
<1>1. PICK tip \in [seq : Nat, hash : Pids \union {Genesis}], outcome \in Outcomes,
           rows \in SUBSET Offered :
        /\ coll[c].pc = "append"
        /\ RowsOf(rows, Source(c), coll[c].day)
        /\ rows # {} => outcome = "OK"
        /\ ledger' = ledger \union {Record(c, tip, outcome, Cardinality(rows))}
        /\ NextRung(c, rows) /\ quotes' = quotes
  BY DEF Appends
<1>2. /\ TypeOK /\ ChainInv /\ ledger \subseteq ledger'
      /\ \A d \in Collectors : PlaceInv(d) /\ PassedInv(d) /\ BatchInv(d)
      /\ QuotesTraced /\ StoredInv
  BY <1>1 DEF LedgerInv, QuotesInv
<1>3. PICK rec \in Records :
      /\ rec = Record(c, tip, outcome, Cardinality(rows))
      /\ rec.run = RunOf(c) /\ rec.day = coll[c].day
      /\ rec.source = Source(c) /\ rec.outcome = outcome /\ rec.n = Cardinality(rows)
      /\ HashOf(rec) = <<RunOf(c), coll[c].day, coll[c].rung>>
      /\ \A r \in ledger : HashOf(r) # HashOf(rec)
  <2>1. Cardinality(rows) \in Nat
    BY <1>1, FS_CardinalityType DEF RowsOf
  <2> QED
    BY <1>1, <2>1, NewRecord
<1>4. PICK pid : pid = HashOf(rec)
  OBVIOUS
<1>5. PICK stamped : stamped = {[offer |-> o, pid |-> pid] : o \in rows}
  OBVIOUS
<1>6. /\ \A d \in Collectors : d # c => coll'[d] = coll[d]
      /\ coll'[c].pc \in {"store", "rung"} /\ coll'[c].nr = coll[c].nr
      /\ coll'[c].day = coll[c].day /\ coll'[c].batch = coll[c].batch \union stamped
  BY <1>1, <1>2, <1>3, <1>4, <1>5, NextRungFields
<1>7. /\ IsFiniteSet(stamped) /\ Cardinality(stamped) <= rec.n
      /\ \A b \in stamped : b.pid = pid /\ b.offer.source = rec.source /\ b.offer.day = rec.day
      /\ stamped # {} => rec.outcome = "OK"
  <2>1. IsFiniteSet(rows) /\ \A o \in rows : o.source = Source(c) /\ o.day = coll[c].day
    BY <1>1 DEF RowsOf
  <2> DEFINE f == [o \in rows |-> [offer |-> o, pid |-> pid]]
  <2>2. f = [o \in rows |-> f[o]] /\ \A b \in stamped : \E o \in rows : b = f[o]
    BY <1>5
  <2> HIDE DEF f
  <2>3. IsFiniteSet(stamped) /\ Cardinality(stamped) <= Cardinality(rows)
    BY <2>1, <2>2, MadeOf
  <2> QED
    BY <1>1, <1>3, <1>5, <2>1, <2>3
<1>8. \A b \in coll[c].batch : b.pid # pid
  BY <1>2, <1>3, <1>4 DEF BatchInv
<1>9. BatchInv(c)'
  <2> DEFINE old == coll[c].batch
  <2>1. IsFiniteSet(old \union stamped)
    BY <1>2, <1>7, FS_Union DEF BatchInv
  <2>2. ASSUME NEW b \in old
        PROVE  \E r \in ledger' :
                 /\ HashOf(r) = b.pid /\ r.run = RunOf(c) /\ r.day = coll[c].day
                 /\ r.outcome = "OK" /\ b.offer.source = r.source /\ b.offer.day = r.day
                 /\ Cardinality(RowsUnder(old \union stamped, b.pid)) <= r.n
    <3>1. RowsUnder(old \union stamped, b.pid) = RowsUnder(old, b.pid)
      BY <1>7, <1>8, <2>2 DEF RowsUnder
    <3> QED
      BY <1>2, <2>2, <3>1 DEF BatchInv
  <2>3. ASSUME NEW b \in stamped
        PROVE  /\ HashOf(rec) = b.pid /\ rec.run = RunOf(c) /\ rec.day = coll[c].day
               /\ rec.outcome = "OK" /\ b.offer.source = rec.source /\ b.offer.day = rec.day
               /\ Cardinality(RowsUnder(old \union stamped, b.pid)) <= rec.n
    <3>1. RowsUnder(old \union stamped, b.pid) = stamped
      BY <1>7, <1>8, <2>3 DEF RowsUnder
    <3> QED
      BY <1>3, <1>4, <1>7, <2>3, <3>1
  <2>4. rec \in ledger'
    BY <1>1, <1>3
  <2>5. Running(c)' /\ RunOf(c)' = RunOf(c)
    BY <1>6 DEF Running, RunOf
  <2>6. coll'[c].batch = old \union stamped /\ coll'[c].day = coll[c].day
    BY <1>6
  <2> HIDE DEF old
  <2> QED
    BY <2>1, <2>2, <2>3, <2>4, <2>5, <2>6 DEF BatchInv
<1>10. ASSUME NEW d \in Collectors, d # c
       PROVE  BatchInv(d)'
  <2>1. rec.run # RunOf(d)
    BY <1>3, <1>10 DEF RunOf
  <2>2. \A r \in ledger' \ ledger : r.run # RunOf(d)
    BY <1>1, <1>3, <2>1
  <2> QED
    BY <1>2, <1>6, <1>10, <2>2, OthersKept
<1>11. QuotesTraced'
  BY <1>1, <1>2, TracedStays
<1>12. StoredInv'
  BY <1>1, <1>2, <1>6 DEF StoredInv, Running, RunOf
<1> QED
  BY <1>9, <1>10, <1>11, <1>12 DEF QuotesInv

LEMMA CleanedFields ==
  ASSUME NEW o, NEW pid, NEW batch
  PROVE  /\ Cleaned(o, pid, batch).pid = pid
         /\ Cleaned(o, pid, batch).key[1] = o.source /\ Cleaned(o, pid, batch).key[2] = o.day
  BY DEF Cleaned

\* The day's quotes are stored under ids no stored quote has.
LEMMA StoreQuotes ==
  ASSUME LedgerInv, QuotesInv, NEW c \in Collectors, Store(c)
  PROVE  QuotesInv'
<1> DEFINE old == coll[c].batch
<1>1. /\ TypeOK /\ ChainInv /\ ledger' = ledger /\ quotes' = quotes \union Inserted(c)
      /\ Running(c) /\ coll[c].day \in Nat
      /\ \A d \in Collectors : PlaceInv(d) /\ PassedInv(d) /\ BatchInv(d)
      /\ QuotesTraced /\ StoredInv
  BY DEF LedgerInv, QuotesInv, Store, Running, TypeOK, Processes
<1>2. /\ \A d \in Collectors : d # c => coll'[d] = coll[d]
      /\ coll'[c].nr = coll[c].nr /\ coll'[c].batch = {}
      /\ IF coll[c].day < coll[c].last
         THEN coll'[c].pc = "rung" /\ coll'[c].day = coll[c].day + 1
         ELSE coll'[c].pc \in {"done", "refused"}
  BY <1>1, StoreFields
<1> DEFINE offers == {x.offer : x \in old}
<1>3. ASSUME NEW q \in Inserted(c)
      PROVE  \E b \in old : /\ q = Cleaned(b.offer, b.pid, offers)
                            /\ q.pid = b.pid /\ q.key[1] = b.offer.source
                            /\ q.key[2] = b.offer.day
  <2>1. q \in {Cleaned(b.offer, b.pid, offers) : b \in old}
    BY <1>3, Zenon DEF Inserted
  <2> HIDE DEF old, offers
  <2>2. PICK b \in old : q = Cleaned(b.offer, b.pid, offers)
    BY <2>1
  <2> QED
    BY <2>2, CleanedFields
<1> HIDE DEF offers
<1>4. ASSUME NEW q \in Inserted(c)
      PROVE  q.pid[1] = RunOf(c) /\ q.pid[2] = coll[c].day
  <2>1. PICK b \in old : q.pid = b.pid
    BY <1>3, <1>4
  <2>2. PICK r \in ledger : HashOf(r) = b.pid /\ r.run = RunOf(c) /\ r.day = coll[c].day
    BY <1>1 DEF BatchInv
  <2> QED
    BY <2>1, <2>2 DEF HashOf
<1>5. \A q \in quotes, p \in Inserted(c) : q.pid # p.pid
  BY <1>1, <1>4 DEF StoredInv
<1>6. QuotesTraced'
  <2>1. ASSUME NEW q \in quotes
        PROVE  {p \in quotes' : p.pid = q.pid} = {p \in quotes : p.pid = q.pid}
    BY <1>1, <1>5, <2>1
  <2>2. ASSUME NEW q \in Inserted(c)
        PROVE  \E r \in ledger :
                 /\ HashOf(r) = q.pid /\ r.outcome = "OK"
                 /\ q.key[1] = r.source /\ q.key[2] = r.day
                 /\ r.n >= Cardinality({p \in quotes' : p.pid = q.pid})
    <3>1. PICK b \in old : q.pid = b.pid /\ q.key[1] = b.offer.source /\ q.key[2] = b.offer.day
      BY <1>3, <2>2
    <3>2. PICK r \in ledger :
            /\ HashOf(r) = b.pid /\ r.outcome = "OK"
            /\ b.offer.source = r.source /\ b.offer.day = r.day
            /\ Cardinality(RowsUnder(old, b.pid)) <= r.n
      BY <1>1 DEF BatchInv
    <3> DEFINE stored == {p \in quotes' : p.pid = q.pid}
               rows == RowsUnder(old, b.pid)
               f == [x \in rows |-> Cleaned(x.offer, x.pid, offers)]
    <3>3. \A p \in stored : p \in Inserted(c) /\ p.pid = b.pid
      BY <1>1, <1>5, <2>2, <3>1
    <3>4. \A p \in stored : \E x \in rows : p = f[x]
      <4>1. ASSUME NEW p \in stored
            PROVE  \E x \in rows : p = f[x]
        <5>1. PICK x \in old : p = Cleaned(x.offer, x.pid, offers) /\ p.pid = x.pid
          BY <1>3, <3>3
        <5>2. x \in rows
          BY <3>3, <5>1 DEF RowsUnder
        <5> QED
          BY <5>1, <5>2
      <4> QED
        BY <4>1
    <3>5. IsFiniteSet(rows)
      BY <1>1, FS_Subset DEF BatchInv, RowsUnder
    <3>6. f = [x \in rows |-> f[x]]
      OBVIOUS
    <3> HIDE DEF stored, rows, f
    <3>7. IsFiniteSet(stored) /\ Cardinality(stored) <= Cardinality(rows)
      BY <3>4, <3>5, <3>6, MadeOf
    <3>8. Cardinality(stored) \in Nat /\ Cardinality(rows) \in Nat /\ r.n \in Nat
      BY <1>1, <3>5, <3>7, FS_CardinalityType DEF TypeOK, Records
    <3>9. r.n >= Cardinality(stored)
      BY <3>2, <3>7, <3>8 DEF rows
    <3> QED
      BY <3>1, <3>2, <3>9 DEF stored
  <2> QED
    BY <1>1, <2>1, <2>2 DEF QuotesTraced
<1>7. BatchInv(c)'
  BY <1>2, FS_EmptySet DEF BatchInv
<1>8. ASSUME NEW d \in Collectors, d # c
      PROVE  BatchInv(d)'
  BY <1>1, <1>2, <1>8, OthersKept
<1>9. StoredInv'
  <2>1. ASSUME NEW q \in quotes', NEW d \in Collectors, d # c, Running(d)', q.pid[1] = RunOf(d)'
        PROVE  q.pid[2] < coll'[d].day
    <3>1. RunOf(d)' = RunOf(d) /\ Running(d) /\ RunOf(d) # RunOf(c)
      BY <1>2, <2>1 DEF RunOf, Running
    <3> QED
      BY <1>1, <1>2, <1>4, <2>1, <3>1 DEF StoredInv
  <2>2. ASSUME NEW q \in quotes', Running(c)', q.pid[1] = RunOf(c)'
        PROVE  q.pid[2] < coll'[c].day
    <3>1. RunOf(c)' = RunOf(c) /\ coll'[c].day = coll[c].day + 1
      BY <1>2, <2>2 DEF RunOf, Running
    <3>2. CASE q \in Inserted(c)
      BY <1>1, <1>4, <3>1, <3>2
    <3>3. CASE q \in quotes
      <4>1. q.pid[2] < coll[c].day
        BY <1>1, <2>2, <3>1, <3>3 DEF StoredInv
      <4>2. PICK r \in ledger : HashOf(r) = q.pid /\ r.day \in Nat
        BY <1>1, <3>3 DEF QuotesTraced, TypeOK, Records
      <4>3. q.pid[2] \in Nat
        BY <4>2 DEF HashOf
      <4> QED
        BY <1>1, <3>1, <4>1, <4>3
    <3> QED
      BY <1>1, <3>2, <3>3
  <2> QED
    BY <2>1, <2>2 DEF StoredInv
<1> QED
  BY <1>6, <1>7, <1>8, <1>9 DEF QuotesInv

\* Death loses the rows in hand and stores nothing.
LEMMA DiesQuotes ==
  ASSUME LedgerInv, QuotesInv, NEW c \in Collectors, Dies(c)
  PROVE  QuotesInv'
<1>1. /\ TypeOK /\ ledger' = ledger /\ quotes' = quotes
      /\ \A d \in Collectors : PlaceInv(d) /\ PassedInv(d) /\ BatchInv(d)
      /\ QuotesTraced /\ StoredInv
  BY DEF LedgerInv, QuotesInv, Dies
<1>2. /\ \A d \in Collectors : d # c => coll'[d] = coll[d]
      /\ coll'[c].pc = "died" /\ coll'[c].batch = {}
  BY <1>1, DiesFields
<1>3. BatchInv(c)'
  BY <1>2, FS_EmptySet DEF BatchInv
<1>4. ASSUME NEW d \in Collectors, d # c
      PROVE  BatchInv(d)'
  BY <1>1, <1>2, <1>4, OthersKept
<1>5. QuotesTraced'
  BY <1>1, TracedStays
<1>6. StoredInv'
  <2>1. ASSUME NEW q \in quotes, NEW d \in Collectors, Running(d)', q.pid[1] = RunOf(d)'
        PROVE  q.pid[2] < coll'[d].day
    <3>1. d # c
      BY <1>2, <2>1 DEF Running
    <3> QED
      BY <1>1, <1>2, <2>1, <3>1 DEF StoredInv, Running, RunOf
  <2> QED
    BY <1>1, <2>1 DEF StoredInv
<1> QED
  BY <1>3, <1>4, <1>5, <1>6 DEF QuotesInv

LEMMA NextQuotes == LedgerInv /\ QuotesInv /\ [CollectionNext]_collectionVars => QuotesInv'
<1>1. ASSUME LedgerInv, QuotesInv, CollectionNext
      PROVE  QuotesInv'
  BY <1>1, StepCases, StartQuotes, ObtainQuotes, AppendQuotes, StoreQuotes, DiesQuotes
<1>2. ASSUME LedgerInv, QuotesInv, UNCHANGED collectionVars
      PROVE  QuotesInv'
  <2>1. ledger' = ledger /\ quotes' = quotes /\ coll' = coll
    BY <1>2 DEF collectionVars
  <2>2. \A c \in Collectors : BatchInv(c)'
    BY <1>2, <2>1, OthersKept DEF LedgerInv, QuotesInv
  <2>3. QuotesTraced' /\ StoredInv'
    BY <1>2, <2>1, TracedStays DEF QuotesInv, StoredInv, Running, RunOf
  <2> QED
    BY <2>2, <2>3 DEF QuotesInv
<1> QED
  BY <1>1, <1>2

\* Whatever races and dies, a stored quote leads to the record of a successful
\* fetch of its source on its day, which counted it.
THEOREM QuotesAreTraced == CollectionSpec => []QuotesTraced
<1>1. QuotesInv => QuotesTraced
  BY DEF QuotesInv
<1> QED
  BY InitLedger, NextLedger, InitQuotes, NextQuotes, <1>1, PTL DEF CollectionSpec

-----------------------------------------------------------------------------
(***************************************************************************)
(* The stack.                                                              *)
(***************************************************************************)

\* The stack's processes are those of EarlyCollection, whatever else the store
\* is used for: what is proved of its ledger and quotes holds here.
THEOREM StackCollects == Spec => CollectionSpec
<1>1. Init => CollectionInit
  BY DEF Init
<1>2. [Next]_vars => [CollectionNext]_collectionVars
  BY DEF Next, vars
<1> QED
  BY <1>1, <1>2, PTL DEF Spec, CollectionSpec

-----------------------------------------------------------------------------
(***************************************************************************)
(* Labels.                                                                 *)
(***************************************************************************)

\* Something published carries the flag.
Flagged == \E k \in DOMAIN values : values[k].syn

IsIndexer(x) ==
  /\ x = [command |-> x.command, pc |-> x.pc, read |-> x.read,
           snapshot |-> x.snapshot, output |-> x.output]
  /\ x.pc \in {"idle", "check", "cells", "values"} /\ x.read \in Nat

Active(x) == x.pc # "idle"

\* Whether what a run has read is synthetic.
SynOf(x) == IF x.pc = "check" THEN IsSynthetic(x.snapshot) ELSE x.output.syn

\* A published number that rests on simulated quotes carries the flag, and once
\* one does the store holds a simulated quote that every later run will read.
ValuesInv ==
  \A k \in DOMAIN values :
    /\ values[k].rests => values[k].syn
    /\ values[k].syn => IsSynthetic(quotes)
    /\ values[k].read \in Nat /\ values[k].read <= indexRuns

\* A run x of the index command has read what flagged the rows of earlier
\* readings, when the store holds the quotes Q, n readings have been taken and V
\* is what is published.
Informed(x, Q, n, V) ==
  /\ IsIndexer(x)
  /\ x.pc = "check" => x.snapshot \subseteq Q
  /\ x.pc \in {"cells", "values"} => (x.output.rests => x.output.syn)
  /\ Active(x) =>
       /\ x.read <= n
       /\ SynOf(x) => IsSynthetic(Q)
       /\ \A k \in DOMAIN V : V[k].syn /\ V[k].read <= x.read => SynOf(x)

RunInv(x) == Informed(x, quotes, indexRuns, values)

\* Of two runs, the later to read knows of simulated quotes if the other does.
InOrder(x, y) == Active(x) /\ Active(y) /\ x.read <= y.read /\ SynOf(x) => SynOf(y)

IndexerInv ==
  /\ indexRuns \in Nat
  /\ indexer = [i \in Indexers |-> indexer[i]]
  /\ \A i \in Indexers : RunInv(indexer[i])
  /\ \A i, j \in Indexers : InOrder(indexer[i], indexer[j])

\* A request that has read numbers resting on simulated quotes will find a flag,
\* unless an earlier reading has been published since.
ReaderInv ==
  /\ overtaken \in Nat
  /\ reader.overtaken \in Nat /\ reader.overtaken <= overtaken
  /\ /\ reader.kind = "index" /\ reader.rests
     /\ reader.overtaken = overtaken
     => Flagged
  /\ reader.persist => reader.kind = "index"

LabelInv == ValuesInv /\ IndexerInv /\ ReaderInv /\ ServedLabelled

\* No quote is ever removed.
LEMMA QuotesStay ==
  ASSUME [CollectionNext]_collectionVars
  PROVE  quotes \subseteq quotes'
<1>1. ASSUME NEW c \in Collectors, Start(c) \/ CollectorStep(c) \/ Crash(c)
      PROVE  quotes \subseteq quotes'
  BY <1>1 DEF Start, CollectorStep, Crash, SkipDisabled, Simulate, CheckPage, AskDuffel,
              SkipLicensed, Obtained, AppendRecord, RecordDuffelError, DieOfCollision, Store
<1> QED
  BY <1>1 DEF CollectionNext, collectionVars

LEMMA MoreIsSynthetic ==
  ASSUME NEW S, NEW T, S \subseteq T, IsSynthetic(S)
  PROVE  IsSynthetic(T)
  BY DEF IsSynthetic, PublishableOf

LEMMA FlaggedIsLabelled ==
  ASSUME Flagged
  PROVE  Label = "synthetic"
  BY DEF Flagged, Label

\* A step that publishes nothing and starts no run, whatever it adds to the
\* store or asks of it.
LEMMA PublishedKept ==
  ASSUME LabelInv, quotes \subseteq quotes', UNCHANGED publishVars
  PROVE  ValuesInv' /\ IndexerInv' /\ (Flagged' <=> Flagged) /\ UNCHANGED overtaken
<1>1. /\ indexer' = indexer /\ indexRuns' = indexRuns /\ values' = values
      /\ overtaken' = overtaken /\ ValuesInv /\ IndexerInv
  BY DEF publishVars, LabelInv
<1>2. IsSynthetic(quotes) => IsSynthetic(quotes')
  BY MoreIsSynthetic
<1>3. ValuesInv'
  BY <1>1, <1>2 DEF ValuesInv
<1>4. ASSUME NEW x, RunInv(x)
      PROVE  Informed(x, quotes', indexRuns', values')
  BY <1>1, <1>2, <1>4 DEF RunInv, Informed
<1>5. IndexerInv'
  BY <1>1, <1>4 DEF IndexerInv, RunInv
<1> QED
  BY <1>1, <1>3, <1>5 DEF Flagged

\* Collection: the store grows, and what is published stays.
LEMMA CollectionKeepsLabels ==
  ASSUME LabelInv, CollectionNext, UNCHANGED <<publishVars, referenceVars, readVars>>
  PROVE  LabelInv'
<1>1. ValuesInv' /\ IndexerInv' /\ (Flagged' <=> Flagged) /\ UNCHANGED overtaken
  BY QuotesStay, PublishedKept
<1>2. reader' = reader /\ response' = response /\ results' = results
  BY DEF readVars
<1>3. ReaderInv' /\ ServedLabelled'
  BY <1>1, <1>2 DEF LabelInv, ReaderInv, ServedLabelled
<1> QED
  BY <1>1, <1>3 DEF LabelInv

-----------------------------------------------------------------------------
(***************************************************************************)
(* The index commands.                                                     *)
(***************************************************************************)

\* A run that takes a step goes on from x to y.
LEMMA RunStep ==
  ASSUME LabelInv, NEW i \in Indexers, NEW y,
         indexer' = [indexer EXCEPT ![i] = y],
         UNCHANGED <<quotes, values, overtaken, readVars>>,
         indexRuns' \in Nat, indexRuns <= indexRuns',
         Informed(y, quotes', indexRuns', values'),
         \A j \in Indexers : InOrder(indexer[j], y) /\ InOrder(y, indexer[j])
  PROVE  LabelInv'
<1>1. /\ quotes' = quotes /\ values' = values /\ overtaken' = overtaken
      /\ reader' = reader /\ response' = response /\ results' = results
      /\ ValuesInv /\ IndexerInv /\ ReaderInv /\ ServedLabelled
  BY DEF readVars, LabelInv
<1>2. ValuesInv'
  BY <1>1 DEF ValuesInv, IndexerInv
<1>3. ReaderInv' /\ ServedLabelled'
  BY <1>1 DEF ReaderInv, ServedLabelled, Flagged
<1>4. /\ indexer' = [j \in Indexers |-> indexer'[j]]
      /\ indexer'[i] = y
      /\ \A j \in Indexers : j # i => indexer'[j] = indexer[j]
  BY <1>1 DEF IndexerInv
<1>5. \A j \in Indexers : Informed(indexer'[j], quotes', indexRuns', values')
  <2>1. ASSUME NEW x, RunInv(x)
        PROVE  Informed(x, quotes', indexRuns', values')
    <3>1. \A n \in Nat : n <= indexRuns => n <= indexRuns'
      BY <1>1 DEF IndexerInv
    <3>2. x.read \in Nat
      BY <2>1 DEF RunInv, Informed, IsIndexer
    <3> QED
      BY <1>1, <2>1, <3>1, <3>2 DEF RunInv, Informed, Active
  <2> QED
    BY <1>1, <1>4, <2>1 DEF IndexerInv
<1>6. \A j, k \in Indexers : InOrder(indexer'[j], indexer'[k])
  <2> SUFFICES ASSUME NEW j \in Indexers, NEW k \in Indexers
               PROVE  InOrder(indexer'[j], indexer'[k])
    OBVIOUS
  <2>1. CASE j # i \/ k # i
    BY <1>1, <1>4, <2>1 DEF IndexerInv
  <2>2. CASE j = i /\ k = i
    BY <1>4, <2>2 DEF InOrder
  <2> QED
    BY <2>1, <2>2
<1>7. IndexerInv'
  BY <1>4, <1>5, <1>6 DEF IndexerInv, RunInv
<1> QED
  BY <1>2, <1>3, <1>7 DEF LabelInv

\* A run that ends, whatever it was at.
LEMMA RestKeepsLabels ==
  ASSUME LabelInv, NEW i \in Indexers, Rest(i),
         UNCHANGED <<quotes, indexRuns, values, overtaken, readVars>>
  PROVE  LabelInv'
<1>1. indexer' = [indexer EXCEPT ![i] = Resting]
  BY DEF Rest
<1>2. IsIndexer(Resting) /\ Resting.pc = "idle"
  BY DEF IsIndexer, Resting
<1>3. Informed(Resting, quotes', indexRuns', values')
  BY <1>2 DEF Informed, Active
<1>4. \A j \in Indexers : InOrder(indexer[j], Resting) /\ InOrder(Resting, indexer[j])
  BY <1>2 DEF InOrder, Active
<1>5. indexRuns' \in Nat /\ indexRuns <= indexRuns'
  BY DEF LabelInv, IndexerInv
<1> QED
  BY <1>1, <1>3, <1>4, <1>5, RunStep

\* A run under way that neither reads nor publishes.
LEMMA ProgressKeepsLabels ==
  ASSUME LabelInv, NEW i \in Indexers, NEW y, IsIndexer(y),
         indexer' = [indexer EXCEPT ![i] = y],
         UNCHANGED <<quotes, indexRuns, values, overtaken, readVars>>,
         Active(indexer[i]), y.pc \in {"cells", "values"}, y.read = indexer[i].read,
         SynOf(y) <=> SynOf(indexer[i]), y.output.rests => y.output.syn
  PROVE  LabelInv'
<1>1. RunInv(indexer[i]) /\ indexRuns \in Nat
  BY DEF LabelInv, IndexerInv
<1>2. RunInv(y)
  BY <1>1 DEF RunInv, Informed, Active
<1>3. Informed(y, quotes', indexRuns', values')
  BY <1>2 DEF RunInv
<1>4. ASSUME NEW j \in Indexers
      PROVE  InOrder(indexer[j], y) /\ InOrder(y, indexer[j])
  BY DEF LabelInv, IndexerInv, InOrder, Active
<1>5. UNCHANGED <<quotes, values, overtaken, readVars>> /\ indexRuns' = indexRuns
  OBVIOUS
<1>6. indexRuns' \in Nat /\ indexRuns <= indexRuns'
  BY <1>1, <1>5
<1> QED
  BY <1>3, <1>4, <1>5, <1>6, RunStep

\* The last to read has read all there is.
LEMMA ReadKeepsOrder ==
  ASSUME LabelInv, NEW i \in Indexers, NEW command, ReadQuotes(i, command),
         UNCHANGED <<quotes, readVars>>
  PROVE  LabelInv'
<1> DEFINE y == [command |-> command, pc |-> "check", read |-> indexRuns + 1,
                 snapshot |-> quotes, output |-> NoOutput]
<1>1. /\ indexRuns' = indexRuns + 1
      /\ indexer' = [indexer EXCEPT ![i] = y]
      /\ UNCHANGED <<values, overtaken>>
      /\ quotes' = quotes
  BY DEF ReadQuotes
<1>2. indexRuns \in Nat /\ indexRuns' \in Nat /\ indexRuns <= indexRuns'
  BY <1>1 DEF LabelInv, IndexerInv
<1>3. IsIndexer(y) /\ y.pc = "check" /\ y.read = indexRuns + 1 /\ y.snapshot = quotes
  BY <1>2 DEF IsIndexer
<1> HIDE DEF y
<1>4. Active(y) /\ (SynOf(y) <=> IsSynthetic(quotes))
  BY <1>3 DEF Active, SynOf
<1>5. Informed(y, quotes', indexRuns', values')
  <2>1. \A k \in DOMAIN values : values[k].syn => IsSynthetic(quotes)
    BY DEF LabelInv, ValuesInv
  <2> QED
    BY <1>1, <1>2, <1>3, <1>4, <2>1 DEF Informed
<1>6. ASSUME NEW j \in Indexers
      PROVE  InOrder(indexer[j], y) /\ InOrder(y, indexer[j])
  <2>1. RunInv(indexer[j])
    BY DEF LabelInv, IndexerInv
  <2>2. InOrder(indexer[j], y)
    BY <1>4, <2>1 DEF InOrder, RunInv, Informed
  <2>3. Active(indexer[j]) => indexer[j].read \in Nat /\ indexer[j].read <= indexRuns
    BY <2>1 DEF RunInv, Informed, IsIndexer
  <2>4. InOrder(y, indexer[j])
    BY <1>2, <1>3, <2>3 DEF InOrder
  <2> QED
    BY <2>2, <2>4
<1> QED
  BY <1>1, <1>2, <1>5, <1>6, RunStep

\* A run that has computed keeps its place among the readings.
LEMMA ComputedFields ==
  ASSUME NEW x, NEW out, IsIndexer(x)
  PROVE  LET y == [x EXCEPT !.command = "none", !.pc = "cells", !.snapshot = {}, !.output = out]
         IN  IsIndexer(y) /\ y.pc = "cells" /\ y.read = x.read /\ y.output = out
<1> DEFINE y == [x EXCEPT !.command = "none", !.pc = "cells", !.snapshot = {}, !.output = out]
<1>1. /\ x = [command |-> x.command, pc |-> x.pc, read |-> x.read,
               snapshot |-> x.snapshot, output |-> x.output]
      /\ x.read \in Nat
  BY DEF IsIndexer
<1>2. DOMAIN x = {"command", "pc", "read", "snapshot", "output"}
  BY <1>1
<1>3. /\ DOMAIN y = DOMAIN x
      /\ y.command = "none" /\ y.pc = "cells" /\ y.snapshot = {} /\ y.output = out
      /\ y.read = x.read
  BY <1>2
<1>4. y = [k \in DOMAIN y |-> y[k]]
  OBVIOUS
<1> HIDE DEF y
<1>5. y = [command |-> y.command, pc |-> y.pc, read |-> y.read,
           snapshot |-> y.snapshot, output |-> y.output]
  BY <1>2, <1>3, <1>4
<1>6. IsIndexer(y) /\ y.pc = "cells" /\ y.read = x.read /\ y.output = out
  BY <1>1, <1>3, <1>5 DEF IsIndexer
<1> QED
  BY <1>6 DEF y

LEMMA CheckKeepsLabels ==
  ASSUME LabelInv, NEW i \in Indexers, CheckQuality(i), UNCHANGED <<quotes, readVars>>
  PROVE  LabelInv'
<1> DEFINE S == indexer[i].snapshot
<1>1. indexer[i].pc = "check" /\ UNCHANGED <<indexRuns, values, overtaken>>
  BY DEF CheckQuality
<1>2. CASE Rest(i)
  BY <1>1, <1>2, RestKeepsLabels
<1>3. CASE indexer' = [indexer EXCEPT ![i] = [@ EXCEPT !.command = "none", !.pc = "cells",
                                                       !.snapshot = {}, !.output = Output(S)]]
  <2> DEFINE x == indexer[i]
             y == [x EXCEPT !.command = "none", !.pc = "cells", !.snapshot = {},
                            !.output = Output(S)]
  <2>1. IsIndexer(x)
    BY DEF LabelInv, IndexerInv, RunInv, Informed
  <2>2. indexer' = [indexer EXCEPT ![i] = y]
    BY <1>3
  <2> HIDE DEF x, S
  <2>3. IsIndexer(y) /\ y.pc = "cells" /\ y.read = x.read /\ y.output = Output(S)
    BY <2>1, ComputedFields
  <2> HIDE DEF y
  <2>4. /\ y.output.rests => y.output.syn
        /\ y.output.syn <=> IsSynthetic(S)
    BY <2>3 DEF Output, Rests, IsSynthetic
  <2>5. SynOf(y) <=> SynOf(x)
    BY <1>1, <2>3, <2>4 DEF SynOf, S, x
  <2> QED
    BY <1>1, <2>2, <2>3, <2>4, <2>5, ProgressKeepsLabels DEF x, Active
<1> QED
  BY <1>2, <1>3 DEF CheckQuality

LEMMA CellsKeepLabels ==
  ASSUME LabelInv, NEW i \in Indexers, WriteCells(i), UNCHANGED <<quotes, readVars>>
  PROVE  LabelInv'
<1> DEFINE x == indexer[i]
           y == [x EXCEPT !.pc = "values"]
<1>1. x.pc = "cells" /\ UNCHANGED <<indexRuns, values, overtaken>>
  BY DEF WriteCells
<1>2. RunInv(x) /\ indexer' = [indexer EXCEPT ![i] = y]
  BY DEF LabelInv, IndexerInv, WriteCells
<1>3. /\ x = [command |-> x.command, pc |-> x.pc, read |-> x.read,
               snapshot |-> x.snapshot, output |-> x.output]
      /\ x.read \in Nat
  BY <1>2 DEF RunInv, Informed, IsIndexer
<1> HIDE DEF x
<1>4. y = [command |-> x.command, pc |-> "values", read |-> x.read,
           snapshot |-> x.snapshot, output |-> x.output]
  BY <1>3
<1> HIDE DEF y
<1>5. IsIndexer(y) /\ y.pc = "values" /\ y.read = x.read /\ y.output = x.output
  BY <1>3, <1>4 DEF IsIndexer
<1>6. (SynOf(y) <=> SynOf(x)) /\ (y.output.rests => y.output.syn) /\ Active(x)
  BY <1>1, <1>2, <1>5 DEF SynOf, RunInv, Informed, Active
<1> QED
  BY <1>1, <1>2, <1>5, <1>6, ProgressKeepsLabels DEF x

\* Publishing in the order of reading takes no flag away; out of order, it counts.
LEMMA ValuesKeepLabels ==
  ASSUME LabelInv, NEW i \in Indexers, WriteValues(i), UNCHANGED <<quotes, readVars>>
  PROVE  LabelInv'
<1> DEFINE x == indexer[i]
           o == x.output
           new == [k \in o.rows |-> [rests |-> o.rests, syn |-> o.syn, read |-> x.read]]
<1>1. /\ quotes' = quotes /\ indexRuns' = indexRuns
      /\ reader' = reader /\ response' = response /\ results' = results
      /\ ValuesInv /\ IndexerInv /\ ReaderInv /\ ServedLabelled /\ RunInv(x)
  BY DEF WriteValues, readVars, LabelInv, IndexerInv
<1>2. /\ x.pc = "values" /\ Rest(i)
      /\ values' = [k \in DOMAIN values \union DOMAIN new |->
                      IF k \in DOMAIN new THEN new[k] ELSE values[k]]
      /\ overtaken' = IF Overtakes(i) THEN overtaken + 1 ELSE overtaken
      /\ Overtakes(i) <=> \E k \in o.rows \cap DOMAIN values :
                            values[k].syn /\ ~o.syn /\ x.read < values[k].read
  BY DEF WriteValues, Replaced, Overtakes
<1>3. /\ o.rests => o.syn
      /\ SynOf(x) <=> o.syn
      /\ o.syn => IsSynthetic(quotes)
      /\ x.read \in Nat /\ x.read <= indexRuns
      /\ \A k \in DOMAIN values : values[k].syn /\ values[k].read <= x.read => o.syn
      /\ Active(x)
  BY <1>1, <1>2 DEF RunInv, Informed, IsIndexer, Active, SynOf
<1>4. \A j \in Indexers : InOrder(x, indexer[j])
  BY <1>1 DEF IndexerInv
<1>5. indexer' = [indexer EXCEPT ![i] = Resting]
  BY <1>2 DEF Rest
<1> HIDE DEF x, o
<1>6. /\ DOMAIN values' = DOMAIN values \union o.rows
      /\ \A k \in o.rows : /\ values'[k].rests <=> o.rests
                           /\ values'[k].syn <=> o.syn
                           /\ values'[k].read = x.read
      /\ \A k \in DOMAIN values \ o.rows : values'[k] = values[k]
  BY <1>2
<1>7. ValuesInv'
  BY <1>1, <1>3, <1>6 DEF ValuesInv
<1>8. ASSUME NEW j \in Indexers
      PROVE  Informed(indexer[j], quotes', indexRuns', values')
  <2>1. Informed(indexer[j], quotes, indexRuns, values) /\ InOrder(x, indexer[j])
    BY <1>1, <1>4 DEF IndexerInv, RunInv
  <2> DEFINE z == indexer[j]
  <2> HIDE DEF z
  <2>2. ASSUME Active(z), NEW k \in DOMAIN values', values'[k].syn, values'[k].read <= z.read
        PROVE  SynOf(z)
    <3>1. CASE k \in o.rows
      BY <1>3, <1>6, <2>1, <2>2, <3>1 DEF InOrder, z
    <3>2. CASE k \notin o.rows
      BY <1>6, <2>1, <2>2, <3>2 DEF Informed, z
    <3> QED
      BY <3>1, <3>2
  <2> QED
    BY <1>1, <2>1, <2>2 DEF Informed, z
<1>9. IndexerInv'
  <2>1. /\ indexer' = [j \in Indexers |-> indexer'[j]]
        /\ indexer'[i] = Resting
        /\ \A j \in Indexers : j # i => indexer'[j] = indexer[j]
    BY <1>1, <1>5 DEF IndexerInv
  <2>2. IsIndexer(Resting) /\ Resting.pc = "idle"
    BY DEF IsIndexer, Resting
  <2>3. Informed(Resting, quotes', indexRuns', values')
    BY <2>2 DEF Informed, Active
  <2>4. \A j \in Indexers : Informed(indexer'[j], quotes', indexRuns', values')
    BY <1>8, <2>1, <2>3
  <2>5. ASSUME NEW j \in Indexers, NEW k \in Indexers
        PROVE  InOrder(indexer'[j], indexer'[k])
    <3>1. CASE j # i /\ k # i
      BY <1>1, <2>1, <3>1 DEF IndexerInv
    <3>2. CASE j = i \/ k = i
      BY <2>1, <2>2, <3>2 DEF InOrder, Active
    <3> QED
      BY <3>1, <3>2
  <2> QED
    BY <1>1, <2>1, <2>4, <2>5 DEF IndexerInv, RunInv
<1>10. ReaderInv' /\ ServedLabelled'
  <2>1. CASE Overtakes(i)
    BY <1>1, <1>2, <2>1 DEF ReaderInv, ServedLabelled
  <2>2. CASE ~Overtakes(i)
    <3>1. ASSUME NEW k \in DOMAIN values, values[k].syn
          PROVE  values'[k].syn
      <4>1. CASE k \in o.rows
        <5>1. values[k].read \in Nat
          BY <1>1 DEF ValuesInv
        <5>2. o.syn
          BY <1>2, <1>3, <2>2, <3>1, <4>1, <5>1
        <5> QED
          BY <1>6, <4>1, <5>2
      <4>2. CASE k \notin o.rows
        BY <1>6, <3>1, <4>2
      <4> QED
        BY <4>1, <4>2
    <3>2. Flagged => Flagged'
      BY <1>6, <3>1 DEF Flagged
    <3> QED
      BY <1>1, <1>2, <2>2, <3>2 DEF ReaderInv, ServedLabelled
  <2> QED
    BY <2>1, <2>2
<1> QED
  BY <1>7, <1>9, <1>10 DEF LabelInv

LEMMA IndexKeepsLabels ==
  ASSUME LabelInv, IndexStep, UNCHANGED <<collectionVars, referenceVars, readVars>>
  PROVE  LabelInv'
<1>1. UNCHANGED <<quotes, readVars>>
  BY DEF collectionVars
<1>2. PICK i \in Indexers : \/ CmdIndex(i) \/ CmdReproduce(i) \/ CheckQuality(i)
                            \/ WriteCells(i) \/ WriteValues(i) \/ KillIndexer(i)
  BY DEF IndexStep
<1>3. CASE CmdIndex(i) \/ CmdReproduce(i)
  BY <1>1, <1>3, ReadKeepsOrder DEF CmdIndex, CmdReproduce
<1>4. CASE CheckQuality(i)
  BY <1>1, <1>4, CheckKeepsLabels
<1>5. CASE WriteCells(i)
  BY <1>1, <1>5, CellsKeepLabels
<1>6. CASE WriteValues(i)
  BY <1>1, <1>6, ValuesKeepLabels
<1>7. CASE KillIndexer(i)
  BY <1>1, <1>7, RestKeepsLabels DEF KillIndexer
<1> QED
  BY <1>2, <1>3, <1>4, <1>5, <1>6, <1>7

LEMMA LoadKeepsLabels ==
  ASSUME LabelInv, UNCHANGED <<collectionVars, publishVars, readVars>>
  PROVE  LabelInv'
<1>1. /\ quotes \subseteq quotes'
      /\ reader' = reader /\ response' = response /\ results' = results
  BY DEF collectionVars, readVars
<1>2. ValuesInv' /\ IndexerInv' /\ (Flagged' <=> Flagged) /\ UNCHANGED overtaken
  BY <1>1, PublishedKept
<1> QED
  BY <1>1, <1>2 DEF LabelInv, ReaderInv, ServedLabelled

-----------------------------------------------------------------------------
(***************************************************************************)
(* The readers.                                                            *)
(***************************************************************************)
LEMMA BeginKeepsLabels ==
  ASSUME LabelInv, UNCHANGED <<collectionVars, publishVars>>,
         NEW kind, NEW rests, NEW persist, Begin(kind, rests, persist),
         kind = "index" /\ rests => Flagged, persist => kind = "index"
  PROVE  LabelInv'
<1>1. ValuesInv' /\ IndexerInv' /\ (Flagged' <=> Flagged) /\ overtaken' = overtaken
  BY PublishedKept DEF collectionVars
<1>2. /\ reader' = [kind |-> kind, rests |-> rests, persist |-> persist,
                    overtaken |-> overtaken]
      /\ response' = NoResponse /\ results' = results
  BY DEF Begin
<1>3. overtaken \in Nat
  BY DEF LabelInv, ReaderInv
<1>4. ReaderInv'
  BY <1>1, <1>2, <1>3 DEF ReaderInv
<1>5. ServedLabelled'
  BY <1>2 DEF LabelInv, ServedLabelled, NoResponse
<1> QED
  BY <1>1, <1>4, <1>5 DEF LabelInv

LEMMA AnsweredKeepsLabels ==
  ASSUME LabelInv, UNCHANGED <<collectionVars, publishVars>>,
         NEW kind, NEW rests, NEW label, Answered(kind, rests, label),
         kind = "index" /\ rests => label = "synthetic"
  PROVE  LabelInv'
<1>1. ValuesInv' /\ IndexerInv' /\ (Flagged' <=> Flagged) /\ overtaken' = overtaken
  BY PublishedKept DEF collectionVars
<1>2. /\ reader' = reader /\ results' = results
      /\ response' = [kind |-> kind, rests |-> rests, label |-> label, overtaken |-> FALSE]
  BY DEF Answered
<1>3. ReaderInv'
  BY <1>1, <1>2 DEF LabelInv, ReaderInv
<1>4. ServedLabelled'
  BY <1>2 DEF LabelInv, ServedLabelled, LabelledAs
<1> QED
  BY <1>1, <1>3, <1>4 DEF LabelInv

\* Numbers of the index are read before the flag: it is there to be found, unless
\* a run has been overtaken in between.
LEMMA AnswerKeepsLabels ==
  ASSUME LabelInv, UNCHANGED <<collectionVars, publishVars>>, Answer
  PROVE  LabelInv'
<1>1. ValuesInv' /\ IndexerInv' /\ (Flagged' <=> Flagged) /\ overtaken' = overtaken
  BY PublishedKept DEF collectionVars
<1>2. /\ reader' = NoRead
      /\ response' = [kind |-> reader.kind, rests |-> reader.rests, label |-> Label,
                      overtaken |-> Raced]
      /\ results' = IF reader.persist
                    THEN results \union {[rests |-> reader.rests, label |-> Label,
                                          overtaken |-> Raced]}
                    ELSE results
  BY DEF Answer
<1>3. reader.kind = "index" /\ reader.rests => Label = "synthetic" \/ Raced
  BY FlaggedIsLabelled DEF LabelInv, ReaderInv, Raced
<1>4. ReaderInv'
  BY <1>1, <1>2 DEF LabelInv, ReaderInv, NoRead
<1>5. ServedLabelled'
  <2>1. response'.kind = "index" =>
          LabelledAs(response') \/ response'.overtaken
    BY <1>2, <1>3 DEF LabelledAs, LabelInv, ReaderInv
  <2>2. \A r \in results' : LabelledAs(r) \/ r.overtaken
    BY <1>2, <1>3 DEF LabelInv, ServedLabelled, ReaderInv, LabelledAs
  <2> QED
    BY <2>1, <2>2 DEF ServedLabelled
<1> QED
  BY <1>1, <1>4, <1>5 DEF LabelInv

LEMMA ReadKeepsLabels ==
  ASSUME LabelInv, ReadStep, UNCHANGED <<collectionVars, publishVars, referenceVars>>
  PROVE  LabelInv'
<1>1. UNCHANGED <<collectionVars, publishVars>>
  OBVIOUS
<1>2. ASSUME NEW code, NEW frequency, ReadSeries(code, frequency)
      PROVE  LabelInv'
  <2>1. (\E k \in Series(code, frequency) : values[k].rests) => Flagged
    BY DEF Series, Flagged, LabelInv, ValuesInv
  <2>2. Begin("index", \E k \in Series(code, frequency) : values[k].rests, FALSE)
    BY <1>2 DEF ReadSeries
  <2> QED
    BY <1>1, <2>1, <2>2, BeginKeepsLabels
<1>3. ASSUME NEW months, NEW store, ReadComparison(months, store)
      PROVE  LabelInv'
  <2> DEFINE series == Series("headline", "monthly")
  <2>1. (\E k \in series : values[k].rests) => Flagged
    BY DEF Series, Flagged, LabelInv, ValuesInv
  <2>2. Begin("index", \E k \in series : values[k].rests,
              store /\ Cardinality({k[3] : k \in series} \cap months) >= MinMonths)
    BY <1>3 DEF ReadComparison
  <2> HIDE DEF series
  <2> QED
    BY <1>1, <2>1, <2>2, BeginKeepsLabels
<1>4. ASSUME NEW rests, Begin("other", rests, FALSE)
      PROVE  LabelInv'
  BY <1>1, <1>4, BeginKeepsLabels
<1>5. CASE GetIndex \/ GetRouteIndex \/ GetApwIndex
  BY <1>2, <1>5 DEF GetIndex, GetRouteIndex, GetApwIndex
<1>6. CASE GetBacktest \/ CmdBacktest
  BY <1>3, <1>6 DEF GetBacktest, CmdBacktest
<1>7. CASE GetElasticity \/ GetComponents \/ GetAvailability \/ GetCoverage \/ GetAvailabilitySeries
  BY <1>4, <1>7 DEF GetElasticity, GetComponents, GetAvailability, GetCoverage,
                    GetAvailabilitySeries, ReadStore, ReadAllQuotes
<1>8. CASE GetProvenance
  <2>1. PICK k \in DOMAIN values :
          Answered("index", values[k].rests, IF values[k].syn THEN "synthetic" ELSE "real")
    BY <1>8 DEF GetProvenance
  <2>2. values[k].rests => (IF values[k].syn THEN "synthetic" ELSE "real") = "synthetic"
    BY DEF LabelInv, ValuesInv
  <2> QED
    BY <1>1, <2>1, <2>2, AnsweredKeepsLabels
<1>9. CASE GetCpi
  BY <1>1, <1>9, AnsweredKeepsLabels DEF GetCpi
<1>10. CASE Answer
  BY <1>1, <1>10, AnswerKeepsLabels
<1> QED
  BY <1>5, <1>6, <1>7, <1>8, <1>9, <1>10 DEF ReadStep, Request

LEMMA InitLabels == Init => LabelInv
<1> SUFFICES ASSUME Init PROVE LabelInv
  OBVIOUS
<1>1. ValuesInv /\ ReaderInv /\ ServedLabelled
  BY DEF Init, ValuesInv, ReaderInv, ServedLabelled, Flagged, NoRead, NoResponse
<1>2. IsIndexer(Resting) /\ ~Active(Resting) /\ Resting.pc = "idle"
  BY DEF IsIndexer, Resting, Active
<1>3. indexer = [i \in Indexers |-> Resting] /\ indexRuns = 0
  BY DEF Init
<1>4. IndexerInv
  BY <1>2, <1>3 DEF IndexerInv, RunInv, Informed, InOrder
<1> QED
  BY <1>1, <1>4 DEF LabelInv

LEMMA NextLabels == LabelInv /\ [Next]_vars => LabelInv'
<1> SUFFICES ASSUME LabelInv, [Next]_vars PROVE LabelInv'
  OBVIOUS
<1>1. CASE CollectionNext /\ UNCHANGED <<publishVars, referenceVars, readVars>>
  BY <1>1, CollectionKeepsLabels
<1>2. CASE IndexStep /\ UNCHANGED <<collectionVars, referenceVars, readVars>>
  BY <1>2, IndexKeepsLabels
<1>3. CASE LoadStep /\ UNCHANGED <<collectionVars, publishVars, readVars>>
  BY <1>3, LoadKeepsLabels
<1>4. CASE ReadStep /\ UNCHANGED <<collectionVars, publishVars, referenceVars>>
  BY <1>4, ReadKeepsLabels
<1>5. CASE UNCHANGED vars
  BY <1>5, LoadKeepsLabels DEF vars
<1> QED
  BY <1>1, <1>2, <1>3, <1>4, <1>5 DEF Next

\* The published index, its values alone and every stored back-test statistic say
\* that they are synthetic when they are, however many index commands run and
\* however a reader's two reads fall among their steps, unless in between a run
\* that had read its quotes earlier replaces what a later reading has flagged.
THEOREM ServedAlwaysLabelled == Spec => []ServedLabelled
<1>1. LabelInv => ServedLabelled
  BY DEF LabelInv
<1> QED
  BY InitLabels, NextLabels, <1>1, PTL DEF Spec

-----------------------------------------------------------------------------
(***************************************************************************)
(* The contract.                                                           *)
(***************************************************************************)

\* The checks of the quality contract that look at the ledger.
LedgerChecks == {"provenance_hash_chain_intact", "every_provenance_id_resolves"}

LEMMA LedgerChecksHold ==
  ASSUME LedgerHonest, QuotesTraced, LabelInv, quality \cap LedgerChecks = {}, [Next]_vars
  PROVE  quality' \cap LedgerChecks = {}
<1>1. ASSUME NEW i \in Indexers, CheckQuality(i)
      PROVE  quality' \cap LedgerChecks = {}
  <2>1. indexer[i].snapshot \subseteq quotes /\ quality' = BlockingFailures(indexer[i].snapshot)
    BY <1>1 DEF CheckQuality, LabelInv, IndexerInv, RunInv, Informed
  <2>2. \A q \in indexer[i].snapshot : \E r \in ledger : HashOf(r) = q.pid
    BY <2>1 DEF QuotesTraced
  <2> QED
    BY <2>1, <2>2 DEF BlockingFailures, LedgerHonest, LedgerChecks
<1>2. CASE quality' = quality
  BY <1>2
<1>3. (\E i \in Indexers : CheckQuality(i)) \/ quality' = quality
  BY DEF Next, vars, publishVars, IndexStep, CmdIndex, CmdReproduce, ReadQuotes, WriteCells,
         WriteValues, KillIndexer
<1> QED
  BY <1>1, <1>2, <1>3

\* The index is never withheld on account of the ledger: whatever collects
\* beside the index command, the chain it verifies is intact and the quotes it
\* read resolve in it.
THEOREM LedgerNeverBlocks == Spec => [](quality \cap LedgerChecks = {})
<1>1. Init => quality \cap LedgerChecks = {}
  BY DEF Init
<1>2. /\ LedgerHonest /\ QuotesTraced /\ LabelInv
      /\ quality \cap LedgerChecks = {} /\ [Next]_vars
      => (quality \cap LedgerChecks = {})'
  BY LedgerChecksHold DEF LedgerChecks
<1> QED
  BY <1>1, <1>2, StackCollects, LedgerAlwaysHonest, QuotesAreTraced,
     InitLabels, NextLabels, PTL DEF Spec
=============================================================================
