--------------------------- MODULE EarlyCollection ---------------------------
(***************************************************************************)
(* Collection in the earlier stack (src/apix_collect): processes of        *)
(* `cli.py backfill` walk the source ladder day by day, append a record    *)
(* of every rung to the hash-chained provenance ledger, and store the      *)
(* day's cleaned quotes.  They share one SQLite file: a process reads the  *)
(* ledger's tip in one step and appends behind it in another, and the      *)
(* unique index on seq is what stops two of them.                          *)
(***************************************************************************)
EXTENDS EarlyQuotes, Sequences

CONSTANTS
  Collectors,       \* processes that run `backfill`
  Days,             \* calendar days, 1..n
  Ranges,           \* by process: <<first, last>> day it may be asked for
  Ladder,           \* the sources in the order of their rungs
  Type,             \* "simulator", "public_page", "duffel" or "other", by source
  EnabledSources,   \* enabled in sources.yaml
  KillSwitch,       \* sources whose host is on the kill switch
  RobotsFiles,      \* what a host's robots.txt may say: "ALLOWED",
                    \* "DISALLOWED", "UNREADABLE"
  Environments,     \* [simulate, keyed]: whether a process may simulate, and
                    \* whether it holds Duffel's credential
  Hashes,           \* values Python's hash() may take, one for each process
  Simulated(_, _),  \* the simulator's offers of a day, by the process's hash
  Fares,            \* what Duffel may offer, by day
  MaxRuns           \* bound: runs in the name of each process

\* What a source yields for a day: each row is stamped with its name.
RowsOf(rows, source, day) ==
  IsFiniteSet(rows) /\ \A o \in rows : o.source = source /\ o.day = day

ASSUME CollectionAssumption ==
  /\ Days \subseteq Nat \ {0} /\ \A d \in Days : 1..d \subseteq Days
  /\ Ranges \in [Collectors -> SUBSET (Days \X Days)]
  /\ Ladder \in Seq(DOMAIN Type) /\ Ladder # <<>>
  /\ \A i \in DOMAIN Ladder :
       /\ Type[Ladder[i]] \in {"simulator", "public_page", "duffel", "other"}
       /\ \A d \in Days :
            /\ Type[Ladder[i]] = "simulator" =>
                 \A h \in Hashes : RowsOf(Simulated(d, h), Ladder[i], d)
            /\ Type[Ladder[i]] = "duffel" => RowsOf(Fares[d], Ladder[i], d)
  /\ RobotsFiles \subseteq {"ALLOWED", "DISALLOWED", "UNREADABLE"}
  /\ Environments \subseteq [simulate : BOOLEAN, keyed : BOOLEAN]
  /\ MaxRuns \in [Collectors -> Nat]

VARIABLES
  ledger,  \* ledger_provenance: a set of records
  quotes,  \* fact_fare_quote
  coll     \* the processes

collectionVars == <<ledger, quotes, coll>>

Rungs   == DOMAIN Ladder
Genesis == <<>>
NoTip   == [seq |-> 0, hash |-> Genesis]

\* this_hash: a record's hash stands for the record, which run, day and rung
\* identify.
HashOf(r) == <<r.run, r.day, r.rung>>

\* The hashes are those of a chain: seq counts the records, and each holds the
\* hash of the one before it.  (verify_chain.)
Intact(records) ==
  \A r \in records :
    /\ r.seq \in 1..Cardinality(records)
    /\ \A s \in records : s.seq = r.seq => s = r
    /\ r.prev = IF r.seq = 1 THEN Genesis
                ELSE HashOf(CHOOSE s \in records : s.seq = r.seq - 1)

\* _tip: seq and hash of the last record.
Tip ==
  IF ledger = {} THEN NoTip
  ELSE LET last == CHOOSE r \in ledger : \A s \in ledger : s.seq <= r.seq
       IN  [seq |-> last.seq, hash |-> HashOf(last)]

Idle == [pc |-> "idle", nr |-> 0, simulate |-> FALSE, keyed |-> FALSE, hash |-> 0,
         first |-> 1, day |-> 1, last |-> 1, rung |-> 1, tip |-> NoTip,
         outcome |-> "", rows |-> {}, batch |-> {}, stored |-> FALSE]

CollectionInit ==
  /\ ledger = {}
  /\ quotes = {}
  /\ coll = [c \in Collectors |-> Idle]

RunOf(c)  == <<c, coll[c].nr>>
Source(c) == Ladder[coll[c].rung]
Running(c) == coll[c].pc \in {"rung", "append", "store"}

\* cmd_backfill: the range, --simulate (or the environment's switch), whether
\* the credential is set, and the seed of the interpreter's hash().
Start(c) ==
  /\ ~Running(c)
  /\ coll[c].nr < MaxRuns[c]
  /\ \E range \in Ranges[c], env \in Environments, h \in Hashes :
       /\ range[1] <= range[2]
       /\ coll' = [coll EXCEPT ![c] =
            [Idle EXCEPT !.pc = "rung", !.nr = coll[c].nr + 1, !.simulate = env.simulate,
                         !.keyed = env.keyed, !.hash = h,
                         !.first = range[1], !.day = range[1], !.last = range[2]]]
  /\ UNCHANGED <<ledger, quotes>>

-----------------------------------------------------------------------------
\* A rung is worked, and ledger.record reads the tip.

Enabled(c) ==
  Source(c) \in EnabledSources \/ (Type[Source(c)] = "simulator" /\ coll[c].simulate)

Obtained(c, outcome, rows) ==
  /\ coll[c].pc = "rung"
  /\ coll' = [coll EXCEPT ![c] = [@ EXCEPT !.pc = "append", !.tip = Tip,
                                           !.outcome = outcome, !.rows = rows]]
  /\ UNCHANGED <<ledger, quotes>>

SkipDisabled(c) == ~Enabled(c) /\ Obtained(c, "ERROR", {})

Simulate(c) ==
  /\ Enabled(c) /\ Type[Source(c)] = "simulator"
  /\ Obtained(c, "OK", Simulated(coll[c].day, coll[c].hash))

\* PolitenessGovernor.check, with the governor made new for the day: no request
\* has been counted and no breaker has opened.
Verdict(source, robots) ==
  IF source \in KillSwitch THEN "KILL_SWITCH"
  ELSE IF robots = "ALLOWED" THEN "OK" ELSE "ROBOTS_BLOCKED"

\* A public page is checked and never fetched; permission is recorded as ERROR.
CheckPage(c) ==
  /\ Enabled(c) /\ Type[Source(c)] = "public_page"
  /\ \E robots \in RobotsFiles :
       LET verdict == Verdict(Source(c), robots)
       IN  Obtained(c, IF verdict = "OK" THEN "ERROR" ELSE verdict, {})

\* The request of a route and window that fails is left out without a trace.
AskDuffel(c) ==
  /\ Enabled(c) /\ Type[Source(c)] = "duffel" /\ coll[c].keyed
  /\ \/ \E rows \in SUBSET Fares[coll[c].day] : Obtained(c, "OK", rows)
     \/ Obtained(c, "ERROR", {})

\* No credential, or no adapter.
SkipLicensed(c) ==
  /\ Enabled(c)
  /\ Type[Source(c)] = "other" \/ (Type[Source(c)] = "duffel" /\ ~coll[c].keyed)
  /\ Obtained(c, "ERROR", {})

-----------------------------------------------------------------------------
\* The record is inserted behind the tip that was read.

\* Mutated: seq is not unique.
SeqTakenNever(c) == FALSE

\* ux_ledger_seq refuses the insert.
SeqTaken(c) == \E r \in ledger : r.seq = coll[c].tip.seq + 1

Record(c, tip, outcome, n) ==
  [seq |-> tip.seq + 1, prev |-> tip.hash, run |-> RunOf(c), day |-> coll[c].day,
   rung |-> coll[c].rung, source |-> Source(c), outcome |-> outcome, n |-> n]

\* Mutated: rows whose record was refused are kept.
NextRungKeeping(c, rows) ==
  coll' = [coll EXCEPT ![c] =
    [@ EXCEPT !.pc = IF coll[c].rung = Len(Ladder) THEN "store" ELSE "rung",
              !.rung = IF coll[c].rung = Len(Ladder) THEN 1 ELSE coll[c].rung + 1,
              !.batch = coll[c].batch \union
                          {[offer |-> o, pid |-> <<RunOf(c), coll[c].day, coll[c].rung>>] :
                             o \in coll[c].rows},
              !.tip = NoTip, !.rows = {}, !.outcome = ""]]

\* The rows are stamped with the record's id, and the ladder goes on.
NextRung(c, rows) ==
  coll' = [coll EXCEPT ![c] =
    [@ EXCEPT !.pc = IF coll[c].rung = Len(Ladder) THEN "store" ELSE "rung",
              !.rung = IF coll[c].rung = Len(Ladder) THEN 1 ELSE coll[c].rung + 1,
              !.batch = coll[c].batch \union
                          {[offer |-> o, pid |-> <<RunOf(c), coll[c].day, coll[c].rung>>] :
                             o \in rows},
              !.tip = NoTip, !.rows = {}, !.outcome = ""]]

AppendRecord(c) ==
  /\ coll[c].pc = "append" /\ ~SeqTaken(c)
  /\ ledger' = ledger \union
       {Record(c, coll[c].tip, coll[c].outcome, Cardinality(coll[c].rows))}
  /\ NextRung(c, coll[c].rows)
  /\ UNCHANGED quotes

\* Only Duffel's success is recorded inside a try: its handler drops the rows
\* and records the error.  The refused insert has opened the transaction, so no
\* other process appends between the handler's reading of the tip and its
\* insert.
RecordDuffelError(c) ==
  /\ coll[c].pc = "append" /\ SeqTaken(c)
  /\ Type[Source(c)] = "duffel" /\ coll[c].keyed /\ coll[c].outcome = "OK"
  /\ ledger' = ledger \union {Record(c, Tip, "ERROR", 0)}
  /\ NextRung(c, {})
  /\ UNCHANGED quotes

\* Elsewhere the IntegrityError ends the process; what it held is lost.
Ended(c, pc) == coll' = [coll EXCEPT ![c] = [Idle EXCEPT !.pc = pc, !.nr = coll[c].nr]]

DieOfCollision(c) ==
  /\ coll[c].pc = "append" /\ SeqTaken(c)
  /\ ~(Type[Source(c)] = "duffel" /\ coll[c].keyed /\ coll[c].outcome = "OK")
  /\ Ended(c, "died")
  /\ UNCHANGED <<ledger, quotes>>

-----------------------------------------------------------------------------
\* insert_quotes: INSERT OR IGNORE on product, day and source, in one commit.
Inserted(c) ==
  LET offers == {b.offer : b \in coll[c].batch}
  IN  {q \in {Cleaned(b.offer, b.pid, offers) : b \in coll[c].batch} :
         \A p \in quotes : p.key # q.key}

\* The end of collect_day; at the end of the range a run that stored nothing
\* raises NoQuotesCollected, days stored by an earlier run included.
Store(c) ==
  /\ coll[c].pc = "store"
  /\ LET new    == Inserted(c)
         stored == coll[c].stored \/ new # {}
     IN  /\ quotes' = quotes \union new
         /\ IF coll[c].day < coll[c].last
            THEN coll' = [coll EXCEPT ![c] =
                   [@ EXCEPT !.pc = "rung", !.day = coll[c].day + 1, !.batch = {}, !.stored = stored]]
            ELSE coll' = [coll EXCEPT ![c] =
                   [@ EXCEPT !.pc = IF stored THEN "done" ELSE "refused",
                             !.batch = {}, !.stored = stored]]
  /\ UNCHANGED ledger

Crash(c) ==
  /\ Running(c)
  /\ Ended(c, "died")
  /\ UNCHANGED <<ledger, quotes>>

CollectorStep(c) ==
  \/ SkipDisabled(c) \/ Simulate(c) \/ CheckPage(c) \/ AskDuffel(c) \/ SkipLicensed(c)
  \/ AppendRecord(c) \/ RecordDuffelError(c) \/ DieOfCollision(c) \/ Store(c)

CollectionNext == \E c \in Collectors : Start(c) \/ CollectorStep(c) \/ Crash(c)

CollectionSpec == CollectionInit /\ [][CollectionNext]_collectionVars

-----------------------------------------------------------------------------

\* The days of its range a live or finished run has put behind it.
DaysDone(c) ==
  {d \in coll[c].first..coll[c].last :
     d < coll[c].day \/ (d = coll[c].day /\ coll[c].pc \in {"store", "done", "refused"})}

\* However processes race and die, the chain verifies, and a run that got past
\* a day holds one record of every rung of it: "every fetch writes an
\* append-only record".
LedgerHonest ==
  /\ Intact(ledger)
  /\ \A c \in Collectors : coll[c].pc \in {"rung", "append", "store", "done", "refused"} =>
       \A d \in DaysDone(c), i \in Rungs :
         Cardinality({r \in ledger : HashOf(r) = <<RunOf(c), d, i>>}) = 1

\* Every stored quote leads to a record of a successful fetch of its source on
\* its day, which counted at least as many quotes as lead to it.
QuotesTraced ==
  \A q \in quotes : \E r \in ledger :
    /\ HashOf(r) = q.pid /\ r.outcome = "OK"
    /\ q.key[1] = r.source /\ q.key[2] = r.day
    /\ r.n >= Cardinality({p \in quotes : p.pid = q.pid})
=============================================================================
