----------------------------- MODULE EarlyStack -----------------------------
(***************************************************************************)
(* The earlier stack as a whole: collection, the index command, which      *)
(* passes a quality contract and publishes the engine's numbers, the       *)
(* reference series and the back-test, and the API's readers, all over one *)
(* SQLite file.  Every step is one statement, or one commit.               *)
(*                                                                         *)
(* Nothing keeps two index commands apart: each reads its quotes first and *)
(* writes last, so the one that writes later may have read earlier.        *)
(*                                                                         *)
(* Of a published number the model keeps where it stands, whether it rests *)
(* on simulated quotes, and the is_synthetic flag it carries.  Commands    *)
(* that only print (verify, status, elasticity, nowcast) are left out.     *)
(***************************************************************************)
EXTENDS EarlyCollection, EarlyEngine

CONSTANTS
  Method,           \* the method: basis, pinned, nMin, window, availability
  MinOmega,         \* min_omega_covered, in percent
  MonthOf,          \* the month of a period
  MinMonths,        \* MIN_MONTHS of the back-test
  MinObservations,  \* observations an elasticity fit needs
  Indexers,         \* processes that run `index` or `reproduce`
  MaxIndexRuns,     \* bound: runs of the index command
  MaxLoads          \* bound: files of reference series loaded

VARIABLES
  indexer,   \* each index command: which it is, its step, its place among the
             \* readings of the quotes, the quotes, and what it has computed
  indexRuns, \* readings of the quotes so far
  quality,   \* quality_check_result: failed BLOCK checks of the last run checked
  cellRows,  \* fact_cell_index, by period and cell
  values,    \* fact_index_value, by code, frequency and period; read, as
             \* history, is the place of the reading a row comes from
  overtaken, \* history: how often a run has replaced rows flagged synthetic by
             \* unflagged ones though it had read its quotes before they were read
  cpi,       \* months of fact_cpi_reference
  dgca,      \* fact_dgca_reference: rows [month, placeholder]
  loads,     \* files loaded so far
  reader,    \* a request in progress
  response,  \* the answer to the last request, until the next begins
  results    \* fact_backtest_result

publishVars == <<indexer, indexRuns, quality, cellRows, values, overtaken>>
referenceVars == <<cpi, dgca, loads>>
readVars == <<reader, response, results>>
vars == <<collectionVars, publishVars, referenceVars, readVars>>

NoOutput == [cells |-> <<>>, rows |-> {}, rests |-> FALSE, syn |-> FALSE]
Resting ==
  [command |-> "none", pc |-> "idle", read |-> 0, snapshot |-> {}, output |-> NoOutput]
NoRead  == [kind |-> "none", rests |-> FALSE, persist |-> FALSE, overtaken |-> 0]
NoResponse == [kind |-> "none", rests |-> FALSE, label |-> "none", overtaken |-> FALSE]

Init ==
  /\ CollectionInit
  /\ indexer = [i \in Indexers |-> Resting] /\ indexRuns = 0
  /\ quality = {} /\ cellRows = <<>> /\ values = <<>> /\ overtaken = 0
  /\ cpi = {} /\ dgca = {} /\ loads = 0
  /\ reader = NoRead /\ response = NoResponse /\ results = {}

-----------------------------------------------------------------------------
\* The index command.

PublishableOf(S) == {q \in S : Publishable(q)}

\* is_synthetic of a run: the maximum over its publishable quotes.
IsSynthetic(S) == \E q \in PublishableOf(S) : q.sim

\* attach_variant_prices: the engine's view of a quote, capped where it was
\* winsorised.
AttachPrices(S) ==
  {[source |-> q.key[1], day |-> q.key[2], product |-> q.key[3], fare |-> q.log] :
     q \in PublishableOf(S)}

\* run_contract: the BLOCK checks that fail.
BlockingFailures(S) ==
  {name \in {"0_lt_base_lt_total", "no_duplicate_kappa_t_source",
             "provenance_hash_chain_intact", "every_provenance_id_resolves"} :
     \/ name = "0_lt_base_lt_total" /\ \E q \in PublishableOf(S) : ~q.base
     \/ name = "no_duplicate_kappa_t_source" /\ \E p, q \in S : p # q /\ p.key = q.key
     \/ name = "provenance_hash_chain_intact" /\ ~Intact(ledger)
     \/ name = "every_provenance_id_resolves"
          /\ \E q \in S : \A r \in ledger : HashOf(r) # q.pid}

\* run(): the quotes are read first.  An empty store is refused.
ReadQuotes(i, command) ==
  /\ indexer[i].pc = "idle" /\ indexRuns < MaxIndexRuns /\ quotes # {}
  /\ indexRuns' = indexRuns + 1
  /\ indexer' = [indexer EXCEPT ![i] = [command |-> command, pc |-> "check", read |-> indexRuns',
                                       snapshot |-> quotes, output |-> NoOutput]]
  /\ UNCHANGED <<quality, cellRows, values, overtaken>>

CmdIndex(i) == ReadQuotes(i, "index")

\* `reproduce` runs the index again and writes it.
CmdReproduce(i) == DOMAIN values # {} /\ ReadQuotes(i, "reproduce")

Rest(i) == indexer' = [indexer EXCEPT ![i] = Resting]

Rests(S) == \E q \in PublishableOf(S) : q.sim

\* The rows of a run: its headline by day and, through to_frequency, by month,
\* where it covers enough of the lead times, and the window and route series
\* whatever they cover.
Rows(result) ==
  LET kept == Kept(result.byApw, result.headline, MinOmega)
  IN  {<<"headline", "daily", t>> : t \in kept}
        \union {<<"headline", "monthly", MonthOf[t]>> : t \in kept}
        \union {<<"window", "daily", k[1]>> : k \in DOMAIN result.byApw}
        \union {<<"route", "daily", k[1]>> : k \in DOMAIN result.byApw}

\* What a run writes.  All of it rests on simulated quotes if one quote does.
Output(S) ==
  LET result == EarlyCompute(AttachPrices(S), Method)
  IN  [cells |-> [k \in DOMAIN result.cells |-> result.cells[k].suppressed],
       rows |-> Rows(result), rests |-> Rests(S), syn |-> IsSynthetic(S)]

\* The contract's results are recorded, pass or fail.  PublicationBlocked, which
\* `index --ignore-quality` and `reproduce` do not raise, or the engine's refusal
\* ends the run.
CheckQuality(i) ==
  LET S        == indexer[i].snapshot
      blocking == BlockingFailures(S)
      refused  == ~CanCompute(Prepare(AttachPrices(S), Method), Method)
  IN  /\ indexer[i].pc = "check"
      /\ quality' = blocking
      /\ IF refused THEN Rest(i)
         ELSE \/ indexer' = [indexer EXCEPT ![i] = [@ EXCEPT !.command = "none", !.pc = "cells",
                                                            !.snapshot = {}, !.output = Output(S)]]
              \/ indexer[i].command = "index" /\ blocking # {} /\ Rest(i)
      /\ UNCHANGED <<indexRuns, cellRows, values, overtaken>>

\* INSERT OR REPLACE: rows of earlier runs under other keys stay.
Replaced(table, new) ==
  [k \in DOMAIN table \union DOMAIN new |-> IF k \in DOMAIN new THEN new[k] ELSE table[k]]

\* _write_cells, committed before the values are.
WriteCells(i) ==
  /\ indexer[i].pc = "cells"
  /\ LET output == indexer[i].output
     IN  cellRows' = Replaced(cellRows,
           [k \in DOMAIN output.cells |-> [rests |-> output.rests, suppressed |-> output.cells[k]]])
  /\ indexer' = [indexer EXCEPT ![i].pc = "values"]
  /\ UNCHANGED <<indexRuns, quality, values, overtaken>>

\* What i is about to publish takes a flag away that a later reading has set.
Overtakes(i) ==
  \E k \in indexer[i].output.rows \cap DOMAIN values :
    values[k].syn /\ ~indexer[i].output.syn /\ indexer[i].read < values[k].read

\* write_index_values.
WriteValues(i) ==
  /\ indexer[i].pc = "values"
  /\ LET output == indexer[i].output
     IN  values' = Replaced(values,
           [k \in output.rows |-> [rests |-> output.rests, syn |-> output.syn,
                                   read |-> indexer[i].read]])
  /\ overtaken' = IF Overtakes(i) THEN overtaken + 1 ELSE overtaken
  /\ Rest(i)
  /\ UNCHANGED <<indexRuns, quality, cellRows>>

\* The process is killed between two of its commits.
KillIndexer(i) ==
  /\ indexer[i].pc \in {"check", "cells", "values"}
  /\ Rest(i)
  /\ UNCHANGED <<indexRuns, quality, cellRows, values, overtaken>>

IndexStep ==
  \E i \in Indexers : \/ CmdIndex(i) \/ CmdReproduce(i) \/ CheckQuality(i)
                      \/ WriteCells(i) \/ WriteValues(i) \/ KillIndexer(i)

-----------------------------------------------------------------------------
\* Reference series.

Months == {MonthOf[t] : t \in DOMAIN MonthOf}

\* load_directory: months are added, or read again.
LoadCpi ==
  /\ loads < MaxLoads /\ loads' = loads + 1
  /\ \E months \in SUBSET Months \ {{}} : cpi' = cpi \union months
  /\ UNCHANGED dgca

\* load_dgca: a row of a month replaces the one that is there, whichever of the
\* two is a placeholder; without a source URL all of the file's are.
LoadDgca ==
  /\ loads < MaxLoads /\ loads' = loads + 1
  /\ \E months \in SUBSET Months \ {{}}, placeholder \in BOOLEAN :
       dgca' = {r \in dgca : r.month \notin months}
                 \union {[month |-> mo, placeholder |-> placeholder] : mo \in months}
  /\ UNCHANGED cpi

LoadStep == LoadCpi \/ LoadDgca

\* dgca_series leaves placeholders out.
DgcaSeries == {r.month : r \in {s \in dgca : ~s.placeholder}}

-----------------------------------------------------------------------------
\* Requests, one at a time.  Each reads its numbers, of the published index or
\* other ones, then how they are labelled.

Begin(kind, rests, persist) ==
  /\ reader' = [kind |-> kind, rests |-> rests, persist |-> persist, overtaken |-> overtaken]
  /\ response' = NoResponse
  /\ UNCHANGED results

\* The rows of one code and frequency; a request that finds none is a 404.
Series(code, frequency) == {k \in DOMAIN values : k[1] = code /\ k[2] = frequency}

ReadSeries(code, frequency) ==
  /\ Series(code, frequency) # {}
  /\ Begin("index", \E k \in Series(code, frequency) : values[k].rests, FALSE)

GetIndex      == \E f \in {"daily", "monthly"} : ReadSeries("headline", f)
GetRouteIndex == ReadSeries("route", "daily")
GetApwIndex   == ReadSeries("window", "daily")

\* Numbers computed on the spot from the publishable quotes.
ReadStore(enough) ==
  /\ Cardinality(PublishableOf(quotes)) >= enough
  /\ Begin("other", IsSynthetic(quotes), FALSE)

GetElasticity == ReadStore(MinObservations)
GetComponents == ReadStore(1)

\* Availability and coverage count every quote, whatever became of it.
ReadAllQuotes ==
  /\ quotes # {}
  /\ Begin("other", \E q \in quotes : q.sim, FALSE)

GetAvailability == ReadAllQuotes
GetCoverage     == ReadAllQuotes

\* The cell detail of the latest run that wrote it, and of those before it.
GetAvailabilitySeries ==
  LET live == {k \in DOMAIN cellRows : ~cellRows[k].suppressed}
  IN  live # {} /\ Begin("other", \E k \in live : cellRows[k].rests, FALSE)

\* The monthly headline against a comparator.  Only the command stores its
\* statistics, and only if enough months are in both.
ReadComparison(months, store) ==
  LET series == Series("headline", "monthly")
  IN  /\ series # {} /\ months # {}
      /\ Begin("index", \E k \in series : values[k].rests,
               store /\ Cardinality({k[3] : k \in series} \cap months) >= MinMonths)

GetBacktest == ReadComparison(cpi, FALSE)
CmdBacktest == ReadComparison(cpi, TRUE) \/ ReadComparison(DgcaSeries, TRUE)

\* Mutated: the flag of the first row found.
LabelOfAny ==
  IF DOMAIN values = {} THEN "none"
  ELSE IF values[CHOOSE k \in DOMAIN values : TRUE].syn THEN "synthetic" ELSE "real"

\* _meta: the greatest flag of all that is published.
Label ==
  IF DOMAIN values = {} THEN "none"
  ELSE IF \E k \in DOMAIN values : values[k].syn THEN "synthetic" ELSE "real"

\* Whether a flag was taken away, as above, since the request read its numbers.
Raced == reader.overtaken # overtaken

\* The answer; `backtest` also stores its statistics.
Answer ==
  /\ reader # NoRead
  /\ response' = [kind |-> reader.kind, rests |-> reader.rests, label |-> Label,
                   overtaken |-> Raced]
  /\ results' = IF reader.persist
                THEN results \union {[rests |-> reader.rests, label |-> Label,
                                      overtaken |-> Raced]}
                ELSE results
  /\ reader' = NoRead

\* Answered by one statement: a published value's own row carries its flag, and
\* the official series rests on no quote.
Answered(kind, rests, label) ==
  /\ response' = [kind |-> kind, rests |-> rests, label |-> label, overtaken |-> FALSE]
  /\ UNCHANGED <<reader, results>>

GetProvenance ==
  \E k \in DOMAIN values :
    Answered("index", values[k].rests, IF values[k].syn THEN "synthetic" ELSE "real")

GetCpi == cpi # {} /\ Answered("other", FALSE, "none")

Request ==
  \/ GetProvenance \/ GetCpi
  \/ GetIndex \/ GetRouteIndex \/ GetApwIndex
  \/ GetElasticity \/ GetComponents \/ GetAvailability \/ GetCoverage
  \/ GetAvailabilitySeries \/ GetBacktest \/ CmdBacktest

ReadStep == (reader = NoRead /\ Request) \/ Answer

-----------------------------------------------------------------------------
Next ==
  \/ CollectionNext /\ UNCHANGED <<publishVars, referenceVars, readVars>>
  \/ IndexStep /\ UNCHANGED <<collectionVars, referenceVars, readVars>>
  \/ LoadStep /\ UNCHANGED <<collectionVars, publishVars, readVars>>
  \/ ReadStep /\ UNCHANGED <<collectionVars, publishVars, referenceVars>>

Spec == Init /\ [][Next]_vars

-----------------------------------------------------------------------------
LabelledAs(r) == r.rests => r.label = "synthetic"

\* The published index, its values alone, and every stored back-test statistic say
\* that they are synthetic when they are, with one exception: rows are read before
\* the flag, and in between a run that had read its quotes earlier may replace
\* what a later reading had flagged.  No run in order takes the flag away.
ServedLabelled ==
  /\ response.kind = "index" =>
       LabelledAs(response) \/ response.overtaken
  /\ \A r \in results : LabelledAs(r) \/ r.overtaken

\* "Every response that carries numbers also carries ... whether the underlying
\* quotes are synthetic."
EveryResponseLabelled == LabelledAs(response)
=============================================================================
