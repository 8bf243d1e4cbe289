# Nabhsetu: TLA+ models, model-checking runs and proofs

This directory holds a formal model of the Nabhsetu (APIx) collection and
publication back end (`src/backend`) and of the file-based stack it was
rewritten from (`src/src`, `src/cli.py`, still shipped beside it), the TLC runs
that check them and the theorems TLAPS proves. Every definition that stands for code is listed
with its file and lines in `PROJECT.json` under `map`.

## 1. The system

| Component | State it keeps | Operations | Talks to |
|---|---|---|---|
| Scheduler (`worker/scheduler.py`) | none | each cycle: read the source profiles, create one pending job per source, route and lead time, commit | database |
| Collection worker (`worker/runner.py`) | none between cycles | claim the oldest pending job, execute it, commit; on an exception log and loop | service, database |
| API (`api/`) | none | `POST /collection-jobs` creates and executes a job in the request's transaction; read-only routes; operator triggers | service, database |
| Collection service (`services/collection.py`) | job row | set RUNNING, refresh robots.txt (live), route, persist observations and provenance, set the final status | router, repositories |
| Compliance governor (`acquisition/compliance.py`) | rate window, leases | evaluate: profile checks, reserve capacity, issue a lease; release | repositories |
| Rate window (`repositories/jobs.py`) | request_count, in_flight, last_request_at, cooldown_until per source and day | reserve, release | database |
| Registry and circuit breaker (`acquisition/registry.py`, `circuit_breaker.py`) | per adapter: circuit state, consecutive failures, cooldown | rank collectors, record an outcome | repositories |
| Router (`acquisition/router.py`) | the run's candidates, retries, egress | collect: attempt, retry, fall back, fail over, stop | governor, registry, egress, collectors |
| Collectors and HTTP client (`acquisition/adapters`, `acquisition/http.py`) | page cache for the process's container | fetch, classify, parse | the fare source |
| Robots discovery (`acquisition/discovery/robots.py`, `path_policy.py`) | a snapshot per job; the policy's blocked_paths, kept | fetch, list, merge, permit | the source, database |
| Egress (`network_egress/`, `repositories/egress.py`) | nodes (healthy, failure_count, active_sessions), sticky sessions | acquire, fail over | database |
| Quality and ledger (`quality/`, `repositories/observations.py`) | observations, flags, provenance | validate, detect duplicates, store | database |
| Index pipeline (`pipeline/`, `worker/publisher.py`, `apix_index/`) | index runs, published values | clean, compute, publish | database |
| Earlier collection (`src/src/apix_collect`) | hash-chained ledger, quotes, in one SQLite file | `backfill`: walk the ladder of sources for each day, record every rung, clean and store | the sources, the file |
| Earlier index command (`apix_pipeline`, `apix_index`) | index values, cell rows, quality results | `index`, `reproduce`: read quotes, check the contract, compute, write cells, write values; no lock keeps two of them apart | the file |
| Earlier API and commands (`apix_api`, `apix_reference`, `cli.py`) | reference series, back-test results | load CPI and DGCA files, back-test, answer requests with a synthetic-or-real label | the file |
| Reference data, backtesting, parsers, dashboard, front end | | | |

What is hard in it: a whole job is one database transaction at READ COMMITTED,
with plain SELECTs whose results are written back later; several workers and API
requests run such transactions at once; a transaction may die at any point after
the source was contacted; retries, fallbacks and cooldowns interact with a page
cache, a lease and the end of the day.

## 2. What makes it correct, and what is hard

| Part | It is correct when | Hard because |
|---|---|---|
| Job transaction (worker, API, service) | a job is run by one session, settles once, and its status, observations, reservation and restriction become visible together or not at all | sessions interleave at READ COMMITTED, ORM flushes decide when locks are taken, crashes come at any point |
| Rate capacity | no collection goes uncounted, the daily cap holds, an idle source is never shut out | the counter is read, then written as an absolute value; the window's key is the UTC date |
| Refusals | a 403 or CAPTCHA ends all contact with the source, in the run and for good | collectors reclassify pages; in a browser the statuses arrive through a callback |
| Retries, fallback, egress | requests stay bounded, egress changes only for network failures, every run ends and gives its slot back | many return paths, a page cache, a lease shorter than a run |
| Circuit breaker | an adapter failing run after run is no longer tried | the state is computed from the profile loaded before the run |
| Provenance ledger | every link names a stored earlier link; one chain | the newest *committed* record is read without a lock |
| robots.txt | what a source has listed is not requested, whatever it answers next time | read anew by each job, two readings of one file, unreadable answers |
| Egress | a failover leaves the failed node, and no refusal causes one | sticky sessions, health and load change in one call |
| Cleaning | the quotes of an index are those that pass, at a price their cell-day bounds | sold out, stale, repeated and outlying observations mix in one cell |
| Earlier ledger | the chain verifies and every stored quote leads to a fetch that counted it | processes race for the tip; one branch catches the collision, the others die of it |
| Earlier API | no number that rests on simulated fares is passed off as real | rows and label are read in two statements, values and cells committed in two, and of two overlapping runs the one that read earlier may write later |
| Index | the base reads 100, weights are those declared whatever is missing, published values do not move | cells go missing, the window is centred, the base is chosen from the data, old quotes are gated out |

The hazards, each at its line and with the properties that would show it going
wrong, are listed in `PROJECT.json`.

## 3. Modules

| Module | Models | State and actions in the code |
|---|---|---|
| `Collection` | scheduler, worker, API submission, service and database | one `pc` step per flush or read that other transactions can notice. `Claim` is `next_pending` (oldest pending, `FOR UPDATE SKIP LOCKED`), `RefreshRobots` the UPDATE of the source row that the router's next SELECT flushes, `ReadWindow`/`InsertWindow`/`FlushReservation` the reservation's SELECT, INSERT and flushed UPDATE, `Persist` the observations and their link, `CommitDenied`/`CommitCollected` the one commit, `Rollback` a crash or exception. Uncommitted work is in the session's locals |
| `AtomicCollection` | the promise | each job in one step on the state it finds; the live `Collection` implements it (`Atomic == INSTANCE AtomicCollection WITH stored <- {r.job : r \in ledger}`) |
| `RateWindow` | reserve and release of one source over calendar days | `Reserve`/`Refuse` are `reserve()`, `Release` is `release()` with or without a 429, `Rollback` the transaction's end, `Tick` the clock. `Collection` has the races, this module the calendar |
| `SourcePages` | what a page means | the status of `FetchedPage`, challenge and denial texts, feed, landing pages and browser captures, as functions of a code and a text class |
| `AdapterCircuit` | circuit breaker and ranking | `snapshot_after`, `can_probe`, the row written, the ranking |
| `RobotsRules` | robots.txt | `DisallowPaths` is the line scanner whose list the policy keeps (`Merged`), `Denied` the library's parser; `RobotsStatus` is `fetch_robots` |
| `EgressPool` | egress nodes, sticky sessions, failover | `Acquire`, `Failover`, `SelectNode` and the three providers as operators on a pool |
| `AcquisitionRouter` | runs of the router against one source | composes the four above. `ReadRobots` opens every job, `DenyRun` is a refusal by the governor, `StartRun` is evaluate, rank and acquire; `SessionExpires` ends a sticky session; `BeginHttp`, `ReadCached`, `SkipDisallowed`, `Ask`, `Crash` one HTTP attempt; `OpenBrowser`, `OnResponse`, `Loaded`, `FillSearch`, `Captured`, `BrowserFails` a session and its callback; `Settle` what `collect()` does with a result (`RecordOutcome`, failover, retry, next collector, `EndRun` = release) |
| `IndexEngine` | `apix_index.engine.compute` | pure operators: `Prepared`, `ChooseBase`, `Elementary` (Jevons, availability blend, suppression), `Smoothed`, `Young`, `Headline` |
| `QuoteCleaning` | `clean_observations` | validation, freshness and sold-out gates, Tukey and Hampel bounds of a cell-day, winsorising, `PublicationDisposition`; prices that the fences bring down to nothing are left out, as `_prepare` does |
| `IndexHistory` | the published series as observations arrive | `Publish(today, batch)`: observations of the day are stored, all are cleaned, the whole series is computed anew |
| `IndexPublication` | publications and starting APIs as concurrent transactions | `Lookup`, `Insert`, `Conflict` are `ensure_versions()`, one SELECT or INSERT at a time; `List`, `Complete`, `Store` are `publish()`, `Skip` the `ValueError` of `compute()`, whichever of its causes (`Computable`), and what the worker and a request make of it; `Commit` and `Crash` end the transaction. `Latest` is `latest_run()`, by which every reader finds the series |
| `EarlyQuotes` | earlier stack, offer to quote | components, validity gates, outlier filters, disposition, as operators |
| `EarlyCollection` | earlier stack, `backfill` processes | `Obtained` is a rung with the reading of the ledger's tip, `AppendRecord`, `RecordDuffelError`, `DieOfCollision` what the unique index makes of the insert, `Store` the day's commit, `Crash` a kill |
| `EarlyEngine` | earlier stack, `apix_index` | the engine as operators, by flight and sum where `IndexEngine` has sets and means; `IndexHistory` gives both the same quotes |
| `EarlyWeights` | earlier stack, basket and weights | `ExpandBasket`, `BuildWeights`; the instance's weights are built with them |
| `EarlyStack` | earlier stack as a whole | `EarlyCollection` with `ReadQuotes`, `CheckQuality`, `WriteCells`, `WriteValues`, `KillIndexer` of any number of `Indexers` side by side (the index command; each run keeps its place among the readings of the quotes, and `overtaken` counts how often an earlier reading took the flag from what a later one had published), the loads, and one action per endpoint that reads numbers, answered with `Label` in a second step |
| `MC*` | instances for TLC | constants only |
| `SetLemmas` | facts about finite sets | induction over the subsets of a finite set, least and greatest elements, sums however their terms are enumerated, renamed or grouped |
| `CollectionProofs`, `RateWindowProofs`, `AcquisitionRouterProofs`, `IndexHistoryProofs`, `IndexPublicationProofs`, `EarlyStackProofs` | theorems | each extends the module it is named for, with what that module composes (`EgressPool`, `AdapterCircuit`, ... for the router, `EarlyCollection` for the stack) |
| `EngineProofs` | theorems | the arithmetic of the index: extends `IndexHistoryProofs` |

How the models meet: `Collection`'s `Collect` stands for one whole run of
`AcquisitionRouter` (any result), its reservation is one `Reserve` of
`RateWindow`, and the ledger it fills is what `IndexHistory` reads. One
`Complete` of `IndexPublication` is one `Publish` of `IndexHistory`. The two
stacks share no state; they meet in `EnginesAgree`, where one set of quotes goes
through both engines.

Abstractions that matter: a `CollectionStatus` is grouped with those the service
treats alike; a page is a status code and a text class; a robots.txt is its agent
and disallow lines in order, and a path is the set of pages it is a prefix of; an
egress node is its health and its load; a
fare is its logarithm, and `Level` stands for `100 * exp`, of which only
monotonicity and `Level(0) = Hundred` matter, so that every mean of an instance
is exact; freshness is counted in days in `IndexHistory`, while in `IndexPublication`
the observations are what a publication finds them to come to (`Kinds`: none passes the gates, none of
them has a price, none is of the period that may be pinned, or some are), any of these at any listing;
the chain link, one factor on every
published level, is left out of the index (values are `value_native`), though not its refusal by
`compute()` (`Methods`).

## 4. Runs

| Run | Asks | Outcome |
|---|---|---|
| `collection_live` | two workers and an API request compete for one source with a limit of 2, with a crash: exclusive claims, exact counting, the cap, no contact after a refusal, final results, refinement of `AtomicCollection`, every job settles | holds |
| `collection_mock` | mock mode, two sources, no robots UPDATE and so no lock before the read: all-or-nothing, grounded provenance, every transaction ends | holds |
| `chain_fork` | is the provenance ledger one chain? | violated: two sources' transactions link to the same record |
| `router_http` | everything two pages over HTTP can answer, two runs, three robots.txt, two proxies and a direct node with a sticky session: refusals, 429s, failovers, listed pages, the breaker | holds |
| `router_full` | feed, HTML, network and DOM collectors with lease, four robots.txt, browser failures: request budget, one browser session a run, slot, termination | holds |
| `rate_days` | rate windows over two midnights | holds |
| `midnight_backoff` | is the backoff after a 429 kept over midnight? | violated |
| `index_history` | three days of observations in every combination, cleaned and computed by six methods: staged aggregation equals effective weights, both engines agree, and, of ledgers in which every observation is fresh and no fare is zero, the base stays and the past stands but for smoothing, for fare families that appear later, and while a pinned base day is still being collected | holds |
| `index_publication` | a worker, a request and a starting API, on two versions of the configuration, publish side by side with a crash anywhere: every run names versions that exist, a whole series is served, none is hidden behind one it knew, each run's status says what became of it (`RUNNING` for good where there were quotes that `compute()` refuses), a conflict costs one attempt, nobody waits for ever | holds |
| `early_collection` | one process collects two days and another one of them over three rungs, with a crash or a collision anywhere: the chain verifies, each day passed has its records, quotes lead to a fetch that counted them | holds |
| `early_stack` | one collector, two processes that index or reproduce, loads and readers over one file: published series, single values and stored statistics carry the synthetic flag they should, unless in between a reader's two reads an earlier reading was published over a later one (`overtaken`) | holds |
| `unlabelled` | does every response that carries numbers carry the flag? | violated |

Each violated property states what a document or comment of the repository says;
`findings` in `PROJECT.json` quotes the line.

Bounds, and why they suffice:

- `Collection`: three jobs on one source and `Limit = 2` let two transactions
  hold the last two reservations while a third is waiting and then refused; a
  restricted source still has jobs to refuse. One rollback reaches every
  step. Mock mode has two sources so that transactions run side by side and share
  only the ledger. `NoLostReservation` and `QuotaHeld` are live-mode
  properties: see the observations.
- `AcquisitionRouter`: two retries and a threshold of two in two runs let the
  circuit open in the second run and let a run fail within its retries without
  tripping it. `router_full` leaves the embedded JSON collector out since it
  requests the very page the HTML collector does (`router_http` has both), and
  starts from `OpenAtFirst`: the HTML circuit closed, or opened by earlier runs,
  which the source's errors reach in `FailureThreshold` runs.
- `RateWindow`: 14 ticks with five per day is two midnights, with a cooldown (3)
  and an interval (2) that reach across either.
- `AcquisitionRouter`, robots and egress: `HttpRobots` has a file without rules, one that
  lists a page, and an unreadable one, so that a listing is followed by its absence;
  `KindsRobots` has one group for our agent, one shared by several agents, and a ban.
  Two proxies let a failover find another node and, after a second one, none;
  `MaxLoad = 1` separates a used node from an unused one.
- `IndexHistory`: seven products (three fare families on a flight, a carrier and a route
  that enter late, carriers whose declared weights sum to nothing, an unknown carrier), two
  sellers of one fare, repeated, sold-out and outlying observations, one day on which four sellers list a flight at
  nothing, three captures a day that may be stored in any combination, three days (3504 states), so that a smoothing window of three has
  both an inside and an outside. Levels and fares are in units that every division of the
  instance leaves whole. The methods are: unsmoothed and unpinned; pinned and smoothed;
  the travel basis; smoothed with yesterday as the oldest fresh day; pinned on the booking basis
  with the availability adjustment, which a fare family seen later may widen (`Widest`); pinned
  to the second day, whose base is published again while that day is being collected. `AggregatesAgree`
  and `EnginesAgree` are checked of all of them; `BaseStays` and `PastStands` say nothing of the
  method with the freshness gate, nor once a fare of zero is stored. The shipped gate is 36 hours,
  so of a deployed series they speak as long as it is younger than that, or as far as the gate is
  raised: a day that goes stale takes its quotes, and the base if it is that day, out of the series.
- `EarlyCollection`: two processes, three rungs (the simulator, Duffel, a page), one
  process on both days and the other on one of them, let a
  collision fall on a first record, within a day and on a later day, and reach a rung of
  each way of fetching. One rung has a try
  around its record (Duffel with a credential), the others none.
- `EarlyStack`: one collector that runs twice (simulated or real), two runs of the index
  command, two days of one month, one load of reference months, and one request at a time;
  requests only read. The two runs may overlap: two `Indexers` and two readings of the quotes
  suffice for the earlier reading to be published last, before or after a reader's first read; the
  proof has any number of either. The two are alike, hence the symmetry (`IndexersAlike`; the
  run checks an invariant only).
- `IndexPublication`: two sessions at most insert the same row at once, a third waits or
  finds it; two publications suffice to commit out of order, and the second of
  a session meets what it lost the first time. One crash reaches every step. Two versions let
  an API start with newer files than the worker's. Whether the method leaves the base free, pins it, or
  holds a number `compute()` refuses is chosen at the start; what the observations come to is
  chosen anew at every listing.

Fairness:

- `Collection`: `WF(Claim)` because a worker loops for ever; `SF(Proceed)` because
  PostgreSQL queues the waiters of a row lock, so that a step enabled again and
  again is taken. Scheduler, clients and crashes are not fair, and
  crashes are bounded.
- `AcquisitionRouter`: `WF(Proceed)` because every request and browser step has a
  timeout. The callback, the lease and the cooldowns are not fair.
- `IndexPublication`: `WF(Step(p))` for each session: a transaction goes on unless its process
  dies, and PostgreSQL wakes the one waiter of a unique key when the holder ends. That a
  publication is begun at all is not fair.
- `RateWindow`, `IndexHistory`, `EarlyCollection`, `EarlyStack`: none; the earlier stack's
  commands run when an operator starts them.

`CHECK_DEADLOCK FALSE`: all jobs settled, all runs used up, the clock or the days
at their bound are proper ends. That no transaction waits for ever is
`EveryTransactionEnds`, `EveryJobSettles` and `EveryPublicationEnds`.

## 5. What is proved

For any number of sessions, jobs, sources, rollbacks and any limit
(`CollectionProofs`; assumption: `CollectionAssumption`):

| Theorem | Says |
|---|---|
| `InductiveInvariant`, `TypeCorrect` | `IInv` is inductive; types |
| `JobsClaimedOnce` | `ExclusiveClaim` |
| `SuccessMeansStored` | `AllOrNothing`, in either mode |
| `ProvenanceGrounded` | `ChainGrounded`, in either mode |
| `LiveReservationsKept`, `LiveQuotaHeld`, `LiveBlockedStops` | the live service neither loses a reservation, nor passes the cap, nor contacts a refused source |
| `ResultsAreFinal` | `Settled` |
| `LiveIsAtomic` | every step of the live service is a step of `AtomicCollection` or a stutter |

`AllOrNothing` is not inductive: that a commit adds the only record of its job
needs that no unsettled job has one and that a session's uncommitted link is for
the job it holds (`LedgerInv`), with the claim exclusive (`ClaimInv`). `ChainGrounded` needs
the uncommitted links grounded as well, and the clock ahead of every record
(`ChainInv`). The live properties rest on `LockInv`: a transaction past its robots refresh
holds its source's row lock, hence it is alone on the source, so the count
and the restriction it read are still those committed when it writes them back.
This is the argument that the robots UPDATE, flushed early by autoflush, is what
serialises live collection. Each action has a lemma per part.

For any day length, limits and intervals (`RateWindowProofs`; assumption:
`RateAssumption`): `WindowInvariant`, `WindowTypeCorrect`, `SlotAlwaysFree`, `QuotaAlwaysHeld`,
`BackoffHeldWithinDay`, `IntervalHeldWithinDay`. The invariant says that during a
run the windows are those before it but for one row, that row's counters are one
up, all slots from the current day on were free before it, and each count is what
committed runs reserved. The last two theorems carry a second invariant,
`Remembered`: the row of the day on which a run reserved still holds its start
and the backoff it was given.

For any publishers, versions and numbers of runs and crashes
(`IndexPublicationProofs`; assumption: `PublicationAssumption`): `TypeCorrect`,
`LineageAlwaysResolves`, `ServedAlwaysWhole`, `KnownRunAlwaysSuperseded`, `RunsAlwaysDecided`,
`ConflictAlwaysOnce`. None of these is inductive. `Typed` says what a transaction has in hand at
each step: a run names the versions of its session. With it three
invariants are inductive: `Lineage`, an uncommitted row is one session's alone and its key is in
no committed row, so a rollback cannot take away a row that a committed run names; `Stamped`, what a
listing saw was completed before the run is, so the latest run is newer than anything any
completed run has seen; `LostOnce`, a lost key is committed, so no later lookup misses it.
For `RunsAlwaysDecided` it also says of the row a session is about to commit, and of every committed
one, that its status agrees with what its listing found and with whether the method computes from that
(`Decided`).

For any chain of collectors, pages, robots.txt files, egress nodes, retries and thresholds
(`AcquisitionRouterProofs`; assumptions: `RouterAssumption`,
`EgressAssumption`, `CircuitAssumption`, among them that the chain names a collector once and a
collector asks each of its pages once, as the registry and `landing_urls` see to):

| Theorem | Says |
|---|---|
| `RankedOnce`, `RecordedCircuit`, `FailoverLeaves` | the ranking is a permutation, by score, of the collectors that may be asked; what an outcome writes to a circuit; what a failover leaves |
| `Typed`, `SlotIsReturned` | `TypedInv` is invariant; with it `SlotReturned` |
| `AskBudgetKept` | `AskBudget`: no page is asked more often in a run than its readers and their retries account for, and the browser is opened once |
| `BreakerAlwaysTrips` | `BreakerTrips` |
| `FailoverAlwaysMoves` | `FailoverMoves` |
| `ListedIsKept` | `ListedStays` |
| `RefusalIsKept`, `RefusalEndsContact`, `LimitIsKept`, `EgressNeverEvades` | `RefusalRestricts`, `NoContactAfterRefusal`, `LimitBacksOff`, `EgressForNetworkOnly`, under `HttpOnly` |

`TypedInv` is `RunInv` (the queue repeats no collector and is non-empty just while a run is on, the
slot is taken just then, retries are within their bound) and `FetchInv` (the pages left are
distinct pages of the collector tried, and a stop for the network means something unreachable
was seen). `AskBudget` is not inductive, since a page is asked by several collectors: `AskInv`
bounds the requests of a page by a run's worth of attempts for every reader that is done with
it and by the attempts the present one has spent; `OpenedInv` says that once the browser has been
opened its session is open or captured, whatever it ended with. `BreakerTrips` needs `BreakerInv`: a
streak never exceeds the failures of the circuit's row nor, for a collector still queued,
those of the profile the run read at its start, which is what `snapshot_after` counts from. `ListedInv` says that a page listed in robots.txt is blocked by the policy and denied
by the run's own file. The four properties about refusals rest on `HeardInv`: a refusal
heard means a restricted source and no run, a 429 heard means no run; between the answer and
`Settle` there is no step, because over HTTP the answer is the result. `HttpOnly` says just that:
the chain is of the HTML and embedded JSON collectors, the instance of `router_http`. It is
not a convenience: the structured feed and the browser collectors break these four (see the
observations).

For any captures, products, methods and number of days (`IndexHistoryProofs`; assumption:
`HistoryAssumption`): `BaseAlwaysStays` (`BaseStays`) and `PastAlwaysStands` (`PastStands`). Both are
about ledgers in which every observation is fresh (`AllFresh`) and no fare is zero (`NoZeroFares`).
The invariant is that the ledger holds observations of no day after today (`LedgerTyped`) and that
quotes and index are those computed from it (`IndexCurrent`). While all observations are
fresh a row is quoted just when it is good by itself and its winsorised price is above nothing
(`KeptIsGood`). Where no fare of zero is stored it
always is: the fences of a cell-day lie on either side of its quartiles, and a price brought back
to one stays within the bag or between it and the fence (`RankedIs`, `Quartiles`,
`WinsorisedWithin`, `PriceIs`). Since prices are
bounded against those of the same cell and day (`DaysApart`), a publication then adds
quotes of its own day, takes no product of it away and changes no earlier day (`QuotesGrow`). Once a base carries every
lead window it is the first day that does, so it stays (`BaseIsFull`); what lies before today is then followed through the
stages of the engine: panel, cells (`CellStands`, with the largest reference in
`ReferenceIsWidest`), smoothing (`WindowStands`), headline. Without the hypothesis that the pinned
base is not today's the proof of the cells fails, and TLC shows why on the sixth method:
a base still being collected moves what is divided by it.

The two properties about the arithmetic of the index are in `EngineProofs`, again for any captures,
products, methods and number of days, with logarithms of integer value (`LogsAreIntegers`). They
rest on `EngineInv`, that what is served is what the engine computes from the quotes
served. Sums over sets are the matter of both. The library states induction over a
finite set with an operator as parameter, which the provers cannot instantiate;
`SetLemmas` states it with a set of subsets in the place of the operator (`SetInduction`,
from the well-foundedness of strict inclusion), and derives from it that a sum does not depend on the order
its terms are chosen in, may be renamed, and may be grouped.

- `AggregatesAlwaysAgree` (`AggregatesAgree`). Each stage of the headline is a sum of shares
  (`StageIsSum`; `CarrierStage`, `RouteStage`, `WindowStage` name the groups), and the groups of one
  stage are the terms of the next, so that the three stages multiply out to the effective
  weight of a cell (`HeadlineIsEffective`). Divisions are the only obstacle: `WholeAssumption`
  says that the unit in which weights are counted divides by the total weight of any windows, routes or
  carriers that may survive, and `LevelsDivide` that each level is a multiple of its cube; with reals
  neither would be needed. TLC evaluates the assumption on the instance.
- `EnginesAlwaysAgree` (`EnginesAgree`). The panels and the base period are the same (`EarlierPanel`,
  `EarlierBase`); cells and flights are records here and tuples there, one for one (`EarlierKeys`);
  counts and sums by flight are those of the matched rows, and so are the lowest fares and the families
  (`EarlierRelatives`, `EarlierLowest`, `EarlierFamilies`), hence the cells (`EarlierCells`). The clamp of the
  earlier availability blend never acts (`EarlierBlend`). The earlier engine smooths over the entries with few
  enough others in between, this one over a slice of the cell's series, and they are the same
  (`NearIsNear`, by counting). Both models take a mean as the same integer quotient, so what is proved
  is that sum and count are those of the same terms, not how `float` and `Decimal` round. After
  smoothing an empty cell has a value there and none here, but both suppress it
  (`EarlierSmoothed`), provided that a cell needs a matched quote to be published:
  that is `CellsNeedQuotes`, the hypothesis of the theorem, and the shipped minimum is five.
  Without it the two do differ (see the observations).

For any processes, days, ladder of rungs and number of runs (`EarlyStackProofs`,
assumption: `CollectionAssumption` of `EarlyCollection`): `LedgerAlwaysHonest` (`LedgerHonest`) and
`QuotesAreTraced` (`QuotesTraced`). `LedgerInv` adds that each
record's predecessor is the one before it (`ChainInv`), where a process stands
in its day (`PlaceInv`), and that each day it passed left its records (`PassedInv`). `QuotesInv`
needs the batch in hand traced before it is stored (`BatchInv`). In the same module: every step of
the whole stack is a step of `EarlyCollection` or leaves its state alone (`StackCollects`), so the
theorems about the ledger hold of the stack, and `LedgerNeverBlocks` draws the
consequence for the quality contract. `ServedAlwaysLabelled` (`ServedLabelled`) holds for any number of
index commands side by side. It needs `LabelInv`: a stored value that rests on simulated quotes is
flagged, and the store then holds one (`ValuesInv`); a run knows of simulated quotes if it read no
earlier than a reading that has published a flag (`Informed`), or than another run that
knows (`InOrder`), since no quote is ever removed; a reader that has read simulated numbers still
finds a flag, unless `overtaken` has gone up since (`ReaderInv`). The exception is what is
left: a run that has read earlier is the only one that can take a flag away.

Model-checked only:

- the four refusal properties with other collectors beside those of `HttpOnly`: they do not hold;
- what the operators of `RobotsRules`, `SourcePages` and `QuoteCleaning` compute, beyond the lemmas
  the proofs above needed;
- `AtomicCollection` by itself;
- all liveness (`EveryJobSettles`, `EveryTransactionEnds`, `RunEnds`, `EveryPublicationEnds`).

## 6. Assumptions

- PostgreSQL at READ COMMITTED; the ORM flushes before each query (autoflush), so
  the robots UPDATE is flushed before the profile is read.
- Jobs are numbered by `created_at`, ties excluded. The daily window does not
  turn within `Collection`.
- `collections` counts admitted runs: what the reservation is for.
- The mock collector and the public API collector (which only answers
  UNSUPPORTED) are not in the router's chain. A direct egress node is always seeded, and
  since nothing records latencies or heals a node, health and load alone order the others.
- A robots.txt has one group for every agent; `urllib.robotparser` (external) reads the groups
  as its documentation says.
- A rung's fetch in the earlier stack is one step with the reading of the tip behind it; SQLite
  serialises the writers, and in WAL mode (`src/apix_store/schema.sql:16`) a statement reads one
  committed snapshot beside them.
- In the worker and the API every job has a container of its own, and with it a
  page cache; the operator's orchestrator shares one between its queries and is
  not modelled.
- What a browser session read at its end counts as a refusal only when it is
  read (`Captured`).
- In `IndexHistory`, one publication at a time; `IndexPublication` has them side by side.
- The hosts that publish share one clock, and `completed_at` never ties. In
  PostgreSQL every session has a connection of its own; the SQLite test set-up, which shares one,
  is not modelled.
- A version string stands for one content of its file.
- In `IndexHistory`, weights are counted in a unit that divides exactly (`WholeAssumption`): the code's
  `Decimal` quotients are exact there, and its rounding in the last place is left out.

## 7. Observations without a run of their own

- Mock mode (`acquisition/compliance.py`): without the robots UPDATE there is no
  lock before the window is read, so two transactions may both read a count and both
  write count + 1. The documents speak of live sources when they promise atomic reservation
  (`docs/compliance.md:8`), and mock mode contacts nobody.
- `acquisition/http.py:162`: the page cache keeps 5xx answers, so the "bounded
  retry" of a temporary failure re-reads the cached error and does not ask again.
- `acquisition/adapters/http_collectors.py:102`: the structured feed turns any 4xx or 5xx page into
  UNSUPPORTED before it looks at the text, so a refusal there is a fallback and the next
  collector contacts the source (`docs/compliance.md:26` rules that out).
- `acquisition/adapters/browser.py:210,227`: a 403 in a session that also hears a 429, or that
  raises, is lost; `docs/compliance.md:34` promises a restriction.
- `services/collection.py:71`: robots.txt is fetched for every live job, a restricted source's
  included; `Contacts` of the router's model leaves that request out.
- `acquisition/discovery/robots.py:50`: of several agent lines in a row the scanner sees the
  last; `User-agent: *` followed by another agent is not listed (the parser still denies it).
  The policy's `blocked_paths` only ever grow.
- `network_egress/manager.py:95`: where the direct node is the only one, a failover marks it
  unhealthy, for good (`mark_healthy` has no caller), and selects it again. A sticky session
  that expires leaves its node's load counted.
- `quality/cells.py:19`: where more than half of a cell-day's prices are equal, Hampel's
  deviation is zero and every other price is flagged.
- `pipeline/quote_adapter.py:58`: the fences of a cell-day are set over all its prices, those of zero
  included, so a positive fare can be winsorised to nothing and then be left out by the engine
  (`apix_index/engine.py:80`). Four zero fares are enough to take a day's only quotes of a
  window away, and a base already published may then move from one day to another:
  `BaseStays` and `PastStands` are about ledgers without zero fares.
- `pipeline/method_config.py:46`: nothing keeps `n_min` above 0 (it is 5 as shipped). At 0, with
  smoothing, the earlier engine publishes a cell without a matched quote, filled from its neighbours
  (`src/apix_index/engine.py:192` looks at the count only), where the back end's leaves it out
  (`apix_index/engine.py:220`): `EnginesAgree` is about methods that need a quote.
- `repositories/observations.py:264`: repetitions of an observation all count, though
  `duplicate_of` and `supersedes` are written; the duplicate key leaves the fare brand out.
- `docs/Nabhsetu-Project-Usage-Guide.md:91` says "First published period is always 100."; with the shipped
  smoothing the first period is a mean with the days after it, and need not be the base.
- `acquisition/adapters/browser.py:172`: a 429 heard before `goto` returns is overwritten by the
  main document's status.
- A run that met a 429 or a refusal and then fails to persist is rolled back with
  its cooldown and its restriction.
- `api/routes/index.py`: `GET /v1/index` reads the latest run twice, so the run it
  names may be newer than the items it lists.
- `worker/publisher.py:36`: when `compute()` raises although there are quotes, the worker commits the
  run row as RUNNING, for good. It does so when the pinned base period has no quotes, never
  collected or emptied by the gates (`apix_index/engine.py:130`); when no quote is left with a
  positive price, winsorised to nothing (`engine.py:83`); and on a `link_factor` or `omega` it
  refuses (`engine.py:390`, `types.py:101`). `RunsDecided` says that these are the RUNNING rows there
  are. A `ValueError` before the run row is written (a method, basis or variant that cannot be
  read) leaves no run, at most the versions; that is not modelled.
- `apix_index/types.py:84`: a pinned base is there "so new data cannot rewrite the
  history"; a centred smoothing window and the availability adjustment's number of families
  still move past values, within what `PastStands` allows. A base pinned to a day that is still
  being collected is computed anew by every publication of that day, and moves what was
  published with it.
- `api/routes/reference.py:110`: a stored backtest names the run read before the series
  is, which may be another one's.
- `api/routes/index.py:154`: `GET /v1/provenance` shows the newest versions beside the latest run,
  which need not be computed from them.
- `repositories/publication.py:48`: a known version string is reused though its file changed.
- A starting API that loses the insertion of a version to a publisher fails to start with an
  `IntegrityError`; started again, it finds the row (`ConflictOnce`).
- Earlier stack, `sources/synthetic.py:177`: flight numbers come from Python's `hash()`, which each
  process randomises, so a second run of a day stores its quotes under other keys, beside the
  first (`schema.sql:143` promises idempotency).
- Earlier stack, `apix_pipeline/run_index.py:83`: nothing keeps two index commands apart. One that read
  its quotes before simulated ones were stored, and writes after a run that read them,
  replaces flagged rows by unflagged ones; an endpoint, or the back-test that stores its
  statistic, which has read the rows just before and the flag just after, then passes simulated numbers off
  as real. Without its exception `ServedLabelled` is violated in this way, by a
  served series and by a stored statistic (`main.py:9` promises the label).
- Earlier stack, `cli.py:167`: `reproduce` publishes without enforcing the quality contract;
  a quote whose base fare is not positive blocks every enforced run (`quality.py:57`).
- Earlier stack, `apix_api/main.py:88`: rows withheld by a later run stay published; `_series` mixes
  weights versions while `_meta` names one; the SDMX export labels the first served period "= 100".
- Earlier stack, `apix_reference/dgca.py:69`: a file without a source URL replaces the official rows
  of its months by placeholders.
- Earlier stack, `apix_collect/politeness.py:213`: `on_response` has no caller and the governor is
  made new for each day, so its breaker never opens.
- Earlier stack, `sources/duffel.py`: every offer of a flight is of the family STANDARD, so only the
  first is stored, and its currency is overwritten with INR.
- `backtesting/compare.py` needs three months of published points, and the
  newest run holds only what was collected within the freshness gate (36 hours by
  default).
- `list_publishable` does not leave out superseded observations; the bootstrap
  intervals do not use the weights.

## 8. Not modelled, and the plan

`PROJECT.json` lists every component with its status. Not planned: parsers, HTML
and form scripts (data), logging, migrations, the front ends, the bootstrap.

Not modelled, and why: the orchestrator (`acquisition/orchestrator.py`) is an operator's
script, one query after the other in one container; seeding, the read routes, back-testing and
the earlier stack's printing commands change no state the others act on, or do so once;
`GET /v1/provenance`, `POST /v1/backtest` and `GET /v1/index` read twice where a publication may
commit in between, which the hazards keep without a property.

Planned, in this order:

1. Proofs: with the browser collectors in the chain, what remains true of refusals (a refusal a
   session has read is kept); `AtomicCollection`'s own invariants, carried over by `LiveIsAtomic`.
2. Readers beside publications (`IndexPublication` with the two reads of an endpoint).
3. The orchestrator's shared page cache and seeding at boot by two processes.

New runs will take the place of weaker ones where they ask the same question.
