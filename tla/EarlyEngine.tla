----------------------------- MODULE EarlyEngine -----------------------------
(***************************************************************************)
(* The index engine of the earlier stack (src/apix_index): the formulation *)
(* by grouped sums over columns that the back end's engine was rewritten   *)
(* from.  A quote is [day, product, fare], fare the logarithm of its price *)
(* as in IndexEngine; Level, Hundred and Unpinned are IndexEngine's too.   *)
(***************************************************************************)
EXTENDS Integers, FiniteSets, FiniteSetsExt, Functions

CONSTANTS
  RouteWeight,    \* w_r
  CarrierWeight,  \* phi_{c|r}, by route
  Omega,          \* the lead-time weights of a preset
  Level(_),       \* 100 * exp of a log relative
  Unpinned        \* base_period is not set

ASSUME EarlyEngineAssumption ==
  /\ \A r \in DOMAIN RouteWeight : RouteWeight[r] \in Nat
  /\ \A a \in DOMAIN Omega : Omega[a] \in Nat

KappaCell(p)   == <<p.route, p.carrier, p.apw>>
KappaFlight(p) == <<p.route, p.carrier, p.apw, p.flight>>

PeriodOf(q, m) == IF m.basis = "book" THEN q.day ELSE q.day + q.product.apw

Logs(S) == SumFunction([q \in S |-> q.fare])

\* _prepare: one row for each product and period, the geometric mean of its
\* quotes whatever their source.
Prepare(quotes, m) ==
  {LET same == {r \in quotes : r.product = q.product /\ PeriodOf(r, m) = PeriodOf(q, m)}
   IN  [period |-> PeriodOf(q, m), product |-> q.product,
        fare |-> SumFunction([r \in same |-> r.fare]) \div Cardinality(same)] : q \in quotes}

RowPeriods(rows) == {q.period : q \in rows}

\* _choose_base_period: the first period of widest lead-time coverage.
ChooseBasePeriod(rows, m) ==
  LET Coverage(t) == Cardinality({q.product.apw : q \in {r \in rows : r.period = t}})
  IN  IF m.pinned # Unpinned THEN m.pinned
      ELSE CHOOSE t \in RowPeriods(rows) :
             \A u \in RowPeriods(rows) :
               Coverage(u) < Coverage(t) \/ (Coverage(u) = Coverage(t) /\ t <= u)

\* compute() raises: nothing to index, or a pinned base without quotes.
CanCompute(rows, m) == rows # {} /\ (m.pinned # Unpinned => m.pinned \in RowPeriods(rows))

-----------------------------------------------------------------------------
\* The log relatives of the rows matched to a base row, summed and counted by
\* period and flight.
PerFlight(rows, base) ==
  LET start   == {r \in rows : r.period = base}
      matched == {q \in rows : \E r \in start : r.product = q.product}
      Of(k)   == {q \in matched : q.period = k[1] /\ KappaFlight(q.product) = k[2]}
      Base(q) == CHOOSE r \in start : r.product = q.product
  IN  [k \in {<<q.period, KappaFlight(q.product)>> : q \in matched} |->
         [sum |-> Logs(Of(k)) - Logs({Base(q) : q \in Of(k)}), count |-> Cardinality(Of(k))]]

\* The log of the lowest fare by period and flight, relative to the base.
LowestRelative(rows, base) ==
  LET Lowest(t, f) == Min({q.fare : q \in {r \in rows : r.period = t /\ KappaFlight(r.product) = f}})
      atBase == {KappaFlight(r.product) : r \in {q \in rows : q.period = base}}
  IN  [k \in {<<q.period, KappaFlight(q.product)>> :
                q \in {r \in rows : KappaFlight(r.product) \in atBase}} |->
         Lowest(k[1], k[2]) - Lowest(base, k[2])]

\* The entries of a table keyed by period and flight that belong to a cell.
InCell(table, t, c) ==
  {k \in DOMAIN table : k[1] = t /\ <<k[2][1], k[2][2], k[2][3]>> = c}

FamiliesIn(rows, t, c) ==
  Cardinality({q.product.family :
                 q \in {r \in rows : r.period = t /\ KappaCell(r.product) = c}})

\* The most families the cell was seen to offer.
ReferenceBundle(rows, base, c) == Max({FamiliesIn(rows, t, c) : t \in RowPeriods(rows)})

\* availability_ratio and blend: a weighted mean of logs, the ratio clamped to
\* one, and each index alone where the other is missing.
AvailabilityBlend(matched, laf, offered, bundle) ==
  LET a == IF offered > bundle THEN bundle ELSE offered
  IN  (a * matched + (bundle - a) * laf) \div bundle

\* _cell_indices: "log" is the log of adjusted where "known"; suppression looks
\* at the matched count alone.
CellIndices(rows, m) ==
  LET base   == ChooseBasePeriod(rows, m)
      flight == PerFlight(rows, base)
      lowest == LowestRelative(rows, base)
      One(t, c) ==
        LET jevons  == InCell(flight, t, c)
            laf     == InCell(lowest, t, c)
            n       == SumFunction([k \in jevons |-> flight[k].count])
            Matched == SumFunction([k \in jevons |-> flight[k].sum]) \div n
            Laf     == SumFunctionOnSet(lowest, laf) \div Cardinality(laf)
        IN  [matched |-> n, suppressed |-> n < m.nMin,
             known |-> n > 0 \/ (m.availability /\ laf # {}),
             log |-> IF n > 0 /\ m.availability
                     THEN AvailabilityBlend(Matched, Laf, FamiliesIn(rows, t, c),
                                            ReferenceBundle(rows, base, c))
                     ELSE IF n > 0 THEN Matched
                     ELSE IF m.availability /\ laf # {} THEN Laf ELSE 0]
  IN  [k \in {<<q.period, KappaCell(q.product)>> : q \in rows} |-> One(k[1], k[2])]

\* centred_geometric_ma over a cell's rows in the order of their periods: the
\* mean of those that are known among the nearest, so that a row without a
\* value takes its neighbours'.
SmoothCells(cells, m) ==
  LET Before(t, u, c) == Cardinality({k \in DOMAIN cells : k[2] = c /\ t <= k[1] /\ k[1] < u})
      Near(k) == {j \in DOMAIN cells :
                    /\ j[2] = k[2] /\ cells[j].known
                    /\ Before(j[1], k[1], k[2]) <= m.window \div 2
                    /\ Before(k[1], j[1], k[2]) <= m.window \div 2}
  IN  IF m.window <= 1 THEN cells
      ELSE [k \in DOMAIN cells |->
              IF Near(k) = {} THEN cells[k]
              ELSE [cells[k] EXCEPT !.known = TRUE,
                                    !.log = SumFunction([j \in Near(k) |-> cells[j].log])
                                                \div Cardinality(Near(k))]]

-----------------------------------------------------------------------------
\* normalised_routes, normalised_carriers, and stage 4: shares of what is
\* present, equal where nothing present has a weight.
WeightedMean(weight, value) ==
  LET present == DOMAIN value
      total   == SumFunctionOnSet(weight, present)
  IN  IF total <= 0
      THEN SumFunction(value) \div Cardinality(present)
      ELSE SumFunction([i \in present |-> weight[i] * value[i]]) \div total

LiveCells(cells) == {k \in DOMAIN cells : ~cells[k].suppressed /\ cells[k].known}

\* aggregate_carriers, by period, route and window.
AggregateCarriers(cells) ==
  LET live == LiveCells(cells)
      By(g) == {k \in live : <<k[1], k[2][1], k[2][3]>> = g}
  IN  [g \in {<<k[1], k[2][1], k[2][3]>> : k \in live} |->
         WeightedMean(CarrierWeight[g[2]],
                      [c \in {k[2][2] : k \in By(g)} |-> Level(cells[<<g[1], <<g[2], c, g[3]>>>>].log)])]

\* aggregate_routes, by period and window.
AggregateRoutes(byRoute) ==
  [g \in {<<k[1], k[3]>> : k \in DOMAIN byRoute} |->
     WeightedMean(RouteWeight,
                  [r \in {k[2] : k \in {j \in DOMAIN byRoute : <<j[1], j[3]>> = g}} |->
                     byRoute[<<g[1], r, g[2]>>]])]

WindowsAt(byApw, t) == {k[2] : k \in {j \in DOMAIN byApw : j[1] = t}}

\* aggregate_apw.
AggregateApw(byApw) ==
  [t \in {k[1] : k \in DOMAIN byApw} |->
     WeightedMean(Omega, [a \in WindowsAt(byApw, t) |-> byApw[<<t, a>>]])]

\* omega_covered, in percent of the declared weight; a period whose windows
\* have none is given all of it.
OmegaCovered(byApw, t) ==
  LET present == SumFunctionOnSet(Omega, WindowsAt(byApw, t))
  IN  IF present <= 0 THEN 100
      ELSE (100 * present) \div SumFunction(Omega)

\* The periods of a headline that rest on enough of the lead-time weight to be
\* published.
Kept(byApw, headline, minOmega) == {t \in DOMAIN headline : OmegaCovered(byApw, t) >= minOmega}

\* compute(), before the link onto another base.
EarlyCompute(quotes, m) ==
  LET rows  == Prepare(quotes, m)
      cells == SmoothCells(CellIndices(rows, m), m)
      byApw == AggregateRoutes(AggregateCarriers(cells))
  IN  [base |-> ChooseBasePeriod(rows, m), cells |-> cells, byApw |-> byApw,
       headline |-> AggregateApw(byApw)]
=============================================================================
