----------------------------- MODULE IndexEngine -----------------------------
(***************************************************************************)
(* The index engine: fare quotes, weights and a method give the published  *)
(* series.  Jevons elementary cells against a base period, the             *)
(* availability blend, day-of-week smoothing, suppression, and Young       *)
(* aggregation over carriers, routes and lead windows.                     *)
(*                                                                         *)
(* A fare is kept by its logarithm, an integer in a unit fine enough for   *)
(* every mean of an instance to be exact: the geometric means, the price   *)
(* relatives and the blend of the code are then sums and quotients.  Level *)
(* stands for 100 * exp(_): what matters of it is that it increases and    *)
(* that Level(0) is the base's level, Hundred.                             *)
(***************************************************************************)
EXTENDS Integers, FiniteSets, FiniteSetsExt, Functions

CONSTANTS
  Products,       \* quoted products: [route, carrier, apw, flight, family]
  RouteWeight,    \* declared weight of each route
  CarrierWeight,  \* declared weight of each carrier, by route
  Omega,          \* declared weight of each lead window
  Level(_),       \* 100 * exp of a log relative
  Hundred,        \* the level of the base, in the unit of Level
  Unpinned        \* no base_period is configured

ASSUME EngineAssumption ==
  /\ Level(0) = Hundred
  /\ \A p \in Products : /\ p.apw \in Nat
                         /\ RouteWeight[p.route] \in Nat
                         /\ CarrierWeight[p.route][p.carrier] \in Nat
                         /\ Omega[p.apw] \in Nat

\* A method: its basis ("book", "travel"), base_period, n_min, dow_window (1
\* for no smoothing), and whether the availability adjustment is applied.

CellOf(p)   == [route |-> p.route, carrier |-> p.carrier, apw |-> p.apw]
FlightOf(p) == [cell |-> CellOf(p), flight |-> p.flight]

\* Booking day, or departure day.
Period(q, m) == IF m.basis = "book" THEN q.day ELSE q.day + q.product.apw

MeanOf(value) == SumFunction(value) \div Cardinality(DOMAIN value)

\* Mutated: the quotes of several sellers stay apart.
PreparedApart(quotes, m) ==
  {[period |-> Period(q, m), product |-> q.product, fare |-> q.fare] : q \in quotes}

\* _prepare: the quotes of one product and period become one.
Prepared(quotes, m) ==
  LET Group(t, p) == {q \in quotes : Period(q, m) = t /\ q.product = p}
  IN  {[period |-> Period(q, m), product |-> q.product,
        fare |-> MeanOf([r \in Group(Period(q, m), q.product) |-> r.fare])] : q \in quotes}

Periods(P) == {q.period : q \in P}
At(P, t)   == {q \in P : q.period = t}

CellAt(P, t, c) == {q \in At(P, t) : CellOf(q.product) = c}

\* Mutated: the period with the most cells.
ChooseBaseByCells(P, m) ==
  LET cells(t) == Cardinality({CellOf(q.product) : q \in At(P, t)})
      best     == Max({cells(t) : t \in Periods(P)})
  IN  IF m.pinned # Unpinned THEN m.pinned
      ELSE Min({t \in Periods(P) : cells(t) = best})

\* The earliest period with the most lead windows, unless one is pinned.
ChooseBase(P, m) ==
  LET windows(t) == Cardinality({q.product.apw : q \in At(P, t)})
      best       == Max({windows(t) : t \in Periods(P)})
  IN  IF m.pinned # Unpinned THEN m.pinned
      ELSE Min({t \in Periods(P) : windows(t) = best})

\* compute() raises for an empty panel, and for a pinned base without quotes.
Computes(P, m) == P # {} /\ (m.pinned # Unpinned => m.pinned \in Periods(P))

-----------------------------------------------------------------------------
\* An elementary cell.  "valued" is adjusted # None, "log" its log relative.

Families(S) == Cardinality({q.product.family : q \in S})

\* The share of the cell's fare families still offered weighs the matched
\* relative against that of the lowest available fares.
Blend(matched, lowest, offered, reference) ==
  (offered * matched + (reference - offered) * lowest) \div reference

FaresOf(S, f) == {q.fare : q \in {r \in S : FlightOf(r.product) = f}}

\* The lowest fare of a flight in the base period, and in the cell.
BaseLowest(start, f) == Min(FaresOf(start, f))
Lowest(group, f)     == Min(FaresOf(group, f))

\* From the quotes of the base period ("start"), the cell's ("group") and the
\* most fare families the cell shows in any period ("reference").
Elementary(start, group, reference, m) ==
  LET matched == {q \in group : \E r \in start : r.product = q.product}
      flights == {FlightOf(q.product) : q \in group} \cap {FlightOf(r.product) : r \in start}
      relative == [q \in matched |->
                     q.fare - (CHOOSE r \in start : r.product = q.product).fare]
      lowest   == [f \in flights |-> Lowest(group, f) - BaseLowest(start, f)]
      Adjusted ==
        IF matched = {} THEN MeanOf(lowest)
        ELSE IF ~m.availability THEN MeanOf(relative)
        ELSE Blend(MeanOf(relative), MeanOf(lowest), Families(group), reference)
      valued  == matched # {} \/ (m.availability /\ flights # {})
  IN  [valued |-> valued, log |-> IF valued THEN Adjusted ELSE 0,
       suppressed |-> Cardinality(matched) < m.nMin \/ ~valued]

Reference(P, c) == Max({Families(CellAt(P, u, c)) : u \in Periods(P)})

Cells(P, m) ==
  [k \in {<<q.period, CellOf(q.product)>> : q \in P} |->
     Elementary(At(P, ChooseBase(P, m)), CellAt(P, k[1], k[2]), Reference(P, k[2]), m)]

\* The periods of a cell's series that its smoothed value at t is a mean of:
\* those at most half a window of entries away.
Reach(cells, m, t, c) ==
  LET series  == {u \in {k[1] : k \in DOMAIN cells} : <<u, c>> \in DOMAIN cells}
      Apart(u) == Cardinality({v \in series : (u < v /\ v <= t) \/ (t < v /\ v <= u)})
  IN  {u \in series : Apart(u) <= m.window \div 2}

\* Mutated: the window is not halved.
SmoothedWide(cells, m) ==
  [k \in DOMAIN cells |->
     LET near == {u \in Reach(cells, [m EXCEPT !.window = 2 * @], k[1], k[2]) :
                    cells[<<u, k[2]>>].valued}
         logs == [u \in near |-> cells[<<u, k[2]>>].log]
     IN  IF cells[k].valued THEN [cells[k] EXCEPT !.log = MeanOf(logs)] ELSE cells[k]]

\* centred_geometric_ma over each cell's series; suppressed cells take part.
Smoothed(cells, m) ==
  [k \in DOMAIN cells |->
     LET near == {u \in Reach(cells, m, k[1], k[2]) : cells[<<u, k[2]>>].valued}
         logs == [u \in near |-> cells[<<u, k[2]>>].log]
     IN  IF cells[k].valued THEN [cells[k] EXCEPT !.log = MeanOf(logs)] ELSE cells[k]]

-----------------------------------------------------------------------------
Total(weight, S) == SumFunctionOnSet(weight, S)

\* A Young aggregate: the weights renormalised over what is present, or equal
\* shares if those sum to nothing.
Young(weight, value) ==
  LET total == Total(weight, DOMAIN value)
  IN  IF total = 0 THEN MeanOf(value)
      ELSE SumFunction([i \in DOMAIN value |-> weight[i] * value[i]]) \div total

\* Mutated: suppressed cells are aggregated too.
LiveAll(cells, t) == {k[2] : k \in {j \in DOMAIN cells : j[1] = t /\ cells[j].valued}}

\* The cells of a period that are published.
Live(cells, t) == {k[2] : k \in {j \in DOMAIN cells : j[1] = t /\ ~cells[j].suppressed}}

Windows(live)          == {c.apw : c \in live}
RoutesAt(live, a)      == {c.route : c \in {d \in live : d.apw = a}}
CarriersAt(live, a, r) == {c.carrier : c \in {d \in live : d.apw = a /\ d.route = r}}

\* aggregate_carriers, aggregate_routes and aggregate_apw.
Headline(cells, t) ==
  LET live == Live(cells, t)
      Value(a, r, k) == Level(cells[<<t, [route |-> r, carrier |-> k, apw |-> a]>>].log)
      ByRoute(a, r)  == Young(CarrierWeight[r], [k \in CarriersAt(live, a, r) |-> Value(a, r, k)])
      ByApw(a)       == Young(RouteWeight, [r \in RoutesAt(live, a) |-> ByRoute(a, r)])
  IN  Young(Omega, [a \in Windows(live) |-> ByApw(a)])

\* compute(): the base, the cells as smoothed, and the headline of every period
\* that has a published cell.  The chain link scales all levels alike and is
\* left out: these are the values before it (value_native).
Compute(quotes, m) ==
  LET P     == Prepared(quotes, m)
      cells == Smoothed(Cells(P, m), m)
  IN  [base |-> ChooseBase(P, m), cells |-> cells,
       headline |-> [t \in {u \in Periods(P) : Live(cells, u) # {}} |-> Headline(cells, t)]]
=============================================================================
