-------------------------- MODULE MCEarlyCollection --------------------------
(* One route and window: the simulator, a flight of Duffel's, and a page; two *)
(* processes.                                                                *)
EXTENDS EarlyCollection

CONSTANTS c1, c2

MCLadder == <<"synthetic_replay", "duffel", "indigo_page">>
MCType   == [s \in {"synthetic_replay", "duffel", "indigo_page"} |->
               CASE s = "synthetic_replay" -> "simulator"
                 [] s = "duffel"           -> "duffel"
                 [] s = "indigo_page"      -> "public_page"]

Route == "DEL-BOM"
ByRoute(v) == [r \in {Route} |-> v]
MCStatutory == ByRoute(300)
MCFloor     == ByRoute(400)
MCCeiling   == 90000

Product(flight, family) ==
  [route |-> Route, carrier |-> "6E", apw |-> 1, flight |-> flight, family |-> family]

Offer(source, day, product, total, log, sim) ==
  [source |-> source, day |-> day, product |-> product, soldOut |-> FALSE,
   total |-> total, log |-> log, sim |-> sim]

MCSimulated(day, h) ==
  {Offer("synthetic_replay", day, Product(2000 + h, "SAVER"), 5000, 9, TRUE)}

MCFares == [d \in 1..2 |->
  {Offer("duffel", d, Product(101, "STANDARD"), 4000, 8, FALSE)}]

MCEnvironments == {[simulate |-> TRUE, keyed |-> TRUE], [simulate |-> FALSE, keyed |-> FALSE]}
MCMaxRuns == [c \in {c1, c2} |-> 1]

\* One process collects both days, the other one of them.
MCRanges == [c \in {c1, c2} |-> IF c = c1 THEN {<<1, 2>>} ELSE {<<1, 1>>, <<2, 2>>}]
=============================================================================
