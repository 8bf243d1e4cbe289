---------------------------- MODULE MCEarlyStack ----------------------------
(* One pair of airports, one carrier of four, two lead windows, two days.  *)
EXTENDS EarlyStack, EarlyWeights, Sequences, TLC

\* The processes that run the index command are alike.
IndexersAlike == Permutations(Indexers)

MCLadder == <<"synthetic_replay", "duffel">>
MCType   == [s \in {"synthetic_replay", "duffel"} |->
               IF s = "duffel" THEN "duffel" ELSE "simulator"]
MCRanges == [c \in Collectors |-> {<<1, 1>>, <<2, 2>>}]
MCEnvironments == {[simulate |-> TRUE, keyed |-> FALSE], [simulate |-> FALSE, keyed |-> TRUE]}
MCMaxRuns == [c \in Collectors |-> 2]

Pairs    == {[origin |-> "DEL", dest |-> "BOM", pax |-> 9]}
Carriers == {[iata |-> "6E", share |-> 6, seats |-> 2, plf |-> 1],
             [iata |-> "AI", share |-> 3, seats |-> 2, plf |-> 1]}
Weights  == BuildWeights(NotSupplied, Seeded(ExpandBasket(Pairs)), Carriers, FALSE)

MCRouteWeight   == Weights.routes
MCCarrierWeight == Weights.carriers
MCOmega         == [a \in {1, 7} |-> 1]
MCLevel(log)    == 4800 + log
MCHundred       == 4800

Route == <<"DEL", "BOM">>
Routes == DOMAIN Weights.routes
MCStatutory == [r \in Routes |-> 300]
MCFloor     == [r \in Routes |-> 350]
MCCeiling   == 90000

Product(apw, flight, family) ==
  [route |-> Route, carrier |-> "6E", apw |-> apw, flight |-> flight, family |-> family]

Offer(source, day, product, total, log) ==
  [source |-> source, day |-> day, product |-> product, soldOut |-> total = 0,
   total |-> total, log |-> log, sim |-> source = "synthetic_replay"]

\* A flight of two families, and on the second day another of which one fare runs
\* away; in the far window the saver fare is sold out then.
MCSimulated(day, h) ==
  {Offer("synthetic_replay", day, Product(1, 2000 + h + i, b),
         IF i = 1 /\ b = "FLEXI" THEN 60000 ELSE 5000,
         IF i = 1 /\ b = "FLEXI" THEN 4800 ELSE IF b = "FLEXI" THEN 528 ELSE 480) :
     i \in IF day = 1 THEN {0} ELSE {0, 1}, b \in {"SAVER", "FLEXI"}}
  \union
  {Offer("synthetic_replay", day, Product(7, IF day = 1 THEN 2000 + h ELSE 0, "SAVER"),
         IF day = 1 THEN 3000 ELSE 0, 0),
   Offer("synthetic_replay", day, Product(7, 2000 + h, "FLEXI"), 4000, 240)}

\* One real flight in both windows on the first day and in the near one on the
\* second, when its fare is below its taxes and fee, though not below the floor.
MCFares ==
  [d \in {1, 2} |->
     IF d = 1 THEN {Offer("duffel", d, Product(apw, 101, "STANDARD"), 4000, 240) : apw \in {1, 7}}
              ELSE {Offer("duffel", d, Product(1, 101, "STANDARD"), 380, 240)}]

MCMethod  == [basis |-> "book", pinned |-> Unpinned, nMin |-> 1, window |-> 3, availability |-> TRUE]
MCMonthOf == [t \in {1, 2} |-> 1]
=============================================================================
