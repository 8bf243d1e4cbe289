--------------------------- MODULE MCIndexHistory ---------------------------
(* A small basket: two routes, two carriers, two lead windows.             *)
EXTENDS IndexHistory

\* Levels are in a unit that the weights' sums (1, 2, 3) divide three stages
\* deep, and fares in one that every mean of the instance divides.
Unit         == 432
MCHundred    == 100 * Unit
MCLevel(log) == MCHundred + Unit * log + (IF log > 0 THEN Unit * ((log * log) \div 24) ELSE 0)
MCWhole      == 6

Product(r, k, a, f, b) == [route |-> r, carrier |-> k, apw |-> a, flight |-> f, family |-> b]

Saver  == Product("DEL-BOM", "6E", 1, "6E-1", "saver")
Flex   == Product("DEL-BOM", "6E", 1, "6E-1", "flex")
Full   == Product("DEL-BOM", "6E", 1, "6E-1", "full")
Rival  == Product("DEL-BOM", "AI", 1, "AI-1", "saver")
Early  == Product("DEL-BLR", "6E", 2, "6E-2", "saver")
Late   == Product("DEL-BLR", "AI", 2, "AI-2", "saver")
Other  == Product("DEL-BLR", "XX", 2, "XX-1", "saver")

MCProducts == {Saver, Flex, Full, Rival, Early, Late, Other}

MCRouteWeight   == [r \in {"DEL-BOM", "DEL-BLR"} |-> IF r = "DEL-BOM" THEN 2 ELSE 1]
MCCarrierWeight == [r \in {"DEL-BOM", "DEL-BLR"} |->
                      [k \in {"6E", "AI", "XX"} |->
                         IF r = "DEL-BLR" \/ k = "XX" THEN 0 ELSE IF k = "6E" THEN 1 ELSE 2]]
MCOmega         == [a \in {1, 2} |-> a]
MCEnds          == [r \in {"DEL-BOM", "DEL-BLR"} |->
                      IF r = "DEL-BOM" THEN {"DEL", "BOM"} ELSE {"DEL", "BLR"}]

\* A thousand rupees have the logarithm 0, and each rupee more adds 24.
MCLogOf(quarters) == 6 * (quarters - 4000)

Seen(d, s, p, f) == [day |-> d, seller |-> s, copy |-> 1, product |-> p, fare |-> 1000 + f,
                     soldOut |-> FALSE]
FullyBooked(d, s, p) == [Seen(d, s, p, 3) EXCEPT !.soldOut = TRUE]
Unpriced(d, s, p) == [Seen(d, s, p, 0) EXCEPT !.fare = 0]
Again(o)         == [o EXCEPT !.copy = 2]

\* Two sellers quote the saver fare, one of them twice over, and stop; the fares
\* move from day to day; a rival on each route enters on the second day, a
\* flight sells out, and four sellers list another at nothing; on the third the
\* saver fare is back, with a third family, and one seller's price is out of all
\* proportion.
MCCaptures == <<
  {{Seen(1, "ota1", Flex, 1), Seen(1, "ota1", Early, 2), Seen(1, "ota1", Other, 2)},
   {Seen(1, "ota1", Saver, 0), Seen(1, "ota2", Saver, 2)},
   {Again(Seen(1, "ota1", Saver, 0)), Again(Seen(1, "ota1", Flex, 1))}},
  {{Seen(2, "ota1", Flex, 2), FullyBooked(2, "ota2", Flex), Seen(2, "ota1", Early, 1)},
   {Seen(2, "ota1", Rival, 0), Seen(2, "ota1", Late, 2)},
   {Unpriced(2, s, Early) : s \in {"ota2", "ota3", "ota4", "ota5"}}},
  {{Seen(3, "ota1", Flex, 2), Seen(3, "ota1", Early, 0)},
   {Seen(3, "ota1", Saver, 1), Seen(3, "ota1", Full, 2)},
   {Seen(3, "ota2", Saver, 1), Seen(3, "ota2", Flex, 8)}} >>

Method(basis, pinned, nMin, window, availability, fresh) ==
  [basis |-> basis, pinned |-> pinned, nMin |-> nMin, window |-> window,
   availability |-> availability, fresh |-> fresh]

MCMethods == {Method("book", Unpinned, 1, 1, TRUE, 3), Method("book", 1, 1, 3, FALSE, 3),
              Method("book", 1, 1, 1, TRUE, 3), Method("book", 2, 1, 1, FALSE, 3),
              Method("travel", Unpinned, 1, 1, TRUE, 3), Method("book", Unpinned, 1, 3, TRUE, 1)}
=============================================================================
