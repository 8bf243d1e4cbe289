---------------------------- MODULE QuoteCleaning ----------------------------
(***************************************************************************)
(* From the stored observations to the quotes the index is computed of:    *)
(* the validation flags, the freshness and sold-out gates, the outlier     *)
(* bounds of a cell-day, and the disposition they lead to.                 *)
(*                                                                         *)
(* An observation is [day, seller, copy, product, fare, soldOut]: the day  *)
(* it was collected, which is its booking date, the source, which of the   *)
(* collections of that day stored it, and its total fare in rupees.  Every *)
(* observation of every job is stored and listed, a repetition included:   *)
(* duplicate_of and supersedes are written, and read by no publication.    *)
(***************************************************************************)
EXTENDS Integers, FiniteSets

CONSTANTS
  KnownAirports,   \* KNOWN_AIRPORTS
  KnownCarriers,   \* KNOWN_CARRIERS
  Ends,            \* the two airports of a route
  FareCeiling,     \* the plausibility ceiling
  TukeyK,          \* tukey_k
  HampelZ,         \* hampel_z times the normal consistency factor, in 1/10000
  LogOf(_)         \* the logarithm of a price given in quarters of a rupee

ASSUME CleaningAssumption == TukeyK \in Nat /\ HampelZ \in Nat /\ FareCeiling \in Nat

\* CanonicalFareObservation, as its validators let it be: a fare is never
\* negative, but may be zero.
IsObservation(r) ==
  /\ r.day \in Nat /\ r.copy \in Nat /\ r.seller \in STRING
  /\ r.fare \in Nat /\ r.soldOut \in BOOLEAN

-----------------------------------------------------------------------------
(* Bounds.  A bag of prices is a function into the integers.               *)

\* The n-th smallest.
Ranked(price, n) ==
  CHOOSE v \in {price[i] : i \in DOMAIN price} :
    /\ Cardinality({i \in DOMAIN price : price[i] < v}) < n
    /\ Cardinality({i \in DOMAIN price : price[i] <= v}) >= n

\* _percentile: four times the k-th quartile, interpolated between neighbours.
Percentile(price, k) ==
  LET position == k * (Cardinality(DOMAIN price) - 1)
      lower    == Ranked(price, position \div 4 + 1)
      weight   == position % 4
  IN  4 * lower + (IF weight = 0 THEN 0 ELSE weight * (Ranked(price, position \div 4 + 2) - lower))

\* tukey_fences, in quarters of a rupee, for four prices or more.
Fences(price) ==
  LET iqr == Percentile(price, 3) - Percentile(price, 1)
  IN  [low |-> Percentile(price, 1) - TukeyK * iqr, high |-> Percentile(price, 3) + TukeyK * iqr]

Beyond(fare, price) ==
  Cardinality(DOMAIN price) >= 4 /\ (4 * fare < Fences(price).low \/ 4 * fare > Fences(price).high)

\* hampel_bounds, for three prices or more.  Where more than half of the
\* prices are equal every other one is outside.
BeyondHampel(fare, price) ==
  LET median == Percentile(price, 2)
      Off(x) == IF 4 * x < median THEN median - 4 * x ELSE 4 * x - median
      mad    == Percentile([i \in DOMAIN price |-> Off(price[i])], 2)
  IN  Cardinality(DOMAIN price) >= 3 /\ 40000 * Off(fare) > HampelZ * mad

\* winsorise: the price in quarters, brought back to the fences.
Winsorised(fare, price) ==
  LET fences == Fences(price)
  IN  IF ~Beyond(fare, price) THEN 4 * fare
      ELSE IF 4 * fare < fences.low THEN fences.low ELSE fences.high

-----------------------------------------------------------------------------
\* The observations whose prices bound those of r.
CellDay(rows, r) ==
  {q \in rows : q.product.route = r.product.route /\ q.product.carrier = r.product.carrier
                /\ q.product.apw = r.product.apw /\ q.day = r.day}

Prices(S) == [q \in S |-> q.fare]

IsKnownAirport(code) == code \in KnownAirports
IsKnownCarrier(code) == code \in KnownCarriers

\* component_flags.  The row is rebuilt without its fare components, so that
\* they are always incomplete, which decides nothing.
ComponentFlags == {"COMPONENTS_INCOMPLETE"}

\* outlier_flags: a total that no fare can have.
FareFlags(r) ==
  {code \in {"ZERO_FARE"} : r.fare = 0} \union {code \in {"UNREALISTIC_FARE"} : r.fare > FareCeiling}

\* validate_observation.
ValidationFlags(r) ==
  {code \in {"UNKNOWN_AIRPORT"} : \E end \in Ends[r.product.route] : ~IsKnownAirport(end)}
    \union {code \in {"UNKNOWN_CARRIER"} : ~IsKnownCarrier(r.product.carrier)}
    \union ComponentFlags \union FareFlags(r)

\* cell_outlier_flags.
OutlierFlags(r, price) ==
  {code \in {"TUKEY_OUTLIER"} : Beyond(r.fare, price)}
    \union {code \in {"HAMPEL_OUTLIER"} : BeyondHampel(r.fare, price)}

SoldOut(r) == r.soldOut

\* The freshness gate, in days.
Stale(r, today, fresh) == r.day + fresh < today

Flags(rows, r, today, fresh) ==
  ValidationFlags(r) \union OutlierFlags(r, Prices(CellDay(rows, r)))
    \union {code \in {"SOLD_OUT"} : SoldOut(r)}
    \union {code \in {"STALE_QUOTE"} : Stale(r, today, fresh)}

\* map_publication_disposition, in its order.
PublicationDisposition(flags) ==
  IF flags \cap {"UNKNOWN_AIRPORT", "UNKNOWN_CARRIER"} # {} THEN "EXCLUDED"
  ELSE IF flags \cap {"SOLD_OUT", "STALE_QUOTE"} # {} THEN "QUARANTINED"
  ELSE IF "ZERO_FARE" \in flags THEN "EXCLUDED"
  ELSE IF flags \cap {"TUKEY_OUTLIER", "HAMPEL_OUTLIER", "UNREALISTIC_FARE"} # {}
       THEN "WINSORISED" ELSE "ACCEPTED"

\* observation_to_quote.  The engine sees the price's logarithm.
QuoteOf(r, price) ==
  [day |-> r.day, seller |-> r.seller, copy |-> r.copy, product |-> r.product,
   fare |-> LogOf(price)]

\* What an observation is quoted at.
Price(rows, r) == Winsorised(r.fare, Prices(CellDay(rows, r)))

\* clean_observations, and of its quotes those that _prepare takes: where fares
\* of zero fill a cell-day its fences are zero, and a price at them is dropped.
CleanObservations(rows, today, fresh) ==
  {QuoteOf(r, Price(rows, r)) :
     r \in {q \in rows : /\ PublicationDisposition(Flags(rows, q, today, fresh))
                              \in {"ACCEPTED", "WINSORISED"}
                         /\ Price(rows, q) > 0}}
=============================================================================
