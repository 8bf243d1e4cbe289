----------------------------- MODULE EarlyQuotes -----------------------------
(***************************************************************************)
(* From an offer to a quote in the earlier stack (src/apix_pipeline): the  *)
(* statutory components, the validity gates, the outlier filters of a cell *)
(* and the disposition they lead to.                                       *)
(*                                                                         *)
(* An offer is [source, day, product, soldOut, total, log, sim]:     *)
(* total is total_fare in rupees, log the logarithm of price_T (what the   *)
(* traveller pays without the convenience fee) in a unit of the instance.  *)
(* Offers come in a batch, one day's rows of every source together.  The   *)
(* longitudinal jump test compares a row with the row of the same product  *)
(* before it in the batch, and of those the unique key stores the first:   *)
(* no row it marks is stored, and a batch here holds a product once.       *)
(***************************************************************************)
EXTENDS Integers, FiniteSets

CONSTANTS
  Statutory,   \* udf + asf + rcs_levy in force, by route
  Fee,         \* convenience_fee
  FareFloor,   \* lowest plausible total, by route (its distance)
  FareCeiling, \* FARE_CEILING_INR
  ApwWindows,  \* apw_windows
  TukeyK       \* tukey_k

ASSUME QuotesAssumption == Fee \in Nat /\ TukeyK \in Nat

\* decompose: total - statutory - fee is the fare base with its GST; what is
\* left of it after the tax has the same sign.
BasePositive(o) == o.total > Statutory[o.product.route] + Fee

\* price_T, the price the filters look at, has a logarithm.
Priced(o) == ~o.soldOut /\ o.total > Fee

\* hard_validity_gates: a quote that is not a price.  The floor leaves the
\* convenience fee out.
GateFailed(o) ==
  \/ o.soldOut \/ o.total <= 0
  \/ o.total < Statutory[o.product.route]
  \/ o.product.apw \notin ApwWindows
  \/ o.total < FareFloor[o.product.route] \/ o.total > FareCeiling

-----------------------------------------------------------------------------
\* The n-th smallest of a bag of numbers, given as a function.
Nth(f, n) ==
  CHOOSE v \in {f[i] : i \in DOMAIN f} :
    /\ Cardinality({i \in DOMAIN f : f[i] < v}) < n
    /\ Cardinality({i \in DOMAIN f : f[i] <= v}) >= n

\* Four times the k-th quartile, interpolated linearly between the neighbours.
Quartile4(f, k) ==
  LET rank == k * (Cardinality(DOMAIN f) - 1)
      low  == Nth(f, rank \div 4 + 1)
  IN  4 * low + (IF rank % 4 = 0 THEN 0 ELSE (rank % 4) * (Nth(f, rank \div 4 + 2) - low))

Abs(x) == IF x < 0 THEN -x ELSE x

\* The priced quotes of a quote's cell: its route, carrier and lead window.
CellLogs(o, batch) ==
  LET cell == {p \in batch : Priced(p) /\ p.product.route = o.product.route
                             /\ p.product.carrier = o.product.carrier
                             /\ p.product.apw = o.product.apw}
  IN  [p \in cell |-> p.log]

\* The Tukey fences, in quarters of the unit.
Spread(f)    == Quartile4(f, 3) - Quartile4(f, 1)
LowFence(f)  == Quartile4(f, 1) - TukeyK * Spread(f)
HighFence(f) == Quartile4(f, 3) + TukeyK * Spread(f)

\* Hampel: 0.6745 * |y - median| / mad > 3.5, unless mad is zero.
HampelHit(o, f) ==
  LET median4 == Quartile4(f, 2)
      mad4    == Quartile4([p \in DOMAIN f |-> Abs(4 * f[p] - median4)], 2)
  IN  mad4 > 0 /\ 6745 * 4 * Abs(4 * o.log - median4) > 35000 * mad4

\* flag_outliers: cells of four quotes or more.
Outlier(o, batch) ==
  LET f == CellLogs(o, batch)
  IN  /\ Priced(o) /\ Cardinality(DOMAIN f) >= 4
      /\ 4 * o.log < LowFence(f) \/ 4 * o.log > HighFence(f) \/ HampelHit(o, f)

\* The logarithm capped at the fences; the stored total_fare_capped is this.
Capped(o, batch) ==
  LET f == CellLogs(o, batch)
  IN  IF 4 * o.log < LowFence(f) THEN LowFence(f) \div 4
      ELSE IF 4 * o.log > HighFence(f) THEN HighFence(f) \div 4 ELSE o.log

\* assign_dispositions.
Disposition(o, batch) ==
  IF o.soldOut THEN "QUARANTINED"
  ELSE IF GateFailed(o) THEN "EXCLUDED"
  ELSE IF Outlier(o, batch) THEN "WINSORISED" ELSE "ACCEPTED"

\* clean: what is stored of an offer, under the id of its ledger record.
Cleaned(o, pid, batch) ==
  LET disposition == Disposition(o, batch)
  IN  [pid |-> pid, key |-> <<o.source, o.day, o.product>>, sim |-> o.sim,
       disposition |-> disposition,
       log |-> IF disposition = "WINSORISED" THEN Capped(o, batch) ELSE o.log,
       base |-> BasePositive(o)]

Publishable(q) == q.disposition \in {"ACCEPTED", "WINSORISED"}
=============================================================================
