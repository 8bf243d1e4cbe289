---------------------------- MODULE EarlyWeights ----------------------------
(***************************************************************************)
(* Where the earlier stack's weights come from (src/apix_store/db.py): the *)
(* basket of airport pairs, expanded into directed routes, and the         *)
(* carriers' shares, unless the statistics division supplies its own.      *)
(* Weights are kept as whole numbers: the engine renormalises them.        *)
(***************************************************************************)
EXTENDS Integers, FiniteSets

\* No psd_weights.yaml.
NotSupplied == [supplied |-> FALSE]

\* expand_basket: both directions of a pair, each with half its passengers.
ExpandBasket(pairs) ==
  {[route |-> <<p.origin, p.dest>>, pax |-> p.pax \div 2] : p \in pairs}
    \union {[route |-> <<p.dest, p.origin>>, pax |-> p.pax \div 2] : p \in pairs}

\* seed_dimensions keeps one row for a route: of two, the last written.
Seeded(basket) ==
  [r \in {b.route : b \in basket} |-> (CHOOSE b \in basket : b.route = r).pax]

\* The carrier weight: share, seats and load factor, and the share once more
\* under the national-share prior.
CarrierTable(carriers, prior) ==
  [k \in {c.iata : c \in carriers} |->
     LET c == CHOOSE d \in carriers : d.iata = k
     IN  (IF prior THEN c.share ELSE 1) * c.share * c.seats * c.plf]

\* build_weights.
BuildWeights(psd, seeded, carriers, prior) ==
  IF psd.supplied THEN [routes |-> psd.routes, carriers |-> psd.carriers]
  ELSE [routes |-> seeded,
        carriers |-> [r \in DOMAIN seeded |-> CarrierTable(carriers, prior)]]
=============================================================================
