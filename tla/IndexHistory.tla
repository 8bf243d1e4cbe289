---------------------------- MODULE IndexHistory ----------------------------
(***************************************************************************)
(* The published series as the ledger grows.  Jobs store their observations *)
(* day by day and none is ever removed; the publisher cleans them all anew *)
(* and computes the whole series from those that pass, and readers are     *)
(* served the newest completed run.  (How publishers interleave is         *)
(* IndexPublication's subject.)                                            *)
(***************************************************************************)
EXTENDS IndexEngine, QuoteCleaning

CONSTANTS
  Days,      \* booking days
  Captures,  \* what a job may store, by day: sets of observations
  Whole,     \* the weight one, in a unit that divides by every sum of weights
  Methods    \* method configurations, with "fresh": earlier days still fresh

ASSUME HistoryAssumption ==
  /\ IsFiniteSet(Days) /\ Days = 1..Cardinality(Days)
  /\ \A d \in Days :
       /\ IsFiniteSet(Captures[d])
       /\ \A capture \in Captures[d] :
            /\ IsFiniteSet(capture)
            /\ \A r \in capture : IsObservation(r) /\ r.day = d /\ r.product \in Products
  /\ \A m \in Methods : m.window \in Nat /\ m.fresh \in Nat

\* Whole is divided by what the shares of a set are taken of: the sum of its
\* weights, or the number of its members where they have none.
Parts(weight, S) == IF Total(weight, S) = 0 THEN Cardinality(S) ELSE Total(weight, S)
Divides(weight, S) == IsFiniteSet(S) /\ S # {} => Whole % Parts(weight, S) = 0

ASSUME WholeAssumption ==
  /\ Whole \in Nat \ {0}
  /\ \A S \in SUBSET {p.apw : p \in Products} : Divides(Omega, S)
  /\ \A S \in SUBSET {p.route : p \in Products} : Divides(RouteWeight, S)
  /\ \A r \in {p.route : p \in Products} :
       \A S \in SUBSET {p.carrier : p \in {q \in Products : q.route = r}} :
         Divides(CarrierWeight[r], S)

VARIABLES
  day,     \* today
  ledger,  \* the observations
  quotes,  \* those the publisher last cleaned
  method,  \* the method configuration of the deployment
  index    \* the newest completed run

vars == <<day, ledger, quotes, method, index>>

NoIndex == [base |-> 0, cells |-> <<>>, headline |-> <<>>]

Init ==
  /\ day = 1
  /\ ledger = {}
  /\ quotes = {}
  /\ method \in Methods
  /\ index = NoIndex

\* Jobs store their captures, today or on the next day, and the index is
\* published.  A run that cannot be computed is not served.
Publish(today, batch) ==
  /\ day' = today
  /\ ledger' = ledger \union UNION batch
  /\ quotes' = CleanObservations(ledger', today, method.fresh)
  /\ index' = IF Computes(Prepared(quotes', method), method)
              THEN Compute(quotes', method) ELSE index
  /\ UNCHANGED method

Next == \E today \in {day, day + 1} \cap Days :
          \E batch \in SUBSET Captures[today] : Publish(today, batch)

Spec == Init /\ [][Next]_vars

-----------------------------------------------------------------------------

Published == DOMAIN index.headline

\* Nothing collected is stale yet.
AllFresh == method.fresh >= Cardinality(Days)

\* No fare of zero is stored, so that no fence brings a price down to nothing.
NoZeroFares == \A r \in ledger : r.fare > 0

\* The effective weights of _effective_weights: one product of shares for each
\* cell that survives.
Surviving(t) == {k \in DOMAIN index.cells : k[1] = t /\ ~index.cells[k].suppressed
                                                     /\ index.cells[k].valued}

Share(i, S, weight) ==
  LET total == Total(weight, S)
  IN  IF total = 0 THEN Whole \div Cardinality(S) ELSE (Whole * weight[i]) \div total

EffectiveValue(t) ==
  LET live == {k[2] : k \in Surviving(t)}
      Part(c) == Level(index.cells[<<t, c>>].log)
                   * Share(c.apw, Windows(live), Omega)
                   * Share(c.route, RoutesAt(live, c.apw), RouteWeight)
                   * Share(c.carrier, CarriersAt(live, c.apw, c.route), CarrierWeight[c.route])
  IN  SumFunction([c \in live |-> Part(c)]) \div (Whole * Whole * Whole)

\* The headline aggregated in three stages is the mean of the surviving cells
\* under their effective weights, whatever cells are missing.
AggregatesAgree == \A t \in Published : index.headline[t] = EffectiveValue(t)

\* Once the base period carries every lead window no later quote moves it, "one
\* late-entering route" included: while nothing stored has gone stale, and no
\* fare is zero.
BaseStays ==
  [][method.basis = "book" /\ AllFresh /\ NoZeroFares'
       /\ {k[2].apw : k \in {j \in DOMAIN index.cells : j[1] = index.base}}
            = {p.apw : p \in Products}
     => index'.base = index.base]_vars

\* The most fare families a cell has shown on one day.
Widest(clean, c) ==
  Max({Families({q \in clean : q.day = d /\ CellOf(q.product) = c}) : d \in Days})

\* With a pinned base, and with nothing stale and no fare zero, the published
\* past changes only while the base period is itself still being collected, where
\* today lies within half the smoothing window of it, or, under the availability
\* adjustment, when today some cell shows more fare families than ever before.
PastStands ==
  [][method.basis = "book" /\ AllFresh /\ NoZeroFares' /\ method.pinned \notin {Unpinned, day'}
     /\ (method.availability =>
           \A c \in {CellOf(p) : p \in Products} : Widest(quotes', c) = Widest(quotes, c))
     => \A t \in Published :
          (\A k \in DOMAIN index'.cells :
             k[1] = t => day' \notin Reach(index'.cells, method, t, k[2]))
            => t \in DOMAIN index'.headline /\ index'.headline[t] = index.headline[t]]_vars

\* The engine of the earlier stack, given the same quotes and method.
Earlier == INSTANCE EarlyEngine

\* The engine and the one it was rewritten from, which groups and sums by flight
\* where this one takes means of sets, give the same headline for every panel.
EnginesAgree ==
  Earlier!CanCompute(Earlier!Prepare(quotes, method), method)
    => index.headline = Earlier!EarlyCompute(quotes, method).headline
=============================================================================
