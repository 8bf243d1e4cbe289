---------------------------- MODULE EngineProofs ----------------------------
EXTENDS IndexHistoryProofs

-----------------------------------------------------------------------------
(* Quotients.                                                              *)

\* A multiple is divided exactly.
LEMMA DivExact ==
  ASSUME NEW d \in Nat \ {0}, NEW k \in Int
  PROVE  (d * k) \div d = k
PROOF
  <1> DEFINE n == d * k
             q == n \div d
             r == n % d
  <1>1. n \in Int
    OBVIOUS
  <1> HIDE DEF n
  <1>2. q \in Int /\ r \in Int /\ n = d * q + r /\ 0 <= r /\ r < d
    BY <1>1
  <1> HIDE DEF q, r
  <1>3. d * k = d * q + r
    BY <1>2 DEF n
  <1>4. d * (k - q) = r
    BY <1>2, <1>3
  <1>5. ~(k - q >= 1)
    <2>1. k - q >= 1 => d * (k - q) >= d
      BY <1>2
    <2> QED
      BY <1>2, <1>4, <2>1
  <1>6. ~(k - q <= -1)
    <2>1. k - q <= -1 => d * (k - q) <= -d
      BY <1>2
    <2> QED
      BY <1>2, <1>4, <2>1
  <1>7. q = k
    BY <1>2, <1>5, <1>6
  <1> QED
    BY <1>7 DEF q, n

\* A mean of integers is one.
LEMMA MeanIsInt ==
  ASSUME NEW v, DOMAIN v # {}, Summable(v, DOMAIN v)
  PROVE  MeanOf(v) \in Int /\ MeanOf(v) = Sum(v, DOMAIN v) \div Cardinality(DOMAIN v)
PROOF
  <1>1. Sum(v, DOMAIN v) \in Int
    BY SumStep
  <1>2. Cardinality(DOMAIN v) \in Nat \ {0}
    BY FS_EmptySet, FS_CardinalityType DEF Summable
  <1>3. MeanOf(v) = Sum(v, DOMAIN v) \div Cardinality(DOMAIN v)
    BY DEF MeanOf, SumFunction, Sum
  <1>4. \A s \in Int, n \in Nat \ {0} : s \div n \in Int
    OBVIOUS
  <1> QED
    BY <1>1, <1>2, <1>3, <1>4

-----------------------------------------------------------------------------
(* The Young aggregate as a sum of shares.                                 *)

\* The weights of S are natural numbers that Whole is divided by exactly.
Exact(weight, S) ==
  /\ \A i \in S : weight[i] \in Nat
  /\ \E k \in Nat : Whole = k * Parts(weight, S)

\* v is u scaled by c; g is u by the shares of the weights.
Scaled(v, c, u, D) == DOMAIN v = D /\ \A i \in D : v[i] = c * u[i]
Shared(g, w, u, D) == \A i \in D : g[i] = Share(i, D, w) * u[i]

\* The Young aggregate of scaled values is their sum by the shares of the weights.
LEMMA YoungIsShares ==
  ASSUME NEW D, IsFiniteSet(D), D # {}, NEW w, Exact(w, D), Whole \in Nat,
         NEW u, Summable(u, D),
         NEW v, Scaled(v, Whole, u, D), NEW g, Shared(g, w, u, D)
  PROVE  /\ \A i \in D : Share(i, D, w) \in Int
         /\ Summable(g, D)
         /\ Young(w, v) = Sum(g, D)
PROOF
  <1> USE DEF Scaled, Shared
  <1> DEFINE total == Total(w, D)
             n == Cardinality(D)
  <1>1. total \in Nat /\ n \in Nat \ {0} /\ total = Sum(w, D)
    BY SumNat, FS_EmptySet, FS_CardinalityType DEF Exact, Total, Sum
  <1>2. PICK k \in Nat : Whole = k * (IF total = 0 THEN n ELSE total)
    BY DEF Exact, Parts
  <1>3. Summable(u, D)
    OBVIOUS
  <1>4. \A i \in D : w[i] \in Nat /\ u[i] \in Int
    BY DEF Exact, Summable
  <1>5. DOMAIN v = D /\ Total(w, DOMAIN v) = total
    OBVIOUS
  <1>6. CASE total = 0
    <2>1. Whole \div n = k
      <3>1. Whole = n * k
        BY <1>1, <1>2, <1>6
      <3> QED
        BY <1>1, <3>1, DivExact
    <2>2. \A i \in D : Share(i, D, w) = k
      BY <1>6, <2>1 DEF Share
    <2>3. \A i \in D : g[i] = k * u[i] /\ g[i] \in Int
      BY <1>4, <2>2
    <2>4. Summable(g, D) /\ Sum(g, D) = k * Sum(u, D) /\ Sum(u, D) \in Int
      BY <1>3, <2>3, SumScaled, SumStep DEF Summable
    <2>5. Sum(v, D) = Whole * Sum(u, D)
      BY <1>3, SumScaled
    <2>6. Young(w, v) = Sum(v, D) \div n
      BY <1>5, <1>6 DEF Young, MeanOf, SumFunction, Sum
    <2> DEFINE s == Sum(u, D)
    <2> HIDE DEF n, s
    <2>7. Whole * s = n * (k * s)
      BY <1>1, <1>2, <1>6, <2>4 DEF s
    <2>8. (n * (k * s)) \div n = k * s
      <3>1. k * s \in Int
        BY <2>4 DEF s
      <3> QED
        BY <1>1, <3>1, DivExact
    <2>9. Young(w, v) = k * s
      BY <2>5, <2>6, <2>7, <2>8 DEF s
    <2>10. Young(w, v) = Sum(g, D)
      BY <2>4, <2>9 DEF s
    <2> QED
      BY <2>2, <2>4, <2>10
  <1>7. CASE total # 0
    <2>1. total \in Nat \ {0} /\ Whole = total * k
      BY <1>1, <1>2, <1>7
    <2>2. \A i \in D : Share(i, D, w) = k * w[i]
      <3> TAKE i \in D
      <3>1. Share(i, D, w) = (Whole * w[i]) \div total
        BY <1>7 DEF Share
      <3>2. k * w[i] \in Int
        BY <1>4
      <3> HIDE DEF total
      <3>3. Whole * w[i] = total * (k * w[i])
        BY <1>4, <2>1
      <3> QED
        BY <2>1, <3>1, <3>2, <3>3, DivExact
    <2> DEFINE h == [i \in D |-> w[i] * v[i]]
    <2>3. \A i \in D : g[i] = k * (w[i] * u[i]) /\ g[i] \in Int
      BY <1>4, <2>2
    <2>4. \A i \in D : h[i] = total * g[i]
      <3> TAKE i \in D
      <3>1. h[i] = w[i] * (Whole * u[i])
        OBVIOUS
      <3> HIDE DEF total, h
      <3>2. w[i] * ((total * k) * u[i]) = total * (k * (w[i] * u[i]))
        BY <1>4, <2>1
      <3> QED
        BY <2>1, <2>3, <3>1, <3>2
    <2>5. Summable(g, D) /\ Sum(g, D) \in Int
      BY <2>3, SumStep DEF Summable
    <2>6. Sum(h, D) = total * Sum(g, D)
      <3> HIDE DEF h
      <3>1. total \in Int
        BY <1>1
      <3> HIDE DEF total
      <3> QED
        BY <2>4, <2>5, <3>1, SumScaled
    <2>7. Young(w, v) = Sum(h, D) \div total
      BY <1>5, <1>7 DEF Young, SumFunction, Sum
    <2>8. Young(w, v) = Sum(g, D)
      <3> HIDE DEF total, h
      <3> QED
        BY <2>1, <2>5, <2>6, <2>7, DivExact
    <2>9. \A i \in D : Share(i, D, w) \in Int
      BY <1>4, <2>2
    <2> QED
      BY <2>5, <2>8, <2>9
  <1> QED
    BY <1>6, <1>7

-----------------------------------------------------------------------------
(* Quotes, panel and cells of integers.                                    *)

\* Logarithms are in a unit fine enough to be integers.
LogsAreIntegers == \A price \in Nat \ {0} : LogOf(price) \in Int

IsQuotes(Q) ==
  IsFiniteSet(Q) /\ \A q \in Q : q.day \in Nat /\ q.product \in Products /\ q.fare \in Int

IsPanel(P) ==
  IsFiniteSet(P) /\ \A q \in P : q.period \in Nat /\ q.product \in Products /\ q.fare \in Int

\* A table of cells by period and cell; a published cell has a value.
IsCells(cells) ==
  /\ IsFiniteSet(DOMAIN cells)
  /\ \A k \in DOMAIN cells : /\ k = <<k[1], k[2]>> /\ k[1] \in Nat
                             /\ \E p \in Products : k[2] = CellOf(p)
                             /\ cells[k] \in [valued : BOOLEAN, log : Int, suppressed : BOOLEAN]
                             /\ ~cells[k].suppressed => cells[k].valued

\* What passes the cleaning is a finite set of quotes.
LEMMA CleanedAreQuotes ==
  ASSUME LogsAreIntegers, NEW rows, Stored(rows), \A r \in rows : r.product \in Products,
         NEW today, NEW fresh
  PROVE  IsQuotes(CleanObservations(rows, today, fresh))
PROOF
  <1> DEFINE Kept == {q \in rows : /\ PublicationDisposition(Flags(rows, q, today, fresh))
                                          \in {"ACCEPTED", "WINSORISED"}
                                   /\ Price(rows, q) > 0}
             f == [r \in Kept |-> QuoteOf(r, Price(rows, r))]
  <1>1. CleanObservations(rows, today, fresh) = {f[r] : r \in Kept}
    BY DEF CleanObservations
  <1>2. IsFiniteSet(Kept)
    BY FS_Subset DEF Stored
  <1>3. ASSUME NEW r \in Kept
        PROVE  f[r].day \in Nat /\ f[r].product \in Products /\ f[r].fare \in Int
    <2>1. f[r] = QuoteOf(r, Price(rows, r)) /\ r \in rows /\ Price(rows, r) > 0
      OBVIOUS
    <2> HIDE DEF f, Kept
    <2>2. Price(rows, r) \in Nat \ {0}
      BY <2>1, PriceIs
    <2>3. LogOf(Price(rows, r)) \in Int
      BY <2>2 DEF LogsAreIntegers
    <2> QED
      BY <2>1, <2>3 DEF QuoteOf, Stored, IsObservation
  <1> HIDE DEF f, Kept
  <1>4. IsFiniteSet({f[r] : r \in Kept})
    BY <1>2, FiniteValues
  <1> QED
    BY <1>1, <1>3, <1>4 DEF IsQuotes

\* A period is a day.
LEMMA PeriodIsDay ==
  ASSUME NEW Q, IsQuotes(Q), NEW q \in Q, NEW m
  PROVE  Period(q, m) \in Nat
PROOF
  <1>1. q.day \in Nat /\ q.product.apw \in Nat
    BY EngineAssumption DEF IsQuotes
  <1> DEFINE d == q.day
             a == q.product.apw
  <1> HIDE DEF d, a
  <1>2. d \in Nat /\ d + a \in Nat
    BY <1>1 DEF d, a
  <1> QED
    BY <1>2 DEF Period, d, a

\* What _prepare makes of quotes is a panel.
LEMMA PreparedIsPanel ==
  ASSUME NEW Q, IsQuotes(Q), NEW m
  PROVE  IsPanel(Prepared(Q, m))
PROOF
  <1> DEFINE Group(q) == {s \in Q : Period(s, m) = Period(q, m) /\ s.product = q.product}
             Paid(q) == MeanOf([r \in Group(q) |-> r.fare])
             f == [q \in Q |-> [period |-> Period(q, m), product |-> q.product, fare |-> Paid(q)]]
  <1>1. Prepared(Q, m) = {f[q] : q \in Q}
    BY DEF Prepared
  <1>2. ASSUME NEW q \in Q
        PROVE  f[q].period \in Nat /\ f[q].product \in Products /\ f[q].fare \in Int
    <2> DEFINE v == [r \in Group(q) |-> r.fare]
    <2>1. q \in Group(q) /\ Group(q) \in SUBSET Q
      OBVIOUS
    <2> DEFINE G == Group(q)
    <2>2. IsFiniteSet(G) /\ \A r \in G : r.fare \in Int
      BY <2>1, FS_Subset DEF IsQuotes
    <2> HIDE DEF G
    <2>3. DOMAIN v # {} /\ Summable(v, DOMAIN v)
      BY <2>1, <2>2 DEF Summable, G
    <2>4. f[q] = [period |-> Period(q, m), product |-> q.product, fare |-> MeanOf(v)]
      OBVIOUS
    <2> HIDE DEF v, f
    <2>5. MeanOf(v) \in Int
      BY <2>3, MeanIsInt
    <2> QED
      BY <2>4, <2>5, PeriodIsDay DEF IsQuotes
  <1> HIDE DEF f
  <1>3. IsFiniteSet({f[q] : q \in Q})
    BY FiniteValues DEF IsQuotes
  <1> QED
    BY <1>1, <1>2, <1>3 DEF IsPanel

\* The number of families of a set of rows.
LEMMA FamiliesAre ==
  ASSUME NEW S, IsFiniteSet(S)
  PROVE  Families(S) \in Nat /\ (S # {} => Families(S) > 0)
PROOF
  <1> DEFINE f == [q \in S |-> q.product.family]
  <1>1. {q.product.family : q \in S} = {f[q] : q \in S}
    OBVIOUS
  <1> DEFINE F == {f[q] : q \in S}
  <1>2. IsFiniteSet(F) /\ (S # {} => F # {})
    <2> HIDE DEF f
    <2> QED
      BY FiniteValues
  <1>3. Families(S) = Cardinality(F)
    BY <1>1 DEF Families
  <1> HIDE DEF F
  <1>4. Cardinality(F) \in Nat /\ (S # {} => Cardinality(F) # 0)
    BY <1>2, FS_EmptySet, FS_CardinalityType
  <1> QED
    BY <1>3, <1>4

\* The fares of a flight among rows of a panel, and the least of them.
LEMMA LeastFare ==
  ASSUME NEW S, IsPanel(S), NEW f, f \in {FlightOf(q.product) : q \in S}
  PROVE  Min(FaresOf(S, f)) \in Int
PROOF
  <1> DEFINE R == {r \in S : FlightOf(r.product) = f}
             g == [q \in R |-> q.fare]
  <1>1. FaresOf(S, f) = {g[q] : q \in R}
    BY DEF FaresOf
  <1>2. IsFiniteSet(R) /\ R # {} /\ \A q \in R : g[q] \in Int
    BY FS_Subset DEF IsPanel
  <1> HIDE DEF R, g
  <1>3. IsFiniteSet({g[q] : q \in R}) /\ {g[q] : q \in R} # {} /\ {g[q] : q \in R} \subseteq Int
    BY <1>2, FiniteValues
  <1> QED
    BY <1>1, <1>3, FiniteMin

\* An elementary cell of a panel, valued where it is published.
LEMMA ElementaryIsInt ==
  ASSUME NEW start, IsPanel(start), NEW group, IsPanel(group), group # {},
         NEW reference \in Nat \ {0}, NEW m,
         NEW e, e = Elementary(start, group, reference, m)
  PROVE  e \in [valued : BOOLEAN, log : Int, suppressed : BOOLEAN] /\ (~e.suppressed => e.valued)
PROOF
  <1> DEFINE matched == {q \in group : \E r \in start : r.product = q.product}
             flights == {FlightOf(q.product) : q \in group} \cap {FlightOf(r.product) : r \in start}
             relative == [q \in matched |-> q.fare - (CHOOSE r \in start : r.product = q.product).fare]
             lowest   == [f \in flights |-> Lowest(group, f) - BaseLowest(start, f)]
             Adjusted ==
               IF matched = {} THEN MeanOf(lowest)
               ELSE IF ~m.availability THEN MeanOf(relative)
               ELSE Blend(MeanOf(relative), MeanOf(lowest), Families(group), reference)
             valued  == matched # {} \/ (m.availability /\ flights # {})
  <1>1. e = [valued |-> valued, log |-> IF valued THEN Adjusted ELSE 0,
             suppressed |-> Cardinality(matched) < m.nMin \/ ~valued]
    BY DEF Elementary
  <1>2. IsFiniteSet(matched) /\ IsFiniteSet(flights)
    <2> DEFINE g == [q \in group |-> FlightOf(q.product)]
    <2>1. IsFiniteSet(matched)
      BY FS_Subset DEF IsPanel
    <2>2. IsFiniteSet({g[q] : q \in group})
      <3> HIDE DEF g
      <3> QED
        BY FiniteValues DEF IsPanel
    <2>3. flights \in SUBSET {g[q] : q \in group}
      OBVIOUS
    <2> QED
      BY <2>1, <2>2, <2>3, FS_Subset
  <1>3. matched # {} => flights # {} /\ MeanOf(relative) \in Int
    <2> SUFFICES ASSUME matched # {}
                 PROVE  flights # {} /\ MeanOf(relative) \in Int
      OBVIOUS
    <2>1. flights # {}
      OBVIOUS
    <2>2. \A q \in matched : relative[q] \in Int
      <3> TAKE q \in matched
      <3> DEFINE r == CHOOSE r \in start : r.product = q.product
      <3>1. r \in start /\ q \in group
        OBVIOUS
      <3>2. r.fare \in Int /\ q.fare \in Int
        BY <3>1 DEF IsPanel
      <3>3. relative[q] = q.fare - r.fare
        OBVIOUS
      <3> HIDE DEF r, relative
      <3> QED
        BY <3>2, <3>3
    <2>3. DOMAIN relative = matched
      OBVIOUS
    <2> HIDE DEF relative, matched
    <2>4. MeanOf(relative) \in Int
      BY <1>2, <2>2, <2>3, MeanIsInt DEF Summable
    <2> QED
      BY <2>1, <2>4
  <1>4. flights # {} => MeanOf(lowest) \in Int
    <2> SUFFICES ASSUME flights # {}
                 PROVE  MeanOf(lowest) \in Int
      OBVIOUS
    <2>1. \A f \in flights : lowest[f] = Lowest(group, f) - BaseLowest(start, f)
      OBVIOUS
    <2>2. \A f \in flights : Lowest(group, f) \in Int /\ BaseLowest(start, f) \in Int
      BY LeastFare DEF Lowest, BaseLowest
    <2>3. DOMAIN lowest = flights
      OBVIOUS
    <2> HIDE DEF lowest, flights
    <2>4. \A f \in flights : lowest[f] \in Int
      BY <2>1, <2>2
    <2> QED
      BY <1>2, <2>3, <2>4, MeanIsInt DEF Summable
  <1>5. Families(group) \in Nat
    BY FamiliesAre DEF IsPanel
  <1>6. \A a, b \in Int, n \in Nat : Blend(a, b, n, reference) \in Int
    <2> TAKE a, b \in Int, n \in Nat
    <2> DEFINE s == n * a + (reference - n) * b
    <2>1. s \in Int
      OBVIOUS
    <2> HIDE DEF s
    <2>2. s \div reference \in Int
      BY <2>1
    <2> QED
      BY <2>2 DEF Blend, s
  <1> HIDE DEF matched, flights, relative, lowest
  <1>7. valued => Adjusted \in Int
    BY <1>3, <1>4, <1>5, <1>6
  <1>8. valued \in BOOLEAN
    OBVIOUS
  <1> DEFINE log == IF valued THEN Adjusted ELSE 0
             suppressed == Cardinality(matched) < m.nMin \/ ~valued
  <1>9. suppressed \in BOOLEAN /\ (~suppressed => valued)
    OBVIOUS
  <1>10. log \in Int
    <2> HIDE DEF valued, Adjusted
    <2> QED
      BY <1>7
  <1> HIDE DEF valued, log, suppressed
  <1>11. e = [valued |-> valued, log |-> log, suppressed |-> suppressed]
    BY <1>1 DEF valued, log, suppressed
  <1> QED
    BY <1>8, <1>9, <1>10, <1>11

\* A cell's reference is positive and no less than the families it shows.
LEMMA ReferenceIs ==
  ASSUME NEW P, IsPanel(P), NEW t, NEW c, CellAt(P, t, c) # {}
  PROVE  Reference(P, c) \in Nat \ {0} /\ Families(CellAt(P, t, c)) <= Reference(P, c)
PROOF
  <1> DEFINE f == [u \in Periods(P) |-> Families(CellAt(P, u, c))]
             F == {f[u] : u \in Periods(P)}
  <1>1. IsFiniteSet(Periods(P))
    <2> DEFINE g == [q \in P |-> q.period]
    <2>1. Periods(P) = {g[q] : q \in P}
      BY DEF Periods
    <2> HIDE DEF g
    <2> QED
      BY <2>1, FiniteValues DEF IsPanel
  <1>2. \A u : IsFiniteSet(CellAt(P, u, c))
    BY FS_Subset DEF CellAt, At, IsPanel
  <1>3. t \in Periods(P)
    BY DEF CellAt, At, Periods
  <1>4. \A u : Families(CellAt(P, u, c)) \in Nat /\ (u = t => Families(CellAt(P, u, c)) > 0)
    BY <1>2, FamiliesAre
  <1>5. Reference(P, c) = Max(F)
    BY DEF Reference
  <1>6. \A u \in Periods(P) : f[u] \in Nat
    BY <1>4
  <1>7. f[t] = Families(CellAt(P, t, c)) /\ f[t] > 0
    BY <1>3, <1>4
  <1> HIDE DEF f
  <1>8. IsFiniteSet(F) /\ F \subseteq Nat /\ F \subseteq Int /\ f[t] \in F
    BY <1>1, <1>3, <1>6, FiniteValues
  <1> HIDE DEF F
  <1>9. Max(F) \in F /\ f[t] <= Max(F)
    BY <1>8, FiniteMax
  <1>10. \A a, b \in Nat : b > 0 /\ b <= a => a \in Nat \ {0}
    OBVIOUS
  <1>11. f[t] \in Nat /\ Max(F) \in Nat
    BY <1>8, <1>9
  <1> QED
    BY <1>5, <1>7, <1>9, <1>10, <1>11

\* Part of a panel is one.
LEMMA PartOfPanel == ASSUME NEW P, IsPanel(P), NEW S \in SUBSET P PROVE IsPanel(S)
BY FS_Subset DEF IsPanel

\* The cells of a panel are a table of cells.
LEMMA CellsAre ==
  ASSUME NEW P, IsPanel(P), NEW m
  PROVE  IsCells(Cells(P, m))
PROOF
  <1> PICK start : start = At(P, ChooseBase(P, m))
    OBVIOUS
  <1> DEFINE K == {<<q.period, CellOf(q.product)>> : q \in P}
             e(k) == Elementary(start, CellAt(P, k[1], k[2]), Reference(P, k[2]), m)
  <1>1. Cells(P, m) = [k \in K |-> e(k)]
    BY DEF Cells
  <1>2. IsFiniteSet(K)
    <2> DEFINE g == [q \in P |-> <<q.period, CellOf(q.product)>>]
    <2>1. K = {g[q] : q \in P}
      OBVIOUS
    <2> HIDE DEF g, K
    <2> QED
      BY <2>1, FiniteValues DEF IsPanel
  <1>3. IsPanel(start)
    BY PartOfPanel DEF At
  <1>4. ASSUME NEW k \in K
        PROVE  /\ k = <<k[1], k[2]>> /\ k[1] \in Nat /\ \E p \in Products : k[2] = CellOf(p)
               /\ e(k) \in [valued : BOOLEAN, log : Int, suppressed : BOOLEAN]
               /\ (~e(k).suppressed => e(k).valued)
    <2>1. PICK q \in P : k = <<q.period, CellOf(q.product)>>
      OBVIOUS
    <2>2. q \in CellAt(P, k[1], k[2]) /\ CellAt(P, k[1], k[2]) \in SUBSET P
      BY <2>1 DEF CellAt, At
    <2>3. IsPanel(CellAt(P, k[1], k[2])) /\ Reference(P, k[2]) \in Nat \ {0}
      BY <2>2, PartOfPanel, ReferenceIs
    <2>4. /\ e(k) \in [valued : BOOLEAN, log : Int, suppressed : BOOLEAN]
          /\ ~e(k).suppressed => e(k).valued
      BY <1>3, <2>2, <2>3, ElementaryIsInt
    <2> QED
      BY <2>1, <2>4 DEF IsPanel
  <1> HIDE DEF K, e
  <1> QED
    BY <1>1, <1>2, <1>4 DEF IsCells

\* So are the smoothed ones.
LEMMA SmoothedAre ==
  ASSUME NEW cells, IsCells(cells), NEW m, m.window \in Nat
  PROVE  IsCells(Smoothed(cells, m))
PROOF
  <1> DEFINE near(k) == {u \in Reach(cells, m, k[1], k[2]) : cells[<<u, k[2]>>].valued}
             logs(k) == [u \in near(k) |-> cells[<<u, k[2]>>].log]
             new(k)  == IF cells[k].valued THEN [cells[k] EXCEPT !.log = MeanOf(logs(k))] ELSE cells[k]
  <1>1. Smoothed(cells, m) = [k \in DOMAIN cells |-> new(k)]
    BY DEF Smoothed
  <1>2. ASSUME NEW k \in DOMAIN cells
        PROVE  /\ new(k) \in [valued : BOOLEAN, log : Int, suppressed : BOOLEAN]
               /\ ~new(k).suppressed => new(k).valued
    <2>1. CASE cells[k].valued
      <3> PICK series : series = SeriesOf(cells, k[2])
        OBVIOUS
      <3>1. Reach(cells, m, k[1], k[2]) = ReachIn(series, k[1], m.window \div 2)
        BY ReachIs
      <3>2. k = <<k[1], k[2]>> /\ k[1] \in series /\ series \subseteq Nat
        BY DEF SeriesOf, IsCells
      <3>3. m.window \div 2 \in Nat
        OBVIOUS
      <3>4. k[1] \in Reach(cells, m, k[1], k[2])
        BY <3>1, <3>2, <3>3, WindowHasItself
      <3>5. k[1] \in near(k)
        BY <2>1, <3>2, <3>4
      <3>6. IsFiniteSet(near(k))
        <4> DEFINE g == [j \in DOMAIN cells |-> j[1]]
        <4>1. near(k) \in SUBSET {g[j] : j \in DOMAIN cells}
          BY DEF Reach
        <4>2. IsFiniteSet({g[j] : j \in DOMAIN cells})
          <5> HIDE DEF g
          <5> QED
            BY FiniteValues DEF IsCells
        <4> HIDE DEF near, g
        <4> QED
          BY <4>1, <4>2, FS_Subset
      <3>7. \A u \in near(k) : cells[<<u, k[2]>>].log \in Int
        BY DEF Reach, IsCells
      <3> DEFINE v == logs(k)
      <3>8. DOMAIN v # {} /\ Summable(v, DOMAIN v)
        BY <3>5, <3>6, <3>7 DEF Summable
      <3>9. MeanOf(v) \in Int
        <4> HIDE DEF v
        <4> QED
          BY <3>8, MeanIsInt
      <3> QED
        BY <2>1, <3>9 DEF IsCells
    <2>2. CASE ~cells[k].valued
      BY <2>2 DEF IsCells
    <2> QED
      BY <2>1, <2>2
  <1> HIDE DEF new
  <1> QED
    BY <1>1, <1>2 DEF IsCells

-----------------------------------------------------------------------------
(* The headline under the effective weights.                               *)

\* The keys of S; v is the sums of f over the members with one key, scaled; g is
\* f by the shares of the keys.
Keys(key, S)               == {key[c] : c \in S}
SummedBy(v, c, f, key, S)  == /\ DOMAIN v = Keys(key, S)
                              /\ \A d \in Keys(key, S) : v[d] = Whole * (c * Sum(f, Of(key, S, d)))
SharedBy(g, w, f, key, S)  == \A c \in S : g[c] = Share(key[c], Keys(key, S), w) * f[c]

\* A stage: the Young aggregate of sums is the sum of its terms by their shares.
LEMMA StageIsSum ==
  ASSUME Whole \in Nat, NEW S, S # {}, NEW key, NEW w, Exact(w, Keys(key, S)),
         NEW f, Summable(f, S), NEW scale \in Int,
         NEW v, SummedBy(v, scale, f, key, S), NEW g, SharedBy(g, w, f, key, S)
  PROVE  Summable(g, S) /\ Young(w, v) = scale * Sum(g, S)
PROOF
  <1> DEFINE D == Keys(key, S)
  <1>0. /\ D = {key[c] : c \in S} /\ Exact(w, D) /\ DOMAIN v = D
        /\ \A d \in D : v[d] = Whole * (scale * Sum(f, Of(key, S, d)))
        /\ \A c \in S : g[c] = Share(key[c], D, w) * f[c]
    BY DEF Keys, SummedBy, SharedBy
  <1> HIDE DEF D
  <1> DEFINE u == [d \in D |-> scale * Sum(f, Of(key, S, d))]
             h == [d \in D |-> Share(d, D, w) * u[d]]
             y == [d \in D |-> Sum(g, Of(key, S, d))]
  <1>1. IsFiniteSet(S) /\ IsFiniteSet(D) /\ D # {}
    BY <1>0, FiniteValues DEF Summable
  <1>2. \A d \in D : Summable(f, Of(key, S, d)) /\ Sum(f, Of(key, S, d)) \in Int
    <2> TAKE d \in D
    <2>1. Of(key, S, d) \in SUBSET S
      BY DEF Of
    <2> QED
      BY <2>1, SummablePart, SumStep
  <1>3. \A d \in D : u[d] \in Int
    <2> TAKE d \in D
    <2>1. Sum(f, Of(key, S, d)) \in Int /\ u[d] = scale * Sum(f, Of(key, S, d))
      BY <1>2
    <2> HIDE DEF u
    <2> QED
      BY <2>1
  <1>4. Scaled(v, Whole, u, D)
    BY <1>0 DEF Scaled
  <1>5. /\ \A d \in D : Share(d, D, w) \in Int
        /\ Summable(h, D) /\ Young(w, v) = Sum(h, D)
    <2> DEFINE hh == h
    <2>1. Summable(u, D) /\ Shared(hh, w, u, D)
      BY <1>1, <1>3 DEF Summable, Shared
    <2> HIDE DEF u, h, y, hh
    <2>2. /\ \A d \in D : Share(d, D, w) \in Int
          /\ Summable(hh, D) /\ Young(w, v) = Sum(hh, D)
      BY <1>0, <1>1, <1>3, <1>4, <2>1, YoungIsShares
    <2> QED
      BY <2>2 DEF hh
  <1>6. Summable(g, S)
    <2>1. \A c \in S : key[c] \in D /\ f[c] \in Int
      BY <1>0 DEF Summable
    <2>2. \A c \in S : g[c] \in Int
      <3> TAKE c \in S
      <3>1. Share(key[c], D, w) \in Int /\ f[c] \in Int /\ g[c] = Share(key[c], D, w) * f[c]
        BY <1>0, <1>5, <2>1
      <3> QED
        BY <3>1
    <2> QED
      BY <1>1, <2>2 DEF Summable
  <1>7. \A d \in D : y[d] = Share(d, D, w) * Sum(f, Of(key, S, d)) /\ y[d] \in Int
    <2> TAKE d \in D
    <2>1. \A c \in Of(key, S, d) : g[c] = Share(d, D, w) * f[c]
      BY <1>0 DEF Of
    <2>2. Summable(f, Of(key, S, d)) /\ Share(d, D, w) \in Int /\ Sum(f, Of(key, S, d)) \in Int /\ y[d] = Sum(g, Of(key, S, d))
      BY <1>2, <1>5
    <2> HIDE DEF y
    <2>3. Sum(g, Of(key, S, d)) = Share(d, D, w) * Sum(f, Of(key, S, d))
      BY <2>1, <2>2, SumScaled
    <2> QED
      BY <2>2, <2>3
  <1>8. \A d \in D : h[d] = scale * y[d]
    <2> TAKE d \in D
    <2>1. /\ h[d] = Share(d, D, w) * (scale * Sum(f, Of(key, S, d)))
          /\ y[d] = Share(d, D, w) * Sum(f, Of(key, S, d))
          /\ Share(d, D, w) \in Int /\ Sum(f, Of(key, S, d)) \in Int
      BY <1>2, <1>5, <1>7
    <2> DEFINE a == Share(d, D, w)
               b == Sum(f, Of(key, S, d))
    <2> HIDE DEF h, y, a, b
    <2>2. a \in Int /\ b \in Int /\ h[d] = a * (scale * b) /\ y[d] = a * b
      BY <2>1 DEF a, b
    <2>3. \A p, q, r \in Int : p * (q * r) = q * (p * r)
      OBVIOUS
    <2> QED
      BY <2>2, <2>3
  <1>9. Sum(h, D) = scale * Sum(y, D)
    <2> DEFINE hh == h
               yy == y
    <2>1. Summable(yy, D) /\ \A d \in D : hh[d] = scale * yy[d]
      BY <1>1, <1>7, <1>8 DEF Summable
    <2> HIDE DEF u, h, y, hh, yy
    <2>2. Sum(hh, D) = scale * Sum(yy, D)
      BY <2>1, SumScaled
    <2> QED
      BY <2>2 DEF hh, yy
  <1>10. Sum(y, D) = Sum(g, S)
    <2> DEFINE yy == y
    <2>1. \A d \in D : yy[d] = Sum(g, Of(key, S, d))
      OBVIOUS
    <2>2. Keyed(key, S, D)
      BY <1>0 DEF Keyed
    <2> HIDE DEF u, h, y, yy
    <2>3. Sum(yy, D) = Sum(g, S)
      BY <1>1, <1>6, <2>1, <2>2, SumByKey
    <2> QED
      BY <2>3 DEF yy
  <1> QED
    BY <1>5, <1>6, <1>9, <1>10

\* Whatever windows, routes and carriers of a route are present, no quotient of
\* the three stages, or of the effective weights, is rounded.
LEMMA DividesExactly ==
  ASSUME NEW weight, NEW S, IsFiniteSet(S), S # {}, \A i \in S : weight[i] \in Nat,
         Divides(weight, S)
  PROVE  Exact(weight, S)
PROOF
  <1> DEFINE n == Parts(weight, S)
  <1>1. n \in Nat \ {0}
    BY SumNat, FS_EmptySet, FS_CardinalityType DEF Parts, Total, Sum
  <1>2. Whole % n = 0 /\ Whole \in Nat
    BY WholeAssumption DEF Divides
  <1> HIDE DEF n
  <1>3. Whole = n * (Whole \div n) /\ Whole \div n \in Nat
    BY <1>1, <1>2
  <1>4. Whole = (Whole \div n) * n
    BY <1>1, <1>3
  <1> QED
    BY <1>3, <1>4 DEF Exact, n

\* The unit of weight is whole, and the shares of any windows, routes or carriers of
\* the basket are exact in it.
LEMMA WeightsAreExact ==
  /\ Whole \in Nat \ {0}
  /\ \A S \in SUBSET {p.apw : p \in Products} : IsFiniteSet(S) /\ S # {} => Exact(Omega, S)
  /\ \A S \in SUBSET {p.route : p \in Products} : IsFiniteSet(S) /\ S # {} => Exact(RouteWeight, S)
  /\ \A r \in {p.route : p \in Products} :
       \A S \in SUBSET {p.carrier : p \in {q \in Products : q.route = r}} :
         IsFiniteSet(S) /\ S # {} => Exact(CarrierWeight[r], S)
PROOF
  <1>1. Whole \in Nat \ {0}
    BY WholeAssumption
  <1>2. ASSUME NEW S \in SUBSET {p.apw : p \in Products}, IsFiniteSet(S), S # {}
        PROVE  Exact(Omega, S)
    <2>1. Divides(Omega, S) /\ \A i \in S : Omega[i] \in Nat
      BY WholeAssumption, EngineAssumption
    <2> QED
      BY <1>2, <2>1, DividesExactly
  <1>3. ASSUME NEW S \in SUBSET {p.route : p \in Products}, IsFiniteSet(S), S # {}
        PROVE  Exact(RouteWeight, S)
    <2>1. Divides(RouteWeight, S) /\ \A i \in S : RouteWeight[i] \in Nat
      BY WholeAssumption, EngineAssumption
    <2> QED
      BY <1>3, <2>1, DividesExactly
  <1>4. ASSUME NEW r \in {p.route : p \in Products},
               NEW S \in SUBSET {p.carrier : p \in {q \in Products : q.route = r}},
               IsFiniteSet(S), S # {}
        PROVE  Exact(CarrierWeight[r], S)
    <2> DEFINE w == CarrierWeight[r]
    <2>1. Divides(w, S) /\ \A i \in S : w[i] \in Nat
      BY WholeAssumption, EngineAssumption
    <2> HIDE DEF w
    <2>2. Exact(w, S)
      BY <1>4, <2>1, DividesExactly
    <2> QED
      BY <2>2 DEF w
  <1> QED
    BY <1>1, <1>2, <1>3, <1>4

\* Every level divides by Whole three times over.
Cube == Whole * Whole * Whole
LevelsDivide == \A log \in Int : \E k \in Int : Level(log) = k * Cube

\* The published cells of a window, and of a route in it.
AtWindow(live, a)   == {c \in live : c.apw = a}
AtRoute(live, a, r) == {c \in live : c.apw = a /\ c.route = r}

\* The share of a cell among those published, at each stage.
CarrierShare(live, c) == Share(c.carrier, CarriersAt(live, c.apw, c.route), CarrierWeight[c.route])
RouteShare(live, c)   == Share(c.route, RoutesAt(live, c.apw), RouteWeight)
WindowShare(live, c)  == Share(c.apw, Windows(live), Omega)

CarrierTerms(g, f, live) == \A c \in live : g[c] = CarrierShare(live, c) * f[c]
RouteTerms(g, f, live)   == \A c \in live : g[c] = RouteShare(live, c) * f[c]
WindowTerms(g, f, live)  == \A c \in live : g[c] = WindowShare(live, c) * f[c]

\* Published cells, and values of theirs that are f times a cube.
IsLive(live)              == IsFiniteSet(live) /\ \A c \in live : \E p \in Products : c = CellOf(p)
InCubes(value, f, live)   == \A c \in live : value[c] = f[c] * Cube

\* The stages of a headline, from the values of the cells.
RouteValue(live, value, a, r) ==
  Young(CarrierWeight[r],
        [k \in CarriersAt(live, a, r) |-> value[[route |-> r, carrier |-> k, apw |-> a]]])
WindowValue(live, value, a) ==
  Young(RouteWeight, [r \in RoutesAt(live, a) |-> RouteValue(live, value, a, r)])

\* The carriers of a route and window, aggregated.
LEMMA CarrierStage ==
  ASSUME NEW live, IsLive(live), NEW f, Summable(f, live),
         NEW value, InCubes(value, f, live), NEW g, CarrierTerms(g, f, live),
         NEW a, NEW r, AtRoute(live, a, r) # {}
  PROVE  /\ Summable(g, AtRoute(live, a, r))
         /\ RouteValue(live, value, a, r) = (Whole * Whole) * Sum(g, AtRoute(live, a, r))
PROOF
  <1> DEFINE S == AtRoute(live, a, r)
             K == CarriersAt(live, a, r)
             w == CarrierWeight[r]
             key == [c \in live |-> c.carrier]
             cell(k) == [route |-> r, carrier |-> k, apw |-> a]
             v == [k \in K |-> value[cell(k)]]
  <1>1. S \in SUBSET live /\ IsFiniteSet(S) /\ S # {}
    BY FS_Subset DEF AtRoute, IsLive
  <1>2. Keys(key, S) = K
    BY DEF Keys, CarriersAt, AtRoute
  <1>3. IsFiniteSet(K) /\ K # {}
    <2> HIDE DEF S, K, key
    <2>1. IsFiniteSet(Keys(key, S))
      BY <1>1, FiniteValues DEF Keys
    <2> QED
      BY <1>1, <1>2, <2>1 DEF Keys
  <1>4. r \in {p.route : p \in Products} /\ K \in SUBSET {p.carrier : p \in {x \in Products : x.route = r}}
    <2>1. \A c \in S : \E p \in Products : c.route = r /\ p.route = r /\ c.carrier = p.carrier
      BY DEF AtRoute, CellOf, IsLive
    <2>2. K = {c.carrier : c \in S}
      BY DEF AtRoute, CarriersAt
    <2> HIDE DEF S, K
    <2> QED
      BY <1>1, <2>1, <2>2
  <1>5. Exact(w, K)
    <2> HIDE DEF K
    <2> QED
      BY <1>3, <1>4, WeightsAreExact
  <1>6. Whole \in Nat /\ Whole * Whole \in Int
    BY WeightsAreExact
  <1>7. \A c \in live : c = [route |-> c.route, carrier |-> c.carrier, apw |-> c.apw]
    BY DEF CellOf, IsLive
  <1>8. ASSUME NEW k \in K
        PROVE  cell(k) \in live /\ Of(key, S, k) = {cell(k)}
    BY <1>7 DEF Of, AtRoute, CarriersAt
  <1>9. SummedBy(v, Whole * Whole, f, key, S)
    <2>1. ASSUME NEW k \in K
          PROVE  v[k] = Whole * ((Whole * Whole) * Sum(f, Of(key, S, k)))
      <3> DEFINE c == cell(k)
      <3>1. c \in live /\ Of(key, S, k) = {c} /\ v[k] = value[c]
        BY <1>8
      <3> HIDE DEF c, v, S, K, key
      <3>2. f[c] \in Int
        BY <3>1 DEF Summable
      <3>3. Sum(f, {c}) = f[c]
        BY <3>2, SumOne
      <3>4. value[c] = f[c] * Cube
        BY <3>1 DEF InCubes
      <3>5. \A n, x \in Int : x * (n * n * n) = n * ((n * n) * x)
        OBVIOUS
      <3> QED
        BY <1>6, <3>1, <3>2, <3>3, <3>4, <3>5 DEF Cube
    <2> HIDE DEF S, key
    <2> QED
      BY <1>2, <2>1 DEF SummedBy
  <1>10. SharedBy(g, w, f, key, S)
    <2>1. \A c \in S : g[c] = Share(key[c], K, w) * f[c]
      BY DEF AtRoute, CarrierShare, CarrierTerms
    <2> HIDE DEF S, key, K
    <2> QED
      BY <1>2, <2>1 DEF SharedBy
  <1>11. Summable(f, S)
    BY <1>1, SummablePart
  <1>12. RouteValue(live, value, a, r) = Young(w, v)
    BY DEF RouteValue
  <1> HIDE DEF S, K, key, v, w
  <1>13. Summable(g, S) /\ Young(w, v) = (Whole * Whole) * Sum(g, S)
    BY <1>1, <1>2, <1>5, <1>6, <1>9, <1>10, <1>11, StageIsSum
  <1> QED
    BY <1>12, <1>13 DEF S

\* The routes of a window, aggregated.
LEMMA RouteStage ==
  ASSUME NEW live, IsLive(live), NEW f, Summable(f, live),
         NEW value, InCubes(value, f, live), NEW g, CarrierTerms(g, f, live),
         NEW h, RouteTerms(h, g, live), NEW a, AtWindow(live, a) # {}
  PROVE  /\ Summable(h, AtWindow(live, a))
         /\ WindowValue(live, value, a) = Whole * Sum(h, AtWindow(live, a))
PROOF
  <1> DEFINE S == AtWindow(live, a)
             K == RoutesAt(live, a)
             key == [c \in live |-> c.route]
             v == [r \in K |-> RouteValue(live, value, a, r)]
  <1>1. S \in SUBSET live /\ IsFiniteSet(S) /\ S # {}
    BY FS_Subset DEF AtWindow, IsLive
  <1>2. Keys(key, S) = K
    BY DEF Keys, RoutesAt, AtWindow
  <1>3. IsFiniteSet(K) /\ K # {}
    <2> HIDE DEF S, K, key
    <2>1. IsFiniteSet(Keys(key, S))
      BY <1>1, FiniteValues DEF Keys
    <2> QED
      BY <1>1, <1>2, <2>1 DEF Keys
  <1>4. K \in SUBSET {p.route : p \in Products}
    <2>1. \A c \in S : \E p \in Products : c.route = p.route
      BY DEF AtWindow, CellOf, IsLive
    <2>2. K = {c.route : c \in S}
      BY DEF AtWindow, RoutesAt
    <2> HIDE DEF S, K
    <2> QED
      BY <2>1, <2>2
  <1>5. Exact(RouteWeight, K)
    <2> HIDE DEF K
    <2> QED
      BY <1>3, <1>4, WeightsAreExact
  <1>6. Whole \in Nat /\ Whole \in Int
    BY WeightsAreExact
  <1>7. \A r : Of(key, S, r) = AtRoute(live, a, r)
    BY DEF Of, AtRoute, AtWindow
  <1>8. ASSUME NEW r \in K
        PROVE  Summable(g, AtRoute(live, a, r)) /\ v[r] = Whole * (Whole * Sum(g, Of(key, S, r)))
    <2>1. AtRoute(live, a, r) # {} /\ v[r] = RouteValue(live, value, a, r)
      BY DEF RoutesAt, AtRoute
    <2> DEFINE s == Sum(g, AtRoute(live, a, r))
    <2>2. Summable(g, AtRoute(live, a, r)) /\ RouteValue(live, value, a, r) = (Whole * Whole) * s
      BY <2>1, CarrierStage
    <2>3. s \in Int
      BY <2>2, SumStep
    <2> HIDE DEF s
    <2>4. (Whole * Whole) * s = Whole * (Whole * s)
      BY <1>6, <2>3
    <2> HIDE DEF S, K, key, v
    <2> QED
      BY <1>7, <2>1, <2>2, <2>4 DEF s
  <1>9. Summable(g, S)
    <2>1. \A c \in S : c.route \in K /\ c \in AtRoute(live, a, c.route)
      BY DEF AtWindow, AtRoute, RoutesAt
    <2> HIDE DEF S, K, key, v
    <2> QED
      BY <1>1, <1>8, <2>1 DEF Summable
  <1>10. SummedBy(v, Whole, g, key, S)
    <2>1. DOMAIN v = K
      OBVIOUS
    <2> HIDE DEF S, K, key, v
    <2> QED
      BY <1>2, <1>8, <2>1 DEF SummedBy
  <1>11. SharedBy(h, RouteWeight, g, key, S)
    <2>1. \A c \in S : h[c] = Share(key[c], K, RouteWeight) * g[c]
      BY DEF AtWindow, RouteShare, RouteTerms
    <2> HIDE DEF S, key, K
    <2> QED
      BY <1>2, <2>1 DEF SharedBy
  <1>12. WindowValue(live, value, a) = Young(RouteWeight, v)
    BY DEF WindowValue
  <1> HIDE DEF S, K, key, v
  <1>13. Summable(h, S) /\ Young(RouteWeight, v) = Whole * Sum(h, S)
    BY <1>1, <1>2, <1>5, <1>6, <1>9, <1>10, <1>11, StageIsSum
  <1> QED
    BY <1>12, <1>13 DEF S

\* The windows, aggregated.
LEMMA WindowStage ==
  ASSUME NEW live, IsLive(live), live # {}, NEW f, Summable(f, live),
         NEW value, InCubes(value, f, live), NEW g, CarrierTerms(g, f, live),
         NEW h, RouteTerms(h, g, live), NEW j, WindowTerms(j, h, live)
  PROVE  /\ Summable(j, live)
         /\ Young(Omega, [a \in Windows(live) |-> WindowValue(live, value, a)]) = Sum(j, live)
PROOF
  <1> DEFINE K == Windows(live)
             key == [c \in live |-> c.apw]
             v == [a \in K |-> WindowValue(live, value, a)]
  <1>1. IsFiniteSet(live)
    BY DEF IsLive
  <1>2. Keys(key, live) = K
    BY DEF Keys, Windows
  <1>3. IsFiniteSet(K) /\ K # {}
    <2> HIDE DEF K, key
    <2>1. IsFiniteSet(Keys(key, live))
      BY <1>1, FiniteValues DEF Keys
    <2> QED
      BY <1>2, <2>1 DEF Keys
  <1>4. K \in SUBSET {p.apw : p \in Products}
    BY DEF Windows, CellOf, IsLive
  <1>5. Exact(Omega, K)
    <2> HIDE DEF K
    <2> QED
      BY <1>3, <1>4, WeightsAreExact
  <1>6. Whole \in Nat /\ Whole \in Int
    BY WeightsAreExact
  <1>7. \A a : Of(key, live, a) = AtWindow(live, a)
    BY DEF Of, AtWindow
  <1>8. ASSUME NEW a \in K
        PROVE  Summable(h, AtWindow(live, a)) /\ v[a] = Whole * (1 * Sum(h, Of(key, live, a)))
    <2>1. AtWindow(live, a) # {} /\ v[a] = WindowValue(live, value, a)
      BY DEF Windows, AtWindow
    <2>2. Summable(h, AtWindow(live, a))
          /\ WindowValue(live, value, a) = Whole * Sum(h, AtWindow(live, a))
      BY <2>1, RouteStage
    <2>3. Sum(h, AtWindow(live, a)) \in Int
      BY <2>2, SumStep
    <2> HIDE DEF K, key, v
    <2> QED
      BY <1>7, <2>1, <2>2, <2>3
  <1>9. Summable(h, live)
    <2>1. \A c \in live : c.apw \in K /\ c \in AtWindow(live, c.apw)
      BY DEF AtWindow, Windows
    <2> HIDE DEF K, key, v
    <2> QED
      BY <1>1, <1>8, <2>1 DEF Summable
  <1>10. SummedBy(v, 1, h, key, live)
    <2>1. DOMAIN v = K
      OBVIOUS
    <2> HIDE DEF K, key, v
    <2> QED
      BY <1>2, <1>8, <2>1 DEF SummedBy
  <1>11. SharedBy(j, Omega, h, key, live)
    <2>1. \A c \in live : j[c] = Share(key[c], K, Omega) * h[c]
      BY DEF WindowShare, WindowTerms
    <2> HIDE DEF key, K
    <2> QED
      BY <1>2, <2>1 DEF SharedBy
  <1> HIDE DEF K, key, v
  <1>12. Summable(j, live) /\ Young(Omega, v) = 1 * Sum(j, live)
    BY <1>2, <1>5, <1>6, <1>9, <1>10, <1>11, StageIsSum
  <1>13. Sum(j, live) \in Int
    BY <1>12, SumStep
  <1> QED
    BY <1>12, <1>13 DEF v, K

\* A share is an integer.
LEMMA ShareIsInt ==
  ASSUME Whole \in Nat, NEW D, IsFiniteSet(D), NEW w, \A i \in D : w[i] \in Nat, NEW i \in D
  PROVE  Share(i, D, w) \in Int
PROOF
  <1>1. Total(w, D) \in Nat
    BY SumNat DEF Total, Sum
  <1>2. Cardinality(D) \in Nat \ {0}
    BY FS_EmptySet, FS_CardinalityType
  <1>3. Whole * w[i] \in Int
    OBVIOUS
  <1>4. \A a \in Int, n \in Nat \ {0} : a \div n \in Int
    OBVIOUS
  <1> QED
    BY <1>1, <1>2, <1>3, <1>4 DEF Share

\* What is published has finitely many windows, routes and carriers, and their
\* weights are natural numbers.
Weighed(weight, S) == IsFiniteSet(S) /\ \A i \in S : weight[i] \in Nat

\* The windows, routes and carriers of a published cell are weighed in this sense.
LEMMA LiveWeighed ==
  ASSUME NEW live, IsLive(live), NEW a, NEW r
  PROVE  /\ Weighed(Omega, Windows(live))
         /\ Weighed(RouteWeight, RoutesAt(live, a))
         /\ Weighed(CarrierWeight[r], CarriersAt(live, a, r))
PROOF
  <1> DEFINE route == [d \in live |-> d.route]
             carrier == [d \in live |-> d.carrier]
             window == [d \in live |-> d.apw]
             R == RoutesAt(live, a)
             C == CarriersAt(live, a, r)
             W == Windows(live)
  <1>1. /\ R \in SUBSET {route[d] : d \in live} /\ C \in SUBSET {carrier[d] : d \in live}
        /\ W \in SUBSET {window[d] : d \in live}
    BY DEF RoutesAt, CarriersAt, Windows
  <1>2. /\ \A i \in R : RouteWeight[i] \in Nat
        /\ \A k \in C : CarrierWeight[r][k] \in Nat
        /\ \A i \in W : Omega[i] \in Nat
    <2>1. \A d \in live : /\ RouteWeight[d.route] \in Nat /\ Omega[d.apw] \in Nat
                          /\ CarrierWeight[d.route][d.carrier] \in Nat
      BY EngineAssumption DEF IsLive, CellOf
    <2> QED
      BY <2>1 DEF RoutesAt, CarriersAt, Windows
  <1> HIDE DEF route, carrier, window, R, C, W
  <1>3. /\ IsFiniteSet({route[d] : d \in live}) /\ IsFiniteSet({carrier[d] : d \in live})
        /\ IsFiniteSet({window[d] : d \in live})
    BY FiniteValues DEF IsLive
  <1>4. IsFiniteSet(R) /\ IsFiniteSet(C) /\ IsFiniteSet(W)
    BY <1>1, <1>3, FS_Subset
  <1> QED
    BY <1>2, <1>4 DEF R, C, W, Weighed

\* The shares of a published cell are integers.
LEMMA CellShares ==
  ASSUME Whole \in Nat, NEW live, IsLive(live), NEW c \in live
  PROVE  CarrierShare(live, c) \in Int /\ RouteShare(live, c) \in Int /\ WindowShare(live, c) \in Int
PROOF
  <1> DEFINE R == RoutesAt(live, c.apw)
             C == CarriersAt(live, c.apw, c.route)
             W == Windows(live)
  <1>1. c.route \in R /\ c.carrier \in C /\ c.apw \in W
    BY DEF RoutesAt, CarriersAt, Windows
  <1>2. Weighed(Omega, W) /\ Weighed(RouteWeight, R) /\ Weighed(CarrierWeight[c.route], C)
    BY LiveWeighed
  <1> HIDE DEF R, C, W
  <1>3. Share(c.carrier, C, CarrierWeight[c.route]) \in Int
    BY <1>1, <1>2, ShareIsInt DEF Weighed
  <1>4. Share(c.route, R, RouteWeight) \in Int
    BY <1>1, <1>2, ShareIsInt DEF Weighed
  <1>5. Share(c.apw, W, Omega) \in Int
    BY <1>1, <1>2, ShareIsInt DEF Weighed
  <1> QED
    BY <1>3, <1>4, <1>5 DEF CarrierShare, RouteShare, WindowShare, R, C, W

\* The weighted mean of EffectiveValue, of a given table of cells.
PartOf(cells, live, t, c) ==
  Level(cells[<<t, c>>].log) * WindowShare(live, c) * RouteShare(live, c) * CarrierShare(live, c)

EffectiveOf(cells, t) ==
  SumFunction([c \in Live(cells, t) |-> PartOf(cells, Live(cells, t), t, c)]) \div Cube

\* The published cells of a period.
LEMMA LiveIs ==
  ASSUME NEW cells, IsCells(cells), NEW t
  PROVE  /\ IsLive(Live(cells, t))
         /\ \A c \in Live(cells, t) : <<t, c>> \in DOMAIN cells /\ cells[<<t, c>>].log \in Int
PROOF
  <1> DEFINE live == Live(cells, t)
             cell == [k \in DOMAIN cells |-> k[2]]
  <1>1. \A c \in live : <<t, c>> \in DOMAIN cells
    BY DEF Live, IsCells
  <1>2. live \in SUBSET {cell[k] : k \in DOMAIN cells}
    BY DEF Live
  <1> HIDE DEF cell, live
  <1>3. IsFiniteSet(live)
    <2>1. IsFiniteSet({cell[k] : k \in DOMAIN cells})
      BY FiniteValues DEF IsCells
    <2> QED
      BY <1>2, <2>1, FS_Subset
  <1>4. \A c \in live : cells[<<t, c>>].log \in Int /\ \E p \in Products : c = CellOf(p)
    BY <1>1 DEF IsCells
  <1> QED
    BY <1>1, <1>3, <1>4 DEF IsLive, live

\* The published cells of a period, with their levels.
LevelsAt(cells, t) == [c \in Live(cells, t) |-> Level(cells[<<t, c>>].log)]

\* A headline by its stages.
LEMMA HeadlineStages ==
  ASSUME NEW cells, IsCells(cells), NEW t
  PROVE  Headline(cells, t) =
           Young(Omega, [a \in Windows(Live(cells, t)) |->
                           WindowValue(Live(cells, t), LevelsAt(cells, t), a)])
PROOF
  <1> DEFINE live == Live(cells, t)
             value == LevelsAt(cells, t)
             Value(a, r, k) == Level(cells[<<t, [route |-> r, carrier |-> k, apw |-> a]>>].log)
             Row(a, r) == Young(CarrierWeight[r], [k \in CarriersAt(live, a, r) |-> Value(a, r, k)])
             Col(a) == Young(RouteWeight, [r \in RoutesAt(live, a) |-> Row(a, r)])
  <1>1. Headline(cells, t) = Young(Omega, [a \in Windows(live) |-> Col(a)])
    BY DEF Headline
  <1>2. \A a, r : \A k \in CarriersAt(live, a, r) : [route |-> r, carrier |-> k, apw |-> a] \in live
    BY LiveIs DEF CarriersAt, IsLive, CellOf
  <1>3. \A a, r : \A k \in CarriersAt(live, a, r) :
          Value(a, r, k) = value[[route |-> r, carrier |-> k, apw |-> a]]
    BY <1>2 DEF LevelsAt
  <1> HIDE DEF live, value, Value
  <1>4. \A a, r : Row(a, r) = RouteValue(live, value, a, r)
    BY <1>3 DEF RouteValue
  <1> HIDE DEF Row
  <1>5. \A a : Col(a) = WindowValue(live, value, a)
    BY <1>4 DEF WindowValue
  <1> HIDE DEF Col
  <1>6. Headline(cells, t) = Young(Omega, [a \in Windows(live) |-> WindowValue(live, value, a)])
    BY <1>1, <1>5
  <1> QED
    BY <1>6 DEF live, value

\* The headline is the mean of the published cells under their effective weights.
LEMMA HeadlineIsEffective ==
  ASSUME LevelsDivide, NEW cells, IsCells(cells), NEW t, Live(cells, t) # {}
  PROVE  Headline(cells, t) = EffectiveOf(cells, t)
PROOF
  <1> DEFINE live == Live(cells, t)
             value == [c \in live |-> Level(cells[<<t, c>>].log)]
             f == [c \in live |-> CHOOSE k \in Int : value[c] = k * Cube]
             g == [c \in live |-> CarrierShare(live, c) * f[c]]
             h == [c \in live |-> RouteShare(live, c) * g[c]]
             j == [c \in live |-> WindowShare(live, c) * h[c]]
             part == [c \in live |-> PartOf(cells, live, t, c)]
  <1>1. IsLive(live) /\ live # {} /\ IsFiniteSet(live)
    BY LiveIs DEF IsLive
  <1>2. ASSUME NEW c \in live
        PROVE  f[c] \in Int /\ value[c] = f[c] * Cube
    <2>1. cells[<<t, c>>].log \in Int
      BY LiveIs
    <2>2. \E k \in Int : value[c] = k * Cube
      BY <2>1 DEF LevelsDivide
    <2> QED
      BY <2>2
  <1>3. \A c \in live : part[c] = value[c] * WindowShare(live, c) * RouteShare(live, c) * CarrierShare(live, c)
    BY DEF PartOf
  <1>4. CarrierTerms(g, f, live) /\ RouteTerms(h, g, live) /\ WindowTerms(j, h, live)
    BY DEF CarrierTerms, RouteTerms, WindowTerms
  <1>5. Headline(cells, t) = Young(Omega, [a \in Windows(live) |-> WindowValue(live, value, a)])
    BY HeadlineStages DEF LevelsAt
  <1>6. \A c \in live : g[c] = CarrierShare(live, c) * f[c] /\ h[c] = RouteShare(live, c) * g[c]
                        /\ j[c] = WindowShare(live, c) * h[c]
    OBVIOUS
  <1>7. EffectiveOf(cells, t) = Sum(part, live) \div Cube
    BY DEF EffectiveOf, SumFunction, Sum
  <1>8. Cube \in Nat \ {0} /\ Whole \in Nat
    <2>1. \A n \in Nat \ {0} : n * n * n \in Nat \ {0}
      <3> TAKE n \in Nat \ {0}
      <3>1. n * n \in Nat \ {0}
        OBVIOUS
      <3> QED
        BY <3>1
    <2> QED
      BY <2>1, WeightsAreExact DEF Cube
  <1> HIDE DEF live, value, f, g, h, j, part
  <1>9. Summable(f, live) /\ InCubes(value, f, live)
    BY <1>1, <1>2 DEF Summable, InCubes
  <1>10. Summable(j, live) /\ Headline(cells, t) = Sum(j, live)
    BY <1>1, <1>4, <1>5, <1>9, WindowStage
  <1>11. \A c \in live : part[c] = Cube * j[c]
    <2> TAKE c \in live
    <2>1. CarrierShare(live, c) \in Int /\ RouteShare(live, c) \in Int /\ WindowShare(live, c) \in Int
      BY <1>1, <1>8, CellShares
    <2>2. \A x, y, z, u, v \in Int : (((u * v) * x) * y) * z = v * (x * (y * (z * u)))
      OBVIOUS
    <2> DEFINE x == WindowShare(live, c)
               y == RouteShare(live, c)
               z == CarrierShare(live, c)
    <2>3. part[c] = (((f[c] * Cube) * x) * y) * z /\ j[c] = x * (y * (z * f[c]))
      BY <1>2, <1>3, <1>6
    <2> HIDE DEF x, y, z
    <2>4. x \in Int /\ y \in Int /\ z \in Int /\ f[c] \in Int /\ Cube \in Int
      BY <1>2, <1>8, <2>1 DEF x, y, z
    <2> QED
      BY <2>2, <2>3, <2>4
  <1>12. Sum(part, live) = Cube * Sum(j, live) /\ Sum(j, live) \in Int
    BY <1>8, <1>10, <1>11, SumScaled, SumStep
  <1> QED
    BY <1>7, <1>8, <1>10, <1>12, DivExact

-----------------------------------------------------------------------------
(* The index served.                                                       *)

\* The index served is that of the quotes where they can be computed, and in
\* any case a headline of the published cells of every period that has one.
ServedIndex ==
  /\ quotes = CleanObservations(ledger, day, method.fresh)
  /\ Computes(Prepared(quotes, method), method) => index = Compute(quotes, method)
  /\ IsCells(index.cells)
  /\ \A t \in Published : Live(index.cells, t) # {} /\ index.headline[t] = Headline(index.cells, t)

EngineInv == LedgerTyped /\ ServedIndex

\* What compute() returns.
LEMMA ComputedIndex ==
  ASSUME NEW Q, IsQuotes(Q), NEW m, m.window \in Nat
  PROVE  /\ IsCells(Compute(Q, m).cells)
         /\ \A t \in DOMAIN Compute(Q, m).headline :
              /\ Live(Compute(Q, m).cells, t) # {}
              /\ Compute(Q, m).headline[t] = Headline(Compute(Q, m).cells, t)
PROOF
  <1> PICK P : P = Prepared(Q, m)
    OBVIOUS
  <1> PICK table : table = Smoothed(Cells(P, m), m)
    OBVIOUS
  <1>0. IsPanel(P)
    BY PreparedIsPanel
  <1>1. IsCells(table)
    BY <1>0, CellsAre, SmoothedAre
  <1>2. /\ Compute(Q, m).cells = table
        /\ Compute(Q, m).headline = [t \in {u \in Periods(P) : Live(table, u) # {}} |-> Headline(table, t)]
    BY DEF Compute
  <1>3. IsCells(Compute(Q, m).cells)
    BY <1>1, <1>2
  <1>4. \A t \in DOMAIN Compute(Q, m).headline :
              /\ Live(Compute(Q, m).cells, t) # {}
              /\ Compute(Q, m).headline[t] = Headline(Compute(Q, m).cells, t)
    BY <1>2
  <1> QED
    BY <1>3, <1>4

\* The invariant holds at the start,
LEMMA EngineInit == Init => EngineInv
PROOF
  <1> SUFFICES ASSUME Init
               PROVE  EngineInv
    OBVIOUS
  <1>1. LedgerTyped
    BY HistoryInit DEF HistoryInv
  <1>2. CleanObservations({}, day, method.fresh) = {}
    BY DEF CleanObservations
  <1>3. ~Computes(Prepared({}, method), method)
    BY DEF Prepared, Computes
  <1>4. DOMAIN index.cells = {} /\ DOMAIN index.headline = {}
    BY DEF Init, NoIndex
  <1>5. IsCells(index.cells)
    BY <1>4, FS_EmptySet DEF IsCells
  <1> QED
    BY <1>1, <1>2, <1>3, <1>4, <1>5 DEF Init, EngineInv, ServedIndex, Published

\* every step preserves it,
LEMMA EngineStep == ASSUME LogsAreIntegers PROVE EngineInv /\ [Next]_vars => EngineInv'
PROOF
  <1> SUFFICES ASSUME EngineInv, [Next]_vars
               PROVE  EngineInv'
    OBVIOUS
  <1>1. CASE UNCHANGED vars
    BY <1>1 DEF vars, EngineInv, LedgerTyped, ServedIndex, Published
  <1>2. ASSUME NEW today \in {day, day + 1} \cap Days, NEW batch \in SUBSET Captures[today],
               Publish(today, batch)
        PROVE  EngineInv'
    <2>1. LedgerTyped'
      BY <1>2, LedgerStep DEF EngineInv
    <2>2. quotes' = CleanObservations(ledger', day', method'.fresh) /\ method' = method
          /\ index' = IF Computes(Prepared(quotes', method), method)
                      THEN Compute(quotes', method) ELSE index
      BY <1>2 DEF Publish
    <2>3. IsQuotes(quotes')
      <3> PICK rows : rows = ledger'
        OBVIOUS
      <3>1. Stored(rows) /\ \A r \in rows : r.product \in Products
        BY <2>1 DEF LedgerTyped, Stored
      <3>2. IsQuotes(CleanObservations(rows, today, method.fresh))
        BY <3>1, CleanedAreQuotes
      <3> QED
        BY <1>2, <3>2 DEF Publish
    <2>4. method.window \in Nat
      BY HistoryAssumption DEF EngineInv, LedgerTyped
    <2>5. CASE Computes(Prepared(quotes', method), method)
      <3> PICK Q : Q = quotes'
        OBVIOUS
      <3> PICK i : i = Compute(Q, method)
        OBVIOUS
      <3>1. index' = i /\ index' = Compute(quotes', method)
        BY <2>2, <2>5
      <3>2. IsCells(i.cells) /\ \A t \in DOMAIN i.headline :
               Live(i.cells, t) # {} /\ i.headline[t] = Headline(i.cells, t)
        BY <2>3, <2>4, ComputedIndex
      <3>3. ServedIndex'
        BY <2>2, <2>5, <3>1, <3>2 DEF ServedIndex, Published
      <3> QED
        BY <2>1, <3>3 DEF EngineInv
    <2>6. CASE ~Computes(Prepared(quotes', method), method)
      <3>1. index' = index
        BY <2>2, <2>6
      <3>2. ServedIndex'
        BY <2>2, <2>6, <3>1 DEF EngineInv, ServedIndex, Published
      <3> QED
        BY <2>1, <3>2 DEF EngineInv
    <2> QED
      BY <2>5, <2>6
  <1> QED
    BY <1>1, <1>2 DEF Next

\* and it implies that the two ways to aggregate agree.
LEMMA ServedAgrees == ASSUME LevelsDivide PROVE EngineInv => AggregatesAgree
PROOF
  <1> SUFFICES ASSUME EngineInv, NEW t \in Published
               PROVE  index.headline[t] = EffectiveValue(t)
    BY DEF AggregatesAgree
  <1>1. IsCells(index.cells) /\ Live(index.cells, t) # {}
        /\ index.headline[t] = Headline(index.cells, t)
    BY DEF EngineInv, ServedIndex
  <1>2. index.headline[t] = EffectiveOf(index.cells, t)
    BY <1>1, HeadlineIsEffective
  <1>3. {k[2] : k \in Surviving(t)} = Live(index.cells, t)
    BY <1>1 DEF Surviving, Live, IsCells
  <1> DEFINE live == Live(index.cells, t)
             Part(c) == Level(index.cells[<<t, c>>].log)
                          * Share(c.apw, Windows(live), Omega)
                          * Share(c.route, RoutesAt(live, c.apw), RouteWeight)
                          * Share(c.carrier, CarriersAt(live, c.apw, c.route), CarrierWeight[c.route])
  <1>4. EffectiveValue(t) = SumFunction([c \in live |-> Part(c)]) \div (Whole * Whole * Whole)
    BY <1>3 DEF EffectiveValue
  <1>5. EffectiveOf(index.cells, t) = SumFunction([c \in live |-> Part(c)]) \div (Whole * Whole * Whole)
    BY DEF EffectiveOf, PartOf, Cube, WindowShare, RouteShare, CarrierShare
  <1> QED
    BY <1>2, <1>4, <1>5

\* The headline aggregated in three stages is the mean of the surviving cells
\* under their effective weights: the published explanation of a headline is
\* exact, wherever the quotients are.
THEOREM AggregatesAlwaysAgree ==
  ASSUME LogsAreIntegers, LevelsDivide
  PROVE  Spec => []AggregatesAgree
PROOF
  <1>1. Init => EngineInv
    BY EngineInit
  <1>2. EngineInv /\ [Next]_vars => EngineInv'
    BY EngineStep
  <1>3. EngineInv => AggregatesAgree
    BY ServedAgrees
  <1> QED
    BY <1>1, <1>2, <1>3, PTL DEF Spec

-----------------------------------------------------------------------------
(* The engine of the earlier stack.                                        *)

\* Its library is the same one.
LEMMA EarlierCounts == ASSUME NEW S PROVE Earlier!Cardinality(S) = Cardinality(S)
  BY DEF Earlier!Cardinality, Cardinality

\* The largest and the smallest of a set are the same, there and here.
LEMMA EarlierBounds ==
  ASSUME NEW S
  PROVE  Earlier!Max(S) = Max(S) /\ Earlier!Min(S) = Min(S)
  BY DEF Earlier!Max, Max, Earlier!Min, Min

\* So are the sums of a function, over a set and over its domain.
LEMMA EarlierSums ==
  ASSUME NEW f, NEW S
  PROVE  /\ Earlier!SumFunctionOnSet(f, S) = Sum(f, S)
         /\ Earlier!SumFunction(f) = Sum(f, DOMAIN f)
  BY DEF Earlier!SumFunctionOnSet, SumFunctionOnSet, Earlier!FoldFunctionOnSet, FoldFunctionOnSet,
         Earlier!MapThenFoldSet, MapThenFoldSet, Earlier!SumFunction, Sum

\* Its panel is the same one.
LEMMA EarlierPanel ==
  ASSUME NEW Q, NEW m
  PROVE  Earlier!Prepare(Q, m) = Prepared(Q, m)
PROOF
  <1> DEFINE G(q) == {r \in Q : Period(r, m) = Period(q, m) /\ r.product = q.product}
             H(q) == {r \in Q : r.product = q.product /\ Earlier!PeriodOf(r, m) = Earlier!PeriodOf(q, m)}
             v(S) == [r \in S |-> r.fare]
             row(q, fare) == [period |-> Period(q, m), product |-> q.product, fare |-> fare]
             early(q, fare) == [period |-> Earlier!PeriodOf(q, m), product |-> q.product, fare |-> fare]
  <1>1. \A q : Earlier!PeriodOf(q, m) = Period(q, m)
    BY DEF Earlier!PeriodOf, Period
  <1>2. \A q : H(q) = G(q)
    BY <1>1
  <1>3. Prepared(Q, m) = {row(q, MeanOf(v(G(q)))) : q \in Q}
    BY DEF Prepared
  <1>4. Earlier!Prepare(Q, m) =
          {early(q, Earlier!SumFunction(v(H(q))) \div Earlier!Cardinality(H(q))) : q \in Q}
    BY DEF Earlier!Prepare
  <1>5. \A S : DOMAIN v(S) = S
    OBVIOUS
  <1>6. \A S : MeanOf(v(S)) = Sum(v(S), S) \div Cardinality(S)
    BY <1>5 DEF MeanOf, SumFunction, Sum
  <1>7. \A S : Earlier!SumFunction(v(S)) \div Earlier!Cardinality(S) = MeanOf(v(S))
    <2> TAKE S
    <2> HIDE DEF v
    <2> QED
      BY <1>5, <1>6, EarlierCounts, EarlierSums
  <1>8. \A q, fare : early(q, fare) = row(q, fare)
    BY <1>1
  <1> HIDE DEF v, G, H, row, early
  <1> QED
    BY <1>2, <1>3, <1>4, <1>7, <1>8

\* A row is the only one of its product and period.
Unrepeated(P) == \A q, r \in P : q.period = r.period /\ q.product = r.product => q = r

\* The panel has one row for a product and a period.
LEMMA PreparedUnrepeated == ASSUME NEW Q, NEW m PROVE Unrepeated(Prepared(Q, m))
PROOF
  <1> DEFINE paid(t, p) == MeanOf([r \in {q \in Q : Period(q, m) = t /\ q.product = p} |-> r.fare])
             row(t, p) == [period |-> t, product |-> p, fare |-> paid(t, p)]
  <1>1. Prepared(Q, m) = {row(Period(q, m), q.product) : q \in Q}
    BY DEF Prepared
  <1>2. \A t, p : row(t, p).period = t /\ row(t, p).product = p
    OBVIOUS
  <1> HIDE DEF row
  <1>3. \A r \in Prepared(Q, m) : r = row(r.period, r.product)
    BY <1>1, <1>2
  <1> QED
    BY <1>3 DEF Unrepeated

\* It raises just where the engine does, and its base is the same one.
LEMMA EarlierComputes ==
  ASSUME NEW P, NEW m
  PROVE  Earlier!CanCompute(P, m) <=> Computes(P, m)
  BY DEF Earlier!CanCompute, Earlier!RowPeriods, Computes, Periods

\* The base periods are the same: the pinned one, or the first of the best covered.
LEMMA EarlierBase ==
  ASSUME NEW P, IsPanel(P), P # {}, NEW m
  PROVE  Earlier!ChooseBasePeriod(P, m) = ChooseBase(P, m)
PROOF
  <1> DEFINE windows(t) == Cardinality({q.product.apw : q \in At(P, t)})
             T == Periods(P)
             best == Max({windows(t) : t \in T})
             W == {t \in T : windows(t) = best}
             Coverage(t) == Earlier!Cardinality({q.product.apw : q \in {r \in P : r.period = t}})
  <1>1. \A t : Coverage(t) = windows(t)
    BY EarlierCounts DEF At
  <1>2. T # {} /\ T \subseteq Nat
    BY DEF Periods, IsPanel
  <1>3. IsFiniteSet(T)
    <2> DEFINE f == [q \in P |-> q.period]
    <2>1. T = {f[q] : q \in P}
      BY DEF Periods
    <2> HIDE DEF f, T
    <2> QED
      BY <2>1, FiniteValues DEF IsPanel
  <1>4. \A t \in T : windows(t) \in Nat
    <2> TAKE t \in T
    <2> DEFINE f == [q \in At(P, t) |-> q.product.apw]
    <2>1. {q.product.apw : q \in At(P, t)} = {f[q] : q \in At(P, t)}
      OBVIOUS
    <2>2. IsFiniteSet(At(P, t))
      BY FS_Subset DEF At, IsPanel
    <2> HIDE DEF f
    <2>3. IsFiniteSet({f[q] : q \in At(P, t)})
      BY <2>2, FiniteValues
    <2> QED
      BY <2>1, <2>3, FS_CardinalityType
  <1>5. best \in {windows(t) : t \in T} /\ \A t \in T : windows(t) <= best
    <2> DEFINE f == [t \in T |-> windows(t)]
    <2>1. {windows(t) : t \in T} = {f[t] : t \in T}
      OBVIOUS
    <2>2. \A t \in T : f[t] = windows(t)
      OBVIOUS
    <2> HIDE DEF f, windows, T
    <2>3. {f[t] : t \in T} # {} /\ {f[t] : t \in T} \subseteq Int
      <3>1. \A t \in T : f[t] \in Int
        BY <1>4, <2>2
      <3>2. T # {}
        BY <1>2
      <3> QED
        BY <3>1, <3>2
    <2>4. IsFiniteSet({f[t] : t \in T})
      BY <1>3, FiniteValues
    <2>5. /\ Max({f[t] : t \in T}) \in {f[t] : t \in T}
          /\ \A y \in {f[t] : t \in T} : y <= Max({f[t] : t \in T})
      BY <2>3, <2>4, FiniteMax
    <2> QED
      BY <2>1, <2>2, <2>5
  <1>6. Min(W) \in W /\ \A t \in W : Min(W) <= t
    <2> HIDE DEF best, windows, T
    <2>1. W # {} /\ W \subseteq Nat
      BY <1>2, <1>5
    <2> HIDE DEF W
    <2> QED
      BY <2>1, LeastIsMin
  <1> DEFINE Chosen(t) == \A u \in T : windows(u) < windows(t) \/ (windows(u) = windows(t) /\ t <= u)
  <1>7. Chosen(Min(W)) /\ Min(W) \in T
    <2> HIDE DEF best, windows, T
    <2>1. Min(W) \in T /\ windows(Min(W)) = best
      BY <1>6
    <2>2. ASSUME NEW u \in T
          PROVE  windows(u) < best \/ (windows(u) = best /\ Min(W) <= u)
      <3>1. windows(u) <= best /\ windows(u) \in Nat /\ best \in Nat
        BY <1>4, <1>5
      <3>2. windows(u) = best => Min(W) <= u
        BY <1>6
      <3> QED
        BY <3>1, <3>2
    <2> QED
      BY <2>1, <2>2
  <1>8. \A t \in T : Chosen(t) => t = Min(W)
    <2> HIDE DEF best, windows, T
    <2> QED
      BY <1>2, <1>4, <1>5, <1>6
  <1>9. (CHOOSE t \in T : Chosen(t)) = Min(W)
    <2> HIDE DEF Chosen, W, T
    <2> QED
      BY <1>7, <1>8
  <1>10. Earlier!ChooseBasePeriod(P, m) =
           IF m.pinned # Unpinned THEN m.pinned
           ELSE CHOOSE t \in T : \A u \in T :
                  Coverage(u) < Coverage(t) \/ (Coverage(u) = Coverage(t) /\ t <= u)
    BY DEF Earlier!ChooseBasePeriod, Earlier!RowPeriods, Periods
  <1>11. ChooseBase(P, m) = IF m.pinned # Unpinned THEN m.pinned ELSE Min(W)
    BY DEF ChooseBase
  <1> HIDE DEF W, T, best
  <1>12. (CHOOSE t \in T : \A u \in T :
            Coverage(u) < Coverage(t) \/ (Coverage(u) = Coverage(t) /\ t <= u)) = Min(W)
    <2> HIDE DEF Coverage, windows
    <2> QED
      BY <1>1, <1>9
  <1> QED
    BY <1>10, <1>11, <1>12

\* Its keys: a cell and a flight as tuples.
Slot(c)      == <<c.route, c.carrier, c.apw>>
FlightKey(f) == <<f.cell.route, f.cell.carrier, f.cell.apw, f.flight>>
Key(k)       == <<k[1], Slot(k[2])>>

\* The tuples name the same cells and flights that the records do, one for one.
LEMMA EarlierKeys ==
  /\ \A p : Earlier!KappaCell(p) = Slot(CellOf(p))
  /\ \A p : Earlier!KappaFlight(p) = FlightKey(FlightOf(p))
  /\ \A p, q : Slot(CellOf(p)) = Slot(CellOf(q)) => CellOf(p) = CellOf(q)
  /\ \A p, q : FlightKey(FlightOf(p)) = FlightKey(FlightOf(q)) => FlightOf(p) = FlightOf(q)
  /\ \A p : LET k == FlightKey(FlightOf(p)) IN <<k[1], k[2], k[3]>> = Slot(CellOf(p))
  BY DEF Earlier!KappaCell, Earlier!KappaFlight, Slot, FlightKey, CellOf, FlightOf

\* b gives each row of S one of its product, and rel the logarithms of the relatives.
Bases(b, S) ==
  /\ \A q \in S : q.fare \in Int /\ b[q].fare \in Int /\ b[q].product = q.product
  /\ \A q, r \in S : q.product = r.product => q = r
Relatives(rel, b, S) == \A q \in S : rel[q] = q.fare - b[q].fare

\* The logarithms of rows less those of their base rows, which are as many, are
\* the sum of their relatives.
LEMMA LogsOfRelatives ==
  ASSUME NEW S, IsFiniteSet(S), NEW b, Bases(b, S), NEW rel, Relatives(rel, b, S)
  PROVE  /\ Earlier!Logs(S) - Earlier!Logs({b[q] : q \in S}) = Sum(rel, S)
         /\ Summable(rel, S)
PROOF
  <1> USE DEF Bases, Relatives
  <1> DEFINE B == {b[q] : q \in S}
             fares == [q \in S |-> q.fare]
             before == [q \in S |-> b[q].fare]
             base == [r \in B |-> r.fare]
  <1>1. DOMAIN fares = S /\ DOMAIN base = B
    OBVIOUS
  <1>2. Earlier!Logs(S) = Sum(fares, S) /\ Earlier!Logs(B) = Sum(base, B)
    BY <1>1, EarlierSums DEF Earlier!Logs
  <1>3. Summable(fares, S) /\ Summable(before, S)
    BY DEF Summable
  <1>4. Renames(b, S, B)
    BY DEF Renames
  <1>5. \A q \in S : base[b[q]] = before[q]
    OBVIOUS
  <1>6. \A q \in S : fares[q] = q.fare /\ before[q] = b[q].fare
    OBVIOUS
  <1> HIDE DEF fares, before, base, B
  <1>7. Sum(base, B) = Sum(before, S)
    BY <1>3, <1>4, <1>5, SumRenamed
  <1>8. Summable(rel, S)
    BY <1>3, <1>6 DEF Summable
  <1>9. \A q \in S : fares[q] = rel[q] + before[q]
    BY <1>6
  <1>10. Sum(fares, S) = Sum(rel, S) + Sum(before, S)
    BY <1>3, <1>8, <1>9, SumOfSums
  <1>11. Sum(rel, S) \in Int /\ Sum(before, S) \in Int
    BY <1>3, <1>8, SumStep
  <1> QED
    BY <1>2, <1>7, <1>8, <1>10, <1>11 DEF B

\* The rows of a cell that have one of their product in the base period, and the
\* logarithms of their relatives.
MatchedTo(start, group)  == {q \in group : \E r \in start : r.product = q.product}
BaseRow(start, q)        == CHOOSE r \in start : r.product = q.product
RelativeTo(start, group) == [q \in MatchedTo(start, group) |-> q.fare - BaseRow(start, q).fare]

\* Grouped by flight, the relatives of a cell count and sum to the same.
LEMMA EarlierRelatives ==
  ASSUME NEW P, IsPanel(P), Unrepeated(P), NEW b, NEW t, NEW p,
         NEW flight, flight = Earlier!PerFlight(P, b),
         NEW K, K = Earlier!InCell(flight, t, Slot(CellOf(p))),
         NEW matched, matched = MatchedTo(At(P, b), CellAt(P, t, CellOf(p)))
  PROVE  /\ IsFiniteSet(matched) /\ Summable(RelativeTo(At(P, b), CellAt(P, t, CellOf(p))), matched)
         /\ Sum([k \in K |-> flight[k].count], K) = Cardinality(matched)
         /\ Sum([k \in K |-> flight[k].sum], K)
              = Sum(RelativeTo(At(P, b), CellAt(P, t, CellOf(p))), matched)
PROOF
  <1> DEFINE c == CellOf(p)
             start == At(P, b)
             rel == RelativeTo(start, CellAt(P, t, c))
             all == {q \in P : \E r \in start : r.product = q.product}
             OfK(k) == {q \in all : q.period = k[1] /\ Earlier!KappaFlight(q.product) = k[2]}
             bases == [q \in all |-> BaseRow(start, q)]
             key == [q \in matched |-> <<q.period, Earlier!KappaFlight(q.product)>>]
             ones == [q \in matched |-> 1]
             counts == [k \in K |-> flight[k].count]
             sums == [k \in K |-> flight[k].sum]
  <1>1. flight = [k \in {<<q.period, Earlier!KappaFlight(q.product)>> : q \in all} |->
                    [sum |-> Earlier!Logs(OfK(k)) - Earlier!Logs({BaseRow(start, q) : q \in OfK(k)}),
                     count |-> Earlier!Cardinality(OfK(k))]]
    BY DEF Earlier!PerFlight, At, BaseRow
  <1>2. matched = {q \in all : q.period = t /\ CellOf(q.product) = c}
    BY DEF MatchedTo, CellAt, At
  <1>3. K = {key[q] : q \in matched}
    <2>1. K = {k \in {<<q.period, Earlier!KappaFlight(q.product)>> : q \in all} :
                 k[1] = t /\ <<k[2][1], k[2][2], k[2][3]>> = Slot(c)}
      BY <1>1 DEF Earlier!InCell
    <2>2. \A q \in all : LET k == <<q.period, Earlier!KappaFlight(q.product)>>
                         IN  k[1] = t /\ <<k[2][1], k[2][2], k[2][3]>> = Slot(c) <=> q \in matched
      <3> TAKE q \in all
      <3>1. LET k == Earlier!KappaFlight(q.product)
            IN  <<k[1], k[2], k[3]>> = Slot(CellOf(q.product))
        BY EarlierKeys
      <3>2. Slot(CellOf(q.product)) = Slot(c) <=> CellOf(q.product) = c
        BY EarlierKeys
      <3> QED
        BY <1>2, <3>1, <3>2
    <2>3. \A q \in matched : q \in all
      BY <1>2
    <2> HIDE DEF all
    <2> QED
      BY <2>1, <2>2, <2>3
  <1>4. \A k \in K : OfK(k) = Of(key, matched, k) /\ OfK(k) \in SUBSET matched
    <2> TAKE k \in K
    <2>1. PICK s \in matched : k = <<s.period, Earlier!KappaFlight(s.product)>>
      BY <1>3
    <2>2. \A q \in OfK(k) : q \in matched
      <3> TAKE q \in OfK(k)
      <3>1. q \in all /\ q.period = s.period /\ Earlier!KappaFlight(q.product) = Earlier!KappaFlight(s.product)
        BY <2>1
      <3>2. FlightOf(q.product) = FlightOf(s.product)
        BY <3>1, EarlierKeys
      <3>3. CellOf(q.product) = CellOf(s.product)
        BY <3>2 DEF FlightOf
      <3> QED
        BY <1>2, <2>1, <3>1, <3>3
    <2>3. \A q \in matched : q \in all
      BY <1>2
    <2>4. \A q \in matched : key[q] = k <=> q.period = k[1] /\ Earlier!KappaFlight(q.product) = k[2]
      BY <2>1
    <2> HIDE DEF all, key
    <2> QED
      BY <2>2, <2>3, <2>4 DEF Of
  <1>5. IsFiniteSet(matched)
    BY <1>2, FS_Subset DEF IsPanel
  <1>6. IsFiniteSet(K)
    <2> HIDE DEF key
    <2> QED
      BY <1>3, <1>5, FiniteValues
  <1>7. Keyed(key, matched, K)
    BY <1>3 DEF Keyed
  <1>8. \A k \in K : /\ counts[k] = Cardinality(OfK(k))
                     /\ sums[k] = Earlier!Logs(OfK(k)) - Earlier!Logs({bases[q] : q \in OfK(k)})
    <2> TAKE k \in K
    <2>1. k \in {<<q.period, Earlier!KappaFlight(q.product)>> : q \in all}
      BY <1>2, <1>3
    <2>2. {bases[q] : q \in OfK(k)} = {BaseRow(start, q) : q \in OfK(k)}
      OBVIOUS
    <2>3. flight[k] = [sum |-> Earlier!Logs(OfK(k)) - Earlier!Logs({BaseRow(start, q) : q \in OfK(k)}),
                       count |-> Earlier!Cardinality(OfK(k))]
      <3> HIDE DEF OfK, all
      <3> QED
        BY <1>1, <2>1
    <2>4. counts[k] = flight[k].count /\ sums[k] = flight[k].sum
      OBVIOUS
    <2> HIDE DEF bases, all, OfK, counts, sums
    <2> QED
      BY <2>2, <2>3, <2>4, EarlierCounts
  <1>9. \A q \in matched : /\ q.fare \in Int /\ bases[q].fare \in Int /\ bases[q].product = q.product
                           /\ q.period = t /\ rel[q] = q.fare - bases[q].fare /\ ones[q] = 1
    <2> TAKE q \in matched
    <2>1. q \in all /\ q \in P /\ q.period = t
      BY <1>2
    <2>2. bases[q] \in start /\ bases[q].product = q.product
      BY <2>1 DEF BaseRow
    <2>3. bases[q].fare \in Int /\ q.fare \in Int
      BY <2>1, <2>2 DEF IsPanel, At
    <2>4. rel[q] = q.fare - bases[q].fare
      BY <2>1 DEF RelativeTo
    <2> QED
      BY <2>1, <2>2, <2>3, <2>4
  <1>10. \A q, r \in matched : q.product = r.product => q = r
    BY <1>2, <1>9 DEF Unrepeated
  <1> HIDE DEF c, start, rel, all, OfK, bases, key, ones, counts, sums
  <1>11. \A k \in K : sums[k] = Sum(rel, Of(key, matched, k))
    <2> TAKE k \in K
    <2> DEFINE S == OfK(k)
    <2>1. S \in SUBSET matched /\ S = Of(key, matched, k)
      BY <1>4
    <2>2. sums[k] = Earlier!Logs(S) - Earlier!Logs({bases[q] : q \in S})
      BY <1>8
    <2> HIDE DEF S
    <2>3. IsFiniteSet(S)
      BY <1>5, <2>1, FS_Subset
    <2>4. Earlier!Logs(S) - Earlier!Logs({bases[q] : q \in S}) = Sum(rel, S)
      <3>1. \A q \in S : q.fare \in Int /\ bases[q].fare \in Int /\ bases[q].product = q.product
        BY <1>9, <2>1
      <3>2. \A q, r \in S : q.product = r.product => q = r
        BY <1>10, <2>1
      <3>3. \A q \in S : rel[q] = q.fare - bases[q].fare
        BY <1>9, <2>1
      <3>4. Bases(bases, S) /\ Relatives(rel, bases, S)
        BY <3>1, <3>2, <3>3 DEF Bases, Relatives
      <3> QED
        BY <2>3, <3>4, LogsOfRelatives
    <2> QED
      BY <2>1, <2>2, <2>4
  <1>12. \A k \in K : counts[k] = Sum(ones, Of(key, matched, k))
    <2> TAKE k \in K
    <2>1. Of(key, matched, k) \in SUBSET matched /\ counts[k] = Cardinality(Of(key, matched, k))
      BY <1>4, <1>8
    <2>2. IsFiniteSet(Of(key, matched, k))
      BY <1>5, <2>1, FS_Subset
    <2>3. \A q \in Of(key, matched, k) : ones[q] = 1
      BY <1>9, <2>1
    <2> QED
      BY <2>1, <2>2, <2>3, SumOnes
  <1>13. Summable(rel, matched) /\ Summable(ones, matched)
    BY <1>5, <1>9 DEF Summable
  <1>14. Sum(sums, K) = Sum(rel, matched)
    BY <1>6, <1>7, <1>11, <1>13, SumByKey
  <1>15. Sum(counts, K) = Sum(ones, matched)
    BY <1>6, <1>7, <1>12, <1>13, SumByKey
  <1>16. Sum(ones, matched) = Cardinality(matched)
    BY <1>5, <1>9, SumOnes
  <1> QED
    BY <1>5, <1>13, <1>14, <1>15, <1>16 DEF counts, sums, rel, start, c

\* The flights of a cell that the base period has too, and the logarithms of
\* their lowest fares relative to the base.
FlightsIn(start, group) ==
  {FlightOf(q.product) : q \in group} \cap {FlightOf(r.product) : r \in start}
LowestTo(start, group) ==
  [f \in FlightsIn(start, group) |-> Lowest(group, f) - BaseLowest(start, f)]

\* The earlier engine names the same flights, and gives them the same fares.
LEMMA EarlierLowest ==
  ASSUME NEW P, IsPanel(P), NEW b, NEW t, NEW p,
         NEW lowest, lowest = Earlier!LowestRelative(P, b),
         NEW K, K = Earlier!InCell(lowest, t, Slot(CellOf(p))),
         NEW flights, flights = FlightsIn(At(P, b), CellAt(P, t, CellOf(p)))
  PROVE  /\ Summable(LowestTo(At(P, b), CellAt(P, t, CellOf(p))), flights)
         /\ K = {} <=> flights = {}
         /\ Cardinality(K) = Cardinality(flights)
         /\ Sum(lowest, K) = Sum(LowestTo(At(P, b), CellAt(P, t, CellOf(p))), flights)
PROOF
  <1> DEFINE c == CellOf(p)
             start == At(P, b)
             group == CellAt(P, t, c)
             low == LowestTo(start, group)
             fare(u, k) == Min({q.fare : q \in {r \in P : r.period = u /\ Earlier!KappaFlight(r.product) = k}})
             both == {q \in P : \E r \in start : FlightOf(r.product) = FlightOf(q.product)}
             name == [f \in flights |-> <<t, FlightKey(f)>>]
  <1>1. \A q, r : Earlier!KappaFlight(q.product) = Earlier!KappaFlight(r.product)
                    <=> FlightOf(q.product) = FlightOf(r.product)
    BY EarlierKeys
  <1>2. lowest = [k \in {<<q.period, Earlier!KappaFlight(q.product)>> : q \in both} |->
                    fare(k[1], k[2]) - fare(b, k[2])]
    <2> DEFINE atBase == {Earlier!KappaFlight(r.product) : r \in {q \in P : q.period = b}}
               early(u, k) == Earlier!Min({q.fare : q \in {r \in P : r.period = u /\ Earlier!KappaFlight(r.product) = k}})
    <2>1. lowest = [k \in {<<q.period, Earlier!KappaFlight(q.product)>> :
                             q \in {r \in P : Earlier!KappaFlight(r.product) \in atBase}} |->
                      early(k[1], k[2]) - early(b, k[2])]
      BY DEF Earlier!LowestRelative
    <2>2. {r \in P : Earlier!KappaFlight(r.product) \in atBase} = both
      BY <1>1 DEF At
    <2>3. \A u, k : early(u, k) = fare(u, k)
      BY EarlierBounds
    <2> HIDE DEF both, early, fare, atBase
    <2> QED
      BY <2>1, <2>2, <2>3
  <1>3. flights = {FlightOf(q.product) : q \in {r \in both : r.period = t /\ CellOf(r.product) = c}}
    BY DEF FlightsIn, CellAt, At
  <1>4. \A f \in flights : \E q \in both : q.period = t /\ CellOf(q.product) = c /\ f = FlightOf(q.product)
    BY <1>3
  <1>5. K = {name[f] : f \in flights}
    <2>1. K = {k \in {<<q.period, Earlier!KappaFlight(q.product)>> : q \in both} :
                 k[1] = t /\ <<k[2][1], k[2][2], k[2][3]>> = Slot(c)}
      BY <1>2 DEF Earlier!InCell
    <2>2. \A q \in both : LET k == <<q.period, Earlier!KappaFlight(q.product)>>
                          IN  k[1] = t /\ <<k[2][1], k[2][2], k[2][3]>> = Slot(c)
                                <=> q.period = t /\ CellOf(q.product) = c
      <3> TAKE q \in both
      <3>1. LET k == Earlier!KappaFlight(q.product)
            IN  <<k[1], k[2], k[3]>> = Slot(CellOf(q.product))
        BY EarlierKeys
      <3>2. Slot(CellOf(q.product)) = Slot(c) <=> CellOf(q.product) = c
        BY EarlierKeys
      <3> QED
        BY <3>1, <3>2
    <2>3. \A q \in both : q.period = t /\ CellOf(q.product) = c =>
             /\ FlightOf(q.product) \in flights
             /\ name[FlightOf(q.product)] = <<q.period, Earlier!KappaFlight(q.product)>>
      BY <1>3, EarlierKeys
    <2> HIDE DEF both, name
    <2>4. \A k \in K : \E f \in flights : k = name[f]
      BY <2>1, <2>2, <2>3
    <2>5. \A f \in flights : name[f] \in K
      <3> TAKE f \in flights
      <3>1. PICK q \in both : q.period = t /\ CellOf(q.product) = c /\ f = FlightOf(q.product)
        BY <1>4
      <3> QED
        BY <2>1, <2>2, <2>3, <3>1
    <2> QED
      BY <2>4, <2>5
  <1>6. \A f \in flights : low[f] = lowest[name[f]] /\ low[f] \in Int
    <2> TAKE f \in flights
    <2>1. PICK q \in both : q.period = t /\ CellOf(q.product) = c /\ f = FlightOf(q.product)
      BY <1>4
    <2>2. low[f] = Min(FaresOf(group, f)) - Min(FaresOf(start, f))
      BY DEF LowestTo, Lowest, BaseLowest
    <2>3. name[f] = <<t, FlightKey(f)>> /\ FlightKey(f) = Earlier!KappaFlight(q.product)
      BY <2>1, EarlierKeys
    <2>4. lowest[name[f]] = fare(t, FlightKey(f)) - fare(b, FlightKey(f))
      <3>1. name[f] \in {<<s.period, Earlier!KappaFlight(s.product)>> : s \in both}
        BY <2>1, <2>3
      <3> HIDE DEF both, fare, name
      <3> QED
        BY <1>2, <2>3, <3>1
    <2>5. \A r : Earlier!KappaFlight(r.product) = FlightKey(f) <=> FlightOf(r.product) = f
      BY <1>1, <2>1, <2>3
    <2>6. \A r : FlightOf(r.product) = f => CellOf(r.product) = c
      BY <2>1 DEF FlightOf
    <2>7. fare(t, FlightKey(f)) = Min(FaresOf(group, f))
      <3>1. {r \in P : r.period = t /\ Earlier!KappaFlight(r.product) = FlightKey(f)}
              = {r \in group : FlightOf(r.product) = f}
        BY <2>5, <2>6 DEF CellAt, At
      <3> QED
        BY <3>1 DEF FaresOf
    <2>8. fare(b, FlightKey(f)) = Min(FaresOf(start, f))
      <3>1. {r \in P : r.period = b /\ Earlier!KappaFlight(r.product) = FlightKey(f)}
              = {r \in start : FlightOf(r.product) = f}
        BY <2>5 DEF At
      <3> QED
        BY <3>1 DEF FaresOf
    <2>9. Min(FaresOf(group, f)) \in Int /\ Min(FaresOf(start, f)) \in Int
      <3>1. IsPanel(group) /\ IsPanel(start)
        BY FS_Subset DEF IsPanel, CellAt, At
      <3>2. f \in {FlightOf(r.product) : r \in group} /\ f \in {FlightOf(r.product) : r \in start}
        BY DEF FlightsIn
      <3> QED
        BY <3>1, <3>2, LeastFare
    <2> HIDE DEF fare, name, low
    <2> QED
      BY <2>2, <2>4, <2>7, <2>8, <2>9
  <1>7. IsFiniteSet(flights)
    <2> DEFINE g == [q \in P |-> FlightOf(q.product)]
    <2>1. flights \in SUBSET {g[q] : q \in P}
      BY <1>3
    <2> HIDE DEF g
    <2>2. IsFiniteSet({g[q] : q \in P})
      BY FiniteValues DEF IsPanel
    <2> QED
      BY <2>1, <2>2, FS_Subset
  <1>8. Renames(name, flights, K)
    <2>1. \A f, g \in flights : name[f] = name[g] => f = g
      <3> TAKE f, g \in flights
      <3>1. name[f] = name[g] => FlightKey(f) = FlightKey(g)
        OBVIOUS
      <3>2. FlightKey(f) = FlightKey(g) => f = g
        BY <1>4, EarlierKeys
      <3> QED
        BY <3>1, <3>2
    <2> QED
      BY <1>5, <2>1 DEF Renames
  <1> HIDE DEF name, low
  <1>9. Summable(low, flights)
    BY <1>6, <1>7 DEF Summable
  <1>10. Sum(lowest, K) = Sum(low, flights)
    BY <1>6, <1>8, <1>9, SumRenamed
  <1>11. Cardinality(K) = Cardinality(flights)
    BY <1>7, <1>8, CountRenamed
  <1>12. K = {} <=> flights = {}
    BY <1>5
  <1> QED
    BY <1>9, <1>10, <1>11, <1>12 DEF low, start, group, c

\* It counts the same families of a cell, and knows the same reference.
LEMMA EarlierFamilies ==
  ASSUME NEW P, NEW p, NEW b
  PROVE  /\ \A t : Earlier!FamiliesIn(P, t, Slot(CellOf(p))) = Families(CellAt(P, t, CellOf(p)))
         /\ Earlier!ReferenceBundle(P, b, Slot(CellOf(p))) = Reference(P, CellOf(p))
PROOF
  <1> DEFINE c == CellOf(p)
  <1>1. \A t : {r \in P : r.period = t /\ Earlier!KappaCell(r.product) = Slot(c)} = CellAt(P, t, c)
    <2>1. \A r : Earlier!KappaCell(r.product) = Slot(c) <=> CellOf(r.product) = c
      BY EarlierKeys
    <2> HIDE DEF c
    <2> QED
      BY <2>1 DEF CellAt, At
  <1> HIDE DEF c
  <1>2. \A t : Earlier!FamiliesIn(P, t, Slot(c)) = Families(CellAt(P, t, c))
    BY <1>1, EarlierCounts DEF Earlier!FamiliesIn, Families
  <1>3. Earlier!ReferenceBundle(P, b, Slot(c)) = Earlier!Max({Earlier!FamiliesIn(P, t, Slot(c)) : t \in Periods(P)})
    BY DEF Earlier!ReferenceBundle, Earlier!RowPeriods, Periods
  <1>4. Earlier!ReferenceBundle(P, b, Slot(c)) = Max({Families(CellAt(P, t, c)) : t \in Periods(P)})
    BY <1>2, <1>3, EarlierBounds
  <1> QED
    BY <1>2, <1>4 DEF Reference, c

\* An elementary cell by its matched rows and flights.
LEMMA ElementaryBy ==
  ASSUME NEW start, NEW group, NEW reference, NEW m
  PROVE  Elementary(start, group, reference, m) =
           LET matched  == MatchedTo(start, group)
               flights  == FlightsIn(start, group)
               valued   == matched # {} \/ (m.availability /\ flights # {})
               relative == Sum(RelativeTo(start, group), matched) \div Cardinality(matched)
               low      == Sum(LowestTo(start, group), flights) \div Cardinality(flights)
           IN  [valued |-> valued,
                log |-> IF valued
                        THEN IF matched = {} THEN low
                             ELSE IF ~m.availability THEN relative
                             ELSE Blend(relative, low, Families(group), reference)
                        ELSE 0,
                suppressed |-> Cardinality(matched) < m.nMin \/ ~valued]
PROOF
  <1> DEFINE matched == MatchedTo(start, group)
             flights == FlightsIn(start, group)
             relative == Sum(RelativeTo(start, group), matched) \div Cardinality(matched)
             low == Sum(LowestTo(start, group), flights) \div Cardinality(flights)
  <1>1. MeanOf(RelativeTo(start, group)) = relative
    <2>1. DOMAIN RelativeTo(start, group) = matched
      BY DEF RelativeTo
    <2> QED
      BY <2>1 DEF MeanOf, SumFunction, Sum
  <1>2. MeanOf(LowestTo(start, group)) = low
    <2>1. DOMAIN LowestTo(start, group) = flights
      BY DEF LowestTo
    <2> QED
      BY <2>1 DEF MeanOf, SumFunction, Sum
  <1> DEFINE matched1 == {q \in group : \E r \in start : r.product = q.product}
             flights1 == {FlightOf(q.product) : q \in group} \cap {FlightOf(r.product) : r \in start}
             relative1 == [q \in matched1 |-> q.fare - (CHOOSE r \in start : r.product = q.product).fare]
             lowest1 == [f \in flights1 |-> Lowest(group, f) - BaseLowest(start, f)]
             adjusted == IF matched1 = {} THEN MeanOf(lowest1)
                         ELSE IF ~m.availability THEN MeanOf(relative1)
                         ELSE Blend(MeanOf(relative1), MeanOf(lowest1), Families(group), reference)
             valued1 == matched1 # {} \/ (m.availability /\ flights1 # {})
  <1>3. matched1 = matched /\ flights1 = flights
    BY DEF MatchedTo, FlightsIn
  <1>4. relative1 = RelativeTo(start, group) /\ lowest1 = LowestTo(start, group)
    BY DEF RelativeTo, MatchedTo, BaseRow, LowestTo, FlightsIn
  <1>5. Elementary(start, group, reference, m) =
          [valued |-> valued1, log |-> IF valued1 THEN adjusted ELSE 0,
           suppressed |-> Cardinality(matched1) < m.nMin \/ ~valued1]
    BY DEF Elementary
  <1> HIDE DEF matched1, flights1, relative1, lowest1, matched, flights, relative, low
  <1>6. Elementary(start, group, reference, m) =
          [valued |-> matched # {} \/ (m.availability /\ flights # {}),
           log |-> IF matched # {} \/ (m.availability /\ flights # {})
                   THEN IF matched = {} THEN low
                        ELSE IF ~m.availability THEN relative
                        ELSE Blend(relative, low, Families(group), reference)
                   ELSE 0,
           suppressed |-> Cardinality(matched) < m.nMin \/ ~(matched # {} \/ (m.availability /\ flights # {}))]
    BY <1>1, <1>2, <1>3, <1>4, <1>5
  <1> QED
    BY <1>6 DEF matched, flights, relative, low

\* What the earlier engine makes of a cell.
LEMMA EarlierCellBy ==
  ASSUME NEW P, IsPanel(P), P # {}, NEW m, NEW t, NEW c,
         NEW b, b = ChooseBase(P, m),
         NEW flight, flight = Earlier!PerFlight(P, b), NEW J, J = Earlier!InCell(flight, t, c),
         NEW lowest, lowest = Earlier!LowestRelative(P, b), NEW L, L = Earlier!InCell(lowest, t, c),
         NEW n, n = Sum([k \in J |-> flight[k].count], J),
         NEW relative, relative = Sum([k \in J |-> flight[k].sum], J) \div n,
         NEW low, low = Sum(lowest, L) \div Cardinality(L),
         <<t, c>> \in {<<q.period, Earlier!KappaCell(q.product)>> : q \in P}
  PROVE  Earlier!CellIndices(P, m)[<<t, c>>] =
           [matched |-> n, suppressed |-> n < m.nMin,
            known |-> n > 0 \/ (m.availability /\ L # {}),
            log |-> IF n > 0 /\ m.availability
                    THEN Earlier!AvailabilityBlend(relative, low, Earlier!FamiliesIn(P, t, c),
                                                   Earlier!ReferenceBundle(P, b, c))
                    ELSE IF n > 0 THEN relative
                    ELSE IF m.availability /\ L # {} THEN low ELSE 0]
PROOF
  <1>1. Earlier!ChooseBasePeriod(P, m) = b
    BY EarlierBase
  <1>2. /\ Earlier!SumFunction([k \in J |-> flight[k].count]) = n
        /\ Earlier!SumFunction([k \in J |-> flight[k].sum]) = Sum([k \in J |-> flight[k].sum], J)
    BY EarlierSums
  <1>3. Earlier!SumFunctionOnSet(lowest, L) \div Earlier!Cardinality(L) = low
    BY EarlierSums, EarlierCounts
  <1> DEFINE D == {<<q.period, Earlier!KappaCell(q.product)>> : q \in P}
             base == Earlier!ChooseBasePeriod(P, m)
             One(u, d) ==
               LET fl      == Earlier!PerFlight(P, base)
                   lo      == Earlier!LowestRelative(P, base)
                   jevons  == Earlier!InCell(fl, u, d)
                   laf     == Earlier!InCell(lo, u, d)
                   count   == Earlier!SumFunction([k \in jevons |-> fl[k].count])
                   Matched == Earlier!SumFunction([k \in jevons |-> fl[k].sum]) \div count
                   Laf     == Earlier!SumFunctionOnSet(lo, laf) \div Earlier!Cardinality(laf)
               IN  [matched |-> count, suppressed |-> count < m.nMin,
                    known |-> count > 0 \/ (m.availability /\ laf # {}),
                    log |-> IF count > 0 /\ m.availability
                            THEN Earlier!AvailabilityBlend(Matched, Laf, Earlier!FamiliesIn(P, u, d),
                                                           Earlier!ReferenceBundle(P, base, d))
                            ELSE IF count > 0 THEN Matched
                            ELSE IF m.availability /\ laf # {} THEN Laf ELSE 0]
  <1>4. Earlier!CellIndices(P, m) = [k \in D |-> One(k[1], k[2])]
    BY DEF Earlier!CellIndices
  <1>5. One(t, c) =
           [matched |-> n, suppressed |-> n < m.nMin,
            known |-> n > 0 \/ (m.availability /\ L # {}),
            log |-> IF n > 0 /\ m.availability
                    THEN Earlier!AvailabilityBlend(relative, low, Earlier!FamiliesIn(P, t, c),
                                                   Earlier!ReferenceBundle(P, b, c))
                    ELSE IF n > 0 THEN relative
                    ELSE IF m.availability /\ L # {} THEN low ELSE 0]
    BY <1>1, <1>2, <1>3
  <1>6. Earlier!CellIndices(P, m)[<<t, c>>] = One(t, c)
    <2>1. <<t, c>> \in D
      OBVIOUS
    <2> HIDE DEF D, One
    <2> QED
      BY <1>4, <2>1
  <1> HIDE DEF One
  <1> QED
    BY <1>5, <1>6

\* The number of families shown is within the bundle: the clamp changes nothing.
LEMMA EarlierBlend ==
  ASSUME NEW a, NEW l, NEW offered \in Nat, NEW bundle \in Nat, offered <= bundle
  PROVE  Earlier!AvailabilityBlend(a, l, offered, bundle) = Blend(a, l, offered, bundle)
PROOF
  <1>1. ~(offered > bundle)
    OBVIOUS
  <1> QED
    BY <1>1 DEF Earlier!AvailabilityBlend, Blend

\* The cell of the earlier engine e says what the cell x does.
SameCell(e, x) ==
  /\ e = [matched |-> e.matched, suppressed |-> e.suppressed, known |-> e.known, log |-> e.log]
  /\ e.known <=> x.valued
  /\ e.log = x.log
  /\ e.suppressed <=> x.suppressed

\* A cell of the earlier engine, counted and summed by flight, says what the mean over
\* the matched rows says here.
LEMMA EarlierCell ==
  ASSUME NEW P, IsPanel(P), Unrepeated(P), NEW m, m.nMin \in Nat \ {0},
         NEW t, NEW p, CellAt(P, t, CellOf(p)) # {}
  PROVE  SameCell(Earlier!CellIndices(P, m)[<<t, Slot(CellOf(p))>>],
                  Elementary(At(P, ChooseBase(P, m)), CellAt(P, t, CellOf(p)),
                             Reference(P, CellOf(p)), m))
PROOF
  <1> DEFINE c == CellOf(p)
             b == ChooseBase(P, m)
             start == At(P, b)
             group == CellAt(P, t, c)
             matched == MatchedTo(start, group)
             flights == FlightsIn(start, group)
             rel == RelativeTo(start, group)
             low == LowestTo(start, group)
             flight == Earlier!PerFlight(P, b)
             J == Earlier!InCell(flight, t, Slot(c))
             lowest == Earlier!LowestRelative(P, b)
             L == Earlier!InCell(lowest, t, Slot(c))
             n == Sum([k \in J |-> flight[k].count], J)
             e == Earlier!CellIndices(P, m)[<<t, Slot(c)>>]
             x == Elementary(start, group, Reference(P, c), m)
             A == Sum(rel, matched) \div Cardinality(matched)
             B == Sum(low, flights) \div Cardinality(flights)
             F == Families(group)
             R == Reference(P, c)
             valued == matched # {} \/ (m.availability /\ flights # {})
  <1>1. P # {} /\ <<t, Slot(c)>> \in {<<q.period, Earlier!KappaCell(q.product)>> : q \in P}
    <2>1. PICK q \in P : q.period = t /\ CellOf(q.product) = c
      BY DEF CellAt, At
    <2>2. Earlier!KappaCell(q.product) = Slot(c)
      BY <2>1, EarlierKeys
    <2> QED
      BY <2>1, <2>2
  <1>2. /\ IsFiniteSet(matched)
        /\ n = Cardinality(matched) /\ Sum([k \in J |-> flight[k].sum], J) = Sum(rel, matched)
    BY EarlierRelatives
  <1>3. /\ L = {} <=> flights = {}
        /\ Sum(lowest, L) \div Cardinality(L) = B
    BY EarlierLowest
  <1>4. F \in Nat /\ R \in Nat \ {0} /\ F <= R
    <2>1. IsFiniteSet(group)
      BY FS_Subset DEF CellAt, At, IsPanel
    <2> QED
      BY <2>1, FamiliesAre, ReferenceIs
  <1>5. n \in Nat /\ (n > 0 <=> matched # {})
    <2> HIDE DEF matched, n
    <2> QED
      BY <1>2, FS_EmptySet, FS_CardinalityType
  <1>6. Earlier!FamiliesIn(P, t, Slot(c)) = F /\ Earlier!ReferenceBundle(P, b, Slot(c)) = R
    BY EarlierFamilies
  <1>7. x = [valued |-> valued,
             log |-> IF valued
                     THEN IF matched = {} THEN B
                          ELSE IF ~m.availability THEN A ELSE Blend(A, B, F, R)
                     ELSE 0,
             suppressed |-> Cardinality(matched) < m.nMin \/ ~valued]
    BY ElementaryBy
  <1>8. e = [matched |-> n, suppressed |-> n < m.nMin,
             known |-> n > 0 \/ (m.availability /\ L # {}),
             log |-> IF n > 0 /\ m.availability
                     THEN Earlier!AvailabilityBlend(A, B, F, R)
                     ELSE IF n > 0 THEN A
                     ELSE IF m.availability /\ L # {} THEN B ELSE 0]
    <2>1. Sum([k \in J |-> flight[k].sum], J) \div n = A
      BY <1>2
    <2> HIDE DEF A, B, F, R
    <2> QED
      BY <1>1, <1>3, <1>6, <2>1, EarlierCellBy
  <1>9. Earlier!AvailabilityBlend(A, B, F, R) = Blend(A, B, F, R)
    <2> HIDE DEF A, B, F, R
    <2> QED
      BY <1>4, EarlierBlend
  <1> HIDE DEF c, b, start, group, matched, flights, rel, low, flight, J, lowest, L, n, e, x, A, B, F, R
  <1>10. e.known <=> x.valued
    BY <1>3, <1>5, <1>7, <1>8
  <1>11. e.log = x.log
    <2>1. CASE n > 0 /\ m.availability
      BY <1>5, <1>7, <1>8, <1>9, <2>1
    <2>2. CASE n > 0 /\ ~m.availability
      BY <1>5, <1>7, <1>8, <2>2
    <2>3. CASE ~(n > 0)
      BY <1>3, <1>5, <1>7, <1>8, <2>3
    <2> QED
      BY <2>1, <2>2, <2>3
  <1>12. e.suppressed <=> x.suppressed
    <2>1. ~valued => n < m.nMin
      BY <1>5
    <2>2. e.suppressed <=> n < m.nMin
      BY <1>8
    <2>3. x.suppressed <=> (n < m.nMin \/ ~valued)
      BY <1>2, <1>7
    <2> QED
      BY <2>1, <2>2, <2>3
  <1>13. e = [matched |-> e.matched, suppressed |-> e.suppressed, known |-> e.known, log |-> e.log]
    BY <1>8
  <1> QED
    BY <1>10, <1>11, <1>12, <1>13 DEF SameCell, e, x, c, b, start, group

\* The cells of the earlier engine are those of this one.
Mirrors(table, cells) ==
  /\ DOMAIN table = {Key(k) : k \in DOMAIN cells}
  /\ \A k \in DOMAIN cells : SameCell(table[Key(k)], cells[k])

\* Its cells before smoothing are those of this engine.
LEMMA EarlierCells ==
  ASSUME NEW P, IsPanel(P), Unrepeated(P), NEW m, m.nMin \in Nat \ {0}
  PROVE  Mirrors(Earlier!CellIndices(P, m), Cells(P, m))
PROOF
  <1> DEFINE K == {<<q.period, CellOf(q.product)>> : q \in P}
             early == Earlier!CellIndices(P, m)
             cells == Cells(P, m)
             start == At(P, ChooseBase(P, m))
  <1>1. DOMAIN early = {<<q.period, Earlier!KappaCell(q.product)>> : q \in P}
    BY DEF Earlier!CellIndices
  <1>2. cells = [k \in K |-> Elementary(start, CellAt(P, k[1], k[2]), Reference(P, k[2]), m)]
    BY DEF Cells
  <1>3. \A q \in P : Key(<<q.period, CellOf(q.product)>>) = <<q.period, Earlier!KappaCell(q.product)>>
    BY EarlierKeys DEF Key
  <1>4. DOMAIN cells = K
    BY <1>2
  <1>5. DOMAIN early = {Key(k) : k \in K}
    BY <1>1, <1>3
  <1>6. ASSUME NEW k \in K
        PROVE  SameCell(early[Key(k)], cells[k])
    <2>1. PICK q \in P : k = <<q.period, CellOf(q.product)>>
      OBVIOUS
    <2>2. CellAt(P, q.period, CellOf(q.product)) # {}
      BY DEF CellAt, At
    <2>3. SameCell(Earlier!CellIndices(P, m)[<<q.period, Slot(CellOf(q.product))>>],
                   Elementary(start, CellAt(P, q.period, CellOf(q.product)),
                              Reference(P, CellOf(q.product)), m))
      BY <2>2, EarlierCell
    <2>4. Key(k) = <<q.period, Slot(CellOf(q.product))>>
      BY <2>1 DEF Key
    <2>5. cells[k] = Elementary(start, CellAt(P, q.period, CellOf(q.product)),
                                Reference(P, CellOf(q.product)), m)
      <3> HIDE DEF cells, start
      <3> QED
        BY <1>2, <2>1
    <2> HIDE DEF cells, start
    <2> QED
      BY <2>3, <2>4, <2>5
  <1> HIDE DEF K, early, cells
  <1>7. Mirrors(early, cells)
    BY <1>4, <1>5, <1>6 DEF Mirrors
  <1> QED
    BY <1>7 DEF early, cells

-----------------------------------------------------------------------------
(* Smoothing.                                                              *)

\* The members of S from a until b.
From(S, a, b) == {v \in S : a <= v /\ v < b}

\* As many follow a up to b as lead from a to b.
LEMMA HalfOpen ==
  ASSUME NEW S, IsFiniteSet(S), S \subseteq Nat, NEW a \in S, NEW b \in S, a <= b
  PROVE  Cardinality({v \in S : a < v /\ v <= b}) = Cardinality(From(S, a, b))
PROOF
  <1> DEFINE L == {v \in S : a < v /\ v <= b}
             R == From(S, a, b)
  <1>1. IsFiniteSet(L) /\ IsFiniteSet(R)
    BY FS_Subset DEF From
  <1>2. CASE a = b
    <2>1. \A v \in S : ~(a < v /\ v <= b) /\ ~(a <= v /\ v < b)
      <3> TAKE v \in S
      <3>1. v \in Nat /\ a \in Nat /\ b = a
        BY <1>2
      <3> QED
        BY <3>1
    <2>2. L = R
      BY <2>1 DEF From
    <2> QED
      BY <2>2
  <1>3. CASE a # b
    <2>1. a \in Nat /\ b \in Nat /\ a < b
      BY <1>3
    <2>2. a \notin L /\ b \notin R /\ L \union {a} = R \union {b}
      <3>1. a \notin L /\ b \notin R
        BY <2>1 DEF From
      <3>2. \A v \in L \union {a} : v \in R \union {b}
        BY <2>1 DEF From
      <3>3. \A v \in R \union {b} : v \in L \union {a}
        BY <2>1 DEF From
      <3> QED
        BY <3>1, <3>2, <3>3
    <2> HIDE DEF L, R
    <2>3. Cardinality(L \union {a}) = Cardinality(L) + 1
      BY <1>1, <2>2, FS_AddElement
    <2>4. Cardinality(R \union {b}) = Cardinality(R) + 1
      BY <1>1, <2>2, FS_AddElement
    <2>5. Cardinality(L) \in Nat /\ Cardinality(R) \in Nat
      BY <1>1, FS_CardinalityType
    <2>6. Cardinality(L) = Cardinality(R)
      BY <2>2, <2>3, <2>4, <2>5
    <2> QED
      BY <2>6 DEF L, R
  <1> QED
    BY <1>2, <1>3

\* An entry is within reach of t if no more than h lead from either to the other.
LEMMA ReachByCounts ==
  ASSUME NEW S, IsFiniteSet(S), S \subseteq Nat, NEW t \in S, NEW u \in S, NEW h \in Nat
  PROVE  u \in ReachIn(S, t, h)
           <=> Cardinality(From(S, u, t)) <= h /\ Cardinality(From(S, t, u)) <= h
PROOF
  <1>1. t \in Nat /\ u \in Nat
    OBVIOUS
  <1>2. ASSUME NEW a \in S, NEW b \in S, b <= a
        PROVE  From(S, a, b) = {}
    <2>1. ASSUME NEW v \in From(S, a, b)
          PROVE  FALSE
      <3>1. v \in Nat /\ a \in Nat /\ b \in Nat /\ a <= v /\ v < b
        BY DEF From
      <3> QED
        BY <1>2, <3>1
    <2> QED
      BY <2>1
  <1>3. CASE u <= t
    <2>1. Between(S, t, u) = {v \in S : u < v /\ v <= t}
      <3>1. \A v \in S : ~(t < v /\ v <= u)
        <4> TAKE v \in S
        <4>1. v \in Nat
          OBVIOUS
        <4> QED
          BY <1>1, <1>3, <4>1
      <3> QED
        BY <3>1 DEF Between
    <2>2. From(S, t, u) = {}
      BY <1>2, <1>3
    <2>3. Cardinality(Between(S, t, u)) = Cardinality(From(S, u, t))
      BY <1>3, <2>1, HalfOpen
    <2> QED
      BY <2>2, <2>3, FS_EmptySet DEF ReachIn
  <1>4. CASE t <= u
    <2>1. Between(S, t, u) = {v \in S : t < v /\ v <= u}
      <3>1. \A v \in S : ~(u < v /\ v <= t)
        <4> TAKE v \in S
        <4>1. v \in Nat
          OBVIOUS
        <4> QED
          BY <1>1, <1>4, <4>1
      <3> QED
        BY <3>1 DEF Between
    <2>2. From(S, u, t) = {}
      BY <1>2, <1>4
    <2>3. Cardinality(Between(S, t, u)) = Cardinality(From(S, t, u))
      BY <1>4, <2>1, HalfOpen
    <2> QED
      BY <2>2, <2>3, FS_EmptySet DEF ReachIn
  <1> QED
    BY <1>1, <1>3, <1>4

\* Without any reach an entry has itself alone.
LEMMA ReachOfNone ==
  ASSUME NEW S, IsFiniteSet(S), S \subseteq Nat, NEW t \in S
  PROVE  ReachIn(S, t, 0) = {t}
PROOF
  <1>1. t \in ReachIn(S, t, 0)
    BY WindowHasItself
  <1>2. ASSUME NEW u \in ReachIn(S, t, 0)
        PROVE  u = t
    <2>1. u \in S /\ Cardinality(Between(S, t, u)) <= 0
      BY DEF ReachIn
    <2>2. IsFiniteSet(Between(S, t, u))
      BY FS_Subset DEF Between
    <2>3. Between(S, t, u) = {}
      BY <2>1, <2>2, FS_EmptySet, FS_CardinalityType
    <2>4. t \notin Between(S, t, u) /\ u \notin Between(S, t, u)
      BY <2>3
    <2>5. t \in Nat /\ u \in Nat
      BY <2>1
    <2> QED
      BY <2>1, <2>4, <2>5 DEF Between
  <1> QED
    BY <1>1, <1>2

\* The series of a cell is finite, of days, and has each of its entries.
LEMMA SeriesIs ==
  ASSUME NEW cells, IsCells(cells), NEW k \in DOMAIN cells
  PROVE  /\ IsFiniteSet(SeriesOf(cells, k[2])) /\ SeriesOf(cells, k[2]) \subseteq Nat
         /\ k[1] \in SeriesOf(cells, k[2])
PROOF
  <1> DEFINE S == SeriesOf(cells, k[2])
             g == [j \in DOMAIN cells |-> j[1]]
  <1>1. S \in SUBSET {g[j] : j \in DOMAIN cells}
    BY DEF SeriesOf
  <1>2. IsFiniteSet({g[j] : j \in DOMAIN cells})
    <2> HIDE DEF g
    <2> QED
      BY FiniteValues DEF IsCells
  <1>3. S \subseteq Nat /\ k[1] \in S
    BY DEF SeriesOf, IsCells
  <1> HIDE DEF S, g
  <1>4. IsFiniteSet(S)
    BY <1>1, <1>2, FS_Subset
  <1> QED
    BY <1>3, <1>4 DEF S

\* The entries of the series of a cell, in this engine's table and in the other.
LEMMA EarlierSeries ==
  ASSUME NEW cells, IsCells(cells), NEW table, Mirrors(table, cells), NEW k \in DOMAIN cells
  PROVE  /\ IsFiniteSet(SeriesOf(cells, k[2])) /\ SeriesOf(cells, k[2]) \subseteq Nat
         /\ k[1] \in SeriesOf(cells, k[2])
         /\ {j \in DOMAIN table : j[2] = Slot(k[2])} = {<<u, Slot(k[2])>> : u \in SeriesOf(cells, k[2])}
         /\ \A u \in SeriesOf(cells, k[2]) : /\ <<u, k[2]>> \in DOMAIN cells
                                             /\ Key(<<u, k[2]>>) = <<u, Slot(k[2])>>
PROOF
  <1> DEFINE S == SeriesOf(cells, k[2])
  <1>1. IsFiniteSet(S)
    BY SeriesIs
  <1>2. S \subseteq Nat /\ k[1] \in S
    BY SeriesIs
  <1>3. \A u \in S : <<u, k[2]>> \in DOMAIN cells /\ Key(<<u, k[2]>>) = <<u, Slot(k[2])>>
    BY DEF SeriesOf, Key
  <1>4. DOMAIN table = {Key(i) : i \in DOMAIN cells}
    BY DEF Mirrors
  <1>5. ASSUME NEW i \in DOMAIN cells, Key(i)[2] = Slot(k[2])
        PROVE  i[1] \in S /\ Key(i) = <<i[1], Slot(k[2])>>
    <2>1. Key(i) = <<i[1], Slot(i[2])>>
      BY DEF Key
    <2>2. Slot(i[2]) = Slot(k[2])
      BY <1>5, <2>1
    <2>3. i[2] = k[2]
      <3>1. (\E p : i[2] = CellOf(p)) /\ (\E p : k[2] = CellOf(p))
        BY DEF IsCells
      <3> QED
        BY <2>2, <3>1, EarlierKeys
    <2>4. i = <<i[1], k[2]>>
      BY <2>3 DEF IsCells
    <2> QED
      BY <2>1, <2>3, <2>4 DEF SeriesOf
  <1>6. \A j \in DOMAIN table : j[2] = Slot(k[2]) => \E u \in S : j = <<u, Slot(k[2])>>
    <2> HIDE DEF S
    <2> QED
      BY <1>4, <1>5
  <1>7. \A u \in S : <<u, Slot(k[2])>> \in DOMAIN table
    <2> HIDE DEF S
    <2> QED
      BY <1>3, <1>4
  <1> HIDE DEF S
  <1>8. {j \in DOMAIN table : j[2] = Slot(k[2])} = {<<u, Slot(k[2])>> : u \in S}
    BY <1>6, <1>7
  <1> QED
    BY <1>1, <1>2, <1>3, <1>8 DEF S

\* The valued entries that the smoothed value of a cell is a mean of, here and there.
NearTo(cells, m, k) == {u \in Reach(cells, m, k[1], k[2]) : cells[<<u, k[2]>>].valued}

EarlierBefore(table, t, u, c) ==
  Earlier!Cardinality({k \in DOMAIN table : k[2] = c /\ t <= k[1] /\ k[1] < u})
EarlierNear(table, m, k) ==
  {j \in DOMAIN table : /\ j[2] = k[2] /\ table[j].known
                        /\ EarlierBefore(table, j[1], k[1], k[2]) <= m.window \div 2
                        /\ EarlierBefore(table, k[1], j[1], k[2]) <= m.window \div 2}

\* The entries smoothed over are the same, counted there and listed here.
LEMMA NearIsNear ==
  ASSUME NEW cells, IsCells(cells), NEW table, Mirrors(table, cells), NEW k \in DOMAIN cells,
         NEW m, m.window \in Nat
  PROVE  EarlierNear(table, m, Key(k)) = {<<u, Slot(k[2])>> : u \in NearTo(cells, m, k)}
PROOF
  <1> DEFINE S == SeriesOf(cells, k[2])
             s == Slot(k[2])
             h == m.window \div 2
             t == k[1]
             near == NearTo(cells, m, k)
             E == {j \in DOMAIN table : j[2] = s}
  <1>1. /\ IsFiniteSet(S) /\ S \subseteq Nat /\ t \in S
        /\ E = {<<u, s>> : u \in S}
        /\ \A u \in S : <<u, k[2]>> \in DOMAIN cells /\ Key(<<u, k[2]>>) = <<u, s>>
    BY EarlierSeries
  <1>2. h \in Nat
    OBVIOUS
  <1>3. \A u \in S : table[<<u, s>>].known <=> cells[<<u, k[2]>>].valued
    <2> HIDE DEF S, s
    <2> QED
      BY <1>1 DEF Mirrors, SameCell
  <1>4. Key(k)[1] = t /\ Key(k)[2] = s
    BY DEF Key
  <1>5. \A a, b : EarlierBefore(table, a, b, s) = Cardinality(From(S, a, b))
    <2> TAKE a, b
    <2> DEFINE name == [u \in From(S, a, b) |-> <<u, s>>]
               F == {j \in DOMAIN table : j[2] = s /\ a <= j[1] /\ j[1] < b}
    <2>1. F = {j \in E : a <= j[1] /\ j[1] < b}
      OBVIOUS
    <2>2. Renames(name, From(S, a, b), F)
      <3>1. F = {<<u, s>> : u \in From(S, a, b)}
        <4>1. \A j \in F : \E u \in From(S, a, b) : j = <<u, s>>
          <5> TAKE j \in F
          <5>1. j \in E /\ a <= j[1] /\ j[1] < b
            BY <2>1
          <5>2. PICK u \in S : j = <<u, s>>
            BY <1>1, <5>1
          <5>3. u \in From(S, a, b)
            BY <5>1, <5>2 DEF From
          <5> QED
            BY <5>2, <5>3
        <4>2. \A u \in From(S, a, b) : <<u, s>> \in F
          <5> TAKE u \in From(S, a, b)
          <5>1. u \in S /\ a <= u /\ u < b
            BY DEF From
          <5>2. <<u, s>> \in E
            BY <1>1, <5>1
          <5> QED
            BY <2>1, <5>1, <5>2
        <4> HIDE DEF F
        <4> QED
          BY <4>1, <4>2
      <3> HIDE DEF F, S, s
      <3> QED
        BY <3>1 DEF Renames
    <2>3. IsFiniteSet(From(S, a, b))
      BY <1>1, FS_Subset DEF From
    <2>4. Cardinality(F) = Cardinality(From(S, a, b))
      <3> HIDE DEF name, F, S, s
      <3> QED
        BY <2>2, <2>3, CountRenamed
    <2> QED
      BY <2>4, EarlierCounts DEF EarlierBefore
  <1>6. near = {u \in ReachIn(S, t, h) : cells[<<u, k[2]>>].valued}
    BY ReachIs DEF NearTo
  <1>7. near = {u \in S : /\ cells[<<u, k[2]>>].valued
                          /\ Cardinality(From(S, u, t)) <= h /\ Cardinality(From(S, t, u)) <= h}
    <2>1. \A u \in ReachIn(S, t, h) : u \in S
      BY DEF ReachIn
    <2>2. \A u \in S : u \in ReachIn(S, t, h)
             <=> Cardinality(From(S, u, t)) <= h /\ Cardinality(From(S, t, u)) <= h
      <3> HIDE DEF S, t, h
      <3> QED
        BY <1>1, <1>2, ReachByCounts
    <2> HIDE DEF S, t, h, near
    <2> QED
      BY <1>6, <2>1, <2>2
  <1>8. EarlierNear(table, m, Key(k)) =
          {j \in E : /\ table[j].known
                     /\ Cardinality(From(S, j[1], t)) <= h /\ Cardinality(From(S, t, j[1])) <= h}
    <2> HIDE DEF S, t, s
    <2> QED
      BY <1>4, <1>5 DEF EarlierNear
  <1> HIDE DEF S, s, h, t, near, E
  <1>9. \A j \in EarlierNear(table, m, Key(k)) : \E u \in near : j = <<u, s>>
    <2> TAKE j \in EarlierNear(table, m, Key(k))
    <2>1. j \in E /\ table[j].known
          /\ Cardinality(From(S, j[1], t)) <= h /\ Cardinality(From(S, t, j[1])) <= h
      BY <1>8
    <2>2. PICK u \in S : j = <<u, s>>
      BY <1>1, <2>1
    <2>3. u \in near
      BY <1>3, <1>7, <2>1, <2>2
    <2> QED
      BY <2>2, <2>3
  <1>10. \A u \in near : <<u, s>> \in EarlierNear(table, m, Key(k))
    BY <1>1, <1>3, <1>7, <1>8
  <1> QED
    BY <1>9, <1>10 DEF near, s

-----------------------------------------------------------------------------

\* What of the smoothed cells of the two engines is published, and its value.
LiveMirrors(table, cells) ==
  /\ DOMAIN table = {Key(k) : k \in DOMAIN cells}
  /\ \A k \in DOMAIN cells :
       /\ table[Key(k)].suppressed <=> cells[k].suppressed
       /\ ~cells[k].suppressed => table[Key(k)].known /\ table[Key(k)].log = cells[k].log

\* The logarithm of a smoothed cell.
SmoothedLog(cells, m, k) == MeanOf([u \in NearTo(cells, m, k) |-> cells[<<u, k[2]>>].log])

\* What smoothing does to the cells, in these words.
LEMMA SmoothedBy ==
  ASSUME NEW cells, NEW m
  PROVE  Smoothed(cells, m) = [k \in DOMAIN cells |->
                                 IF cells[k].valued
                                 THEN [cells[k] EXCEPT !.log = SmoothedLog(cells, m, k)]
                                 ELSE cells[k]]
  BY DEF Smoothed, SmoothedLog, NearTo

\* A mean of one value is that value: a window of one smooths nothing.
LEMMA UnsmoothedLog ==
  ASSUME NEW cells, IsCells(cells), NEW m, m.window \in Nat, m.window <= 1,
         NEW k \in DOMAIN cells, cells[k].valued
  PROVE  SmoothedLog(cells, m, k) = cells[k].log
PROOF
  <1> DEFINE S == SeriesOf(cells, k[2])
             near == NearTo(cells, m, k)
             v == [u \in near |-> cells[<<u, k[2]>>].log]
  <1>1. m.window \div 2 = 0
    <2>1. m.window = 0 \/ m.window = 1
      OBVIOUS
    <2> QED
      BY <2>1
  <1>2. IsFiniteSet(S) /\ S \subseteq Nat /\ k[1] \in S
    BY SeriesIs
  <1>3. Reach(cells, m, k[1], k[2]) = {k[1]}
    <2>1. Reach(cells, m, k[1], k[2]) = ReachIn(S, k[1], 0)
      BY <1>1, ReachIs
    <2> HIDE DEF S
    <2> QED
      BY <1>2, <2>1, ReachOfNone
  <1>4. k = <<k[1], k[2]>> /\ cells[k].log \in Int
    BY DEF IsCells
  <1>5. near = {k[1]}
    BY <1>3, <1>4 DEF NearTo
  <1>6. DOMAIN v = {k[1]} /\ v[k[1]] = cells[k].log
    BY <1>4, <1>5
  <1> HIDE DEF v
  <1>7. Sum(v, {k[1]}) = cells[k].log
    BY <1>4, <1>6, SumOne
  <1>8. MeanOf(v) = cells[k].log \div 1
    BY <1>6, <1>7, FS_Singleton DEF MeanOf, SumFunction, Sum
  <1>9. \A n \in Int : n \div 1 = n
    OBVIOUS
  <1> QED
    BY <1>4, <1>8, <1>9 DEF SmoothedLog, v

\* After smoothing, the two publish the same cells with the same values: an empty cell
\* that the earlier engine fills from its neighbours is suppressed for want of quotes.
LEMMA EarlierSmoothed ==
  ASSUME NEW cells, IsCells(cells), NEW table, Mirrors(table, cells), NEW m, m.window \in Nat
  PROVE  LiveMirrors(Earlier!SmoothCells(table, m), Smoothed(cells, m))
PROOF
  <1> DEFINE smooth == Smoothed(cells, m)
             early == Earlier!SmoothCells(table, m)
             N(j) == EarlierNear(table, m, j)
             mean(j) == Earlier!SumFunction([i \in N(j) |-> table[i].log]) \div Earlier!Cardinality(N(j))
  <1>1. DOMAIN table = {Key(k) : k \in DOMAIN cells}
    BY DEF Mirrors
  <1>2. /\ DOMAIN smooth = DOMAIN cells
        /\ \A k \in DOMAIN cells :
             smooth[k] = IF cells[k].valued
                         THEN [cells[k] EXCEPT !.log = SmoothedLog(cells, m, k)] ELSE cells[k]
    <2> HIDE DEF smooth
    <2>1. smooth = [k \in DOMAIN cells |->
                      IF cells[k].valued
                      THEN [cells[k] EXCEPT !.log = SmoothedLog(cells, m, k)] ELSE cells[k]]
      BY SmoothedBy DEF smooth
    <2> QED
      BY <2>1
  <1>3. \A k \in DOMAIN cells :
          /\ smooth[k].suppressed <=> cells[k].suppressed
          /\ ~cells[k].suppressed => cells[k].valued /\ smooth[k].log = SmoothedLog(cells, m, k)
    <2> TAKE k \in DOMAIN cells
    <2>1. cells[k] \in [valued : BOOLEAN, log : Int, suppressed : BOOLEAN]
          /\ (~cells[k].suppressed => cells[k].valued)
      BY DEF IsCells
    <2> HIDE DEF smooth
    <2> QED
      BY <1>2, <2>1
  <1>4. \A k \in DOMAIN cells : Key(k) \in DOMAIN table /\ SameCell(table[Key(k)], cells[k])
    BY DEF Mirrors
  <1>5. CASE m.window <= 1
    <2>1. early = table
      BY <1>5 DEF Earlier!SmoothCells
    <2>2. \A k \in DOMAIN cells : ~cells[k].suppressed => smooth[k].log = cells[k].log
      <3> HIDE DEF smooth
      <3> QED
        BY <1>3, <1>5, UnsmoothedLog
    <2> HIDE DEF smooth, early
    <2>3. LiveMirrors(early, smooth)
      BY <1>1, <1>2, <1>3, <1>4, <2>1, <2>2 DEF LiveMirrors, SameCell
    <2> QED
      BY <2>3 DEF smooth, early
  <1>6. CASE ~(m.window <= 1)
    <2>1. early = [j \in DOMAIN table |->
                     IF N(j) = {} THEN table[j]
                     ELSE [table[j] EXCEPT !.known = TRUE, !.log = mean(j)]]
      BY <1>6 DEF Earlier!SmoothCells, EarlierNear, EarlierBefore
    <2>2. ASSUME NEW k \in DOMAIN cells
          PROVE  early[Key(k)].suppressed <=> table[Key(k)].suppressed
      <3>1. early[Key(k)] = IF N(Key(k)) = {} THEN table[Key(k)]
                            ELSE [table[Key(k)] EXCEPT !.known = TRUE, !.log = mean(Key(k))]
        <4> HIDE DEF early, N, mean
        <4> QED
          BY <1>4, <2>1
      <3>2. table[Key(k)] = [matched |-> table[Key(k)].matched, suppressed |-> table[Key(k)].suppressed,
                             known |-> table[Key(k)].known, log |-> table[Key(k)].log]
        BY <1>4 DEF SameCell
      <3> PICK e : e = table[Key(k)]
        OBVIOUS
      <3> HIDE DEF early, N, mean
      <3>3. "suppressed" \in DOMAIN e
        BY <3>2
      <3> QED
        BY <3>1, <3>3
    <2>3. ASSUME NEW k \in DOMAIN cells, ~cells[k].suppressed
          PROVE  early[Key(k)].known /\ early[Key(k)].log = SmoothedLog(cells, m, k)
      <3> DEFINE near == NearTo(cells, m, k)
                 s == Slot(k[2])
                 M == N(Key(k))
                 name == [u \in near |-> <<u, s>>]
                 logs == [u \in near |-> cells[<<u, k[2]>>].log]
                 there == [i \in M |-> table[i].log]
                 S == SeriesOf(cells, k[2])
      <3>1. M = {<<u, s>> : u \in near}
        BY NearIsNear
      <3>2. /\ IsFiniteSet(S) /\ S \subseteq Nat /\ k[1] \in S
            /\ \A u \in S : <<u, k[2]>> \in DOMAIN cells /\ Key(<<u, k[2]>>) = <<u, s>>
        BY EarlierSeries
      <3>3. near \in SUBSET S /\ k[1] \in near
        <4>1. Reach(cells, m, k[1], k[2]) = ReachIn(S, k[1], m.window \div 2)
          BY ReachIs
        <4>2. m.window \div 2 \in Nat
          OBVIOUS
        <4>3. k[1] \in ReachIn(S, k[1], m.window \div 2)
          BY <3>2, <4>2, WindowHasItself
        <4>4. k = <<k[1], k[2]>> /\ cells[k].valued
          BY <2>3 DEF IsCells
        <4>5. ReachIn(S, k[1], m.window \div 2) \in SUBSET S
          BY DEF ReachIn
        <4> HIDE DEF S
        <4> QED
          BY <4>1, <4>3, <4>4, <4>5 DEF NearTo
      <3>4. IsFiniteSet(near)
        BY <3>2, <3>3, FS_Subset
      <3>5. \A u \in near : logs[u] \in Int /\ there[name[u]] = logs[u]
        <4> TAKE u \in near
        <4>1. u \in S /\ <<u, k[2]>> \in DOMAIN cells /\ Key(<<u, k[2]>>) = <<u, s>>
          BY <3>2, <3>3
        <4>2. cells[<<u, k[2]>>].log \in Int
          BY <4>1 DEF IsCells
        <4>3. table[<<u, s>>].log = cells[<<u, k[2]>>].log
          BY <1>4, <4>1 DEF SameCell
        <4>4. name[u] = <<u, s>> /\ <<u, s>> \in M
          BY <3>1
        <4>5. logs[u] = cells[<<u, k[2]>>].log
          OBVIOUS
        <4> HIDE DEF logs, name, M
        <4> QED
          BY <4>2, <4>3, <4>4, <4>5
      <3>6. Renames(name, near, M)
        <4> HIDE DEF near, s, M
        <4> QED
          BY <3>1 DEF Renames
      <3>7. DOMAIN there = M /\ DOMAIN logs = near
        OBVIOUS
      <3>8. early[Key(k)] = IF M = {} THEN table[Key(k)]
                            ELSE [table[Key(k)] EXCEPT !.known = TRUE, !.log = mean(Key(k))]
        <4> HIDE DEF early, N, mean
        <4> QED
          BY <1>4, <2>1
      <3>9. mean(Key(k)) = Earlier!SumFunction(there) \div Earlier!Cardinality(M)
        OBVIOUS
      <3>10. table[Key(k)] = [matched |-> table[Key(k)].matched, suppressed |-> table[Key(k)].suppressed,
                              known |-> table[Key(k)].known, log |-> table[Key(k)].log]
        BY <1>4 DEF SameCell
      <3> HIDE DEF near, s, M, name, logs, there, S, early, mean, N
      <3>11. Summable(logs, near)
        BY <3>4, <3>5 DEF Summable
      <3>12. Sum(there, M) = Sum(logs, near)
        BY <3>5, <3>6, <3>11, SumRenamed
      <3>13. Cardinality(M) = Cardinality(near)
        BY <3>4, <3>6, CountRenamed
      <3>14. mean(Key(k)) = Sum(there, M) \div Cardinality(M)
        BY <3>7, <3>9, EarlierSums, EarlierCounts
      <3>15. MeanOf(logs) = Sum(logs, near) \div Cardinality(near)
        BY <3>7 DEF MeanOf, SumFunction, Sum
      <3>16. mean(Key(k)) = SmoothedLog(cells, m, k)
        BY <3>12, <3>13, <3>14, <3>15 DEF SmoothedLog, logs, near
      <3>17. M # {}
        BY <3>1, <3>3
      <3> PICK e : e = table[Key(k)]
        OBVIOUS
      <3>18. "known" \in DOMAIN e /\ "log" \in DOMAIN e
        BY <3>10
      <3> QED
        BY <3>8, <3>16, <3>17, <3>18
    <2>4. DOMAIN early = DOMAIN table
      BY <2>1
    <2> HIDE DEF early, smooth
    <2>5. LiveMirrors(early, smooth)
      BY <1>1, <1>2, <1>3, <1>4, <2>2, <2>3, <2>4 DEF LiveMirrors, SameCell
    <2> QED
      BY <2>5 DEF early, smooth
  <1> QED
    BY <1>5, <1>6

-----------------------------------------------------------------------------

\* The weighted mean of the earlier engine is the Young aggregate.
LEMMA EarlierMean ==
  ASSUME NEW w, NEW v, Weighed(w, DOMAIN v)
  PROVE  Earlier!WeightedMean(w, v) = Young(w, v)
PROOF
  <1> DEFINE D == DOMAIN v
             total == Sum(w, D)
             h == [i \in D |-> w[i] * v[i]]
  <1>1. total \in Nat
    <2> HIDE DEF D
    <2> QED
      BY SumNat DEF Weighed, D
  <1>2. Earlier!WeightedMean(w, v) =
          IF total <= 0 THEN Sum(v, D) \div Cardinality(D) ELSE Sum(h, D) \div total
    <2>1. Earlier!WeightedMean(w, v) =
            IF Earlier!SumFunctionOnSet(w, D) <= 0
            THEN Earlier!SumFunction(v) \div Earlier!Cardinality(D)
            ELSE Earlier!SumFunction(h) \div Earlier!SumFunctionOnSet(w, D)
      BY DEF Earlier!WeightedMean
    <2>2. DOMAIN h = D
      OBVIOUS
    <2> HIDE DEF h
    <2> QED
      BY <2>1, <2>2, EarlierSums, EarlierCounts
  <1>3. Young(w, v) = IF total = 0 THEN Sum(v, D) \div Cardinality(D) ELSE Sum(h, D) \div total
    BY DEF Young, Total, MeanOf, SumFunction, Sum
  <1>4. total <= 0 <=> total = 0
    <2> HIDE DEF total
    <2> QED
      BY <1>1
  <1> HIDE DEF total, h, D
  <1> QED
    BY <1>2, <1>3, <1>4

\* The published cells of both engines.
LEMMA EarlierLive ==
  ASSUME NEW cells, IsCells(cells), NEW table, LiveMirrors(table, cells)
  PROVE  /\ Earlier!LiveCells(table) = UNION {{<<t, Slot(c)>> : c \in Live(cells, t)} : t \in Nat}
         /\ \A t : \A c \in Live(cells, t) : t \in Nat /\ table[<<t, Slot(c)>>].log = cells[<<t, c>>].log
PROOF
  <1> DEFINE U == UNION {{<<t, Slot(c)>> : c \in Live(cells, t)} : t \in Nat}
             L == Earlier!LiveCells(table)
  <1>1. \A t : \A c \in Live(cells, t) : /\ <<t, c>> \in DOMAIN cells /\ ~cells[<<t, c>>].suppressed
                                         /\ t \in Nat
    BY DEF Live, IsCells
  <1>2. \A k \in DOMAIN cells : ~cells[k].suppressed => k[2] \in Live(cells, k[1]) /\ k[1] \in Nat
    BY DEF Live, IsCells
  <1>3. \A k \in DOMAIN cells : /\ Key(k) \in DOMAIN table
                                /\ table[Key(k)].suppressed <=> cells[k].suppressed
                                /\ ~cells[k].suppressed => table[Key(k)].known /\ table[Key(k)].log = cells[k].log
    BY DEF LiveMirrors
  <1>4. \A t, c : Key(<<t, c>>) = <<t, Slot(c)>>
    BY DEF Key
  <1>5. ASSUME NEW j \in L
        PROVE  j \in U
    <2>1. j \in DOMAIN table /\ ~table[j].suppressed
      BY DEF Earlier!LiveCells
    <2>2. PICK k \in DOMAIN cells : j = Key(k)
      BY <2>1 DEF LiveMirrors
    <2>3. ~cells[k].suppressed
      BY <1>3, <2>1, <2>2
    <2>4. k[2] \in Live(cells, k[1]) /\ k[1] \in Nat
      BY <1>2, <2>3
    <2>5. j = <<k[1], Slot(k[2])>>
      BY <2>2 DEF Key
    <2> QED
      BY <2>4, <2>5
  <1>6. ASSUME NEW t \in Nat, NEW c \in Live(cells, t)
        PROVE  <<t, Slot(c)>> \in L
    <2>1. Key(<<t, c>>) \in DOMAIN table /\ ~table[Key(<<t, c>>)].suppressed /\ table[Key(<<t, c>>)].known
      BY <1>1, <1>3
    <2> QED
      BY <1>4, <2>1 DEF Earlier!LiveCells
  <1>7. L = U
    BY <1>5, <1>6
  <1>8. ASSUME NEW t, NEW c \in Live(cells, t)
        PROVE  t \in Nat /\ table[<<t, Slot(c)>>].log = cells[<<t, c>>].log
    BY <1>1, <1>3, <1>4
  <1> QED
    BY <1>7, <1>8

\* Carriers, aggregated by the earlier engine.
LEMMA EarlierCarriers ==
  ASSUME NEW cells, IsCells(cells), NEW table, LiveMirrors(table, cells),
         NEW byRoute, byRoute = Earlier!AggregateCarriers(table)
  PROVE  /\ \A g \in DOMAIN byRoute : /\ g = <<g[1], g[2], g[3]>>
                                      /\ g[2] \in RoutesAt(Live(cells, g[1]), g[3])
         /\ \A t, a : \A r \in RoutesAt(Live(cells, t), a) :
              /\ <<t, r, a>> \in DOMAIN byRoute
              /\ byRoute[<<t, r, a>>] = RouteValue(Live(cells, t), LevelsAt(cells, t), a, r)
PROOF
  <1> DEFINE L == Earlier!LiveCells(table)
             D == {<<k[1], k[2][1], k[2][3]>> : k \in L}
             By(g) == {k \in L : <<k[1], k[2][1], k[2][3]>> = g}
             value(g) == [c \in {k[2][2] : k \in By(g)} |-> Level(table[<<g[1], <<g[2], c, g[3]>>>>].log)]
  <1>1. byRoute = [g \in D |-> Earlier!WeightedMean(CarrierWeight[g[2]], value(g))]
    BY DEF Earlier!AggregateCarriers
  <1>2. /\ L = UNION {{<<t, Slot(c)>> : c \in Live(cells, t)} : t \in Nat}
        /\ \A t : \A c \in Live(cells, t) : t \in Nat /\ table[<<t, Slot(c)>>].log = cells[<<t, c>>].log
    BY EarlierLive
  <1>3. ASSUME NEW k \in L
        PROVE  \E c \in Live(cells, k[1]) : k = <<k[1], <<c.route, c.carrier, c.apw>>>>
    <2>1. PICK t \in Nat : k \in {<<t, Slot(c)>> : c \in Live(cells, t)}
      BY <1>2
    <2>2. PICK c \in Live(cells, t) : k = <<t, Slot(c)>>
      BY <2>1
    <2> QED
      BY <2>2 DEF Slot
  <1>4. ASSUME NEW t, NEW c \in Live(cells, t)
        PROVE  /\ <<t, <<c.route, c.carrier, c.apw>>>> \in L
               /\ c = [route |-> c.route, carrier |-> c.carrier, apw |-> c.apw]
               /\ table[<<t, <<c.route, c.carrier, c.apw>>>>].log = cells[<<t, c>>].log
    <2>1. <<t, Slot(c)>> \in L /\ table[<<t, Slot(c)>>].log = cells[<<t, c>>].log
      BY <1>2
    <2>2. c = [route |-> c.route, carrier |-> c.carrier, apw |-> c.apw]
      BY LiveIs DEF IsLive, CellOf
    <2> QED
      BY <2>1, <2>2 DEF Slot
  <1> HIDE DEF L
  <1>5. ASSUME NEW g \in D
        PROVE  g = <<g[1], g[2], g[3]>> /\ g[2] \in RoutesAt(Live(cells, g[1]), g[3])
    <2>1. PICK k \in L : g = <<k[1], k[2][1], k[2][3]>>
      OBVIOUS
    <2>2. PICK c \in Live(cells, k[1]) : k = <<k[1], <<c.route, c.carrier, c.apw>>>>
      BY <1>3
    <2>3. g = <<k[1], c.route, c.apw>>
      BY <2>1, <2>2
    <2> QED
      BY <2>2, <2>3 DEF RoutesAt
  <1>6. ASSUME NEW t, NEW a, NEW r \in RoutesAt(Live(cells, t), a)
        PROVE  /\ <<t, r, a>> \in D
               /\ Earlier!WeightedMean(CarrierWeight[r], value(<<t, r, a>>))
                    = RouteValue(Live(cells, t), LevelsAt(cells, t), a, r)
    <2> DEFINE g == <<t, r, a>>
               live == Live(cells, t)
               C == CarriersAt(live, a, r)
    <2>1. PICK d \in live : d.apw = a /\ d.route = r
      BY DEF RoutesAt
    <2>2. <<t, r, a>> \in D
      <3>1. <<t, <<d.route, d.carrier, d.apw>>>> \in L
        BY <1>4
      <3> QED
        BY <2>1, <3>1
    <2>3. {k[2][2] : k \in By(g)} = C
      <3>1. ASSUME NEW k \in By(g)
            PROVE  k[2][2] \in C
        <4>1. k \in L /\ <<k[1], k[2][1], k[2][3]>> = g
          OBVIOUS
        <4>2. PICK c \in Live(cells, k[1]) : k = <<k[1], <<c.route, c.carrier, c.apw>>>>
          BY <1>3, <4>1
        <4>3. k[1] = t /\ c.route = r /\ c.apw = a /\ k[2][2] = c.carrier
          BY <4>1, <4>2
        <4> QED
          BY <4>2, <4>3 DEF CarriersAt
      <3>2. ASSUME NEW i \in C
            PROVE  \E k \in By(g) : i = k[2][2]
        <4>1. PICK c \in live : c.apw = a /\ c.route = r /\ i = c.carrier
          BY DEF CarriersAt
        <4> DEFINE k == <<t, <<c.route, c.carrier, c.apw>>>>
        <4>2. k \in L
          BY <1>4
        <4>3. k[1] = t /\ k[2][1] = r /\ k[2][3] = a /\ k[2][2] = i
          BY <4>1
        <4> HIDE DEF k
        <4>4. k \in By(g)
          BY <4>2, <4>3
        <4> QED
          BY <4>3, <4>4
      <3> HIDE DEF By, g, C
      <3> QED
        BY <3>1, <3>2
    <2>4. ASSUME NEW i \in C
          PROVE  /\ [route |-> r, carrier |-> i, apw |-> a] \in live
                 /\ table[<<t, <<r, i, a>>>>].log = cells[<<t, [route |-> r, carrier |-> i, apw |-> a]>>].log
      <3>1. PICK c \in live : c.apw = a /\ c.route = r /\ i = c.carrier
        BY DEF CarriersAt
      <3>2. /\ c = [route |-> c.route, carrier |-> c.carrier, apw |-> c.apw]
            /\ table[<<t, <<c.route, c.carrier, c.apw>>>>].log = cells[<<t, c>>].log
        BY <1>4
      <3>3. c = [route |-> r, carrier |-> i, apw |-> a]
        BY <3>1, <3>2
      <3>4. <<c.route, c.carrier, c.apw>> = <<r, i, a>>
        BY <3>1
      <3> QED
        BY <3>2, <3>3, <3>4
    <2>5. value(g) = [i \in {k[2][2] : k \in By(g)} |-> Level(table[<<t, <<r, i, a>>>>].log)]
      OBVIOUS
    <2>6. \A i \in C : Level(table[<<t, <<r, i, a>>>>].log)
                          = LevelsAt(cells, t)[[route |-> r, carrier |-> i, apw |-> a]]
      BY <2>4 DEF LevelsAt
    <2> DEFINE here == [i \in C |-> LevelsAt(cells, t)[[route |-> r, carrier |-> i, apw |-> a]]]
    <2>7. value(g) = here
      <3> HIDE DEF C, g, By, value
      <3> QED
        BY <2>3, <2>5, <2>6
    <2>8. Weighed(CarrierWeight[r], C)
      <3>1. IsLive(live)
        BY LiveIs
      <3> HIDE DEF live
      <3> QED
        BY <3>1, LiveWeighed
    <2>9. Earlier!WeightedMean(CarrierWeight[r], here) = Young(CarrierWeight[r], here)
      <3>1. DOMAIN here = C
        OBVIOUS
      <3> DEFINE w == CarrierWeight[r]
      <3> HIDE DEF here, C, w
      <3>2. Weighed(w, DOMAIN here)
        BY <2>8, <3>1 DEF w
      <3>3. Earlier!WeightedMean(w, here) = Young(w, here)
        BY <3>2, EarlierMean
      <3> QED
        BY <3>3 DEF w
    <2>10. Young(CarrierWeight[r], here) = RouteValue(Live(cells, t), LevelsAt(cells, t), a, r)
      BY DEF RouteValue
    <2> HIDE DEF value, here
    <2> QED
      BY <2>2, <2>7, <2>9, <2>10
  <1> HIDE DEF value, D
  <1>7. DOMAIN byRoute = D
    BY <1>1
  <1>8. ASSUME NEW t, NEW a, NEW r \in RoutesAt(Live(cells, t), a)
        PROVE  byRoute[<<t, r, a>>] = RouteValue(Live(cells, t), LevelsAt(cells, t), a, r)
    <2> PICK g : g = <<t, r, a>>
      OBVIOUS
    <2>1. g \in D /\ g[2] = r
      BY <1>6
    <2>2. byRoute[g] = Earlier!WeightedMean(CarrierWeight[g[2]], value(g))
      BY <1>1, <2>1
    <2> QED
      BY <1>6, <2>1, <2>2
  <1> QED
    BY <1>5, <1>6, <1>7, <1>8

\* Routes, aggregated by the earlier engine.
LEMMA EarlierRoutes ==
  ASSUME NEW cells, IsCells(cells), NEW table, LiveMirrors(table, cells),
         NEW byApw, byApw = Earlier!AggregateRoutes(Earlier!AggregateCarriers(table))
  PROVE  /\ \A g \in DOMAIN byApw : g = <<g[1], g[2]>> /\ g[2] \in Windows(Live(cells, g[1]))
         /\ \A t : \A a \in Windows(Live(cells, t)) :
              /\ <<t, a>> \in DOMAIN byApw
              /\ byApw[<<t, a>>] = WindowValue(Live(cells, t), LevelsAt(cells, t), a)
PROOF
  <1> PICK byRoute : byRoute = Earlier!AggregateCarriers(table)
    OBVIOUS
  <1> DEFINE D == {<<k[1], k[3]>> : k \in DOMAIN byRoute}
             R(g) == {k[2] : k \in {j \in DOMAIN byRoute : <<j[1], j[3]>> = g}}
             value(g) == [r \in R(g) |-> byRoute[<<g[1], r, g[2]>>]]
  <1>1. byApw = [g \in D |-> Earlier!WeightedMean(RouteWeight, value(g))]
    BY DEF Earlier!AggregateRoutes
  <1>2. \A g \in DOMAIN byRoute : g = <<g[1], g[2], g[3]>> /\ g[2] \in RoutesAt(Live(cells, g[1]), g[3])
    BY EarlierCarriers
  <1>3. ASSUME NEW t, NEW a, NEW r \in RoutesAt(Live(cells, t), a)
        PROVE  /\ <<t, r, a>> \in DOMAIN byRoute
               /\ byRoute[<<t, r, a>>] = RouteValue(Live(cells, t), LevelsAt(cells, t), a, r)
    <2> HIDE DEF D, R, value
    <2> QED
      BY EarlierCarriers
  <1>4. ASSUME NEW g \in D
        PROVE  g = <<g[1], g[2]>> /\ g[2] \in Windows(Live(cells, g[1]))
    <2>1. PICK k \in DOMAIN byRoute : g = <<k[1], k[3]>>
      OBVIOUS
    <2>2. k[2] \in RoutesAt(Live(cells, k[1]), k[3])
      BY <1>2
    <2>3. k[3] \in Windows(Live(cells, k[1]))
      BY <2>2 DEF RoutesAt, Windows
    <2> QED
      BY <2>1, <2>3
  <1>5. ASSUME NEW t, NEW a \in Windows(Live(cells, t))
        PROVE  /\ <<t, a>> \in D
               /\ Earlier!WeightedMean(RouteWeight, value(<<t, a>>))
                    = WindowValue(Live(cells, t), LevelsAt(cells, t), a)
    <2> DEFINE g == <<t, a>>
               S == RoutesAt(Live(cells, t), a)
               here == [r \in S |-> RouteValue(Live(cells, t), LevelsAt(cells, t), a, r)]
    <2>1. PICK d \in Live(cells, t) : d.apw = a
      BY DEF Windows
    <2>2. d.route \in S
      BY <2>1 DEF RoutesAt
    <2>3. <<t, a>> \in D
      <3>1. <<t, d.route, a>> \in DOMAIN byRoute
        BY <1>3, <2>2
      <3> QED
        BY <3>1
    <2>4. R(g) = S
      <3>1. ASSUME NEW r \in R(g)
            PROVE  r \in S
        <4>1. PICK k \in DOMAIN byRoute : <<k[1], k[3]>> = g /\ r = k[2]
          OBVIOUS
        <4>2. k[1] = t /\ k[3] = a
          BY <4>1
        <4> QED
          BY <1>2, <4>1, <4>2
      <3>2. ASSUME NEW r \in S
            PROVE  r \in R(g)
        <4> DEFINE k == <<t, r, a>>
        <4>1. k \in DOMAIN byRoute
          BY <1>3
        <4>2. <<k[1], k[3]>> = g /\ k[2] = r
          OBVIOUS
        <4> HIDE DEF k, g
        <4> QED
          BY <4>1, <4>2
      <3> HIDE DEF R, g, S
      <3> QED
        BY <3>1, <3>2
    <2>5. value(g) = [r \in R(g) |-> byRoute[<<t, r, a>>]]
      OBVIOUS
    <2>6. \A r \in S : byRoute[<<t, r, a>>] = RouteValue(Live(cells, t), LevelsAt(cells, t), a, r)
      BY <1>3
    <2>7. value(g) = here
      <3> HIDE DEF S, g, R, value
      <3> QED
        BY <2>4, <2>5, <2>6
    <2>8. Weighed(RouteWeight, S)
      <3> DEFINE live == Live(cells, t)
      <3>1. IsLive(live)
        BY LiveIs
      <3> HIDE DEF live
      <3>2. Weighed(RouteWeight, RoutesAt(live, a))
        BY <3>1, LiveWeighed
      <3> QED
        BY <3>2 DEF live
    <2>9. Earlier!WeightedMean(RouteWeight, here) = Young(RouteWeight, here)
      <3>1. DOMAIN here = S
        OBVIOUS
      <3> HIDE DEF here, S
      <3>2. Weighed(RouteWeight, DOMAIN here)
        BY <2>8, <3>1
      <3> QED
        BY <3>2, EarlierMean
    <2>10. Young(RouteWeight, here) = WindowValue(Live(cells, t), LevelsAt(cells, t), a)
      BY DEF WindowValue
    <2> HIDE DEF value, here
    <2> QED
      BY <2>3, <2>7, <2>9, <2>10
  <1> HIDE DEF value, D
  <1>6. DOMAIN byApw = D
    BY <1>1
  <1>7. ASSUME NEW t, NEW a \in Windows(Live(cells, t))
        PROVE  byApw[<<t, a>>] = WindowValue(Live(cells, t), LevelsAt(cells, t), a)
    <2> PICK g : g = <<t, a>>
      OBVIOUS
    <2>1. g \in D
      BY <1>5
    <2>2. byApw[g] = Earlier!WeightedMean(RouteWeight, value(g))
      BY <1>1, <2>1
    <2> QED
      BY <1>5, <2>2
  <1> QED
    BY <1>4, <1>5, <1>6, <1>7

\* The headlines of the earlier engine.
LEMMA EarlierHeadline ==
  ASSUME NEW cells, IsCells(cells), NEW table, LiveMirrors(table, cells),
         NEW T, \A t : t \in T <=> Live(cells, t) # {}
  PROVE  Earlier!AggregateApw(Earlier!AggregateRoutes(Earlier!AggregateCarriers(table)))
           = [t \in T |-> Headline(cells, t)]
PROOF
  <1> PICK byApw : byApw = Earlier!AggregateRoutes(Earlier!AggregateCarriers(table))
    OBVIOUS
  <1> DEFINE D == {k[1] : k \in DOMAIN byApw}
             W(t) == {k[2] : k \in {j \in DOMAIN byApw : j[1] = t}}
             value(t) == [a \in W(t) |-> byApw[<<t, a>>]]
             early == Earlier!AggregateApw(byApw)
  <1>1. early = [t \in D |-> Earlier!WeightedMean(Omega, value(t))]
    BY DEF Earlier!AggregateApw, Earlier!WindowsAt
  <1>2. \A g \in DOMAIN byApw : g = <<g[1], g[2]>> /\ g[2] \in Windows(Live(cells, g[1]))
    BY EarlierRoutes
  <1>3. ASSUME NEW t, NEW a \in Windows(Live(cells, t))
        PROVE  /\ <<t, a>> \in DOMAIN byApw
               /\ byApw[<<t, a>>] = WindowValue(Live(cells, t), LevelsAt(cells, t), a)
    <2> HIDE DEF D, W, value, early
    <2> QED
      BY EarlierRoutes
  <1>4. D = T
    <2>1. ASSUME NEW t \in D
          PROVE  t \in T
      <3>1. PICK k \in DOMAIN byApw : t = k[1]
        OBVIOUS
      <3>2. k[2] \in Windows(Live(cells, t))
        BY <1>2, <3>1
      <3>3. Live(cells, t) # {}
        BY <3>2 DEF Windows
      <3> QED
        BY <3>3
    <2>2. ASSUME NEW t \in T
          PROVE  t \in D
      <3>1. PICK c : c \in Live(cells, t)
        OBVIOUS
      <3>2. c.apw \in Windows(Live(cells, t))
        BY <3>1 DEF Windows
      <3>3. <<t, c.apw>> \in DOMAIN byApw
        BY <1>3, <3>2
      <3> QED
        BY <3>3
    <2> QED
      BY <2>1, <2>2
  <1>5. ASSUME NEW t
        PROVE  Earlier!WeightedMean(Omega, value(t)) = Headline(cells, t)
    <2> DEFINE S == Windows(Live(cells, t))
               here == [a \in S |-> WindowValue(Live(cells, t), LevelsAt(cells, t), a)]
    <2>1. W(t) = S
      <3>1. \A a \in W(t) : a \in S
        BY <1>2
      <3>2. ASSUME NEW a \in S
            PROVE  a \in W(t)
        <4> DEFINE k == <<t, a>>
        <4>1. k \in DOMAIN byApw
          BY <1>3
        <4>2. k[1] = t /\ k[2] = a
          OBVIOUS
        <4> HIDE DEF k
        <4> QED
          BY <4>1, <4>2
      <3> HIDE DEF W, S
      <3> QED
        BY <3>1, <3>2
    <2>2. value(t) = [a \in W(t) |-> byApw[<<t, a>>]]
      OBVIOUS
    <2>3. \A a \in S : byApw[<<t, a>>] = WindowValue(Live(cells, t), LevelsAt(cells, t), a)
      BY <1>3
    <2>4. value(t) = here
      <3> HIDE DEF S, W, value
      <3> QED
        BY <2>1, <2>2, <2>3
    <2>5. Weighed(Omega, S)
      <3> DEFINE live == Live(cells, t)
      <3>1. IsLive(live)
        BY LiveIs
      <3> HIDE DEF live
      <3>2. Weighed(Omega, Windows(live))
        BY <3>1, LiveWeighed
      <3> QED
        BY <3>2 DEF live
    <2>6. Earlier!WeightedMean(Omega, here) = Young(Omega, here)
      <3>1. DOMAIN here = S
        OBVIOUS
      <3> HIDE DEF here, S
      <3>2. Weighed(Omega, DOMAIN here)
        BY <2>5, <3>1
      <3> QED
        BY <3>2, EarlierMean
    <2>7. Headline(cells, t) = Young(Omega, here)
      BY HeadlineStages
    <2> HIDE DEF value, here
    <2> QED
      BY <2>4, <2>6, <2>7
  <1> HIDE DEF value, D
  <1>6. early = [t \in T |-> Headline(cells, t)]
    <2> HIDE DEF early
    <2> QED
      BY <1>1, <1>4, <1>5
  <1> QED
    BY <1>6 DEF early

\* For quotes that can be computed the two engines give one headline.
LEMMA EnginesCompute ==
  ASSUME NEW Q, IsQuotes(Q), NEW m, m.window \in Nat, m.nMin \in Nat \ {0},
         Computes(Prepared(Q, m), m)
  PROVE  Earlier!EarlyCompute(Q, m).headline = Compute(Q, m).headline
PROOF
  <1> PICK P : P = Prepared(Q, m)
    OBVIOUS
  <1> PICK cells : cells = Cells(P, m)
    OBVIOUS
  <1> PICK smooth : smooth = Smoothed(cells, m)
    OBVIOUS
  <1> PICK table : table = Earlier!SmoothCells(Earlier!CellIndices(P, m), m)
    OBVIOUS
  <1>1. IsPanel(P) /\ Unrepeated(P)
    BY PreparedIsPanel, PreparedUnrepeated
  <1>2. Earlier!Prepare(Q, m) = P
    BY EarlierPanel
  <1>3. IsCells(cells) /\ IsCells(smooth)
    BY <1>1, CellsAre, SmoothedAre
  <1>4. Mirrors(Earlier!CellIndices(P, m), cells)
    BY <1>1, EarlierCells
  <1>5. LiveMirrors(table, smooth)
    BY <1>3, <1>4, EarlierSmoothed
  <1> DEFINE T == {u \in Periods(P) : Live(smooth, u) # {}}
  <1>6. \A t : t \in T <=> Live(smooth, t) # {}
    <2>1. ASSUME NEW t, NEW c \in Live(smooth, t)
          PROVE  t \in Periods(P)
      <3>1. PICK k \in DOMAIN smooth : k[1] = t
        BY DEF Live
      <3>2. DOMAIN smooth = DOMAIN cells
        BY DEF Smoothed
      <3>3. DOMAIN cells = {<<q.period, CellOf(q.product)>> : q \in P}
        BY DEF Cells
      <3> QED
        BY <3>1, <3>2, <3>3 DEF Periods
    <2> QED
      BY <2>1
  <1> HIDE DEF T
  <1>7. Earlier!AggregateApw(Earlier!AggregateRoutes(Earlier!AggregateCarriers(table)))
          = [t \in T |-> Headline(smooth, t)]
    BY <1>3, <1>5, <1>6, EarlierHeadline
  <1>8. Earlier!EarlyCompute(Q, m).headline
          = Earlier!AggregateApw(Earlier!AggregateRoutes(Earlier!AggregateCarriers(table)))
    BY <1>2 DEF Earlier!EarlyCompute
  <1>9. Compute(Q, m).headline = [t \in T |-> Headline(smooth, t)]
    BY DEF Compute, T
  <1> QED
    BY <1>7, <1>8, <1>9

\* A cell is published only for at least one matched quote.
CellsNeedQuotes == \A m \in Methods : m.nMin \in Nat \ {0}

\* The quotes of the invariant are quotes.
LEMMA ServedQuotes ==
  ASSUME LogsAreIntegers, EngineInv
  PROVE  IsQuotes(quotes)
PROOF
  <1> PICK rows : rows = ledger
    OBVIOUS
  <1>1. Stored(rows) /\ \A r \in rows : r.product \in Products
    BY DEF EngineInv, LedgerTyped, Stored
  <1>2. IsQuotes(CleanObservations(rows, day, method.fresh))
    BY <1>1, CleanedAreQuotes
  <1> QED
    BY <1>2 DEF EngineInv, ServedIndex

\* What the back end serves is what the earlier engine computes from the same quotes.
LEMMA ServedByBoth ==
  ASSUME LogsAreIntegers, CellsNeedQuotes
  PROVE  EngineInv => EnginesAgree
PROOF
  <1> SUFFICES ASSUME EngineInv, Earlier!CanCompute(Earlier!Prepare(quotes, method), method)
               PROVE  index.headline = Earlier!EarlyCompute(quotes, method).headline
    BY DEF EnginesAgree
  <1>1. Computes(Prepared(quotes, method), method)
    BY EarlierPanel, EarlierComputes
  <1>2. index = Compute(quotes, method)
    BY <1>1 DEF EngineInv, ServedIndex
  <1>3. method.window \in Nat /\ method.nMin \in Nat \ {0}
    BY HistoryAssumption DEF EngineInv, LedgerTyped, CellsNeedQuotes
  <1>4. IsQuotes(quotes)
    BY ServedQuotes
  <1>5. Earlier!EarlyCompute(quotes, method).headline = Compute(quotes, method).headline
    BY <1>1, <1>3, <1>4, EnginesCompute
  <1> QED
    BY <1>2, <1>5

\* Whatever is collected and whichever method is chosen, the engine of the back end and
\* that of the earlier stack, from which it was rewritten, give the same headlines for
\* the quotes served, provided a cell needs at least one matched quote to be published.
THEOREM EnginesAlwaysAgree ==
  ASSUME LogsAreIntegers, CellsNeedQuotes
  PROVE  Spec => []EnginesAgree
PROOF
  <1>1. Init => EngineInv
    BY EngineInit
  <1>2. EngineInv /\ [Next]_vars => EngineInv'
    BY EngineStep
  <1>3. EngineInv => EnginesAgree
    BY ServedByBoth
  <1> QED
    BY <1>1, <1>2, <1>3, PTL DEF Spec
=============================================================================
