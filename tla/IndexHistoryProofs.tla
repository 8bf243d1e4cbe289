-------------------------- MODULE IndexHistoryProofs --------------------------
(***************************************************************************)
(* What a growing ledger can and cannot do to the published series, for    *)
(* any basket, captures, weights and methods.  The two properties proved   *)
(* speak of methods under which nothing goes stale, so the first lemmas    *)
(* show that cleaning is then monotone: whether an observation is quoted   *)
(* depends on itself alone, and its price on its own day alone.            *)
(***************************************************************************)
EXTENDS IndexHistory, SetLemmas

-----------------------------------------------------------------------------
(* Cleaning.                                                               *)

\* An observation that no gate but the freshness gate holds back.
Good(r) ==
  /\ \A end \in Ends[r.product.route] : end \in KnownAirports
  /\ r.product.carrier \in KnownCarriers
  /\ ~r.soldOut
  /\ r.fare # 0

\* What the outlier fences flag is winsorised and kept: of a fresh observation
\* only its own fields decide whether it is quoted.
LEMMA KeptIsGood ==
  ASSUME NEW rows, NEW r, NEW today, NEW fresh, ~Stale(r, today, fresh), r.soldOut \in BOOLEAN
  PROVE  PublicationDisposition(Flags(rows, r, today, fresh)) \in {"ACCEPTED", "WINSORISED"}
           <=> Good(r)
PROOF
  <1> DEFINE F == Flags(rows, r, today, fresh)
  <1>1. "UNKNOWN_AIRPORT" \in F <=> \E end \in Ends[r.product.route] : end \notin KnownAirports
    BY DEF Flags, ValidationFlags, ComponentFlags, FareFlags, OutlierFlags, IsKnownAirport
  <1>2. "UNKNOWN_CARRIER" \in F <=> r.product.carrier \notin KnownCarriers
    BY DEF Flags, ValidationFlags, ComponentFlags, FareFlags, OutlierFlags, IsKnownCarrier
  <1>3. "SOLD_OUT" \in F <=> r.soldOut
    BY DEF Flags, ValidationFlags, ComponentFlags, FareFlags, OutlierFlags, SoldOut
  <1>4. "STALE_QUOTE" \notin F
    BY DEF Flags, ValidationFlags, ComponentFlags, FareFlags, OutlierFlags
  <1>5. "ZERO_FARE" \in F <=> r.fare = 0
    BY DEF Flags, ValidationFlags, ComponentFlags, FareFlags, OutlierFlags
  <1> HIDE DEF F
  <1>6. PublicationDisposition(F) \in {"ACCEPTED", "WINSORISED"}
          <=> /\ "UNKNOWN_AIRPORT" \notin F /\ "UNKNOWN_CARRIER" \notin F
              /\ "SOLD_OUT" \notin F /\ "STALE_QUOTE" \notin F /\ "ZERO_FARE" \notin F
    BY DEF PublicationDisposition
  <1> QED
    BY <1>1, <1>2, <1>3, <1>4, <1>5, <1>6 DEF F, Good

-----------------------------------------------------------------------------
(* Bags of prices.                                                         *)

\* A bag of prices: integers, finitely many.
IsBag(price) == IsFiniteSet(DOMAIN price) /\ DOMAIN price # {} /\ \A i \in DOMAIN price : price[i] \in Int

\* How many prices of a bag are below a level, and at it or below.
Below(price, v)  == {i \in DOMAIN price : price[i] < v}
UpTo(price, v)   == {i \in DOMAIN price : price[i] <= v}

LEMMA BagCounts ==
  ASSUME NEW price, IsBag(price), NEW v
  PROVE  /\ IsFiniteSet(Below(price, v)) /\ Cardinality(Below(price, v)) \in Nat
         /\ IsFiniteSet(UpTo(price, v)) /\ Cardinality(UpTo(price, v)) \in Nat
         /\ Cardinality(UpTo(price, v)) <= Cardinality(DOMAIN price)
         /\ Cardinality(DOMAIN price) \in Nat \ {0}
PROOF
  <1>1. Below(price, v) \in SUBSET DOMAIN price /\ UpTo(price, v) \in SUBSET DOMAIN price
    BY DEF Below, UpTo
  <1> QED
    BY <1>1, FS_Subset, FS_CardinalityType, FS_EmptySet DEF IsBag

\* An order statistic is a price of the bag at its rank.
LEMMA RankedIs ==
  ASSUME NEW price, IsBag(price), NEW n \in 1..Cardinality(DOMAIN price)
  PROVE  /\ Ranked(price, n) \in {price[i] : i \in DOMAIN price}
         /\ Ranked(price, n) \in Int
         /\ Cardinality(Below(price, Ranked(price, n))) < n
         /\ Cardinality(UpTo(price, Ranked(price, n))) >= n
PROOF
  <1> DEFINE V == {price[i] : i \in DOMAIN price}
             S == {v \in V : Cardinality(UpTo(price, v)) >= n}
  <1>1. IsFiniteSet(V) /\ V \subseteq Int /\ V # {}
    BY FiniteValues DEF IsBag
  <1>2. Cardinality(DOMAIN price) \in Nat /\ n \in Nat /\ n >= 1
    BY BagCounts
  <1>3. S # {} /\ S \subseteq Int /\ IsFiniteSet(S)
    <2>1. Max(V) \in V /\ \A y \in V : y <= Max(V)
      <3> HIDE DEF V
      <3> QED
        BY <1>1, FiniteMax
    <2>2. UpTo(price, Max(V)) = DOMAIN price
      BY <2>1 DEF UpTo
    <2>3. Cardinality(UpTo(price, Max(V))) >= n
      BY <1>2, <2>2
    <2>4. Max(V) \in S
      BY <2>1, <2>3
    <2> HIDE DEF V
    <2> QED
      BY <1>1, <2>4, FS_Subset
  <1> DEFINE v == Min(S)
  <1>4. v \in S /\ \A y \in S : v <= y
    <2> HIDE DEF S
    <2> QED
      BY <1>3, FiniteMin
  <1> HIDE DEF v
  <1>5. Cardinality(Below(price, v)) < n
    <2> SUFFICES ASSUME ~(Cardinality(Below(price, v)) < n)
                 PROVE  FALSE
      OBVIOUS
    <2>1. IsFiniteSet(Below(price, v)) /\ Cardinality(Below(price, v)) \in Nat
      BY BagCounts
    <2>2. Cardinality(Below(price, v)) >= n /\ Below(price, v) # {}
      BY <1>2, <2>1, FS_EmptySet
    <2> DEFINE W == {price[i] : i \in Below(price, v)}
    <2>3. IsFiniteSet(W) /\ W \subseteq V /\ W # {} /\ W \subseteq Int
      BY <1>1, <2>1, <2>2, FiniteValues DEF Below
    <2> DEFINE u == Max(W)
    <2>4. u \in W /\ \A y \in W : y <= u
      <3> HIDE DEF W
      <3> QED
        BY <2>3, FiniteMax
    <2>5. u < v /\ u \in V /\ v \in Int /\ u \in Int
      BY <1>1, <1>4, <2>4 DEF Below
    <2>6. UpTo(price, u) = Below(price, v)
      <3>1. ASSUME NEW i \in UpTo(price, u)
            PROVE  i \in Below(price, v)
        <4>1. i \in DOMAIN price /\ price[i] \in Int /\ price[i] <= u
          BY DEF UpTo, IsBag
        <4> HIDE DEF u
        <4>2. price[i] < v
          BY <2>5, <4>1
        <4> QED
          BY <4>1, <4>2 DEF Below
      <3>2. ASSUME NEW i \in Below(price, v)
            PROVE  i \in UpTo(price, u)
        <4>1. price[i] \in W /\ i \in DOMAIN price
          BY DEF Below
        <4> QED
          BY <2>4, <4>1 DEF UpTo
      <3> QED
        BY <3>1, <3>2
    <2>7. u \in S
      BY <2>2, <2>5, <2>6
    <2> HIDE DEF u
    <2> QED
      BY <1>4, <2>5, <2>7
  <1>6. \E w \in V : Cardinality(Below(price, w)) < n /\ Cardinality(UpTo(price, w)) >= n
    BY <1>4, <1>5
  <1> HIDE DEF S
  <1>7. Ranked(price, n) = CHOOSE w \in V : Cardinality(Below(price, w)) < n
                                             /\ Cardinality(UpTo(price, w)) >= n
    BY DEF Ranked, Below, UpTo
  <1>8. /\ Ranked(price, n) \in V
        /\ Cardinality(Below(price, Ranked(price, n))) < n
        /\ Cardinality(UpTo(price, Ranked(price, n))) >= n
    <2> HIDE DEF V
    <2> QED
      BY <1>6, <1>7
  <1> QED
    BY <1>1, <1>8

\* Order statistics are in order.
LEMMA RankedInOrder ==
  ASSUME NEW price, IsBag(price),
         NEW n \in 1..Cardinality(DOMAIN price), NEW k \in 1..Cardinality(DOMAIN price), n <= k
  PROVE  Ranked(price, n) <= Ranked(price, k)
PROOF
  <1> DEFINE v == Ranked(price, n)
             w == Ranked(price, k)
  <1>1. v \in Int /\ w \in Int /\ Cardinality(Below(price, v)) < n /\ Cardinality(UpTo(price, w)) >= k
    BY RankedIs
  <1> HIDE DEF v, w
  <1> SUFFICES ASSUME w < v
               PROVE  FALSE
    BY <1>1 DEF v, w
  <1>2. UpTo(price, w) \subseteq Below(price, v)
    BY <1>1 DEF UpTo, Below, IsBag
  <1>3. IsFiniteSet(Below(price, v)) /\ Cardinality(Below(price, v)) \in Nat
        /\ Cardinality(UpTo(price, w)) \in Nat
    BY BagCounts
  <1>4. Cardinality(UpTo(price, w)) <= Cardinality(Below(price, v))
    BY <1>2, <1>3, FS_Subset
  <1>5. \A a, b, c, d \in Int : a < c /\ b >= d /\ b <= a /\ c <= d => FALSE
    OBVIOUS
  <1>6. Cardinality(DOMAIN price) \in Nat
    BY BagCounts
  <1> QED
    BY <1>1, <1>3, <1>4, <1>5, <1>6

\* The quartiles of four prices or more are numbers, in order, and no less than
\* the least price.
LEMMA Quartiles ==
  ASSUME NEW price, IsBag(price), Cardinality(DOMAIN price) >= 4
  PROVE  /\ Percentile(price, 1) \in Int /\ Percentile(price, 3) \in Int
         /\ Percentile(price, 1) <= Percentile(price, 3)
         /\ 4 * Ranked(price, 1) <= Percentile(price, 1)
PROOF
  <1> DEFINE N  == Cardinality(DOMAIN price)
             a1 == (N - 1) \div 4 + 1
             w1 == (N - 1) % 4
             a3 == (3 * (N - 1)) \div 4 + 1
             w3 == (3 * (N - 1)) % 4
  <1>1. N \in Nat /\ N >= 4
    BY BagCounts
  <1> HIDE DEF N
  <1>2. a1 \in 1..N /\ a1 + 1 \in 1..N /\ w1 \in 0..3 /\ a3 \in 1..N /\ w3 \in 0..3 /\ a1 + 1 <= a3
    BY <1>1
  <1>3. w3 # 0 => a3 + 1 \in 1..N
    BY <1>1
  <1> DEFINE R(k) == Ranked(price, k)
  <1>4. \A k \in 1..N : R(k) \in Int
    BY RankedIs DEF N
  <1>5. \A j, k \in 1..N : j <= k => R(j) <= R(k)
    BY RankedInOrder DEF N
  <1>6. /\ Percentile(price, 1) = 4 * R(a1) + (IF w1 = 0 THEN 0 ELSE w1 * (R(a1 + 1) - R(a1)))
        /\ Percentile(price, 3) = 4 * R(a3) + (IF w3 = 0 THEN 0 ELSE w3 * (R(a3 + 1) - R(a3)))
    <2>1. 1 * (N - 1) = N - 1 /\ \A k \in Int : k + 2 = (k + 1) + 1
      BY <1>1
    <2> DEFINE p1 == (N - 1) \div 4
               p3 == (3 * (N - 1)) \div 4
    <2>2. p1 \in Int /\ p3 \in Int
      BY <1>1
    <2>3. p1 + 2 = (p1 + 1) + 1 /\ p3 + 2 = (p3 + 1) + 1
      BY <2>1, <2>2
    <2> QED
      BY <2>1, <2>3 DEF Percentile, N
  <1>7. 1 \in 1..N /\ 1 <= a1
    BY <1>1, <1>2
  <1> HIDE DEF R, a1, a3, w1, w3
  <1>8. /\ R(a1) \in Int /\ R(a1 + 1) \in Int /\ R(a3) \in Int /\ R(1) \in Int
        /\ R(a1) <= R(a1 + 1) /\ R(a1 + 1) <= R(a3) /\ R(1) <= R(a1)
    <2>1. a1 \in Int /\ a1 <= a1 + 1
      BY <1>2
    <2> QED
      BY <1>2, <1>4, <1>5, <1>7, <2>1
  <1>9. w3 # 0 => R(a3 + 1) \in Int /\ R(a3) <= R(a3 + 1)
    <2>1. a3 \in Int /\ a3 <= a3 + 1
      BY <1>2
    <2> QED
      BY <1>2, <1>3, <1>4, <1>5, <2>1
  <1>10. \A x, y \in Int, w \in 0..3 : x <= y => /\ w * (y - x) \in Int
                                                /\ 4 * x <= 4 * x + w * (y - x)
                                                /\ 4 * x + w * (y - x) <= 4 * y
    <2> TAKE x, y \in Int, w \in 0..3
    <2>1. w = 0 \/ w = 1 \/ w = 2 \/ w = 3
      OBVIOUS
    <2> QED
      BY <2>1
  <1> DEFINE i1 == IF w1 = 0 THEN 0 ELSE w1 * (R(a1 + 1) - R(a1))
             i3 == IF w3 = 0 THEN 0 ELSE w3 * (R(a3 + 1) - R(a3))
  <1>11. i1 \in Int /\ 4 * R(a1) <= 4 * R(a1) + i1 /\ 4 * R(a1) + i1 <= 4 * R(a1 + 1)
    <2>1. CASE w1 = 0
      BY <1>8, <2>1
    <2>2. CASE w1 # 0
      BY <1>2, <1>8, <1>10, <2>2
    <2> QED
      BY <2>1, <2>2
  <1>12. i3 \in Int /\ 4 * R(a3) <= 4 * R(a3) + i3
    <2>1. CASE w3 = 0
      BY <1>8, <2>1
    <2>2. CASE w3 # 0
      BY <1>2, <1>8, <1>9, <1>10, <2>2
    <2> QED
      BY <2>1, <2>2
  <1>13. Percentile(price, 1) = 4 * R(a1) + i1 /\ Percentile(price, 3) = 4 * R(a3) + i3
    BY <1>6
  <1> HIDE DEF i1, i3
  <1>14. /\ 4 * R(a1) + i1 \in Int /\ 4 * R(a3) + i3 \in Int
         /\ 4 * R(a1) + i1 <= 4 * R(a3) + i3
         /\ 4 * R(1) <= 4 * R(a1) + i1
    BY <1>8, <1>11, <1>12
  <1> QED
    BY <1>13, <1>14 DEF R

\* winsorise leaves a price between the fences, and above nothing where every
\* price of its cell-day is.
LEMMA WinsorisedWithin ==
  ASSUME NEW price, IsBag(price), NEW fare \in Int
  PROVE  /\ Winsorised(fare, price) \in Int
         /\ Cardinality(DOMAIN price) >= 4 =>
              /\ Fences(price).low <= Winsorised(fare, price)
              /\ Winsorised(fare, price) <= Fences(price).high
         /\ fare > 0 /\ (\A i \in DOMAIN price : price[i] > 0) => Winsorised(fare, price) > 0
PROOF
  <1>1. CASE ~(Cardinality(DOMAIN price) >= 4)
    BY <1>1 DEF Winsorised, Beyond
  <1>2. CASE Cardinality(DOMAIN price) >= 4
    <2> DEFINE q1 == Percentile(price, 1)
               q3 == Percentile(price, 3)
               least == Ranked(price, 1)
    <2>1. q1 \in Int /\ q3 \in Int /\ q1 <= q3 /\ 4 * least <= q1
      BY <1>2, Quartiles
    <2>2. least \in {price[i] : i \in DOMAIN price}
      <3>1. 1 \in 1..Cardinality(DOMAIN price)
        BY BagCounts
      <3> QED
        BY <3>1, RankedIs
    <2> DEFINE low  == q1 - TukeyK * (q3 - q1)
               high == q3 + TukeyK * (q3 - q1)
    <2>3. Fences(price).low = low /\ Fences(price).high = high
      BY DEF Fences
    <2> HIDE DEF q1, q3, least
    <2>4. TukeyK * (q3 - q1) \in Nat
      <3>1. q3 - q1 \in Nat /\ TukeyK \in Nat
        BY <2>1, CleaningAssumption
      <3>2. \A a, b \in Nat : a * b \in Nat
        OBVIOUS
      <3> QED
        BY <3>1, <3>2
    <2>5. low \in Int /\ high \in Int /\ low <= high /\ q3 <= high
      <3> DEFINE d == TukeyK * (q3 - q1)
      <3> HIDE DEF d
      <3>1. d \in Nat
        BY <2>4 DEF d
      <3>2. q1 - d \in Int /\ q3 + d \in Int /\ q1 - d <= q3 + d /\ q3 <= q3 + d
        BY <2>1, <3>1
      <3> QED
        BY <3>2 DEF d
    <2>6. Winsorised(fare, price)
            = IF ~(4 * fare < low \/ 4 * fare > high) THEN 4 * fare
              ELSE IF 4 * fare < low THEN low ELSE high
      BY <1>2, <2>3 DEF Winsorised, Beyond
    <2> HIDE DEF low, high
    <2>7. Winsorised(fare, price) \in Int /\ low <= Winsorised(fare, price)
            /\ Winsorised(fare, price) <= high
      BY <2>5, <2>6
    <2>8. ASSUME fare > 0, \A i \in DOMAIN price : price[i] > 0
          PROVE  Winsorised(fare, price) > 0
      <3>1. least > 0 /\ least \in Int
        BY <2>2, <2>8 DEF IsBag
      <3>2. high > 0
        BY <2>1, <2>5, <3>1
      <3> QED
        BY <2>5, <2>6, <2>8, <3>2
    <2> QED
      BY <2>3, <2>7, <2>8
  <1> QED
    BY <1>1, <1>2

-----------------------------------------------------------------------------
(* Prices, and the quotes of a day.                                        *)

\* Stored observations, and that none has a fare of zero.
Stored(rows) == IsFiniteSet(rows) /\ \A r \in rows : IsObservation(r)
Priced(rows) == Stored(rows) /\ \A r \in rows : r.fare > 0

\* A price is a number, and above zero where no fare is zero: _prepare then
\* drops nothing.
LEMMA PriceIs ==
  ASSUME NEW rows, Stored(rows), NEW r \in rows
  PROVE  Price(rows, r) \in Int /\ (Priced(rows) => Price(rows, r) > 0)
PROOF
  <1> DEFINE S == CellDay(rows, r)
             price == Prices(S)
  <1>1. S \in SUBSET rows /\ r \in S
    BY DEF CellDay
  <1>2. IsFiniteSet(S)
    BY <1>1, FS_Subset DEF Stored
  <1> HIDE DEF S
  <1>3. DOMAIN price = S /\ \A q \in S : price[q] = q.fare /\ q.fare \in Int
    BY <1>1 DEF Prices, Stored, IsObservation
  <1>4. IsBag(price) /\ r.fare \in Int
    BY <1>1, <1>2, <1>3 DEF IsBag
  <1>5. Priced(rows) => r.fare > 0 /\ \A q \in DOMAIN price : price[q] > 0
    BY <1>1, <1>3 DEF Priced
  <1> HIDE DEF price
  <1> QED
    BY <1>4, <1>5, WinsorisedWithin DEF Price, price, S

\* What S, of observations or of quotes, holds of day t, and its products.
OnDay(S, t)   == {q \in S : q.day = t}
GoodOn(S, t)  == {q \in S : q.day = t /\ Good(q)}
ProductsOf(S) == {q.product : q \in S}

\* The quotes of a day: one for each good observation of it.
QuotesOn(rows, t) ==
  {QuoteOf(r, Price(rows, r)) : r \in GoodOn(rows, t)}

LEMMA CleanOnDay ==
  ASSUME NEW rows, NEW today, NEW fresh, NEW t, Priced(rows),
         \A r \in rows : ~Stale(r, today, fresh)
  PROVE  OnDay(CleanObservations(rows, today, fresh), t) = QuotesOn(rows, t)
PROOF
  <1> DEFINE Kept == {q \in rows : /\ PublicationDisposition(Flags(rows, q, today, fresh))
                                          \in {"ACCEPTED", "WINSORISED"}
                                   /\ Price(rows, q) > 0}
  <1>1. Kept = {q \in rows : Good(q)}
    <2>1. \A q \in rows : q.soldOut \in BOOLEAN /\ Price(rows, q) > 0
      BY PriceIs DEF Priced, Stored, IsObservation
    <2> QED
      BY <2>1, KeptIsGood
  <1>2. \A r : QuoteOf(r, Price(rows, r)).day = r.day
    BY DEF QuoteOf
  <1>3. CleanObservations(rows, today, fresh) = {QuoteOf(r, Price(rows, r)) : r \in Kept}
    BY DEF CleanObservations
  <1>4. QuotesOn(rows, t) = {QuoteOf(r, Price(rows, r)) : r \in {q \in rows : q.day = t /\ Good(q)}}
    BY DEF QuotesOn, GoodOn
  <1> HIDE DEF Kept
  <1> QED
    BY <1>1, <1>2, <1>3, <1>4 DEF OnDay

\* The fences of an observation are those of its own day, so observations of
\* other days change no quote of this one.
LEMMA DaysApart ==
  ASSUME NEW rows, NEW more, NEW t, \A r \in more : r.day # t
  PROVE  QuotesOn(rows \union more, t) = QuotesOn(rows, t)
PROOF
  <1>1. GoodOn(rows \union more, t) = GoodOn(rows, t)
    BY DEF GoodOn
  <1>2. \A r : r.day = t => CellDay(rows \union more, r) = CellDay(rows, r)
    BY DEF CellDay
  <1>3. \A r \in GoodOn(rows, t) : QuoteOf(r, Price(rows \union more, r)) = QuoteOf(r, Price(rows, r))
    BY <1>2 DEF GoodOn, Price
  <1> QED
    BY <1>1, <1>3 DEF QuotesOn

\* What is quoted of a day: its good observations' products.
LEMMA QuotedProducts ==
  ASSUME NEW rows, NEW t
  PROVE  ProductsOf(QuotesOn(rows, t)) = ProductsOf(GoodOn(rows, t))
PROOF
  <1>1. QuotesOn(rows, t) = {QuoteOf(r, Price(rows, r)) : r \in GoodOn(rows, t)}
    BY DEF QuotesOn
  <1>2. \A r : QuoteOf(r, Price(rows, r)).product = r.product
    BY DEF QuoteOf
  <1> QED
    BY <1>1, <1>2 DEF ProductsOf

-----------------------------------------------------------------------------
(* The prepared panel on the booking basis.                                *)

\* Sellers become one price: a period has as many products as were quoted.
LEMMA PreparedOnDay ==
  ASSUME NEW Q, NEW m, m.basis = "book", NEW t
  PROVE  /\ Periods(Prepared(Q, m)) = {q.day : q \in Q}
         /\ ProductsOf(At(Prepared(Q, m), t)) = ProductsOf(OnDay(Q, t))
PROOF
  <1>1. \A q : Period(q, m) = q.day
    BY DEF Period
  <1> DEFINE Paid(q) == MeanOf([r \in {s \in Q : Period(s, m) = Period(q, m) /\ s.product = q.product}
                                   |-> r.fare])
             One(q) == [period |-> q.day, product |-> q.product, fare |-> Paid(q)]
  <1>2. Prepared(Q, m) = {One(q) : q \in Q}
    BY <1>1 DEF Prepared
  <1>3. \A q : One(q).period = q.day /\ One(q).product = q.product
    OBVIOUS
  <1> HIDE DEF One
  <1>4. Periods(Prepared(Q, m)) = {q.day : q \in Q}
    BY <1>2, <1>3 DEF Periods
  <1>5. ProductsOf(At(Prepared(Q, m), t)) = ProductsOf(OnDay(Q, t))
    BY <1>2, <1>3 DEF At, OnDay, ProductsOf
  <1> QED
    BY <1>4, <1>5

-----------------------------------------------------------------------------
(* The base period.                                                        *)

WindowsOf(S)    == {p.apw : p \in S}
WindowsAt(P, t) == WindowsOf(ProductsOf(At(P, t)))

\* Where some period has every lead window there is, the base is the earliest
\* period that has.
LEMMA BaseIsFull ==
  ASSUME NEW P, NEW m, m.pinned = Unpinned, Periods(P) \subseteq Nat,
         NEW all, IsFiniteSet(all), \A t : WindowsAt(P, t) \subseteq all,
         NEW b \in Periods(P), WindowsAt(P, b) = all
  PROVE  ChooseBase(P, m) = Min({t \in Periods(P) : WindowsAt(P, t) = all})
PROOF
  <1> DEFINE Count(t) == Cardinality(WindowsAt(P, t))
             Counts   == {Count(t) : t \in Periods(P)}
  <1>1. \A t : Count(t) \in Nat /\ Count(t) <= Cardinality(all)
               /\ (Count(t) = Cardinality(all) <=> WindowsAt(P, t) = all)
    <2> TAKE t
    <2>1. WindowsAt(P, t) \in SUBSET all
      OBVIOUS
    <2>2. IsFiniteSet(WindowsAt(P, t))
      BY <2>1, FS_Subset
    <2> QED
      BY <2>1, <2>2, FS_Subset, FS_CardinalityType
  <1>2. Cardinality(all) \in Nat
    BY FS_CardinalityType
  <1>3. ChooseBase(P, m) = Min({t \in Periods(P) : Count(t) = Max(Counts)})
    <2>1. \A t : {q.product.apw : q \in At(P, t)} = WindowsAt(P, t)
      BY DEF WindowsAt, WindowsOf, ProductsOf
    <2> QED
      BY <2>1 DEF ChooseBase
  <1> HIDE DEF Count
  <1>4. Cardinality(all) \in Counts /\ Counts \subseteq Nat
    BY <1>1, <1>2
  <1>5. \A y \in Counts : y <= Cardinality(all)
    BY <1>1
  <1>6. Max(Counts) = Cardinality(all)
    <2> HIDE DEF Counts
    <2>1. Max(Counts) \in Counts /\ \A y \in Counts : y <= Max(Counts)
      BY <1>2, <1>4, <1>5, GreatestIsMax
    <2>2. Max(Counts) \in Nat /\ Max(Counts) <= Cardinality(all) /\ Cardinality(all) <= Max(Counts)
      BY <1>4, <1>5, <2>1
    <2> QED
      BY <1>2, <2>2
  <1>7. {t \in Periods(P) : Count(t) = Cardinality(all)} = {t \in Periods(P) : WindowsAt(P, t) = all}
    BY <1>1
  <1> QED
    BY <1>3, <1>6, <1>7

\* A base that has every lead window stays when only later periods change.
LEMMA BaseUnmoved ==
  ASSUME NEW P, NEW R, NEW m, m.pinned = Unpinned, P # {},
         Periods(P) \subseteq Periods(R), Periods(R) \subseteq Nat,
         NEW all, IsFiniteSet(all),
         \A t : WindowsAt(P, t) \subseteq all /\ WindowsAt(R, t) \subseteq all,
         NEW b, b = ChooseBase(P, m), WindowsAt(P, b) = all, WindowsAt(R, b) = all,
         \A t \in Nat : t < b => WindowsAt(R, t) = WindowsAt(P, t)
  PROVE  ChooseBase(R, m) = b
PROOF
  <1> DEFINE Full(Q) == {t \in Periods(Q) : WindowsAt(Q, t) = all}
  <1>1. all # {}
    <2>1. PICK q \in P : TRUE
      OBVIOUS
    <2>2. q.product.apw \in WindowsAt(P, q.period)
      BY <2>1 DEF WindowsAt, WindowsOf, ProductsOf, At
    <2> QED
      BY <2>2
  <1>2. \A Q, t : WindowsAt(Q, t) = all => t \in Periods(Q)
    BY <1>1 DEF WindowsAt, WindowsOf, ProductsOf, At, Periods
  <1>3. b \in Full(P) /\ b \in Full(R)
    BY <1>2
  <1>4. b = Min(Full(P)) /\ ChooseBase(R, m) = Min(Full(R))
    BY <1>3, BaseIsFull
  <1>5. Full(P) \subseteq Nat /\ Full(R) \subseteq Nat
    OBVIOUS
  <1> DEFINE FP == Full(P)
             FR == Full(R)
             c  == Min(FR)
  <1>6. \A t \in FP : b <= t
    <2> HIDE DEF FP
    <2> QED
      BY <1>3, <1>4, <1>5, LeastIsMin DEF FP
  <1>7. c \in FR /\ c <= b
    <2> HIDE DEF FR
    <2> QED
      BY <1>3, <1>5, LeastIsMin DEF FR
  <1>8. ~(c < b)
    <2> SUFFICES ASSUME c < b
                 PROVE  FALSE
      OBVIOUS
    <2>1. c \in Nat /\ WindowsAt(R, c) = all
      BY <1>5, <1>7
    <2>2. c \in FP
      BY <1>2, <2>1
    <2>3. b \in Nat
      BY <1>3, <1>5
    <2> HIDE DEF c
    <2> QED
      BY <1>6, <2>1, <2>2, <2>3
  <1>9. b \in Nat /\ c \in Nat
    BY <1>3, <1>5, <1>7
  <1> HIDE DEF c
  <1> QED
    BY <1>4, <1>7, <1>8, <1>9 DEF c

-----------------------------------------------------------------------------
(* The inductive invariant.                                                *)

\* What is stored was captured on a day that has come.
LedgerTyped ==
  /\ day \in Nat /\ method \in Methods
  /\ IsFiniteSet(ledger)
  /\ \A r \in ledger : IsObservation(r) /\ r.product \in Products
                         /\ r.day \in Days /\ r.day <= day
  /\ ledger # {} => day \in Days

\* The quotes are those of the ledger, and while nothing goes stale and no fare
\* is zero the index served is that of the quotes: a series once computable
\* remains so.
IndexCurrent ==
  /\ quotes = CleanObservations(ledger, day, method.fresh)
  /\ method.basis = "book" /\ AllFresh /\ NoZeroFares =>
       index = IF Computes(Prepared(quotes, method), method)
               THEN Compute(quotes, method) ELSE NoIndex

HistoryInv == LedgerTyped /\ IndexCurrent

LEMMA DayCount == Cardinality(Days) \in Nat /\ Days = 1..Cardinality(Days)
BY HistoryAssumption, FS_CardinalityType

\* A publication adds the observations of one day.
LEMMA LedgerStep ==
  ASSUME LedgerTyped, NEW today \in {day, day + 1} \cap Days,
         NEW batch \in SUBSET Captures[today], Publish(today, batch)
  PROVE  /\ LedgerTyped'
         /\ today \in Days /\ day <= today
         /\ \E more : ledger' = ledger \union more /\ \A r \in more : r.day = today
PROOF
  <1> DEFINE more == UNION batch
  <1>1. IsFiniteSet(more)
    <2>1. IsFiniteSet(batch)
      BY HistoryAssumption, FS_Subset
    <2>2. \A S \in batch : IsFiniteSet(S)
      BY HistoryAssumption
    <2> QED
      BY <2>1, <2>2, FS_UNION
  <1>2. \A r \in more : IsObservation(r) /\ r.day = today /\ r.product \in Products
    BY HistoryAssumption
  <1>3. ledger' = ledger \union more /\ day' = today /\ method' = method
    BY DEF Publish
  <1>4. today \in Nat /\ day <= today /\ day \in Nat
    BY DayCount DEF LedgerTyped
  <1> HIDE DEF more
  <1>5. IsFiniteSet(ledger')
    BY <1>1, <1>3, FS_Union DEF LedgerTyped
  <1>6. \A r \in ledger' : IsObservation(r) /\ r.product \in Products
                             /\ r.day \in Days /\ r.day <= day'
    <2> TAKE r \in ledger'
    <2>1. CASE r \in more
      BY <1>2, <1>3, <1>4, <2>1
    <2>2. CASE r \in ledger
      <3>1. r.day \in Days /\ r.day <= day /\ IsObservation(r) /\ r.product \in Products
        BY <2>2 DEF LedgerTyped
      <3>2. r.day \in Nat
        BY <3>1, DayCount
      <3> QED
        BY <1>3, <1>4, <3>1, <3>2
    <2> QED
      BY <1>3, <2>1, <2>2
  <1>7. LedgerTyped'
    BY <1>3, <1>4, <1>5, <1>6 DEF LedgerTyped
  <1> QED
    BY <1>2, <1>3, <1>4, <1>7

\* What is stored without a fare of zero was so before this publication.
LEMMA PricedLedgers ==
  ASSUME LedgerTyped, NEW today \in {day, day + 1} \cap Days,
         NEW batch \in SUBSET Captures[today], Publish(today, batch), NoZeroFares'
  PROVE  NoZeroFares /\ Priced(ledger) /\ Priced(ledger')
PROOF
  <1>1. LedgerTyped' /\ ledger \subseteq ledger'
    BY LedgerStep
  <1>2. NoZeroFares
    BY <1>1 DEF NoZeroFares
  <1>3. Priced(ledger)
    BY <1>2 DEF LedgerTyped, NoZeroFares, Priced, Stored
  <1>4. Priced(ledger')
    <2> PICK rows : rows = ledger'
      OBVIOUS
    <2>1. IsFiniteSet(rows) /\ \A r \in rows : IsObservation(r) /\ r.fare > 0
      BY <1>1 DEF LedgerTyped, NoZeroFares
    <2> QED
      BY <2>1 DEF Priced, Stored
  <1> QED
    BY <1>2, <1>3, <1>4

\* Where nothing goes stale and no fare is zero the quotes of a day are its good
\* observations.
LEMMA QuotesByDay ==
  ASSUME NEW rows, Priced(rows), \A r \in rows : r.day \in Days,
         NEW today, rows # {} => today \in Days,
         NEW fresh \in Nat, fresh >= Cardinality(Days), NEW t
  PROVE  OnDay(CleanObservations(rows, today, fresh), t) = QuotesOn(rows, t)
PROOF
  <1>1. \A r \in rows : ~Stale(r, today, fresh)
    <2> TAKE r \in rows
    <2>1. r.day \in Days /\ today \in Days
      OBVIOUS
    <2>2. ~(r.day + fresh < today)
      <3> DEFINE n == Cardinality(Days)
                 d == r.day
      <3>1. n \in Nat /\ fresh >= n /\ d \in 1..n /\ today \in 1..n
        BY <2>1, DayCount
      <3> HIDE DEF n, d
      <3>2. ~(d + fresh < today)
        BY <3>1
      <3> QED
        BY <3>2 DEF d
    <2> QED
      BY <2>1, <2>2 DEF Stale
  <1> QED
    BY <1>1, CleanOnDay

\* So a publication leaves the quotes of earlier days as they were, and takes
\* no product of today away.
LEMMA QuotesGrow ==
  ASSUME HistoryInv, AllFresh, NoZeroFares', NEW today \in {day, day + 1} \cap Days,
         NEW batch \in SUBSET Captures[today], Publish(today, batch)
  PROVE  /\ \A t : t # today => OnDay(quotes', t) = OnDay(quotes, t)
         /\ \A t : ProductsOf(OnDay(quotes, t)) \subseteq ProductsOf(OnDay(quotes', t))
PROOF
  <1>1. LedgerTyped'
    BY LedgerStep DEF HistoryInv
  <1>2. PICK more : ledger' = ledger \union more /\ \A r \in more : r.day = today
    BY LedgerStep DEF HistoryInv
  <1>3. quotes = CleanObservations(ledger, day, method.fresh)
    BY DEF HistoryInv, IndexCurrent
  <1>4. Priced(ledger) /\ Priced(ledger')
    BY PricedLedgers DEF HistoryInv
  <1>5. method \in Methods /\ method.fresh \in Nat /\ method' = method
    BY HistoryAssumption DEF HistoryInv, LedgerTyped, Publish
  <1>6. \A t : OnDay(quotes, t) = QuotesOn(ledger, t)
    BY <1>3, <1>4, <1>5, QuotesByDay DEF HistoryInv, LedgerTyped, AllFresh
  <1>7. \A t : OnDay(quotes', t) = QuotesOn(ledger', t)
    <2> PICK rows : rows = ledger'
      OBVIOUS
    <2> PICK fresh \in Nat : fresh = method.fresh
      BY <1>5
    <2>1. Priced(rows) /\ \A r \in rows : r.day \in Days
      BY <1>1, <1>4 DEF LedgerTyped
    <2>2. today \in Days /\ fresh >= Cardinality(Days)
      BY DEF AllFresh
    <2>3. quotes' = CleanObservations(rows, today, fresh)
      BY DEF Publish
    <2>4. \A t : OnDay(CleanObservations(rows, today, fresh), t) = QuotesOn(rows, t)
      BY <2>1, <2>2, QuotesByDay
    <2> QED
      BY <2>3, <2>4
  <1>8. ASSUME NEW t, t # today
        PROVE  OnDay(quotes', t) = OnDay(quotes, t)
    <2>1. \A r \in more : r.day # t
      BY <1>2, <1>8
    <2>2. QuotesOn(ledger \union more, t) = QuotesOn(ledger, t)
      BY <2>1, DaysApart
    <2> QED
      BY <1>2, <1>6, <1>7, <2>2
  <1>9. ASSUME NEW t
        PROVE  ProductsOf(OnDay(quotes, t)) \subseteq ProductsOf(OnDay(quotes', t))
    <2>1. ProductsOf(QuotesOn(ledger, t)) = ProductsOf(GoodOn(ledger, t))
      BY QuotedProducts
    <2>2. ProductsOf(QuotesOn(ledger', t)) = ProductsOf(GoodOn(ledger', t))
      BY QuotedProducts
    <2>3. ProductsOf(GoodOn(ledger, t)) \subseteq ProductsOf(GoodOn(ledger', t))
      BY <1>2 DEF ProductsOf, GoodOn
    <2> QED
      BY <1>6, <1>7, <2>1, <2>2, <2>3
  <1> QED
    BY <1>8, <1>9

\* A step of IndexHistory that publishes, on the booking basis, while nothing
\* goes stale.
FreshStep(today, batch) ==
  /\ HistoryInv /\ AllFresh /\ NoZeroFares' /\ method.basis = "book"
  /\ today \in {day, day + 1} \cap Days
  /\ batch \in SUBSET Captures[today]
  /\ Publish(today, batch)

\* The panel of the new publication against that of the last one.
LEMMA PanelGrows ==
  ASSUME NEW today, NEW batch, FreshStep(today, batch),
         NEW P, P = Prepared(quotes, method), NEW R, R = Prepared(quotes', method)
  PROVE  /\ Periods(P) \subseteq Periods(R)
         /\ \A t : WindowsAt(P, t) \subseteq WindowsAt(R, t)
         /\ \A t : t # today => WindowsAt(R, t) = WindowsAt(P, t)
PROOF
  <1>1. /\ \A t : t # today => OnDay(quotes', t) = OnDay(quotes, t)
        /\ \A t : ProductsOf(OnDay(quotes, t)) \subseteq ProductsOf(OnDay(quotes', t))
    BY QuotesGrow DEF FreshStep
  <1>2. method.basis = "book"
    BY DEF FreshStep
  <1>3. /\ Periods(P) = {q.day : q \in quotes} /\ Periods(R) = {q.day : q \in quotes'}
        /\ \A t : ProductsOf(At(P, t)) = ProductsOf(OnDay(quotes, t))
        /\ \A t : ProductsOf(At(R, t)) = ProductsOf(OnDay(quotes', t))
    BY <1>2, PreparedOnDay
  <1>5. ASSUME NEW t \in Periods(P)
        PROVE  t \in Periods(R)
    <2>1. ProductsOf(OnDay(quotes, t)) # {}
      BY <1>3, <1>5 DEF OnDay, ProductsOf
    <2>2. ProductsOf(OnDay(quotes', t)) # {}
      BY <1>1, <2>1
    <2> QED
      BY <1>3, <2>2 DEF OnDay, ProductsOf
  <1>6. \A t : WindowsAt(P, t) \subseteq WindowsAt(R, t)
    BY <1>1, <1>3 DEF WindowsAt, WindowsOf
  <1>7. \A t : t # today => WindowsAt(R, t) = WindowsAt(P, t)
    BY <1>1, <1>3 DEF WindowsAt
  <1> QED
    BY <1>5, <1>6, <1>7

\* A series that could be computed still can be.
LEMMA ComputesOn ==
  ASSUME NEW today, NEW batch, FreshStep(today, batch),
         Computes(Prepared(quotes, method), method)
  PROVE  Computes(Prepared(quotes', method), method)
PROOF
  <1> PICK P, R : P = Prepared(quotes, method) /\ R = Prepared(quotes', method)
    OBVIOUS
  <1>1. Periods(P) \subseteq Periods(R)
    BY PanelGrows
  <1>2. \A Q : Q # {} <=> Periods(Q) # {}
    BY DEF Periods
  <1> QED
    BY <1>1, <1>2 DEF Computes

LEMMA HistoryInit == Init => HistoryInv
PROOF
  <1> SUFFICES ASSUME Init
               PROVE  HistoryInv
    OBVIOUS
  <1>1. LedgerTyped
    BY FS_EmptySet DEF Init, LedgerTyped
  <1>2. CleanObservations({}, day, method.fresh) = {}
    BY DEF CleanObservations
  <1>3. ~Computes(Prepared({}, method), method)
    BY DEF Prepared, Computes
  <1> QED
    BY <1>1, <1>2, <1>3 DEF Init, HistoryInv, IndexCurrent

LEMMA HistoryNext == HistoryInv /\ [Next]_vars => HistoryInv'
PROOF
  <1> SUFFICES ASSUME HistoryInv, [Next]_vars
               PROVE  HistoryInv'
    OBVIOUS
  <1>1. CASE UNCHANGED vars
    BY <1>1 DEF vars, HistoryInv, LedgerTyped, IndexCurrent, AllFresh, NoZeroFares
  <1>2. ASSUME NEW today \in {day, day + 1} \cap Days, NEW batch \in SUBSET Captures[today],
               Publish(today, batch)
        PROVE  HistoryInv'
    <2>1. LedgerTyped'
      BY <1>2, LedgerStep DEF HistoryInv
    <2>2. quotes' = CleanObservations(ledger', day', method'.fresh) /\ method' = method
      BY <1>2 DEF Publish
    <2>3. ASSUME method.basis = "book", AllFresh, NoZeroFares'
          PROVE  index' = IF Computes(Prepared(quotes', method), method)
                          THEN Compute(quotes', method) ELSE NoIndex
      <3>1. FreshStep(today, batch)
        BY <1>2, <2>3 DEF FreshStep
      <3>2. Computes(Prepared(quotes, method), method)
              => Computes(Prepared(quotes', method), method)
        BY <3>1, ComputesOn
      <3>3. index = IF Computes(Prepared(quotes, method), method)
                    THEN Compute(quotes, method) ELSE NoIndex
        BY <1>2, <2>3, PricedLedgers DEF HistoryInv, IndexCurrent
      <3>4. index' = IF Computes(Prepared(quotes', method), method)
                     THEN Compute(quotes', method) ELSE index
        BY <1>2 DEF Publish
      <3> QED
        BY <3>2, <3>3, <3>4
    <2> QED
      BY <2>1, <2>2, <2>3 DEF HistoryInv, IndexCurrent, AllFresh
  <1> QED
    BY <1>1, <1>2 DEF Next

LEMMA HistoryAlways == Spec => []HistoryInv
PROOF
  <1> QED
    BY HistoryInit, HistoryNext, PTL DEF Spec

-----------------------------------------------------------------------------
(* The chosen base.                                                        *)

LEMMA ComputedCells ==
  ASSUME NEW Q, NEW m, NEW P, P = Prepared(Q, m)
  PROVE  /\ Compute(Q, m).base = ChooseBase(P, m)
         /\ DOMAIN Compute(Q, m).cells = {<<q.period, CellOf(q.product)>> : q \in P}
BY DEF Compute, Smoothed, Cells

\* What can be quoted at all: the windows of the basket, on the days so far.
LEMMA PanelBounds ==
  ASSUME NEW rows, Priced(rows), \A r \in rows : r.product \in Products /\ r.day \in Days,
         NEW today, rows # {} => today \in Days,
         NEW m \in Methods, m.fresh >= Cardinality(Days), m.basis = "book",
         NEW Q, Q = CleanObservations(rows, today, m.fresh), NEW P, P = Prepared(Q, m)
  PROVE  /\ Periods(P) \subseteq {r.day : r \in rows}
         /\ \A t : WindowsAt(P, t) \subseteq WindowsOf(Products)
         /\ \A t : IsFiniteSet(WindowsAt(P, t))
PROOF
  <1>1. m.fresh \in Nat
    BY HistoryAssumption
  <1>2. \A t : OnDay(Q, t) = QuotesOn(rows, t)
    BY <1>1, QuotesByDay
  <1>3. \A t : ProductsOf(OnDay(Q, t)) = ProductsOf(GoodOn(rows, t))
    BY <1>2, QuotedProducts
  <1>4. /\ Periods(P) = {q.day : q \in Q}
        /\ \A t : ProductsOf(At(P, t)) = ProductsOf(OnDay(Q, t))
    BY PreparedOnDay
  <1>5. \A t : WindowsAt(P, t) = WindowsOf(ProductsOf(GoodOn(rows, t)))
    BY <1>3, <1>4 DEF WindowsAt
  <1>6. Periods(P) \subseteq {r.day : r \in rows}
    <2> SUFFICES ASSUME NEW q \in Q
                 PROVE  q.day \in {r.day : r \in rows}
      BY <1>4
    <2>1. q.product \in ProductsOf(OnDay(Q, q.day))
      BY DEF ProductsOf, OnDay
    <2>2. q.product \in ProductsOf(GoodOn(rows, q.day))
      BY <1>3, <2>1
    <2> QED
      BY <2>2 DEF ProductsOf, GoodOn
  <1>7. ASSUME NEW t
        PROVE  WindowsAt(P, t) \subseteq WindowsOf(Products) /\ IsFiniteSet(WindowsAt(P, t))
    <2> PICK S : S = GoodOn(rows, t)
      OBVIOUS
    <2> PICK f : f = [r \in S |-> r.product.apw]
      OBVIOUS
    <2>1. WindowsAt(P, t) = {f[r] : r \in S}
      BY <1>5 DEF WindowsOf, ProductsOf
    <2>2. S \subseteq rows
      BY DEF GoodOn
    <2>3. IsFiniteSet(S)
      BY <2>2, FS_Subset DEF Priced, Stored
    <2>4. IsFiniteSet({f[r] : r \in S})
      BY <2>3, FiniteImage
    <2>5. WindowsAt(P, t) \subseteq WindowsOf(Products)
      BY <2>1, <2>2 DEF WindowsOf
    <2> QED
      BY <2>1, <2>4, <2>5
  <1> QED
    BY <1>6, <1>7

\* The bounds on the panel of the last publication, and of the next one.
LEMMA PanelWindows ==
  ASSUME NEW today, NEW batch, FreshStep(today, batch),
         NEW P, P = Prepared(quotes, method), NEW R, R = Prepared(quotes', method)
  PROVE  /\ Periods(P) \subseteq Nat /\ Periods(R) \subseteq Nat
         /\ \A t \in Periods(P) : t <= today
         /\ \A t : WindowsAt(P, t) \subseteq WindowsOf(Products)
         /\ \A t : WindowsAt(R, t) \subseteq WindowsOf(Products)
         /\ \A t : IsFiniteSet(WindowsAt(P, t))
PROOF
  <1>1. /\ method \in Methods /\ method.fresh >= Cardinality(Days) /\ method.basis = "book"
        /\ today \in Days /\ day <= today
    BY LedgerStep DEF FreshStep, HistoryInv, LedgerTyped, AllFresh
  <1>2. /\ Priced(ledger) /\ \A r \in ledger : r.product \in Products /\ r.day \in Days
        /\ \A r \in ledger : r.day <= day
        /\ ledger # {} => day \in Days
        /\ quotes = CleanObservations(ledger, day, method.fresh)
    BY PricedLedgers DEF FreshStep, HistoryInv, LedgerTyped, IndexCurrent
  <1>3. LedgerTyped'
    BY LedgerStep DEF FreshStep, HistoryInv
  <1> PICK rows : rows = ledger'
    OBVIOUS
  <1>4. /\ Priced(rows) /\ \A r \in rows : r.product \in Products /\ r.day \in Days
        /\ quotes' = CleanObservations(rows, today, method.fresh)
    BY <1>3, PricedLedgers DEF LedgerTyped, HistoryInv, FreshStep, Publish
  <1>5. /\ Periods(P) \subseteq {r.day : r \in ledger}
        /\ \A t : WindowsAt(P, t) \subseteq WindowsOf(Products)
        /\ \A t : IsFiniteSet(WindowsAt(P, t))
    BY <1>1, <1>2, PanelBounds
  <1>6. /\ Periods(R) \subseteq {r.day : r \in rows}
        /\ \A t : WindowsAt(R, t) \subseteq WindowsOf(Products)
    BY <1>1, <1>4, PanelBounds
  <1>7. \A d \in Days : d \in Nat
    BY DayCount
  <1>8. \A t \in Periods(P) : t <= today
    <2> SUFFICES ASSUME NEW r \in ledger
                 PROVE  r.day <= today
      BY <1>5
    <2>1. r.day \in Nat /\ r.day <= day /\ day \in Nat /\ today \in Nat /\ day <= today
      BY <1>1, <1>2, <1>7 DEF FreshStep, HistoryInv, LedgerTyped
    <2> QED
      BY <2>1
  <1> QED
    BY <1>2, <1>4, <1>5, <1>6, <1>7, <1>8

LEMMA QuoteHasWindow ==
  ASSUME NEW P, NEW q \in P
  PROVE  q.product.apw \in WindowsAt(P, q.period)
BY DEF WindowsAt, WindowsOf, ProductsOf, At

LEMMA CellWindows ==
  ASSUME NEW P, NEW K, K = {<<q.period, CellOf(q.product)>> : q \in P}, NEW b
  PROVE  {k[2].apw : k \in {j \in K : j[1] = b}} = WindowsAt(P, b)
PROOF
  <1> DEFINE Seen == {k[2].apw : k \in {j \in K : j[1] = b}}
  <1>1. \A q : CellOf(q.product).apw = q.product.apw
    BY DEF CellOf
  <1>2. ASSUME NEW x \in Seen
        PROVE  x \in WindowsAt(P, b)
    <2>1. PICK q \in P : q.period = b /\ x = CellOf(q.product).apw
      OBVIOUS
    <2> QED
      BY <1>1, <2>1, QuoteHasWindow
  <1>3. ASSUME NEW x \in WindowsAt(P, b)
        PROVE  x \in Seen
    <2>1. PICK q \in P : q.period = b /\ x = q.product.apw
      BY DEF WindowsAt, WindowsOf, ProductsOf, At
    <2>2. <<q.period, CellOf(q.product)>> \in {j \in K : j[1] = b}
      BY <2>1
    <2> QED
      BY <1>1, <2>1, <2>2
  <1> QED
    BY <1>2, <1>3

LEMMA BaseStep ==
  ASSUME HistoryInv, [Next]_vars, method.basis = "book", AllFresh, NoZeroFares',
         {k[2].apw : k \in {j \in DOMAIN index.cells : j[1] = index.base}}
           = {p.apw : p \in Products}
  PROVE  index'.base = index.base
PROOF
  <1>1. CASE UNCHANGED vars
    BY <1>1 DEF vars
  <1>2. ASSUME NEW today \in {day, day + 1} \cap Days, NEW batch \in SUBSET Captures[today],
               Publish(today, batch)
        PROVE  index'.base = index.base
    <2>1. FreshStep(today, batch)
      BY <1>2 DEF FreshStep
    <2> PICK P, R : P = Prepared(quotes, method) /\ R = Prepared(quotes', method)
      OBVIOUS
    <2>2. HistoryInv' /\ AllFresh' /\ method' = method
      BY <1>2, HistoryNext DEF Publish, AllFresh
    <2>3. CASE ~Computes(R, method)
      BY <1>2, <2>3 DEF Publish
    <2>4. CASE ~Computes(P, method) /\ Computes(R, method)
      <3>1. index = NoIndex
        BY <1>2, <2>4, PricedLedgers DEF HistoryInv, IndexCurrent
      <3>2. DOMAIN index.cells = {}
        BY <3>1 DEF NoIndex
      <3>3. Products = {}
        BY <3>2
      <3>4. \A t : WindowsAt(R, t) \subseteq WindowsOf(Products)
        BY <2>1, PanelWindows
      <3>5. WindowsOf(Products) = {}
        BY <3>3 DEF WindowsOf
      <3>6. R = {}
        BY <3>4, <3>5, QuoteHasWindow
      <3> QED
        BY <2>4, <3>6 DEF Computes
    <2>5. CASE Computes(P, method) /\ Computes(R, method)
      <3>1. index = Compute(quotes, method) /\ index' = Compute(quotes', method)
        BY <1>2, <2>5, PricedLedgers DEF HistoryInv, IndexCurrent, Publish
      <3>2. index.base = ChooseBase(P, method) /\ index'.base = ChooseBase(R, method)
        BY <3>1, ComputedCells
      <3>3. CASE method.pinned # Unpinned
        BY <3>2, <3>3 DEF ChooseBase
      <3>4. CASE method.pinned = Unpinned
        <4> PICK b : b = ChooseBase(P, method)
          OBVIOUS
        <4>1. WindowsAt(P, b) = WindowsOf(Products)
          <5>1. DOMAIN index.cells = {<<q.period, CellOf(q.product)>> : q \in P}
            BY <3>1, ComputedCells
          <5>2. {k[2].apw : k \in {j \in DOMAIN index.cells : j[1] = b}} = WindowsAt(P, b)
            BY <5>1, CellWindows
          <5> QED
            BY <3>2, <5>2 DEF WindowsOf
        <4>2. /\ Periods(P) \subseteq Nat /\ Periods(R) \subseteq Nat
              /\ \A t \in Periods(P) : t <= today
              /\ \A t : WindowsAt(P, t) \subseteq WindowsOf(Products)
              /\ \A t : WindowsAt(R, t) \subseteq WindowsOf(Products)
              /\ IsFiniteSet(WindowsOf(Products))
          BY <2>1, <4>1, PanelWindows
        <4>3. /\ Periods(P) \subseteq Periods(R)
              /\ \A t : WindowsAt(P, t) \subseteq WindowsAt(R, t)
              /\ \A t : t # today => WindowsAt(R, t) = WindowsAt(P, t)
          BY <2>1, PanelGrows
        <4>4. WindowsAt(R, b) = WindowsOf(Products)
          <5>1. WindowsAt(P, b) \subseteq WindowsAt(R, b) /\ WindowsAt(R, b) \subseteq WindowsOf(Products)
            BY <4>2, <4>3
          <5> QED
            BY <4>1, <5>1, Zenon
        <4>5. b \in Periods(P)
          <5>1. PICK q \in P : TRUE
            BY <2>5 DEF Computes
          <5>2. q.product.apw \in WindowsAt(P, q.period)
            BY QuoteHasWindow
          <5>3. q.product.apw \in WindowsAt(P, b)
            BY <4>1, <4>2, <5>2
          <5> QED
            BY <5>3 DEF WindowsAt, WindowsOf, ProductsOf, At, Periods
        <4>6. \A t \in Nat : t < b => WindowsAt(R, t) = WindowsAt(P, t)
          BY <4>2, <4>3, <4>5, LedgerStep, DayCount
        <4>7. P # {}
          BY <2>5 DEF Computes
        <4>8. ChooseBase(R, method) = b
          BY <3>4, <4>1, <4>2, <4>3, <4>4, <4>6, <4>7, BaseUnmoved
        <4> QED
          BY <3>2, <4>8
      <3> QED
        BY <3>3, <3>4
    <2> QED
      BY <2>3, <2>4, <2>5
  <1> QED
    BY <1>1, <1>2 DEF Next

\* The base period does not drift: once it carries every lead window of the
\* basket, no observation of a later day moves it, nor one of the same day, and
\* so no published level is rescaled (_choose_base_period).  BaseStays is not an
\* invariant's consequence alone: it compares the panel with the next one, which
\* PanelGrows does under HistoryInv.
THEOREM BaseAlwaysStays == Spec => BaseStays
PROOF
  <1>1. HistoryInv /\ [Next]_vars
          => (method.basis = "book" /\ AllFresh /\ NoZeroFares'
                /\ {k[2].apw : k \in {j \in DOMAIN index.cells : j[1] = index.base}}
                     = {p.apw : p \in Products}
              => index'.base = index.base)
    BY BaseStep
  <1> QED
    BY <1>1, HistoryAlways, PTL DEF Spec, BaseStays

-----------------------------------------------------------------------------
(* The published past.  What the engine makes of a period is followed      *)
(* through its stages: panel, cells, smoothing window, headline.           *)

\* The prices of a period are made of its own quotes.
DayPanel(S, t) ==
  {[period |-> t, product |-> q.product,
    fare |-> MeanOf([r \in {s \in S : s.product = q.product} |-> r.fare])] : q \in S}

LEMMA PanelOnDay ==
  ASSUME NEW Q, NEW m, m.basis = "book", NEW t
  PROVE  At(Prepared(Q, m), t) = DayPanel(OnDay(Q, t), t)
PROOF
  <1> DEFINE Same(q) == {s \in Q : s.day = q.day /\ s.product = q.product}
             One(q)  == [period |-> q.day, product |-> q.product,
                         fare |-> MeanOf([r \in Same(q) |-> r.fare])]
             Two(q)  == [period |-> t, product |-> q.product,
                         fare |-> MeanOf([r \in {s \in OnDay(Q, t) : s.product = q.product} |-> r.fare])]
  <1>1. \A q : Period(q, m) = q.day
    BY DEF Period
  <1>2. Prepared(Q, m) = {One(q) : q \in Q}
    <2> DEFINE Group(q) == {s \in Q : Period(s, m) = Period(q, m) /\ s.product = q.product}
               Made(q)  == [period |-> Period(q, m), product |-> q.product,
                            fare |-> MeanOf([r \in Group(q) |-> r.fare])]
    <2>1. Prepared(Q, m) = {Made(q) : q \in Q}
      BY DEF Prepared
    <2>2. \A q : Group(q) = Same(q)
      BY <1>1
    <2>3. \A q : Made(q) = One(q)
      BY <1>1, <2>2
    <2> HIDE DEF Made, One
    <2> QED
      BY <2>1, <2>3
  <1>3. DayPanel(OnDay(Q, t), t) = {Two(q) : q \in OnDay(Q, t)}
    BY DEF DayPanel
  <1>4. \A q : One(q).period = q.day
    OBVIOUS
  <1>5. ASSUME NEW q \in OnDay(Q, t)
        PROVE  One(q) = Two(q)
    <2>1. Same(q) = {s \in OnDay(Q, t) : s.product = q.product} /\ q.day = t
      BY DEF OnDay
    <2> QED
      BY <2>1
  <1> HIDE DEF One, Two
  <1>6. At(Prepared(Q, m), t) = {One(q) : q \in OnDay(Q, t)}
    BY <1>2, <1>4 DEF At, OnDay
  <1> QED
    BY <1>3, <1>5, <1>6

\* A smoothing window, of a series S at t, half a width h to either side.
SeriesOf(cells, c) == {u \in {k[1] : k \in DOMAIN cells} : <<u, c>> \in DOMAIN cells}
Between(S, t, u)   == {v \in S : (u < v /\ v <= t) \/ (t < v /\ v <= u)}
ReachIn(S, t, h)   == {u \in S : Cardinality(Between(S, t, u)) <= h}

LEMMA ReachIs ==
  ASSUME NEW cells, NEW m, NEW t, NEW c
  PROVE  Reach(cells, m, t, c) = ReachIn(SeriesOf(cells, c), t, m.window \div 2)
BY DEF Reach, ReachIn, Between, SeriesOf

\* A new last entry d outside the window of t changes that window in nothing:
\* it is between t and no earlier entry.
LEMMA WindowStands ==
  ASSUME NEW S, NEW T, T \subseteq Nat, S \subseteq T, NEW d \in Nat, \A u \in T : u <= d,
         \A u \in T : u # d => u \in S, NEW t \in Nat, t < d, NEW h, d \notin ReachIn(T, t, h)
  PROVE  ReachIn(S, t, h) = ReachIn(T, t, h)
PROOF
  <1>1. CASE d \in S
    <2>1. S = T
      BY <1>1
    <2> QED
      BY <2>1
  <1>2. CASE d \notin S
    <2>1. ASSUME NEW u \in S
          PROVE  Between(S, t, u) = Between(T, t, u)
      <3>1. u \in Nat /\ u < d
        BY <1>2, <2>1
      <3>2. d \notin Between(T, t, u)
        BY <3>1 DEF Between
      <3>3. \A v \in T : v = d \/ v \in S
        OBVIOUS
      <3> QED
        BY <3>2, <3>3 DEF Between
    <2>2. ReachIn(S, t, h) = {u \in S : Cardinality(Between(T, t, u)) <= h}
      BY <2>1 DEF ReachIn
    <2>3. \A u \in T : u \in ReachIn(T, t, h) => u \in S
      OBVIOUS
    <2> QED
      BY <2>2, <2>3 DEF ReachIn
  <1> QED
    BY <1>1, <1>2

\* The window of an entry contains that entry.
LEMMA WindowHasItself ==
  ASSUME NEW S, S \subseteq Nat, NEW t \in S, NEW h \in Nat
  PROVE  t \in ReachIn(S, t, h)
PROOF
  <1>1. ASSUME NEW v \in Between(S, t, t)
        PROVE  FALSE
    <2>1. v \in Nat /\ t \in Nat /\ (t < v /\ v <= t)
      BY DEF Between
    <2> QED
      BY <2>1
  <1>2. Between(S, t, t) = {}
    BY <1>1
  <1> QED
    BY <1>2, FS_EmptySet DEF ReachIn

\* The headline of a period is made of its published cells and their levels.
LEMMA HeadlineOf ==
  ASSUME NEW A, NEW B, NEW t, Live(A, t) = Live(B, t),
         \A c \in Live(A, t) : /\ A[<<t, c>>] = B[<<t, c>>]
                               /\ c = [route |-> c.route, carrier |-> c.carrier, apw |-> c.apw]
  PROVE  Headline(A, t) = Headline(B, t)
PROOF
  <1> DEFINE live == Live(A, t)
             Value(X, a, r, k) == Level(X[<<t, [route |-> r, carrier |-> k, apw |-> a]>>].log)
             ByRoute(X, a, r)  == Young(CarrierWeight[r], [k \in CarriersAt(live, a, r) |-> Value(X, a, r, k)])
             ByApw(X, a)       == Young(RouteWeight, [r \in RoutesAt(live, a) |-> ByRoute(X, a, r)])
  <1>1. /\ Headline(A, t) = Young(Omega, [a \in Windows(live) |-> ByApw(A, a)])
        /\ Headline(B, t) = Young(Omega, [a \in Windows(live) |-> ByApw(B, a)])
    BY DEF Headline
  <1>2. \A a, r : \A k \in CarriersAt(live, a, r) : Value(A, a, r, k) = Value(B, a, r, k)
    <2> SUFFICES ASSUME NEW a, NEW r, NEW k \in CarriersAt(live, a, r)
                 PROVE  A[<<t, [route |-> r, carrier |-> k, apw |-> a]>>]
                          = B[<<t, [route |-> r, carrier |-> k, apw |-> a]>>]
      OBVIOUS
    <2>1. PICK c \in live : c.apw = a /\ c.route = r /\ c.carrier = k
      BY DEF CarriersAt
    <2>2. c = [route |-> r, carrier |-> k, apw |-> a]
      BY <2>1
    <2> QED
      BY <2>1, <2>2
  <1> HIDE DEF Value, live
  <1>3. \A a, r : ByRoute(A, a, r) = ByRoute(B, a, r)
    <2> TAKE a, r
    <2>1. [k \in CarriersAt(live, a, r) |-> Value(A, a, r, k)]
            = [k \in CarriersAt(live, a, r) |-> Value(B, a, r, k)]
      BY <1>2
    <2> QED
      BY <2>1
  <1> HIDE DEF ByRoute
  <1>4. \A a : ByApw(A, a) = ByApw(B, a)
    <2> TAKE a
    <2>1. [r \in RoutesAt(live, a) |-> ByRoute(A, a, r)] = [r \in RoutesAt(live, a) |-> ByRoute(B, a, r)]
      BY <1>3
    <2> QED
      BY <2>1
  <1> HIDE DEF ByApw
  <1>5. [a \in Windows(live) |-> ByApw(A, a)] = [a \in Windows(live) |-> ByApw(B, a)]
    BY <1>4
  <1> QED
    BY <1>1, <1>5

\* Without the availability adjustment a cell does not know how many families
\* it shows elsewhere.
LEMMA ReferenceUnused ==
  ASSUME NEW start, NEW group, NEW one, NEW other, NEW m, ~m.availability
  PROVE  Elementary(start, group, one, m) = Elementary(start, group, other, m)
BY DEF Elementary

\* The keys of a panel's cells.
KeysOf(P) == {<<q.period, CellOf(q.product)>> : q \in P}

LEMMA KeysByDay ==
  ASSUME NEW P, NEW t, NEW c
  PROVE  <<t, c>> \in KeysOf(P) <=> \E p \in ProductsOf(At(P, t)) : c = CellOf(p)
PROOF
  <1>1. ASSUME <<t, c>> \in KeysOf(P)
        PROVE  \E p \in ProductsOf(At(P, t)) : c = CellOf(p)
    <2>1. PICK q \in P : <<t, c>> = <<q.period, CellOf(q.product)>>
      BY <1>1 DEF KeysOf
    <2> QED
      BY <2>1 DEF ProductsOf, At
  <1>2. ASSUME NEW p \in ProductsOf(At(P, t)), c = CellOf(p)
        PROVE  <<t, c>> \in KeysOf(P)
    BY <1>2 DEF ProductsOf, At, KeysOf
  <1> QED
    BY <1>1, <1>2

\* A cell depends on the base period's quotes, on its own and, with the
\* adjustment, on its reference.
LEMMA CellStands ==
  ASSUME NEW P, NEW R, NEW m, m.pinned # Unpinned, At(R, m.pinned) = At(P, m.pinned),
         NEW u, NEW c, At(R, u) = At(P, u), <<u, c>> \in KeysOf(P), <<u, c>> \in KeysOf(R),
         m.availability => Reference(R, c) = Reference(P, c)
  PROVE  Cells(R, m)[<<u, c>>] = Cells(P, m)[<<u, c>>]
PROOF
  <1>1. \A Q : <<u, c>> \in KeysOf(Q) =>
          Cells(Q, m)[<<u, c>>] = Elementary(At(Q, m.pinned), CellAt(Q, u, c), Reference(Q, c), m)
    <2> TAKE Q
    <2>1. ChooseBase(Q, m) = m.pinned
      BY DEF ChooseBase
    <2> QED
      BY <2>1 DEF Cells, KeysOf
  <1>2. CellAt(R, u, c) = CellAt(P, u, c)
    BY DEF CellAt
  <1>3. CASE m.availability
    BY <1>1, <1>2, <1>3
  <1>4. CASE ~m.availability
    <2>1. Elementary(At(P, m.pinned), CellAt(P, u, c), Reference(R, c), m)
            = Elementary(At(P, m.pinned), CellAt(P, u, c), Reference(P, c), m)
      BY <1>4, ReferenceUnused
    <2> QED
      BY <1>1, <1>2, <2>1
  <1> QED
    BY <1>3, <1>4

\* A smoothed cell depends on the cells in its window.
LEMMA SmoothedStands ==
  ASSUME NEW A, NEW B, NEW m, NEW t, NEW c,
         <<t, c>> \in DOMAIN A, <<t, c>> \in DOMAIN B, A[<<t, c>>] = B[<<t, c>>],
         Reach(A, m, t, c) = Reach(B, m, t, c),
         \A u \in Reach(A, m, t, c) : A[<<u, c>>] = B[<<u, c>>]
  PROVE  Smoothed(A, m)[<<t, c>>] = Smoothed(B, m)[<<t, c>>]
PROOF
  <1> DEFINE Near(X) == {u \in Reach(X, m, t, c) : X[<<u, c>>].valued}
             Logs(X) == [u \in Near(X) |-> X[<<u, c>>].log]
  <1>1. \A X : <<t, c>> \in DOMAIN X =>
          Smoothed(X, m)[<<t, c>>]
            = IF X[<<t, c>>].valued THEN [X[<<t, c>>] EXCEPT !.log = MeanOf(Logs(X))] ELSE X[<<t, c>>]
    BY DEF Smoothed
  <1>2. Near(A) = Near(B)
    OBVIOUS
  <1>3. Logs(A) = Logs(B)
    BY <1>2
  <1> HIDE DEF Logs
  <1> QED
    BY <1>1, <1>3

\* How many families of a cell are among some products.
FamilyCount(S, c) == Cardinality({p.family : p \in {x \in S : CellOf(x) = c}})

LEMMA FamiliesOf ==
  ASSUME NEW S, NEW c
  PROVE  Families({q \in S : CellOf(q.product) = c}) = FamilyCount(ProductsOf(S), c)
PROOF
  <1>1. {q.product.family : q \in {r \in S : CellOf(r.product) = c}}
          = {p.family : p \in {x \in ProductsOf(S) : CellOf(x) = c}}
    BY DEF ProductsOf
  <1> QED
    BY <1>1 DEF Families, FamilyCount

\* Zeros beside a set of naturals do not change its maximum.
LEMMA MaxWithZeros ==
  ASSUME NEW A, A # {}, NEW B, A \subseteq B, B \subseteq A \union {0},
         NEW n \in Nat, \A x \in A : x \in Nat /\ x <= n
  PROVE  Max(A) = Max(B)
PROOF
  <1>1. /\ A \subseteq Nat /\ B \subseteq Nat /\ B # {}
        /\ \A x \in B : x <= n
    OBVIOUS
  <1>2. Max(A) \in A /\ \A x \in A : x <= Max(A)
    BY <1>1, GreatestIsMax
  <1>3. Max(B) \in B /\ \A x \in B : x <= Max(B)
    BY <1>1, GreatestIsMax
  <1>4. Max(A) <= Max(B) /\ Max(A) \in Nat /\ Max(B) \in Nat
    BY <1>1, <1>2, <1>3
  <1>5. Max(B) <= Max(A)
    <2>1. CASE Max(B) \in A
      BY <1>2, <2>1
    <2>2. CASE Max(B) = 0
      BY <1>4, <2>2
    <2> QED
      BY <1>3, <2>1, <2>2
  <1> QED
    BY <1>4, <1>5

\* The reference of the engine, over the periods there are, is what Widest says
\* of the quotes, over all days.
LEMMA ReferenceIsWidest ==
  ASSUME NEW rows, Priced(rows), \A r \in rows : r.product \in Products /\ r.day \in Days,
         NEW today, rows # {} => today \in Days,
         NEW m \in Methods, m.fresh >= Cardinality(Days), m.basis = "book",
         NEW Q, Q = CleanObservations(rows, today, m.fresh), NEW P, P = Prepared(Q, m),
         P # {}, NEW c
  PROVE  Reference(P, c) = Widest(Q, c)
PROOF
  <1>1. \A t : ProductsOf(OnDay(Q, t)) = ProductsOf(GoodOn(rows, t))
    BY HistoryAssumption, QuotesByDay, QuotedProducts
  <1>2. /\ Periods(P) = {q.day : q \in Q}
        /\ \A t : ProductsOf(At(P, t)) = ProductsOf(OnDay(Q, t))
    BY PreparedOnDay
  <1>3. Periods(P) \subseteq Days
    <2>1. Periods(P) \subseteq {r.day : r \in rows}
      BY PanelBounds
    <2> QED
      BY <2>1
  <1> DEFINE F(t) == FamilyCount(ProductsOf(GoodOn(rows, t)), c)
             A == {F(t) : t \in Periods(P)}
             B == {F(t) : t \in Days}
  <1>4. Reference(P, c) = Max(A)
    <2>1. \A t : Families(CellAt(P, t, c)) = F(t)
      BY <1>1, <1>2, FamiliesOf DEF CellAt
    <2> HIDE DEF F
    <2> QED
      BY <2>1 DEF Reference
  <1>5. Widest(Q, c) = Max(B)
    <2>1. \A t : Families({q \in OnDay(Q, t) : CellOf(q.product) = c}) = F(t)
      BY <1>1, FamiliesOf
    <2>2. \A t : {q \in Q : q.day = t /\ CellOf(q.product) = c}
                   = {q \in OnDay(Q, t) : CellOf(q.product) = c}
      BY DEF OnDay
    <2>3. \A t : Families({q \in Q : q.day = t /\ CellOf(q.product) = c}) = F(t)
      BY <2>1, <2>2
    <2> HIDE DEF F
    <2> QED
      BY <2>3 DEF Widest
  <1>6. \A t : F(t) \in Nat /\ F(t) <= Cardinality(rows)
    <2> TAKE t
    <2> PICK S : S = {r \in GoodOn(rows, t) : CellOf(r.product) = c}
      OBVIOUS
    <2> PICK f : f = [r \in S |-> r.product.family]
      OBVIOUS
    <2>1. {p.family : p \in {x \in ProductsOf(GoodOn(rows, t)) : CellOf(x) = c}} = {f[r] : r \in S}
      BY DEF ProductsOf
    <2>2. S \subseteq rows
      BY DEF GoodOn
    <2>3. IsFiniteSet(rows) /\ IsFiniteSet(S) /\ Cardinality(S) <= Cardinality(rows)
      BY <2>2, FS_Subset DEF Priced, Stored
    <2>4. Cardinality({f[r] : r \in S}) \in Nat /\ Cardinality({f[r] : r \in S}) <= Cardinality(S)
      BY <2>3, FiniteImage
    <2>5. Cardinality(S) \in Nat /\ Cardinality(rows) \in Nat
      BY <2>3, FS_CardinalityType
    <2>6. F(t) = Cardinality({f[r] : r \in S})
      BY <2>1 DEF FamilyCount
    <2> HIDE DEF F
    <2> QED
      BY <2>3, <2>4, <2>5, <2>6
  <1>7. \A t : t \notin Periods(P) => F(t) = 0
    <2> SUFFICES ASSUME NEW t, t \notin Periods(P)
                 PROVE  F(t) = 0
      OBVIOUS
    <2>1. ProductsOf(GoodOn(rows, t)) = {}
      BY <1>1, <1>2 DEF OnDay, ProductsOf
    <2>2. {p.family : p \in {x \in ProductsOf(GoodOn(rows, t)) : CellOf(x) = c}} = {}
      BY <2>1
    <2> QED
      BY <2>2, FS_EmptySet DEF FamilyCount
  <1> HIDE DEF F
  <1>8. A # {} /\ A \subseteq B /\ B \subseteq A \union {0}
    <2>1. Periods(P) # {}
      BY DEF Periods
    <2> QED
      BY <1>3, <1>7, <2>1
  <1>9. Cardinality(rows) \in Nat
    BY FS_CardinalityType DEF Priced, Stored
  <1>10. \A x \in A : x \in Nat /\ x <= Cardinality(rows)
    BY <1>6
  <1> HIDE DEF A, B
  <1>11. Max(A) = Max(B)
    BY <1>8, <1>9, <1>10, MaxWithZeros
  <1> QED
    BY <1>4, <1>5, <1>11

\* What is in the panel is in the basket.
LEMMA PanelProducts ==
  ASSUME HistoryInv, AllFresh, NoZeroFares, method.basis = "book",
         NEW P, P = Prepared(quotes, method), NEW t
  PROVE  ProductsOf(At(P, t)) \subseteq Products
PROOF
  <1>1. /\ method \in Methods /\ method.fresh >= Cardinality(Days)
        /\ Priced(ledger) /\ \A r \in ledger : r.product \in Products /\ r.day \in Days
        /\ ledger # {} => day \in Days
        /\ quotes = CleanObservations(ledger, day, method.fresh)
    BY DEF HistoryInv, LedgerTyped, IndexCurrent, AllFresh, NoZeroFares, Priced, Stored
  <1>2. OnDay(quotes, t) = QuotesOn(ledger, t)
    BY <1>1, HistoryAssumption, QuotesByDay
  <1>3. ProductsOf(At(P, t)) = ProductsOf(GoodOn(ledger, t))
    BY <1>2, PreparedOnDay, QuotedProducts
  <1> QED
    BY <1>1, <1>3 DEF ProductsOf, GoodOn

\* The panel of the new publication, day by day.
LEMMA PanelDays ==
  ASSUME NEW today, NEW batch, FreshStep(today, batch),
         NEW P, P = Prepared(quotes, method), NEW R, R = Prepared(quotes', method)
  PROVE  /\ \A t : t # today => At(R, t) = At(P, t)
         /\ Periods(R) \subseteq Nat /\ \A t \in Periods(R) : t <= today
         /\ KeysOf(P) \subseteq KeysOf(R)
         /\ \A t, c : <<t, c>> \in KeysOf(R) /\ t # today => <<t, c>> \in KeysOf(P)
         /\ P # {} => \A c : Reference(P, c) = Widest(quotes, c)
         /\ R # {} => \A c : Reference(R, c) = Widest(quotes', c)
PROOF
  <1>1. /\ \A t : t # today => OnDay(quotes', t) = OnDay(quotes, t)
        /\ \A t : ProductsOf(OnDay(quotes, t)) \subseteq ProductsOf(OnDay(quotes', t))
    BY QuotesGrow DEF FreshStep
  <1>2. /\ method \in Methods /\ method.fresh >= Cardinality(Days) /\ method.basis = "book"
        /\ today \in Days /\ day <= today
    BY LedgerStep DEF FreshStep, HistoryInv, LedgerTyped, AllFresh
  <1>3. ASSUME NEW t, t # today
        PROVE  At(R, t) = At(P, t)
    <2>1. At(P, t) = DayPanel(OnDay(quotes, t), t) /\ At(R, t) = DayPanel(OnDay(quotes', t), t)
      BY <1>2, PanelOnDay
    <2> QED
      BY <1>1, <1>3, <2>1
  <1>4. /\ \A t : ProductsOf(At(P, t)) = ProductsOf(OnDay(quotes, t))
        /\ \A t : ProductsOf(At(R, t)) = ProductsOf(OnDay(quotes', t))
    BY <1>2, PreparedOnDay
  <1>5. KeysOf(P) \subseteq KeysOf(R)
    <2> SUFFICES ASSUME NEW q \in P
                 PROVE  <<q.period, CellOf(q.product)>> \in KeysOf(R)
      BY DEF KeysOf
    <2>1. q.product \in ProductsOf(At(P, q.period))
      BY DEF ProductsOf, At
    <2>2. q.product \in ProductsOf(At(R, q.period))
      BY <1>1, <1>4, <2>1
    <2> QED
      BY <2>2, KeysByDay
  <1>6. ASSUME NEW t, NEW c, <<t, c>> \in KeysOf(R), t # today
        PROVE  <<t, c>> \in KeysOf(P)
    <2>1. \E p \in ProductsOf(At(R, t)) : c = CellOf(p)
      BY <1>6, KeysByDay
    <2>2. \E p \in ProductsOf(At(P, t)) : c = CellOf(p)
      BY <1>3, <1>6, <2>1
    <2> QED
      BY <2>2, KeysByDay
  <1>7. /\ Priced(ledger) /\ \A r \in ledger : r.product \in Products /\ r.day \in Days
        /\ ledger # {} => day \in Days
        /\ quotes = CleanObservations(ledger, day, method.fresh)
    BY PricedLedgers DEF FreshStep, HistoryInv, LedgerTyped, IndexCurrent
  <1>8. LedgerTyped' /\ day' = today
    BY LedgerStep DEF FreshStep, HistoryInv, Publish
  <1> PICK rows : rows = ledger'
    OBVIOUS
  <1>9. /\ Priced(rows)
        /\ \A r \in rows : r.product \in Products /\ r.day \in Days /\ r.day <= today
        /\ quotes' = CleanObservations(rows, today, method.fresh)
    BY <1>8, PricedLedgers DEF LedgerTyped, HistoryInv, FreshStep, Publish
  <1>10. P # {} => \A c : Reference(P, c) = Widest(quotes, c)
    BY <1>2, <1>7, ReferenceIsWidest
  <1>11. R # {} => \A c : Reference(R, c) = Widest(quotes', c)
    BY <1>2, <1>9, ReferenceIsWidest
  <1>12. Periods(R) \subseteq Nat /\ \A t \in Periods(R) : t <= today
    <2>1. Periods(R) \subseteq {r.day : r \in rows}
      BY <1>2, <1>9, PanelBounds
    <2> QED
      BY <1>9, <2>1, DayCount
  <1> QED
    BY <1>3, <1>5, <1>6, <1>10, <1>11, <1>12

\* A cell of the past, as smoothed, when today is outside its window.
LEMMA PastCellStands ==
  ASSUME NEW today, NEW batch, FreshStep(today, batch),
         NEW P, P = Prepared(quotes, method), NEW R, R = Prepared(quotes', method),
         P # {}, R # {}, method.pinned \notin {Unpinned, today},
         method.availability => \A c \in {CellOf(p) : p \in Products} : Widest(quotes', c) = Widest(quotes, c),
         NEW A, A = Cells(P, method), NEW B, B = Cells(R, method),
         NEW t, t # today, NEW c, <<t, c>> \in KeysOf(P), today \notin Reach(B, method, t, c)
  PROVE  Smoothed(A, method)[<<t, c>>] = Smoothed(B, method)[<<t, c>>]
PROOF
  <1>1. DOMAIN A = KeysOf(P) /\ DOMAIN B = KeysOf(R)
    BY DEF Cells, KeysOf
  <1>2. /\ \A u : u # today => At(R, u) = At(P, u)
        /\ Periods(R) \subseteq Nat /\ \A u \in Periods(R) : u <= today
        /\ KeysOf(P) \subseteq KeysOf(R)
        /\ \A u, d : <<u, d>> \in KeysOf(R) /\ u # today => <<u, d>> \in KeysOf(P)
        /\ \A d : Reference(P, d) = Widest(quotes, d) /\ Reference(R, d) = Widest(quotes', d)
    BY PanelDays
  <1>3. c \in {CellOf(p) : p \in Products}
    <2>1. PICK p \in ProductsOf(At(P, t)) : c = CellOf(p)
      BY KeysByDay
    <2>2. p \in Products
      BY <2>1, PanelProducts, PricedLedgers DEF FreshStep, HistoryInv
    <2> QED
      BY <2>1, <2>2
  <1>4. method.availability => Reference(R, c) = Reference(P, c)
    BY <1>2, <1>3
  <1>5. ASSUME NEW u, u # today, <<u, c>> \in KeysOf(P)
        PROVE  A[<<u, c>>] = B[<<u, c>>]
    BY <1>2, <1>4, <1>5, CellStands
  <1> PICK S, T : S = SeriesOf(A, c) /\ T = SeriesOf(B, c)
    OBVIOUS
  <1>6. (\A u : u \in S <=> <<u, c>> \in KeysOf(P)) /\ (\A u : u \in T <=> <<u, c>> \in KeysOf(R))
    BY <1>1 DEF SeriesOf
  <1>7. \A u : <<u, c>> \in KeysOf(R) => u \in Periods(R)
    BY DEF KeysOf, Periods
  <1>8. S \subseteq T /\ T \subseteq Nat /\ (\A u \in T : u <= today) /\ (\A u \in T : u # today => u \in S)
    BY <1>2, <1>6, <1>7
  <1>9. t \in Nat /\ t < today /\ today \in Nat
    BY <1>2, <1>6, <1>8, LedgerStep, DayCount DEF FreshStep, HistoryInv
  <1> PICK h : h = method.window \div 2
    OBVIOUS
  <1>10. Reach(A, method, t, c) = ReachIn(S, t, h) /\ Reach(B, method, t, c) = ReachIn(T, t, h)
    BY ReachIs
  <1>11. ReachIn(S, t, h) = ReachIn(T, t, h)
    BY <1>8, <1>9, <1>10, WindowStands
  <1>12. \A u \in ReachIn(S, t, h) : u # today /\ <<u, c>> \in KeysOf(P)
    BY <1>6, <1>10, <1>11 DEF ReachIn
  <1>13. \A u \in Reach(A, method, t, c) : A[<<u, c>>] = B[<<u, c>>]
    BY <1>5, <1>10, <1>12
  <1>14. <<t, c>> \in DOMAIN A /\ <<t, c>> \in DOMAIN B
    BY <1>1, <1>2
  <1>15. A[<<t, c>>] = B[<<t, c>>]
    BY <1>5
  <1> QED
    BY <1>10, <1>11, <1>13, <1>14, <1>15, SmoothedStands

\* The action of PastStands.
PastKept ==
  method.basis = "book" /\ AllFresh /\ NoZeroFares' /\ method.pinned \notin {Unpinned, day'}
    /\ (method.availability =>
          \A c \in {CellOf(p) : p \in Products} : Widest(quotes', c) = Widest(quotes, c))
    => \A t \in Published :
         (\A k \in DOMAIN index'.cells :
            k[1] = t => day' \notin Reach(index'.cells, method, t, k[2]))
           => t \in DOMAIN index'.headline /\ index'.headline[t] = index.headline[t]

\* The periods published of a panel and what is published of them.
LEMMA ComputedHeadline ==
  ASSUME NEW Q, NEW m, NEW P, P = Prepared(Q, m), NEW A, A = Smoothed(Cells(P, m), m)
  PROVE  /\ Compute(Q, m).cells = A
         /\ DOMAIN Compute(Q, m).headline = {u \in Periods(P) : Live(A, u) # {}}
         /\ \A t \in DOMAIN Compute(Q, m).headline : Compute(Q, m).headline[t] = Headline(A, t)
BY DEF Compute

LEMMA LiveCells ==
  ASSUME NEW P, NEW cells, DOMAIN cells = KeysOf(P), NEW t, NEW c
  PROVE  c \in Live(cells, t) <=> <<t, c>> \in KeysOf(P) /\ ~cells[<<t, c>>].suppressed
PROOF
  <1>1. ASSUME c \in Live(cells, t)
        PROVE  <<t, c>> \in KeysOf(P) /\ ~cells[<<t, c>>].suppressed
    <2>1. PICK k \in KeysOf(P) : k[1] = t /\ k[2] = c /\ ~cells[k].suppressed
      BY <1>1 DEF Live
    <2>2. k = <<t, c>>
      BY <2>1 DEF KeysOf
    <2> QED
      BY <2>1, <2>2
  <1>2. ASSUME <<t, c>> \in KeysOf(P), ~cells[<<t, c>>].suppressed
        PROVE  c \in Live(cells, t)
    BY <1>2 DEF Live
  <1> QED
    BY <1>1, <1>2

LEMMA PastStep ==
  ASSUME NEW today, NEW batch, FreshStep(today, batch)
  PROVE  PastKept
PROOF
  <1> SUFFICES ASSUME method.pinned \notin {Unpinned, today},
                      method.availability =>
                        \A c \in {CellOf(p) : p \in Products} : Widest(quotes', c) = Widest(quotes, c),
                      NEW t \in Published,
                      \A k \in DOMAIN index'.cells :
                        k[1] = t => today \notin Reach(index'.cells, method, t, k[2])
               PROVE  t \in DOMAIN index'.headline /\ index'.headline[t] = index.headline[t]
    <2>1. day' = today
      BY DEF FreshStep, Publish
    <2> QED
      BY <2>1 DEF PastKept
  <1> PICK P, R : P = Prepared(quotes, method) /\ R = Prepared(quotes', method)
    OBVIOUS
  <1>1. CASE ~Computes(R, method)
    BY <1>1 DEF FreshStep, Publish, Published
  <1>2. CASE ~Computes(P, method)
    <2>1. index = NoIndex
      BY <1>2, PricedLedgers DEF FreshStep, HistoryInv, IndexCurrent
    <2>2. Published = {}
      BY <2>1 DEF Published, NoIndex
    <2> QED
      BY <2>2
  <1>3. CASE Computes(P, method) /\ Computes(R, method)
    <2>1. index = Compute(quotes, method) /\ index' = Compute(quotes', method)
      BY <1>3, PricedLedgers DEF FreshStep, HistoryInv, IndexCurrent, Publish
    <2>2. P # {} /\ R # {}
      BY <1>3 DEF Computes
    <2> PICK A, B : A = Cells(P, method) /\ B = Cells(R, method)
      OBVIOUS
    <2> PICK X, Y : X = Smoothed(A, method) /\ Y = Smoothed(B, method)
      OBVIOUS
    <2>3. /\ DOMAIN A = KeysOf(P) /\ DOMAIN X = KeysOf(P)
          /\ DOMAIN B = KeysOf(R) /\ DOMAIN Y = KeysOf(R)
      BY DEF Cells, KeysOf, Smoothed
    <2>4. /\ index.cells = X /\ index'.cells = Y
          /\ DOMAIN index.headline = {u \in Periods(P) : Live(X, u) # {}}
          /\ DOMAIN index'.headline = {u \in Periods(R) : Live(Y, u) # {}}
          /\ index.headline[t] = Headline(X, t)
          /\ t \in DOMAIN index'.headline => index'.headline[t] = Headline(Y, t)
      BY <2>1, ComputedHeadline DEF Published
    <2>5. \A c : Reach(Y, method, t, c) = Reach(B, method, t, c)
      <3> TAKE c
      <3>1. SeriesOf(Y, c) = SeriesOf(B, c)
        BY <2>3 DEF SeriesOf
      <3> QED
        BY <3>1, ReachIs
    <2>6. /\ Periods(P) \subseteq Periods(R)
          /\ KeysOf(P) \subseteq KeysOf(R) /\ Periods(R) \subseteq Nat
          /\ \A u, d : <<u, d>> \in KeysOf(R) /\ u # today => <<u, d>> \in KeysOf(P)
      BY PanelDays, PanelGrows
    <2>7. t \in Periods(P) /\ Live(X, t) # {}
      BY <2>4 DEF Published
    <2>8. \A c : <<t, c>> \in KeysOf(R) => today \notin Reach(B, method, t, c)
      <3> SUFFICES ASSUME NEW c, <<t, c>> \in KeysOf(R)
                   PROVE  today \notin Reach(B, method, t, c)
        OBVIOUS
      <3>1. <<t, c>> \in DOMAIN index'.cells
        BY <2>3, <2>4
      <3>2. today \notin Reach(Y, method, t, c)
        BY <2>4, <3>1
      <3> QED
        BY <2>5, <3>2
    <2>9. t # today
      <3>1. PICK q \in P : q.period = t
        BY <2>7 DEF Periods
      <3> PICK c : c = CellOf(q.product)
        OBVIOUS
      <3>2. <<t, c>> \in KeysOf(P)
        BY <3>1 DEF KeysOf
      <3> PICK S : S = SeriesOf(B, c)
        OBVIOUS
      <3>3. <<t, c>> \in KeysOf(R)
        BY <2>6, <3>2
      <3>4. t \in S
        BY <2>3, <3>3 DEF SeriesOf
      <3>5. S \subseteq Nat
        BY <2>3, <2>6 DEF SeriesOf, KeysOf, Periods
      <3>6. method.window \div 2 \in Nat
        BY HistoryAssumption DEF FreshStep, HistoryInv, LedgerTyped
      <3>7. t \in ReachIn(S, t, method.window \div 2)
        BY <3>4, <3>5, <3>6, WindowHasItself
      <3> QED
        BY <2>8, <3>3, <3>7, ReachIs
    <2>10. \A c : <<t, c>> \in KeysOf(P) <=> <<t, c>> \in KeysOf(R)
      BY <2>6, <2>9
    <2>11. \A c : <<t, c>> \in KeysOf(P) => X[<<t, c>>] = Y[<<t, c>>]
      BY <2>2, <2>8, <2>9, <2>10, PastCellStands
    <2>13. Live(X, t) = Live(Y, t)
      <3>1. \A c : c \in Live(X, t) <=> <<t, c>> \in KeysOf(P) /\ ~X[<<t, c>>].suppressed
        BY <2>3, LiveCells
      <3>2. \A c : c \in Live(Y, t) <=> <<t, c>> \in KeysOf(R) /\ ~Y[<<t, c>>].suppressed
        BY <2>3, LiveCells
      <3>3. ASSUME NEW c
            PROVE  c \in Live(X, t) <=> c \in Live(Y, t)
        <4>1. <<t, c>> \in KeysOf(P) <=> <<t, c>> \in KeysOf(R)
          BY <2>10
        <4>2. <<t, c>> \in KeysOf(P) => X[<<t, c>>].suppressed = Y[<<t, c>>].suppressed
          BY <2>11
        <4>3. c \in Live(X, t) <=> <<t, c>> \in KeysOf(P) /\ ~X[<<t, c>>].suppressed
          BY <3>1
        <4>4. c \in Live(Y, t) <=> <<t, c>> \in KeysOf(R) /\ ~Y[<<t, c>>].suppressed
          BY <3>2
        <4> QED
          BY <4>1, <4>2, <4>3, <4>4
      <3> QED
        BY <3>3
    <2>14. \A c \in Live(X, t) : /\ <<t, c>> \in KeysOf(P)
                                 /\ c = [route |-> c.route, carrier |-> c.carrier, apw |-> c.apw]
      BY <2>3 DEF Live, KeysOf, CellOf
    <2>15. Headline(X, t) = Headline(Y, t)
      BY <2>11, <2>13, <2>14, HeadlineOf
    <2>16. t \in DOMAIN index'.headline
      BY <2>4, <2>6, <2>7, <2>13
    <2> QED
      BY <2>4, <2>15, <2>16
  <1> QED
    BY <1>1, <1>2, <1>3

\* The published past stands: a publication changes the headline of an earlier
\* period only where the centred window reaches it (_smooth_cells), or where a
\* cell shows more fare families than ever (_cell_indices), as long as the base
\* is pinned to a day that is over.
THEOREM PastAlwaysStands == Spec => PastStands
PROOF
  <1>1. HistoryInv /\ [Next]_vars => [PastKept]_vars
    <2> SUFFICES ASSUME HistoryInv, Next
                 PROVE  PastKept
      OBVIOUS
    <2> PICK today \in {day, day + 1} \cap Days :
               \E batch \in SUBSET Captures[today] : Publish(today, batch)
      BY DEF Next
    <2>1. PICK batch \in SUBSET Captures[today] : Publish(today, batch)
      OBVIOUS
    <2>2. CASE method.basis = "book" /\ AllFresh /\ NoZeroFares'
      BY <2>1, <2>2, PastStep DEF FreshStep
    <2>3. CASE ~(method.basis = "book" /\ AllFresh /\ NoZeroFares')
      BY <2>3 DEF PastKept
    <2> QED
      BY <2>2, <2>3
  <1> QED
    BY <1>1, HistoryAlways, PTL DEF Spec, PastStands, PastKept
=============================================================================
