-------------------------- MODULE ConversionsProofs --------------------------
(***************************************************************************)
(* Proofs about the pure functions.  Every behaviour of Conversions hands  *)
(* over one input and stops, so a property holds for all inputs that       *)
(* satisfy the assumptions on the constants once the operators have it.    *)
(***************************************************************************)
EXTENDS Conversions, CostQueriesProofs

(***************************************************************************)
(* Rounding.                                                               *)
(***************************************************************************)
\* Integer division leaves a remainder below the divisor.
LEMMA DivMod ==
  ASSUME NEW m \in Nat, NEW d \in Nat \ {0}
  PROVE  /\ m \div d \in Nat /\ m % d \in Nat /\ m % d < d
         /\ m = d * (m \div d) + (m % d)
OBVIOUS

\* The absolute value and the sign make up a number.
LEMMA SignMagnitude ==
  ASSUME NEW n \in Int
  PROVE  /\ Magnitude(n) \in Nat /\ Sign(n) \in {-1, 1}
         /\ n = Sign(n) * Magnitude(n)
         /\ Magnitude(-n) = Magnitude(n)
         /\ n # 0 => Sign(-n) = -Sign(n)
BY DEF Magnitude, Sign

\* Half-even rounding (Decimal's default) is odd, off by at most half a step,
\* and exact on a multiple.
LEMMA HalfEven ==
  ASSUME NEW n \in Int, NEW d \in Nat \ {0}
  PROVE  /\ RoundHalfEven(n, d) \in Int
         /\ RoundHalfEven(-n, d) = -RoundHalfEven(n, d)
         /\ 2 * Magnitude(RoundHalfEven(n, d) * d - n) <= d
<1> DEFINE m == Magnitude(n)
           q == m \div d
           r == m % d
           up == 2 * r > d \/ (2 * r = d /\ q % 2 = 1)
           a == IF up THEN q + 1 ELSE q
<1>1. /\ m \in Nat /\ Sign(n) \in {-1, 1} /\ n = Sign(n) * m
      /\ Magnitude(-n) = m /\ (n # 0 => Sign(-n) = -Sign(n))
  BY SignMagnitude
<1>2. q \in Nat /\ r \in Nat /\ r < d /\ m = d * q + r
  BY <1>1, DivMod
<1>3. RoundHalfEven(n, d) = Sign(n) * a
  BY DEF RoundHalfEven
<1>4. RoundHalfEven(-n, d) = Sign(-n) * a
  BY <1>1 DEF RoundHalfEven
<1>5. a \in Nat
  BY <1>2
<1>6. ASSUME n = 0 PROVE a = 0
  <2>1. m = 0
    BY <1>6, <1>1
  <2>2. q = 0 /\ r = 0
    BY <2>1, <1>2
  <2> QED
    BY <2>2
<1>7. 2 * Magnitude(a * d - m) <= d
  <2>1. r * 1 = r /\ q * d \in Nat /\ d * q = q * d /\ (q + 1) * d = q * d + d
    BY <1>2
  <2>2. CASE up
    <3>1. a * d - m = d - r
      BY <2>1, <2>2, <1>2
    <3>2. 2 * r >= d
      BY <2>2, <1>2
    <3> QED
      BY <3>1, <3>2, <1>2 DEF Magnitude
  <2>3. CASE ~up
    <3>1. a * d - m = -r
      BY <2>1, <2>3, <1>2
    <3>2. 2 * r <= d
      BY <2>3, <1>2
    <3> QED
      BY <3>1, <3>2, <1>2 DEF Magnitude
  <2> QED
    BY <2>2, <2>3
<1> HIDE DEF a, m
<1>8. RoundHalfEven(n, d) \in Int
  BY <1>1, <1>3, <1>5
<1>9. RoundHalfEven(-n, d) = -RoundHalfEven(n, d)
  <2>1. CASE n = 0
    BY <2>1, <1>1, <1>3, <1>4, <1>6
  <2>2. CASE n # 0
    BY <2>2, <1>1, <1>3, <1>4, <1>5
  <2> QED
    BY <2>1, <2>2
<1>10. RoundHalfEven(n, d) * d - n = Sign(n) * (a * d - m)
  <2>1. a * d \in Nat
    BY <1>5
  <2>2. CASE Sign(n) = 1
    BY <2>1, <2>2, <1>1, <1>3, <1>5
  <2>3. CASE Sign(n) = -1
    <3>1. (-a) * d = -(a * d)
      BY <1>5
    <3> QED
      BY <2>1, <2>3, <3>1, <1>1, <1>3, <1>5
  <2> QED
    BY <2>2, <2>3, <1>1
<1>11. Magnitude(Sign(n) * (a * d - m)) = Magnitude(a * d - m)
  BY <1>1, <1>5 DEF Magnitude
<1> QED
  BY <1>7, <1>8, <1>9, <1>10, <1>11

LEMMA HalfEvenExact ==
  ASSUME NEW k \in Int, NEW d \in Nat \ {0}
  PROVE  RoundHalfEven(k * d, d) = k
<1> DEFINE x == RoundHalfEven(k * d, d)
<1>1. k * d \in Int
  OBVIOUS
<1>2. x \in Int /\ 2 * Magnitude(x * d - k * d) <= d
  BY <1>1, HalfEven
<1> HIDE DEF x
<1>3. x * d - k * d = (x - k) * d
  BY <1>2
<1>4. ASSUME x # k PROVE FALSE
  <2>1. CASE x - k >= 1
    <3>1. (x - k) * d >= d
      BY <2>1, <1>2
    <3> QED
      BY <3>1, <1>2, <1>3 DEF Magnitude
  <2>2. CASE x - k <= -1
    <3>1. (x - k) * d <= -d
      BY <2>2, <1>2
    <3> QED
      BY <3>1, <1>2, <1>3 DEF Magnitude
  <2> QED
    BY <1>2, <1>4, <2>1, <2>2
<1> QED
  BY <1>4 DEF x

\* ROUND_HALF_UP is off by at most half a step as well.
LEMMA HalfUp ==
  ASSUME NEW n \in Nat, NEW d \in Nat \ {0}
  PROVE  /\ RoundHalfUp(n, d) \in Nat
         /\ 2 * Magnitude(RoundHalfUp(n, d) * d - n) <= d
<1> DEFINE q == n \div d
           r == n % d
           a == IF 2 * r >= d THEN q + 1 ELSE q
<1>1. q \in Nat /\ r \in Nat /\ r < d /\ n = d * q + r
  BY DivMod
<1>2. RoundHalfUp(n, d) = 1 * a
  BY DEF RoundHalfUp, Magnitude, Sign
<1>3. q * d \in Nat /\ d * q = q * d /\ (q + 1) * d = q * d + d
  BY <1>1
<1>4. CASE 2 * r >= d
  <2>1. a * d - n = d - r
    BY <1>1, <1>3, <1>4
  <2> QED
    BY <2>1, <1>1, <1>2, <1>4 DEF Magnitude
<1>5. CASE ~(2 * r >= d)
  <2>1. a * d - n = -r
    BY <1>1, <1>3, <1>5
  <2> QED
    BY <2>1, <1>1, <1>2, <1>5 DEF Magnitude
<1> QED
  BY <1>4, <1>5

(***************************************************************************)
(* What has been handed over.                                              *)
(***************************************************************************)
Handed ==
  \/ input = [case |-> "none", v |-> NoInput]
  \/ \E r \in AzureRows : input = [case |-> "azure", v |-> r]
  \/ \E u \in GcpUsages : input = [case |-> "gcp", v |-> u]
  \/ \E g \in AwsGroups : input = [case |-> "aws", v |-> g]
  \/ \E r \in LlmRows : input = [case |-> "llm", v |-> r]
  \/ \E c \in Costs, s \in Rates : input = [case |-> "convert", v |-> [cost |-> c, rate |-> s]]
  \/ \E t \in EcbTables : input = [case |-> "ecb", v |-> t]
  \/ \E raw \in RawResources : input = [case |-> "resource", v |-> raw]
  \/ \E t \in Tables, w \in Windows \cup {Unset}, e \in Ends :
       input = [case |-> "query", v |-> [rows |-> t, window |-> w, end |-> e]]

\* Every input comes from the set of its case.
LEMMA HandedHolds == Spec => []Handed
<1>1. Init => Handed
  BY DEF Init, Handed
<1>2. Handed /\ [Next]_input => Handed'
  <2>1. Handed /\ UNCHANGED input => Handed'
    BY DEF Handed
  <2>2. Next => Handed'
    BY DEF Next, Handed, Give, GiveAzure, GiveGcp, GiveAws, GiveLlm, GiveCost, GiveEcb,
           GiveResource, GiveQuery
  <2> QED
    BY <2>1, <2>2
<1> QED
  BY <1>1, <1>2, PTL DEF Spec

\* What the case says of the input.
LEMMA CaseOf ==
  ASSUME Handed
  PROVE  /\ Given("azure") => input.v \in AzureRows
         /\ Given("gcp") => input.v \in GcpUsages
         /\ Given("aws") => input.v \in AwsGroups
         /\ Given("llm") => input.v \in LlmRows
         /\ Given("convert") => input.v.cost \in Costs /\ input.v.rate \in Rates
         /\ Given("ecb") => input.v \in EcbTables
         /\ Given("resource") => input.v \in RawResources
         /\ Given("query") => /\ input.v.rows \in Tables /\ input.v.end \in Ends
                             /\ input.v.window \in Windows \cup {Unset}
BY DEF Handed, Given

(***************************************************************************)
(* Money.                                                                  *)
(***************************************************************************)
\* convert_to_usd is odd and, where there is a rate, off by at most half a
\* step.
LEMMA ConvertIsOdd ==
  ASSUME NEW cost \in Int, NEW rates, NEW currency,
         currency \in DOMAIN rates => rates[currency] \in Nat
  PROVE  /\ ConvertToUsd(cost, currency, rates) \in Int
         /\ ConvertToUsd(-cost, currency, rates) = -ConvertToUsd(cost, currency, rates)
         /\ currency # "USD" /\ currency \in DOMAIN rates =>
              2 * Magnitude(ConvertToUsd(cost, currency, rates) * Scale
                              - cost * rates[currency]) <= Scale
<1>1. CASE currency = "USD" \/ currency \notin DOMAIN rates
  BY <1>1 DEF ConvertToUsd
<1>2. CASE currency # "USD" /\ currency \in DOMAIN rates
  <2> DEFINE n == cost * rates[currency]
  <2>1. n \in Int /\ (-cost) * rates[currency] = -n
    BY <1>2
  <2>2. /\ ConvertToUsd(cost, currency, rates) = RoundHalfEven(n, Scale)
        /\ ConvertToUsd(-cost, currency, rates) = RoundHalfEven(-n, Scale)
    BY <1>2, <2>1 DEF ConvertToUsd
  <2> HIDE DEF n
  <2>3. /\ RoundHalfEven(n, Scale) \in Int
        /\ RoundHalfEven(-n, Scale) = -RoundHalfEven(n, Scale)
        /\ 2 * Magnitude(RoundHalfEven(n, Scale) * Scale - n) <= Scale
    BY <2>1, ScaleAssumption, HalfEven
  <2> QED
    BY <2>2, <2>3 DEF n
<1> QED
  BY <1>1, <1>2

\* Whatever rates load_exchange_rates has read, they are rates of the table.
LEMMA LoadedRatesType ==
  ASSUME NEW a \in Nat, NEW b \in Nat,
         NEW rates \in LoadedRates({[currency |-> "XYZ", rate |-> a],
                                    [currency |-> "XYZ", rate |-> b]}),
         "XYZ" \in DOMAIN rates
  PROVE  rates["XYZ"] \in Nat
<1> DEFINE rows == {[currency |-> "XYZ", rate |-> a], [currency |-> "XYZ", rate |-> b]}
           currencies == {r.currency : r \in rows}
           read == {f \in [currencies -> rows] : \A c \in currencies : f[c].currency = c}
           loaded(f) == [c \in currencies \cup {"USD"} |->
                           IF c \in currencies THEN f[c].rate ELSE Scale]
<1>1. rates \in {loaded(f) : f \in read} \cup {[c \in {"USD"} |-> Scale]}
  BY DEF LoadedRates
<1>2. rates # [c \in {"USD"} |-> Scale]
  OBVIOUS
<1>3. PICK f \in read : rates = loaded(f)
  BY <1>1, <1>2
<1>4. "XYZ" \in currencies
  OBVIOUS
<1>5. rates["XYZ"] = f["XYZ"].rate /\ f["XYZ"] \in rows
  BY <1>3, <1>4
<1> QED
  BY <1>5

\* A refund cancels its charge after conversion, for every amount and rate.
THEOREM RefundsCancel == Spec => []RefundCancels
<1>1. Handed => RefundCancels
  <2> SUFFICES ASSUME Handed, Given("convert"),
                      NEW rates \in LoadedRates({[currency |-> "XYZ", rate |-> input.v.rate],
                                             [currency |-> "XYZ", rate |-> input.v.rate + 1]})
               PROVE  LET usd == ConvertToUsd(input.v.cost, "XYZ", rates)
                      IN /\ ConvertToUsd(-input.v.cost, "XYZ", rates) = -usd
                         /\ "XYZ" \in DOMAIN rates =>
                              2 * Magnitude(usd * Scale - input.v.cost * rates["XYZ"]) <= Scale
    BY DEF RefundCancels
  <2>0. input.v.cost \in Costs /\ input.v.rate \in Rates
    BY CaseOf
  <2>1. input.v.cost \in Int /\ input.v.rate \in Nat /\ input.v.rate + 1 \in Nat
    <3>1. input.v.cost \in Int /\ input.v.rate \in Nat
      BY <2>0, AmountsAssumption, Zenon
    <3>2. \A n \in Nat : n + 1 \in Nat
      OBVIOUS
    <3> QED
      BY <3>1, <3>2, Zenon
  <2>2. "XYZ" \in DOMAIN rates => rates["XYZ"] \in Nat
    BY <2>1, LoadedRatesType
  <2>3. "XYZ" # "USD"
    OBVIOUS
  <2> QED
    BY <2>1, <2>2, <2>3, ConvertIsOdd
<1> QED
  BY <1>1, HandedHolds, PTL

\* The stored rates agree with the ECB's table, for every table.
THEOREM RatesConsistent == Spec => []RatesAreConsistent
<1>1. Handed => RatesAreConsistent
  <2> SUFFICES ASSUME Handed, Given("ecb")
               PROVE  RatesAreConsistent
    BY DEF RatesAreConsistent
  <2> DEFINE perEur == input.v
             usd == UsdRates(perEur)
  <2>1. /\ "USD" \in DOMAIN perEur /\ "EUR" \notin DOMAIN perEur
        /\ \A c \in DOMAIN perEur : perEur[c] \in Nat \ {0}
    BY CaseOf, EcbAssumption
  <2>2. usd["USD"] = Scale
    BY <2>1 DEF UsdRates
  <2>3. usd["EUR"] = perEur["USD"]
    BY <2>1 DEF UsdRates
  <2>4. ASSUME NEW c \in DOMAIN perEur
        PROVE  2 * Magnitude(usd[c] * perEur[c] - perEur["USD"] * Scale) <= perEur[c]
    <3>1. perEur[c] \in Nat \ {0} /\ perEur["USD"] \in Nat \ {0} /\ Scale \in Nat \ {0}
      BY <2>1, ScaleAssumption
    <3>2. CASE c = "USD"
      <4>1. usd[c] * perEur[c] - perEur["USD"] * Scale = 0
        BY <2>2, <3>1, <3>2
      <4> QED
        BY <3>1, <4>1 DEF Magnitude
    <3>3. CASE c # "USD"
      <4>1. c # "EUR"
        BY <2>1
      <4>2. usd[c] = RoundHalfUp(perEur["USD"] * Scale, perEur[c])
        BY <3>3, <4>1 DEF UsdRates
      <4>3. perEur["USD"] * Scale \in Nat
        BY <3>1
      <4> QED
        BY <4>2, <4>3, <3>1, HalfUp
    <3> QED
      BY <3>2, <3>3
  <2> QED
    BY <2>2, <2>3, <2>4 DEF RatesAreConsistent
<1> QED
  BY <1>1, HandedHolds, PTL

(***************************************************************************)
(* The rows.                                                               *)
(***************************************************************************)
\* A number or a time is no mark.
LEMMA NoMark ==
  /\ \A n \in Int : n \notin {Null, Empty, Garbage, Naive, Float}
  /\ \A t \in [local : Int, zone : Int \cup {Naive}] : t \notin {Null, Empty, Garbage}
BY MarksAssumption, Zenon

LEMMA AmountType ==
  ASSUME NEW v \in Money
  PROVE  /\ Amount(v) \in Int
         /\ Amount(v) # 0 => Amount(v) = v
         /\ v \in Int => Amount(v) = v
BY NoMark DEF Money, Amount, Absent

\* A time that is read keeps its instant if it has an offset.
LEMMA AwareType ==
  ASSUME NEW t \in [local : Int, zone : Int \cup {Naive}]
  PROVE  /\ Aware(t) \in [local : Int, zone : Int]
         /\ t.zone # Naive => Aware(t) = t
         /\ t.zone = Naive => Aware(t) = [local |-> t.local, zone |-> 0]
         /\ ParseDatetime(t) = Aware(t)
         /\ ~Unparseable(t)
         /\ Instant(Aware(t)) \in Int
<1>1. t \notin {Null, Empty, Garbage}
  BY NoMark
<1>2. t = [local |-> t.local, zone |-> t.zone] /\ t.local \in Int /\ t.zone \in Int \cup {Naive}
  OBVIOUS
<1>3. CASE t.zone = Naive
  <2>1. Aware(t) = [local |-> t.local, zone |-> 0]
    BY <1>2, <1>3 DEF Aware
  <2> QED
    BY <1>1, <1>2, <1>3, <2>1 DEF ParseDatetime, Unparseable, Instant
<1>4. CASE t.zone # Naive
  <2>1. Aware(t) = t
    BY <1>4 DEF Aware
  <2> QED
    BY <1>1, <1>2, <1>4, <2>1 DEF ParseDatetime, Unparseable, Instant
<1> QED
  BY <1>3, <1>4

\* What the two modes of the GCP extractor make of one usage.
LEMMA GcpResults ==
  ASSUME NEW u \in GcpUsages
  PROVE  LET b == NormaliseRow(AsBigQuery(u))
             c == NormalizeCsvRow(AsCsv(u))
         IN /\ Amount(u.cost) \in Int /\ Magnitude(Amount(u.credits)) \in Int
            /\ b.outcome = "good" /\ c.outcome = "good"
            /\ b.project = c.project /\ b.category = c.category /\ b.tags = c.tags
            /\ b.cost = Amount(u.cost) /\ b.original = Amount(u.cost)
            /\ b.discount = Magnitude(Amount(u.credits))
            /\ b.net = Amount(u.cost) - Magnitude(Amount(u.credits))
            /\ c.cost = Amount(u.cost) /\ c.original = Amount(u.cost) /\ c.net = Amount(u.cost)
            /\ Instant(b.start) = Instant(c.start)
            /\ u.zone \in {0, Naive} => b.id = c.id
<1> DEFINE rb == AsBigQuery(u)
           rc == AsCsv(u)
           b == NormaliseRow(rb)
           c == NormalizeCsvRow(rc)
           times == [local : Int, zone : Int \cup {Naive}]
           zoned(t) == [local |-> IF u.zone = Naive THEN t ELSE t + u.zone, zone |-> u.zone]
           utc(t) == [local |-> t, zone |-> 0]
<1>1. /\ u.start \in Int /\ u.zone \in Int \cup {Naive}
      /\ u.cost \in Money /\ u.credits \in Money
  BY TimesAssumption, AmountsAssumption, Zenon
<1>2. Amount(u.cost) \in Int /\ Magnitude(Amount(u.credits)) \in Int
  <2>1. Amount(u.cost) \in Int /\ Amount(u.credits) \in Int
    BY <1>1, AmountType
  <2> QED
    BY <2>1, SignMagnitude
<1>3. ASSUME NEW t \in Int
      PROVE  /\ utc(t) \in times /\ zoned(t) \in times
             /\ ParseDatetime(utc(t)) = utc(t) /\ ~Unparseable(utc(t))
             /\ ~Unparseable(zoned(t))
             /\ Instant(ParseDatetime(zoned(t))) = t
             /\ u.zone \in {0, Naive} => ParseDatetime(zoned(t)) = utc(t)
  <2>1. utc(t) \in times /\ zoned(t) \in times
    BY <1>1
  <2>2. 0 # Naive
    BY NoMark
  <2>3. ParseDatetime(utc(t)) = utc(t) /\ ~Unparseable(utc(t))
    BY <2>1, <2>2, AwareType
  <2>4. /\ ParseDatetime(zoned(t)) = Aware(zoned(t)) /\ ~Unparseable(zoned(t))
        /\ u.zone # Naive => Aware(zoned(t)) = zoned(t)
        /\ u.zone = Naive => Aware(zoned(t)) = [local |-> zoned(t).local, zone |-> 0]
    BY <2>1, AwareType
  <2>5. CASE u.zone = Naive
    BY <2>1, <2>3, <2>4, <2>5 DEF Instant
  <2>6. CASE u.zone # Naive
    BY <1>1, <2>1, <2>3, <2>4, <2>6 DEF Instant
  <2> QED
    BY <2>5, <2>6
<1>4. u.start + 1 \in Int
  BY <1>1
<1>5. /\ rb.usage_start_time = utc(u.start) /\ rb.usage_end_time = utc(u.start + 1)
      /\ rc.usage_start_time = zoned(u.start) /\ rc.usage_end_time = zoned(u.start + 1)
      /\ rb.project_id = u.project /\ rc.project_id = u.project
      /\ rb.service_description = u.service /\ rc.service_description = u.service
      /\ rb.sku_description = u.sku /\ rc.sku_description = u.sku
      /\ rb.labels = u.labels /\ rc.labels = u.labels
      /\ rb.cost = u.cost /\ rc.cost = u.cost /\ rb.discount_amount = u.credits
  BY DEF AsBigQuery, AsCsv
<1> DEFINE pb == ParseDatetime(utc(u.start))
           pc == ParseDatetime(zoned(u.start))
<1>6. /\ ~Unparseable(rb.usage_start_time) /\ ~Unparseable(rb.usage_end_time)
      /\ ~Unparseable(rc.usage_start_time) /\ ~Unparseable(rc.usage_end_time)
  BY <1>1, <1>3, <1>4, <1>5
<1> HIDE DEF rb, rc
<1>7. /\ b.outcome = "good" /\ b.start = pb
      /\ b.id = GcpId(Or(u.project, Empty), pb, Or(u.sku, Empty))
      /\ b.project = Or(ProjectLabel(u.labels), Or(u.project, Empty))
      /\ b.category = GcpCategory(Or(u.service, Empty))
      /\ b.cost = Amount(u.cost) /\ b.original = Amount(u.cost) /\ b.tags = GcpTags(u.labels)
      /\ b.discount = Magnitude(Amount(u.credits))
      /\ b.net = Amount(u.cost) - Magnitude(Amount(u.credits))
  BY <1>5, <1>6 DEF NormaliseRow
<1>8. /\ c.outcome = "good" /\ c.start = pc
      /\ c.id = GcpId(Or(u.project, Empty), pc, Or(u.sku, Empty))
      /\ c.project = Or(ProjectLabel(u.labels), Or(u.project, Empty))
      /\ c.category = GcpCategory(Or(u.service, Empty))
      /\ c.cost = Amount(u.cost) /\ c.original = Amount(u.cost) /\ c.tags = GcpTags(u.labels)
      /\ c.net = Amount(u.cost)
  BY <1>5, <1>6 DEF NormalizeCsvRow
<1> HIDE DEF b, c, pb, pc
<1>9. Instant(b.start) = Instant(c.start)
  <2>1. Instant(pc) = u.start
    BY <1>1, <1>3 DEF pc
  <2>2. Instant(pb) = u.start
    <3>1. pb = utc(u.start)
      BY <1>1, <1>3 DEF pb
    <3>2. \A t \in Int : Instant(utc(t)) = t
      BY DEF Instant
    <3> QED
      BY <1>1, <3>1, <3>2
  <2> QED
    BY <1>7, <1>8, <2>1, <2>2
<1>10. u.zone \in {0, Naive} => b.id = c.id
  BY <1>1, <1>3, <1>7, <1>8 DEF pb, pc
<1>11. b.project = c.project /\ b.category = c.category /\ b.tags = c.tags
  BY <1>7, <1>8
<1> QED
  BY <1>2, <1>7, <1>8, <1>9, <1>10, <1>11 DEF b, c, rb, rc

\* The two modes agree on a usage but for its credits, which are the difference
\* of their net costs, for every usage, with credits or without.
THEOREM GcpModesAgreeUpToCredits == Spec => []GcpModesAgree
<1>1. Handed => GcpModesAgree
  <2> SUFFICES ASSUME Handed, Given("gcp") PROVE GcpModesAgree
    BY DEF GcpModesAgree
  <2> DEFINE u == input.v
             b == NormaliseRow(AsBigQuery(u))
             c == NormalizeCsvRow(AsCsv(u))
             shared == {"outcome", "project", "category", "cost", "original", "tags"}
             credits == Magnitude(Amount(u.credits))
  <2>1. u \in GcpUsages
    BY CaseOf
  <2>2. /\ Amount(u.cost) \in Int /\ credits \in Int
        /\ b.outcome = "good" /\ c.outcome = "good"
        /\ b.project = c.project /\ b.category = c.category /\ b.tags = c.tags
        /\ b.cost = Amount(u.cost) /\ b.original = Amount(u.cost)
        /\ b.net = Amount(u.cost) - credits
        /\ c.cost = Amount(u.cost) /\ c.original = Amount(u.cost) /\ c.net = Amount(u.cost)
        /\ Instant(b.start) = Instant(c.start)
        /\ u.zone \in {0, Naive} => b.id = c.id
    BY <2>1, GcpResults
  <2> HIDE DEF b, c, credits
  <2>3. ASSUME NEW f \in shared PROVE b[f] = c[f]
    BY <2>2
  <2>4. [f \in shared |-> b[f]] = [f \in shared |-> c[f]]
    BY <2>3
  <2>5. c.net - b.net = credits
    BY <2>2
  <2> QED
    BY <2>2, <2>4, <2>5 DEF GcpModesAgree, b, c, credits
<1> QED
  BY <1>1, HandedHolds, PTL

\* transform_row keeps the billed amount of every row it stores.
LEMMA AzureConserves ==
  ASSUME NEW row \in AzureRows
  PROVE  LET billed == IF row.CostInBillingCurrency \in {Null, Empty, 0} THEN row.Cost
                       ELSE row.CostInBillingCurrency
             out == TransformRow(row, [c \in {"USD", "EUR"} |-> IF c = "EUR" THEN 2 * Scale
                                                                ELSE Scale])
         IN CASE out.outcome = "good" ->
                   /\ out.original = Amount(billed)
                   /\ out.cost = out.original * (IF row.Currency = "EUR" THEN 2 ELSE 1)
              [] out.outcome = "skip" -> Garbage \in {row.UsageDate, billed}
                                           \/ row.UsageDate = Empty
              [] OTHER -> row.UsageDate \in {Float, Null}
<1> DEFINE billing == row.CostInBillingCurrency
           billed == IF billing \in {Null, Empty, 0} THEN row.Cost ELSE billing
           rates == [c \in {"USD", "EUR"} |-> IF c = "EUR" THEN 2 * Scale ELSE Scale]
           out == TransformRow(row, rates)
           cost == IF Amount(billing) # 0 \/ billing = Garbage THEN billing ELSE Or(row.Cost, 0)
           currency == Or(row.Currency, "USD")
<1>1. billing \in Money /\ row.Cost \in Money
  BY AmountsAssumption, Zenon
<1>2. 0 \notin {Null, Empty, Garbage} /\ Garbage \notin {Null, Empty}
  BY MarksAssumption
<1>3. /\ cost = Garbage <=> billed = Garbage
      /\ cost # Garbage => cost = Amount(billed) /\ cost \in Int
  <2>1. CASE billing \in {Null, Empty, 0}
    <3>1. Amount(billing) = 0 /\ billing # Garbage
      BY <2>1, <1>2 DEF Amount, Absent
    <3>2. cost = Or(row.Cost, 0) /\ billed = row.Cost
      BY <2>1, <3>1
    <3> QED
      BY <1>1, <1>2, <3>2 DEF Or, Absent, Amount, Money
  <2>2. CASE billing \notin {Null, Empty, 0}
    <3>1. billed = billing
      BY <2>2
    <3>2. CASE billing = Garbage
      BY <3>1, <3>2
    <3>3. CASE billing # Garbage
      <4>1. billing \in Int /\ Amount(billing) = billing
        BY <1>1, <2>2, <3>3 DEF Money, Amount, Absent
      <4> QED
        BY <2>2, <3>1, <3>3, <4>1
    <3> QED
      BY <3>2, <3>3
  <2> QED
    BY <2>1, <2>2
<1> HIDE DEF cost, billed
<1>4. CASE AzureDate(row.UsageDate) = "raise"
  <2>1. out.outcome = "raise" /\ row.UsageDate \in {Float, Null}
    BY <1>4 DEF TransformRow, Raise, AzureDate
  <2> QED
    BY <2>1 DEF billed
<1>5. CASE AzureDate(row.UsageDate) # "raise" /\ (AzureDate(row.UsageDate) = "skip" \/ cost = Garbage)
  <2>1. out.outcome = "skip"
    BY <1>5 DEF TransformRow, Skip, cost
  <2>2. Garbage \in {row.UsageDate, billed} \/ row.UsageDate = Empty
    BY <1>3, <1>5 DEF AzureDate
  <2> QED
    BY <2>1, <2>2 DEF billed
<1>6. CASE /\ AzureDate(row.UsageDate) # "raise"
           /\ ~(AzureDate(row.UsageDate) = "skip" \/ cost = Garbage)
  <2>1. /\ out.outcome = "good" /\ out.original = cost
        /\ out.cost = ConvertToUsd(cost, currency, rates)
    BY <1>6 DEF TransformRow, cost
  <2>2. cost = Amount(billed) /\ cost \in Int
    BY <1>3, <1>6
  <2>3. row.Currency = "EUR" <=> currency = "EUR"
    <3>1. "EUR" \notin {Null, Empty}
      BY MarksAssumption, Zenon
    <3> QED
      BY <3>1 DEF Or, Absent
  <2>4. CASE currency = "EUR"
    <3>1. ConvertToUsd(cost, currency, rates) = RoundHalfEven(cost * (2 * Scale), Scale)
      BY <2>4 DEF ConvertToUsd
    <3>2. cost * (2 * Scale) = (cost * 2) * Scale /\ cost * 2 \in Int
      BY <2>2, ScaleAssumption
    <3>3. RoundHalfEven((cost * 2) * Scale, Scale) = cost * 2
      BY <3>2, ScaleAssumption, HalfEvenExact
    <3> QED
      BY <2>1, <2>2, <2>3, <2>4, <3>1, <3>2, <3>3 DEF billed
  <2>5. CASE currency # "EUR"
    <3>1. ConvertToUsd(cost, currency, rates) = cost
      BY <2>5 DEF ConvertToUsd
    <3>2. cost * 1 = cost
      BY <2>2
    <3> QED
      BY <2>1, <2>2, <2>3, <2>5, <3>1, <3>2 DEF billed
  <2> QED
    BY <2>4, <2>5
<1> QED
  BY <1>4, <1>5, <1>6

\* A row of azure, aws or llm keeps its amount if it is stored, and is dropped only
\* because it cannot be read or identified or is nothing to charge; gcp stores the
\* amount of every usage in both modes, 0 if it cannot be read.  For all rows.
THEOREM RowsKeepTheirAmount == Spec => []RowsAreConserved
<1>1. Handed => RowsAreConserved
  <2> SUFFICES ASSUME Handed PROVE RowsAreConserved
    OBVIOUS
  <2>1. ASSUME Given("aws")
        PROVE  LET out == NormalizeAws(input.v)
               IN CASE out.outcome = "good" -> out.net = input.v.amount
                    [] out.outcome = "skip" -> Amount(input.v.amount) <= 0 \/ input.v.keys = <<>>
                    [] OTHER -> input.v.amount = Null \/ input.v.start \in {Empty, Garbage}
    <3> DEFINE g == input.v
               out == NormalizeAws(g)
    <3>1. g \in AwsGroups
      BY <2>1, CaseOf
    <3>2. g.amount \in Money
      BY <3>1, AmountsAssumption, Zenon
    <3>3. Amount(g.amount) \in Int /\ (Amount(g.amount) # 0 => Amount(g.amount) = g.amount)
      BY <3>2, AmountType
    <3>4. CASE g.keys = <<>> \/ (g.amount # Null /\ ~(Amount(g.amount) > 0))
      <4>1. out.outcome = "skip"
        BY <3>4 DEF NormalizeAws, Skip
      <4> QED
        BY <3>3, <3>4, <4>1
    <3>7. CASE g.keys # <<>> /\ g.amount = Null
      <4>1. out.outcome = "raise"
        BY <3>7 DEF NormalizeAws, Raise
      <4> QED
        BY <3>7, <4>1
    <3>8. Amount(g.amount) > 0 => g.amount # Null
      BY DEF Amount, Absent
    <3>5. CASE g.keys # <<>> /\ Amount(g.amount) > 0 /\ Unparseable(g.start)
      <4>1. out.outcome = "raise"
        BY <3>5, <3>8 DEF NormalizeAws, Raise
      <4> QED
        BY <3>5, <4>1 DEF Unparseable
    <3>6. CASE g.keys # <<>> /\ Amount(g.amount) > 0 /\ ~Unparseable(g.start)
      <4>1. out.outcome = "good" /\ out.net = Amount(g.amount)
        BY <3>6, <3>8 DEF NormalizeAws
      <4> QED
        BY <3>3, <3>6, <4>1
    <3> QED
      BY <3>3, <3>4, <3>5, <3>6, <3>7
  <2>2. ASSUME Given("llm")
        PROVE  LET row == input.v
                   out == NormalizeLlm(row)
               IN CASE out.outcome = "good" -> /\ out.net = row.spend
                                               /\ Instant(out.end) >= Instant(out.start)
                    [] out.outcome = "skip" -> \/ Amount(row.spend) <= 0
                                               \/ row.request_id \in {Null, Empty}
                                               \/ row.startTime \in {Null, Empty, Garbage}
                    [] OTHER -> Garbage \in {row.prompt_tokens, row.completion_tokens,
                                             row.total_tokens}
    <3> DEFINE row == input.v
               out == NormalizeLlm(row)
               times == [local : Int, zone : Int \cup {Naive}]
               unread == Absent \cup {Garbage}
               idle == row.request_id \in Absent \/ ~(Amount(row.spend) > 0)
                         \/ row.startTime \in unread
               broken == Garbage \in {row.prompt_tokens, row.completion_tokens, row.total_tokens}
               end == IF row.endTime \in unread THEN Aware(row.startTime) ELSE Aware(row.endTime)
    <3>1. row \in LlmRows
      BY <2>2, CaseOf
    <3>2. /\ row.spend \in Money
          /\ row.startTime \in times \cup {Null, Empty, Garbage}
          /\ row.endTime \in times \cup {Null, Empty, Garbage}
          /\ row.startTime \in times /\ row.endTime \in times =>
               Instant(Aware(row.startTime)) <= Instant(Aware(row.endTime))
      <4>1. row.spend \in Money
        BY <3>1, AmountsAssumption, Zenon
      <4> QED
        BY <4>1, <3>1, TimesAssumption
    <3>3. /\ Amount(row.spend) \in Int
          /\ Amount(row.spend) # 0 => Amount(row.spend) = row.spend
      BY <3>2, AmountType
    <3>4. CASE idle
      <4>1. out.outcome = "skip"
        BY <3>4 DEF NormalizeLlm, Skip
      <4> QED
        BY <3>3, <3>4, <4>1 DEF Absent
    <3>5. CASE ~idle /\ broken
      <4>1. out.outcome = "raise"
        BY <3>5 DEF NormalizeLlm, Raise
      <4> QED
        BY <3>5, <4>1
    <3>6. CASE ~idle /\ ~broken
      <4>1. /\ out.outcome = "good" /\ out.net = Amount(row.spend)
            /\ out.start = Aware(row.startTime) /\ out.end = end
        BY <3>6 DEF NormalizeLlm
      <4>2. row.startTime \in times
        BY <3>2, <3>6 DEF Absent
      <4>3. Instant(Aware(row.startTime)) \in Int
        BY <4>2, AwareType
      <4>4. Instant(end) >= Instant(Aware(row.startTime))
        <5>1. CASE row.endTime \in unread
          BY <5>1, <4>3
        <5>2. CASE row.endTime \notin unread
          <6>1. row.endTime \in times
            BY <3>2, <5>2 DEF Absent
          <6>2. Instant(Aware(row.endTime)) \in Int
            BY <6>1, AwareType
          <6> QED
            BY <3>2, <4>2, <4>3, <5>2, <6>1, <6>2
        <5> QED
          BY <5>1, <5>2
      <4> QED
        BY <3>3, <3>6, <4>1, <4>4
    <3> QED
      BY <3>4, <3>5, <3>6
  <2>3. ASSUME Given("gcp")
        PROVE  LET b == NormaliseRow(AsBigQuery(input.v))
                   c == NormalizeCsvRow(AsCsv(input.v))
                   billed == IF input.v.cost \in Int THEN input.v.cost ELSE 0
               IN /\ b.outcome = "good" /\ b.cost = billed /\ b.net + b.discount = billed
                  /\ c.outcome = "good" /\ c.cost = billed /\ c.net = billed
    <3> DEFINE u == input.v
               b == NormaliseRow(AsBigQuery(u))
               c == NormalizeCsvRow(AsCsv(u))
               credits == Magnitude(Amount(u.credits))
    <3>1. u \in GcpUsages
      BY <2>3, CaseOf
    <3>2. u.cost \in Money
      BY <3>1, AmountsAssumption, Zenon
    <3>3. (IF u.cost \in Int THEN u.cost ELSE 0) = Amount(u.cost)
      BY <3>2, AmountType DEF Money, Amount, Absent
    <3>4. /\ Amount(u.cost) \in Int /\ credits \in Int
          /\ b.outcome = "good" /\ c.outcome = "good"
          /\ b.cost = Amount(u.cost) /\ b.discount = credits
          /\ b.net = Amount(u.cost) - credits
          /\ c.cost = Amount(u.cost) /\ c.net = Amount(u.cost)
      BY <3>1, GcpResults
    <3> HIDE DEF b, c, credits
    <3>5. b.net + b.discount = Amount(u.cost)
      BY <3>4
    <3> QED
      BY <3>3, <3>4, <3>5 DEF b, c
  <2>4. Given("azure") => input.v \in AzureRows
    BY CaseOf
  <2> QED
    BY <2>1, <2>2, <2>3, <2>4, AzureConserves DEF RowsAreConserved
<1> QED
  BY <1>1, HandedHolds, PTL

(***************************************************************************)
(* Wastage findings.                                                       *)
(***************************************************************************)
Row(raw) == [type |-> raw.type, common |-> Common(raw), detail |-> Detail(raw)]

\* What a scan finds on one resource.
LEMMA FindingsOfOne ==
  ASSUME NEW raw
  PROVE  FindingsIn({raw}) =
           IF Malformed(raw) THEN {}
           ELSE {FindingOf(rule, Row(raw)) : rule \in {u \in Rules : Holds(u, Row(raw))}}
<1>1. Inventory({raw}) = IF Malformed(raw) THEN {} ELSE {Row(raw)}
  BY DEF Inventory, Row
<1> QED
  BY <1>1 DEF FindingsIn

LEMMA RulesOfOne ==
  ASSUME NEW raw
  PROVE  {g.rule : g \in FindingsIn({raw})} =
           IF Malformed(raw) THEN {} ELSE {u \in Rules : Holds(u, Row(raw))}
<1> DEFINE finding(u) == FindingOf(u, Row(raw))
           holding == {u \in Rules : Holds(u, Row(raw))}
<1>1. \A u : finding(u).rule = u
  BY DEF FindingOf
<1>2. FindingsIn({raw}) = IF Malformed(raw) THEN {} ELSE {finding(u) : u \in holding}
  BY FindingsOfOne
<1> HIDE DEF finding, holding
<1>3. {g.rule : g \in {finding(u) : u \in holding}} = holding
  BY <1>1
<1> QED
  BY <1>2, <1>3 DEF holding

\* The normaliser of each type.
LEMMA DetailOf ==
  ASSUME NEW raw
  PROVE  /\ raw.type = "disks" => Detail(raw) = NormalizeDisk(raw)
         /\ raw.type = "public_ips" => Detail(raw) = NormalizePublicIp(raw)
         /\ raw.type = "nics" => Detail(raw) = NormalizeNic(raw)
         /\ raw.type = "snapshots" => Detail(raw) = NormalizeSnapshot(raw)
         /\ raw.type = "vms" => Detail(raw) = NormalizeVm(raw)
         /\ raw.type = "aks" => Detail(raw) = NormalizeAks(raw)
         /\ raw.type = "asps" => Detail(raw) = NormalizeAsp(raw)
         /\ raw.type = "storage_accounts" => Detail(raw) = NormalizeStorage(raw)
         /\ raw.type = "redis" => Detail(raw) = NormalizeRedis(raw)
BY DEF Detail

\* The normalisers read the columns of the type and the common ones.
LEMMA SameColumnsSameRow ==
  ASSUME NEW raw \in RawResources, NEW other,
         other.type = raw.type, other.subscriptionId = raw.subscriptionId,
         other.id[1] = raw.id[1], other.resourceGroup[1] = raw.resourceGroup[1],
         other.location[1] = raw.location[1],
         \A f \in Columns[raw.type] : other[f] = raw[f]
  PROVE  Row(other) = Row(raw) /\ (Malformed(other) <=> Malformed(raw))
<1>1. Common(other) = Common(raw)
  BY DEF Common, Lower
<1>2. raw.type \in DOMAIN Columns
  BY ResourcesAssumption
<1>3. Detail(other) = Detail(raw) /\ (Malformed(other) <=> Malformed(raw))
  <2>1. CASE raw.type = "disks"
    <3>1. other.managedBy = raw.managedBy /\ other.diskSizeGb = raw.diskSizeGb /\ other.sku = raw.sku
      BY <2>1 DEF Columns
    <3> QED
      BY <2>1, <3>1, DetailOf DEF NormalizeDisk, Malformed
  <2>2. CASE raw.type = "public_ips"
    <3>1. other.skuName = raw.skuName /\ other.ipConfiguration = raw.ipConfiguration
      BY <2>2 DEF Columns
    <3> QED
      BY <2>2, <3>1, DetailOf DEF NormalizePublicIp, Malformed
  <2>3. CASE raw.type = "nics"
    <3>1. other.virtualMachine = raw.virtualMachine
      BY <2>3 DEF Columns
    <3> QED
      BY <2>3, <3>1, DetailOf DEF NormalizeNic, Malformed
  <2>4. CASE raw.type = "snapshots"
    <3>1. other.diskSizeGb = raw.diskSizeGb /\ other.sku = raw.sku /\ other.timeCreated = raw.timeCreated
      BY <2>4 DEF Columns
    <3> QED
      BY <2>4, <3>1, DetailOf DEF NormalizeSnapshot, Malformed
  <2>5. CASE raw.type = "vms"
    <3>1. other.vmSize = raw.vmSize /\ other.osDiskId = raw.osDiskId /\ other.dataDisks = raw.dataDisks /\ other.powerState = raw.powerState
      BY <2>5 DEF Columns
    <3> QED
      BY <2>5, <3>1, DetailOf DEF NormalizeVm, Malformed
  <2>6. CASE raw.type = "aks"
    <3>1. other.agentPoolProfiles = raw.agentPoolProfiles
      BY <2>6 DEF Columns
    <3> QED
      BY <2>6, <3>1, DetailOf DEF NormalizeAks, Malformed
  <2>7. CASE raw.type = "asps"
    <3>1. other.skuName = raw.skuName
      BY <2>7 DEF Columns
    <3> QED
      BY <2>7, <3>1, DetailOf DEF NormalizeAsp, Malformed
  <2>8. CASE raw.type = "storage_accounts"
    <3>1. other.kind = raw.kind /\ other.skuName = raw.skuName
      BY <2>8 DEF Columns
    <3> QED
      BY <2>8, <3>1, DetailOf DEF NormalizeStorage, Malformed
  <2>9. CASE raw.type = "redis"
    <3>1. other.skuCapacity = raw.skuCapacity
      BY <2>9 DEF Columns
    <3> QED
      BY <2>9, <3>1, DetailOf DEF NormalizeRedis, Malformed
  <2> QED
    BY <1>2, <2>1, <2>2, <2>3, <2>4, <2>5, <2>6, <2>7, <2>8, <2>9 DEF Columns
<1> QED
  BY <1>1, <1>3 DEF Row

\* A rescan in another spelling finds the same under the same ids, for every
\* resource, catalogue and spelling.
THEOREM RescansFindTheSame == Spec => []RescanFindsTheSame
<1>1. Handed => RescanFindsTheSame
  <2> SUFFICES ASSUME Handed, Given("resource"), NEW s \in Spellings
               PROVE  LET raw == input.v
                          again == [raw EXCEPT !.id[2] = s, !.resourceGroup[2] = s,
                                               !.location[2] = s]
                      IN FindingsIn({again}) = FindingsIn({raw})
    BY DEF RescanFindsTheSame
  <2> DEFINE raw == input.v
             again == [raw EXCEPT !.id[2] = s, !.resourceGroup[2] = s, !.location[2] = s]
             names == {"id", "resourceGroup", "location"}
  <2>1. raw \in RawResources
    BY CaseOf
  <2>2. /\ {"type", "subscriptionId", "id", "resourceGroup", "location"} \subseteq DOMAIN raw
        /\ raw.type \in DOMAIN Columns /\ Columns[raw.type] \subseteq DOMAIN raw
        /\ raw = [f \in DOMAIN raw |-> raw[f]]
        /\ \A f \in names : raw[f] = <<raw[f][1], raw[f][2]>>
    BY <2>1, ResourcesAssumption
  <2>3. \A f \in DOMAIN raw \ names : again[f] = raw[f]
    BY <2>2
  <2>4. \A f \in names : again[f][1] = raw[f][1]
    <3>1. \A f \in names : again[f] = [raw[f] EXCEPT ![2] = s]
      BY <2>2
    <3>2. ASSUME NEW f \in names PROVE again[f][1] = raw[f][1]
      <4> DEFINE x == raw[f][1]
                 y == raw[f][2]
      <4>1. raw[f] = <<x, y>> /\ again[f] = [raw[f] EXCEPT ![2] = s]
        BY <2>2, <3>1
      <4> HIDE DEF x, y
      <4>2. [<<x, y>> EXCEPT ![2] = s][1] = x
        OBVIOUS
      <4> QED
        BY <4>1, <4>2
    <3> QED
      BY <3>2
  <2>5. Columns[raw.type] \cap names = {}
    BY <2>2 DEF Columns
  <2>6. /\ again.type = raw.type /\ again.subscriptionId = raw.subscriptionId
        /\ again.id[1] = raw.id[1] /\ again.resourceGroup[1] = raw.resourceGroup[1]
        /\ again.location[1] = raw.location[1]
        /\ \A f \in Columns[raw.type] : again[f] = raw[f]
    BY <2>2, <2>3, <2>4, <2>5
  <2> HIDE DEF again
  <2>7. Row(again) = Row(raw) /\ (Malformed(again) <=> Malformed(raw))
    BY <2>1, <2>6, SameColumnsSameRow
  <2>8. FindingsIn({again}) = FindingsIn({raw})
    BY <2>7, FindingsOfOne
  <2> QED
    BY <2>8 DEF again
<1> QED
  BY <1>1, HandedHolds, PTL

\* Which rules can hold on a row, by its type.
LEMMA HoldsOf ==
  ASSUME NEW row, NEW u \in Rules, Holds(u, row)
  PROVE  \/ u = "disk.orphan" /\ row.type = "disks" /\ DiskOrphan(row)
         \/ u = "public_ip.unattached" /\ row.type = "public_ips" /\ PublicIpUnattached(row)
         \/ u = "public_ip.basic_sku" /\ row.type = "public_ips" /\ PublicIpBasicSku(row)
         \/ u = "nic.orphan" /\ row.type = "nics"
         \/ u = "snapshot.old" /\ row.type = "snapshots"
         \/ u = "vm.stopped_with_disks" /\ row.type = "vms" /\ VmStoppedWithDisks(row)
         \/ u = "aks.idle_nodepool" /\ row.type = "aks" /\ AksIdleNodepool(row)
         \/ u = "asp.oversized_nonprod" /\ row.type = "asps" /\ AspOversizedNonprod(row)
         \/ u = "storage.legacy_kind" /\ row.type = "storage_accounts" /\ StorageLegacyKind(row)
         \/ u = "storage.ragrs_nonprod" /\ row.type = "storage_accounts" /\ StorageRagrsNonprod(row)
<1>1. \/ u = "disk.orphan" /\ DiskOrphan(row)
      \/ u = "public_ip.unattached" /\ PublicIpUnattached(row)
      \/ u = "public_ip.basic_sku" /\ PublicIpBasicSku(row)
      \/ u = "nic.orphan" /\ NicOrphan(row)
      \/ u = "snapshot.old" /\ SnapshotOld(row)
      \/ u = "vm.stopped_with_disks" /\ VmStoppedWithDisks(row)
      \/ u = "aks.idle_nodepool" /\ AksIdleNodepool(row)
      \/ u = "asp.oversized_nonprod" /\ AspOversizedNonprod(row)
      \/ u = "storage.legacy_kind" /\ StorageLegacyKind(row)
      \/ u = "storage.ragrs_nonprod" /\ StorageRagrsNonprod(row)
  BY DEF Rules, Holds
<1>2. /\ DiskOrphan(row) => row.type = "disks"
      /\ PublicIpUnattached(row) => row.type = "public_ips"
      /\ PublicIpBasicSku(row) => row.type = "public_ips"
      /\ NicOrphan(row) => row.type = "nics"
      /\ SnapshotOld(row) => row.type = "snapshots"
      /\ VmStoppedWithDisks(row) => row.type = "vms"
      /\ AksIdleNodepool(row) => row.type = "aks"
      /\ AspOversizedNonprod(row) => row.type = "asps"
      /\ StorageLegacyKind(row) => row.type = "storage_accounts"
      /\ StorageRagrsNonprod(row) => row.type = "storage_accounts"
  BY DEF DiskOrphan, PublicIpUnattached, PublicIpBasicSku, NicOrphan, SnapshotOld,
         VmStoppedWithDisks, AksIdleNodepool, AspOversizedNonprod, StorageLegacyKind,
         StorageRagrsNonprod
<1> QED
  BY <1>1, <1>2

\* Changing one column of a resource leaves the others and its type.
LEMMA OneColumn ==
  ASSUME NEW raw \in RawResources, NEW field \in Columns[raw.type], NEW fixed,
         \A f \in DOMAIN raw \ {field} : fixed[f] = raw[f]
  PROVE  /\ fixed.type = raw.type
         /\ \A f \in Columns[raw.type] \ {field} : fixed[f] = raw[f]
         /\ Row(fixed).type = raw.type
         /\ Row(fixed).common = Row(raw).common
         /\ Row(fixed).detail = Detail(fixed)
<1> DEFINE common == {"type", "subscriptionId", "id", "resourceGroup", "location"}
<1>1. /\ common \subseteq DOMAIN raw /\ raw.type \in DOMAIN Columns
      /\ Columns[raw.type] \subseteq DOMAIN raw
  BY ResourcesAssumption
<1>2. field \notin common
  BY <1>1 DEF Columns
<1>3. \A f \in common : fixed[f] = raw[f]
  BY <1>1, <1>2
<1>4. Common(fixed) = Common(raw)
  BY <1>3 DEF Common
<1>5. fixed.type = raw.type /\ \A f \in Columns[raw.type] \ {field} : fixed[f] = raw[f]
  BY <1>1, <1>3
<1> QED
  BY <1>4, <1>5 DEF Row

\* The texts a remediation writes are there, and what is missing or empty is none
\* of the texts a rule looks for.
LEMMA PresentTexts ==
  /\ OrElse("vm", Blank) = "vm" /\ "vm" # Blank
  /\ "nic" # Nil
  /\ OrElse("Standard", "Basic") = "Standard"
  /\ Blank \notin {"deallocated", "S1", "S2", "S3", "P1v3", "p1v3", "Storage",
                   "Standard_RAGRS", "Standard_GRS"}
<1>1. {Nil, Blank} \cap
        {"vm", "nic", "Standard", "deallocated", "S1", "S2", "S3", "P1v3", "p1v3",
         "Storage", "Standard_RAGRS", "Standard_GRS"} = {}
  BY ResourcesAssumption, Zenon
<1>2. "vm" \notin {Nil, Blank} /\ "nic" # Nil /\ "Standard" \notin {Nil, Blank}
  BY <1>1
<1>3. Blank \notin {"deallocated", "S1", "S2", "S3", "P1v3", "p1v3", "Storage",
                    "Standard_RAGRS", "Standard_GRS"}
  BY <1>1
<1> QED
  BY <1>2, <1>3 DEF OrElse

\* Following a remediation clears its finding and brings up no other one, for
\* every resource.
THEOREM RemediesClear == Spec => []RemedyClears
<1> DEFINE Ruled(raw) == {u \in Rules : Holds(u, Row(raw))}
           Allowed(rule) == IF rule = "public_ip.basic_sku" THEN {"public_ip.unattached"} ELSE {}
<1>1. ASSUME NEW raw \in RawResources, NEW fixed, NEW rule \in Rules,
             Holds(rule, Row(raw)), Remedied(rule, raw) = {fixed}, 
             \A u \in Rules : Holds(u, Row(fixed)) =>
                u # rule /\ (Holds(u, Row(raw)) \/ u \in Allowed(rule)),
             ~Malformed(raw)
      PROVE  LET before == {g.rule : g \in FindingsIn({raw})}
                 after == {g.rule : g \in FindingsIn(Remedied(rule, raw))}
             IN rule \notin after /\ after \subseteq before \cup Allowed(rule)
  <2>1. {g.rule : g \in FindingsIn({raw})} = Ruled(raw)
    BY <1>1, RulesOfOne
  <2>2. {g.rule : g \in FindingsIn({fixed})} \subseteq Ruled(fixed)
    BY RulesOfOne
  <2> QED
    BY <1>1, <2>1, <2>2
<1>2. ASSUME NEW raw \in RawResources, NEW rule \in Rules, Holds(rule, Row(raw)),
             ~Malformed(raw)
      PROVE  LET before == {g.rule : g \in FindingsIn({raw})}
                 after == {g.rule : g \in FindingsIn(Remedied(rule, raw))}
             IN rule \notin after /\ after \subseteq before \cup Allowed(rule)
  <2> DEFINE Goal == LET before == {g.rule : g \in FindingsIn({raw})}
                         after == {g.rule : g \in FindingsIn(Remedied(rule, raw))}
                     IN rule \notin after /\ after \subseteq before \cup Allowed(rule)
             Clears(fixed) == \A u \in Rules : Holds(u, Row(fixed)) =>
                                u # rule /\ (Holds(u, Row(raw)) \/ u \in Allowed(rule))
  <2>0. Row(raw).type = raw.type /\ Row(raw).detail = Detail(raw)
    BY DEF Row
  <2> HIDE DEF Goal, Clears
  <2>1. CASE rule = "disk.orphan"
    <3> DEFINE fixed == [raw EXCEPT !.managedBy = "vm"]
    <3>1. raw.type = "disks"
      BY <2>0, <2>1, <1>2, HoldsOf
    <3>2. "managedBy" \in Columns[raw.type]
      BY <3>1 DEF Columns
    <3>3. Remedied(rule, raw) = {fixed}
      BY <2>1 DEF Remedied
    <3>4. /\ fixed.type = raw.type /\ fixed.managedBy = "vm"
          /\ \A f \in Columns[raw.type] \ {"managedBy"} : fixed[f] = raw[f]
          /\ Row(fixed).type = raw.type /\ Row(fixed).common = Row(raw).common
          /\ Row(fixed).detail = Detail(fixed)
      <4>1. "managedBy" \in DOMAIN raw
        BY <3>2, ResourcesAssumption
      <4>2. fixed.managedBy = "vm" /\ \A f \in DOMAIN raw \ {"managedBy"} : fixed[f] = raw[f]
        BY <4>1, ResourcesAssumption
      <4> HIDE DEF fixed
      <4> QED
        BY <3>2, <4>2, OneColumn
    <3> HIDE DEF fixed
    <3>5. Row(fixed).detail = NormalizeDisk(fixed) /\ Row(raw).detail = NormalizeDisk(raw)
      BY <2>0, <3>1, <3>4, DetailOf
    <3>6. Row(fixed).detail.managed_by # Blank
      BY <3>4, <3>5, PresentTexts DEF NormalizeDisk
    <3>7. Clears(fixed)
      <4> SUFFICES ASSUME NEW u \in Rules, Holds(u, Row(fixed))
                   PROVE  u # rule /\ (Holds(u, Row(raw)) \/ u \in Allowed(rule))
        BY DEF Clears
      <4> QED
        BY <2>1, <3>1, <3>4, <3>6, HoldsOf DEF DiskOrphan
    <3> QED
      BY <1>1, <1>2, <3>3, <3>7 DEF Goal, Clears
  <2>2. CASE rule = "public_ip.unattached"
    <3> DEFINE fixed == [raw EXCEPT !.ipConfiguration = "nic"]
    <3>1. raw.type = "public_ips"
      BY <2>0, <2>2, <1>2, HoldsOf
    <3>2. "ipConfiguration" \in Columns[raw.type]
      BY <3>1 DEF Columns
    <3>3. Remedied(rule, raw) = {fixed}
      BY <2>2 DEF Remedied
    <3>4. /\ fixed.type = raw.type /\ fixed.ipConfiguration = "nic"
          /\ \A f \in Columns[raw.type] \ {"ipConfiguration"} : fixed[f] = raw[f]
          /\ Row(fixed).type = raw.type /\ Row(fixed).common = Row(raw).common
          /\ Row(fixed).detail = Detail(fixed)
      <4>1. "ipConfiguration" \in DOMAIN raw
        BY <3>2, ResourcesAssumption
      <4>2. fixed.ipConfiguration = "nic" /\ \A f \in DOMAIN raw \ {"ipConfiguration"} : fixed[f] = raw[f]
        BY <4>1, ResourcesAssumption
      <4> HIDE DEF fixed
      <4> QED
        BY <3>2, <4>2, OneColumn
    <3> HIDE DEF fixed
    <3>5. Row(fixed).detail = NormalizePublicIp(fixed) /\ Row(raw).detail = NormalizePublicIp(raw)
      BY <2>0, <3>1, <3>4, DetailOf
    <3>6. /\ Row(fixed).detail.ip_configuration # Nil
          /\ Row(fixed).detail.sku_name = Row(raw).detail.sku_name
      <4>1. fixed.skuName = raw.skuName
        BY <3>1, <3>4 DEF Columns
      <4> QED
        BY <3>4, <3>5, <4>1, PresentTexts DEF NormalizePublicIp
    <3>7. Clears(fixed)
      <4> SUFFICES ASSUME NEW u \in Rules, Holds(u, Row(fixed))
                   PROVE  u # rule /\ (Holds(u, Row(raw)) \/ u \in Allowed(rule))
        BY DEF Clears
      <4> QED
        BY <2>0, <2>2, <3>1, <3>4, <3>6, HoldsOf DEF PublicIpUnattached, PublicIpBasicSku, Holds
    <3> QED
      BY <1>1, <1>2, <3>3, <3>7 DEF Goal, Clears
  <2>3. CASE rule = "public_ip.basic_sku"
    <3> DEFINE fixed == [raw EXCEPT !.skuName = "Standard"]
    <3>1. raw.type = "public_ips"
      BY <2>0, <2>3, <1>2, HoldsOf
    <3>2. "skuName" \in Columns[raw.type]
      BY <3>1 DEF Columns
    <3>3. Remedied(rule, raw) = {fixed}
      BY <2>3 DEF Remedied
    <3>4. /\ fixed.type = raw.type /\ fixed.skuName = "Standard"
          /\ \A f \in Columns[raw.type] \ {"skuName"} : fixed[f] = raw[f]
          /\ Row(fixed).type = raw.type /\ Row(fixed).common = Row(raw).common
          /\ Row(fixed).detail = Detail(fixed)
      <4>1. "skuName" \in DOMAIN raw
        BY <3>2, ResourcesAssumption
      <4>2. fixed.skuName = "Standard" /\ \A f \in DOMAIN raw \ {"skuName"} : fixed[f] = raw[f]
        BY <4>1, ResourcesAssumption
      <4> HIDE DEF fixed
      <4> QED
        BY <3>2, <4>2, OneColumn
    <3> HIDE DEF fixed
    <3>5. Row(fixed).detail = NormalizePublicIp(fixed) /\ Row(raw).detail = NormalizePublicIp(raw)
      BY <2>0, <3>1, <3>4, DetailOf
    <3>6. Row(fixed).detail.sku_name = "Standard"
      BY <3>4, <3>5, PresentTexts DEF NormalizePublicIp
    <3>7. Clears(fixed)
      <4> SUFFICES ASSUME NEW u \in Rules, Holds(u, Row(fixed))
                   PROVE  u # rule /\ (Holds(u, Row(raw)) \/ u \in Allowed(rule))
        BY DEF Clears
      <4> QED
        BY <2>3, <3>1, <3>4, <3>6, HoldsOf DEF PublicIpBasicSku
    <3> QED
      BY <1>1, <1>2, <3>3, <3>7 DEF Goal, Clears
  <2>4. CASE rule = "vm.stopped_with_disks"
    <3> DEFINE fixed == [raw EXCEPT !.powerState = <<"PowerState", "running">>]
    <3>1. raw.type = "vms"
      BY <2>0, <2>4, <1>2, HoldsOf
    <3>2. "powerState" \in Columns[raw.type]
      BY <3>1 DEF Columns
    <3>3. Remedied(rule, raw) = {fixed}
      BY <2>4 DEF Remedied
    <3>4. /\ fixed.type = raw.type /\ fixed.powerState = <<"PowerState", "running">>
          /\ \A f \in Columns[raw.type] \ {"powerState"} : fixed[f] = raw[f]
          /\ Row(fixed).type = raw.type /\ Row(fixed).common = Row(raw).common
          /\ Row(fixed).detail = Detail(fixed)
      <4>1. "powerState" \in DOMAIN raw
        BY <3>2, ResourcesAssumption
      <4>2. fixed.powerState = <<"PowerState", "running">> /\ \A f \in DOMAIN raw \ {"powerState"} : fixed[f] = raw[f]
        BY <4>1, ResourcesAssumption
      <4> HIDE DEF fixed
      <4> QED
        BY <3>2, <4>2, OneColumn
    <3> HIDE DEF fixed
    <3>5. Row(fixed).detail = NormalizeVm(fixed) /\ Row(raw).detail = NormalizeVm(raw)
      BY <2>0, <3>1, <3>4, DetailOf
    <3>6. Row(fixed).detail.power_state # "deallocated"
      <4>1. Row(fixed).detail.power_state = OrElse(<<"PowerState", "running">>, <<Blank, Blank>>)[2]
        BY <3>4, <3>5 DEF NormalizeVm
      <4> QED
        BY <4>1, PresentTexts DEF OrElse
    <3>7. Clears(fixed)
      <4> SUFFICES ASSUME NEW u \in Rules, Holds(u, Row(fixed))
                   PROVE  u # rule /\ (Holds(u, Row(raw)) \/ u \in Allowed(rule))
        BY DEF Clears
      <4> QED
        BY <2>4, <3>1, <3>4, <3>6, HoldsOf DEF VmStoppedWithDisks
    <3> QED
      BY <1>1, <1>2, <3>3, <3>7 DEF Goal, Clears
  <2>5. CASE rule = "aks.idle_nodepool"
    <3> DEFINE fixed == [raw EXCEPT !.agentPoolProfiles = raw.agentPoolProfiles \ {0, Nil, Blank}]
    <3>1. raw.type = "aks"
      BY <2>0, <2>5, <1>2, HoldsOf
    <3>2. "agentPoolProfiles" \in Columns[raw.type]
      BY <3>1 DEF Columns
    <3>3. Remedied(rule, raw) = {fixed}
      BY <2>5 DEF Remedied
    <3>4. /\ fixed.type = raw.type /\ fixed.agentPoolProfiles = raw.agentPoolProfiles \ {0, Nil, Blank}
          /\ \A f \in Columns[raw.type] \ {"agentPoolProfiles"} : fixed[f] = raw[f]
          /\ Row(fixed).type = raw.type /\ Row(fixed).common = Row(raw).common
          /\ Row(fixed).detail = Detail(fixed)
      <4>1. "agentPoolProfiles" \in DOMAIN raw
        BY <3>2, ResourcesAssumption
      <4>2. fixed.agentPoolProfiles = raw.agentPoolProfiles \ {0, Nil, Blank} /\ \A f \in DOMAIN raw \ {"agentPoolProfiles"} : fixed[f] = raw[f]
        BY <4>1, ResourcesAssumption
      <4> HIDE DEF fixed
      <4> QED
        BY <3>2, <4>2, OneColumn
    <3> HIDE DEF fixed
    <3>5. Row(fixed).detail = NormalizeAks(fixed) /\ Row(raw).detail = NormalizeAks(raw)
      BY <2>0, <3>1, <3>4, DetailOf
    <3>6. 0 \notin Row(fixed).detail.pool_counts
      BY <3>1, <3>4, <3>5, ResourcesAssumption DEF Columns, NormalizeAks, OrElse
    <3>7. Clears(fixed)
      <4> SUFFICES ASSUME NEW u \in Rules, Holds(u, Row(fixed))
                   PROVE  u # rule /\ (Holds(u, Row(raw)) \/ u \in Allowed(rule))
        BY DEF Clears
      <4> QED
        BY <2>5, <3>1, <3>4, <3>6, HoldsOf DEF AksIdleNodepool
    <3> QED
      BY <1>1, <1>2, <3>3, <3>7 DEF Goal, Clears
  <2>6. CASE rule = "asp.oversized_nonprod"
    <3> DEFINE fixed == [raw EXCEPT !.skuName = "B1"]
    <3>1. raw.type = "asps"
      BY <2>0, <2>6, <1>2, HoldsOf
    <3>2. "skuName" \in Columns[raw.type]
      BY <3>1 DEF Columns
    <3>3. Remedied(rule, raw) = {fixed}
      BY <2>6 DEF Remedied
    <3>4. /\ fixed.type = raw.type /\ fixed.skuName = "B1"
          /\ \A f \in Columns[raw.type] \ {"skuName"} : fixed[f] = raw[f]
          /\ Row(fixed).type = raw.type /\ Row(fixed).common = Row(raw).common
          /\ Row(fixed).detail = Detail(fixed)
      <4>1. "skuName" \in DOMAIN raw
        BY <3>2, ResourcesAssumption
      <4>2. fixed.skuName = "B1" /\ \A f \in DOMAIN raw \ {"skuName"} : fixed[f] = raw[f]
        BY <4>1, ResourcesAssumption
      <4> HIDE DEF fixed
      <4> QED
        BY <3>2, <4>2, OneColumn
    <3> HIDE DEF fixed
    <3>5. Row(fixed).detail = NormalizeAsp(fixed) /\ Row(raw).detail = NormalizeAsp(raw)
      BY <2>0, <3>1, <3>4, DetailOf
    <3>6. Row(fixed).detail.sku_name \in {"B1", Blank}
      <4>1. Row(fixed).detail.sku_name = OrElse("B1", Blank)
        BY <3>4, <3>5 DEF NormalizeAsp
      <4> QED
        BY <4>1 DEF OrElse
    <3>7. Clears(fixed)
      <4> SUFFICES ASSUME NEW u \in Rules, Holds(u, Row(fixed))
                   PROVE  u # rule /\ (Holds(u, Row(raw)) \/ u \in Allowed(rule))
        BY DEF Clears
      <4> QED
        BY <2>6, <3>1, <3>4, <3>6, PresentTexts, HoldsOf DEF AspOversizedNonprod
    <3> QED
      BY <1>1, <1>2, <3>3, <3>7 DEF Goal, Clears
  <2>7. CASE rule = "storage.legacy_kind"
    <3> DEFINE fixed == [raw EXCEPT !.kind = "StorageV2"]
    <3>1. raw.type = "storage_accounts"
      BY <2>0, <2>7, <1>2, HoldsOf
    <3>2. "kind" \in Columns[raw.type]
      BY <3>1 DEF Columns
    <3>3. Remedied(rule, raw) = {fixed}
      BY <2>7 DEF Remedied
    <3>4. /\ fixed.type = raw.type /\ fixed.kind = "StorageV2"
          /\ \A f \in Columns[raw.type] \ {"kind"} : fixed[f] = raw[f]
          /\ Row(fixed).type = raw.type /\ Row(fixed).common = Row(raw).common
          /\ Row(fixed).detail = Detail(fixed)
      <4>1. "kind" \in DOMAIN raw
        BY <3>2, ResourcesAssumption
      <4>2. fixed.kind = "StorageV2" /\ \A f \in DOMAIN raw \ {"kind"} : fixed[f] = raw[f]
        BY <4>1, ResourcesAssumption
      <4> HIDE DEF fixed
      <4> QED
        BY <3>2, <4>2, OneColumn
    <3> HIDE DEF fixed
    <3>5. Row(fixed).detail = NormalizeStorage(fixed) /\ Row(raw).detail = NormalizeStorage(raw)
      BY <2>0, <3>1, <3>4, DetailOf
    <3>6. /\ Row(fixed).detail.kind \in {"StorageV2", Blank}
          /\ Row(fixed).detail.sku_name = Row(raw).detail.sku_name
      <4>1. fixed.skuName = raw.skuName
        BY <3>1, <3>4 DEF Columns
      <4>2. /\ Row(fixed).detail.kind = OrElse("StorageV2", Blank)
            /\ Row(fixed).detail.sku_name = Row(raw).detail.sku_name
        BY <3>4, <3>5, <4>1 DEF NormalizeStorage
      <4> QED
        BY <4>2 DEF OrElse
    <3>7. Clears(fixed)
      <4> SUFFICES ASSUME NEW u \in Rules, Holds(u, Row(fixed))
                   PROVE  u # rule /\ (Holds(u, Row(raw)) \/ u \in Allowed(rule))
        BY DEF Clears
      <4> QED
        BY <2>0, <2>7, <3>1, <3>4, <3>6, PresentTexts, HoldsOf
           DEF StorageLegacyKind, StorageRagrsNonprod, Holds
    <3> QED
      BY <1>1, <1>2, <3>3, <3>7 DEF Goal, Clears
  <2>8. CASE rule = "storage.ragrs_nonprod"
    <3> DEFINE fixed == [raw EXCEPT !.skuName = "Standard_LRS"]
    <3>1. raw.type = "storage_accounts"
      BY <2>0, <2>8, <1>2, HoldsOf
    <3>2. "skuName" \in Columns[raw.type]
      BY <3>1 DEF Columns
    <3>3. Remedied(rule, raw) = {fixed}
      BY <2>8 DEF Remedied
    <3>4. /\ fixed.type = raw.type /\ fixed.skuName = "Standard_LRS"
          /\ \A f \in Columns[raw.type] \ {"skuName"} : fixed[f] = raw[f]
          /\ Row(fixed).type = raw.type /\ Row(fixed).common = Row(raw).common
          /\ Row(fixed).detail = Detail(fixed)
      <4>1. "skuName" \in DOMAIN raw
        BY <3>2, ResourcesAssumption
      <4>2. fixed.skuName = "Standard_LRS" /\ \A f \in DOMAIN raw \ {"skuName"} : fixed[f] = raw[f]
        BY <4>1, ResourcesAssumption
      <4> HIDE DEF fixed
      <4> QED
        BY <3>2, <4>2, OneColumn
    <3> HIDE DEF fixed
    <3>5. Row(fixed).detail = NormalizeStorage(fixed) /\ Row(raw).detail = NormalizeStorage(raw)
      BY <2>0, <3>1, <3>4, DetailOf
    <3>6. /\ Row(fixed).detail.sku_name \in {"Standard_LRS", Blank}
          /\ Row(fixed).detail.kind = Row(raw).detail.kind
      <4>1. fixed.kind = raw.kind
        BY <3>1, <3>4 DEF Columns
      <4>2. /\ Row(fixed).detail.sku_name = OrElse("Standard_LRS", Blank)
            /\ Row(fixed).detail.kind = Row(raw).detail.kind
        BY <3>4, <3>5, <4>1 DEF NormalizeStorage
      <4> QED
        BY <4>2 DEF OrElse
    <3>7. Clears(fixed)
      <4> SUFFICES ASSUME NEW u \in Rules, Holds(u, Row(fixed))
                   PROVE  u # rule /\ (Holds(u, Row(raw)) \/ u \in Allowed(rule))
        BY DEF Clears
      <4> QED
        BY <2>0, <2>8, <3>1, <3>4, <3>6, PresentTexts, HoldsOf
           DEF StorageLegacyKind, StorageRagrsNonprod, Holds
    <3> QED
      BY <1>1, <1>2, <3>3, <3>7 DEF Goal, Clears
  <2>9. CASE rule \in {"nic.orphan", "snapshot.old"}
    <3>1. Remedied(rule, raw) = {}
      BY <2>9 DEF Remedied
    <3>2. FindingsIn({}) = {}
      BY DEF FindingsIn, Inventory
    <3> QED
      BY <3>1, <3>2 DEF Goal
  <2> QED
    BY <2>1, <2>2, <2>3, <2>4, <2>5, <2>6, <2>7, <2>8, <2>9 DEF Rules, Goal
<1>3. Handed => RemedyClears
  <2> SUFFICES ASSUME Handed, Given("resource"), NEW f \in FindingsIn({input.v})
               PROVE  LET before == {g.rule : g \in FindingsIn({input.v})}
                          after == {g.rule : g \in FindingsIn(Remedied(f.rule, input.v))}
                      IN f.rule \notin after /\ after \subseteq before \cup Allowed(f.rule)
    BY DEF RemedyClears
  <2>1. input.v \in RawResources
    BY CaseOf
  <2>2. f.rule \in {g.rule : g \in FindingsIn({input.v})}
    OBVIOUS
  <2>3. ~Malformed(input.v) /\ f.rule \in Rules /\ Holds(f.rule, Row(input.v))
    BY <2>2, RulesOfOne
  <2> QED
    BY <1>2, <2>1, <2>3
<1> QED
  BY <1>3, HandedHolds, PTL

(***************************************************************************)
(* Cost queries.                                                           *)
(***************************************************************************)
\* The tables that are handed over can be added up.
LEMMA TablesSum ==
  ASSUME Handed, Given("query")
  PROVE  /\ Summable(input.v.rows) /\ \A r \in input.v.rows : r.start \in Int
         /\ \A r \in input.v.rows : r.net \in Int
         /\ input.v.window \in Windows \cup {Unset} /\ input.v.end \in Int
<1>1. /\ input.v.rows \in Tables /\ input.v.end \in Ends
      /\ input.v.window \in Windows \cup {Unset}
  BY CaseOf
<1>2. /\ IsFiniteSet(input.v.rows)
      /\ \A r \in input.v.rows : r.start \in Int /\ r.cost \in Int /\ r.net \in Int
  BY <1>1, TablesAssumption
<1>3. input.v.end \in Int
  BY <1>1, TablesAssumption
<1> QED
  BY <1>1, <1>2, <1>3 DEF Summable, AmountOf

\* The two periods of /costs/totals are equally long and count each usage once
\* but for those in the gap between them, which a usage on a whole second escapes
\* if the later period starts on one; for every table, window and clock.
THEOREM PeriodsTileAlways == Spec => []PeriodsTile
<1>1. Handed => PeriodsTile
  <2> SUFFICES ASSUME Handed, Given("query") PROVE PeriodsTile
    BY DEF PeriodsTile
  <2> DEFINE rows == input.v.rows
             w == input.v.window
             e == input.v.end
  <2>1. /\ Summable(rows) /\ \A r \in rows : r.start \in Int
        /\ w \in Windows \cup {Unset} /\ e \in Int
    BY TablesSum
  <2> HIDE DEF rows, w, e
  <2>2. LET p == Periods(w, Unset, e)
            t == CostTotals(rows, w, Unset, e)
            gap == {r \in rows : p.prevEnd < r.start /\ r.start < p.from}
            span == {r \in rows : p.prevFrom <= r.start /\ r.start <= e}
        IN /\ p.prevEnd - p.prevFrom = e - p.from
           /\ t.mtd + t.prev = SumOf(span \ gap)
           /\ w \in {"mtd", Unset} \/ e % Second = 0 => \A r \in gap : r.start % Second # 0
    BY <2>1, TotalsTile
  <2> QED
    BY <2>2 DEF PeriodsTile, rows, w, e
<1> QED
  BY <1>1, HandedHolds, PTL

\* The endpoints add up to the same amount, the export to the full cost of the
\* wholly discounted rows less, for every table, window and clock.
THEOREM AnswersAlwaysAgree == Spec => []AnswersAgree
<1>1. Handed => AnswersAgree
  <2> SUFFICES ASSUME Handed, Given("query") PROVE AnswersAgree
    BY DEF AnswersAgree
  <2> DEFINE rows == input.v.rows
             w == input.v.window
             e == input.v.end
             window == IF w = Unset THEN "mtd" ELSE w
             from == ResolveWindow(window, Unset, e)
             chosen == Between(rows, from, e)
             summary == CostSummary(rows, window, Unset, e)
             hidden == {r \in rows : r.provider \notin Shown}
             daily == DailyCosts(rows, window, Unset, e)
  <2>1. /\ Summable(rows) /\ (\A r \in rows : r.start \in Int) /\ (\A r \in rows : r.net \in Int)
        /\ w \in Windows \cup {Unset} /\ e \in Int
    BY TablesSum
  <2>2. window = Chosen(w)
    BY DEF Chosen
  <2> HIDE DEF rows, w, e, window
  <2>3. window \in Windows /\ Periods(w, Unset, e).from = from
    BY <2>1, <2>2, PeriodsType
  <2>4. summary.total = SumOf(chosen) /\ DOMAIN summary.by_provider = {r.provider : r \in chosen}
    BY <2>1, SummaryOf
  <2>5. CostTotals(rows, w, Unset, e).mtd = summary.total
    BY <2>1, <2>3, <2>4, TotalsOf
  <2>6. ASSUME NEW l \in ListCosts(rows, window, Unset, Unset, e, 1, 50), l.total < ListLimit
        PROVE  SumValues(l.totals) = summary.total /\ l.data = chosen
    BY <2>1, <2>3, <2>4, <2>6, ListOf
  <2>11. ASSUME NEW x \in ExportCosts(rows, window, Unset, e, e),
                Cardinality(DOMAIN x) < ExportLimit
         PROVE  /\ DOMAIN x = chosen
                /\ SumValues(x) = summary.total - SumOf({r \in DOMAIN x : r.net = 0})
    <3>1. DOMAIN x = chosen /\ SumValues(x) = SumOf(chosen) - SumOf({r \in chosen : r.net = 0})
      BY <2>1, <2>3, <2>11, ExportOf
    <3> HIDE DEF chosen, summary
    <3> QED
      BY <2>4, <3>1
  <2>7. ASSUME NEW b \in CostBreakdown(rows, window, Unset, e)
        PROVE  /\ Cardinality(DOMAIN b) < GroupLimit => SumValues(b) = summary.total
               /\ DOMAIN b \subseteq UNION {SkusByProvider(rows, k) : k \in DOMAIN summary.by_provider}
    <3>1. /\ Cardinality(DOMAIN b) < GroupLimit => SumValues(b) = SumOf(chosen)
          /\ DOMAIN b \subseteq {r.service : r \in chosen}
      BY <2>1, BreakdownOf
    <3>2. ASSUME NEW r \in chosen
          PROVE  r.service \in SkusByProvider(rows, r.provider)
      BY DEF SkusByProvider, Between
    <3> HIDE DEF chosen, summary
    <3> QED
      BY <2>4, <3>1, <3>2
  <2>8. ASSUME NEW b \in CostsBySku(rows, Unset), Cardinality(DOMAIN b) < GroupLimit
        PROVE  SumValues(b) = SumOf(rows)
    BY <2>1, <2>8, BySkuOf
  <2>9. DashboardStats(rows, w, e).total = CostSummary(rows \ hidden, window, Unset, e).total
    <3>1. Summable(rows \ hidden)
      BY <2>1, SubsetSummable
    <3>2. CostSummary(rows \ hidden, window, Unset, e).total
            = SumOf(Between(rows \ hidden, from, e))
      BY <3>1, SummaryOf
    <3> QED
      BY <2>1, <2>2, <3>2, DashboardOf
  <2>10. ASSUME from % Day = 0, \A r \in rows : Date(r.start) = Date(e) => r.start <= e
         PROVE  SumValues([d \in DOMAIN daily |-> SumValues(daily[d])]) = summary.total
    BY <2>1, <2>3, <2>4, <2>10, DailyOf
  <2> QED
    BY <2>5, <2>6, <2>7, <2>8, <2>9, <2>10, <2>11 DEF AnswersAgree, rows, w, e, window
<1> QED
  BY <1>1, HandedHolds, PTL
=============================================================================
