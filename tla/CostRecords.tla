----------------------------- MODULE CostRecords -----------------------------
(***************************************************************************)
(* How the extractors turn a provider's row into a record of cost_records, *)
(* and how exchange_rates.py turns the ECB's table into rates to USD.      *)
(* Pure operators: a field is a small value, Null when it is missing or    *)
(* null, Empty when it is the empty text, Garbage when it cannot be        *)
(* parsed.  The result says what becomes of the row: outcome "good" with   *)
(* the record, "skip", or "raise" when the exception ends the run.         *)
(***************************************************************************)
EXTENDS Integers, Sequences, FiniteSets, SequencesExt

CONSTANTS Null, Empty, Garbage,
          Naive,        \* no offset from UTC
          Float,        \* a number with a fraction where a date is expected
          Now,          \* the clock when the extractor runs
          AzureMap,     \* category tables: sequences of <<service, category>>
          GcpMap,
          AwsMap,
          Within,       \* pairs <<s, t>>: text s occurs in t, letter case aside
          Scale,        \* one unit of money or of a rate, in its smallest step
          TaskPrefix    \* LITELLM_TASK_TAG_PREFIX, or Null

\* The marks are apart from each other, from numbers, currencies and times.
ASSUME MarksAssumption ==
  /\ Null \notin {Empty, Garbage, Naive, Float} /\ Empty \notin {Garbage, Naive, Float}
  /\ Garbage \notin {Naive, Float} /\ Naive # Float
  /\ \A m \in {Null, Empty, Garbage, Naive, Float} :
       m \notin Int /\ m \notin {"USD", "EUR"} /\ m \notin [local : Int, zone : Int \cup {Naive}]
ASSUME ScaleAssumption == Scale \in Nat \ {0}

Absent == {Null, Empty}
Or(v, default) == IF v \in Absent THEN default ELSE v
Skip == [outcome |-> "skip"]
Raise == [outcome |-> "raise"]

\* Amounts are integers in the smallest step; what is no number counts as 0.
Amount(v) == IF v \in Absent \cup {Garbage} THEN 0 ELSE v

(***************************************************************************)
(* Timestamps: wall-clock time and the offset from UTC it is written with, *)
(* Naive when there is none.  isoformat() shows both.                      *)
(***************************************************************************)
Instant(t) == t.local - t.zone

\* Mutant: a naive time is taken for local time.
AwareInLocalTime(t) == IF t.zone = Naive THEN [t EXCEPT !.zone = 1] ELSE t

\* A time without an offset is UTC; other offsets are kept.
Aware(t) == IF t.zone = Naive THEN [t EXCEPT !.zone = 0] ELSE t

\* gcp_shared.parse_datetime: a null value becomes the current time.
ParseDatetime(v) == IF v = Null THEN [local |-> Now, zone |-> 0] ELSE Aware(v)
Unparseable(v) == v \in {Empty, Garbage}

(***************************************************************************)
(* Money.                                                                  *)
(***************************************************************************)
Magnitude(n) == IF n < 0 THEN -n ELSE n
Sign(n) == IF n < 0 THEN -1 ELSE 1

\* n / d to the nearest integer; a tie goes to the even one (the default of
\* decimal) or away from zero (ROUND_HALF_UP).
RoundHalfEven(n, d) ==
  LET q == Magnitude(n) \div d
      r == Magnitude(n) % d
  IN Sign(n) * (IF 2 * r > d \/ (2 * r = d /\ q % 2 = 1) THEN q + 1 ELSE q)
RoundHalfUp(n, d) ==
  LET q == Magnitude(n) \div d
  IN Sign(n) * (IF 2 * (Magnitude(n) % d) >= d THEN q + 1 ELSE q)

\* Mutant: a currency without a rate is worth nothing.
ConvertMissingToZero(cost, currency, rates) ==
  IF currency = "USD" THEN cost
  ELSE IF currency \notin DOMAIN rates THEN 0
  ELSE RoundHalfEven(cost * rates[currency], Scale)

\* Mutant: the product is cut off.
ConvertFloor(cost, currency, rates) ==
  IF currency = "USD" \/ currency \notin DOMAIN rates THEN cost
  ELSE (cost * rates[currency]) \div Scale

\* convert_to_usd: a currency without a rate counts as USD.
ConvertToUsd(cost, currency, rates) ==
  IF currency = "USD" \/ currency \notin DOMAIN rates THEN cost
  ELSE RoundHalfEven(cost * rates[currency], Scale)

\* load_exchange_rates: the table holds a rate per currency and date and the
\* query names no order, so any of a currency's rates may be the last one read;
\* if the query fails there is USD only.
LoadedRates(rows) ==
  LET currencies == {r.currency : r \in rows}
      read == {f \in [currencies -> rows] : \A c \in currencies : f[c].currency = c}
  IN {[c \in currencies \cup {"USD"} |->
         IF c \in currencies THEN f[c].rate ELSE Scale] : f \in read}
     \cup {[c \in {"USD"} |-> Scale]}

\* Mutant: the quotient is upside down.
InvertedUsdRates(perEur) ==
  [c \in DOMAIN perEur \cup {"EUR"} |->
     CASE c = "EUR" -> perEur["USD"]
       [] c = "USD" -> Scale
       [] OTHER -> RoundHalfUp(perEur[c] * Scale, perEur["USD"])]

\* _convert_to_usd_rates, from the ECB's units of a currency per EUR.  It
\* raises when the table has no USD rate.
UsdRates(perEur) ==
  [c \in DOMAIN perEur \cup {"EUR"} |->
     CASE c = "EUR" -> perEur["USD"]
       [] c = "USD" -> Scale
       [] OTHER -> RoundHalfUp(perEur["USD"] * Scale, perEur[c])]

(***************************************************************************)
(* Categories, tags and projects.                                          *)
(***************************************************************************)
Entries(map, test(_)) == SelectSeq(map, LAMBDA e : test(e[1]))
FirstOr(entries, default) == IF entries = <<>> THEN default ELSE entries[1][2]

AzureCategory(meter) == FirstOr(Entries(AzureMap, LAMBDA k : k = meter), "other")
AwsCategory(service) ==
  FirstOr(Entries(AwsMap, LAMBDA k : <<k, service>> \in Within), "other")
\* An exact match first, then the first entry that occurs in the description.
GcpCategory(service) ==
  FirstOr(Entries(GcpMap, LAMBDA k : k = service)
            \o Entries(GcpMap, LAMBDA k : <<k, service>> \in Within), "other")

\* Labels are a sequence of <<key, value>>; entries of another shape are
\* Garbage.  extract_project_label takes the first, labels_to_tags the last.
Proper(labels) == SelectSeq(IF labels \in Absent THEN <<>> ELSE labels,
                            LAMBDA e : e # Garbage)
ProjectLabel(labels) == FirstOr(SelectSeq(Proper(labels), LAMBDA e : e[1] = "project"), Empty)
GcpTags(labels) ==
  [k \in {e[1] : e \in Range(Proper(labels))} |->
     Last(SelectSeq(Proper(labels), LAMBDA e : e[1] = k))[2]]

\* Azure tags are a dict, or its JSON text; anything else is no tags.
AzureTags(row) == IF row.tags \in Absent \cup {Garbage} THEN <<>> ELSE row.tags
AzureProject(row) ==
  LET tagged(key) == SelectSeq(AzureTags(row), LAMBDA e : e[1] = key)
  IN FirstOr(tagged("project") \o tagged("Project"),
             Or(row.ResourceGroup, Or(row.SubscriptionId, Empty)))

\* Tags of a request are <<prefix, rest>>; without a prefix the first counts.
LlmProject(tags) ==
  IF TaskPrefix = Null THEN IF tags = <<>> THEN "default" ELSE tags[1]
  ELSE Or(FirstOr(SelectSeq(tags, LAMBDA t : t[1] = TaskPrefix), Empty), "default")

(***************************************************************************)
(* record_id: what each extractor hashes.                                  *)
(***************************************************************************)
AzureId(row) == <<"azure", Or(row.SubscriptionId, Empty), row.UsageDate,
                  Or(row.MeterCategory, Empty), Or(row.MeterSubCategory, Empty),
                  Or(row.Product, Empty)>>
\* The columns the Cost Management query groups by: one row each.
AzureGrouping(row) == <<row.UsageDate, row.SubscriptionId, row.ResourceGroup,
                        row.MeterCategory, row.MeterSubCategory, row.Product>>
GcpId(project, start, sku) == <<"gcp", project, start.local, start.zone, sku>>
AwsId(account, service, day) == <<"aws", account, service, day>>
LlmId(request) == <<"llm", request>>

(***************************************************************************)
(* The rows.                                                               *)
(***************************************************************************)
\* UsageDate is a day number written as an integer or a text; another type is
\* a TypeError, which ends the run, and a text that is no date skips the row.
AzureDate(v) == IF v \in {Float, Null} THEN "raise"
                ELSE IF v \in {Empty, Garbage} THEN "skip" ELSE "good"

TransformRow(row, rates) ==
  LET cost == IF Amount(row.CostInBillingCurrency) # 0 \/ row.CostInBillingCurrency = Garbage
                THEN row.CostInBillingCurrency ELSE Or(row.Cost, 0)
      currency == Or(row.Currency, "USD")
  IN IF AzureDate(row.UsageDate) = "raise" THEN Raise
     ELSE IF AzureDate(row.UsageDate) = "skip" \/ cost = Garbage THEN Skip
     ELSE LET usd == ConvertToUsd(cost, currency, rates)
          IN [outcome |-> "good", id |-> AzureId(row), project |-> AzureProject(row),
              category |-> AzureCategory(Or(row.MeterCategory, Empty)),
              currency |-> currency, original |-> cost, cost |-> usd, net |-> usd]

\* normalise_row (BigQuery): costs are not converted, whatever the currency, and
\* the query's sum of the negative credits is a discount.  A cost or a discount
\* that cannot be read is stored as 0.
NormaliseRow(row) ==
  LET project == Or(row.project_id, Empty)
      start == ParseDatetime(row.usage_start_time)
      cost == Amount(row.cost)
      discount == Magnitude(Amount(row.discount_amount))
  IN IF Unparseable(row.usage_start_time) \/ Unparseable(row.usage_end_time) THEN Raise
     ELSE [outcome |-> "good", id |-> GcpId(project, start, Or(row.sku_description, Empty)),
           account |-> project, project |-> Or(ProjectLabel(row.labels), project),
           category |-> GcpCategory(Or(row.service_description, Empty)),
           start |-> start, currency |-> "USD", original |-> cost, cost |-> cost,
           discount |-> discount, net |-> cost - discount, tags |-> GcpTags(row.labels)]

\* normalize_csv_row: a header may be written with a dot or an underscore, and
\* whatever raises skips the row.  Credits are not read; a cost that cannot be
\* read is stored as 0 here too.
NormalizeCsvRow(row) ==
  LET project == Or(row.project_id, Empty)
      start == ParseDatetime(row.usage_start_time)
      cost == Amount(row.cost)
  IN IF Unparseable(row.usage_start_time) \/ Unparseable(row.usage_end_time) THEN Skip
     ELSE [outcome |-> "good", id |-> GcpId(project, start, Or(row.sku_description, Empty)),
           account |-> Or(row.billing_account_id, Empty),
           project |-> Or(ProjectLabel(row.labels), project),
           category |-> GcpCategory(Or(row.service_description, Empty)),
           start |-> start, currency |-> Or(row.currency, "USD"), original |-> cost,
           cost |-> cost, discount |-> 0, net |-> cost, tags |-> GcpTags(row.labels)]

\* normalize_aws_cost_records, for one group of one day: Decimal(None) is a
\* TypeError, which is not caught; what is not above zero is skipped before its
\* date is read.
NormalizeAws(group) ==
  LET service == IF Len(group.keys) > 0 THEN group.keys[1] ELSE Empty
      account == IF Len(group.keys) > 1 THEN group.keys[2] ELSE "unknown"
      amount == Amount(group.amount)
  IN IF group.keys = <<>> THEN Skip
     ELSE IF group.amount = Null THEN Raise
     ELSE IF ~(amount > 0) THEN Skip
     ELSE IF Unparseable(group.start) THEN Raise
     ELSE [outcome |-> "good", id |-> AwsId(account, service, group.start),
           project |-> account, category |-> AwsCategory(service),
           currency |-> group.unit, original |-> amount, cost |-> amount, net |-> amount]

\* normalize_litellm_records, for one request.
NormalizeLlm(row) ==
  LET spend == Amount(row.spend)
  IN IF row.request_id \in Absent \/ ~(spend > 0)
        \/ row.startTime \in Absent \cup {Garbage} THEN Skip
     ELSE IF Garbage \in {row.prompt_tokens, row.completion_tokens, row.total_tokens}
       THEN Raise
     ELSE [outcome |-> "good", id |-> LlmId(row.request_id),
           project |-> LlmProject(row.tags), category |-> "llm",
           start |-> Aware(row.startTime),
           end |-> IF row.endTime \in Absent \cup {Garbage}
                     THEN Aware(row.startTime) ELSE Aware(row.endTime),
           tokens |-> IF row.total_tokens \in Absent \cup {0}
                        THEN Amount(row.prompt_tokens) + Amount(row.completion_tokens)
                        ELSE row.total_tokens,
           currency |-> "USD", original |-> spend, cost |-> spend, net |-> spend]
=============================================================================
