----------------------------- MODULE Conversions -----------------------------
(***************************************************************************)
(* The program's pure functions on every input of a bounded set: each step *)
(* hands one input to the operators of CostRecords, WastageRules or        *)
(* CostQueries, and the invariants say what their results have to satisfy. *)
(***************************************************************************)
EXTENDS CostRecords, WastageRules, CostQueries

CONSTANTS NoInput,
          Rates, AzureRows, GcpUsages, AwsGroups, LlmRows,  \* for CostRecords
          Costs, EcbTables,
          RawResources, Spellings,                          \* for WastageRules
          Tables, Ends                                      \* for CostQueries

\* What the callers hand over: amounts are numbers or marks, times have an
\* offset or none, and a request does not end before it starts.
Money == Int \cup {Null, Empty, Garbage}
ASSUME AmountsAssumption ==
  /\ Costs \subseteq Int /\ Rates \subseteq Nat
  /\ \A r \in AzureRows : {r.CostInBillingCurrency, r.Cost} \subseteq Money
  /\ \A u \in GcpUsages : {u.cost, u.credits} \subseteq Money
  /\ \A g \in AwsGroups : g.amount \in Money
  /\ \A r \in LlmRows : r.spend \in Money
ASSUME TimesAssumption ==
  LET times == [local : Int, zone : Int \cup {Naive}]
  IN /\ \A u \in GcpUsages : u.start \in Int /\ u.zone \in Int \cup {Naive}
     /\ \A r \in LlmRows :
          /\ {r.startTime, r.endTime} \subseteq times \cup {Null, Empty, Garbage}
          /\ {r.startTime, r.endTime} \subseteq times =>
               Instant(Aware(r.startTime)) <= Instant(Aware(r.endTime))
\* The ECB quotes the dollar and not the euro, all above zero.
ASSUME EcbAssumption ==
  \A t \in EcbTables : /\ "USD" \in DOMAIN t /\ "EUR" \notin DOMAIN t
                       /\ \A c \in DOMAIN t : t[c] \in Nat \ {0}

\* A row has what the query of its type selects; names are <<name, spelling>>.
ASSUME ResourcesAssumption ==
  /\ \A raw \in RawResources :
       /\ {"type", "subscriptionId", "id", "resourceGroup", "location"} \subseteq DOMAIN raw
       /\ raw.type \in DOMAIN Columns /\ Columns[raw.type] \subseteq DOMAIN raw
       /\ raw = [f \in DOMAIN raw |-> raw[f]]
       /\ \A name \in {raw.id, raw.resourceGroup, raw.location} : name = <<name[1], name[2]>>
  /\ {Nil, Blank} \cap
       {"vm", "nic", "Standard", "deallocated", "S1", "S2", "S3", "P1v3", "p1v3",
        "Storage", "Standard_RAGRS", "Standard_GRS"} = {}

ASSUME TablesAssumption ==
  /\ Ends \subseteq Int
  /\ \A t \in Tables : IsFiniteSet(t) /\ \A r \in t : {r.start, r.cost, r.net} \subseteq Int

VARIABLE input

Given(case) == input.case = case
Give(case, value) == input' = [case |-> case, v |-> value]

Init == input = [case |-> "none", v |-> NoInput]

GiveAzure == \E r \in AzureRows : Give("azure", r)
GiveGcp == \E u \in GcpUsages : Give("gcp", u)
GiveAws == \E g \in AwsGroups : Give("aws", g)
GiveLlm == \E r \in LlmRows : Give("llm", r)
GiveCost == \E c \in Costs, s \in Rates : Give("convert", [cost |-> c, rate |-> s])
GiveEcb == \E t \in EcbTables : Give("ecb", t)
GiveResource == \E raw \in RawResources : Give("resource", raw)
GiveQuery == \E t \in Tables, w \in Windows \cup {Unset}, e \in Ends :
               Give("query", [rows |-> t, window |-> w, end |-> e])

Next == /\ Given("none")
        /\ \/ GiveAzure \/ GiveGcp \/ GiveAws \/ GiveLlm
           \/ GiveCost \/ GiveEcb \/ GiveResource \/ GiveQuery

Spec == Init /\ [][Next]_input

(***************************************************************************)
(* CostRecords.                                                            *)
(***************************************************************************)
\* One billed usage as BigQuery returns it, in UTC and with its negative credits
\* summed up, and as a CSV export writes it, in the zone of the export.
AsBigQuery(u) ==
  [project_id |-> u.project, service_description |-> u.service, sku_description |-> u.sku,
   usage_start_time |-> [local |-> u.start, zone |-> 0],
   usage_end_time |-> [local |-> u.start + 1, zone |-> 0],
   cost |-> u.cost, discount_amount |-> u.credits, labels |-> u.labels]
AsCsv(u) ==
  LET at(t) == [local |-> IF u.zone = Naive THEN t ELSE t + u.zone, zone |-> u.zone]
  IN [billing_account_id |-> u.billing, project_id |-> u.project,
      service_description |-> u.service, sku_description |-> u.sku, usage_start_time |-> at(u.start),
      usage_end_time |-> at(u.start + 1), cost |-> u.cost, currency |-> u.currency,
      labels |-> u.labels]

\* A period that is loaded from BigQuery and again from a CSV export is counted
\* once as long as the export's times are in UTC: both modes give a usage the same
\* record_id, and the second insert is dropped.  The two agree on the start, the
\* project, the category, the cost and the tags, but not on everything: only
\* BigQuery knows the credits, so that the net costs differ by exactly these, and
\* which of them is stored depends on the mode that came first.  (They also differ
\* in account and currency, on which nothing is claimed; gcp_billing.py:126-214,
\* gcp_shared.py:231-272.)
GcpModesAgree ==
  Given("gcp") =>
    LET u == input.v
        b == NormaliseRow(AsBigQuery(u))
        c == NormalizeCsvRow(AsCsv(u))
        shared == {"outcome", "project", "category", "cost", "original", "tags"}
    IN /\ [f \in shared |-> b[f]] = [f \in shared |-> c[f]]
       /\ Instant(b.start) = Instant(c.start)
       /\ c.net - b.net = Magnitude(Amount(u.credits))
       /\ u.zone \in {0, Naive} => b.id = c.id

\* What becomes of the billed amounts on their way into the table.  A row of azure,
\* aws or llm is stored with its amount (azure's converted where there is a rate,
\* and counted as dollars where there is none) or is not stored, which takes a date
\* or amount that cannot be read (for azure, aws and llm), a row without keys or id,
\* or nothing to charge (aws and llm); what ends the run is a date of another type
\* (azure), a null amount or unreadable date (aws), an unreadable token count (llm).
\* gcp, in both modes, stores every usage whose times can be read, with its
\* amount, unconverted, if that can be read and with 0 if it cannot: that money is
\* lost without a word (gcp_billing.py:170-173, gcp_shared.py:232-235).
RowsAreConserved ==
  /\ Given("azure") =>
       LET row == input.v
           billed == IF row.CostInBillingCurrency \in {Null, Empty, 0} THEN row.Cost
                     ELSE row.CostInBillingCurrency
           out == TransformRow(row, [c \in {"USD", "EUR"} |-> IF c = "EUR" THEN 2 * Scale
                                                              ELSE Scale])
       IN CASE out.outcome = "good" ->
                 /\ out.original = Amount(billed)
                 /\ out.cost = out.original * (IF row.Currency = "EUR" THEN 2 ELSE 1)
            [] out.outcome = "skip" -> Garbage \in {row.UsageDate, billed}
                                         \/ row.UsageDate = Empty
            [] OTHER -> row.UsageDate \in {Float, Null}
  /\ Given("aws") =>
       LET out == NormalizeAws(input.v)
       IN CASE out.outcome = "good" -> out.net = input.v.amount
            [] out.outcome = "skip" -> Amount(input.v.amount) <= 0 \/ input.v.keys = <<>>
            [] OTHER -> input.v.amount = Null \/ input.v.start \in {Empty, Garbage}
  /\ Given("gcp") =>
       LET b == NormaliseRow(AsBigQuery(input.v))
           c == NormalizeCsvRow(AsCsv(input.v))
           billed == IF input.v.cost \in Int THEN input.v.cost ELSE 0
       IN /\ b.outcome = "good" /\ b.cost = billed /\ b.net + b.discount = billed
          /\ c.outcome = "good" /\ c.cost = billed /\ c.net = billed
  /\ Given("llm") =>
       LET row == input.v
           out == NormalizeLlm(row)
       IN CASE out.outcome = "good" -> out.net = row.spend /\ Instant(out.end) >= Instant(out.start)
            [] out.outcome = "skip" -> \/ Amount(row.spend) <= 0
                                       \/ row.request_id \in {Null, Empty}
                                       \/ row.startTime \in {Null, Empty, Garbage}
            [] OTHER -> Garbage \in {row.prompt_tokens, row.completion_tokens, row.total_tokens}

\* README.md calls record_id a "Unique hash": two rows of one answer of the
\* Cost Management API, which differ in a column it groups by, have two ids.
RecordIdIsUnique ==
  LET stored(row) == TransformRow(row, [c \in {"USD"} |-> Scale]).outcome = "good"
  IN Given("azure") /\ stored(input.v) =>
       \A other \in {r \in AzureRows : stored(r)} :
         AzureGrouping(input.v) # AzureGrouping(other) => AzureId(input.v) # AzureId(other)

\* A refund cancels its charge exactly after conversion, whichever of the
\* stored rates the run has read, or none, and
\* a conversion is off by at most half of the smallest step (common.py:46-54).
RefundCancels ==
  Given("convert") =>
    \A rates \in LoadedRates({[currency |-> "XYZ", rate |-> input.v.rate],
                              [currency |-> "XYZ", rate |-> input.v.rate + 1]}) :
      LET usd == ConvertToUsd(input.v.cost, "XYZ", rates)
      IN /\ ConvertToUsd(-input.v.cost, "XYZ", rates) = -usd
         /\ "XYZ" \in DOMAIN rates =>
              2 * Magnitude(usd * Scale - input.v.cost * rates["XYZ"]) <= Scale

\* The stored rates are the ECB's table seen from the dollar: a euro's worth of
\* each currency is worth a euro's worth of dollars, up to rounding.  For the euro
\* this is the dollar's rate itself, as the comments in the function's body work
\* out (exchange_rates.py:155-162).  Its docstring says the inverse, "For EUR
\* itself: rate_to_usd = 1 / usd_per_eur" (exchange_rates.py:147), which the code
\* does not do and which would break this property.
RatesAreConsistent ==
  Given("ecb") =>
    LET perEur == input.v
        usd == UsdRates(perEur)
    IN /\ usd["USD"] = Scale
       /\ usd["EUR"] = perEur["USD"]
       /\ \A c \in DOMAIN perEur :
            2 * Magnitude(usd[c] * perEur[c] - perEur["USD"] * Scale) <= perEur[c]

(***************************************************************************)
(* WastageRules.                                                           *)
(***************************************************************************)
\* A resource that a later scan reports in other letter case, or with its
\* region spelled out, has the same findings under the same ids with the same
\* estimates: the rescan updates the findings it knows and adds none.
RescanFindsTheSame ==
  Given("resource") =>
    \A s \in Spellings :
      LET raw == input.v
          again == [raw EXCEPT !.id[2] = s, !.resourceGroup[2] = s, !.location[2] = s]
      IN FindingsIn({again}) = FindingsIn({raw})

\* What the remediation of a rule tells the user to do with the resource; {}
\* stands for a resource that is deleted.
Remedied(rule, raw) ==
  CASE rule = "disk.orphan" -> {[raw EXCEPT !.managedBy = "vm"]}
    [] rule = "public_ip.unattached" -> {[raw EXCEPT !.ipConfiguration = "nic"]}
    [] rule = "public_ip.basic_sku" -> {[raw EXCEPT !.skuName = "Standard"]}
    [] rule = "nic.orphan" -> {}
    [] rule = "snapshot.old" -> {}
    [] rule = "vm.stopped_with_disks" -> {[raw EXCEPT !.powerState = <<"PowerState", "running">>]}
    [] rule = "aks.idle_nodepool" -> {[raw EXCEPT !.agentPoolProfiles = @ \ {0, Nil, Blank}]}
    [] rule = "asp.oversized_nonprod" -> {[raw EXCEPT !.skuName = "B1"]}
    [] rule = "storage.legacy_kind" -> {[raw EXCEPT !.kind = "StorageV2"]}
    [] rule = "storage.ragrs_nonprod" -> {[raw EXCEPT !.skuName = "Standard_LRS"]}

\* Doing what a finding's remediation says clears it at the next scan, and
\* brings up no finding the resource did not have, except that a migrated
\* address may turn out to be attached to nothing.
RemedyClears ==
  Given("resource") =>
    \A f \in FindingsIn({input.v}) :
      LET before == {g.rule : g \in FindingsIn({input.v})}
          after == {g.rule : g \in FindingsIn(Remedied(f.rule, input.v))}
      IN /\ f.rule \notin after
         /\ after \subseteq before \cup
              (IF f.rule = "public_ip.basic_sku" THEN {"public_ip.unattached"} ELSE {})

(***************************************************************************)
(* CostQueries.                                                            *)
(***************************************************************************)
\* The endpoints tell one story about a period: the summary, the totals, the list,
\* the breakdown and by-sku's sums over all time show the same money, each as long
\* as its limit does not cut in; so does the daily series if the period starts at
\* midnight and no usage of its last day is later than its end; the dashboard shows
\* what remains without the providers it does not show.  The export has the rows of
\* the list but writes their net cost as it is: it adds up to less, by the full
\* cost of the rows whose discount eats all of it, which the others count as
\* if there were no discount (costs.py:77, :171, :216).
AnswersAgree ==
  Given("query") =>
    LET q == input.v
        window == IF q.window = Unset THEN "mtd" ELSE q.window
        summary == CostSummary(q.rows, window, Unset, q.end)
        hidden == {r \in q.rows : r.provider \notin Shown}
        daily == DailyCosts(q.rows, window, Unset, q.end)
        exports == ExportCosts(q.rows, window, Unset, q.end, q.end)
        from == ResolveWindow(window, Unset, q.end)
    IN /\ CostTotals(q.rows, q.window, Unset, q.end).mtd = summary.total
       /\ \A x \in exports :
            Cardinality(DOMAIN x) < ExportLimit =>
              SumValues(x) = summary.total - SumOf({r \in DOMAIN x : r.net = 0})
       /\ \A l \in ListCosts(q.rows, window, Unset, Unset, q.end, 1, 50) :
            l.total < ListLimit =>
              /\ SumValues(l.totals) = summary.total
              /\ \A x \in exports : Cardinality(DOMAIN x) < ExportLimit => DOMAIN x = l.data
       /\ \A b \in CostBreakdown(q.rows, window, Unset, q.end) :
            /\ Cardinality(DOMAIN b) < GroupLimit => SumValues(b) = summary.total
            /\ DOMAIN b \subseteq UNION {SkusByProvider(q.rows, k) : k \in DOMAIN summary.by_provider}
       /\ \A b \in CostsBySku(q.rows, Unset) :
            Cardinality(DOMAIN b) < GroupLimit => SumValues(b) = SumOf(q.rows)
       /\ DashboardStats(q.rows, q.window, q.end).total
            = CostSummary(q.rows \ hidden, window, Unset, q.end).total
       /\ from % Day = 0 /\ (\A r \in q.rows : Date(r.start) = Date(q.end) => r.start <= q.end)
            => SumValues([d \in DOMAIN daily |-> SumValues(daily[d])]) = summary.total

\* /costs/totals compares a period with the one before it.  The two are equally
\* long, and each usage between the start of the earlier and the end of the later
\* is counted once, unless it starts in the gap between them, which is shorter than
\* a second: then it is counted in neither.  A usage on a whole second, as every
\* daily and hourly row is, falls into the gap only if the period is counted back
\* (7d, 30d, 90d) from an end between two seconds, as now() is; never if the
\* period is the month to date or ends on a whole second (costs.py:198-213).
PeriodsTile ==
  Given("query") =>
    LET q == input.v
        p == Periods(q.window, Unset, q.end)
        t == CostTotals(q.rows, q.window, Unset, q.end)
        gap == {r \in q.rows : p.prevEnd < r.start /\ r.start < p.from}
        span == {r \in q.rows : p.prevFrom <= r.start /\ r.start <= q.end}
    IN /\ p.prevEnd - p.prevFrom = q.end - p.from
       /\ t.mtd + t.prev = SumOf(span \ gap)
       /\ q.window \in {"mtd", Unset} \/ q.end % Second = 0
            => \A r \in gap : r.start % Second # 0
=============================================================================
