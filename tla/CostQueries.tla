----------------------------- MODULE CostQueries -----------------------------
(***************************************************************************)
(* The read side of the cost API: what the endpoints of routes/costs.py    *)
(* answer from the rows of cost_records.  Pure operators.  Time is counted *)
(* in ticks, of which a second has several: now() and the periods that are *)
(* counted back from it do not start on a whole second.  Unset is a date   *)
(* the caller left out.  An operator whose query has a LIMIT gives the set *)
(* of answers it may return, none if the request raises.                   *)
(***************************************************************************)
EXTENDS Integers, FiniteSets, FiniteSetsExt

CONSTANTS Unset,
          Second, Day, Month,   \* their lengths in ticks; months are aligned
          ListLimit,            \* LIMIT of list_costs (1000)
          ExportLimit,          \* LIMIT of export_costs (10000)
          GroupLimit            \* the limit parameter of breakdown and by-sku

Windows == {"mtd", "7d", "30d", "90d"}
ASSUME QueriesAssumption ==
  /\ {Second, Day, Month} \subseteq Nat \ {0}
  /\ Day % Second = 0 /\ Month % Second = 0
  /\ {ListLimit, ExportLimit, GroupLimit} \subseteq Nat
  /\ Unset \notin Windows

MonthStart(t) == t - (t % Month)
Date(t) == t \div Day

\* date_utils.resolve_window: where the period that ends at end starts.
ResolveWindow(window, start, end) ==
  CASE window = "mtd" -> MonthStart(end)
    [] window = "7d" -> end - 7 * Day
    [] window = "30d" -> end - 30 * Day
    [] window = "90d" -> end - 90 * Day
    [] OTHER -> IF start = Unset THEN end - 30 * Day ELSE start

\* COALESCE(NULLIF(net_cost_usd, 0), cost_usd): a row whose discount eats all
\* of it counts with its full cost.
AmountOf(r) == IF r.net # 0 THEN r.net ELSE r.cost
SumValues(f) == MapThenSumSet(LAMBDA k : f[k], DOMAIN f)
SumOf(rows) == SumValues([r \in rows |-> AmountOf(r)])
ByProvider(rows) == [p \in {r.provider : r \in rows} |->
                       SumOf({r \in rows : r.provider = p})]

\* WHERE usage_start >= from AND usage_start <= to
Between(rows, from, to) == {r \in rows : from <= r.start /\ r.start <= to}

\* ORDER BY ... LIMIT: rows that tie at the limit are any of them.
FirstRows(all, limit, Before(_, _)) ==
  {s \in SUBSET all : /\ Cardinality(s) = Min({limit, Cardinality(all)})
                      /\ \A r \in s, q \in all \ s : ~Before(q, r)}

\* /costs: the newest rows first, up to a limit; the page is only reported.  The
\* end date is a text that is never parsed: resolve_window raises when it has to
\* calculate with it.
ListCosts(rows, window, start, end, now, page, size) ==
  LET to == IF end = Unset THEN now ELSE end
      raises == end # Unset /\ (window \in Windows \/ start = Unset)
      before(r, q) == r.start > q.start \/ (r.start = q.start /\ r.cost > q.cost)
  IN {[data |-> d, totals |-> ByProvider(d), total |-> Cardinality(d),
       has_next |-> Cardinality(d) > page * size, has_prev |-> page > 1] :
        d \in IF raises THEN {}
              ELSE FirstRows(Between(rows, ResolveWindow(window, start, to), to),
                             ListLimit, before)}

\* /costs/export: the net cost of each row as it is, and by default nothing,
\* because the period that is left out starts now.
ExportCosts(rows, window, start, end, now) ==
  LET from == ResolveWindow(window, IF start = Unset THEN now ELSE start, end)
      before(r, q) == r.start > q.start
  IN {[r \in d |-> r.net] : d \in FirstRows(Between(rows, from, end), ExportLimit, before)}

\* Mutant: the default window is the last thirty days.
CurrentStartThirtyDays(window, start, end) == ResolveWindow(window, start, end)

\* /costs/totals is month to date unless it is told otherwise.
CurrentStart(window, start, end) ==
  ResolveWindow(IF window = Unset THEN "mtd" ELSE window, start, end)

\* Mutant: the periods touch.
TouchingPeriods(window, start, end) ==
  LET from == CurrentStart(window, start, end)
  IN [from |-> from, prevEnd |-> from, prevFrom |-> from - (end - from)]

\* The period against the one before, which ends a second before it starts and is
\* as long.
Periods(window, start, end) ==
  LET from == CurrentStart(window, start, end)
      prevEnd == from - Second
  IN [from |-> from, prevEnd |-> prevEnd, prevFrom |-> prevEnd - (end - from)]

CostTotals(rows, window, start, end) ==
  LET p == Periods(window, start, end)
      mtd == ByProvider(Between(rows, p.from, end))
      prev == ByProvider(Between(rows, p.prevFrom, p.prevEnd))
      providers == DOMAIN mtd \cup DOMAIN prev
      value(f, k) == IF k \in DOMAIN f THEN f[k] ELSE 0
  IN [by_provider |-> [k \in providers |-> [mtd |-> value(mtd, k), prev |-> value(prev, k)]],
      mtd |-> SumValues(mtd), prev |-> SumValues(prev)]

\* The sums a query with GROUP BY and LIMIT returns: the largest groups.
LargestGroups(sums) ==
  {g \in SUBSET DOMAIN sums :
     /\ Cardinality(g) = Min({GroupLimit, Cardinality(DOMAIN sums)})
     /\ \A k \in g, l \in DOMAIN sums \ g : sums[k] >= sums[l]}

\* /costs/by-sku: over all time, although the sum is called mtd.
CostsBySku(rows, provider) ==
  LET chosen == {r \in rows : provider \in {Unset, r.provider}}
      sums == [k \in {<<r.provider, r.project, r.service>> : r \in chosen} |->
                 SumOf({r \in chosen : <<r.provider, r.project, r.service>> = k})]
  IN {[k \in g |-> sums[k]] : g \in LargestGroups(sums)}

\* /costs/daily: whole days, so the first one counts from midnight.
DailyCosts(rows, window, start, end) ==
  LET from == ResolveWindow(window, start, end)
      chosen == {r \in rows : Date(from) <= Date(r.start) /\ Date(r.start) <= Date(end)}
  IN [d \in {Date(r.start) : r \in chosen} |->
        ByProvider({r \in chosen : Date(r.start) = d})]

CostSummary(rows, window, start, end) ==
  LET by == ByProvider(Between(rows, ResolveWindow(window, start, end), end))
  IN [by_provider |-> by, total |-> SumValues(by)]

CostBreakdown(rows, window, start, end) ==
  LET chosen == Between(rows, ResolveWindow(window, start, end), end)
      sums == [k \in {r.service : r \in chosen} |->
                 SumOf({r \in chosen : r.service = k})]
  IN {[k \in g |-> sums[k]] : g \in LargestGroups(sums)}

SkusByProvider(rows, provider) == {r.service : r \in {q \in rows : q.provider = provider}}

\* /dashboard/stats shows three providers and adds up only those.
Shown == {"azure", "gcp", "llm"}
DashboardStats(rows, range, now) ==
  LET window == IF range \in Windows THEN range ELSE "mtd"
      mtd == ByProvider(Between(rows, Periods(window, Unset, now).from, now))
      totals == [k \in Shown |-> IF k \in DOMAIN mtd THEN mtd[k] ELSE 0]
  IN [totals |-> totals, total |-> SumValues(totals)]
=============================================================================
