--------------------------- MODULE SalesAnalytics ---------------------------
(***************************************************************************)
(* SalesAnalyticsService.overview and orderDetail for one organization:    *)
(* eight and five queries in one REPEATABLE READ transaction, while orders *)
(* are ingested, changed and purged.                                       *)
(*                                                                         *)
(* Orders are drawn from a catalogue; an instant is a day, and weeks and   *)
(* months are as short as the instance wants them.  Filters by location,   *)
(* status, product and text select orders as the one by channel does.      *)
(***************************************************************************)
EXTENDS Integers, FiniteSets, Functions

CONSTANTS
  Catalogue,      \* orders there may be, see SalesOrder
  Questions,      \* filters asked for, see Query
  DayRange,       \* longest range reported by day (45)
  WeekRange,      \* longest range reported by week (180)
  Week, Month     \* days in one

\* Amounts are whole numbers of minor units.
ASSUME AnalyticsAssumption == \A o \in Catalogue : o.total \in Int /\ o.refunded \in Int

VARIABLES
  orders,         \* committed orders
  importing,      \* whether an import is queued, processing or failed recently
  report          \* the overview in progress

analyticsVars == <<orders, importing, report>>

SalesOrder(id, day, currency, status, total, refunded, channel, lines) ==
  [id |-> id, day |-> day, currency |-> currency, status |-> status, total |-> total,
   refunded |-> refunded, channel |-> channel, lines |-> lines]
AnyCurrency == "any"
AnyChannel == "any"
Query(from, to, currency, channel) ==
  [from |-> from, to |-> to, currency |-> currency, channel |-> channel]
NoReport == [at |-> "idle"]
Unasked == "unasked"

AnalyticsInit == orders = {} /\ importing = FALSE /\ report = NoReport

\* Ingestion and retention, each in a transaction of its own; an order has one row.
OrdersChange ==
  /\ \/ \E o \in Catalogue \ orders :
          orders' = {x \in orders : x.id # o.id} \cup {o}
     \/ \E o \in orders : orders' = orders \ {o}
  /\ UNCHANGED <<importing, report>>

ImportsChange == importing' = ~importing /\ UNCHANGED <<orders, report>>

-----------------------------------------------------------------------------
(* The queries' common parts.                                              *)

\* filteredOrders: from is included, to is not.
Filtered(rows, q) ==
  {o \in rows :
    /\ q.from <= o.day /\ o.day < q.to
    /\ q.currency \in {AnyCurrency, o.currency}
    /\ q.channel \in {AnyChannel, o.channel}}

CommercialOrder(o) == o.status # "cancelled"

\* netRevenue: not less than nothing, and nothing for a cancelled order.
NetRevenue(o) ==
  IF CommercialOrder(o) /\ o.total > o.refunded THEN o.total - o.refunded ELSE 0

Revenue(rows) == SumFunction([o \in rows |-> NetRevenue(o)])
Count(rows) == Cardinality({o \in rows : CommercialOrder(o)})

\* round(), of values that are not negative
Average(rows) ==
  IF Count(rows) = 0 THEN 0 ELSE (2 * Revenue(rows) + Count(rows)) \div (2 * Count(rows))

SalesMetrics(rows) ==
  [revenue |-> Revenue(rows), count |-> Count(rows), average |-> Average(rows)]

\* comparison: basis points; "new" is the code's null.
Change(current, previous) ==
  IF previous = 0
    THEN IF current = 0 THEN 0 ELSE "new"
    ELSE IF current >= previous
           THEN ((current - previous) * 10000) \div previous
           ELSE -(((previous - current) * 10000) \div previous)

Comparisons(current, previous) == [k \in DOMAIN current |-> Change(current[k], previous[k])]

\* previousPeriod
Previous(q) == [q EXCEPT !.from = q.from - (q.to - q.from), !.to = q.from]

Granularity(q) ==
  IF q.to - q.from <= DayRange THEN "day"
  ELSE IF q.to - q.from <= WeekRange THEN "week" ELSE "month"

\* date_trunc
Bucket(g, day) ==
  CASE g = "day" -> day
    [] g = "week" -> day - (day % Week)
    [] OTHER -> day - (day % Month)

Trend(rows, q) ==
  LET g == Granularity(q)
  IN  [b \in {Bucket(g, o.day) : o \in rows} |->
        SalesMetrics({o \in rows : Bucket(g, o.day) = b})]

\* segments: the revenue of every channel and its share of all of them (the code
\* shows the eight largest; a catalogue has fewer).
Segment(mine, rows) ==
  [revenue |-> Revenue(mine), count |-> Count(mine),
   share |-> IF Revenue(rows) = 0 THEN 0 ELSE (Revenue(mine) * 10000) \div Revenue(rows)]

Segments(rows) ==
  [c \in {o.channel : o \in rows} |-> Segment({o \in rows : o.channel = c}, rows)]

\* productSegments: sales by line, before refunds.
LineSales(rows) ==
  LET sold == {o \in rows : CommercialOrder(o)}
  IN  [p \in UNION {DOMAIN o.lines : o \in rows} |->
        SumFunction([o \in {x \in sold : p \in DOMAIN x.lines} |-> o.lines[p]])]

\* freshness: how old the latest change is, is left open.
Freshness(rows, pending) ==
  IF rows = {} THEN {"empty"} ELSE IF pending THEN {"partial"} ELSE {"fresh", "stale"}

-----------------------------------------------------------------------------
(* overview(), query by query.                                             *)

\* fault: each query sees what is committed when it runs (READ COMMITTED)
LatestCommitted == [orders |-> orders, importing |-> importing]

\* What a query of the transaction sees.
Seen == report.snapshot

BeginOverview(q) ==
  /\ report.at = "idle"
  /\ report' = [at |-> "currency", query |-> q,
                snapshot |-> [orders |-> orders, importing |-> importing],
                current |-> Unasked, previous |-> Unasked, trend |-> Unasked,
                channels |-> Unasked, products |-> Unasked, status |-> Unasked,
                kpis |-> Unasked]
  /\ UNCHANGED <<orders, importing>>

\* resolveCurrency: the one asked for, or the only one in the period, or none.
ResolveCurrency ==
  LET q == report.query
      found == {o.currency : o \in Filtered(Seen.orders, q)}
  IN  /\ report.at = "currency"
      /\ IF q.currency = AnyCurrency /\ Cardinality(found) > 1
           THEN report' = [at |-> "refused", query |-> q]
           ELSE report' = [report EXCEPT !.at = "current",
                  !.query.currency = IF found = {} THEN q.currency ELSE CHOOSE c \in found : TRUE]
      /\ UNCHANGED <<orders, importing>>

\* The next query, and what it adds to the answer.
Ask(at, next, part, answer) ==
  /\ report.at = at
  /\ report' = [report EXCEPT !.at = next, ![part] = answer]
  /\ UNCHANGED <<orders, importing>>

SelectedOrders == Filtered(Seen.orders, report.query)

\* Monetary breakdowns are empty when there is no currency.
InCurrency(rows) == IF report.query.currency = AnyCurrency THEN {} ELSE rows

AskCurrent == Ask("current", "previous", "current", SalesMetrics(SelectedOrders))

AskPrevious ==
  Ask("previous", "trend", "previous",
      SalesMetrics(Filtered(Seen.orders, Previous(report.query))))

AskTrend ==
  Ask("trend", "channels", "trend", Trend(InCurrency(SelectedOrders), report.query))
AskChannels == Ask("channels", "products", "channels", Segments(InCurrency(SelectedOrders)))
AskProducts == Ask("products", "freshness", "products", LineSales(InCurrency(SelectedOrders)))

AskFreshness ==
  /\ report.at = "freshness"
  /\ \E s \in Freshness(Seen.orders, Seen.importing) :
       report' = [report EXCEPT !.at = "answered", !.status = s,
                                !.kpis = Comparisons(report.current, report.previous)]
  /\ UNCHANGED <<orders, importing>>

-----------------------------------------------------------------------------
(* orderDetail(), query by query; fulfilments and returns are read as the  *)
(* payment is.                                                             *)

OpenOrder(id) ==
  /\ report.at = "idle"
  /\ report' = [at |-> "row", id |-> id,
                snapshot |-> [orders |-> orders, importing |-> importing],
                row |-> Unasked, items |-> Unasked, refunded |-> Unasked]
  /\ UNCHANGED <<orders, importing>>

Found == {o \in Seen.orders : o.id = report.id}

OrderRow(o) == [status |-> o.status, total |-> o.total]

AskOrder == Ask("row", "items", "row", {OrderRow(o) : o \in Found})
AskItems == Ask("items", "payment", "items", {o.lines : o \in Found})
AskPayment == Ask("payment", "detailed", "refunded", {o.refunded : o \in Found})

Answered ==
  /\ report.at \in {"answered", "refused", "detailed"}
  /\ report' = NoReport
  /\ UNCHANGED <<orders, importing>>

AnalyticsNext ==
  \/ OrdersChange \/ ImportsChange
  \/ \E q \in Questions : BeginOverview(q)
  \/ ResolveCurrency \/ AskCurrent \/ AskPrevious \/ AskTrend \/ AskChannels
  \/ AskProducts \/ AskFreshness
  \/ \E o \in Catalogue : OpenOrder(o.id)
  \/ AskOrder \/ AskItems \/ AskPayment \/ Answered

AnalyticsSpec == AnalyticsInit /\ [][AnalyticsNext]_analyticsVars

-----------------------------------------------------------------------------
(* Properties.                                                             *)

Total(parts, field) == SumFunction([k \in DOMAIN parts |-> parts[k][field]])

\* The figures of one report belong to each other, whatever commits between its
\* queries: revenue and orders of the trend's buckets and of the channels, if all
\* are shown, add up to the headline figures, shares do not exceed the whole, and a
\* report that calls the organization empty reports nothing.  An order that is opened is
\* one version of it, with its own items and payment (one without a row is not found).
ReportAddsUp ==
  /\ report.at = "answered" =>
       /\ report.query.currency # AnyCurrency =>
            \A field \in {"revenue", "count"} :
              /\ Total(report.trend, field) = report.current[field]
              /\ Total(report.channels, field) = report.current[field]
       /\ Total(report.channels, "share") <= 10000
       /\ report.status = "empty" => report.current.count = 0 /\ report.previous.count = 0
  /\ report.at = "detailed" /\ report.row # {} =>
       \E o \in Catalogue :
         /\ o.id = report.id /\ report.row = {OrderRow(o)}
         /\ report.items = {o.lines} /\ report.refunded = {o.refunded}
=============================================================================
