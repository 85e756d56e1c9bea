----------------------------- MODULE Operations -----------------------------
(***************************************************************************)
(* OperationsService for one organization: what overview and issues        *)
(* compute from orders, stock and the policy, and the acknowledgement of   *)
(* alerts while those change.  overview and issues read one snapshot; what *)
(* several queries of one snapshot are worth is shown in SalesAnalytics.   *)
(*                                                                         *)
(* Orders are snapshots from a catalogue; an instant counts minutes.  The  *)
(* details of an issue's text are left out, and the averages and the       *)
(* service level that stand beside the counts.                             *)
(***************************************************************************)
EXTENDS Integers, FiniteSetsExt, Functions

CONSTANTS
  OrderSnapshots, \* order snapshots that may be ingested, see OperationalOrder
  Policies,      \* thresholds an administrator may set, see Policy
  DateRanges,    \* [from, to]: days since the start that a query may ask for
  Locations,
  Zone,          \* Zone[l]: minutes a location's clock is ahead of UTC
  Unassigned,    \* the location of an order without one; its zone is the policy's
  Day,           \* minutes of a day
  MaxStock,      \* bound on the stock of a location
  MaxAcknowledged, \* bound on the alerts acknowledged at a time
  MaxMinutes     \* bound: the clock stops here

VARIABLES
  minute,         \* transaction_timestamp()
  operationalOrders, \* committed orders with their fulfilments and returns
  stock,         \* available quantity (on hand less reserved) by location, or NoStock
  stockSeen,     \* when that was delivered
  policy,        \* operations_thresholds
  acknowledged,  \* operations_alert_acknowledgements: key |-> severity it was seen with
  request        \* acknowledgeAlert in progress

floorVars ==
  <<minute, operationalOrders, stock, stockSeen, policy, acknowledged, request>>

NotShipped == -1
NoStock == -1
Never == -1
\* received: updated_at of its fulfilment, or Never.
OperationalOrder(id, location, occurred, status, shipped, returns) ==
  [id |-> id, location |-> location, occurred |-> occurred, status |-> status,
   shipped |-> shipped, returns |-> returns, received |-> Never]
RequestedReturn(id, requested, rejected) ==
  [id |-> id, requested |-> requested, rejected |-> rejected]
Policy(warning, critical, target, cutoff, cancelledShare, returnShare, staleAfter) ==
  [warning |-> warning, critical |-> critical, target |-> target, cutoff |-> cutoff,
   cancelledShare |-> cancelledShare, returnShare |-> returnShare, staleAfter |-> staleAfter]
AnyLocation == "any"

\* Locations are finitely many and neither of what stands for all and for none of them;
\* instants count from 0.
ASSUME FloorAssumption ==
  /\ IsFiniteSet(Locations)
  /\ Unassigned \notin Locations /\ AnyLocation \notin Locations \cup {Unassigned}
  /\ MaxStock \in Nat
  /\ \A o \in OrderSnapshots :
       /\ o = OperationalOrder(o.id, o.location, o.occurred, o.status, o.shipped, o.returns)
       /\ o.location \in Locations \cup {Unassigned}
       /\ o.occurred \in Nat /\ o.shipped \in Nat \cup {NotShipped}
       /\ IsFiniteSet(o.returns) /\ \A r \in o.returns : r.requested \in Nat

\* What a query selects by, once it is normalized.
OverviewFilters ==
  {[location |-> l, from |-> dates.from, to |-> dates.to] :
     l \in Locations \cup {AnyLocation}, dates \in DateRanges}
NoRequest == [at |-> "idle"]

FloorInit ==
  /\ minute = 0 /\ operationalOrders = {}
  /\ stock = [l \in Locations |-> NoStock]
  /\ stockSeen = [l \in Locations |-> Never]
  /\ policy \in Policies
  /\ acknowledged = <<>>
  /\ request = NoRequest

-----------------------------------------------------------------------------
(* What the queries compute.                                               *)

Commercial(o) == o.status \notin {"cancelled", "refunded"}
Shipped(o) == o.shipped # NotShipped

\* due_at: the cutoff of the local day, or of the next one, plus the target.
Due(o) ==
  LET zone == IF o.location = Unassigned THEN 0 ELSE Zone[o.location]
      local == o.occurred + zone
      day == (local \div Day) + (IF local % Day > policy.cutoff THEN 1 ELSE 0)
  IN  (day * Day + policy.cutoff - zone) + policy.target

InBacklog(o) == Commercial(o) /\ ~Shipped(o)
Late(o) == Commercial(o) /\ Shipped(o) /\ o.shipped > Due(o)
Aged(o, age) == InBacklog(o) /\ minute - o.occurred >= age

HasReturn(o) == \E r \in o.returns : ~r.rejected

\* From the first day until before the last one.
InDates(t, f) == f.from * Day <= t /\ t < f.to * Day

\* locationPredicate
Located(o, f) == f.location \in {AnyLocation, o.location}

\* operationalOrders: by date and location.  Stock and returns are not dated by the order.
Scoped(f) == {o \in operationalOrders : InDates(o.occurred, f) /\ Located(o, f)}
StockScope(f) == {l \in Locations : f.location \in {AnyLocation, l}}

\* Reorder point and buffer together are 1 here.
LowStock(l) == stock[l] # NoStock /\ stock[l] <= 1
OutOfStock(l) == stock[l] # NoStock /\ stock[l] <= 0

Share(part, whole) == IF whole = 0 THEN 0 ELSE (2 * 10000 * part + whole) \div (2 * whole)

\* metrics
Metrics(f) ==
  LET scoped == Scoped(f)
      commercial == {o \in scoped : Commercial(o)}
  IN  [backlog |-> Cardinality({o \in scoped : InBacklog(o)}),
       cancelled |-> Share(Cardinality({o \in scoped : o.status = "cancelled"}),
                           Cardinality(scoped)),
       returned |-> Share(Cardinality({o \in scoped : HasReturn(o)}), Cardinality(commercial)),
       lowStock |-> Cardinality({l \in StockScope(f) : LowStock(l)})]

\* fault: orders without a location have no row
LocationsOnly(f) == StockScope(f)

\* The rows of the location table: locations, and one for orders without any.
Dimensions(f) ==
  StockScope(f) \cup {o.location : o \in {x \in Scoped(f) : x.location = Unassigned}}

\* sourceStatus
SourceStatus(received) ==
  IF received = Never THEN "missing"
  ELSE IF minute - received > policy.staleAfter THEN "delayed" ELSE "current"

\* locations
LocationRow(f, l) ==
  LET here == {o \in Scoped(f) : o.location = l}
      low == l # Unassigned /\ LowStock(l)
  IN  [backlog |-> Cardinality({o \in here : InBacklog(o)}),
       critical |-> Cardinality({o \in here : Aged(o, policy.critical)}),
       late |-> Cardinality({o \in here : Late(o)}),
       lowStock |-> IF low THEN 1 ELSE 0,
       out |-> low /\ OutOfStock(l),
       source |-> SourceStatus(IF l = Unassigned THEN Never ELSE stockSeen[l])]

Rows(f) == [l \in Dimensions(f) |-> LocationRow(f, l)]

\* issueRows; each return that is not rejected is one, of the day it was requested.
Issue(type, severity, id) == [type |-> type, severity |-> severity, id |-> id]
BacklogIssue(o) ==
  Issue("backlog", IF Aged(o, policy.critical) THEN "critical" ELSE "warning", o.id)
Issues(f) ==
  {BacklogIssue(o) : o \in {x \in Scoped(f) : Aged(x, policy.warning)}}
    \cup {Issue("late-fulfilment", "warning", o.id) : o \in {x \in Scoped(f) : Late(x)}}
    \cup {Issue("low-stock", IF OutOfStock(l) THEN "critical" ELSE "warning", l) :
            l \in {x \in StockScope(f) : LowStock(x)}}
    \cup {Issue("cancellation", "warning", o.id) :
            o \in {x \in Scoped(f) : x.status = "cancelled"}}
    \cup UNION {{Issue("return", "info", r.id) :
                   r \in {x \in o.returns : ~x.rejected /\ InDates(x.requested, f)}} :
                o \in {x \in operationalOrders : Located(x, f)}}

-----------------------------------------------------------------------------
(* The health of the sources.                                              *)

Latest(instants) == Max(instants \cup {Never})

\* source_updated_at: the shop changes the order when it is placed, when it ships and
\* when a return is requested.
SourceUpdated(o) == Max({o.occurred, o.shipped} \cup {r.requested : r \in o.returns})

SourceHealth ==
  [orders      |-> SourceStatus(Latest({SourceUpdated(o) : o \in operationalOrders})),
   fulfilments |-> SourceStatus(Latest({o.received : o \in operationalOrders})),
   inventory   |-> SourceStatus(Latest({stockSeen[l] : l \in Locations}))]

Importing(pending, failed) == pending \/ failed

Statuses(sources) == {sources[s] : s \in DOMAIN sources}

\* health: pending, failed say whether an import is, or was within a day.
Health(statuses, pending, failed) ==
  IF statuses = {"missing"} THEN "empty"
  ELSE IF Importing(pending, failed) THEN "partial"
  ELSE IF "missing" \in statuses THEN "missing"
  ELSE IF "delayed" \in statuses THEN "delayed" ELSE "healthy"

-----------------------------------------------------------------------------
(* buildAlerts.                                                            *)

Key(type, location, severity) == [type |-> type, location |-> location, severity |-> severity]

Alert(type, location, severity) ==
  [key |-> Key(type, location, severity), severity |-> severity]

SeverityIf(critical) == IF critical THEN "critical" ELSE "warning"

Alerts(f) ==
  LET rows == Rows(f)
      with(field) == {l \in DOMAIN rows : rows[l][field] > 0}
  IN  {Alert("backlog", l, SeverityIf(rows[l].critical > 0)) : l \in with("backlog")}
        \cup {Alert("low-stock", l, SeverityIf(rows[l].out)) : l \in with("lowStock")}
        \cup {Alert("late-fulfilment", l, "warning") : l \in with("late")}
        \cup (IF Metrics(f).cancelled >= policy.cancelledShare
                THEN {Alert("cancellation", AnyLocation, "warning")} ELSE {})
        \cup (IF Metrics(f).returned >= policy.returnShare
                THEN {Alert("return", AnyLocation, "warning")} ELSE {})

-----------------------------------------------------------------------------
(* What changes.                                                           *)

MinutePasses ==
  /\ minute < MaxMinutes
  /\ minute' = minute + 1
  /\ UNCHANGED <<operationalOrders, stock, stockSeen, policy, acknowledged, request>>

\* ingestOrder: the snapshot replaces what was known of the order.
IngestOrder ==
  /\ \E o \in OrderSnapshots :
       /\ SourceUpdated(o) <= minute
       /\ operationalOrders' = {x \in operationalOrders : x.id # o.id}
            \cup {[o EXCEPT !.received = IF Shipped(o) THEN minute ELSE Never]}
  /\ UNCHANGED <<minute, stock, stockSeen, policy, acknowledged, request>>

IngestInventory(l, quantity) ==
  /\ stock' = [stock EXCEPT ![l] = quantity]
  /\ stockSeen' = [stockSeen EXCEPT ![l] = minute]
  /\ UNCHANGED <<minute, operationalOrders, policy, acknowledged, request>>

UpdateThresholds(p) ==
  /\ policy' = p
  /\ UNCHANGED <<minute, operationalOrders, stock, stockSeen, acknowledged, request>>

\* acknowledgeAlert asks overview whether there is such an alert ...
FindAlert(f) ==
  /\ request.at = "idle" /\ Cardinality(DOMAIN acknowledged) < MaxAcknowledged
  /\ \E a \in Alerts(f) : request' = [at |-> "found", key |-> a.key, severity |-> a.severity]
  /\ UNCHANGED <<minute, operationalOrders, stock, stockSeen, policy, acknowledged>>

\* ... and records the acknowledgement in another transaction.
Acknowledge ==
  /\ request.at = "found"
  /\ acknowledged' = [k \in DOMAIN acknowledged \cup {request.key} |->
       IF k = request.key THEN request.severity ELSE acknowledged[k]]
  /\ request' = NoRequest
  /\ UNCHANGED <<minute, operationalOrders, stock, stockSeen, policy>>

ReopenAlert(k) ==
  /\ k \in DOMAIN acknowledged
  /\ acknowledged' = [j \in DOMAIN acknowledged \ {k} |-> acknowledged[j]]
  /\ UNCHANGED <<minute, operationalOrders, stock, stockSeen, policy, request>>

FloorNext ==
  \/ MinutePasses \/ IngestOrder \/ Acknowledge
  \/ \E l \in Locations, n \in 0..MaxStock : IngestInventory(l, n)
  \/ \E p \in Policies : UpdateThresholds(p)
  \/ \E f \in OverviewFilters : FindAlert(f)
  \/ \E k \in DOMAIN acknowledged : ReopenAlert(k)

FloorSpec == FloorInit /\ [][FloorNext]_floorVars

-----------------------------------------------------------------------------
(* Properties.                                                             *)

\* What the docs call the states of the health: healthy only if every source is
\* current and no import is under way or failed, empty only if nothing is there to be
\* counted; inventory is as fresh as the freshest of the location rows.
HealthReconciles ==
  LET sources == SourceHealth
      statuses == Statuses(sources)
  IN  \A f \in OverviewFilters : f.location = AnyLocation =>
        LET rows == Rows(f)
        IN  /\ \A pending, failed \in BOOLEAN :
                 /\ Health(statuses, pending, failed) = "healthy" =>
                      /\ ~pending /\ ~failed
                      /\ \E l \in DOMAIN rows : rows[l].source = "current"
                 /\ Health(statuses, pending, failed) = "empty" =>
                      \A l \in DOMAIN rows : rows[l].backlog = 0 /\ rows[l].lowStock = 0
            /\ Locations # {} => \E l \in Locations : rows[l].source = sources.inventory

\* Cards, location rows, issue pages and health, computed by different queries, agree:
\* no waiting, late, cancelled or low position is in one and missing in another.  Returns
\* are not among them: the card counts orders of the dates that have one, the list returns
\* requested on those dates.
OverviewReconciles ==
  /\ HealthReconciles
  /\ \A f \in OverviewFilters :
       LET rows == Rows(f)
           sum(field) == SumFunction([l \in DOMAIN rows |-> rows[l][field]])
           issues == Issues(f)
           listed(type) == Cardinality({i \in issues : i.type = type})
           metrics == Metrics(f)
       IN  /\ sum("backlog") = metrics.backlog /\ listed("backlog") <= metrics.backlog
           /\ sum("lowStock") = metrics.lowStock /\ listed("low-stock") = metrics.lowStock
           /\ sum("late") = listed("late-fulfilment")
           /\ metrics.cancelled = Share(listed("cancellation"), Cardinality(Scoped(f)))
=============================================================================
