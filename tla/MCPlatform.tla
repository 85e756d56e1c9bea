----------------------------- MODULE MCPlatform -----------------------------
(***************************************************************************)
(* The safety of what surrounds the components: row level security under   *)
(* the pool, the API's request pipeline and its connection to Redis, and   *)
(* the web application's session, management pages and reporting periods;  *)
(* and of the overview of operations.  As in MCServices, `part` says which *)
(* of them moves, so that their states add up.                             *)
(***************************************************************************)
EXTENDS TenantIsolation, RequestPipeline, RedisConnection, WebSession, ManagementPages,
        ReportingPeriods, Operations, TLC

VARIABLE part

\* A browser, with and without its proofs; a webhook's sender; a monitor.
Browser == {"edge", "cookie", "origin", "token", "id", "body"}

GivenProofs ==
  {Browser, Browser \ {"token", "id"}, Browser \ {"cookie"}, {"monitor"},
   {"edge", "id", "body", "signature"}, {"edge", "id", "signature"}}

\* The orders, policies and dates of the overview: an order of the first day that ships
\* and returns on the second, and one of the second day.
FirstOrder(status, shipped, returns) ==
  OperationalOrder("o1", "north", 0, status, shipped, returns)
OtherOrder(status) == OperationalOrder("o2", "nowhere", 2, status, NotShipped, {})
GivenOrderSnapshots ==
  {FirstOrder("placed", NotShipped, {}),
   FirstOrder("placed", 2, {RequestedReturn("r1", 2, FALSE), RequestedReturn("r2", 3, TRUE)}),
   OtherOrder("placed"), OtherOrder("cancelled")}
GivenPolicies == {Policy(1, 2, 1, cutoff, 5000, 5000, 1) : cutoff \in {0, 1}}
GivenDates == {[from |-> 0, to |-> 2], [from |-> 1, to |-> 2]}
GivenZone == "north" :> 1

-----------------------------------------------------------------------------
PlatformInit ==
  /\ part \in {"tenants", "requests", "web", "management", "periods", "connection",
             "floor"}
  /\ TenantInit
  /\ RequestsInit /\ (part # "requests" => redis /\ roleNow = "OWNER")
  /\ ConnectionInit
  /\ WebInit
  /\ part # "web" => apiSession.access = Anonymous.access /\ navigation.to = Page("home", Unset)
  /\ ManagementInit /\ (part # "management" => pageName = "team")
  /\ PeriodsInit
  /\ part # "periods" => today = Min(Days) /\ preset = Fallback /\ openPage = "home"
  /\ FloorInit /\ (part # "floor" => policy.cutoff = 0)

Only(p) ==
  /\ part = p
  /\ UNCHANGED part
  /\ p # "tenants" => UNCHANGED tenantVars
  /\ p # "requests" => UNCHANGED requestVars
  /\ p # "web" => UNCHANGED webVars
  /\ p # "management" => UNCHANGED managementVars
  /\ p # "periods" => UNCHANGED periodVars
  /\ p # "connection" => UNCHANGED connectionVars
  /\ p # "floor" => UNCHANGED floorVars

PlatformNext ==
  \/ Only("tenants") /\ TenantNext
  \/ Only("requests") /\ RequestsNext
  \/ Only("web") /\ WebNext
  \/ Only("management") /\ ManagementNext
  \/ Only("periods") /\ PeriodsNext
  \/ Only("connection") /\ ConnectionNext
  \/ Only("floor") /\ FloorNext

PlatformSpec ==
  PlatformInit /\ [][PlatformNext]_<<part, tenantVars, requestVars, webVars, managementVars,
                                     periodVars, connectionVars, floorVars>>

\* What tells two states apart: of the parts that rest there is one state.
Moving ==
  CASE part = "tenants" -> <<part, tenantVars>>
    [] part = "requests" -> <<part, requestVars>>
    [] part = "web" -> <<part, webVars>>
    [] part = "management" -> <<part, managementVars>>
    [] part = "periods" -> <<part, periodVars>>
    [] part = "connection" -> <<part, connectionVars>>
    [] part = "floor" -> <<part, floorVars>>

Symmetry == Permutations(Connections) \cup Permutations(Callers)
=============================================================================
