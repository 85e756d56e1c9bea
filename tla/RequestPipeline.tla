-------------------------- MODULE RequestPipeline ---------------------------
(***************************************************************************)
(* One request of the API from its arrival to its answer: the edge hook,   *)
(* the guards in the order NestJS calls them, the handler under its time   *)
(* budget, and the attempts a caller makes after an answer that does not   *)
(* say what happened.                                                      *)
(*                                                                         *)
(* The route table is that of the controllers; routes that differ in       *)
(* nothing the pipeline looks at are one route here.  A handler's own work *)
(* is one transaction that applies, is a replay, is declined or fails: the *)
(* modules of the components say which.                                    *)
(***************************************************************************)
EXTENDS Integers, Sequences, FiniteSets

CONSTANTS
  Carried,       \* which proofs a request may carry: a set of sets
  MaxTries,      \* how often the caller attempts what it wants
  MaxChanges     \* how often the world changes around the requests

ASSUME PipelineAssumption == MaxTries \in Nat

VARIABLES
  redis,         \* whether Redis answers
  session,       \* whether the caller's session is stored
  account,       \* whether the caller's user row exists
  roleNow,       \* the caller's role in the organization
  generation,    \* how often the organization's cached answers were invalidated
  changes,       \* how often the world has changed
  attempts,      \* the attempts, by number
  lastReceived,  \* the attempts by which the endpoint's last_received_at was written
  held           \* history: what each attempt has met since it arrived

requestVars ==
  <<redis, session, account, roleNow, generation, changes, attempts, lastReceived, held>>

AllRoles == {"OWNER", "ADMIN", "ANALYST", "VIEWER"}
NoRole   == "NONE"

Unanswered == 0
Lost       == 1       \* the connection broke before an answer
Done       == 200     \* any answer of success, redirects included
Declined   == 409     \* any answer by which a handler declines: 403, 404, 409 or 429,
                   \* or 400 for a query it cannot read

-----------------------------------------------------------------------------
(* The routes.                                                             *)

Route(area, kind, guards, roles, keyed, invalidates) ==
  [area |-> area, kind |-> kind, guards |-> guards, roles |-> roles,
   keyed |-> keyed, invalidates |-> invalidates]

Anyone    == <<>>
SignedIn  == <<"session", "csrf">>
Member    == <<"session", "csrf", "role">>
Monitor   == <<"monitor">>

MemberRead(area, roles)  == Route(area, "read", Member, roles, FALSE, FALSE)
MemberWrite(area, roles) == Route(area, "write", Member, roles, FALSE, FALSE)
Keyed(route)             == [route EXCEPT !.keyed = TRUE]
Invalidating(route)      == [route EXCEPT !.invalidates = TRUE]

\* The roles of the controller hold for a handler that names none.
SalesRoutes ==
  LET everyone == AllRoles
  IN  {MemberRead("sales", everyone), Keyed(MemberWrite("sales", everyone))}

OperationsRoutes ==
  {MemberRead("operations", AllRoles),
   Invalidating(MemberWrite("thresholds", {"OWNER", "ADMIN"})),
   Invalidating(MemberWrite("alerts", {"OWNER", "ADMIN", "ANALYST"}))}

\* fault: settings and jobs keep the roles of their controller.
GovernanceRoutesOfController ==
  LET managers == {"OWNER", "ADMIN"}
  IN  {MemberRead("governance", managers), MemberWrite("invitations", managers),
       MemberWrite("settings", managers), Keyed(MemberWrite("jobs", managers))}

GovernanceRoutes ==
  LET managers == {"OWNER", "ADMIN"}
  IN  {MemberRead("governance", managers), MemberWrite("invitations", managers),
       MemberWrite("settings", {"OWNER"}), Keyed(MemberWrite("jobs", {"OWNER"}))}

TeamRoutes ==
  {MemberRead("team", {"OWNER", "ADMIN"}), MemberWrite("team", {"OWNER", "ADMIN"})}

DataRoutes ==
  {Invalidating(Keyed(MemberWrite("ingestion", {"OWNER", "ADMIN", "ANALYST"})))}

ImportRoutes ==
  {MemberRead("imports", {"OWNER", "ADMIN", "ANALYST"}),
   Invalidating(Keyed(MemberWrite("imports", {"OWNER", "ADMIN", "ANALYST"})))}

WebhookRoutes ==
  {MemberRead("webhooks", {"OWNER", "ADMIN"}), MemberWrite("webhooks", {"OWNER", "ADMIN"})}

\* A delivery proves itself by its signature, inside the handler.
DeliveryRoutes ==
  {Invalidating(Keyed(Route("delivery", "write", Anyone, {}, FALSE, FALSE)))}

ProfileRoutes ==
  {Route("profile", kind, SignedIn, {}, FALSE, FALSE) : kind \in {"read", "write"}}

OrganizationRoutes ==
  {Route("organizations", kind, SignedIn, {}, FALSE, FALSE) : kind \in {"read", "write"}}

AcceptanceRoutes ==
  {Route("acceptance", "write", SignedIn, {}, FALSE, FALSE)}

\* Whoever asks who it is needs no session; leaving does.
AuthRoutes ==
  {Route("auth", "whoami", Anyone, {}, FALSE, FALSE),
   Route("auth", "leave", SignedIn, {}, FALSE, FALSE)}

HealthRoutes ==
  {Route("health", kind, Anyone, {}, FALSE, FALSE) : kind \in {"live", "ready"}}

MetricsRoutes ==
  {Route("metrics", "read", Monitor, {}, FALSE, FALSE)}

Routes ==
  UNION {SalesRoutes, OperationsRoutes, GovernanceRoutes, TeamRoutes, DataRoutes,
         ImportRoutes, WebhookRoutes, DeliveryRoutes, ProfileRoutes, OrganizationRoutes,
         AcceptanceRoutes, AuthRoutes, HealthRoutes, MetricsRoutes}

SafeKinds == {"read", "whoami", "live", "ready"}
IsHealth(route)   == route.area = "health"
IsExempt(route)   == route.area \in {"health", "metrics"}

-----------------------------------------------------------------------------
(* What each check answers: Done lets the request on.                      *)

AcceptsEdgeRequest(a) ==
  IF IsHealth(a.route) \/ "edge" \in a.carries THEN {Done} ELSE {404}

Enforce(a) ==
  IF IsExempt(a.route) THEN {Done} ELSE IF redis THEN {Done, 429} ELSE {503}

\* A cookie is needed before Redis is asked, and the user row after it.
Authenticate(a) ==
  IF "cookie" \notin a.carries THEN {401}
  ELSE IF ~redis THEN {503}
  ELSE IF session /\ account THEN {Done, 500, 503} ELSE {401}

CsrfVerdict(a) ==
  IF a.route.kind \in SafeKinds \/ {"origin", "token"} \subseteq a.carries
  THEN {Done} ELSE {403}

\* An organization that is no identifier is refused before the role is read.
RoleVerdict(a) ==
  IF "id" \notin a.carries THEN {400}
  ELSE IF roleNow \in a.route.roles THEN {Done, 500, 503} ELSE {403, 500, 503}

MonitorVerdict(a) ==
  IF "monitor" \in a.carries THEN {Done} ELSE {401}

Verdicts(a, guard) ==
  CASE guard = "edge"    -> AcceptsEdgeRequest(a)
    [] guard = "rate"    -> Enforce(a)
    [] guard = "session" -> Authenticate(a)
    [] guard = "csrf"    -> CsrfVerdict(a)
    [] guard = "role"    -> RoleVerdict(a)
    [] guard = "monitor" -> MonitorVerdict(a)

-----------------------------------------------------------------------------
(* An attempt: the guards still to pass, where it is, what it was          *)
(* answered, whether it took effect and whether the metrics counted it.    *)

NotMade ==
  [pc |-> "none", route |-> CHOOSE r \in HealthRoutes : r.kind = "live", carries |-> {}, guards |-> <<>>,
   answer |-> Unanswered, applied |-> FALSE, counted |-> FALSE]

Made(route, carries) ==
  [NotMade EXCEPT !.pc = "guards", !.route = route, !.carries = carries,
                  !.guards = <<"edge", "rate">> \o route.guards]

\* The handler's answer reaches caller and metrics unless the budget ended first.
Answered(a, status) ==
  IF a.answer = Unanswered
  THEN [a EXCEPT !.pc = "over", !.answer = status, !.counted = TRUE]
  ELSE [a EXCEPT !.pc = "over"]

Running(a) == a.pc \in {"guards", "handler", "invalidate"}

RequestsInit ==
  /\ redis \in BOOLEAN
  /\ session = TRUE
  /\ account = TRUE
  /\ roleNow \in AllRoles \cup {NoRole}
  /\ generation = 0
  /\ changes = 0
  /\ attempts = [n \in 1..MaxTries |-> NotMade]
  /\ lastReceived = {}
  /\ held = [n \in 1..MaxTries |-> [roles |-> {}, session |-> FALSE, outage |-> FALSE]]

Inconclusive == {Lost, 408, 500, 503}

\* A caller tries a write again that no answer has settled, with the key it used before.
Receive(n) ==
  /\ attempts[n].pc = "none"
  /\ \E route \in Routes, carries \in Carried :
       /\ n > 1 => /\ attempts[n - 1].answer \in Inconclusive
                   /\ route = attempts[n - 1].route /\ route.kind = "write"
                   /\ carries = attempts[n - 1].carries
       /\ attempts' = [attempts EXCEPT ![n] = Made(route, carries)]
  /\ held' = [held EXCEPT ![n] = [roles |-> {roleNow}, session |-> session, outage |-> ~redis]]
  /\ UNCHANGED <<redis, session, account, roleNow, generation, changes, lastReceived>>

\* The next guard lets the request on or ends it; the filter answers for a guard.
Guard(n) ==
  LET a == attempts[n] IN
  /\ a.pc = "guards" /\ a.guards # <<>>
  /\ \E status \in Verdicts(a, Head(a.guards)) :
       attempts' = [attempts EXCEPT ![n] =
         IF status = Done THEN [a EXCEPT !.guards = Tail(@)]
                          ELSE [a EXCEPT !.pc = "over", !.answer = status]]
  /\ session' = (session /\ (Head(a.guards) = "session" /\ "cookie" \in a.carries /\ redis => account))
  /\ UNCHANGED <<redis, account, roleNow, generation, changes, lastReceived, held>>

\* A delivery is read as far as its identifiers, any other request as a whole.
Malformed(a) ==
  IF a.route.area = "delivery" THEN "id" \notin a.carries
  ELSE a.route.kind = "write" /\ "body" \notin a.carries

\* Past its guards the request is parsed: the interceptors count and limit it from here.
Parse(n) ==
  LET a == attempts[n] IN
  /\ a.pc = "guards" /\ a.guards = <<>>
  /\ attempts' = [attempts EXCEPT ![n] =
       IF Malformed(a) THEN Answered(a, 400) ELSE [a EXCEPT !.pc = "handler"]]
  /\ UNCHANGED <<redis, session, account, roleNow, generation, changes, lastReceived, held>>

\* The signature of a delivery is compared; when it holds, a transaction of its own notes
\* the time, before the order is read.
Verify(n) ==
  LET a == attempts[n] IN
  /\ a.pc = "handler" /\ a.route.area = "delivery" /\ n \notin lastReceived
  /\ IF "signature" \in a.carries
     THEN lastReceived' = lastReceived \cup {n} /\ UNCHANGED attempts
     ELSE /\ \E status \in {400, 401} :
               attempts' = [attempts EXCEPT ![n] = Answered(a, status)]
          /\ UNCHANGED lastReceived
  /\ UNCHANGED <<redis, session, account, roleNow, generation, changes, held>>

\* The order of a verified delivery cannot be read.
RefuseOrder(n) ==
  /\ attempts[n].pc = "handler" /\ n \in lastReceived /\ "body" \notin attempts[n].carries
  /\ attempts' = [attempts EXCEPT ![n] = Answered(@, 400)]
  /\ UNCHANGED <<redis, session, account, roleNow, generation, changes, lastReceived, held>>

\* fault: a key that was used does not stop the work.
NeverReplays(n) == FALSE

ReplaysKey(n) ==
  attempts[n].route.keyed /\ \E m \in 1..MaxTries : attempts[m].applied

\* A read answers; Redis and the database decide for the probes and the session.
HandleRead(n) ==
  LET a == attempts[n] IN
  /\ a.pc = "handler" /\ a.route.kind \in SafeKinds
  /\ \E status \in
       CASE a.route.kind = "live"   -> {Done}
         [] a.route.kind = "ready"  -> IF redis THEN {Done, 503} ELSE {503}
         [] a.route.kind = "whoami" -> IF "cookie" \notin a.carries \/ redis THEN {Done, 500, 503} ELSE {503}
         [] a.route.kind = "read"   -> IF a.route.area = "metrics" THEN {Done} ELSE {Done, Declined, 500, 503} :
       attempts' = [attempts EXCEPT ![n] = Answered(a, status)]
  /\ session' = (session /\ (a.route.kind = "whoami" /\ "cookie" \in a.carries /\ redis => account))
  /\ UNCHANGED <<redis, account, roleNow, generation, changes, lastReceived, held>>

\* The work of a write begins with a body that was read, of a delivery after its signature.
AtWork(n) ==
  LET a == attempts[n] IN
  /\ a.pc = "handler" /\ a.route.kind = "write" /\ "body" \in a.carries
  /\ a.route.area = "delivery" => n \in lastReceived

\* The transaction of a write commits, or finds its key used.
HandleWrite(n) ==
  LET a == attempts[n]
      done == [a EXCEPT !.applied = ~ReplaysKey(n)]
  IN
  /\ AtWork(n)
  /\ attempts' = [attempts EXCEPT ![n] =
       IF a.route.invalidates THEN [done EXCEPT !.pc = "invalidate"] ELSE Answered(done, Done)]
  /\ UNCHANGED <<redis, session, account, roleNow, generation, changes, lastReceived, held>>

\* It is declined, or the database fails, under the verification too.
DeclineWrite(n) ==
  /\ attempts[n].pc = "handler" /\ attempts[n].route.kind = "write"
  /\ \E status \in {500, 503} \cup (IF AtWork(n) THEN {Declined} ELSE {}) :
       attempts' = [attempts EXCEPT ![n] = Answered(@, status)]
  /\ UNCHANGED <<redis, session, account, roleNow, generation, changes, lastReceived, held>>

\* It commits, and the answer to COMMIT is lost.
LoseCommit(n) ==
  /\ AtWork(n)
  /\ attempts' = [attempts EXCEPT ![n] = Answered([@ EXCEPT !.applied = ~ReplaysKey(n)], 500)]
  /\ UNCHANGED <<redis, session, account, roleNow, generation, changes, lastReceived, held>>

\* Logging out removes the session.
Leave(n) ==
  LET a == attempts[n] IN
  /\ a.pc = "handler" /\ a.route.kind = "leave"
  /\ attempts' = [attempts EXCEPT ![n] =
       IF redis THEN Answered([a EXCEPT !.applied = TRUE], Done) ELSE Answered(a, 503)]
  /\ session' = (session /\ ~redis)
  /\ UNCHANGED <<redis, account, roleNow, generation, changes, lastReceived, held>>

\* Without Redis the invalidation is skipped, and the answer is the same.
Invalidate(n) ==
  /\ attempts[n].pc = "invalidate"
  /\ generation' = IF redis THEN generation + 1 ELSE generation
  /\ attempts' = [attempts EXCEPT ![n] = Answered(@, Done)]
  /\ UNCHANGED <<redis, session, account, roleNow, changes, lastReceived, held>>

\* fault: only reads have a budget.
TimeOutOfReads(n) ==
  /\ attempts[n].pc = "handler" /\ attempts[n].route.kind = "read"
  /\ attempts[n].answer = Unanswered
  /\ attempts' = [attempts EXCEPT ![n].answer = 408]
  /\ UNCHANGED <<redis, session, account, roleNow, generation, changes, lastReceived, held>>

\* The budget ends: the caller is answered, and the handler goes on.
TimeOut(n) ==
  /\ attempts[n].pc \in {"handler", "invalidate"} /\ attempts[n].answer = Unanswered
  /\ attempts' = [attempts EXCEPT ![n].answer = 408]
  /\ UNCHANGED <<redis, session, account, roleNow, generation, changes, lastReceived, held>>

-----------------------------------------------------------------------------
(* The world around the requests.                                          *)

\* A change matters only to a request that runs.
Change ==
  /\ changes < MaxChanges
  /\ \E n \in 1..MaxTries : Running(attempts[n])
  /\ changes' = changes + 1

\* What an attempt meets while it runs.
Meeting(n, met) == IF Running(attempts[n]) THEN met ELSE held[n]

RoleChanges ==
  /\ Change
  /\ roleNow' \in (AllRoles \cup {NoRole}) \ {roleNow}
  /\ held' = [n \in 1..MaxTries |->
       Meeting(n, [held[n] EXCEPT !.roles = @ \cup {roleNow'}])]
  /\ UNCHANGED <<redis, session, account, generation, attempts, lastReceived>>

SessionEnds ==
  /\ Change
  /\ session' = FALSE
  /\ UNCHANGED <<redis, account, roleNow, generation, attempts, lastReceived, held>>

AccountRemoved ==
  /\ Change
  /\ account' = FALSE
  /\ UNCHANGED <<redis, session, roleNow, generation, attempts, lastReceived, held>>

RedisChanges ==
  /\ Change
  /\ redis' = ~redis
  /\ held' = [n \in 1..MaxTries |-> Meeting(n, [held[n] EXCEPT !.outage = @ /\ ~redis'])]
  /\ UNCHANGED <<session, account, roleNow, generation, attempts, lastReceived>>

\* The process ends: what ran in it goes with it, committed work stays.
ApiCrashes ==
  /\ Change
  /\ attempts' = [n \in 1..MaxTries |->
       IF Running(attempts[n])
       THEN [attempts[n] EXCEPT !.pc = "over",
                                !.answer = IF @ = Unanswered THEN Lost ELSE @]
       ELSE attempts[n]]
  /\ UNCHANGED <<redis, session, account, roleNow, generation, lastReceived, held>>

RequestsNext ==
  \/ \E n \in 1..MaxTries :
       \/ Receive(n) \/ Guard(n) \/ Parse(n) \/ Verify(n) \/ RefuseOrder(n)
       \/ HandleRead(n) \/ HandleWrite(n) \/ DeclineWrite(n) \/ LoseCommit(n)
       \/ Leave(n) \/ Invalidate(n) \/ TimeOut(n)
  \/ RoleChanges \/ SessionEnds \/ AccountRemoved \/ RedisChanges \/ ApiCrashes

RequestsSpec == RequestsInit /\ [][RequestsNext]_requestVars

\* The guards are bounded by the timeouts of their stores, the handler by its budget
\* alone: nothing makes its work end.
RequestFairness ==
  \A n \in 1..MaxTries :
    /\ WF_requestVars(Guard(n))
    /\ WF_requestVars(Parse(n))
    /\ WF_requestVars(TimeOut(n))
    /\ WF_requestVars(Invalidate(n))

-----------------------------------------------------------------------------
(* The properties.                                                         *)

\* The roles the documentation gives each area: docs/OPERATIONS_INTELLIGENCE.md:49,
\* docs/GOVERNANCE.md:9-11, docs/SALES_ANALYTICS.md:7, docs/DATA_INGESTION.md:19 and 31,
\* docs/adr/0004:20, docs/adr/0009:14.
DocumentedRoles(area) ==
  CASE area \in {"sales", "operations"}                          -> AllRoles
    [] area \in {"alerts", "ingestion", "imports"}               -> AllRoles \ {"VIEWER"}
    [] area \in {"settings", "jobs"}                             -> {"OWNER"}
    [] area \in {"thresholds", "governance", "invitations", "team", "webhooks"} ->
         {"OWNER", "ADMIN"}

\* A request that met Redis down all its life is refused with 503 and changes nothing;
\* liveness stays healthy and readiness says degraded (docs/RESILIENCE.md:21 and 44).
FailsClosed(n, a) ==
  held[n].outage /\ a.answer \notin {Unanswered, Lost} =>
    IF a.route.kind = "live" THEN a.answer \in {Done, 408}
    ELSE IF IsExempt(a.route) THEN a.route.kind = "ready" => a.answer \in {503, 408}
    ELSE ~a.applied /\ a.answer \in {503, 404}

\* Whoever is let in to an organization's data, or changes it, held while the request
\* ran a role the documentation allows for it, and a session; a change by a browser
\* carried the trusted origin and the session's token, one by a sender its signature;
\* and nobody is let in without Redis.
ActsWithAuthority ==
  \A n \in 1..MaxTries : LET a == attempts[n] IN
    /\ FailsClosed(n, a)
    /\ (a.applied \/ a.answer = Done) =>
      /\ "role" \in {a.route.guards[i] : i \in DOMAIN a.route.guards} =>
           held[n].roles \cap DocumentedRoles(a.route.area) # {}
      /\ a.route.guards \in {SignedIn, Member} =>
           held[n].session /\ "cookie" \in a.carries
      /\ a.applied => IF a.route.area = "delivery" THEN "signature" \in a.carries
                      ELSE {"origin", "token"} \subseteq a.carries
    /\ n \in lastReceived => a.route.area = "delivery" /\ "signature" \in a.carries

\* An answer says what became of the work, whatever was timed out, lost or tried again
\* before it: a refusal means that the attempt did nothing of it, and left at most the
\* last_received_at of a delivery whose signature held (never one answered 401, 403, 404
\* or 429), a success that the work is done, work with an idempotency key is done once,
\* and work that was answered by its handler is counted (the refusals of guards are not,
\* though metrics.service.ts:51 counts "Completed API requests.").
AnswersTellTheEffect ==
  \A n \in 1..MaxTries : LET a == attempts[n] IN
    /\ a.answer \in {400, 401, 403, 404, Declined, 429, 503} => ~a.applied
    /\ a.answer \in {401, 403, 404, 429} => n \notin lastReceived
    /\ a.answer = Done /\ a.route.kind = "write" =>
         \E m \in 1..n : attempts[m].applied
    /\ a.applied => a.counted \/ a.answer \in {Unanswered, Lost, 408}
    /\ a.route.keyed => Cardinality({m \in 1..MaxTries : attempts[m].applied}) <= 1

\* Every request is answered, though its work may never end.
EveryRequestIsAnswered ==
  \A n \in 1..MaxTries : (attempts[n].pc # "none") ~> (attempts[n].answer # Unanswered)
=============================================================================
