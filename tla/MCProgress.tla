----------------------------- MODULE MCProgress -----------------------------
(***************************************************************************)
(* The liveness of the components that promise something will happen, and  *)
(* the safety of the three extended here, checked by one run: `part` says  *)
(* which component moves, the others rest in their initial states.         *)
(***************************************************************************)
EXTENDS ImportQueue, CircuitBreaker, WorkerShutdown

CONSTANTS
  MaxCrashes, NoUser, Free,
  ExportKey,        \* the one key of the exports
  Founder           \* the first owner while the members rest

VARIABLES
  part,
  exportRows, dispatch, exportWorker, audits, crashes,
  role, lock, tx,
  redis, session, account, roleNow, generation, changes, attempts, lastReceived, held

\* One export, two workers, of which one may come back late.
Exports == INSTANCE SalesExportQueue WITH
  Jobs <- {1}, Keys <- {ExportKey}, rows <- exportRows, worker <- exportWorker

Members == INSTANCE Membership WITH Users <- Keys, Requests <- Workers

\* One request with every proof a browser has; MCPlatform has the others.
Pipeline == INSTANCE RequestPipeline WITH
  Carried <- {{"edge", "cookie", "origin", "token", "id", "body"}},
  MaxTries <- 1, MaxChanges <- 1

exportVars == <<exportRows, dispatch, exportWorker, audits, crashes>>
memberVars == <<role, lock, tx>>
requestVars ==
  <<redis, session, account, roleNow, generation, changes, attempts, lastReceived, held>>
Off == 0

-----------------------------------------------------------------------------
ProgressInit ==
  /\ part \in {"imports", "breaker", "shutdown", "exports", "members", "requests"}
  /\ Init
  /\ BreakerInit
  /\ ShutdownInit
  /\ Exports!Init
  /\ Members!MembershipInit /\ (part # "members" => role[Founder] = "OWNER")
  /\ IF part = "requests" THEN Pipeline!RequestsInit
       ELSE /\ redis = Off /\ session = Off /\ account = Off /\ roleNow = Off
            /\ generation = Off /\ changes = Off /\ attempts = Off
            /\ lastReceived = Off /\ held = Off

Only(p) ==
  /\ part = p
  /\ UNCHANGED part
  /\ p # "imports" => UNCHANGED vars
  /\ p # "breaker" => UNCHANGED breakerVars
  /\ p # "shutdown" => UNCHANGED shutdownVars
  /\ p # "exports" => UNCHANGED exportVars
  /\ p # "members" => UNCHANGED memberVars
  /\ p # "requests" => UNCHANGED requestVars

ProgressNext ==
  \/ Only("imports") /\ Next
  \/ Only("breaker") /\ BreakerNext
  \/ Only("shutdown") /\ ShutdownNext
  \/ Only("exports") /\ Exports!Next
  \/ Only("members") /\ Members!MembershipNext
  \/ Only("requests") /\ Pipeline!RequestsNext

progressVars ==
  <<part, vars, breakerVars, shutdownVars, exportVars, memberVars, requestVars>>

\* The fairness of each module, for the part that moves.
ProgressFairness ==
  /\ \A w \in Workers : WF_vars(part = "imports" /\ Process(w))
  /\ \A j \in Jobs : WF_vars(part = "imports" /\ GoesStale(j))
  /\ \A c \in Calls : WF_breakerVars(part = "breaker" /\ (Succeed(c) \/ FailCall(c)))
  /\ WF_breakerVars(part = "breaker" /\ \E c \in Calls : Begin(c))
  /\ WF_breakerVars(part = "breaker" /\ ResetElapses)
  /\ \A p \in Pumps :
       /\ WF_shutdownVars(part = "shutdown" /\ (Connect(p) \/ ConnectFails(p)))
       /\ WF_shutdownVars(part = "shutdown" /\ (Commit(p) \/ Rollback(p)))
       /\ WF_shutdownVars(part = "shutdown" /\ GraceElapses(p))
  /\ WF_shutdownVars(part = "shutdown" /\ PoolEnds)
  /\ WF_shutdownVars(part = "shutdown" /\ Exit)
  /\ \A w \in Workers : WF_exportVars(part = "exports" /\ Exports!Process(w))
  /\ SF_exportVars(part = "exports" /\ \E w \in Workers : Exports!ClaimQueued(w))
  /\ WF_exportVars(part = "exports" /\ Exports!LeaseLapses)
  /\ WF_exportVars(part = "exports" /\ Exports!DispatchFallsDue)
  /\ WF_exportVars(part = "exports" /\ Exports!ClaimGoesStale(1))
  /\ \A r \in Workers :
       /\ SF_memberVars(part = "members" /\ Members!Step(r))
       /\ WF_memberVars(part = "members" /\ Members!DeadlockVictim(r))
  /\ WF_requestVars(part = "requests" /\ Pipeline!Guard(1))
  /\ WF_requestVars(part = "requests" /\ Pipeline!Parse(1))
  /\ WF_requestVars(part = "requests" /\ Pipeline!TimeOut(1))
  /\ WF_requestVars(part = "requests" /\ Pipeline!Invalidate(1))

ProgressSpec == ProgressInit /\ [][ProgressNext]_progressVars /\ ProgressFairness

-----------------------------------------------------------------------------
(* The properties of the instances, where their modules say what they are. *)

\* Exports: one whose organization keeps its dispatch row is settled or stuck.
DispatchedExportsSettle == Exports!DispatchedExportsSettle

\* Membership: waiting for each other never lasts.
EveryRequestEnds == Members!EveryRequestEnds

\* Requests: each is answered, though its work may never end.
EveryRequestIsAnswered ==
  (part = "requests" /\ attempts[1].pc # "none")
    ~> (part = "requests" /\ attempts[1].answer # Pipeline!Unanswered)
=============================================================================
