# Verification of the analytics admin dashboard

TLA+ models of the parts of this repository whose correctness depends on the
order in which processes, transactions, timers, requests and answers act, checked
with TLC on small instances, and proved with TLAPS for every size where a proof is
listed. Source paths are relative to the repository root.

## 1. The system

An Nx monorepo. An API (NestJS, several replicas), workers (several replicas)
and a migration command share one PostgreSQL database; the API also uses Redis
and an OIDC provider. An Angular application and a Cloudflare edge function are
in front of it. Processes never talk to each other directly: they meet in
database rows, in row locks, in advisory locks and in Redis keys.

| Part | State it keeps | Operations | What is hard | What makes it correct |
|---|---|---|---|---|
| Sales export queue (`libs/sales/.../sales-export.service.ts`) | `sales_exports`, `sales_export_dispatch` | `enqueue`, `processNext` (lease, claim, produce, complete / fail / retry, release), `download` | leases and claims that lapse while their worker goes on, replays that clear a lease, two-statement release | at most one row per key, bounded pending jobs, three attempts, a completed payload stays, every job ends |
| Governance jobs (`libs/governance/.../governance-jobs.service.ts`) | `governance_jobs`, artifacts, dispatch, audit events, checkpoints | as above, with retention, privacy export, privacy deletion in batches; `find`, `download` | several workers in the batches of one job, data arriving between batches | phases in order and complete, nothing left after a deletion, what is offered can be downloaded |
| Circuit breaker (`libs/resilience/.../circuit-breaker.ts`) | `failures`, `openedAt`, `probeInFlight` | `execute` | calls that settle late | one probe, opens at the threshold, recovers |
| Membership (`apps/api/.../identity.repository.ts`, `authorization.policy.ts`) | `organization_memberships` and its row locks | `createOrganization`, `addMember`, `updateMemberRole`, `removeMember` | owners acting on each other, lock order | always an owner, authority at commit, no wait for ever |
| Invitations (`governance.service.ts`) | `organization_invitations` | create, revoke, accept, expire | acceptance racing revocation, expiry and removal | one acceptance, one pending invitation per address |
| Import queue (`import-queue.service.ts`) | `data_imports`, rows and errors | `enqueue`, `processNext` | as the exports, without dispatch rows, under row security | as the exports; each order written once |
| Ingestion (`data-core.service.ts`) | orders, items, products, stock, `ingestion_requests` | `ingestOrder`, `ingestInventory` | repeated deliveries, locks taken row by row | a request takes effect once, locks are taken in one order of the tables |
| Order contract (`order-contract.ts`, `csv-orders.ts`, the tables' checks) | none | `orderIngestionSchema`, `parseOrderCsv` | what the contract accepts and the transaction refuses | what is accepted is stored whole, or refused for a reason that is known |
| Queue pump and shutdown (`queue-pump.ts`, `database.service.ts`) | timers, active drain, the pool | `start`, `stop`, `pool.end` | stop during a drain, a pool that closes under a unit | the process ends, no transaction is left open |
| Response cache, Redis client (`response-cache.service.ts`, `redis.service.ts`) | generations, loads in flight; one client and its connection attempt | `getOrLoad`, `invalidateOrganization`; `execute` | a load that outlives an invalidation; lost connections and concurrent first uses | no stale answer after an invalidation; one connection |
| Rate limit (`rate-limit.service.ts`) | one counter per window, made and given its expiry by one script | `enforce` | requests that reach Redis after their window | bounded requests per window |
| Sessions, OIDC (`session.service.ts`, `oidc.service.ts`) | Redis sessions, user index, one-time transactions | create, resolve with rotation, revoke one or all, begin, complete | renewal and rotation racing revocation | a sign-in has one session, a revoked one stays revoked, both lifetimes hold |
| Webhooks (`webhook.service.ts`) | endpoint with version and one stored secret (a rotation replaces it, there is no overlap), receipts | create, rotate, revoke, verify | two rotations at once, a rotation that is stored and not answered, a rotation during a delivery | a secret in force at some moment of the request, the secret handed out last works unless a later rotation was not answered |
| Sales analytics (`sales-analytics.service.ts`) | none (eight queries of one snapshot) | overview, order detail, listing, export | ingestion between the queries, periods and currencies | the figures of one report add up |
| Operations (`operations.service.ts`) | thresholds, acknowledgements | overview, issues, alerts, `acknowledgeAlert` | cards, rows, issues and health computed by different queries | they agree |
| Database access, migration gate (`database.service.ts`, `migrations.ts`, `migration-gate.ts`) | pool, `app.organization_id`, applied migrations, grants | transactions, `applyMigrations`, `verifyMigrations` | pooled connections that served another organization; several gates and releases at once | no organization meets another's rows; a process serves on its complete schema |
| Request pipeline (controllers, guards, interceptors of `apps/api`) | none of its own | edge hook, rate limit, session, CSRF, role, time budget, metrics | authority that ends while a request runs, late work after a 408, repeated attempts | nobody acts without authority, an answer says what became of the work |
| Web application (`apps/web`) | session, selection, addresses, page data, forms, one-time secrets, presets | loads, navigation, changes and reloads | answers in any order, reloads that overlap, midnights | what is shown belongs together |
| Generated client, edge function, tools, configuration, deployment | | | | not modelled |

`PROJECT.json` lists every part with its status, and the hazards of the code at
the lines where they bite, with the property that watches each, or why there is
none.

## 2. Modules

| Module | Models | Composes / checks against |
|---|---|---|
| `DurableJob` | what a background job promises: the moves of its status and its number of claims | abstract specification |
| `SalesExportQueue` | the export queue of one organization | `INSTANCE DurableJob` (refinement `ImplementsDurableJob`) |
| `ImportQueue` | the CSV import queue of one organization and the receipts of the orders it writes | `INSTANCE DurableJob` |
| `GovernanceJobs` | the governance queue of one organization with its three kinds of work | |
| `CircuitBreaker` | one breaker shared by all calls of an API process | |
| `RedisConnection` | the client and the connection attempt behind that breaker | |
| `Membership` | the membership transactions of one organization, lock by lock | |
| `Invitations` | invitations beside members that come and go | |
| `Sessions` | sign-in, sessions, rotation and revocation of one user, Redis command by command | |
| `ResponseCache` | cached reports of one organization in several processes | |
| `RateLimit` | the fixed window of one caller in one bucket | |
| `Webhooks` | one endpoint: rotations, revocation, deliveries | |
| `OrderIngestion` | orders, stock and imports written concurrently, row lock by row lock | |
| `OrderContract` | what is accepted as an order and what the transaction that stores it still refuses | |
| `KeysetPagination` | a walk through a paged listing and its export, while rows come and go | |
| `SalesAnalytics` | the overview report and an order's detail, query by query | |
| `Operations` | metrics, location rows, issues, alerts, health, acknowledgements | |
| `MigrationGate` | gates and starting processes of several releases | |
| `TenantIsolation` | row security, foreign keys and the pool, for every table | |
| `WorkerShutdown` | pumps and pool from bootstrap to exit | |
| `RequestPipeline` | one request, its guards, handler, answer and repetition | |
| `WebSession` | session, token, selection and guards of the web application | |
| `ManagementPages` | the team and the governance page | |
| `WorkspacePages` | the sales and the operations page | |
| `ReportingPeriods` | from a date preset to the period of an answer | |
| `MCServices`, `MCPlatform`, `MCProgress` | sums of the components above (section 3) | extend or instantiate them |
| `MCGovernanceJobs`, `MCImportQueue`, `MCSalesExportQueue` | symmetry sets and constants for TLC | extend one component |
| `SalesExportQueueProofs`, `ImportQueueProofs`, `GovernanceJobsProofs` | theorems about the queue of that name | extend one component |
| `ResilienceProofs` | theorems | extends `RateLimit`, `ResponseCache`, `RedisConnection`, `CircuitBreaker` |
| `AccessProofs` | theorems | extends `Sessions`, `RequestPipeline`, `WebSession`, `WorkspacePages`, `ReportingPeriods` |
| `TeamProofs` | theorems | extends `Membership`, `Invitations`, `ManagementPages` |
| `DatabaseProofs` | theorems, and lemmas about sums | extends `TenantIsolation`, `MigrationGate`, `KeysetPagination`, `SalesAnalytics`, `Operations` |
| `IntegrationProofs` | theorems | extends `Webhooks`, `OrderIngestion`, `OrderContract` |

Operators have the names of the code where there is one. A definition commented
*fault* is a plausible mistake in the definition that follows it; no specification
uses it. `PROJECT.json` pairs each property with the fault that breaks it. A
definition whose code is not in the repository (PostgreSQL, Redis, NestJS) is marked
external there.

### SalesExportQueue

A row of `sales_exports` is a record of the columns control depends on; the
CHECK constraints of the migration are the predicates `PayloadState`,
`ExpiryState` and `Admits`. An UPDATE whose new row a constraint refuses throws
and rolls back (`Stored`, `Refused`): the code relies on this to keep a late
worker from reopening a completed export. `worker[w]` is where a `processNext`
call stands and the `ClaimedExport` it holds; a worker keeps it while its claim
goes stale and others take the job over. One transaction is one action.
`releaseOrganization` is two (`LookForPending`, then `KeepDispatch` or
`DeleteDispatch`), because under READ COMMITTED each statement has its own
snapshot. The answer to a COMMIT may be lost, so `Complete` may be followed by
the catch block. `FOR UPDATE SKIP LOCKED` may pass over a row another worker's
transaction holds (`MaySkip`).

Abstractions: a deadline is a flag which an action of the environment turns
(`claim` stale, `expiry` past, dispatch due, lease lapsed); `created_at` orders
like the identity; `enqueue` is one step as it holds the advisory lock from its
first statement to its COMMIT (its jobs can only leave the pending set
meanwhile); a replay with another digest and a request over the capacity roll
back and change nothing; stored filters always parse, since `enqueue` wrote
them; audit events are younger than the audit retention.

### GovernanceJobs

The same queue with the constraints of `governance_jobs`. The differences of
the code are kept: every replay dispatches the organization, `releaseOrganization`
decides on one query and not two, nothing but `completed_at` stands between a
late worker and a job that is over. Work is a batch per action. `due[p]` counts
the batches of rows past their retention in phase `p`, `customer` is the one
subject of privacy jobs with the batches of orders that refer to it; retention
may delete some of them, and ingestion may add some at any time, creating the
customer again if need be. `DownloadReady` is what `find` tells the page,
`Downloads` what `download` then answers. `MaxAttempts` and `Phases` are
parameters (5 and 5 in the code).

### ImportQueue

There is no dispatch row: `claim()` looks for work in `data_imports` itself, in a
transaction that sets no organization. The table is under FORCE ROW LEVEL
SECURITY, so `BypassesRowSecurity` says whether the role of the workers sees
anything (`Visible`). A claim takes a queued import or one whose worker went
silent (`Claimable`) and gives up on those claimed too often (`Exhausted`). The
orders of a file, their `ingestion_requests` and the completed state are one
transaction (`Ingest`; its inside is `OrderIngestion`); a second worker with the
same import waits for the first order's request and then replays (`Replays`). Any
error fails the import (`IngestFails`, `Fail`); a crash or a throw out of `fail()`
leaves it to be claimed again. A file is what `parseOrderCsv` says of it. Retention
keeps imports and receipts for at least 30 days, so no worker meets a purged one.

### CircuitBreaker and RedisConnection

`Begin` is `execute` up to its `await`, `Succeed` and `FailCall` are its
continuations, each with the `finally` block. The clock is `recent` or `elapsed`
relative to `openedAt`; the failure count saturates at the threshold, the only
number it is compared with.

`RedisConnection` is the service inside that breaker: JavaScript runs each use from
one await to the next (`Use`, `JoinConnect` or `Connect`, `OperationEnds`); a failed
connect drops the client, a lost connection leaves one that the next use opens again,
`onApplicationShutdown` takes the client away from whoever still uses it. What
node-redis does (no reconnecting of its own, `connect()` throws on an open client) is
external.

### Membership and Invitations

Each `SELECT ... FOR UPDATE` of `Membership` is an action enabled when the row is not
locked by another request. `assertAnotherOwner` is a snapshot (`FindOwners`), one lock
per row found (`LockOwner`, which rereads the row once it has the lock and drops it
when it is no longer an owner's) and the count. Write, audit event and COMMIT
are one step. The order in which a statement locks the rows it found is left
open. A circle of waiting requests is broken by aborting any of them;
timeouts, lost connections and crashes abort a request at any step. VIEWER is
left out because the policy treats it as ANALYST.

`Invitations` has the four methods of `GovernanceService` on invitations, each read
and write of `acceptInvitation` and `createInvitation` a step of its own, under the
row lock the code takes. `TeamService` adds and removes people meanwhile, one
transaction each (their locks are `Membership`'s). A person stands for an address,
an invitation for its token.

### Sessions

Every Redis command of a request is one step (`sessions`, the user's `index`, the
one-time `transactions`), and a request may end after any of them. `Resolve` is
`resolve()` up to its decision; it is followed by a renewal (`Renew`), a rotation
(`ClaimRotation`, `PersistRotated`, `Unindex`) or nothing. `RevokeListed` follows
`ListSessions` session by session. Seconds are numbers up to `LastSecond`; a token is
the next number.

### ResponseCache and RateLimit

The database is a version number, a report the version it was read from. A request
reads the generation, looks the key up, joins a load of its own process or begins one
and stores its result; a mutation commits first and invalidates later
(`Invalidate`), or never, when Redis fails, whose command may fail after it took
effect. A worker's commit does not invalidate (`WorkerCommits`): the code leaves
that to the entry's lifetime, and `published` only moves with an invalidation.

`RateLimit` takes the script as one step: increase, and give the expiry to a counter
that has just been made. A request has computed its window before (`ArriveCall`) and
may reach Redis in a later second (`Consume`).

### Webhooks, OrderIngestion, OrderContract

`Webhooks`: a secret is named by the request that drew it, a signature is the secret
it was made with. `rotate()` is a locked read and a write, committed (`CommitRotation`)
or rolled back (`RotationFails`), and its answer comes or not (`AnswerRotation`: the
answer of the COMMIT is lost, or the request was answered 408 before); a delivery reads
the credential, verifies and ingests in three transactions. `inForce` records the secrets
in force while the delivery was under way.

`OrderIngestion`: a transaction claims the receipt of each snapshot (`INSERT ... ON
CONFLICT DO NOTHING`, then `SELECT ... FOR UPDATE` when it was there), locks the rows
of its `Plan` in the order of the upserts, and writes when it commits. An import is a
transaction with several snapshots. Retention deletes receipts nobody has locked. A
statement that would update one product twice fails (`RefuseProducts`).

`OrderContract`: `ReadFile`, `GroupRow` and `ValidateGroups` are `parseOrderCsv`,
`ReadDelivery` the schema for JSON. `StoreOrder` is `ingestOrderInTransaction` for one
order of the document, `CommitOrders` the end of its transaction. `Storable` is all that
can refuse there: the CHECK and UNIQUE constraints and the database's integers
(`WithinConstraints`), the receipt of a key already used for another order (`KeyUsed`;
file cells " o1" and "o1" are two groups and one identifier), the multi-row upsert that
names a product twice (`UpdatesTwice`), the unique SKU (`SkuTaken`), a fulfilment of a
location that is not the order's (`UnknownLocation`) and text or instants PostgreSQL
cannot read (`HasUnreadable`). The products of others are any of `ProductTables`, and
may change between the orders of a file except where this transaction has written
(`Committable`). An instant has `PerMillisecond` parts of a millisecond: the schema
compares dates as JavaScript Dates, the CHECKs compare microseconds, so instants in
reverse within one millisecond pass the one and fail the other. `AcceptedIsStoredWhole`
says that these six are the only refusals, each for the order at hand, and that of a
stored document no row is missing or changed. Amounts are small integers; as in the code,
twice `SafeInteger` and `MaxQuantity` are below `Wide` (2^53 - 1, a million and 2^63
there), so the run has the sums that do not fit an amount but fit the database.

### SalesAnalytics, Operations, KeysetPagination

`SalesAnalytics`: the transaction is REPEATABLE READ, so all queries see the orders
of `BeginOverview`; orders and imports change at any moment in between. Each query is
an action (`Ask`) that answers one field of `report`. `orderDetail` is `OpenOrder` and three
queries. Money is a whole number, shares are in 1/10000.

`Operations`: `Metrics`, `LocationRow`, `Issues`, `Alerts` and `Health` are the queries as
operators over one snapshot; the actions ingest, set thresholds, let minutes pass
and acknowledge (`FindAlert` and `Acknowledge` are the two transactions of
`acknowledgeAlert`). A query is for one location or all and for a range of days
(`OverviewFilters`): orders are in it by the day they came (`InDates`), returns by the day
they were requested, each an issue of its own, stock by the location alone. Local days
come from `Zone`. What several queries of one snapshot
are worth is shown in `SalesAnalytics`.

`KeysetPagination`: audit events, orders by occurrence and issues of one severity are
one listing of rows with an instant and an id. A cursor carries the instant of the last
row as a JavaScript Date prints it (`PerMilli` instants of the database in one of a
Date), with the direction and a hash of the filters. `blurred` records the milliseconds
in which, during the walk, a row had an instant a Date does not keep. `Exported` is the
export of the same listing.

### MigrationGate, TenantIsolation, WorkerShutdown

`MigrationGate`: a gate locks, then checks and applies one migration per transaction
(`Apply`), gives the lock up, grants access to what exists (`Grant`) and to what will
(`GrantDefaults`), and verifies; an API or worker process verifies as the runtime
role (`VerifyAsRuntime`). Processes of different releases run at once and may stop
anywhere.

`TenantIsolation`: a row is its table, its organization and the rows it refers to;
the references of every table, required or not, cascading or restricting, are those
of the migrations (`Schemas`). `setting` is `app.organization_id` of each pooled
connection: null, the organization, or empty after a transaction that set it. The
policies decide what a transaction sees and may write; foreign keys and cascades do
not look at policies and do wait for rows other transactions have touched.

`WorkerShutdown`: a drain is units, a unit transactions, a transaction a client of the
pool. SIGTERM calls the hooks of a module together: `stop()` of each pump waits for
the active unit or the grace period, `pool.end()` refuses new clients at once and
waits for those that are out. `PoolMax` and `MaxWaiting` bound the pool.

### RequestPipeline

A route is what its guards ask for: kind, area, guards, roles, idempotency key,
invalidation; every route of the controllers is in `Routes`, once for all that agree
in these. An attempt goes through `Receive` (edge hook), `Guard` (one per step, in
the order NestJS calls them), `Parse`, its handler and `Invalidate`. A delivery is parsed
only after its signature held (`Verify`, a transaction of its own that sets
`lastReceived`), so it may be refused for its body later (`RefuseOrder`). `TimeOut` may
answer 408 at any moment and the handler goes on. Roles, session, account and Redis
change meanwhile, `held` records what each attempt has met. A handler is one
transaction that applies, replays its key, declines, fails, or commits without
learning so (`LoseCommit`). The caller attempts the same again after an answer
that says nothing.

### The web application

`WebSession`: `ensureLoaded` with its shared promise, `ArriveLoad` and `FailLoad` in any
order, the guards of a navigation that wait for a load (`GuardsAnswer`), changes after
which a page insists on a new load (`AfterReload`), sign-in and sign-out, and the
effect that keeps the selected organization, which runs before any other event and
is part of the steps that trigger it.

`ManagementPages`: one page from its opening. What the API keeps is a version each
accepted change advances; a load reads it in parts (settings, rows, audit trail)
one after the other and is shown when all have come. `saving` is the one flag the
page has. Secrets are shown in the dialog (`credential`) until it is dismissed.

`WorkspacePages`: the address holds the filters and the opened row; `SalesArrive` and
`OperationsNavigate` are the pages' synchronize, the `...Comes` and `...Fails` actions
the continuations of their requests with the version checks the code has.

`ReportingPeriods`: presets, addresses, API filters, cursors and repeated exports as
calendar days, with months and ranges as short as the instance wants them (every month
has `MonthDays` days and February of a leap year one more, so the first day of a month
is a sum and no recursion); a page stays open over `Midnight`.

## 3. Runs

`MCServices`, `MCPlatform` and `MCProgress` are sums: the variable `part`, chosen at the
start, says which component moves, all others rest in one initial state of their own.
`MCServices` and `MCPlatform` extend all their components, `MCProgress` some; a
component that is instantiated instead, with variables of the sum, rests in `Off`.
Components do not share variables there, so their states add up instead of multiplying,
and each is explored completely, as if it were alone. A property of a component that
rests holds trivially and one of the component that moves is checked in full. As the
others rest in one state, `services` and `platform` compare the variables of the moving
one only (VIEW).

| Run | Instance | Shows |
|---|---|---|
| `services` | thirteen parts, below; 0.8 million states | the safety of the services |
| `platform` | tenants, requests, web session, management pages, periods, the overview of operations, Redis connection; 0.9 million states | the safety of what surrounds them, and of that overview |
| `progress` | imports (2 jobs, 2 workers, 3 attempts, any number of crashes), breaker (4 calls, threshold 3), shutdown (2 pumps, pool of 1), exports (1 job, 2 workers, 1 crash), membership (2 users, 2 requests), one request; fairness; 0.1 million states | everything that must happen happens, but for an export stuck at its attempt limit |
| `governance` | 2 jobs, 2 keys, 2 workers, 2 attempts, 1 phase, 1 batch, 1 crash; 2.4 million states | phases, deletion, artifacts |
| `exports_lost_wakeup` | 2 jobs, 1 worker, no crash, fairness | **violated**: a queued export without dispatch row is never looked at |
| `governance_artifacts` | 1 job, 1 worker, fairness | **violated**: an expired artifact can stay for ever |
| `imports_row_security` | 2 jobs, 2 workers, role without `BYPASSRLS`, fairness | **violated**: no import is ever claimed |
| `shutdown_grace` | 2 pumps, pool of 1 | **violated**: the pool ends under a unit that still has its grace period |
| `pages_precision` | 3 rows, 2 instants in a millisecond | **violated**: a walk skips or repeats rows |
| `operations_page` | 2 queries | **violated**: an answer to another address is shown |
| `workspace_selection` | 2 organizations, 2 loads | **violated**: a reload selects another organization |
| `preset_ranges` | years of 12 days | **violated**: a preset asks for a range the API refuses |

The violated runs state what the documentation says; `PROJECT.json`, findings,
quotes the line and says what the code does. In short:

- *Lost wakeup.* `releaseOrganization` finds nothing pending; an `enqueue`
  commits; `releaseOrganization` deletes the dispatch row. The export is accepted
  and stays queued until someone enqueues again.
- *Expired artifacts.* They are deleted at the start of `claim` only.
- *Row security.* With the runtime role that the migration gate demands, the
  claiming transaction of the import worker sees no row of `data_imports`; the
  tests connect as a superuser, for whom it does. Imports stay queued.
- *Grace period.* `DatabaseService.onApplicationShutdown` ends the pool at once,
  beside the hook that waits for the active unit.
- *Precision.* A cursor has milliseconds, the columns have microseconds.
- *Operations page.* Coming back to the address that is loaded starts no request and
  does not outdate the one under way.
- *Selection.* While the session is loaded again there are no organizations, so the
  selection is dropped, and the first organization is selected afterwards.
- *Presets.* Year and quarter to date start from tomorrow.

Other disagreements seen while modelling have no run of their own:

- An export whose late worker requeues it in its third attempt breaks the attempts
  check at each following claim, outside the `try` block, with the lease left in place:
  it never settles, and blocks the exports queued behind it, although
  docs/SALES_ANALYTICS.md:39 has claims "stop after three attempts, and enter an explicit
  terminal failure state". `DispatchedExportsSettle` names this one way out (`Stuck`).
- A rotation that commits and is not answered replaces the secret handed out last by one
  nobody has; deliveries are refused until the next rotation (`HandedSecretWorks`).
- An order the contract accepts is refused in the database for a product named twice in
  its items (answered as a server error), a SKU of another product, a location of a
  fulfilment that is not the order's, and the other reasons in `Overlooked`.
- A late success closes an open circuit without a probe (docs/RESILIENCE.md:43).
- The overview adds orders of different currencies in the previous period when the
  current one has none (docs/adr/0007:13); the return rate counts non-commercial
  orders in its numerator (docs/OPERATIONS_INTELLIGENCE.md:18).
- Refusals of guards and answers that come after a 408 are not counted, though
  metrics.service.ts:51 counts "Completed API requests.".
- `claim()` of governance gives jobs up without an audit event (docs/adr/0009).
- A backlog alert is raised for any unshipped order, though its message says aged; an
  acknowledgement of last time silences a recurrence of the alert.
- A file's payment, location and source columns are taken from an order's first row
  only, though docs/DATA_INGESTION.md says rows "must repeat the same order-level
  values".
- A retried POST without an idempotency key is done twice after a 408.

### Bounds

*Queues.* Two workers are what it takes for one to be late and another to take over, and
with a replay two run at once without any timeout; one crash suffices to lose a
lease or a claim, which then lapse in the same way as without one. Two jobs make
the order of the queue, the capacity (1, so that jobs returning to the queue
compete with new ones) and the SKIP LOCKED choice matter. Attempts go to the
code's limit in the export and import queue and to 2 of 5 in the governance queue,
where the limit only decides between requeue and failure. One phase with up to one
batch due shows a phase revisited, left and completed by either worker; a batch may
become due again at any time. The theorems of section 5 do not have these bounds.

*Services.* Exports: 2 jobs, keys and workers, 1 crash (227 thousand states). Members: 3
users, so that two owners act on a third and on each other, 2 requests (148). Sessions:
2 sign-ins, 3 tokens (a rotation and one more), 2 clients, a clock that passes the idle
and the absolute lifetime (161). Cache: 2 processes, 2 readers, 2 writes, so that one
load outlives an invalidation and another is joined (17). Rates: 2 callers, limit 2,
windows of 2 of 4 seconds (3). Pages: 3 rows, pages of 1, 2 instants in a millisecond
(116). Webhooks: 2 rotations, each of which may fail or not be answered, 1 delivery,
tolerance 1 (8). Ingestion: orders and positions that share rows in opposite orders, an
import, 2 deliveries at once (68). Guests: 2 people, 2 invitations, 2 acceptances (8).
Overview: four orders in two currencies and channels, orders coming and going between
queries (23). Contract: files of up to 3 rows with amounts around each limit, products
and SKUs that meet in a file and with those of others, fulfilments and returns with
instants in and across two milliseconds (28). Workspace: 2 queries and 3 requests, so
that an address is left and returned to (6). Gate: 2 gates, 1 instance, 2 releases (4).

*Platform.* Requests: 6 sets of proofs, every route, 2 attempts, 1 change of the world
(295). Tenants: 2 organizations, connections and callers, 3 tables with a reference
that restricts and one that cascades, 2 rows (174). Web: 2
organizations, 2 loads, 1 change of the account (92). Management: 2 changes, 3 loads,
so that each change has its reload and one more overlaps (290). Periods: the days
around the ends of a quarter, a year and a leap year (4). Connection: 3 uses, 3
clients (1). Floor, the overview of operations: orders of a location and of none,
of two days, policies with two cutoffs, time past each threshold,
a return in the range of its order, out of it and rejected (13).

### Fairness

`ImportQueue!FairSpec`, `SalesExportQueue!FairSpec` and `GovernanceJobs!FairSpec`: the
pump polls for ever and awaits what it started, so each worker's next step is weakly
fair; deadlines pass. Of the exports, some claim succeeds if one is possible again and
again (strong fairness): with `SKIP LOCKED` two claims may each find the row locked by
the other's transaction, but do not for ever, as their pumps are not in step.
Submissions, crashes and late answers are never forced. The breaker: `withTimeout`
settles every call; sessions and rate limits use Redis on every request, so calls keep
coming. Membership: row locks are queued, so a request whose row becomes free again and
again gets it (strong fairness of its step); PostgreSQL detects circles (weak).
Shutdown: statements and connection attempts end (both have timeouts), timers fire, the
process exits when its hooks are done. Requests: a guard and a parse are finite, the
timeout fires; a handler need not end. In `MCProgress` each assumption is guarded by the
`part` that moves and is the module's own.

Deadlock checking is off where a bounded instance rests: all keys used, all jobs over,
the clock at its bound, the process exited. `preset_ranges` keeps it: days go on. That
nobody waits for ever is stated by the liveness properties and by
`OnlyProductsDeadlock`.

## 4. Properties

Each module ends with its properties, each with a comment. The sums restate those of
the components they instantiate under the same name.

- *SalesExportQueue*: `IdempotentEnqueue`, `FencedClaims`, `ImplementsDurableJob`,
  `DispatchedExportsSettle`, `EveryExportSettles` (violated).
- *GovernanceJobs*: `PhasesInOrder`, `DeletionLeavesNothing`, `ArtifactWindow`,
  `ExpiredArtifactsDeleted` (violated).
- *ImportQueue*: `AppliedOnce`, `ImplementsDurableJob`, `EveryImportSettles`.
- *CircuitBreaker*: `SingleProbe`, `RecoversUnlessFailing`. *RedisConnection*:
  `OneConnection`.
- *Membership*: `AlwaysAnOwner`, `AuthorityAtCommit`, `EveryRequestEnds`.
  *Invitations*: `InvitationAdmitsOnce`.
- *Sessions*: `OneSessionPerSignIn`, `RevocationIsFinal`, `LifetimesHold`.
- *ResponseCache*: `NoStaleAnswer`. *RateLimit*: `WindowBound`.
- *Webhooks*: `AcceptedWasCurrent`, `HandedSecretWorks`.
- *OrderIngestion*: `EffectPerReceipt`, `OnlyProductsDeadlock` (the circles that
  remain, lines of two orders in opposite orders, are broken by PostgreSQL and
  repeated by the sender; a `Circle` is a set of transactions each of which waits for
  a row of another and holds one that another waits for, so that a transaction that
  merely waits behind a circle is not counted in). *OrderContract*: `AcceptedIsStoredWhole`.
- *KeysetPagination*: `RowsOnceUnlessBlurred`, `EveryRowOnce` (violated: instants finer
  than a cursor's).
- *SalesAnalytics*: `ReportAddsUp`. *Operations*: `OverviewReconciles`.
- *MigrationGate*: `ServesOnCompleteSchema`. *TenantIsolation*: `TenantsApart`.
- *WorkerShutdown*: `ShutdownEnds`, `ActiveUnitKeepsGrace` (violated).
- *RequestPipeline*: `ActsWithAuthority`, `AnswersTellTheEffect`,
  `EveryRequestIsAnswered`.
- *WebSession*: `ShownTogether`, `SelectionLasts` (violated). *ManagementPages*:
  `PageTellsItsChanges`. *WorkspacePages*: `SalesShowsAddress`,
  `OperationsShowsAddress` (violated). *ReportingPeriods*: `PeriodsHold`,
  `PresetsAreReported` (violated).

`PendingWithinLimit`, `CompletedUntilExpiry`, `OpenAfterFailures`, the governance
queue's refinement of `DurableJob` and the type invariants are proved and in no run.

## 5. Proofs

Of the 40 properties the passing runs check, the 34 safety properties, all but the six
liveness properties, are theorems: they hold for every value of the constants. A theorem is
about the specification of its component (`Spec`, `SessionsSpec`, `WebSpec`, ...); a
sum moves one component at a time and in it each is free to do all of that.

The assumptions are the ASSUMEs of the modules, and no others: sets of jobs and users
are finite, identities and instants are numbers, limits and thresholds positive
(`RateLimitAssumption`, `PaginationAssumption`, `BoundsAssumption`, ...), distinguished
values are none of the values they are told from (`NoKeyAssumption`, `TenantAssumption`,
`WebhooksAssumption`, `InvitationAssumption`, `WorkspaceAssumption`, `WebAssumption`,
...), a session is rotated before it is idle too long (`SessionsAssumption`), an import
file is not empty (`IngestionAssumption`; `parseOrderCsv` refuses it), a listing has
finitely many rows, the amounts of the order contract fit the database twice and what is
read has its parts (`ContractAssumption`), amounts are whole numbers of minor units
(`AnalyticsAssumption`), places are finitely many and an order is at one of them or at
none (`FloorAssumption`), and the workspace is used on days of the calendar that lie
late enough for the fixed presets (`PeriodsAssumption`). TLC evaluates each of them in
the runs.

Everywhere the shape is the same: types, then what the program points tell of the
state, then one lemma per action or group of actions, then the theorem. The invariants:

### The queues

*SalesExportQueue.* `TypeCorrect` is inductive by itself once each row operator is
shown to stay in `Row`. The invariant behind `ClaimsAreFenced` and `Refinement`
(`IInv`) adds that every row satisfies the CHECKs of its table (`RowsAdmitted`), that a
row never inserted counts no attempt (`UntouchedRows`), and that a worker with a job in
its hands finds its row inserted and claimed at least once (`HoldersClaimed`): without
the constraints a late requeue would be a move `DurableJob` does not have, so the
refinement is really a statement about the CHECKs. Every step is first reduced to what
it does to one row (`RowsChange`: unchanged, or one of a few moves); `CompletedIsKept`
and `Refinement` follow from that lemma alone. `CapacityRespected` needs that only
`enqueue` makes a row pending that was not (`OnlyEnqueueInserts`) and the cardinality
of a set with one more element. `OneRowPerKey` rests on `KeysInv`: `EnqueueNew` alone
gives a row its key, for a key that no row has, and only a purge takes it away.

*ImportQueue.* `IInv` adds to the types that queued rows count no attempt
(`CountsClaims`), that a worker's import exists, has been claimed and, while it is
being ingested, was accepted (`HoldersClaimed`), and that the receipts say exactly
which imports were written, each once, every completed one among them
(`ReceiptsTell`). `RowsStep` reduces each step to one row; `OrdersWrittenOnce` and
`Refinement` follow.

*GovernanceJobs.* `IInv` has `SoundRows` (what status, type, phase, expiry and the
artifact of a row tell of each other), `HoldersClaimed`, and `GoneWithoutOrders` (a
customer who is gone has no order left). `RowsMoved` and `RowStep` reduce a step to one
row. `DownloadsInTheirWindow` is read off `SoundRows`; `PhasesLeftInOrder` and
`DeletionsAreComplete` are action properties that follow from the invariant and the
few actions that advance a phase or complete a deletion; `Refinement` maps `status` and
`attempts` to `DurableJob`, as for the two others.

### What all requests go through

*RateLimit.* `RateInv`: a counter outlives the window it was made in, and while it
lives it counts at least what its window admitted. *ResponseCache.* `CacheInv`: the
report a request may be answered with is bounded below by a function of the
generation it has read; entries and loads under a generation are no older than that
floor, and who joins a load shares its floor. *RedisConnection.* `ConnectionInv` is
`OneConnection` with the types. *CircuitBreaker.* `BreakerTypeOK`, `SingleProbe` and
`OpenAfterFailures` are inductive together (`BreakerInv`).

*Sessions.* `SessionsInv`: the right to a session of a sign-in is handed on and never
copied. It lies with the open transaction, the request that exchanges its code, a
stored session or the request rotating it, and with one of these only (`OneHolder`,
`TransactionSpent`); what was ended has no holder and gets none (`EndedForGood`).
`ResolvedSession`, `AbsoluteEnd` and `IdleEnd` bound expiry by the sign-in and by the
last use, however often a session is rotated or renewed: `LifetimesKept`.

*RequestPipeline.* `RequestsInv`, per attempt: how far it is in its guards and what it
therefore has (`ProgressOK`, `PassedOK`), what an outage of Redis excludes
(`OutageOK`), that the world was as the guards saw it at some moment of the request
(`MetOK`); attempts follow each other (`InOrder`), applied work is counted
(`WorkDone`), keyed work once (`KeyedOnce`), a delivery that left its time was signed and
passed its guards (`ReceivedOK`). `RouteShape` computes the guards of the
whole route table once; all other lemmas are about any route of that shape.

### The teams and the tenants

*Membership.* `Good(r)` says, per step of a request, which rows it holds and that they
still are as it read them; `Frame` says that no step of another request touches rows
that are held. From it `OwnerRetained`: a request that takes an owner away holds a
second owner's row when it writes; and `AuthorityIsCurrent`: the roles in its local
variables are the roles in the table. *Invitations.* `InvitationsInv` is the same idea
for the invitation row (`ReadStillHolds`), with `JoinedAccepted` (who joined by an
invitation did so by an accepted one) and `OnePending`.

*TenantIsolation.* `TenantInv`: a connection in a transaction belongs to one caller
(`ConnectionsOwned`) and its setting is that caller's organization or none
(`SettingsOwned`); only writers have uncommitted changes; a snapshot agrees with the
table on rows of its organization (`ViewsConsistent`); identities chosen by two
transactions are apart (`IdsApart`, `RemovalsApart`). `ReferenceRules` proves of the
table of references that a cascade reaches one step, so that a deletion leaves no
dangling reference. *MigrationGate.* `GateInv`: the ledger tells which migrations have
run, each once (`LedgerTells`), grants are of tables that exist (`GrantsExist`), and a
process past its check has seen its release's migrations (`AllProgressed`).

*KeysetPagination.* `WalksAreWhole`, for columns of any precision: a row that stays is
never repeated by a descending walk and never missed by an ascending one, for the
cursor's instant is rounded down, and it is given exactly once where no instant of its
millisecond was finer than a Date (`Clear`); in the others `pages_precision` shows the
row repeated or missed. `PagesInv`: those of the rows that stay for which it holds
(`NotRepeated`, `NotMissed`) are given in walk order (`GivenInOrder`), and given exactly
if the cursor has reached them (`GivenReached`); when the walk has ended, all of them have
been (`EndedComplete`); every rounded instant is noted (`BlurredNoted`).
`PageStep` shows it of one page: the page is the least rows after the cursor, which
needs that `Order` sorts, by cardinalities: a row's rank is the
number of rows before it, so ranks are distinct and are all the numbers
(`OrderedIsSorted`).

### The figures

`SumFunction` of the community modules is a fold that takes the members of its domain in
the order CHOOSE gives them. `AddsExists` and `AddsUnique` show that the fold is defined
on every finite domain and by its equation alone; `SumTakeOut` that any term can be taken
out of it first, so the order is of no account. Each is a least counterexample among the
subsets of a finite set (`SmallestSubset`), as the library's induction theorem cannot be
cited. `SumByGroup` (the sums of the groups add up to the whole), `CountAsSum`,
`CountByGroup` and `SumCompares` (term by term) are what the figures need.

*SalesAnalytics.* `ReportsAddUp`. `AnalyticsInv`: the snapshot has one row for each order,
and every part of a report or of an opened order that has been answered is the query's
value on that snapshot, not on the orders committed since. That the parts then agree is
about the operators alone: `TrendAddsUp` and `SegmentsAddUp`, where the shares are
rounded down, so that they do not exceed the whole (`SharesFit`).

*Operations.* `OverviewsReconcile`. `FloorInv`: an order has one row, and a place has
stock only if it was delivered. `RowsCoverOrders`: each order in scope has a row of the
location table, the orders without a location a row of their own; so the rows add up to
the cards (`RowsReconcile`). The issues are as many as the cards say because an order or
a place has at most one of a type (`IssuesReconcile`); an order may have several returns,
which no card counts. For the health, the newest of
finitely many instants is the instant of one of the places (`LatestOfInstants`), and
orders are missing only if there is none.

### What comes in

*Webhooks.* `WebhooksInv`: a rotation under way holds the lock (`RotationsLocked`);
versions only grow, the stored secret is that of a committed rotation and of its
version, and no other committed rotation has that version (`CommittedVersions`); what is
in force is noted for the delivery under way (`CurrentNoted`, `ExpectedNoted`).
*OrderIngestion.* `IngestionInv`: what a sender has claimed is what its step says
(`SendersOK`, `ClaimsHeld`), a receipt is claimed by one sender (`OneReceipt`,
`KeysAgree`). `LocksInOrder`: who ingests one item holds only rows that come before
those it waits for in the order of its plan (`PlanInOrder`: later tables, or products
both). In a circle each member waits for a row before the one its holder waits for
(`WaitsForLater`); so nobody waits for a table before the products, since somebody else
would wait for a still earlier one, and nobody for one after them: `CirclesAreProducts`.
*OrderContract.* `AcceptedIsWhole`, for any products of others, any precision of the
instants and any texts that cannot be read. `ValidIsStorable`: a valid order that the
transaction refuses is refused for one of the six reasons in `Overlooked`. No part of an
item's or order's sum leaves the database's integers, as a product equals the total
without tax and with the discount; an instant that precedes another although its
millisecond does not lies in the same one (`InOrderStorable`). `ContractInv`: each row
read so far is in the group of its order (`RowsAreGrouped`), without an issue the rows
of a group have the columns of its first (`GroupsAgree`), and what is being stored is
valid and holds the rows of its file (`AcceptedOrders`). That a row is *one* item is the
uniqueness of the items' ids, which the schema asks.

### The web application

*WebSession.* `ShownTogether` is inductive by itself, with a lemma that what the
effect selects is listed (`SyncedIsListed`). *WorkspacePages.* `SalesInv`: of all
requests under way one counts, the last, and it is for the address of the page; all
others are told by their version (`CallsInOrder`). *ManagementPages.*
`ManagementInv`: a change that is being told waits for a load that was sent after the
change was made (`WaitsForNewer`, `ToldNewer`), and the form is the one of the
settings shown (`FormFilled`). *ReportingPeriods.* `PeriodsInv`: the sales page's
address has both dates, and what is answered or kept is the API's verdict on it on
some day; `SameOnEveryDay` makes the day irrelevant. Below it lies the calendar:
every day lies in a year and a month (`YearIsFound`, `MonthIsFound`), so every preset is
two dates (`PresetIsComplete`). These are proved by a least counterexample, from the
well-foundedness of the natural numbers, as an induction theorem cannot be cited.

### Only model-checked

- All liveness properties (`DispatchedExportsSettle`, `EveryImportSettles`,
  `RecoversUnlessFailing`, `EveryRequestEnds`, `ShutdownEnds`,
  `EveryRequestIsAnswered`): fairness and ENABLED are outside the prover's reach.
- The violated properties, of course.

No module that is proved about declares or reaches a RECURSIVE operator.

## 6. Plan

1. The safety beneath `ShutdownEnds`: no client of the pool is out and no unit runs when
   the process exits by itself; as an invariant of `progress` and a theorem.
2. An abstract specification of the membership transactions (each change of a role one
   step that leaves an owner) that `Membership` implements, with its locks hidden.
3. An abstract listing that `KeysetPagination` implements where no instant is rounded.

## 7. Not modelled

- The generated API client, the OpenAPI documents and decorators, the integration
  scripts under `tools`, the edge function (a proxy that sets headers), deployment and
  configuration: no protocol of their own, or code no production process runs.
- Templates, styles, charts, the command menu and the appearance settings of the web
  application; filter options of the analytics pages.
- The text of CSV files, messages, SQL plans, logging and metrics beyond the count of
  answers; encryption (a secret or artifact is stored or not).
- Profile and governance settings: single statements whose last writer wins.
- The order details of an operations drill-down, which are those of `SalesAnalytics`.
- Clock differences between processes, and a Redis that loses what it acknowledged.
