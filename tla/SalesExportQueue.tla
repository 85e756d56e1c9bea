-------------------------- MODULE SalesExportQueue --------------------------
(***************************************************************************)
(* The sales export queue of one organization: the sales_exports rows, the *)
(* organization's row in sales_export_dispatch, and the worker processes   *)
(* that run SalesExportService.processNext, one call at a time each.       *)
(*                                                                         *)
(* Every database transaction is one action.  PostgreSQL runs them at READ *)
(* COMMITTED, so releaseOrganization, whose two statements each take their *)
(* own snapshot, is two actions.  An UPDATE that would break a CHECK       *)
(* constraint of the table rolls its transaction back and throws.          *)
(*                                                                         *)
(* Wall-clock time is abstracted to the comparisons the code makes: each   *)
(* deadline is a flag that an environment action turns once it has passed. *)
(*                                                                         *)
(* A definition marked "fault" is a plausible mistake in the one below it; *)
(* nothing uses it.  The properties are checked to notice each of them.    *)
(***************************************************************************)
EXTENDS Integers, FiniteSets

CONSTANTS
  Jobs,         \* row identities, in the order of created_at
  Keys,         \* (requesting user, idempotency key) pairs
  Workers,      \* worker processes
  NoKey,        \* the key of a row that was never inserted
  MaxPending,   \* QUEUE_MAX_PENDING_PER_ORG
  MaxCrashes    \* bound: how often a worker may die or lose its database

AttemptLimit == 3

ASSUME JobsAssumption       == Jobs \subseteq Nat \ {0} /\ IsFiniteSet(Jobs)
ASSUME NoKeyAssumption      == NoKey \notin Keys
ASSUME MaxPendingAssumption == MaxPending \in Nat \ {0}
ASSUME MaxCrashesAssumption == MaxCrashes \in Nat

VARIABLES
  rows,       \* the table sales_exports
  dispatch,   \* this organization's row of sales_export_dispatch
  worker,     \* what each worker process has in its local variables
  audits,     \* per row, how many 'sales.export_requested' audit events
  crashes     \* how many crashes have happened (bounded by MaxCrashes)

vars == <<rows, dispatch, worker, audits, crashes>>

-----------------------------------------------------------------------------
(* The rows and the constraints the schema puts on them.                   *)

Statuses     == {"absent", "queued", "processing", "completed", "failed", "purged"}
Pending      == {"queued", "processing"}
Terminal     == {"completed", "failed"}
FailureCodes == {"EXPORT_ROW_LIMIT", "EXPORT_RETRY_EXHAUSTED", "EXPORT_EXPIRED"}

\* claim:  processing_started_at is null, recent, or older than five minutes.
\* csv, done: csv_payload and completed_at are not null.
\* expiry: expires_at is null, in the future, or past.
Row == [status   : Statuses,
        key      : Keys \cup {NoKey},
        attempts : 0..AttemptLimit,
        claim    : {"none", "fresh", "stale"},
        csv      : BOOLEAN,
        done     : BOOLEAN,
        failure  : FailureCodes \cup {"none"},
        expiry   : {"none", "live", "past"}]

NoRow == [status |-> "absent", key |-> NoKey, attempts |-> 0, claim |-> "none",
          csv |-> FALSE, done |-> FALSE, failure |-> "none", expiry |-> "none"]

Exists(r) == r.status \in Pending \cup Terminal

\* fault: the constraint forgets completed_at of a pending row
PayloadStateLax(r) ==
  \/ r.status \in Pending /\ ~r.csv
  \/ r.status = "completed" /\ r.csv /\ r.done /\ r.failure = "none"
  \/ r.status = "failed" /\ ~r.csv /\ r.done /\ r.failure # "none"

PayloadState(r) ==
  \/ r.status \in Pending /\ ~r.csv /\ ~r.done
  \/ r.status = "completed" /\ r.csv /\ r.done /\ r.failure = "none"
  \/ r.status = "failed" /\ ~r.csv /\ r.done /\ r.failure # "none"

ExpiryState(r) == r.status = "completed" <=> r.expiry # "none"

Admits(r) == r.attempts <= AttemptLimit /\ PayloadState(r) /\ ExpiryState(r)

PendingJobs == {j \in Jobs : rows[j].status \in Pending}
QueuedJobs  == {j \in Jobs : rows[j].status = "queued"}

\* UPDATE ... WHERE id = j: no effect without such a row, and rolled back when
\* a constraint refuses the new row.
Stored(j, r)  == IF Exists(rows[j]) /\ Admits(r) THEN [rows EXCEPT ![j] = r] ELSE rows
Refused(j, r) == Exists(rows[j]) /\ ~Admits(r)

Completed(r) == [r EXCEPT !.status = "completed", !.csv = TRUE, !.done = TRUE,
                          !.expiry = "live", !.failure = "none"]

Failed(r, code) == [r EXCEPT !.status = "failed", !.failure = code, !.csv = FALSE,
                             !.done = TRUE, !.claim = "none"]

\* fault: a requeued job starts counting its attempts again
RequeuedAfresh(r) == [r EXCEPT !.status = "queued", !.claim = "none", !.attempts = 0]

Requeued(r) == [r EXCEPT !.status = "queued", !.claim = "none"]

OutOfAttempts(n) == n >= AttemptLimit

Claimed(r) == [r EXCEPT !.status = "processing", !.attempts = @ + 1, !.claim = "fresh"]

-----------------------------------------------------------------------------
(* The dispatch row and the workers.                                       *)

\* due: available_at <= now();  leased: leased_until is in the future.
Dispatch   == [present : BOOLEAN, due : BOOLEAN, leased : BOOLEAN]
NoDispatch == [present |-> FALSE, due |-> FALSE, leased |-> FALSE]
DispatchNow   == [present |-> TRUE, due |-> TRUE, leased |-> FALSE]
DispatchLater == [present |-> TRUE, due |-> FALSE, leased |-> FALSE]

\* Where processNext is: before claim(), producing the CSV, in the catch block,
\* and before the first and the second statement of releaseOrganization().
Steps == {"idle", "claim", "produce", "retry", "release", "keep", "drop"}

Worker == [at : Steps, job : Jobs \cup {0}, attempts : 0..AttemptLimit]

IdleWorker == [at |-> "idle", job |-> 0, attempts |-> 0]

\* Worker w still holds the ClaimedExport that claim() returned.
Holds(w) == worker[w].at \in {"produce", "retry"}

Goto(w, step) == worker' = [worker EXCEPT ![w].at = step]
Drop(w, step) == worker' = [worker EXCEPT ![w] = [IdleWorker EXCEPT !.at = step]]

Init ==
  /\ rows = [j \in Jobs |-> NoRow]
  /\ dispatch = NoDispatch
  /\ worker = [w \in Workers |-> IdleWorker]
  /\ audits = [j \in Jobs |-> 0]
  /\ crashes = 0

-----------------------------------------------------------------------------
(* enqueue(): the advisory lock makes lookup, capacity check, insert and   *)
(* dispatch one step.  A replay whose digest differs rolls back and a      *)
(* request beyond the capacity is refused: neither changes anything.       *)

RowOf(k, j) == Exists(rows[j]) /\ rows[j].key = k

NextId(j) ==
  /\ rows[j].status = "absent"
  /\ \A i \in Jobs : i < j => rows[i].status # "absent"

\* INSERT ... ON CONFLICT DO UPDATE: available_at = least(available_at, now()),
\* leased_until = NULL.
Dispatched == dispatch' = DispatchNow

\* INSERT ... WHERE NOT EXISTS
\* fault: every replay is audited again
AuditedAlways(j) == audits' = [audits EXCEPT ![j] = @ + 1]

Audited(j) == audits' = [audits EXCEPT ![j] = IF @ = 0 THEN 1 ELSE @]

HasCapacity == Cardinality(PendingJobs) < MaxPending

EnqueueNew(k) ==
  /\ \A j \in Jobs : ~RowOf(k, j)
  /\ HasCapacity
  /\ \E j \in Jobs :
       /\ NextId(j)
       /\ rows' = [rows EXCEPT ![j] = [NoRow EXCEPT !.status = "queued", !.key = k]]
       /\ Audited(j)
  /\ Dispatched
  /\ UNCHANGED <<worker, crashes>>

EnqueueReplay(k) ==
  /\ \E j \in Jobs :
       /\ RowOf(k, j)
       /\ rows[j].status = "queued"
       /\ Audited(j)
  /\ Dispatched
  /\ UNCHANGED <<rows, worker, crashes>>

-----------------------------------------------------------------------------
(* processNext(), worker w.                                                *)

LeaseOrganization(w) ==
  /\ worker[w].at = "idle"
  /\ dispatch.present /\ dispatch.due /\ ~dispatch.leased
  /\ dispatch' = [dispatch EXCEPT !.leased = TRUE]
  /\ Goto(w, "claim")
  /\ UNCHANGED <<rows, audits, crashes>>

\* fault: abandoned claims are left alone
NothingRecovered(r) == r

\* The three updates with which claim() starts: drop expired payloads, put
\* abandoned claims back in the queue, give up on those tried too often.
Recovered(r) ==
  CASE r.status = "completed" /\ r.expiry = "past" ->
         [r EXCEPT !.status = "failed", !.failure = "EXPORT_EXPIRED",
                   !.csv = FALSE, !.expiry = "none"]
    [] r.status = "processing" /\ r.claim = "stale" /\ ~OutOfAttempts(r.attempts) ->
         Requeued(r)
    [] r.status = "processing" /\ r.claim = "stale" /\ OutOfAttempts(r.attempts) ->
         Failed(r, "EXPORT_RETRY_EXHAUSTED")
    [] OTHER -> r

RecoveredRows == [j \in Jobs |-> Recovered(rows[j])]

\* FOR UPDATE SKIP LOCKED passes over a row that the transaction of another
\* worker, one that still works on the job or is claiming too, has locked just now.
MaySkip(w, j) == \E v \in Workers \ {w} : worker[v].at = "claim" \/ worker[v].job = j

QueuedFor(w, j) ==
  /\ RecoveredRows[j].status = "queued"
  /\ \A i \in Jobs : i < j /\ RecoveredRows[i].status = "queued" => MaySkip(w, i)

ClaimQueued(w) ==
  /\ worker[w].at = "claim"
  /\ \E j \in Jobs :
       /\ QueuedFor(w, j)
       /\ Admits(Claimed(RecoveredRows[j]))
       /\ rows' = [RecoveredRows EXCEPT ![j] = Claimed(@)]
       /\ worker' = [worker EXCEPT ![w] =
            [at |-> "produce", job |-> j, attempts |-> RecoveredRows[j].attempts + 1]]
  /\ UNCHANGED <<dispatch, audits, crashes>>

ClaimNothing(w) ==
  /\ worker[w].at = "claim"
  /\ \A j \in Jobs : RecoveredRows[j].status = "queued" => MaySkip(w, j)
  /\ rows' = RecoveredRows
  /\ Drop(w, "release")
  /\ UNCHANGED <<dispatch, audits, crashes>>

\* attempts + 1 breaks the attempts constraint: claim() throws outside the try
\* block of processNext, which leaves the lease in place.
ClaimRefused(w) ==
  /\ worker[w].at = "claim"
  /\ \E j \in Jobs : QueuedFor(w, j) /\ ~Admits(Claimed(RecoveredRows[j]))
  /\ Drop(w, "idle")
  /\ UNCHANGED <<rows, dispatch, audits, crashes>>

\* The answer to a COMMIT can be lost: the row is stored, the worker sees an error.
Complete(w) ==
  /\ worker[w].at = "produce"
  /\ rows' = Stored(worker[w].job, Completed(rows[worker[w].job]))
  /\ Drop(w, "release") \/ Goto(w, "retry")
  /\ UNCHANGED <<dispatch, audits, crashes>>

ExceedRowLimit(w) ==
  /\ worker[w].at = "produce"
  /\ LET j == worker[w].job
         r == Failed(rows[j], "EXPORT_ROW_LIMIT")
     IN  /\ rows' = Stored(j, r)
         /\ \/ ~Refused(j, r) /\ Drop(w, "release")
            \/ Goto(w, "retry")
  /\ UNCHANGED <<dispatch, audits, crashes>>

\* exportCsv() or the completing transaction fails without an effect.
ProductionFails(w) ==
  /\ worker[w].at = "produce"
  /\ Goto(w, "retry")
  /\ UNCHANGED <<rows, dispatch, audits, crashes>>

\* The catch block; whether or not its update is refused, finally comes next.
RetryOrFail(w) ==
  /\ worker[w].at = "retry"
  /\ LET j == worker[w].job
         r == rows[j]
     IN  rows' = Stored(j, IF OutOfAttempts(worker[w].attempts)
                             THEN Failed(r, "EXPORT_RETRY_EXHAUSTED")
                             ELSE Requeued(r))
  /\ Drop(w, "release")
  /\ UNCHANGED <<dispatch, audits, crashes>>

\* releaseOrganization(), first statement: is anything left to do?
LookForPending(w) ==
  /\ worker[w].at = "release"
  /\ Drop(w, IF PendingJobs # {} THEN "keep" ELSE "drop")
  /\ UNCHANGED <<rows, dispatch, audits, crashes>>

\* Second statement: UPDATE the dispatch row (if it is still there) ...
KeepDispatch(w) ==
  /\ worker[w].at = "keep"
  /\ dispatch' = CASE ~dispatch.present -> dispatch
                   [] dispatch.present /\ QueuedJobs # {} -> DispatchNow
                   [] dispatch.present /\ QueuedJobs = {} -> DispatchLater
  /\ Drop(w, "idle")
  /\ UNCHANGED <<rows, audits, crashes>>

\* ... or DELETE it.
DeleteDispatch(w) ==
  /\ worker[w].at = "drop"
  /\ dispatch' = NoDispatch
  /\ Drop(w, "idle")
  /\ UNCHANGED <<rows, audits, crashes>>

\* The process dies, or its database connection does outside the try block.
Crash(w) ==
  /\ worker[w].at # "idle"
  /\ crashes < MaxCrashes
  /\ crashes' = crashes + 1
  /\ Drop(w, "idle")
  /\ UNCHANGED <<rows, dispatch, audits>>

-----------------------------------------------------------------------------
(* Time passes, and the governance retention job deletes old rows.         *)

LeaseLapses ==
  /\ dispatch.leased
  /\ dispatch' = [dispatch EXCEPT !.leased = FALSE]
  /\ UNCHANGED <<rows, worker, audits, crashes>>

DispatchFallsDue ==
  /\ dispatch.present /\ ~dispatch.due
  /\ dispatch' = [dispatch EXCEPT !.due = TRUE]
  /\ UNCHANGED <<rows, worker, audits, crashes>>

ClaimGoesStale(j) ==
  /\ rows[j].status = "processing" /\ rows[j].claim = "fresh"
  /\ rows' = [rows EXCEPT ![j].claim = "stale"]
  /\ UNCHANGED <<dispatch, worker, audits, crashes>>

ExportExpires(j) ==
  /\ rows[j].expiry = "live"
  /\ rows' = [rows EXCEPT ![j].expiry = "past"]
  /\ UNCHANGED <<dispatch, worker, audits, crashes>>

\* Retention phase 'exports': terminal rows older than export_retention_hours.
RetentionPurges(j) ==
  /\ rows[j].status \in Terminal
  /\ rows' = [rows EXCEPT ![j] = [NoRow EXCEPT !.status = "purged",
                                               !.attempts = rows[j].attempts]]
  /\ UNCHANGED <<dispatch, worker, audits, crashes>>

-----------------------------------------------------------------------------
Process(w) ==
  \/ LeaseOrganization(w)
  \/ ClaimQueued(w) \/ ClaimNothing(w) \/ ClaimRefused(w)
  \/ Complete(w) \/ ExceedRowLimit(w) \/ ProductionFails(w) \/ RetryOrFail(w)
  \/ LookForPending(w) \/ KeepDispatch(w) \/ DeleteDispatch(w)

TimePasses ==
  \/ LeaseLapses
  \/ DispatchFallsDue
  \/ \E j \in Jobs : ClaimGoesStale(j) \/ ExportExpires(j)

Next ==
  \/ \E k \in Keys : EnqueueNew(k) \/ EnqueueReplay(k)
  \/ \E w \in Workers : Process(w) \/ Crash(w)
  \/ TimePasses
  \/ \E j \in Jobs : RetentionPurges(j)

Spec == Init /\ [][Next]_vars

\* The pump of every live worker keeps polling, a call once begun goes on, and
\* deadlines pass.  Two claims do not for ever overlap so that each finds the rows
\* locked by the other.  Nobody is obliged to submit, and crashes are never obliged.
Fairness ==
  /\ \A w \in Workers : WF_vars(Process(w))
  /\ SF_vars(\E w \in Workers : ClaimQueued(w))
  /\ WF_vars(LeaseLapses)
  /\ WF_vars(DispatchFallsDue)
  /\ \A j \in Jobs : WF_vars(ClaimGoesStale(j))

FairSpec == Spec /\ Fairness

-----------------------------------------------------------------------------
(* Properties.                                                             *)

\* Every variable stays within the columns and program points of the code; in
\* particular no row ever shows more than three attempts.
TypeOK ==
  /\ rows \in [Jobs -> Row]
  /\ dispatch \in Dispatch
  /\ worker \in [Workers -> Worker]
  /\ audits \in [Jobs -> 0..1]
  /\ crashes \in 0..MaxCrashes

\* However often a request is replayed, and whatever the workers do meanwhile,
\* a key names at most one row and a row has exactly one request audit event.
IdempotentEnqueue ==
  /\ \A i, j \in Jobs : i # j /\ Exists(rows[i]) /\ Exists(rows[j])
                          => rows[i].key # rows[j].key
  /\ \A j \in Jobs : audits[j] = IF rows[j].status = "absent" THEN 0 ELSE 1

\* Queue pressure: at most MaxPending jobs are queued or processing, although
\* workers put jobs back in the queue without asking for capacity.
PendingWithinLimit == Cardinality(PendingJobs) <= MaxPending

\* Two workers may hold the same job (one of them too slow), but never with the
\* same attempt number, and never with one ahead of the row.
FencedClaims ==
  \A v, w \in Workers :
    Holds(w) =>
      /\ worker[w].attempts <= rows[worker[w].job].attempts
      /\ v # w /\ Holds(v) /\ worker[v].job = worker[w].job
           => worker[v].attempts # worker[w].attempts

\* A completed export keeps its payload until it expires or retention deletes
\* it: a worker that comes back late cannot fail it or queue it again.
CompletedUntilExpiry ==
  [][\A j \in Jobs :
       rows[j].status = "completed" /\ rows'[j].status # "completed" =>
         \/ rows[j].expiry = "past" /\ rows'[j].failure = "EXPORT_EXPIRED"
         \/ rows'[j].status = "purged"]_rows

Contract == INSTANCE DurableJob WITH MaxAttempts <- AttemptLimit,
  job <- [j \in Jobs |-> [status |-> rows[j].status, attempts |-> rows[j].attempts]]

\* The queue implements the durable-job contract: its rows only ever make the
\* moves of DurableJob, and never more than three claims.
ImplementsDurableJob == Contract!Spec

\* A late worker has put the row back although its attempts were used up since: no
\* claim can take it, and each claim that tries is rolled back.
Stuck(j) == rows[j].status = "queued" /\ OutOfAttempts(rows[j].attempts)

\* A pending export whose organization keeps its dispatch row is completed or failed in
\* the end, through crashes, lapsed leases, stale claims and workers that come back
\* late, unless one of these has left a row stuck, at which the claims of the
\* organization then stop.
DispatchedExportsSettle ==
  \A j \in Jobs :
    rows[j].status \in Pending /\ dispatch.present
      ~> \/ rows[j].status \notin Pending \/ ~dispatch.present
         \/ \E i \in Jobs : Stuck(i)

\* Every accepted export is completed or failed in the end.
EveryExportSettles ==
  \A j \in Jobs : rows[j].status \in Pending ~> rows[j].status \notin Pending
=============================================================================
