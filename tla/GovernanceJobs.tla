--------------------------- MODULE GovernanceJobs ---------------------------
(***************************************************************************)
(* The governance jobs of one organization: retention, privacy export and  *)
(* privacy deletion of one customer, run by the workers' processNext.      *)
(*                                                                         *)
(* The queue is the one of SalesExportQueue with other constraints on its  *)
(* rows; what differs is the work.  Retention and deletion run as many     *)
(* transactions, one batch each, with a checkpoint in the job's row, and a *)
(* worker that is too slow keeps going next to the one that replaced it.   *)
(*                                                                         *)
(* Every transaction is one action, except releaseOrganization, whose two  *)
(* statements each read the tables as they are then.  Time is abstracted   *)
(* to flags, and rows to delete or detach are counted in batches of 500.   *)
(*                                                                         *)
(* A definition marked "fault" is a plausible mistake in the one below it; *)
(* nothing uses it.  The properties are checked to notice each of them.    *)
(***************************************************************************)
EXTENDS Integers, FiniteSets

CONSTANTS
  Jobs,          \* row identities, in the order of created_at
  Keys,          \* (requesting user, idempotency key) pairs
  Workers,       \* worker processes
  NoKey,         \* the key of a row that was never inserted
  MaxAttempts,   \* 5 in the code
  Phases,        \* number of retention phases, 5 in the code
  MaxPending,    \* QUEUE_MAX_PENDING_PER_ORG
  MaxBatches,    \* bound: batches of rows that may wait for one phase or deletion
  MaxCrashes     \* bound: how often a worker may die or lose its database

ASSUME JobsAssumption   == Jobs \subseteq Nat \ {0} /\ IsFiniteSet(Jobs)
ASSUME NoKeyAssumption  == NoKey \notin Keys
ASSUME BoundsAssumption == /\ MaxAttempts \in Nat \ {0} /\ Phases \in Nat \ {0}
                           /\ MaxPending \in Nat \ {0} /\ MaxBatches \in Nat
                           /\ MaxCrashes \in Nat

VARIABLES
  rows,       \* the table governance_jobs
  artifact,   \* per job: it has rows in governance_job_artifacts
  audited,    \* per job: the kinds of audit events written about it
  dispatch,   \* this organization's row of governance_job_dispatch
  due,        \* per retention phase: batches of rows past their retention
  customer,   \* the subject of the privacy jobs, and its orders
  worker,     \* what each worker process has in its local variables
  crashes     \* how many crashes have happened (bounded by MaxCrashes)

vars == <<rows, artifact, audited, dispatch, due, customer, worker, crashes>>
data == <<due, customer>>

-----------------------------------------------------------------------------
(* The tables.                                                             *)

Types        == {"retention", "privacy-export", "privacy-delete"}
Pending      == {"queued", "processing"}
Terminal     == {"completed", "failed"}
AuditEvents  == {"requested", "completed", "failed"}

\* claim: processing_started_at is null, recent, or older than five minutes.
\* done: completed_at is not null.  failed: failure_code is not null.
\* expiry: expires_at is null, in the future, or past.
\* phase, counted: checkpoint->phase, and whether processed_count > 0.
Row == [status   : {"absent"} \cup Pending \cup Terminal,
        type     : Types \cup {"none"},
        key      : Keys \cup {NoKey},
        attempts : 0..MaxAttempts,
        claim    : {"none", "fresh", "stale"},
        done     : BOOLEAN,
        failed   : BOOLEAN,
        expiry   : {"none", "live", "past"},
        phase    : 0..Phases,
        counted  : BOOLEAN]

NoRow == [status |-> "absent", type |-> "none", key |-> NoKey, attempts |-> 0,
          claim |-> "none", done |-> FALSE, failed |-> FALSE, expiry |-> "none",
          phase |-> 0, counted |-> FALSE]

\* The constraints governance_jobs_completion and on attempts.
Admits(r) ==
  /\ r.attempts <= MaxAttempts
  /\ r.done <=> r.status \in Terminal

Exists(j)    == rows[j].status # "absent"
PendingJobs  == {j \in Jobs : rows[j].status \in Pending}
WithStatus(s) == {j \in Jobs : rows[j].status = s}

\* governance_jobs_active_privacy_idx: one active job per type and customer.
ActiveConflict(t) ==
  t # "retention" /\ \E j \in PendingJobs : rows[j].type = t

\* completeJob() leaves failure_code as it is.
Completed(r) == [r EXCEPT !.status = "completed", !.done = TRUE, !.claim = "none"]
Failed(r)    == [r EXCEPT !.status = "failed", !.failed = TRUE, !.done = TRUE,
                          !.claim = "none"]
Requeued(r)  == [r EXCEPT !.status = "queued", !.claim = "none"]
Claimed(r)   == [r EXCEPT !.status = "processing", !.attempts = @ + 1, !.claim = "fresh"]

Audit(j, e)  == audited' = [audited EXCEPT ![j] = @ \cup {e}]

-----------------------------------------------------------------------------
(* The dispatch row and the workers.                                       *)

Dispatch      == [present : BOOLEAN, due : BOOLEAN, leased : BOOLEAN]
NoDispatch    == [present |-> FALSE, due |-> FALSE, leased |-> FALSE]
DispatchNow   == [present |-> TRUE, due |-> TRUE, leased |-> FALSE]
DispatchLater == [present |-> TRUE, due |-> FALSE, leased |-> FALSE]

\* Where processNext is: before claim(), in the loop of the work, in the catch
\* block (with or without a TerminalJobError), and before the two statements of
\* releaseOrganization().
Steps == {"idle", "claim", "work", "retry", "give up", "release",
          "keep now", "keep later", "drop"}

Worker == [at : Steps, job : Jobs \cup {0}, attempts : 0..MaxAttempts]

IdleWorker == [at |-> "idle", job |-> 0, attempts |-> 0]

Goto(w, step) == worker' = [worker EXCEPT ![w].at = step]
Drop(w, step) == worker' = [worker EXCEPT ![w] = [IdleWorker EXCEPT !.at = step]]

Works(w, type) == worker[w].at = "work" /\ rows[worker[w].job].type = type

Init ==
  /\ rows = [j \in Jobs |-> NoRow]
  /\ artifact = [j \in Jobs |-> FALSE]
  /\ audited = [j \in Jobs |-> {}]
  /\ dispatch = NoDispatch
  /\ due = [p \in 0..(Phases - 1) |-> 0]
  /\ customer = [present |-> FALSE, orders |-> 0]
  /\ worker = [w \in Workers |-> IdleWorker]
  /\ crashes = 0

-----------------------------------------------------------------------------
(* enqueue().  A replay with another digest, a request beyond the capacity *)
(* and one against the active-privacy index roll back.                     *)

NextId(j) ==
  /\ rows[j].status = "absent"
  /\ \A i \in Jobs : i < j => rows[i].status # "absent"

EnqueueNew(k, t) ==
  /\ \A j \in Jobs : Exists(j) => rows[j].key # k
  /\ Cardinality(PendingJobs) < MaxPending
  /\ ~ActiveConflict(t)
  /\ \E j \in Jobs :
       /\ NextId(j)
       /\ rows' = [rows EXCEPT ![j] =
            [NoRow EXCEPT !.status = "queued", !.key = k, !.type = t]]
       /\ Audit(j, "requested")
  /\ dispatch' = DispatchNow
  /\ UNCHANGED <<artifact, data, worker, crashes>>

\* Whatever has become of the job, its replay dispatches the organization.
EnqueueReplay(k) ==
  /\ \E j \in Jobs : Exists(j) /\ rows[j].key = k
  /\ dispatch' = DispatchNow
  /\ UNCHANGED <<rows, artifact, audited, data, worker, crashes>>

-----------------------------------------------------------------------------
(* processNext(), worker w: taking a job.                                  *)

LeaseOrganization(w) ==
  /\ worker[w].at = "idle"
  /\ dispatch.present /\ dispatch.due /\ ~dispatch.leased
  /\ dispatch' = [dispatch EXCEPT !.leased = TRUE]
  /\ Goto(w, "claim")
  /\ UNCHANGED <<rows, artifact, audited, data, crashes>>

DeletesArtifact(j) == rows[j].expiry = "past"

Recovered(r) ==
  IF r.status = "processing" /\ r.claim = "stale"
    THEN IF r.attempts < MaxAttempts THEN Requeued(r) ELSE Failed(r)
    ELSE r

RecoveredRows == [j \in Jobs |-> Recovered(rows[j])]

ArtifactsLeft == [j \in Jobs |-> artifact[j] /\ ~DeletesArtifact(j)]

\* FOR UPDATE SKIP LOCKED passes over a row that the transaction of another
\* worker, one that still works on the job or is claiming too, has locked just now.
MaySkip(w, j) == \E v \in Workers \ {w} : worker[v].at = "claim" \/ worker[v].job = j

QueuedFor(w, j) ==
  /\ RecoveredRows[j].status = "queued"
  /\ \A i \in Jobs : i < j /\ RecoveredRows[i].status = "queued" => MaySkip(w, i)

ClaimQueued(w) ==
  /\ worker[w].at = "claim"
  /\ \E j \in Jobs :
       /\ QueuedFor(w, j)
       /\ Admits(Claimed(RecoveredRows[j]))
       /\ rows' = [RecoveredRows EXCEPT ![j] = Claimed(@)]
       /\ worker' = [worker EXCEPT ![w] =
            [at |-> "work", job |-> j, attempts |-> RecoveredRows[j].attempts + 1]]
  /\ artifact' = ArtifactsLeft
  /\ UNCHANGED <<audited, dispatch, data, crashes>>

ClaimNothing(w) ==
  /\ worker[w].at = "claim"
  /\ \A j \in Jobs : RecoveredRows[j].status = "queued" => MaySkip(w, j)
  /\ rows' = RecoveredRows
  /\ artifact' = ArtifactsLeft
  /\ Drop(w, "release")
  /\ UNCHANGED <<audited, dispatch, data, crashes>>

\* attempts + 1 breaks the attempts constraint: claim() throws outside the try
\* block of processNext, which leaves the lease in place.
ClaimRefused(w) ==
  /\ worker[w].at = "claim"
  /\ \E j \in Jobs : QueuedFor(w, j) /\ ~Admits(Claimed(RecoveredRows[j]))
  /\ Drop(w, "idle")
  /\ UNCHANGED <<rows, artifact, audited, dispatch, data, crashes>>

-----------------------------------------------------------------------------
(* processNext(), worker w: the work.  None of it looks at the status of   *)
(* the row again.  The answer to a COMMIT can be lost: the transaction     *)
(* took effect and the worker sees an error.                               *)

Return(w) == Drop(w, "release") \/ Goto(w, "retry")
Again(w)  == UNCHANGED worker \/ Goto(w, "retry")

\* fault: one batch per phase
NextPhaseAlways(p, deleted) == p + 1

NextPhase(p, deleted) == IF deleted THEN p ELSE p + 1

NoPhaseLeft(p) == p = Phases

RetentionBatch(w) ==
  /\ Works(w, "retention")
  /\ LET j == worker[w].job
         p == rows[j].phase
     IN  /\ ~NoPhaseLeft(p)
         /\ due' = [due EXCEPT ![p] = IF @ > 0 THEN @ - 1 ELSE 0]
         /\ rows' = [rows EXCEPT ![j].phase = NextPhase(p, due[p] > 0),
                                 ![j].counted = @ \/ due[p] > 0]
         /\ \/ UNCHANGED customer
            \/ /\ due[p] > 0 /\ customer.orders > 0   \* the orders phase: some may be his
               /\ customer' = [customer EXCEPT !.orders = @ - 1]
  /\ Again(w)
  /\ UNCHANGED <<artifact, audited, dispatch, crashes>>

RetentionDone(w) ==
  /\ Works(w, "retention")
  /\ LET j == worker[w].job
     IN  /\ NoPhaseLeft(rows[j].phase)
         /\ rows' = [rows EXCEPT ![j] = Completed(@)]
         /\ Audit(j, "completed")
  /\ Return(w)
  /\ UNCHANGED <<artifact, dispatch, data, crashes>>

\* fault: forgets that the artifact expires
ExportedForGood(r) == Completed(r)

Exported(r) == [Completed(r) EXCEPT !.expiry = "live", !.counted = TRUE]

Export(w) ==
  /\ Works(w, "privacy-export") /\ customer.present
  /\ LET j == worker[w].job
     IN  /\ rows' = [rows EXCEPT ![j] = Exported(@)]
         /\ artifact' = [artifact EXCEPT ![j] = TRUE]
         /\ Audit(j, "completed")
  /\ Return(w)
  /\ UNCHANGED <<dispatch, data, crashes>>

\* fault: one batch of orders is taken for all of them
DetachedAfterOne(n) == n <= 1

Detached(n) == n = 0

DeletionBatch(w) ==
  /\ Works(w, "privacy-delete") /\ customer.present /\ customer.orders > 0
  /\ ~Detached(customer.orders)
  /\ customer' = [customer EXCEPT !.orders = @ - 1]
  /\ rows' = [rows EXCEPT ![worker[w].job].counted = TRUE]
  /\ Again(w)
  /\ UNCHANGED <<artifact, audited, dispatch, due, crashes>>

\* The last batch finds no order and deletes the customer; or a worker finds
\* the customer gone that this job has begun to delete.
DeletionDone(w) ==
  /\ Works(w, "privacy-delete")
  /\ LET j == worker[w].job
     IN  /\ IF customer.present THEN Detached(customer.orders) ELSE rows[j].counted
         /\ rows' = [rows EXCEPT ![j] = [Completed(@) EXCEPT !.counted = TRUE]]
         /\ Audit(j, "completed")
  /\ customer' = [customer EXCEPT !.present = FALSE]
  /\ Return(w)
  /\ UNCHANGED <<artifact, dispatch, due, crashes>>

\* TerminalJobError('CUSTOMER_NOT_FOUND').
CustomerNotFound(w) ==
  /\ ~customer.present
  /\ \/ Works(w, "privacy-export")
     \/ Works(w, "privacy-delete") /\ ~rows[worker[w].job].counted
  /\ Goto(w, "give up")
  /\ UNCHANGED <<rows, artifact, audited, dispatch, data, crashes>>

\* A transaction fails without an effect, for example because two workers
\* insert the same artifact chunk.
WorkFails(w) ==
  /\ worker[w].at = "work"
  /\ Goto(w, "retry")
  /\ UNCHANGED <<rows, artifact, audited, dispatch, data, crashes>>

-----------------------------------------------------------------------------
(* processNext(), worker w: giving the job back.                           *)

\* fail(), with its audit event.
Fail(w) ==
  /\ \/ worker[w].at = "give up"
     \/ worker[w].at = "retry" /\ worker[w].attempts >= MaxAttempts
  /\ LET j == worker[w].job
     IN  /\ rows' = [rows EXCEPT ![j] = Failed(@)]
         /\ Audit(j, "failed")
  /\ Drop(w, "release")
  /\ UNCHANGED <<artifact, dispatch, data, crashes>>

\* Refused for a row that is completed or failed: completed_at is set.
Requeue(w) ==
  /\ worker[w].at = "retry" /\ worker[w].attempts < MaxAttempts
  /\ LET j == worker[w].job
         r == Requeued(rows[j])
     IN  rows' = IF Admits(r) THEN [rows EXCEPT ![j] = r] ELSE rows
  /\ Drop(w, "release")
  /\ UNCHANGED <<artifact, audited, dispatch, data, crashes>>

\* releaseOrganization(), first statement: what is left to do?
LookForPending(w) ==
  /\ worker[w].at = "release"
  /\ Drop(w, IF WithStatus("queued") # {} THEN "keep now"
             ELSE IF WithStatus("processing") # {} THEN "keep later" ELSE "drop")
  /\ UNCHANGED <<rows, artifact, audited, dispatch, data, crashes>>

\* Second statement: UPDATE the dispatch row (if it is still there) ...
KeepDispatch(w) ==
  /\ worker[w].at \in {"keep now", "keep later"}
  /\ dispatch' = IF ~dispatch.present THEN dispatch
                 ELSE IF worker[w].at = "keep now" THEN DispatchNow ELSE DispatchLater
  /\ Drop(w, "idle")
  /\ UNCHANGED <<rows, artifact, audited, data, crashes>>

\* ... or DELETE it.
DeleteDispatch(w) ==
  /\ worker[w].at = "drop"
  /\ dispatch' = NoDispatch
  /\ Drop(w, "idle")
  /\ UNCHANGED <<rows, artifact, audited, data, crashes>>

\* The process dies, or its database connection does outside the try block.
Crash(w) ==
  /\ worker[w].at # "idle"
  /\ crashes < MaxCrashes
  /\ crashes' = crashes + 1
  /\ Drop(w, "idle")
  /\ UNCHANGED <<rows, artifact, audited, dispatch, data>>

-----------------------------------------------------------------------------
(* Time passes, rows come past their retention, orders of the customer     *)
(* arrive through ingestion (which creates the customer again if need be). *)

LeaseLapses ==
  /\ dispatch.leased
  /\ dispatch' = [dispatch EXCEPT !.leased = FALSE]
  /\ UNCHANGED <<rows, artifact, audited, data, worker, crashes>>

DispatchFallsDue ==
  /\ dispatch.present /\ ~dispatch.due
  /\ dispatch' = [dispatch EXCEPT !.due = TRUE]
  /\ UNCHANGED <<rows, artifact, audited, data, worker, crashes>>

ClaimGoesStale(j) ==
  /\ rows[j].status = "processing" /\ rows[j].claim = "fresh"
  /\ rows' = [rows EXCEPT ![j].claim = "stale"]
  /\ UNCHANGED <<artifact, audited, dispatch, data, worker, crashes>>

DownloadExpires(j) ==
  /\ rows[j].expiry = "live"
  /\ rows' = [rows EXCEPT ![j].expiry = "past"]
  /\ UNCHANGED <<artifact, audited, dispatch, data, worker, crashes>>

RowsComeDue(p) ==
  /\ due[p] < MaxBatches
  /\ due' = [due EXCEPT ![p] = @ + 1]
  /\ UNCHANGED <<rows, artifact, audited, dispatch, customer, worker, crashes>>

OrdersArrive ==
  /\ customer.orders < MaxBatches
  /\ customer' = [present |-> TRUE, orders |-> customer.orders + 1]
  /\ UNCHANGED <<rows, artifact, audited, dispatch, due, worker, crashes>>

-----------------------------------------------------------------------------
(* find() and download(), each in one snapshot: what the page offers of a  *)
(* job, and what it gets when that is asked for.                           *)

DownloadReady(j) ==
  /\ rows[j].type = "privacy-export" /\ rows[j].status = "completed"
  /\ rows[j].expiry = "live"

Downloads(j) == DownloadReady(j) /\ artifact[j]

-----------------------------------------------------------------------------
Work(w) ==
  \/ RetentionBatch(w) \/ RetentionDone(w)
  \/ Export(w)
  \/ DeletionBatch(w) \/ DeletionDone(w)
  \/ CustomerNotFound(w) \/ WorkFails(w)

Process(w) ==
  \/ LeaseOrganization(w)
  \/ ClaimQueued(w) \/ ClaimNothing(w) \/ ClaimRefused(w)
  \/ Work(w)
  \/ Fail(w) \/ Requeue(w)
  \/ LookForPending(w) \/ KeepDispatch(w) \/ DeleteDispatch(w)

TimePasses ==
  \/ LeaseLapses
  \/ DispatchFallsDue
  \/ \E j \in Jobs : ClaimGoesStale(j) \/ DownloadExpires(j)

DataChanges ==
  \/ \E p \in DOMAIN due : RowsComeDue(p)
  \/ OrdersArrive

Next ==
  \/ \E k \in Keys : EnqueueReplay(k) \/ \E t \in Types : EnqueueNew(k, t)
  \/ \E w \in Workers : Process(w) \/ Crash(w)
  \/ TimePasses
  \/ DataChanges

Spec == Init /\ [][Next]_vars

\* The pump of every live worker keeps polling, and deadlines pass.
FairSpec ==
  /\ Spec
  /\ \A w \in Workers : WF_vars(Process(w))
  /\ WF_vars(LeaseLapses)
  /\ WF_vars(DispatchFallsDue)
  /\ \A j \in Jobs : WF_vars(ClaimGoesStale(j)) /\ WF_vars(DownloadExpires(j))

-----------------------------------------------------------------------------
(* Properties.                                                             *)

\* Every variable stays within the columns and program points of the code.
TypeOK ==
  /\ rows \in [Jobs -> Row]
  /\ artifact \in [Jobs -> BOOLEAN]
  /\ audited \in [Jobs -> SUBSET AuditEvents]
  /\ dispatch \in Dispatch
  /\ due \in [0..(Phases - 1) -> 0..MaxBatches]
  /\ customer \in [present : BOOLEAN, orders : 0..MaxBatches]
  /\ worker \in [Workers -> Worker]
  /\ crashes \in 0..MaxCrashes

\* Retention works through its phases in order: whatever crashes, and however
\* many workers run the job at once, a phase is left only when it has nothing
\* left to delete, none is started again or skipped, a job reported as completed
\* has left all of them behind, and one that is over never becomes pending again,
\* although a worker that lost it to another still tries to put it back.
PhasesInOrder ==
  [][\A j \in Jobs :
       /\ rows[j].status \in Terminal => rows'[j].status \in Terminal
       /\ rows'[j].phase # rows[j].phase =>
            /\ rows'[j].phase = rows[j].phase + 1
            /\ due[rows[j].phase] = 0
       /\ rows[j].type = "retention" /\ rows'[j].status = "completed" =>
            rows'[j].phase = Phases]_<<rows, due>>

\* When a privacy deletion is reported as completed, the customer is gone and
\* no order refers to it, also when orders kept arriving between the batches, and
\* the audit trail says that it was completed.
DeletionLeavesNothing ==
  [][\A j \in Jobs :
       /\ rows[j].type = "privacy-delete"
       /\ rows[j].status # "completed" /\ rows'[j].status = "completed"
       => /\ ~customer'.present /\ customer'.orders = 0
          /\ "completed" \in audited'[j]]_vars

\* A completed export is offered until it expires, what is offered can be downloaded,
\* and nothing stored lacks the expiry by which it is deleted later.
ArtifactWindow ==
  \A j \in Jobs :
    /\ artifact[j] => rows[j].expiry # "none"
    /\ rows[j].type = "privacy-export" /\ rows[j].status = "completed"
         /\ rows[j].expiry # "past" => DownloadReady(j)
    /\ DownloadReady(j) => Downloads(j)

\* What the documentation says: an artifact is deleted after its download window.
ExpiredArtifactsDeleted ==
  \A j \in Jobs : artifact[j] /\ rows[j].expiry = "past" ~> ~artifact[j]
=============================================================================
