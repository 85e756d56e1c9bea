---------------------------- MODULE ImportQueue -----------------------------
(***************************************************************************)
(* CSV imports: the data_imports rows of one organization and the worker   *)
(* processes that run ImportQueueService.processNext, one call at a time   *)
(* each.  There is no dispatch row: claim() looks for work in data_imports *)
(* itself, in a transaction without an organization.  The table is under   *)
(* FORCE ROW LEVEL SECURITY, so what claim() sees depends on the role.     *)
(*                                                                         *)
(* The orders of a file are written in the transaction that completes the  *)
(* import.  Each goes through ingestion_requests under a key made of the   *)
(* import and the order; the first of these rows is locked till COMMIT, so *)
(* two workers with the same import write one after the other.             *)
(*                                                                         *)
(* Every database transaction is one action.  A replayed enqueue, and one  *)
(* whose key was used for another file or that exceeds the capacity,       *)
(* change nothing and are left out.  csv_payload is not null exactly while *)
(* the import is pending: the constraint is kept by every update.          *)
(*                                                                         *)
(* A definition marked "fault" is a plausible mistake in the one below it; *)
(* nothing uses it.                                                        *)
(***************************************************************************)
EXTENDS Integers, FiniteSets

CONSTANTS
  Jobs,                \* row identities, in the order of created_at
  Keys,                \* idempotency keys of the organization
  Workers,             \* worker processes
  NoKey,               \* the key of a row that was never inserted
  MaxPending,          \* QUEUE_MAX_PENDING_PER_ORG
  MaxAttempts,         \* claims of one import (5)
  BypassesRowSecurity  \* does the role of the workers see rows of every organization?

ASSUME JobsAssumption        == Jobs \subseteq Nat \ {0} /\ IsFiniteSet(Jobs)
ASSUME NoKeyAssumption       == NoKey \notin Keys
ASSUME MaxPendingAssumption  == MaxPending \in Nat \ {0}
ASSUME MaxAttemptsAssumption == MaxAttempts \in Nat \ {0}
ASSUME RoleAssumption        == BypassesRowSecurity \in BOOLEAN

VARIABLES
  rows,      \* the table data_imports
  receipts,  \* imports whose orders have completed ingestion_requests
  applied,   \* per import, how often its orders were written
  worker     \* what each worker process has in its local variables

vars == <<rows, receipts, applied, worker>>

-----------------------------------------------------------------------------
Pending  == {"queued", "processing"}
Terminal == {"completed", "failed"}

\* valid: would parseOrderCsv accept the file?
\* stale: processing_started_at is older than five minutes.
Row == [status   : {"absent", "purged"} \cup Pending \cup Terminal,
        key      : Keys \cup {NoKey},
        valid    : BOOLEAN,
        attempts : 0..MaxAttempts,
        stale    : BOOLEAN]

NoRow == [status |-> "absent", key |-> NoKey, valid |-> FALSE, attempts |-> 0, stale |-> FALSE]

Exists(r) == r.status \in Pending \cup Terminal

PendingJobs == {j \in Jobs : rows[j].status \in Pending}

\* Where processNext is: in the ingesting transaction, or before fail().
Worker     == [at : {"idle", "ingest", "fail"}, job : Jobs \cup {0}]
IdleWorker == [at |-> "idle", job |-> 0]

Goto(w, step) == worker' = [worker EXCEPT ![w].at = step]
Leave(w)      == worker' = [worker EXCEPT ![w] = IdleWorker]

\* UPDATE ... WHERE id = j
Stored(j, status) ==
  IF Exists(rows[j]) THEN [rows EXCEPT ![j].status = status] ELSE rows

Init ==
  /\ rows = [j \in Jobs |-> NoRow]
  /\ receipts = {}
  /\ applied = [j \in Jobs |-> 0]
  /\ worker = [w \in Workers |-> IdleWorker]

-----------------------------------------------------------------------------
(* enqueue(), under the organization's advisory lock.                      *)

NextId(j) ==
  /\ rows[j].status = "absent"
  /\ \A i \in Jobs : i < j => rows[i].status # "absent"

HasCapacity == Cardinality(PendingJobs) < MaxPending

Enqueue(k) ==
  /\ \A j \in Jobs : Exists(rows[j]) => rows[j].key # k
  /\ HasCapacity
  /\ \E j \in Jobs, valid \in BOOLEAN :
       /\ NextId(j)
       /\ rows' = [rows EXCEPT ![j] =
                     [NoRow EXCEPT !.status = "queued", !.key = k, !.valid = valid]]
  /\ UNCHANGED <<receipts, applied, worker>>

-----------------------------------------------------------------------------
(* processNext(), worker w.                                                *)

\* claim() sets no organization: app_current_organization_id() is null and the
\* tenant policy hides every row, unless the role bypasses row security.
Visible(r) == BypassesRowSecurity /\ Exists(r)

\* fault: giving up forgets the attempts
ExhaustedAfresh(r) ==
  IF Visible(r) /\ r.status = "processing" /\ r.stale /\ r.attempts >= MaxAttempts
    THEN [r EXCEPT !.status = "failed", !.stale = FALSE, !.attempts = 0] ELSE r

\* The first statement of claim() gives up on an import interrupted too often.
Exhausted(r) ==
  IF Visible(r) /\ r.status = "processing" /\ r.stale /\ r.attempts >= MaxAttempts
    THEN [r EXCEPT !.status = "failed", !.stale = FALSE] ELSE r

\* fault: interrupted imports are not taken over
ClaimableOnce(r) == Visible(r) /\ r.status = "queued"

\* The second statement takes a queued import, or one whose worker went silent.
Claimable(r) ==
  /\ Visible(r)
  /\ \/ r.status = "queued"
     \/ r.status = "processing" /\ r.stale /\ r.attempts < MaxAttempts

\* FOR UPDATE SKIP LOCKED passes over a row which the transaction of a worker
\* that was thought dead has updated just now.  (Two workers that claim at once
\* take the same rows as one after the other.)
MaySkip(w, j) == \E v \in Workers \ {w} : worker[v].job = j

Claimed(r) == [r EXCEPT !.status = "processing", !.attempts = @ + 1, !.stale = FALSE]

\* parseOrderCsv runs between claim() and the next transaction.
Claim(w) ==
  /\ worker[w].at = "idle"
  /\ \E j \in Jobs :
       /\ Claimable(rows[j])
       /\ \A i \in Jobs : i < j /\ Claimable(rows[i]) => MaySkip(w, i)
       /\ rows' = [i \in Jobs |-> IF i = j THEN Claimed(rows[i]) ELSE Exhausted(rows[i])]
       /\ worker' = [worker EXCEPT ![w] =
            [at |-> IF rows[j].valid THEN "ingest" ELSE "fail", job |-> j]]
  /\ UNCHANGED <<receipts, applied>>

ClaimNothing(w) ==
  /\ worker[w].at = "idle"
  /\ \A j \in Jobs : Claimable(rows[j]) => MaySkip(w, j)
  /\ rows' = [j \in Jobs |-> Exhausted(rows[j])]
  /\ UNCHANGED <<receipts, applied, worker>>

\* fault: the state of the import tells whether its orders have been ingested
ReplaysByState(j) == j \in receipts /\ rows[j].status = "completed"

\* claimRequest() returns the stored response of an order already ingested.
Replays(j) == j \in receipts

\* The orders, their receipts and the completed state in one transaction.  The
\* answer to its COMMIT can be lost; the worker then sees an error.
Ingest(w) ==
  /\ worker[w].at = "ingest"
  /\ LET j == worker[w].job
     IN  /\ applied' = [applied EXCEPT ![j] = IF Replays(j) THEN @ ELSE @ + 1]
         /\ receipts' = receipts \cup {j}
         /\ rows' = Stored(j, "completed")
  /\ Leave(w) \/ Goto(w, "fail")

\* Any error, lasting or not, rolls everything back.
IngestFails(w) ==
  /\ worker[w].at = "ingest"
  /\ Goto(w, "fail")
  /\ UNCHANGED <<rows, receipts, applied>>

\* fail(), after a file was refused or in the catch block: there is no retry.
Fail(w) ==
  /\ worker[w].at = "fail"
  /\ rows' = Stored(worker[w].job, "failed")
  /\ Leave(w)
  /\ UNCHANGED <<receipts, applied>>

\* The process dies, or fail() itself throws out of processNext.
Crash(w) ==
  /\ worker[w].at # "idle"
  /\ Leave(w)
  /\ UNCHANGED <<rows, receipts, applied>>

-----------------------------------------------------------------------------
GoesStale(j) ==
  /\ rows[j].status = "processing" /\ ~rows[j].stale
  /\ rows' = [rows EXCEPT ![j].stale = TRUE]
  /\ UNCHANGED <<receipts, applied, worker>>

\* Retention phase 'imports'.  Operational data is kept for at least 30 days:
\* no worker is that late (connections and statements time out in seconds).
RetentionPurges(j) ==
  /\ rows[j].status \in Terminal
  /\ \A w \in Workers : worker[w].job # j
  /\ rows' = [rows EXCEPT ![j].status = "purged"]
  /\ UNCHANGED <<receipts, applied, worker>>

-----------------------------------------------------------------------------
Process(w) == Claim(w) \/ ClaimNothing(w) \/ Ingest(w) \/ IngestFails(w) \/ Fail(w)

Next ==
  \/ \E k \in Keys : Enqueue(k)
  \/ \E w \in Workers : Process(w) \/ Crash(w)
  \/ \E j \in Jobs : GoesStale(j) \/ RetentionPurges(j)

Spec == Init /\ [][Next]_vars

\* Workers poll and go on with what they began; claims age.  Workers may crash
\* as often as they like: an import is claimed MaxAttempts times at most.
Fairness ==
  /\ \A w \in Workers : WF_vars(Process(w))
  /\ \A j \in Jobs : WF_vars(GoesStale(j))

FairSpec == Spec /\ Fairness

-----------------------------------------------------------------------------
(* Properties.                                                             *)

\* The columns stay in range; no import is ever claimed more than MaxAttempts
\* times, through crashes and workers taking over from each other.
TypeOK ==
  /\ rows \in [Jobs -> Row]
  /\ receipts \in SUBSET Jobs
  /\ applied \in [Jobs -> Nat]
  /\ worker \in [Workers -> Worker]

\* Whatever number of workers ran an import, its orders were written once at
\* most: a late run replays the receipts instead of overwriting what has been
\* ingested since.  A completed import was written, a refused file never is.
AppliedOnce ==
  \A j \in Jobs :
    /\ applied[j] <= 1
    /\ rows[j].status = "completed" => applied[j] = 1
    /\ ~rows[j].valid => applied[j] = 0

Contract == INSTANCE DurableJob WITH
  job <- [j \in Jobs |-> [status |-> rows[j].status, attempts |-> rows[j].attempts]]

\* Imports make the moves of a durable job.  Its move Expired, the withdrawal of
\* a completed result, is here what a late or misinformed worker's fail() does.
ImplementsDurableJob == Contract!Spec

\* An accepted import is completed or failed in the end, however often workers
\* crash.
EveryImportSettles ==
  \A j \in Jobs : rows[j].status \in Pending ~> rows[j].status \notin Pending
=============================================================================
