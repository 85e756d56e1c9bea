----------------------- MODULE SalesExportQueueProofs -----------------------
(***************************************************************************)
(* Theorems about SalesExportQueue, for every number of jobs, keys and     *)
(* workers, every capacity and every number of crashes.                    *)
(***************************************************************************)
EXTENDS SalesExportQueue, FiniteSetTheorems, TLAPS

USE DEF AttemptLimit, OutOfAttempts

-----------------------------------------------------------------------------
(* The row operators.                                                      *)

\* What the statements write is a row.
LEMMA RowUpdatesTyped ==
  ASSUME NEW r \in Row
  PROVE  /\ Completed(r) \in Row
         /\ \A code \in FailureCodes : Failed(r, code) \in Row
         /\ Requeued(r) \in Row
         /\ Recovered(r) \in Row
         /\ Admits(Claimed(r)) => Claimed(r) \in Row
<1>1. Completed(r) \in Row
  BY DEF Row, Statuses, Completed
<1>2. ASSUME NEW code \in FailureCodes PROVE Failed(r, code) \in Row
  BY <1>2 DEF Row, Statuses, Failed
<1>3. Requeued(r) \in Row
  BY DEF Row, Statuses, Requeued
<1>4. Recovered(r) \in Row
  <2>1. CASE r.status = "completed" /\ r.expiry = "past"
    BY <2>1 DEF Recovered, Row, Statuses, FailureCodes
  <2>2. CASE r.status = "processing" /\ r.claim = "stale"
    <3>1. r.attempts < AttemptLimit \/ r.attempts >= AttemptLimit
      BY DEF Row
    <3>2. "EXPORT_RETRY_EXHAUSTED" \in FailureCodes
      BY DEF FailureCodes
    <3> QED BY <2>2, <3>1, <3>2, <1>2, <1>3 DEF Recovered
  <2>3. CASE /\ ~(r.status = "completed" /\ r.expiry = "past")
             /\ ~(r.status = "processing" /\ r.claim = "stale")
    BY <2>3 DEF Recovered
  <2> QED BY <2>1, <2>2, <2>3
<1>5. Admits(Claimed(r)) => Claimed(r) \in Row
  <2>1. Claimed(r).attempts = r.attempts + 1 /\ r.attempts \in Nat
    BY DEF Claimed, Row
  <2>2. Admits(Claimed(r)) => r.attempts + 1 \in 0..AttemptLimit
    BY <2>1 DEF Admits
  <2> QED BY <2>2 DEF Row, Statuses, Claimed
<1> QED BY <1>1, <1>2, <1>3, <1>4, <1>5

\* The absent row is one too.
LEMMA NoRowTyped == NoRow \in Row
  BY DEF Row, NoRow, Statuses

\* Storing a row leaves a table of rows.
LEMMA StoredTyped ==
  ASSUME rows \in [Jobs -> Row], NEW j \in Jobs, NEW r \in Row
  PROVE  Stored(j, r) \in [Jobs -> Row]
  BY DEF Stored

\* So does the recovery of stale rows.
LEMMA RecoveredRowsTyped ==
  ASSUME rows \in [Jobs -> Row]
  PROVE  RecoveredRows \in [Jobs -> Row]
  BY RowUpdatesTyped DEF RecoveredRows

\* A worker only reaches the steps of processNext that use its job by claiming one.
HolderHasJob == \A w \in Workers : Holds(w) => worker[w].job \in Jobs

TypeInv == TypeOK /\ HolderHasJob

\* The types hold of an empty queue.
LEMMA TypeInit == Init => TypeInv
  BY NoRowTyped, MaxCrashesAssumption
     DEF Init, TypeInv, TypeOK, HolderHasJob, Holds, NoDispatch, Dispatch, Worker,
         IdleWorker, Steps

\* A worker that lets go of its job keeps the types.
LEMMA DropTyped ==
  ASSUME TypeInv, NEW w \in Workers, NEW step \in {"idle", "release", "keep", "drop"},
         Drop(w, step)
  PROVE  worker' \in [Workers -> Worker] /\ HolderHasJob'
  BY DEF TypeInv, TypeOK, HolderHasJob, Holds, Drop, Worker, IdleWorker, Steps

\* Every step keeps the types.
LEMMA TypeStep == TypeInv /\ [Next]_vars => TypeInv'
<1> SUFFICES ASSUME TypeInv, [Next]_vars PROVE TypeInv'
  OBVIOUS
<1> USE DEF TypeInv
<1>1. ASSUME NEW k \in Keys, EnqueueNew(k) PROVE TypeInv'
  <2>1. PICK j \in Jobs :
           /\ rows' = [rows EXCEPT ![j] = [NoRow EXCEPT !.status = "queued", !.key = k]]
           /\ Audited(j)
    BY <1>1 DEF EnqueueNew
  <2>2. [NoRow EXCEPT !.status = "queued", !.key = k] \in Row
    BY NoRowTyped DEF Row, Statuses
  <2>4. rows' \in [Jobs -> Row]
    BY <2>1, <2>2 DEF TypeOK
  <2>3. audits' \in [Jobs -> 0..1]
    BY <2>1 DEF TypeOK, Audited
  <2> QED BY <1>1, <2>4, <2>3 DEF EnqueueNew, TypeOK, HolderHasJob, Holds, Dispatched,
                                  DispatchNow, Dispatch
<1>2. ASSUME NEW k \in Keys, EnqueueReplay(k) PROVE TypeInv'
  BY <1>2 DEF EnqueueReplay, TypeOK, HolderHasJob, Holds, Dispatched, DispatchNow,
              Dispatch, Audited
<1>3. ASSUME NEW w \in Workers, LeaseOrganization(w) PROVE TypeInv'
  BY <1>3 DEF LeaseOrganization, Goto, TypeOK, HolderHasJob, Holds, Dispatch, Worker, Steps
<1>4. ASSUME NEW w \in Workers, ClaimQueued(w) PROVE TypeInv'
  <2>1. PICK j \in Jobs :
           /\ Admits(Claimed(RecoveredRows[j]))
           /\ rows' = [RecoveredRows EXCEPT ![j] = Claimed(@)]
           /\ worker' = [worker EXCEPT ![w] =
                [at |-> "produce", job |-> j, attempts |-> RecoveredRows[j].attempts + 1]]
    BY <1>4 DEF ClaimQueued
  <2>2. RecoveredRows \in [Jobs -> Row]
    BY RecoveredRowsTyped DEF TypeOK
  <2>3. Claimed(RecoveredRows[j]) \in Row
    BY <2>1, <2>2, RowUpdatesTyped
  <2>4. rows' \in [Jobs -> Row]
    BY <2>1, <2>2, <2>3
  <2>5. RecoveredRows[j].attempts + 1 \in 0..AttemptLimit
    BY <2>2, <2>3 DEF Claimed, Row
  <2>6. worker' \in [Workers -> Worker] /\ HolderHasJob'
    BY <2>1, <2>5 DEF TypeOK, HolderHasJob, Holds, Worker, Steps
  <2> QED BY <1>4, <2>4, <2>6 DEF ClaimQueued, TypeOK
<1>5. ASSUME NEW w \in Workers, ClaimNothing(w) PROVE TypeInv'
  BY <1>5, RecoveredRowsTyped, DropTyped DEF ClaimNothing, TypeOK
<1>6. ASSUME NEW w \in Workers, ClaimRefused(w) PROVE TypeInv'
  BY <1>6, DropTyped DEF ClaimRefused, TypeOK
<1>7. ASSUME NEW w \in Workers, Complete(w) PROVE TypeInv'
  <2>1. worker[w].job \in Jobs
    BY <1>7 DEF Complete, HolderHasJob, Holds
  <2>2. rows' \in [Jobs -> Row]
    BY <1>7, <2>1, RowUpdatesTyped, StoredTyped DEF Complete, TypeOK
  <2>3. worker' \in [Workers -> Worker] /\ HolderHasJob'
    <3>1. CASE Drop(w, "release") BY <3>1, DropTyped
    <3>2. CASE Goto(w, "retry")
      BY <3>2, <2>1 DEF Goto, TypeOK, Worker, Steps, HolderHasJob, Holds
    <3> QED BY <1>7, <3>1, <3>2 DEF Complete
  <2> QED BY <1>7, <2>2, <2>3 DEF Complete, TypeOK
<1>8. ASSUME NEW w \in Workers, ExceedRowLimit(w) PROVE TypeInv'
  <2>1. worker[w].job \in Jobs
    BY <1>8 DEF ExceedRowLimit, HolderHasJob, Holds
  <2>2. rows' \in [Jobs -> Row]
    BY <1>8, <2>1, RowUpdatesTyped, StoredTyped DEF ExceedRowLimit, TypeOK, FailureCodes
  <2>3. worker' \in [Workers -> Worker] /\ HolderHasJob'
    <3>1. CASE Drop(w, "release") BY <3>1, DropTyped
    <3>2. CASE Goto(w, "retry")
      BY <3>2, <2>1 DEF Goto, TypeOK, Worker, Steps, HolderHasJob, Holds
    <3> QED BY <1>8, <3>1, <3>2 DEF ExceedRowLimit
  <2> QED BY <1>8, <2>2, <2>3 DEF ExceedRowLimit, TypeOK
<1>9. ASSUME NEW w \in Workers, ProductionFails(w) PROVE TypeInv'
  BY <1>9 DEF ProductionFails, Goto, TypeOK, Worker, Steps, HolderHasJob, Holds
<1>10. ASSUME NEW w \in Workers, RetryOrFail(w) PROVE TypeInv'
  <2>1. worker[w].job \in Jobs
    BY <1>10 DEF RetryOrFail, HolderHasJob, Holds
  <2>2. rows' \in [Jobs -> Row]
    BY <1>10, <2>1, RowUpdatesTyped, StoredTyped DEF RetryOrFail, TypeOK, FailureCodes
  <2> QED BY <1>10, <2>2, DropTyped DEF RetryOrFail, TypeOK
<1>11. ASSUME NEW w \in Workers, LookForPending(w) PROVE TypeInv'
  BY <1>11, DropTyped DEF LookForPending, TypeOK
<1>12. ASSUME NEW w \in Workers, KeepDispatch(w) PROVE TypeInv'
  BY <1>12, DropTyped DEF KeepDispatch, TypeOK, Dispatch, DispatchNow, DispatchLater
<1>13. ASSUME NEW w \in Workers, DeleteDispatch(w) PROVE TypeInv'
  BY <1>13, DropTyped DEF DeleteDispatch, TypeOK, Dispatch, NoDispatch
<1>14. ASSUME NEW w \in Workers, Crash(w) PROVE TypeInv'
  BY <1>14, DropTyped, MaxCrashesAssumption DEF Crash, TypeOK
<1>15. CASE LeaseLapses
  BY <1>15 DEF LeaseLapses, TypeOK, Dispatch, HolderHasJob, Holds
<1>16. CASE DispatchFallsDue
  BY <1>16 DEF DispatchFallsDue, TypeOK, Dispatch, HolderHasJob, Holds
<1>17. ASSUME NEW j \in Jobs, ClaimGoesStale(j) \/ ExportExpires(j) PROVE TypeInv'
  BY <1>17 DEF ClaimGoesStale, ExportExpires, TypeOK, Row, HolderHasJob, Holds
<1>18. ASSUME NEW j \in Jobs, RetentionPurges(j) PROVE TypeInv'
  BY <1>18 DEF RetentionPurges, TypeOK, Row, NoRow, Statuses, HolderHasJob, Holds
<1>19. CASE UNCHANGED vars
  BY <1>19 DEF vars, TypeOK, HolderHasJob, Holds
<1> QED
  BY <1>1, <1>2, <1>3, <1>4, <1>5, <1>6, <1>7, <1>8, <1>9, <1>10, <1>11, <1>12, <1>13,
     <1>14, <1>15, <1>16, <1>17, <1>18, <1>19 DEF Next, Process, TimePasses

\* Type correctness: the rows, the workers' local variables and the counters
\* never leave the ranges of the schema and of the code.
THEOREM TypeCorrect == Spec => []TypeOK
<1>1. TypeInv => TypeOK
  BY DEF TypeInv
<1> QED BY <1>1, TypeInit, TypeStep, PTL DEF Spec

-----------------------------------------------------------------------------
(***************************************************************************)
(* The inductive invariant.  FencedClaims alone is not inductive: a claim  *)
(* is only known to exceed every outstanding one because the counter of    *)
(* the row never decreases, and a late UPDATE is only known to be refused  *)
(* because every row already satisfies the table's constraints.            *)
(***************************************************************************)
View(r) == [status |-> r.status, attempts |-> r.attempts]

RowsAdmitted == \A j \in Jobs : Exists(rows[j]) => Admits(rows[j])

UntouchedRows == \A j \in Jobs : rows[j].status = "absent" => rows[j].attempts = 0

HoldersClaimed ==
  \A w \in Workers :
    Holds(w) => rows[worker[w].job].status # "absent" /\ worker[w].attempts >= 1

IInv == TypeInv /\ RowsAdmitted /\ UntouchedRows /\ HoldersClaimed /\ FencedClaims

\* A row stays as it was for the submitter, or makes a move of the contract.
RowStep(r, s) == View(s) = View(r) \/ Contract!Move(View(r), View(s))

\* Recovering a row is a move of the contract, or none, and counts no claim.
LEMMA RecoveredStep ==
  ASSUME NEW r \in Row, Exists(r) => Admits(r)
  PROVE  /\ Exists(Recovered(r)) => Admits(Recovered(r))
         /\ Recovered(r).attempts = r.attempts
         /\ Recovered(r).status = "absent" <=> r.status = "absent"
         /\ Recovered(r).status = "queued" => r.status \in Pending
         /\ r.status = "completed" /\ Recovered(r).status # "completed" =>
              r.expiry = "past" /\ Recovered(r).failure = "EXPORT_EXPIRED"
         /\ RowStep(r, Recovered(r))
<1>1. CASE r.status = "completed" /\ r.expiry = "past"
  <2>1. Recovered(r) = [r EXCEPT !.status = "failed", !.failure = "EXPORT_EXPIRED",
                                 !.csv = FALSE, !.expiry = "none"]
    BY <1>1 DEF Recovered
  <2>2. Exists(r) /\ r.done
    BY <1>1 DEF Exists, Terminal, Pending, Admits, PayloadState
  <2>3. Admits(Recovered(r))
    BY <1>1, <2>1, <2>2 DEF Admits, PayloadState, ExpiryState, Row, Pending
  <2>4. RowStep(r, Recovered(r))
    BY <1>1, <2>1 DEF RowStep, View, Row, Contract!Move, Contract!Expired
  <2> QED BY <1>1, <2>1, <2>3, <2>4 DEF Row
<1>2. CASE r.status = "processing" /\ r.claim = "stale" /\ r.attempts < AttemptLimit
  <2>1. /\ r.attempts \in Nat
        /\ ~(r.attempts >= AttemptLimit)
    BY <1>2 DEF Row
  <2>2. Recovered(r) = Requeued(r)
    BY <1>2, <2>1 DEF Recovered
  <2>3. Admits(Recovered(r))
    BY <1>2, <2>2 DEF Requeued, Admits, PayloadState, ExpiryState, Row, Pending, Exists, Terminal
  <2>4. RowStep(r, Recovered(r))
    BY <1>2, <2>2 DEF Requeued, RowStep, View, Row, Contract!Move, Contract!Requeued
  <2> QED BY <1>2, <2>2, <2>3, <2>4 DEF Row, Requeued, Pending
<1>3. CASE r.status = "processing" /\ r.claim = "stale" /\ r.attempts >= AttemptLimit
  <2>1. Recovered(r) = Failed(r, "EXPORT_RETRY_EXHAUSTED")
    BY <1>3 DEF Recovered
  <2>2. Admits(Recovered(r))
    BY <1>3, <2>1 DEF Failed, Admits, PayloadState, ExpiryState, Row, Pending, Exists, Terminal
  <2>3. RowStep(r, Recovered(r))
    BY <1>3, <2>1 DEF Failed, RowStep, View, Row, Contract!Move, Contract!GaveUp, Contract!Pending
  <2> QED BY <1>3, <2>1, <2>2, <2>3 DEF Row, Failed, Pending
<1>4. CASE /\ ~(r.status = "completed" /\ r.expiry = "past")
           /\ ~(r.status = "processing" /\ r.claim = "stale")
  BY <1>4 DEF Recovered, RowStep, Pending
<1>5. r.attempts < AttemptLimit \/ r.attempts >= AttemptLimit
  BY DEF Row
<1> QED BY <1>1, <1>2, <1>3, <1>4, <1>5

\* Claiming a row is a move of the contract that counts one claim.
LEMMA ClaimedStep ==
  ASSUME NEW r \in Row, r.status \in Pending, NEW q \in Row, Admits(Claimed(q)),
         q.attempts = r.attempts
  PROVE  /\ Claimed(q).status = "processing"
         /\ Claimed(q).attempts = r.attempts + 1
         /\ RowStep(r, Claimed(q))
  BY DEF Claimed, RowStep, View, Row, Contract!Move, Contract!Claimed, Pending,
         Contract!Pending

\* Completing a claimed row is a move of the contract.
LEMMA CompletedStep ==
  ASSUME NEW r \in Row, Exists(r), Admits(r), r.attempts >= 1
  PROVE  /\ Completed(r).status = "completed"
         /\ Completed(r).attempts = r.attempts
         /\ RowStep(r, Completed(r))
<1>1. Completed(r).status = "completed" /\ Completed(r).attempts = r.attempts
  BY DEF Completed, Row
<1>2. CASE r.status = "completed"
  BY <1>1, <1>2 DEF RowStep, View
<1>3. CASE r.status # "completed"
  BY <1>1, <1>3 DEF RowStep, View, Exists, Pending, Terminal, Contract!Move,
     Contract!Finished, Contract!Pending, Row
<1> QED BY <1>1, <1>2, <1>3

\* So is failing it.
LEMMA FailedStep ==
  ASSUME NEW r \in Row, Exists(r), Admits(r), r.attempts >= 1,
         NEW code \in FailureCodes, Admits(Failed(r, code))
  PROVE  /\ Failed(r, code).status = "failed"
         /\ Failed(r, code).attempts = r.attempts
         /\ r.status # "completed"
         /\ RowStep(r, Failed(r, code))
<1>1. /\ Failed(r, code).status = "failed" /\ Failed(r, code).attempts = r.attempts
      /\ Failed(r, code).expiry = r.expiry
  BY DEF Failed, Row
<1>2. r.status # "completed"
  BY <1>1 DEF Admits, ExpiryState
<1>3. CASE r.status = "failed"
  BY <1>1, <1>3 DEF RowStep, View
<1>4. CASE r.status \in Pending
  BY <1>1, <1>4 DEF RowStep, View, Pending, Contract!Move, Contract!GaveUp,
     Contract!Pending, Row
<1> QED BY <1>1, <1>2, <1>3, <1>4 DEF Exists, Terminal

\* So is returning it to the queue.
LEMMA RequeuedStep ==
  ASSUME NEW r \in Row, Exists(r), Admits(r), Admits(Requeued(r))
  PROVE  /\ Requeued(r).status = "queued"
         /\ Requeued(r).attempts = r.attempts
         /\ r.status \in Pending
         /\ RowStep(r, Requeued(r))
<1>1. /\ Requeued(r).status = "queued" /\ Requeued(r).attempts = r.attempts
      /\ Requeued(r).done = r.done
  BY DEF Requeued, Row
<1>2. ~r.done
  BY <1>1 DEF Admits, PayloadState
<1>3. r.status \in Pending
  BY <1>2 DEF Admits, PayloadState
<1>4. RowStep(r, Requeued(r))
  BY <1>1, <1>3 DEF RowStep, View, Pending, Contract!Move, Contract!Requeued, Row
<1> QED BY <1>1, <1>3, <1>4

-----------------------------------------------------------------------------
(* What one transaction may do to one row.                                 *)

RowChange(r, s) ==
  /\ Exists(s) => Admits(s)
  /\ s.attempts >= r.attempts
  /\ s.status = "absent" => r.status = "absent" /\ s.attempts = r.attempts
  /\ RowStep(r, s)
  /\ r.status = "completed" /\ s.status # "completed" =>
       \/ r.expiry = "past" /\ s.failure = "EXPORT_EXPIRED"
       \/ s.status = "purged"

\* A row may stay as it is.
LEMMA NoChange ==
  ASSUME NEW r \in Row, Exists(r) => Admits(r)
  PROVE  RowChange(r, r)
  BY DEF RowChange, RowStep, Row

\* A row may be recovered.
LEMMA RecoveredChange ==
  ASSUME NEW r \in Row, Exists(r) => Admits(r)
  PROVE  RowChange(r, Recovered(r))
  BY RecoveredStep DEF RowChange, Row

\* Whoever holds a job changes its row as it may.
LEMMA StoredChange ==
  ASSUME IInv, NEW w \in Workers, Holds(w), NEW s,
         \/ s = Completed(rows[worker[w].job])
         \/ \E code \in FailureCodes : s = Failed(rows[worker[w].job], code)
         \/ s = Requeued(rows[worker[w].job]),
         rows' = Stored(worker[w].job, s)
  PROVE  \A j \in Jobs : RowChange(rows[j], rows'[j])
<1> DEFINE r == rows[worker[w].job]
<1>1. /\ worker[w].job \in Jobs /\ r \in Row
      /\ \A j \in Jobs : rows[j] \in Row /\ (Exists(rows[j]) => Admits(rows[j]))
  BY DEF IInv, TypeInv, TypeOK, HolderHasJob, RowsAdmitted
<1>2. r.attempts >= 1
  BY <1>1 DEF IInv, HoldersClaimed, FencedClaims, TypeInv, TypeOK, Worker, Row
<1>3. CASE ~(Exists(r) /\ Admits(s))
  BY <1>1, <1>3, NoChange DEF Stored
<1>4. CASE Exists(r) /\ Admits(s)
  <2>1. rows' = [rows EXCEPT ![worker[w].job] = s]
    BY <1>4 DEF Stored
  <2>2. RowChange(r, s)
    <3>1. CASE s = Completed(r)
      BY <3>1, <1>1, <1>2, <1>4, CompletedStep DEF RowChange, Row
    <3>2. CASE \E code \in FailureCodes : s = Failed(r, code)
      BY <3>2, <1>1, <1>2, <1>4, FailedStep DEF RowChange, Row
    <3>3. CASE s = Requeued(r)
      BY <3>3, <1>1, <1>2, <1>4, RequeuedStep DEF RowChange, Row, Pending
    <3> QED BY <3>1, <3>2, <3>3
  <2> QED BY <2>1, <2>2, <1>1, NoChange DEF TypeInv, TypeOK, IInv
<1> QED BY <1>3, <1>4

\* Every step changes every row as it may.
LEMMA RowsChange ==
  ASSUME IInv, [Next]_vars
  PROVE  \A j \in Jobs : RowChange(rows[j], rows'[j])
<1>1. /\ rows \in [Jobs -> Row]
      /\ \A j \in Jobs : rows[j] \in Row /\ (Exists(rows[j]) => Admits(rows[j]))
  BY DEF IInv, TypeInv, TypeOK, RowsAdmitted
<1>2. CASE UNCHANGED rows
  BY <1>1, <1>2, NoChange
<1>3. ASSUME NEW k \in Keys, EnqueueNew(k) PROVE \A j \in Jobs : RowChange(rows[j], rows'[j])
  <2> DEFINE new == [NoRow EXCEPT !.status = "queued", !.key = k]
  <2>1. PICK i \in Jobs : rows[i].status = "absent" /\ rows' = [rows EXCEPT ![i] = new]
    BY <1>3 DEF EnqueueNew, NextId
  <2>2. rows[i].attempts = 0
    BY <2>1 DEF IInv, UntouchedRows
  <2>3. /\ new.status = "queued" /\ new.attempts = 0 /\ ~new.csv /\ ~new.done
        /\ new.expiry = "none"
    BY DEF NoRow
  <2>4. Admits(new)
    BY <2>3 DEF Admits, PayloadState, ExpiryState, Pending
  <2>5. RowStep(rows[i], new)
    BY <2>1, <2>2, <2>3 DEF RowStep, View, Contract!Move, Contract!Submitted
  <2>6. RowChange(rows[i], new)
    BY <2>1, <2>2, <2>3, <2>4, <2>5 DEF RowChange
  <2> QED BY <2>1, <2>6, <1>1, NoChange
<1>4. ASSUME NEW w \in Workers, ClaimQueued(w)
      PROVE  \A j \in Jobs : RowChange(rows[j], rows'[j])
  <2>1. PICK i \in Jobs :
          /\ RecoveredRows[i].status = "queued"
          /\ Admits(Claimed(RecoveredRows[i]))
          /\ rows' = [RecoveredRows EXCEPT ![i] = Claimed(@)]
    BY <1>4 DEF ClaimQueued, QueuedFor
  <2>2. \A j \in Jobs : RecoveredRows[j] = Recovered(rows[j])
    BY DEF RecoveredRows
  <2>3. /\ rows'[i] = Claimed(Recovered(rows[i]))
        /\ \A j \in Jobs : j # i => rows'[j] = Recovered(rows[j])
    BY <2>1, <2>2 DEF RecoveredRows
  <2>4. /\ rows[i].status \in Pending /\ Recovered(rows[i]) \in Row
        /\ Recovered(rows[i]).attempts = rows[i].attempts
    BY <2>1, <2>2, <1>1, RecoveredStep, RowUpdatesTyped
  <2>5. RowChange(rows[i], rows'[i])
    BY <2>1, <2>2, <2>3, <2>4, <1>1, ClaimedStep DEF RowChange, Row, Pending
  <2> QED BY <2>3, <2>5, <1>1, RecoveredChange
<1>5. ASSUME NEW w \in Workers, ClaimNothing(w)
      PROVE  \A j \in Jobs : RowChange(rows[j], rows'[j])
  BY <1>1, <1>5, RecoveredChange DEF ClaimNothing, RecoveredRows
<1>6. ASSUME NEW w \in Workers, Complete(w) \/ ExceedRowLimit(w) \/ RetryOrFail(w)
      PROVE  \A j \in Jobs : RowChange(rows[j], rows'[j])
  <2>1. Holds(w)
    BY <1>6 DEF Holds, Complete, ExceedRowLimit, RetryOrFail
  <2>2. CASE Complete(w)
    BY <2>1, <2>2, StoredChange DEF Complete
  <2>3. CASE ExceedRowLimit(w)
    <3>1. rows' = Stored(worker[w].job, Failed(rows[worker[w].job], "EXPORT_ROW_LIMIT"))
      BY <2>3 DEF ExceedRowLimit
    <3> QED BY <2>1, <3>1, StoredChange DEF FailureCodes
  <2>4. CASE RetryOrFail(w)
    <3>1. \/ rows' = Stored(worker[w].job, Failed(rows[worker[w].job], "EXPORT_RETRY_EXHAUSTED"))
          \/ rows' = Stored(worker[w].job, Requeued(rows[worker[w].job]))
      BY <2>4 DEF RetryOrFail
    <3> QED BY <2>1, <3>1, StoredChange DEF FailureCodes
  <2> QED BY <1>6, <2>2, <2>3, <2>4
<1>7. ASSUME NEW i \in Jobs, ClaimGoesStale(i)
      PROVE  \A j \in Jobs : RowChange(rows[j], rows'[j])
  <2> DEFINE s == [rows[i] EXCEPT !.claim = "stale"]
  <2>1. rows' = [rows EXCEPT ![i] = s] /\ Exists(rows[i])
    BY <1>7, <1>1 DEF ClaimGoesStale, Exists, Pending
  <2>2. s \in Row /\ Admits(s) /\ s.status = rows[i].status /\ s.attempts = rows[i].attempts
    BY <1>1, <2>1 DEF Row, Admits, PayloadState, ExpiryState
  <2>3. RowChange(rows[i], s)
    BY <2>2, <1>1 DEF RowChange, RowStep, View, Row
  <2> QED BY <2>1, <2>3, <1>1, NoChange
<1>8. ASSUME NEW i \in Jobs, ExportExpires(i)
      PROVE  \A j \in Jobs : RowChange(rows[j], rows'[j])
  <2> DEFINE s == [rows[i] EXCEPT !.expiry = "past"]
  <2>1. rows' = [rows EXCEPT ![i] = s] /\ rows[i].expiry = "live"
    BY <1>8, <1>1 DEF ExportExpires
  <2>2. s \in Row /\ s.status = rows[i].status /\ s.attempts = rows[i].attempts
    BY <1>1 DEF Row
  <2>3. Exists(s) => Admits(s)
    BY <1>1, <2>1, <2>2 DEF Row, Admits, PayloadState, ExpiryState, Exists
  <2>4. RowChange(rows[i], s)
    BY <2>2, <2>3, <1>1 DEF RowChange, RowStep, View, Row
  <2> QED BY <2>1, <2>4, <1>1, NoChange
<1>9. ASSUME NEW i \in Jobs, RetentionPurges(i)
      PROVE  \A j \in Jobs : RowChange(rows[j], rows'[j])
  <2> DEFINE s == [NoRow EXCEPT !.status = "purged", !.attempts = rows[i].attempts]
  <2>1. rows' = [rows EXCEPT ![i] = s] /\ rows[i].status \in Terminal
    BY <1>9 DEF RetentionPurges
  <2>2. s.status = "purged" /\ s.attempts = rows[i].attempts
    BY DEF NoRow
  <2>3. RowStep(rows[i], s)
    BY <2>1, <2>2, <1>1 DEF RowStep, View, Row, Terminal, Contract!Move, Contract!Purged
  <2>4. RowChange(rows[i], s)
    BY <2>1, <2>2, <2>3, <1>1 DEF RowChange, Row, Exists, Pending, Terminal
  <2> QED BY <2>1, <2>4, <1>1, NoChange
<1> QED
  BY <1>2, <1>3, <1>4, <1>5, <1>6, <1>7, <1>8, <1>9
     DEF Next, Process, TimePasses, vars, EnqueueReplay, LeaseOrganization, ClaimRefused,
         ProductionFails, LookForPending, KeepDispatch, DeleteDispatch, Crash, LeaseLapses,
         DispatchFallsDue

-----------------------------------------------------------------------------
(* Only ClaimQueued lets a worker hold a job; no other step changes what a *)
(* worker that goes on holding one knows about it.                         *)

NoNewHolder ==
  \A v \in Workers :
    Holds(v)' =>
      /\ Holds(v)
      /\ worker'[v].job = worker[v].job
      /\ worker'[v].attempts = worker[v].attempts

\* A worker that lets go holds no job.
LEMMA DropReleases ==
  ASSUME TypeOK, NEW w \in Workers, NEW step \in {"idle", "release", "keep", "drop"},
         Drop(w, step)
  PROVE  NoNewHolder
  BY DEF NoNewHolder, Holds, Drop, IdleWorker, TypeOK, Worker

\* A worker that goes on holds what it held.
LEMMA GotoKeeps ==
  ASSUME TypeOK, NEW w \in Workers, NEW step, Goto(w, step),
         step \in {"produce", "retry"} => Holds(w)
  PROVE  NoNewHolder
  BY DEF NoNewHolder, Holds, Goto, TypeOK, Worker

\* No step takes from a holder the row that it works on.
LEMMA HoldersStep ==
  ASSUME IInv, [Next]_vars
  PROVE  NoNewHolder \/ \E w \in Workers : ClaimQueued(w)
<1> USE DEF IInv, TypeInv
<1>1. CASE UNCHANGED worker
  BY <1>1 DEF NoNewHolder, Holds
<1>2. ASSUME NEW w \in Workers, Process(w) \/ Crash(w), ~ClaimQueued(w)
      PROVE  NoNewHolder
  <2>1. CASE LeaseOrganization(w)
    BY <2>1, GotoKeeps DEF LeaseOrganization
  <2>2. CASE ClaimNothing(w)
    BY <2>2, DropReleases DEF ClaimNothing
  <2>3. CASE ClaimRefused(w)
    BY <2>3, DropReleases DEF ClaimRefused
  <2>4. CASE Complete(w)
    BY <2>4, DropReleases, GotoKeeps DEF Complete, Holds
  <2>5. CASE ExceedRowLimit(w)
    BY <2>5, DropReleases, GotoKeeps DEF ExceedRowLimit, Holds
  <2>6. CASE ProductionFails(w)
    BY <2>6, GotoKeeps DEF ProductionFails, Holds
  <2>7. CASE RetryOrFail(w)
    BY <2>7, DropReleases DEF RetryOrFail
  <2>8. CASE LookForPending(w)
    BY <2>8, DropReleases DEF LookForPending
  <2>9. CASE KeepDispatch(w)
    BY <2>9, DropReleases DEF KeepDispatch
  <2>10. CASE DeleteDispatch(w)
    BY <2>10, DropReleases DEF DeleteDispatch
  <2>11. CASE Crash(w)
    BY <2>11, DropReleases DEF Crash
  <2> QED BY <1>2, <2>1, <2>2, <2>3, <2>4, <2>5, <2>6, <2>7, <2>8, <2>9, <2>10, <2>11
          DEF Process
<1> QED
  BY <1>1, <1>2 DEF Next, TimePasses, vars, EnqueueNew, EnqueueReplay, LeaseLapses,
     DispatchFallsDue, ClaimGoesStale, ExportExpires, RetentionPurges

\* The invariant holds of an empty queue.
LEMMA InvInit == Init => IInv
<1> SUFFICES ASSUME Init PROVE IInv
  OBVIOUS
<1>1. \A w \in Workers : ~Holds(w)
  BY DEF Init, Holds, IdleWorker
<1>2. \A j \in Jobs : rows[j] = NoRow
  BY DEF Init
<1>3. RowsAdmitted /\ UntouchedRows
  BY <1>2 DEF RowsAdmitted, UntouchedRows, NoRow, Exists, Pending, Terminal
<1> QED BY <1>1, <1>3, TypeInit DEF IInv, HoldersClaimed, FencedClaims

\* Every step preserves the invariant.
LEMMA InvStep == IInv /\ [Next]_vars => IInv'
<1> SUFFICES ASSUME IInv, [Next]_vars PROVE IInv'
  OBVIOUS
<1>1. TypeInv'
  BY TypeStep DEF IInv
<1>2. \A j \in Jobs : RowChange(rows[j], rows'[j])
  BY RowsChange
<1>3. \A j \in Jobs : rows[j] \in Row /\ rows'[j] \in Row
  BY <1>1 DEF IInv, TypeInv, TypeOK
<1>4. RowsAdmitted' /\ UntouchedRows'
  BY <1>2, <1>3 DEF RowChange, RowsAdmitted, UntouchedRows, IInv
<1>5. \A j \in Jobs :
        /\ rows'[j].attempts >= rows[j].attempts
        /\ rows[j].status # "absent" => rows'[j].status # "absent"
        /\ rows[j].attempts \in Nat /\ rows'[j].attempts \in Nat
  BY <1>2, <1>3 DEF RowChange, Row
\* what is known of the workers that held a job before the step
<1>6. \A v \in Workers : Holds(v) =>
        /\ worker[v].job \in Jobs /\ worker[v].attempts \in Nat
        /\ worker[v].attempts >= 1
        /\ rows[worker[v].job].status # "absent"
        /\ worker[v].attempts <= rows[worker[v].job].attempts
  BY DEF IInv, TypeInv, TypeOK, HolderHasJob, Worker, HoldersClaimed, FencedClaims
\* ... and after it
<1>7. \A v \in Workers : Holds(v) =>
        /\ rows'[worker[v].job].status # "absent"
        /\ worker[v].attempts <= rows'[worker[v].job].attempts
  BY <1>5, <1>6
<1>8. HoldersClaimed' /\ FencedClaims'
  <2>1. CASE NoNewHolder
    <3>1. HoldersClaimed'
      BY <2>1, <1>6, <1>7 DEF NoNewHolder, HoldersClaimed
    <3>2. FencedClaims'
      BY <2>1, <1>6, <1>7 DEF NoNewHolder, FencedClaims, IInv
    <3> QED BY <3>1, <3>2
  <2>2. ASSUME NEW w \in Workers, ClaimQueued(w) PROVE HoldersClaimed' /\ FencedClaims'
    <3>1. PICK i \in Jobs :
            /\ RecoveredRows[i].status = "queued"
            /\ rows' = [RecoveredRows EXCEPT ![i] = Claimed(@)]
            /\ worker' = [worker EXCEPT ![w] =
                 [at |-> "produce", job |-> i, attempts |-> RecoveredRows[i].attempts + 1]]
      BY <2>2 DEF ClaimQueued, QueuedFor
    <3>2. /\ RecoveredRows[i] = Recovered(rows[i])
          /\ rows'[i] = Claimed(Recovered(rows[i]))
      BY <3>1 DEF RecoveredRows
    <3>3. /\ Recovered(rows[i]).attempts = rows[i].attempts
          /\ Recovered(rows[i]) \in Row
      BY <1>3, RecoveredStep, RowUpdatesTyped DEF IInv, RowsAdmitted
    <3>4. /\ rows'[i].attempts = rows[i].attempts + 1
          /\ rows'[i].status = "processing"
      BY <3>2, <3>3 DEF Claimed, Row
    <3>5. /\ worker'[w].job = i /\ worker'[w].attempts = rows[i].attempts + 1
          /\ \A v \in Workers : v # w => worker'[v] = worker[v]
      BY <3>1, <3>2, <3>3 DEF IInv, TypeInv, TypeOK
    <3>6. \A v \in Workers : v # w /\ Holds(v)' => Holds(v) /\ worker'[v] = worker[v]
      BY <3>5 DEF Holds
    <3>7. \A v \in Workers : v # w /\ Holds(v)' /\ worker'[v].job = i
                            => worker'[v].attempts < worker'[w].attempts
      BY <3>5, <3>6, <1>5, <1>6
    <3>8. HoldersClaimed'
      <4> SUFFICES ASSUME NEW v \in Workers, Holds(v)'
                   PROVE  rows'[worker'[v].job].status # "absent" /\ worker'[v].attempts >= 1
        BY DEF HoldersClaimed
      <4>1. CASE v = w BY <4>1, <3>4, <3>5, <1>5
      <4>2. CASE v # w BY <4>2, <3>6, <1>6, <1>7
      <4> QED BY <4>1, <4>2
    <3>9. \A v \in Workers : Holds(v)' => worker'[v].attempts <= rows'[worker'[v].job].attempts
      <4> SUFFICES ASSUME NEW v \in Workers, Holds(v)'
                   PROVE  worker'[v].attempts <= rows'[worker'[v].job].attempts
        OBVIOUS
      <4>1. CASE v = w BY <4>1, <3>4, <3>5, <1>5
      <4>2. CASE v # w BY <4>2, <3>6, <1>7
      <4> QED BY <4>1, <4>2
    <3>10. \A u, v \in Workers :
             Holds(u)' /\ Holds(v)' /\ u # v /\ worker'[u].job = worker'[v].job
               => worker'[u].attempts # worker'[v].attempts
      <4> SUFFICES ASSUME NEW u \in Workers, NEW v \in Workers, Holds(u)', Holds(v)', u # v,
                          worker'[u].job = worker'[v].job
                   PROVE  worker'[u].attempts # worker'[v].attempts
        OBVIOUS
      <4>1. CASE u = w BY <4>1, <3>5, <3>6, <3>7, <1>5, <1>6
      <4>2. CASE v = w BY <4>2, <3>5, <3>6, <3>7, <1>5, <1>6
      <4>3. CASE u # w /\ v # w BY <4>3, <3>6 DEF IInv, FencedClaims
      <4> QED BY <4>1, <4>2, <4>3
    <3> QED BY <3>8, <3>9, <3>10 DEF FencedClaims
  <2> QED BY <2>1, <2>2, HoldersStep
<1> QED BY <1>1, <1>4, <1>8 DEF IInv

-----------------------------------------------------------------------------
(* The capacity of the queue.  Only EnqueueNew, which checks it, brings a  *)
(* row into being, and no other step makes a settled row pending again.    *)

\* Only a submission inserts a row, and only below the limit.
LEMMA OnlyEnqueueInserts ==
  ASSUME IInv, [Next]_vars, \A k \in Keys : ~EnqueueNew(k)
  PROVE  \A j \in Jobs : rows[j].status = "absent" => rows'[j].status = "absent"
<1>1. \A j \in Jobs : rows[j] \in Row /\ (Exists(rows[j]) => Admits(rows[j]))
  BY DEF IInv, TypeInv, TypeOK, RowsAdmitted
<1>2. \A j \in Jobs : rows[j].status = "absent" => RecoveredRows[j].status = "absent"
  BY <1>1, RecoveredStep DEF RecoveredRows
<1>3. \A j \in Jobs : rows[j].status = "absent" => ~Exists(rows[j])
  BY DEF Exists, Pending, Terminal
<1>4. ASSUME NEW w \in Workers, ClaimQueued(w)
      PROVE  \A j \in Jobs : rows[j].status = "absent" => rows'[j].status = "absent"
  BY <1>2, <1>4 DEF ClaimQueued, QueuedFor, RecoveredRows
<1>5. ASSUME NEW w \in Workers, ClaimNothing(w)
      PROVE  \A j \in Jobs : rows[j].status = "absent" => rows'[j].status = "absent"
  BY <1>2, <1>5 DEF ClaimNothing
<1>6. ASSUME NEW w \in Workers, Complete(w) \/ ExceedRowLimit(w) \/ RetryOrFail(w)
      PROVE  \A j \in Jobs : rows[j].status = "absent" => rows'[j].status = "absent"
  <2>1. ASSUME NEW s, rows' = Stored(worker[w].job, s)
        PROVE  \A j \in Jobs : rows[j].status = "absent" => rows'[j].status = "absent"
    BY <2>1, <1>3 DEF Stored, IInv, TypeInv, TypeOK
  <2> QED BY <1>6, <2>1 DEF Complete, ExceedRowLimit, RetryOrFail
<1>7. ASSUME NEW i \in Jobs, ClaimGoesStale(i) \/ ExportExpires(i) \/ RetentionPurges(i)
      PROVE  \A j \in Jobs : rows[j].status = "absent" => rows'[j].status = "absent"
  BY <1>1, <1>7 DEF ClaimGoesStale, ExportExpires, RetentionPurges, Terminal, Row, IInv,
     TypeInv, TypeOK
<1> QED
  BY <1>4, <1>5, <1>6, <1>7
     DEF Next, Process, TimePasses, vars, EnqueueReplay, LeaseOrganization, ClaimRefused,
         ProductionFails, LookForPending, KeepDispatch, DeleteDispatch, Crash, LeaseLapses,
         DispatchFallsDue

\* With one submission at a time no step exceeds the limit of pending jobs.
LEMMA CapacityStep == IInv /\ PendingWithinLimit /\ [Next]_vars => PendingWithinLimit'
<1> SUFFICES ASSUME IInv, PendingWithinLimit, [Next]_vars PROVE PendingWithinLimit'
  OBVIOUS
<1>1. \A j \in Jobs : RowStep(rows[j], rows'[j])
  BY RowsChange DEF RowChange
<1>2. IsFiniteSet(PendingJobs)
  BY JobsAssumption, FS_Subset DEF PendingJobs
<1>3. ASSUME NEW k \in Keys, EnqueueNew(k) PROVE PendingWithinLimit'
  <2>1. PICK i \in Jobs :
          /\ rows[i].status = "absent"
          /\ rows' = [rows EXCEPT ![i] = [NoRow EXCEPT !.status = "queued", !.key = k]]
    BY <1>3 DEF EnqueueNew, NextId
  <2>2. PendingJobs' = PendingJobs \cup {i} /\ i \notin PendingJobs
    BY <2>1 DEF PendingJobs, Pending, NoRow, IInv, TypeInv, TypeOK
  <2>3. Cardinality(PendingJobs') = Cardinality(PendingJobs) + 1
    BY <1>2, <2>2, FS_AddElement
  <2>4. Cardinality(PendingJobs) \in Nat
    BY <1>2, FS_CardinalityType
  <2> QED BY <1>3, <2>3, <2>4, MaxPendingAssumption
          DEF EnqueueNew, HasCapacity, PendingWithinLimit
<1>4. CASE \A k \in Keys : ~EnqueueNew(k)
  <2>1. PendingJobs' \subseteq PendingJobs
    <3> SUFFICES ASSUME NEW j \in Jobs, rows'[j].status \in Pending
                 PROVE  rows[j].status \in Pending
      BY DEF PendingJobs
    <3>1. rows[j].status # "absent"
      BY <1>4, OnlyEnqueueInserts DEF Pending
    <3> QED BY <1>1, <3>1 DEF RowStep, View, Pending, Contract!Move, Contract!Submitted,
            Contract!Claimed, Contract!Requeued, Contract!Finished, Contract!GaveUp,
            Contract!Expired, Contract!Purged, Contract!Pending
  <2>2. Cardinality(PendingJobs') <= Cardinality(PendingJobs)
    BY <1>2, <2>1, FS_Subset
  <2>3. Cardinality(PendingJobs) \in Nat /\ Cardinality(PendingJobs') \in Nat
    BY <1>2, <2>1, FS_Subset, FS_CardinalityType
  <2> QED BY <2>2, <2>3, MaxPendingAssumption DEF PendingWithinLimit
<1> QED BY <1>3, <1>4

-----------------------------------------------------------------------------
(* One row per key.  Only EnqueueNew, which looks the key up, gives a row  *)
(* one; only a purge takes it away.                                        *)

Expirable(r) == Exists(r) \/ r.expiry = "none"

KeyKept(r, s) ==
  /\ s.status = "absent" <=> r.status = "absent"
  /\ Exists(s) => Exists(r) /\ s.key = r.key
  /\ Expirable(r) => Expirable(s)

\* No step but a submission gives a row another key, or makes one exist.
LEMMA KeysKept ==
  ASSUME IInv, [Next]_vars, \A k \in Keys : ~EnqueueNew(k),
         \A j \in Jobs : Expirable(rows[j])
  PROVE  \A j \in Jobs : KeyKept(rows[j], rows'[j])
<1>1. \A j \in Jobs : rows[j] \in Row
  BY DEF IInv, TypeInv, TypeOK
<1>2. ASSUME NEW r \in Row
      PROVE  /\ KeyKept(r, r) /\ KeyKept(r, Recovered(r))
             /\ r.status \in Pending \cup Terminal =>
                  /\ KeyKept(r, Completed(r)) /\ KeyKept(r, Requeued(r))
                  /\ \A code \in FailureCodes : KeyKept(r, Failed(r, code))
             /\ Recovered(r).status = "queued" => KeyKept(r, Claimed(Recovered(r)))
  <2>1. /\ Requeued(r) \in Row /\ Requeued(r).status = "queued" /\ Requeued(r).key = r.key
        /\ Completed(r).status = "completed" /\ Completed(r).key = r.key
        /\ \A code \in FailureCodes : Failed(r, code).status = "failed" /\ Failed(r, code).key = r.key
    BY DEF Row, Requeued, Completed, Failed, Statuses
  <2>2. r.status \in {"completed", "processing"} \/ Recovered(r) = r
    BY DEF Recovered
  <2>3. /\ r.status \in {"completed", "processing"} =>
             Recovered(r).status \in {"queued", "failed", "completed", "processing"}
        /\ Recovered(r).key = r.key
    BY <2>1 DEF Recovered, FailureCodes, Row
  <2>4. Recovered(r) \in Row
    BY RowUpdatesTyped
  <2>5. Claimed(Recovered(r)).status = "processing" /\ Claimed(Recovered(r)).key = r.key
    BY <2>3, <2>4 DEF Claimed, Row
  <2> QED
    BY <2>1, <2>2, <2>3, <2>5 DEF KeyKept, Expirable, Exists, Pending, Terminal
<1>3. CASE UNCHANGED rows
  BY <1>1, <1>2, <1>3
<1>4. ASSUME NEW w \in Workers, ClaimQueued(w)
      PROVE  \A j \in Jobs : KeyKept(rows[j], rows'[j])
  <2>1. PICK i \in Jobs : /\ RecoveredRows[i].status = "queued"
                         /\ rows' = [RecoveredRows EXCEPT ![i] = Claimed(@)]
    BY <1>4 DEF ClaimQueued, QueuedFor
  <2>2. \A j \in Jobs : rows'[j] = IF j = i THEN Claimed(Recovered(rows[j]))
                                   ELSE Recovered(rows[j])
    BY <2>1 DEF RecoveredRows
  <2>3. Recovered(rows[i]).status = "queued"
    BY <2>1 DEF RecoveredRows
  <2> QED
    BY <1>1, <1>2, <2>2, <2>3
<1>5. ASSUME NEW w \in Workers, ClaimNothing(w)
      PROVE  \A j \in Jobs : KeyKept(rows[j], rows'[j])
  BY <1>1, <1>2, <1>5 DEF ClaimNothing, RecoveredRows
<1>6. ASSUME NEW w \in Workers, Complete(w) \/ ExceedRowLimit(w) \/ RetryOrFail(w)
      PROVE  \A j \in Jobs : KeyKept(rows[j], rows'[j])
  <2> DEFINE i == worker[w].job
  <2>1. i \in Jobs /\ rows \in [Jobs -> Row]
    BY <1>6 DEF IInv, TypeInv, TypeOK, HolderHasJob, Holds, Complete, ExceedRowLimit, RetryOrFail
  <2>2. PICK s : /\ rows' = Stored(i, s)
                 /\ \/ s = Completed(rows[i]) \/ s = Requeued(rows[i])
                    \/ \E code \in FailureCodes : s = Failed(rows[i], code)
    BY <1>6 DEF Complete, ExceedRowLimit, RetryOrFail, FailureCodes
  <2>3. CASE rows' = rows
    BY <1>3, <2>3
  <2>4. CASE Exists(rows[i]) /\ rows' = [rows EXCEPT ![i] = s]
    <3>1. KeyKept(rows[i], s)
      BY <1>1, <1>2, <2>1, <2>2, <2>4 DEF Exists
    <3> QED
      BY <1>1, <1>2, <2>1, <2>4, <3>1
  <2> QED
    BY <2>2, <2>3, <2>4 DEF Stored
<1>7. ASSUME NEW i \in Jobs, ClaimGoesStale(i) \/ ExportExpires(i) \/ RetentionPurges(i)
      PROVE  \A j \in Jobs : KeyKept(rows[j], rows'[j])
  <2>1. rows \in [Jobs -> Row]
    BY DEF IInv, TypeInv, TypeOK
  <2>2. /\ \A j \in Jobs : j # i => rows'[j] = rows[j]
        /\ rows'[i].status # "absent" /\ rows[i].status # "absent"
        /\ Exists(rows'[i]) => Exists(rows[i]) /\ rows'[i].key = rows[i].key
        /\ Expirable(rows'[i])
    <3>1. CASE ClaimGoesStale(i)
      BY <2>1, <3>1 DEF ClaimGoesStale, Expirable, Exists, Row, Pending
    <3>2. CASE ExportExpires(i)
      <4>1. Exists(rows[i])
        BY <3>2 DEF ExportExpires, Expirable
      <4> QED
        BY <2>1, <3>2, <4>1 DEF ExportExpires, Expirable, Exists, Row, Pending, Terminal
    <3>3. CASE RetentionPurges(i)
      BY <2>1, <3>3 DEF RetentionPurges, NoRow, Expirable, Exists, Pending, Terminal
    <3> QED
      BY <1>7, <3>1, <3>2, <3>3
  <2> QED
    BY <1>1, <1>2, <2>2 DEF KeyKept
<1> QED
  BY <1>3, <1>4, <1>5, <1>6, <1>7
     DEF Next, Process, TimePasses, vars, EnqueueReplay, LeaseOrganization, ClaimRefused,
         ProductionFails, LookForPending, KeepDispatch, DeleteDispatch, Crash, LeaseLapses,
         DispatchFallsDue

-----------------------------------------------------------------------------
(* Theorems.                                                               *)

\* The invariant holds in every state.
LEMMA Invariance == Spec => []IInv
  BY InvInit, InvStep, PTL DEF Spec

\* The attempt counter works as a fencing token although no UPDATE checks it:
\* of several workers holding one job, at most one holds the current attempt.
THEOREM ClaimsAreFenced == Spec => []FencedClaims
<1>1. IInv => FencedClaims
  BY DEF IInv
<1> QED BY <1>1, Invariance, PTL

\* Admission control holds whatever the workers do: never more than MaxPending
\* exports are queued or processing.
THEOREM CapacityRespected == Spec => []PendingWithinLimit
<1>1. Init => PendingWithinLimit
  <2>1. Init => PendingJobs = {}
    BY DEF Init, PendingJobs, NoRow, Pending
  <2> QED BY <2>1, FS_EmptySet, MaxPendingAssumption DEF PendingWithinLimit
<1> QED BY <1>1, CapacityStep, Invariance, PTL DEF Spec

\* Late workers cannot take a completed export away from its requester: the
\* table's constraints refuse every such UPDATE.
THEOREM CompletedIsKept == Spec => CompletedUntilExpiry
<1>1. IInv /\ [Next]_vars =>
        [\A j \in Jobs :
           rows[j].status = "completed" /\ rows'[j].status # "completed" =>
             \/ rows[j].expiry = "past" /\ rows'[j].failure = "EXPORT_EXPIRED"
             \/ rows'[j].status = "purged"]_rows
  BY RowsChange DEF RowChange
<1> QED BY <1>1, Invariance, PTL DEF Spec, CompletedUntilExpiry

\* The queue implements the durable-job contract.
THEOREM Refinement == Spec => ImplementsDurableJob
<1>1. Init => Contract!Init
  BY DEF Init, Contract!Init, NoRow
<1>2. IInv /\ IInv' /\ [Next]_vars =>
        [Contract!Next]_([j \in Jobs |-> [status |-> rows[j].status,
                                         attempts |-> rows[j].attempts]])
  <2> SUFFICES ASSUME IInv, IInv', [Next]_vars PROVE Contract!Next
    OBVIOUS
  <2>1. \A j \in Jobs : RowStep(rows[j], rows'[j])
    BY RowsChange DEF RowChange
  <2>2. \A j \in Jobs : View(rows'[j]) \in Contract!JobView
    BY DEF IInv, TypeInv, TypeOK, Row, View, Contract!JobView, Statuses, Contract!Statuses
  <2> QED BY <2>1, <2>2 DEF Contract!Next, RowStep, View
<1> QED BY <1>1, <1>2, Invariance, PTL DEF Spec, ImplementsDurableJob, Contract!Spec

KeysInv == IdempotentEnqueue /\ \A j \in Jobs : Expirable(rows[j])

\* Every step leaves one row per key, audited once.
LEMMA KeysStep == IInv /\ KeysInv /\ [Next]_vars => KeysInv'
<1> SUFFICES ASSUME IInv, KeysInv, [Next]_vars PROVE KeysInv'
  OBVIOUS
<1>1. /\ rows \in [Jobs -> Row] /\ audits \in [Jobs -> 0..1]
      /\ \A j \in Jobs : audits[j] = IF rows[j].status = "absent" THEN 0 ELSE 1
  BY DEF IInv, TypeInv, TypeOK, KeysInv, IdempotentEnqueue
<1>2. ASSUME NEW k \in Keys, EnqueueNew(k) PROVE KeysInv'
  <2> DEFINE new == [NoRow EXCEPT !.status = "queued", !.key = k]
  <2>1. PICK i \in Jobs :
          rows[i].status = "absent" /\ rows' = [rows EXCEPT ![i] = new] /\ Audited(i)
    BY <1>2 DEF EnqueueNew, NextId
  <2>2. new.status = "queued" /\ new.key = k
    BY DEF NoRow
  <2>3. Exists(new) /\ Expirable(new)
    BY <2>2 DEF Exists, Expirable, Pending
  <2> HIDE DEF new
  <2>4. rows'[i] = new /\ \A j \in Jobs : j # i => rows'[j] = rows[j]
    BY <1>1, <2>1
  <2>5. audits'[i] = 1 /\ \A j \in Jobs : j # i => audits'[j] = audits[j]
    BY <1>1, <2>1 DEF Audited
  <2>6. \A j \in Jobs : Exists(rows[j]) => rows[j].key # k
    BY <1>2 DEF EnqueueNew, RowOf
  <2> QED
    BY <1>1, <2>2, <2>3, <2>4, <2>5, <2>6 DEF KeysInv, IdempotentEnqueue
<1>3. CASE \A k \in Keys : ~EnqueueNew(k)
  <2>1. \A j \in Jobs : KeyKept(rows[j], rows'[j])
    BY <1>3, KeysKept DEF KeysInv
  <2>2. \A j \in Jobs : audits'[j] = audits[j]
    <3>1. ASSUME NEW k \in Keys, EnqueueReplay(k)
          PROVE  \A j \in Jobs : audits'[j] = audits[j]
      <4>1. PICK i \in Jobs : rows[i].status = "queued" /\ Audited(i)
        BY <3>1 DEF EnqueueReplay
      <4>2. audits[i] = 1
        BY <1>1, <4>1
      <4> QED
        BY <1>1, <4>1, <4>2 DEF Audited
    <3> QED
      BY <1>3, <3>1
         DEF Next, Process, TimePasses, vars, LeaseOrganization, ClaimQueued, ClaimNothing,
             ClaimRefused, Complete, ExceedRowLimit, ProductionFails, RetryOrFail,
             LookForPending, KeepDispatch, DeleteDispatch, Crash, LeaseLapses,
             DispatchFallsDue, ClaimGoesStale, ExportExpires, RetentionPurges
  <2> QED
    BY <2>1, <2>2 DEF KeyKept, KeysInv, IdempotentEnqueue
<1> QED BY <1>2, <1>3

\* A key names at most one row and a row has exactly one audit event, however often a
\* request is replayed and whatever the workers do meanwhile (sales-export.service.ts,
\* enqueue()).
THEOREM OneRowPerKey == Spec => []IdempotentEnqueue
<1>1. Init => KeysInv
  BY DEF Init, KeysInv, IdempotentEnqueue, Expirable, Exists, NoRow, Pending, Terminal
<1>2. KeysInv => IdempotentEnqueue
  BY DEF KeysInv
<1> QED BY <1>1, <1>2, KeysStep, Invariance, PTL DEF Spec
=============================================================================
