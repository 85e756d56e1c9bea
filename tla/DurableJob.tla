----------------------------- MODULE DurableJob -----------------------------
(***************************************************************************)
(* What a durable background job of the platform promises to whoever       *)
(* submitted it, whichever worker, and however many workers, happen to     *)
(* look after it.  A job is its visible status and the number of times a   *)
(* worker has claimed it; everything else (leases, dispatch rows, worker   *)
(* program counters, payloads) is hidden.                                  *)
(*                                                                         *)
(* The queues (sales exports first) are shown to implement this module.    *)
(***************************************************************************)
EXTENDS Naturals

CONSTANTS
  Jobs,         \* identities of the jobs that may ever be submitted
  MaxAttempts   \* claims after which a job may not be claimed again

VARIABLE job    \* [Jobs -> JobView]

Statuses == {"absent", "queued", "processing", "completed", "failed", "purged"}
Pending  == {"queued", "processing"}

JobView == [status : Statuses, attempts : 0..MaxAttempts]

-----------------------------------------------------------------------------
(***************************************************************************)
(* The moves of one job, as relations between its old view s and its new   *)
(* view t.  A transaction may move several jobs at once.                   *)
(***************************************************************************)
Submitted(s, t) ==
  /\ s.status = "absent"
  /\ t = [status |-> "queued", attempts |-> 0]

\* A claim takes a queued job, or takes over one whose holder went silent.
Claimed(s, t) ==
  /\ s.status \in Pending
  /\ t = [status |-> "processing", attempts |-> s.attempts + 1]

Requeued(s, t) ==
  /\ s.status = "processing"
  /\ t = [s EXCEPT !.status = "queued"]

\* Only a job some worker has claimed can finish.  A worker that was slow may
\* finish a job another worker has meanwhile given up on.
Finished(s, t) ==
  /\ s.status \in Pending \cup {"failed"}
  /\ s.attempts > 0
  /\ t = [s EXCEPT !.status = "completed"]

GaveUp(s, t) ==
  /\ s.status \in Pending
  /\ s.attempts > 0
  /\ t = [s EXCEPT !.status = "failed"]

\* The result of a completed job is kept for a limited time only.
Expired(s, t) ==
  /\ s.status = "completed"
  /\ t = [s EXCEPT !.status = "failed"]

Purged(s, t) ==
  /\ s.status \in {"completed", "failed"}
  /\ t = [s EXCEPT !.status = "purged"]

Move(s, t) ==
  \/ Submitted(s, t) \/ Claimed(s, t) \/ Requeued(s, t) \/ Finished(s, t)
  \/ GaveUp(s, t) \/ Expired(s, t) \/ Purged(s, t)

Init == job = [j \in Jobs |-> [status |-> "absent", attempts |-> 0]]

Next ==
  /\ job' \in [Jobs -> JobView]
  /\ \A j \in Jobs : job'[j] # job[j] => Move(job[j], job'[j])

Spec == Init /\ [][Next]_job
=============================================================================
