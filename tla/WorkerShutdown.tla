--------------------------- MODULE WorkerShutdown ---------------------------
(***************************************************************************)
(* The worker process: its QueuePumps and the connection pool of           *)
(* DatabaseService they share, from bootstrap to the end of SIGTERM.       *)
(*                                                                         *)
(* A unit (processNext) runs some transactions one after the other, each   *)
(* on a client of the pool; between two of them only JavaScript runs.  The *)
(* shutdown hooks of one NestJS module are called together, and pool.end() *)
(* refuses new clients at once and waits for those that are out.           *)
(***************************************************************************)
EXTENDS Naturals, FiniteSets

CONSTANTS
  Pumps,         \* imports, exports, governance jobs
  DrainLimit,    \* QUEUE_DRAIN_LIMIT
  PoolMax, MaxWaiting,   \* DATABASE_POOL_MAX, DATABASE_POOL_MAX_WAITING
  MaxDrains      \* bound on the drains of a pump that the timer starts

ASSUME ShutdownAssumption ==
  /\ DrainLimit \in Nat \ {0} /\ PoolMax \in Nat \ {0}
  /\ MaxWaiting \in Nat /\ MaxDrains \in Nat

VARIABLES
  unit,      \* active of each pump: "none", or whether its unit asks for its first
             \* client ("begin"), for another one ("connect"), or has one ("transaction")
  processed, \* units of the drain that are done
  stop,      \* of each pump: "running", "waiting" in stop(), "returned"
  pool,      \* "open", "ending" or "ended"
  lent,      \* clients that are out and whose transaction is over
  drains,    \* history: drains begun
  graceOver, \* history: pumps whose stop() returned by its timer
  cutOff,    \* history: pumps whose unit the ending pool has refused another client
  exited

shutdownVars == <<unit, processed, stop, pool, lent, drains, graceOver, cutOff, exited>>

Active(p) == unit[p] # "none"
Holding == {p \in Pumps : unit[p] = "transaction"}
Waiting == {p \in Pumps : unit[p] \in {"begin", "connect"}}
Out == Cardinality(Holding) + lent

\* onApplicationBootstrap: the timer is set.
ShutdownInit ==
  /\ unit = [p \in Pumps |-> "none"] /\ processed = [p \in Pumps |-> 0]
  /\ stop = [p \in Pumps |-> "running"]
  /\ pool = "open" /\ lent = 0
  /\ drains = [p \in Pumps |-> 0]
  /\ graceOver = {} /\ cutOff = {} /\ exited = FALSE

\* run() ends: active is forgotten and a stop() that waits for it returns.
DrainEnds(p) ==
  /\ unit' = [unit EXCEPT ![p] = "none"]
  /\ stop' = [stop EXCEPT ![p] = IF @ = "waiting" THEN "returned" ELSE @]

\* processNext() asks for its first client at once.
Drain(p) ==
  /\ ~exited /\ stop[p] = "running" /\ ~Active(p)
  /\ drains[p] < MaxDrains
  /\ drains' = [drains EXCEPT ![p] = @ + 1]
  /\ processed' = [processed EXCEPT ![p] = 0]
  /\ unit' = [unit EXCEPT ![p] = "begin"]
  /\ UNCHANGED <<stop, pool, lent, graceOver, cutOff, exited>>

Connect(p) ==
  /\ ~exited /\ p \in Waiting
  /\ pool = "open" /\ Out < PoolMax
  /\ unit' = [unit EXCEPT ![p] = "transaction"]
  /\ UNCHANGED <<processed, stop, pool, lent, drains, graceOver, cutOff, exited>>

\* assertCapacity counts the others that wait, the connection times out, or the
\* pool is closing: the error leaves processNext and onError reports it.
ConnectFails(p) ==
  /\ ~exited /\ p \in Waiting
  /\ \/ Cardinality(Waiting \ {p}) >= MaxWaiting
     \/ Out >= PoolMax
     \/ pool # "open"
  /\ DrainEnds(p)
  /\ cutOff' = IF pool # "open" /\ unit[p] = "connect" THEN cutOff \cup {p} ELSE cutOff
  /\ UNCHANGED <<processed, pool, lent, drains, graceOver, exited>>

\* A unit is done: the next one, unless it was the last of the drain.
GoesOn(p) == processed[p] + 1 < DrainLimit /\ stop[p] = "running"

\* fault: the client is given back after COMMIT only
LentAfterFailure == lent + 1

ReleasedAfterFailure == lent

\* transaction(): COMMIT, and the client is given back.  The unit goes on to its
\* next transaction, or it is over: it was the last one or found nothing to claim.
Commit(p) ==
  /\ unit[p] = "transaction" /\ ~exited
  /\ \/ /\ unit' = [unit EXCEPT ![p] = "connect"]
        /\ UNCHANGED <<stop, processed>>
     \/ /\ GoesOn(p)
        /\ processed' = [processed EXCEPT ![p] = @ + 1]
        /\ unit' = [unit EXCEPT ![p] = "begin"]
        /\ UNCHANGED stop
     \/ DrainEnds(p) /\ UNCHANGED processed
  /\ UNCHANGED <<pool, lent, drains, graceOver, cutOff, exited>>

\* A statement fails or times out: ROLLBACK, and the error leaves the unit, or is
\* caught by it, which then stores the failure in another transaction.
Rollback(p) ==
  /\ unit[p] = "transaction" /\ ~exited
  /\ \/ unit' = [unit EXCEPT ![p] = "connect"] /\ UNCHANGED stop
     \/ DrainEnds(p)
  /\ lent' = ReleasedAfterFailure
  /\ UNCHANGED <<processed, pool, drains, graceOver, cutOff, exited>>

\* SIGTERM: every pump's stop() and the pool's end() begin.
Sigterm ==
  /\ pool = "open"
  /\ stop' = [p \in Pumps |-> IF Active(p) THEN "waiting" ELSE "returned"]
  /\ pool' = "ending"
  /\ UNCHANGED <<unit, processed, lent, drains, graceOver, cutOff, exited>>

GraceElapses(p) ==
  /\ stop[p] = "waiting" /\ ~exited
  /\ stop' = [stop EXCEPT ![p] = "returned"]
  /\ graceOver' = graceOver \cup {p}
  /\ UNCHANGED <<unit, processed, pool, lent, drains, cutOff, exited>>

PoolEnds ==
  /\ pool = "ending" /\ Out = 0
  /\ pool' = "ended"
  /\ UNCHANGED <<unit, processed, stop, lent, drains, graceOver, cutOff, exited>>

HooksDone == pool = "ended" /\ \A p \in Pumps : stop[p] = "returned"

Exit ==
  /\ HooksDone /\ ~exited
  /\ exited' = TRUE
  /\ UNCHANGED <<unit, processed, stop, pool, lent, drains, graceOver, cutOff>>

-----------------------------------------------------------------------------
ShutdownNext ==
  \/ \E p \in Pumps :
       \/ Drain(p) \/ Connect(p) \/ ConnectFails(p) \/ Commit(p) \/ Rollback(p)
       \/ GraceElapses(p)
  \/ Sigterm \/ PoolEnds \/ Exit

ShutdownSpec == ShutdownInit /\ [][ShutdownNext]_shutdownVars

\* The runtime schedules what is ready; statements and acquisitions have timeouts.
ShutdownFairness ==
  /\ \A p \in Pumps :
       /\ WF_shutdownVars(Connect(p) \/ ConnectFails(p))
       /\ WF_shutdownVars(Commit(p) \/ Rollback(p))
       /\ WF_shutdownVars(GraceElapses(p))
  /\ WF_shutdownVars(PoolEnds) /\ WF_shutdownVars(Exit)

ShutdownFairSpec == ShutdownSpec /\ ShutdownFairness

-----------------------------------------------------------------------------
(* Properties.                                                             *)

\* SIGTERM always ends the process, whatever the units were doing: no client stays
\* out, no stop() waits for ever; and no transaction is open then, not even one whose
\* pump has stopped waiting for it.
ShutdownEnds == pool = "ending" ~> (exited /\ Holding = {})

\* docs/RESILIENCE.md, "Queue pressure and shutdown": the active unit receives the
\* grace period, so nothing else ends it.
ActiveUnitKeepsGrace == cutOff \subseteq graceOver
=============================================================================
