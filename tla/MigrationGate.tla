--------------------------- MODULE MigrationGate ----------------------------
(***************************************************************************)
(* The deployment gate (apps/migrations) and the start of API and worker   *)
(* processes, of several releases and several times at once, over one      *)
(* database: applyMigrations under an advisory lock, grantRuntimeAccess    *)
(* and verifyMigrations.                                                   *)
(*                                                                         *)
(* Release r brings the migrations 1 .. r.  Processes end at any moment,   *)
(* which rolls a transaction back and gives the lock up.                   *)
(***************************************************************************)
EXTENDS Naturals, FiniteSets

CONSTANTS
  Gates,          \* migration jobs
  Instances,      \* API and worker processes in production
  Releases,       \* the last migration of each release
  NoHolder

ASSUME ReleasesAssumption == Releases \subseteq Nat

VARIABLES
  ledger,         \* app_migrations; {0} is the table without rows, {} no table
  schema,         \* committed objects: migration -> how often its `up` has run
  granted,        \* migrations whose tables the runtime role may use; 0 is the ledger
  defaults,       \* whether it may use tables created from now on
  advisoryLock,   \* holder of the advisory lock
  process         \* what each process is doing

gateVars == <<ledger, schema, granted, defaults, advisoryLock, process>>

Runners == Gates \cup Instances
AllMigrations == UNION {1..r : r \in Releases}
Down == [at |-> "down"]

MigrationsInit ==
  /\ ledger = {}
  /\ schema = [m \in AllMigrations |-> 0]
  /\ granted = {}
  /\ defaults = FALSE
  /\ advisoryLock = NoHolder
  /\ process = [p \in Runners |-> Down]

Standing(p, place) == process[p].at = place
Go(p, place) == process' = [process EXCEPT ![p].at = place]

\* main(), or the start of an API or worker process
Start(p) ==
  /\ Standing(p, "down")
  /\ \E r \in Releases :
       process' = [process EXCEPT ![p] =
         [at |-> IF p \in Gates THEN "lock" ELSE "verify as runtime", release |-> r, next |-> 1]]
  /\ UNCHANGED <<ledger, schema, granted, defaults, advisoryLock>>

LockFree(p) == advisoryLock = NoHolder

\* pg_advisory_lock, and the ledger if there is none
Lock(p) ==
  /\ Standing(p, "lock") /\ LockFree(p)
  /\ advisoryLock' = p
  /\ ledger' = ledger \cup {0}
  /\ Go(p, "check")
  /\ granted' = IF defaults THEN granted \cup {0} ELSE granted
  /\ UNCHANGED <<schema, defaults>>

\* SELECT EXISTS: an applied migration is passed over
Check(p) ==
  /\ Standing(p, "check") /\ process[p].next <= process[p].release
  /\ process' = IF process[p].next \in ledger
                  THEN [process EXCEPT ![p].next = @ + 1]
                  ELSE [process EXCEPT ![p].at = "up"]
  /\ UNCHANGED <<ledger, schema, granted, defaults, advisoryLock>>

\* The transaction of one migration.  Objects that are there already refuse it,
\* and the gate ends after giving the lock back.
Apply(p) ==
  LET m == process[p].next
  IN  /\ Standing(p, "up")
      /\ IF schema[m] = 0
           THEN /\ schema' = [schema EXCEPT ![m] = 1]
                /\ ledger' = ledger \cup {m}
                /\ granted' = IF defaults THEN granted \cup {m} ELSE granted
                /\ process' = [process EXCEPT ![p].at = "check", ![p].next = m + 1]
                /\ UNCHANGED advisoryLock
           ELSE /\ process' = [process EXCEPT ![p].at = "failed"]
                /\ advisoryLock' = IF advisoryLock = p THEN NoHolder ELSE advisoryLock
                /\ UNCHANGED <<ledger, schema, granted>>
      /\ UNCHANGED defaults

Unlock(p) ==
  /\ Standing(p, "check") /\ process[p].next > process[p].release
  /\ advisoryLock' = IF advisoryLock = p THEN NoHolder ELSE advisoryLock
  /\ Go(p, "grant")
  /\ UNCHANGED <<ledger, schema, granted, defaults>>

\* GRANT ... ON ALL TABLES: those there are now
Grant(p) ==
  /\ Standing(p, "grant")
  /\ granted' = ledger
  /\ Go(p, "defaults")
  /\ UNCHANGED <<ledger, schema, defaults, advisoryLock>>

\* ALTER DEFAULT PRIVILEGES
GrantDefaults(p) ==
  /\ Standing(p, "defaults")
  /\ defaults' = TRUE
  /\ Go(p, "verify")
  /\ UNCHANGED <<ledger, schema, granted, advisoryLock>>

\* fault: any ledger will do
LedgerExists(p) == 0 \in ledger

\* The ledger holds the migrations of the release, and no other.
Matches(p) == ledger = 0..process[p].release

\* The gate verifies as the owner ...
VerifyAsOwner(p) ==
  /\ Standing(p, "verify") /\ p \in Gates
  /\ Go(p, IF Matches(p) THEN "verify as runtime" ELSE "failed")
  /\ UNCHANGED <<ledger, schema, granted, defaults, advisoryLock>>

\* ... and as the runtime role, which a process of the release does when it starts.
VerifyAsRuntime(p) ==
  /\ Standing(p, "verify as runtime")
  /\ Go(p, IF Matches(p) /\ 0 \in granted THEN "passed" ELSE "failed")
  /\ UNCHANGED <<ledger, schema, granted, defaults, advisoryLock>>

\* The process ends: by itself, or because its container or connection does.
Stop(p) ==
  /\ ~Standing(p, "down")
  /\ process' = [process EXCEPT ![p] = Down]
  /\ advisoryLock' = IF advisoryLock = p THEN NoHolder ELSE advisoryLock
  /\ UNCHANGED <<ledger, schema, granted, defaults>>

MigrationsNext ==
  \E p \in Runners :
    \/ Start(p) \/ Lock(p) \/ Check(p) \/ Apply(p) \/ Unlock(p) \/ Grant(p)
    \/ GrantDefaults(p) \/ VerifyAsOwner(p) \/ VerifyAsRuntime(p) \/ Stop(p)

MigrationsSpec == MigrationsInit /\ [][MigrationsNext]_gateVars

-----------------------------------------------------------------------------
(* Properties.                                                             *)

\* A gate passes, and a process serves, where every migration of its release is
\* in the schema once; and once a gate has passed the runtime role may use them.
ServesOnCompleteSchema ==
  \A p \in Runners : Standing(p, "passed") =>
    \A m \in 1..process[p].release :
      schema[m] = 1 /\ (p \in Gates => m \in granted)
=============================================================================
