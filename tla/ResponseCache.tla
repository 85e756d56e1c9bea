--------------------------- MODULE ResponseCache ----------------------------
(***************************************************************************)
(* ResponseCacheService.getOrLoad and invalidateOrganization for one       *)
(* organization and one report, in several API processes that share Redis. *)
(* The database is a version number; a report is the version it was read   *)
(* from.  A key names the generation it was made for.                      *)
(*                                                                         *)
(* Redis keeps the generation counter, which has no expiry.  A command may *)
(* fail, also after it has taken effect.                                   *)
(***************************************************************************)
EXTENDS Naturals, FiniteSets

CONSTANTS
  Processes,    \* API processes, each with its own inFlight map
  Readers,      \* requests for the report that may be in flight at once
  MaxWrites     \* bound on mutations

ASSUME CacheAssumption == MaxWrites \in Nat /\ Processes # {} /\ Readers # {}

VARIABLES
  version,      \* of the committed data
  generation,   \* resilience:cache-generation:<organization>
  entries,      \* resilience:cache:...:<generation>: version of the report, or NoEntry
  pending,      \* mutations committed whose handler has not invalidated yet
  reader,       \* where each request stands
  published     \* history: version of the data at the last invalidation

cacheVars == <<version, generation, entries, pending, reader, published>>

Generations == 0..MaxWrites
NoEntry == [stored |-> FALSE]
Entry(v) == [stored |-> TRUE, version |-> v]
NoReader == [at |-> "idle"]

CacheInit ==
  /\ version = 0 /\ generation = 0 /\ pending = 0 /\ published = 0
  /\ entries = [g \in Generations |-> NoEntry]
  /\ reader = [r \in Readers |-> NoReader]

-----------------------------------------------------------------------------
(* Mutations.  A handler commits and then calls invalidateOrganization;    *)
(* import workers commit without it.                                       *)

Commit ==
  /\ version < MaxWrites
  /\ version' = version + 1
  /\ pending' = pending + 1
  /\ UNCHANGED <<generation, entries, reader, published>>

WorkerCommits ==
  /\ version < MaxWrites
  /\ version' = version + 1
  /\ UNCHANGED <<generation, entries, pending, reader, published>>

\* fault: the entry of the generation is deleted, the generation stays
DeletedEntry ==
  /\ entries' = [entries EXCEPT ![generation] = NoEntry]
  /\ UNCHANGED generation

NextGeneration == generation' = generation + 1 /\ UNCHANGED entries

Invalidate ==
  /\ pending > 0
  /\ pending' = pending - 1
  /\ NextGeneration
  /\ published' = version
  /\ UNCHANGED <<version, reader>>

\* Redis does not answer: the mutation stands, the old generation stays current.
InvalidationSkipped ==
  /\ pending > 0
  /\ pending' = pending - 1
  /\ UNCHANGED <<version, generation, entries, reader, published>>

-----------------------------------------------------------------------------
(* getOrLoad, request r in process p.                                      *)

Move(r, next) == reader' = [reader EXCEPT ![r] = next]

\* GET of the generation; an absent counter counts as 0.
ReadGeneration(r, p) ==
  /\ reader[r].at = "idle"
  /\ Move(r, [at |-> "look", in |-> p, generation |-> generation, floor |-> published])
  /\ UNCHANGED <<version, generation, entries, pending, published>>

\* GET of the entry: a hit is the answer.
LookUp(r) ==
  /\ reader[r].at = "look"
  /\ LET e == entries[reader[r].generation]
     IN  IF e.stored
           THEN Move(r, [at |-> "answered", floor |-> reader[r].floor, value |-> e.version])
           ELSE Move(r, [reader[r] EXCEPT !.at = "missed"])
  /\ UNCHANGED <<version, generation, entries, pending, published>>

\* Redis fails on the way: the source answers (BYPASS).
Bypass(r) ==
  /\ reader[r].at \in {"idle", "look"}
  /\ Move(r, [at |-> "answered", floor |-> published, value |-> version])
  /\ UNCHANGED <<version, generation, entries, pending, published>>

Loading(r) == reader[r].at \in {"query", "store", "loaded"}
SameKey(r, q) ==
  /\ reader[q].in = reader[r].in
  /\ reader[q].generation = reader[r].generation

\* inFlight.get(key)
InFlight(r) == {q \in Readers : Loading(q) /\ SameKey(r, q)}

\* The continuation after the miss: join the promise in flight or start one.
JoinOrLoad(r) ==
  /\ reader[r].at = "missed"
  /\ IF InFlight(r) # {}
       THEN \E q \in InFlight(r) : Move(r, [at |-> "wait", for |-> q, floor |-> reader[r].floor])
       ELSE Move(r, [reader[r] EXCEPT !.at = "query"])
  /\ UNCHANGED <<version, generation, entries, pending, published>>

\* load() reads one snapshot of the database.
LoadSource(r) ==
  /\ reader[r].at = "query"
  /\ Move(r, [at |-> "store", in |-> reader[r].in, generation |-> reader[r].generation,
              floor |-> reader[r].floor, value |-> version])
  /\ UNCHANGED <<version, generation, entries, pending, published>>

\* SET with the time to live; a failure is logged and changes nothing, or what it did.
StoreEntry(r) ==
  /\ reader[r].at = "store"
  /\ entries' \in {entries,
                   [entries EXCEPT ![reader[r].generation] = Entry(reader[r].value)]}
  /\ Move(r, [reader[r] EXCEPT !.at = "loaded"])
  /\ UNCHANGED <<version, generation, pending, published>>

Waiters(r) == {q \in Readers : reader[q].at = "wait" /\ reader[q].for = r}

\* The promise resolves: its maker and everyone who joined it answer, and the
\* map forgets it.
Resolved(r) ==
  /\ reader[r].at = "loaded"
  /\ reader' = [q \in Readers |->
       IF q \in Waiters(r) \cup {r}
         THEN [at |-> "answered", floor |-> reader[q].floor, value |-> reader[r].value]
         ELSE reader[q]]
  /\ UNCHANGED <<version, generation, entries, pending, published>>

\* load() throws: nothing is stored, all of them fail.
LoadFails(r) ==
  /\ reader[r].at = "query"
  /\ reader' = [q \in Readers |-> IF q \in Waiters(r) \cup {r} THEN NoReader ELSE reader[q]]
  /\ UNCHANGED <<version, generation, entries, pending, published>>

Answer(r) ==
  /\ reader[r].at = "answered"
  /\ Move(r, NoReader)
  /\ UNCHANGED <<version, generation, entries, pending, published>>

EntryExpires(g) ==
  /\ entries[g].stored
  /\ entries' = [entries EXCEPT ![g] = NoEntry]
  /\ UNCHANGED <<version, generation, pending, reader, published>>

-----------------------------------------------------------------------------
CacheNext ==
  \/ Commit \/ WorkerCommits \/ Invalidate \/ InvalidationSkipped
  \/ \E r \in Readers :
       \/ \E p \in Processes : ReadGeneration(r, p)
       \/ LookUp(r) \/ Bypass(r) \/ JoinOrLoad(r) \/ LoadSource(r)
       \/ StoreEntry(r) \/ Resolved(r) \/ LoadFails(r) \/ Answer(r)
  \/ \E g \in Generations : EntryExpires(g)

CacheSpec == CacheInit /\ [][CacheNext]_cacheVars

-----------------------------------------------------------------------------
(* Properties.                                                             *)

\* A request that begins after an invalidation is answered from data at least
\* as new as the invalidation found, whatever loads begun before it still store.
NoStaleAnswer ==
  \A r \in Readers : reader[r].at = "answered" => reader[r].value >= reader[r].floor
=============================================================================
