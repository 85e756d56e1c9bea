-------------------------- MODULE RedisConnection ---------------------------
(***************************************************************************)
(* The one connection an API process has to Redis: RedisService makes a    *)
(* client when it is first needed, lets everybody wait for the attempt to  *)
(* connect that is under way, forgets a client that could not connect, and *)
(* connects again after the connection was lost.                           *)
(*                                                                         *)
(* The circuit breaker around every use is CircuitBreaker's; a caller it   *)
(* stopped waiting for is still inside.  What the client of node-redis     *)
(* does is modelled from how this service relies on it: it reconnects      *)
(* never by itself, and connect() throws on a client that is open.         *)
(***************************************************************************)
EXTENDS Naturals, FiniteSets

CONSTANTS
  Users,         \* concurrent uses
  MaxClients     \* bound: clients made

ASSUME ConnectionAssumption == MaxClients \in Nat

None == 0
Clients == 1..MaxClients

VARIABLES
  client,        \* this.client
  connecting,    \* this.connecting: the client whose attempt it is
  socket,        \* of each client: "unmade", "closed", "opening" or "ready"
  user,          \* of each use: where it is, and with which client
  stopping       \* onApplicationShutdown has begun

connectionVars == <<client, connecting, socket, user, stopping>>

Idle == [at |-> "idle", client |-> None]
Using(k) == [at |-> "operation", client |-> k]
WaitingFor(k) == [at |-> "connect", client |-> k]

ConnectionInit ==
  /\ client = None /\ connecting = None
  /\ socket = [k \in Clients |-> "unmade"]
  /\ user = [u \in Users |-> Idle]
  /\ stopping = FALSE

Open == {k \in Clients : socket[k] \in {"opening", "ready"}}
Unmade == {k \in Clients : socket[k] = "unmade"}

\* this.client ?? this.createClient()
CurrentOrNew ==
  IF client # None THEN {client}
  ELSE {k \in Unmade : \A j \in Unmade : k <= j}

\* fault: each caller connects for itself
NeverJoins == FALSE

\* ??=
Joins == connecting # None

\* Whoever waits for a client goes on in the turn that settles its attempt.
Resumed(k, next) == [u \in Users |-> IF user[u] = WaitingFor(k) THEN next ELSE user[u]]

\* A ready client is used at once.
Use(u) ==
  /\ user[u] = Idle
  /\ \E k \in CurrentOrNew :
       /\ socket[k] = "ready"
       /\ user' = [user EXCEPT ![u] = Using(k)]
  /\ UNCHANGED <<client, connecting, socket, stopping>>

\* An attempt is under way: the caller waits for it too.
JoinConnect(u) ==
  /\ user[u] = Idle
  /\ \E k \in CurrentOrNew :
       /\ socket[k] # "ready" /\ Joins
       /\ client' = k
       /\ user' = [user EXCEPT ![u] = WaitingFor(k)]
  /\ UNCHANGED <<connecting, socket, stopping>>

\* client.connect() opens a closed client; on one that is opening it throws, and the
\* catch block destroys and forgets the client.
Connect(u) ==
  /\ user[u] = Idle
  /\ \E k \in CurrentOrNew :
       /\ socket[k] # "ready" /\ ~Joins
       /\ IF socket[k] = "opening"
          THEN /\ client' = None /\ connecting' = None
               /\ socket' = [socket EXCEPT ![k] = "closed"]
               /\ UNCHANGED user
          ELSE /\ client' = k /\ connecting' = k
               /\ socket' = [socket EXCEPT ![k] = "opening"]
               /\ user' = [user EXCEPT ![u] = WaitingFor(k)]
  /\ UNCHANGED stopping

Connected(k) ==
  /\ socket[k] = "opening"
  /\ socket' = [socket EXCEPT ![k] = "ready"]
  /\ user' = Resumed(k, Using(k))
  /\ connecting' = None
  /\ UNCHANGED <<client, stopping>>

\* Refused, or connectTimeout.  destroy() may throw on a client that has closed by
\* itself: then this.client is kept, and connected again by the next caller.
ConnectFails(k) ==
  /\ socket[k] = "opening"
  /\ socket' = [socket EXCEPT ![k] = "closed"]
  /\ user' = Resumed(k, Idle)
  /\ connecting' = None
  /\ client' \in {None, client}
  /\ UNCHANGED stopping

ConnectionLost(k) ==
  /\ socket[k] = "ready"
  /\ socket' = [socket EXCEPT ![k] = "closed"]
  /\ UNCHANGED <<client, connecting, user, stopping>>

\* The operation is answered, or fails with its connection.
OperationEnds(u) ==
  /\ user[u].at = "operation"
  /\ user' = [user EXCEPT ![u] = Idle]
  /\ UNCHANGED <<client, connecting, socket, stopping>>

\* onApplicationShutdown: quit() or destroy(); a handler that is still running may
\* come after it and connect once more.
Shutdown ==
  /\ ~stopping
  /\ stopping' = TRUE
  /\ IF client = None THEN UNCHANGED <<socket, user, connecting>>
     ELSE /\ socket' = [socket EXCEPT ![client] = "closed"]
          /\ user' = Resumed(client, Idle)
          /\ connecting' = None
  /\ UNCHANGED client

ConnectionNext ==
  \/ \E u \in Users :
       Use(u) \/ JoinConnect(u) \/ Connect(u) \/ OperationEnds(u)
  \/ \E k \in Clients : Connected(k) \/ ConnectFails(k) \/ ConnectionLost(k)
  \/ Shutdown

ConnectionSpec == ConnectionInit /\ [][ConnectionNext]_connectionVars

-----------------------------------------------------------------------------
(* The property.                                                           *)

\* However uses, losses, failures and the shutdown interleave, the process has one
\* connection at most, and it is the one this.client knows (another would never be
\* closed); an attempt is remembered as long as it is under way, so that connect() is
\* never called on an open client, and nobody waits for an attempt that is over.
OneConnection ==
  /\ Open \subseteq {client}
  /\ {k \in Clients : socket[k] = "opening"} = {connecting} \ {None}
  /\ \A u \in Users : user[u].at = "connect" => user[u].client = connecting
=============================================================================
