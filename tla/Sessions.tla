------------------------------ MODULE Sessions ------------------------------
(***************************************************************************)
(* Sign-in and browser sessions of one user: OidcService (begin,           *)
(* complete), SessionService (create, resolve with rotation, revoke,       *)
(* revokeAll) and the handlers of AuthController, over the keys they share *)
(* in Redis.                                                               *)
(*                                                                         *)
(* Every Redis command is one step of a request, which may end before or   *)
(* after any of them.  A request presents any token there is: the browser  *)
(* may have sent it before it got a newer one.                             *)
(***************************************************************************)
EXTENDS Naturals, FiniteSets, FiniteSetsExt

CONSTANTS
  SignIns,      \* state parameters of begun OIDC transactions, in order of use
  MaxTokens,    \* bound: session tokens are fresh random values, here 1, 2, ...
  Clients,      \* requests in flight at once
  IdleTtl, AbsoluteTtl, RotationAge,   \* SESSION_* of the configuration
  LastSecond       \* bound: the clock stops here

ASSUME SessionsAssumption ==
  /\ IdleTtl \in Nat \ {0} /\ AbsoluteTtl \in Nat \ {0} /\ RotationAge \in Nat
  /\ RotationAge < IdleTtl
  /\ MaxTokens \in Nat /\ LastSecond \in Nat

Tokens == 1..MaxTokens

VARIABLES
  now,            \* seconds since the epoch
  transactions,   \* identity:oidc:<state>: state -> "unused", "open" or "gone"
  sessions,       \* identity:session:<token>: token -> record
  index,          \* identity:user-sessions:<user>: members and expiry
  client,         \* what each request is doing
  \* history
  signedInAt,     \* when the first session of a sign-in was stored
  usedAt,         \* when a session of the sign-in was stored or renewed last
  ended           \* sign-ins one of whose sessions a revocation has deleted

sessionVars ==
  <<now, transactions, sessions, index, client, signedInAt, usedAt, ended>>

NoSession == [state |-> "unissued"]
Gone      == [state |-> "gone"]
NoIndex   == [members |-> {}, expires |-> 0]
NoClient  == [at |-> "idle"]

Alive(t) == sessions[t].state = "stored"
TokensOf(s) == {t \in Tokens : Alive(t) /\ sessions[t].signIn = s}

RemainingTtl(absolute) ==
  LET left == IF absolute > now THEN absolute - now ELSE 0
  IN  Max({1, Min({IdleTtl, left})})

SessionsInit ==
  /\ now = 0
  /\ transactions = [s \in SignIns |-> "unused"]
  /\ sessions = [t \in Tokens |-> NoSession]
  /\ index = NoIndex
  /\ client = [c \in Clients |-> NoClient]
  /\ signedInAt = [s \in SignIns |-> 0]
  /\ usedAt = [s \in SignIns |-> 0]
  /\ ended = {}

-----------------------------------------------------------------------------
(* Redis commands of one request.                                          *)

At(c, place) == client[c].at = place
Then(c, next) == client' = [client EXCEPT ![c] = next]

\* MULTI: SET with the remaining lifetime, SADD and EXPIRE of the index.
Persist(s, absolute, t) ==
  /\ sessions[t].state = "unissued" /\ \A u \in 1..(t - 1) : sessions[u].state # "unissued"
  /\ sessions' = [sessions EXCEPT ![t] =
       [state |-> "stored", signIn |-> s, absolute |-> absolute, rotatedAt |-> now,
        expires |-> now + RemainingTtl(absolute)]]
  /\ index' = [members |-> index.members \cup {t}, expires |-> now + RemainingTtl(absolute)]
  /\ usedAt' = [usedAt EXCEPT ![s] = now]

\* DEL and GETDEL
Without(T) == [t \in Tokens |-> IF t \in T THEN Gone ELSE sessions[t]]
Unindexed(t) == [index EXCEPT !.members = index.members \ {t}]

-----------------------------------------------------------------------------
(* Sign-in.                                                                *)

\* OidcService.begin: the transaction is stored for ten minutes.
BeginSignIn(s) ==
  /\ transactions[s] = "unused"
  /\ transactions' = [transactions EXCEPT ![s] = "open"]
  /\ UNCHANGED <<now, sessions, index, client, signedInAt, usedAt, ended>>

TransactionExpires(s) ==
  /\ transactions[s] = "open"
  /\ transactions' = [transactions EXCEPT ![s] = "gone"]
  /\ UNCHANGED <<now, sessions, index, client, signedInAt, usedAt, ended>>

\* fault: the transaction is read and left for its expiry
ReadTransaction(s) == transactions

ClaimTransaction(s) == [transactions EXCEPT ![s] = "gone"]

\* OidcService.complete: GETDEL of the transaction; the browser may load the
\* callback address any number of times.
Callback(c, s) ==
  /\ At(c, "idle")
  /\ transactions[s] = "open"
  /\ transactions' = ClaimTransaction(s)
  /\ Then(c, [at |-> "exchange", signIn |-> s])
  /\ UNCHANGED <<now, sessions, index, signedInAt, usedAt, ended>>

\* The provider exchanged the code and the user is stored: SessionService.create.
CreateSession(c) ==
  /\ At(c, "exchange")
  /\ LET s == client[c].signIn
     IN  /\ \E t \in Tokens : Persist(s, now + AbsoluteTtl, t)
         /\ signedInAt' = [signedInAt EXCEPT ![s] = now]
  /\ Then(c, NoClient)
  /\ UNCHANGED <<now, transactions, ended>>

-----------------------------------------------------------------------------
(* AuthenticationService.authenticate: SessionService.resolve.             *)

NeedsRotation(t) == sessions[t].rotatedAt + RotationAge <= now

\* GET; a missing key rejects the request.
Resolve(c, t) ==
  /\ At(c, "idle")
  /\ Alive(t)
  /\ Then(c,
       [at |-> IF sessions[t].absolute <= now THEN "forget"
               ELSE IF NeedsRotation(t) THEN "claim" ELSE "renew",
        token |-> t, session |-> sessions[t]])
  /\ UNCHANGED <<now, transactions, sessions, index, signedInAt, usedAt, ended>>

\* Past its absolute expiry: DEL, and the request is rejected.
Forget(c) ==
  /\ At(c, "forget")
  /\ sessions' = Without({client[c].token})
  /\ Then(c, NoClient)
  /\ UNCHANGED <<now, transactions, index, signedInAt, usedAt, ended>>

\* EXPIRE, which does nothing to a key that is gone by now.
Renew(c) ==
  /\ At(c, "renew")
  /\ LET t == client[c].token
         s == client[c].session
     IN  /\ sessions' = IF Alive(t)
              THEN [sessions EXCEPT ![t].expires = now + RemainingTtl(s.absolute)]
              ELSE sessions
         /\ usedAt' = IF Alive(t) THEN [usedAt EXCEPT ![s.signIn] = now] ELSE usedAt
         /\ Then(c, [at |-> "handle", token |-> t])
  /\ UNCHANGED <<now, transactions, index, signedInAt, ended>>

\* fault: the old session is read again and left in place
ClaimedByReading(t) == sessions

TransactionClaimed(t) == Without({t})

\* rotate(): GETDEL of the old key; whoever finds nothing is rejected.
ClaimRotation(c) ==
  /\ At(c, "claim")
  /\ LET t == client[c].token
     IN  /\ sessions' = TransactionClaimed(t)
         /\ IF Alive(t)
            THEN Then(c, [client[c] EXCEPT !.at = "persist"])
            ELSE Then(c, NoClient)
  /\ UNCHANGED <<now, transactions, index, signedInAt, usedAt, ended>>

\* fault: a rotated session starts its absolute lifetime again
AbsoluteAfresh(session) == now + AbsoluteTtl

AbsoluteKept(session) == session.absolute

PersistRotated(c) ==
  /\ At(c, "persist")
  /\ LET session == client[c].session
     IN  \E t \in Tokens :
           /\ Persist(session.signIn, AbsoluteKept(session), t)
           /\ Then(c, [at |-> "unindex", token |-> t, old |-> client[c].token])
  /\ UNCHANGED <<now, transactions, signedInAt, ended>>

\* SREM of the old key
Unindex(c) ==
  /\ At(c, "unindex")
  /\ index' = Unindexed(client[c].old)
  /\ Then(c, [at |-> "handle", token |-> client[c].token])
  /\ UNCHANGED <<now, transactions, sessions, signedInAt, usedAt, ended>>

-----------------------------------------------------------------------------
(* What the authenticated request does: logout (also when the user is      *)
(* gone), revoke all sessions, or anything else.                           *)

\* revoke(): GETDEL of the session of the request
RevokeSession(c) ==
  /\ At(c, "handle")
  /\ LET t == client[c].token
     IN  /\ sessions' = Without({t})
         /\ ended' = IF Alive(t) THEN ended \cup {sessions[t].signIn} ELSE ended
         /\ IF Alive(t)
            THEN Then(c, [at |-> "revoked", old |-> t])
            ELSE Then(c, NoClient)
  /\ UNCHANGED <<now, transactions, index, signedInAt, usedAt>>

\* ... and SREM
UnindexRevoked(c) ==
  /\ At(c, "revoked")
  /\ index' = Unindexed(client[c].old)
  /\ Then(c, NoClient)
  /\ UNCHANGED <<now, transactions, sessions, signedInAt, usedAt, ended>>

\* revokeAll(): SMEMBERS ...
ListSessions(c) ==
  /\ At(c, "handle")
  /\ Then(c, [at |-> "wipe", members |-> index.members])
  /\ UNCHANGED <<now, transactions, sessions, index, signedInAt, usedAt, ended>>

\* ... and MULTI with a DEL for each and for the index
RevokeListed(c) ==
  /\ At(c, "wipe")
  /\ LET T == client[c].members
     IN  /\ sessions' = Without(T)
         /\ ended' = ended \cup {sessions[t].signIn : t \in {u \in T : Alive(u)}}
  /\ index' = NoIndex
  /\ Then(c, NoClient)
  /\ UNCHANGED <<now, transactions, signedInAt, usedAt>>

\* The request is done, its client is gone, or RedisService.use throws: before
\* the next command, or because the answer to the last one did not come in time.
EndRequest(c) ==
  /\ ~At(c, "idle")
  /\ Then(c, NoClient)
  /\ UNCHANGED <<now, transactions, sessions, index, signedInAt, usedAt, ended>>

\* A key is gone at its expiry.
Tick ==
  /\ now < LastSecond
  /\ now' = now + 1
  /\ sessions' = Without({t \in Tokens : Alive(t) /\ sessions[t].expires = now + 1})
  /\ index' = IF index.expires = now + 1 THEN NoIndex ELSE index
  /\ UNCHANGED <<transactions, client, signedInAt, usedAt, ended>>

-----------------------------------------------------------------------------
SessionsNext ==
  \/ \E s \in SignIns : BeginSignIn(s) \/ TransactionExpires(s)
  \/ \E c \in Clients :
       \/ \E s \in SignIns : Callback(c, s)
       \/ CreateSession(c)
       \/ \E t \in Tokens : Resolve(c, t)
       \/ Forget(c) \/ Renew(c)
       \/ ClaimRotation(c) \/ PersistRotated(c) \/ Unindex(c)
       \/ RevokeSession(c) \/ UnindexRevoked(c) \/ ListSessions(c) \/ RevokeListed(c)
       \/ EndRequest(c)
  \/ Tick

SessionsSpec == SessionsInit /\ [][SessionsNext]_sessionVars

-----------------------------------------------------------------------------
(* Properties.                                                             *)

\* A sign-in never has two live sessions: neither a callback loaded twice nor
\* any number of requests that rotate the same session at once make another.
OneSessionPerSignIn == \A s \in SignIns : Cardinality(TokensOf(s)) <= 1

\* Once a logout or a revocation of all sessions has deleted a session, its
\* sign-in is over: no renewal or rotation in flight brings a session of it back.
RevocationIsFinal == \A s \in ended : TokensOf(s) = {}

\* A request is only admitted by a session that was used within the idle
\* lifetime and whose sign-in is younger than the absolute lifetime, however
\* often the session has been rotated.
LifetimesHold ==
  [][\A c \in Clients :
       At(c, "idle") /\ client'[c].at \in {"renew", "claim"} =>
         LET s == client'[c].session.signIn
         IN  now < usedAt[s] + IdleTtl /\ now < signedInAt[s] + AbsoluteTtl]_sessionVars
=============================================================================
