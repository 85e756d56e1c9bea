---------------------------- MODULE AccessProofs ----------------------------
(***************************************************************************)
(* Theorems about Sessions: one session per sign-in, final revocation and  *)
(* the two lifetimes, for any number of sign-ins, tokens and requests and  *)
(* any lifetimes; about RequestPipeline: the authority of whoever is let   *)
(* in, and answers that tell what became of the work, for any number of    *)
(* attempts and any proofs that a request may carry; about what WebSession *)
(* and WorkspacePages show while their answers come in any order; and      *)
(* about ReportingPeriods, for any calendar and any dates that are typed.  *)
(*                                                                         *)
(* The right to a session of a sign-in is handed on and never copied: it   *)
(* lies with the open transaction, with the request that exchanges its     *)
(* code, with a stored session or with the request that rotates it, and    *)
(* with one of them only.                                                  *)
(***************************************************************************)
EXTENDS Sessions, RequestPipeline, WebSession, WorkspacePages, ReportingPeriods,
        SequenceTheorems, FiniteSetTheorems, WellFoundedInduction, TLAPS

SessionRecord ==
  [state : {"stored"}, signIn : SignIns, absolute : Nat, rotatedAt : Nat, expires : Nat]

SessionStates == {NoSession, Gone} \cup SessionRecord

ClientStates ==
  {NoClient}
    \cup [at : {"exchange"}, signIn : SignIns]
    \cup [at : {"forget", "claim", "renew", "persist"}, token : Tokens, session : SessionRecord]
    \cup [at : {"handle"}, token : Tokens]
    \cup [at : {"unindex"}, token : Tokens, old : Tokens]
    \cup [at : {"revoked"}, old : Tokens]
    \cup [at : {"wipe"}, members : SUBSET Tokens]

SessionsTypeOK ==
  /\ now \in Nat
  /\ transactions \in [SignIns -> {"unused", "open", "gone"}]
  /\ sessions \in [Tokens -> SessionStates]
  /\ index \in [members : SUBSET Tokens, expires : Nat]
  /\ client \in [Clients -> ClientStates]
  /\ signedInAt \in [SignIns -> Nat]
  /\ usedAt \in [SignIns -> Nat]
  /\ ended \in SUBSET SignIns

\* A request that may store a session holds the right of its sign-in.
Holds(c, s) ==
  \/ client[c].at = "exchange" /\ client[c].signIn = s
  \/ client[c].at = "persist" /\ client[c].session.signIn = s

StoredFor(t, s) == Alive(t) /\ sessions[t].signIn = s

\* Of all requests and sessions at most one has the right of a sign-in.
OneHolder ==
  \A s \in SignIns :
    /\ \A t, u \in Tokens : StoredFor(t, s) /\ StoredFor(u, s) => t = u
    /\ \A c, d \in Clients : Holds(c, s) /\ Holds(d, s) => c = d
    /\ \A c \in Clients, t \in Tokens : ~(Holds(c, s) /\ StoredFor(t, s))

\* It came from the transaction, which is spent.
TransactionSpent ==
  \A s \in SignIns :
    \/ transactions[s] = "gone"
    \/ /\ \A t \in Tokens : ~StoredFor(t, s)
       /\ \A c \in Clients : ~Holds(c, s)
       /\ s \notin ended

\* Of a sign-in that was ended nobody has it any more.
EndedForGood ==
  \A s \in ended :
    /\ \A t \in Tokens : ~StoredFor(t, s)
    /\ \A c \in Clients : ~Holds(c, s)

Resolved(c, t) ==
  client[c].at \in {"forget", "claim", "renew", "persist"} /\ client[c].token = t

\* A session changes in nothing but its expiry, and a token is not used again.
ResolvedSession ==
  \A c \in Clients, t \in Tokens : Resolved(c, t) =>
    /\ sessions[t].state # "unissued"
    /\ Alive(t) => /\ sessions[t].signIn = client[c].session.signIn
                   /\ sessions[t].absolute = client[c].session.absolute

\* Sessions and rotations keep the end of their sign-in.
AbsoluteEnd ==
  /\ \A t \in Tokens : Alive(t) =>
       sessions[t].absolute = signedInAt[sessions[t].signIn] + AbsoluteTtl
  /\ \A c \in Clients : client[c].at = "persist" =>
       client[c].session.absolute = signedInAt[client[c].session.signIn] + AbsoluteTtl

\* A session lives until its expiry, an idle lifetime after its last use at most.
IdleEnd ==
  \A t \in Tokens : Alive(t) =>
    /\ now < sessions[t].expires
    /\ sessions[t].expires <= usedAt[sessions[t].signIn] + IdleTtl

SessionsInv ==
  /\ SessionsTypeOK /\ OneHolder /\ TransactionSpent /\ EndedForGood
  /\ ResolvedSession /\ AbsoluteEnd /\ IdleEnd

-----------------------------------------------------------------------------
(* The data.                                                               *)

\* The smaller of two numbers.
LEMMA MinOfTwo ==
  ASSUME NEW a \in Nat, NEW b \in Nat
  PROVE  Min({a, b}) = IF a <= b THEN a ELSE b
  BY DEF Min

\* The greater of two numbers.
LEMMA MaxOfTwo ==
  ASSUME NEW a \in Nat, NEW b \in Nat
  PROVE  Max({a, b}) = IF a >= b THEN a ELSE b
  BY DEF Max

\* A session is stored for at least a second and at most an idle lifetime.
LEMMA RemainingTtlBounds ==
  ASSUME now \in Nat, NEW absolute \in Nat
  PROVE  RemainingTtl(absolute) \in 1..IdleTtl
<1> DEFINE left == IF absolute > now THEN absolute - now ELSE 0
<1>1. left \in Nat
  OBVIOUS
<1>2. Min({IdleTtl, left}) \in Nat /\ Min({IdleTtl, left}) <= IdleTtl
  BY <1>1, MinOfTwo, SessionsAssumption
<1> QED
  BY <1>1, <1>2, MaxOfTwo, SessionsAssumption DEF RemainingTtl

\* What is alive is a stored record.
LEMMA AliveRecord ==
  ASSUME SessionsTypeOK, NEW t \in Tokens, Alive(t)
  PROVE  sessions[t] \in SessionRecord
  BY DEF SessionsTypeOK, SessionStates, Alive, NoSession, Gone

\* Deleting tokens touches no other.
LEMMA WithoutTokens ==
  ASSUME SessionsTypeOK, NEW T \in SUBSET Tokens, sessions' = Without(T)
  PROVE  /\ sessions' \in [Tokens -> SessionStates]
         /\ \A t \in Tokens :
              /\ Alive(t)' => t \notin T /\ Alive(t) /\ sessions'[t] = sessions[t]
              /\ sessions[t].state # "unissued" => sessions'[t].state # "unissued"
  BY DEF SessionsTypeOK, SessionStates, Without, Alive, Gone

\* Nothing deleted is nothing changed.
LEMMA WithoutNone ==
  ASSUME SessionsTypeOK
  PROVE  sessions = Without({})
  BY DEF SessionsTypeOK, Without

\* The place of a request tells what it has noted.
LEMMA ClientRecord ==
  ASSUME SessionsTypeOK, NEW c \in Clients
  PROVE  /\ client[c].at = "exchange" => client[c].signIn \in SignIns
         /\ client[c].at \in {"forget", "claim", "renew", "persist"} =>
              client[c] \in [at : {"forget", "claim", "renew", "persist"}, token : Tokens,
                             session : SessionRecord]
         /\ client[c].at \in {"handle", "unindex"} => client[c].token \in Tokens
         /\ client[c].at \in {"unindex", "revoked"} => client[c].old \in Tokens
         /\ client[c].at = "wipe" => client[c].members \in SUBSET Tokens
  BY DEF SessionsTypeOK, ClientStates, NoClient

-----------------------------------------------------------------------------
(* The kinds of steps.                                                     *)

\* Initially there is no session and no right to one.
LEMMA SessionsInitInv == SessionsInit => SessionsInv
<1> SUFFICES ASSUME SessionsInit
             PROVE  SessionsInv
  OBVIOUS
<1>1. SessionsTypeOK
  BY DEF SessionsInit, SessionsTypeOK, SessionStates, ClientStates, NoIndex
<1>2. /\ \A t \in Tokens : ~Alive(t)
      /\ \A c \in Clients : client[c].at = "idle"
      /\ ended = {}
  BY DEF SessionsInit, Alive, NoSession, NoClient
<1> QED
  BY <1>1, <1>2
  DEF SessionsInv, OneHolder, TransactionSpent, EndedForGood, ResolvedSession, AbsoluteEnd,
      IdleEnd, StoredFor, Holds, Resolved

\* Sessions are deleted and requests move on without a right: whatever is left was
\* there before.
LEMMA DropStep ==
  ASSUME SessionsInv,
         NEW T \in SUBSET Tokens, sessions' = Without(T),
         client' \in [Clients -> ClientStates],
         \A c \in Clients :
           \/ client'[c] = client[c]
           \/ client'[c].at \notin {"exchange", "forget", "claim", "renew", "persist"}
           \/ /\ client'[c].at \in {"forget", "claim", "renew"}
              /\ Alive(client'[c].token)
              /\ client'[c].session = sessions[client'[c].token],
         UNCHANGED <<transactions, signedInAt, usedAt>>,
         index' \in [members : SUBSET Tokens, expires : Nat],
         now' \in Nat,
         \A t \in Tokens \ T : Alive(t) => now' < sessions[t].expires,
         ended' \subseteq ended \cup {sessions[t].signIn : t \in {u \in T : Alive(u)}}
  PROVE  SessionsInv'
<1>1. /\ sessions' \in [Tokens -> SessionStates]
      /\ \A t \in Tokens :
           /\ Alive(t)' => t \notin T /\ Alive(t) /\ sessions'[t] = sessions[t]
           /\ sessions[t].state # "unissued" => sessions'[t].state # "unissued"
  BY WithoutTokens DEF SessionsInv
<1>2. \A t \in Tokens : Alive(t) => sessions[t].signIn \in SignIns
  BY AliveRecord DEF SessionsInv, SessionRecord
<1>3. SessionsTypeOK'
  BY <1>1, <1>2 DEF SessionsInv, SessionsTypeOK
<1>4. \A t \in Tokens, s \in SignIns : StoredFor(t, s)' => t \notin T /\ StoredFor(t, s)
  BY <1>1 DEF StoredFor
<1>5. \A c \in Clients, s \in SignIns : Holds(c, s)' => Holds(c, s)
  BY DEF Holds
<1>6. OneHolder'
  BY <1>4, <1>5 DEF SessionsInv, OneHolder
<1>7. ASSUME NEW s \in ended', s \notin ended
      PROVE  /\ s \in SignIns /\ transactions[s] = "gone"
             /\ \A t \in Tokens : ~StoredFor(t, s)'
             /\ \A c \in Clients : ~Holds(c, s)'
  <2>1. PICK u \in T : Alive(u) /\ sessions[u].signIn = s
    BY <1>7
  <2>2. s \in SignIns /\ StoredFor(u, s) /\ u \in Tokens
    BY <1>2, <2>1 DEF StoredFor
  <2>3. \A t \in Tokens : StoredFor(t, s) => t = u
    BY <2>2 DEF SessionsInv, OneHolder
  <2>4. \A c \in Clients : ~Holds(c, s)
    BY <2>2 DEF SessionsInv, OneHolder
  <2>5. transactions[s] = "gone"
    BY <2>2 DEF SessionsInv, TransactionSpent
  <2> QED
    BY <1>4, <1>5, <2>1, <2>2, <2>3, <2>4, <2>5
<1>8. TransactionSpent' /\ EndedForGood'
  <2>1. ended \subseteq SignIns
    BY DEF SessionsInv, SessionsTypeOK
  <2> QED
    BY <1>4, <1>5, <1>7, <2>1 DEF SessionsInv, TransactionSpent, EndedForGood
<1>9. ResolvedSession'
  <2> SUFFICES ASSUME NEW c \in Clients, NEW t \in Tokens, Resolved(c, t)'
               PROVE  /\ sessions'[t].state # "unissued"
                      /\ Alive(t)' => /\ sessions'[t].signIn = client'[c].session.signIn
                                      /\ sessions'[t].absolute = client'[c].session.absolute
    BY DEF ResolvedSession
  <2>1. CASE client'[c] = client[c]
    BY <1>1, <2>1 DEF SessionsInv, ResolvedSession, Resolved
  <2>2. CASE Alive(client'[c].token) /\ client'[c].session = sessions[client'[c].token]
    BY <1>1, <2>2 DEF Alive, Resolved
  <2> QED
    BY <2>1, <2>2 DEF Resolved
<1>10. AbsoluteEnd' /\ IdleEnd'
  BY <1>1 DEF SessionsInv, AbsoluteEnd, IdleEnd
<1> QED
  BY <1>3, <1>6, <1>8, <1>9, <1>10 DEF SessionsInv

\* The holder stores a session: the right passes from the request to the token.
LEMMA PersistStep ==
  ASSUME SessionsInv,
         NEW c \in Clients, NEW s \in SignIns, Holds(c, s),
         NEW t \in Tokens, NEW absolute \in Nat, Persist(s, absolute, t),
         signedInAt' \in {signedInAt, [signedInAt EXCEPT ![s] = now]},
         absolute = signedInAt'[s] + AbsoluteTtl,
         NEW next \in ClientStates, client' = [client EXCEPT ![c] = next],
         next.at \notin {"exchange", "forget", "claim", "renew", "persist"},
         UNCHANGED <<now, transactions, ended>>
  PROVE  SessionsInv'
<1> DEFINE new == [state |-> "stored", signIn |-> s, absolute |-> absolute,
                   rotatedAt |-> now, expires |-> now + RemainingTtl(absolute)]
<1>1. RemainingTtl(absolute) \in 1..IdleTtl /\ now \in Nat
  BY RemainingTtlBounds DEF SessionsInv, SessionsTypeOK
<1>2. new \in SessionRecord
  BY <1>1, SessionsAssumption DEF SessionsInv, SessionsTypeOK, SessionRecord
<1>3. sessions[t].state = "unissued" /\ sessions' = [sessions EXCEPT ![t] = new]
  BY DEF Persist
<1>4. usedAt' = [usedAt EXCEPT ![s] = now]
  BY DEF Persist
<1>5. /\ new.state = "stored" /\ new.signIn = s /\ new.absolute = absolute
      /\ now < new.expires /\ new.expires <= now + IdleTtl
  BY <1>1, SessionsAssumption
<1> HIDE DEF new
<1>6. sessions'[t] = new /\ \A u \in Tokens \ {t} : sessions'[u] = sessions[u]
  BY <1>3 DEF SessionsInv, SessionsTypeOK
<1>7. client'[c] = next /\ \A d \in Clients \ {c} : client'[d] = client[d]
  BY DEF SessionsInv, SessionsTypeOK
<1>8. \A u \in Tokens : ~StoredFor(u, s)
  BY DEF SessionsInv, OneHolder
<1>9. \A d \in Clients \ {c} : ~Holds(d, s)
  BY DEF SessionsInv, OneHolder
<1>10. SessionsTypeOK'
  <2>1. index' \in [members : SUBSET Tokens, expires : Nat]
    BY <1>1, SessionsAssumption DEF Persist, SessionsInv, SessionsTypeOK
  <2>2. sessions' \in [Tokens -> SessionStates]
    BY <1>2, <1>3 DEF SessionsInv, SessionsTypeOK, SessionStates
  <2>3. usedAt' \in [SignIns -> Nat] /\ signedInAt' \in [SignIns -> Nat]
    BY <1>4 DEF SessionsInv, SessionsTypeOK
  <2> QED
    BY <2>1, <2>2, <2>3 DEF SessionsInv, SessionsTypeOK
<1>11. /\ \A z \in SignIns, u \in Tokens : StoredFor(u, z)' =>
            \/ u = t /\ z = s
            \/ u # t /\ z # s /\ StoredFor(u, z)
       /\ \A z \in SignIns, d \in Clients : Holds(d, z)' => d # c /\ z # s /\ Holds(d, z)
  <2>1. ASSUME NEW z \in SignIns, NEW u \in Tokens, StoredFor(u, z)'
        PROVE  \/ u = t /\ z = s
               \/ u # t /\ z # s /\ StoredFor(u, z)
    BY <1>5, <1>6, <1>8, <2>1 DEF StoredFor, Alive
  <2>2. ASSUME NEW z \in SignIns, NEW d \in Clients, Holds(d, z)'
        PROVE  d # c /\ z # s /\ Holds(d, z)
    BY <1>7, <1>9, <2>2 DEF Holds
  <2> QED
    BY <2>1, <2>2
<1>12. OneHolder'
  BY <1>11 DEF SessionsInv, OneHolder
<1>13. transactions[s] = "gone" /\ s \notin ended
  BY DEF SessionsInv, TransactionSpent, EndedForGood
<1>14. TransactionSpent' /\ EndedForGood'
  BY <1>11, <1>13 DEF SessionsInv, SessionsTypeOK, TransactionSpent, EndedForGood
<1>15. ResolvedSession'
  <2> SUFFICES ASSUME NEW d \in Clients, NEW u \in Tokens, Resolved(d, u)'
               PROVE  /\ sessions'[u].state # "unissued"
                      /\ Alive(u)' => /\ sessions'[u].signIn = client'[d].session.signIn
                                      /\ sessions'[u].absolute = client'[d].session.absolute
    BY DEF ResolvedSession
  <2>1. d # c /\ Resolved(d, u) /\ client'[d] = client[d]
    BY <1>7 DEF Resolved
  <2>2. u # t
    BY <1>3, <2>1 DEF SessionsInv, ResolvedSession
  <2> QED
    BY <1>6, <2>1, <2>2 DEF SessionsInv, ResolvedSession, Alive
<1>16. AbsoluteEnd'
  <2>1. ASSUME NEW u \in Tokens, Alive(u)'
        PROVE  sessions'[u].absolute = signedInAt'[sessions'[u].signIn] + AbsoluteTtl
    <3>1. CASE u = t
      BY <1>5, <1>6, <3>1
    <3>2. CASE u # t
      <4>1. Alive(u) /\ sessions'[u] = sessions[u]
        BY <1>6, <2>1, <3>2 DEF Alive
      <4>2. sessions[u].signIn \in SignIns /\ sessions[u].signIn # s
        BY <1>8, <4>1, AliveRecord DEF SessionsInv, SessionRecord, StoredFor
      <4> QED
        BY <4>1, <4>2 DEF SessionsInv, SessionsTypeOK, AbsoluteEnd
    <3> QED
      BY <3>1, <3>2
  <2>2. ASSUME NEW d \in Clients, client'[d].at = "persist"
        PROVE  client'[d].session.absolute = signedInAt'[client'[d].session.signIn] + AbsoluteTtl
    <3>1. d # c /\ client'[d] = client[d]
      BY <1>7, <2>2
    <3>2. client[d].session.signIn \in SignIns
      BY <2>2, <3>1, ClientRecord DEF SessionsInv, SessionRecord
    <3>3. client[d].session.signIn # s
      BY <1>9, <2>2, <3>1 DEF Holds
    <3> QED
      BY <2>2, <3>1, <3>2, <3>3 DEF SessionsInv, SessionsTypeOK, AbsoluteEnd
  <2> QED
    BY <2>1, <2>2 DEF AbsoluteEnd
<1>17. IdleEnd'
  <2> SUFFICES ASSUME NEW u \in Tokens, Alive(u)'
               PROVE  /\ now < sessions'[u].expires
                      /\ sessions'[u].expires <= usedAt'[sessions'[u].signIn] + IdleTtl
    BY DEF IdleEnd
  <2>1. CASE u = t
    BY <1>4, <1>5, <1>6, <2>1 DEF SessionsInv, SessionsTypeOK
  <2>2. CASE u # t
    <3>1. Alive(u) /\ sessions'[u] = sessions[u]
      BY <1>6, <2>2 DEF Alive
    <3>2. sessions[u].signIn \in SignIns /\ sessions[u].signIn # s
      BY <1>8, <3>1, AliveRecord DEF SessionsInv, SessionRecord, StoredFor
    <3> QED
      BY <1>4, <3>1, <3>2 DEF SessionsInv, SessionsTypeOK, IdleEnd
  <2> QED
    BY <2>1, <2>2
<1> QED
  BY <1>10, <1>12, <1>14, <1>15, <1>16, <1>17 DEF SessionsInv

\* A callback takes the right from the transaction, which is then spent.
LEMMA CallbackStep ==
  ASSUME SessionsInv, NEW c \in Clients, NEW s \in SignIns, Callback(c, s)
  PROVE  SessionsInv'
<1> DEFINE next == [at |-> "exchange", signIn |-> s]
<1>1. /\ transactions[s] = "open" /\ transactions' = [transactions EXCEPT ![s] = "gone"]
      /\ client' = [client EXCEPT ![c] = next] /\ next.at = "exchange" /\ next.signIn = s
      /\ UNCHANGED <<now, sessions, index, signedInAt, usedAt, ended>>
  BY DEF Callback, ClaimTransaction, Then
<1>2. next \in ClientStates
  BY DEF ClientStates
<1> HIDE DEF next
<1>3. client'[c] = next /\ \A d \in Clients \ {c} : client'[d] = client[d]
  BY <1>1 DEF SessionsInv, SessionsTypeOK
<1>4. /\ \A t \in Tokens : ~StoredFor(t, s)
      /\ \A d \in Clients : ~Holds(d, s)
      /\ s \notin ended
  BY <1>1 DEF SessionsInv, TransactionSpent
<1>5. SessionsTypeOK'
  BY <1>1, <1>2 DEF SessionsInv, SessionsTypeOK
<1>6. \A z \in SignIns, d \in Clients : Holds(d, z)' =>
        \/ d = c /\ z = s
        \/ z # s /\ Holds(d, z)
  <2> SUFFICES ASSUME NEW z \in SignIns, NEW d \in Clients, Holds(d, z)'
               PROVE  \/ d = c /\ z = s
                      \/ z # s /\ Holds(d, z)
    OBVIOUS
  <2> QED
    BY <1>1, <1>3, <1>4 DEF Holds
<1>7. \A z \in SignIns, t \in Tokens : StoredFor(t, z)' <=> StoredFor(t, z)
  BY <1>1 DEF StoredFor, Alive
<1>8. OneHolder'
  BY <1>4, <1>6, <1>7 DEF SessionsInv, OneHolder
<1>9. TransactionSpent' /\ EndedForGood'
  BY <1>1, <1>4, <1>6, <1>7 DEF SessionsInv, SessionsTypeOK, TransactionSpent, EndedForGood
<1>10. ResolvedSession' /\ AbsoluteEnd'
  BY <1>1, <1>3 DEF SessionsInv, ResolvedSession, AbsoluteEnd, Resolved, Alive
<1>11. IdleEnd'
  BY <1>1 DEF SessionsInv, IdleEnd, Alive
<1> QED
  BY <1>5, <1>8, <1>9, <1>10, <1>11 DEF SessionsInv

\* A transaction that begins or expires takes the right from nobody.
LEMMA TransactionStep ==
  ASSUME SessionsInv, NEW s \in SignIns, BeginSignIn(s) \/ TransactionExpires(s)
  PROVE  SessionsInv'
<1>1. /\ UNCHANGED <<now, sessions, index, client, signedInAt, usedAt, ended>>
      /\ transactions[s] # "gone"
      /\ transactions' \in [SignIns -> {"unused", "open", "gone"}]
      /\ \A z \in SignIns : z # s => transactions'[z] = transactions[z]
  BY DEF BeginSignIn, TransactionExpires, SessionsInv, SessionsTypeOK
<1>2. SessionsTypeOK' /\ OneHolder' /\ EndedForGood'
  BY <1>1 DEF SessionsInv, SessionsTypeOK, OneHolder, EndedForGood, StoredFor, Holds, Alive
<1>3. TransactionSpent'
  BY <1>1 DEF SessionsInv, TransactionSpent, StoredFor, Holds, Alive
<1>4. ResolvedSession' /\ AbsoluteEnd' /\ IdleEnd'
  BY <1>1 DEF SessionsInv, ResolvedSession, AbsoluteEnd, IdleEnd, Resolved, Alive
<1> QED
  BY <1>2, <1>3, <1>4 DEF SessionsInv

\* GETDEL hands the right of a stored session to one request.
LEMMA ClaimRotationStep ==
  ASSUME SessionsInv, NEW c \in Clients, ClaimRotation(c), Alive(client[c].token)
  PROVE  SessionsInv'
<1> DEFINE t == client[c].token
           s == client[c].session.signIn
           next == [client[c] EXCEPT !.at = "persist"]
<1>1. /\ client[c].at = "claim" /\ sessions' = Without({t})
      /\ client' = [client EXCEPT ![c] = next]
      /\ UNCHANGED <<now, transactions, index, signedInAt, usedAt, ended>>
  BY DEF ClaimRotation, TransactionClaimed, At, Then
<1>2. client[c] \in [at : {"forget", "claim", "renew", "persist"}, token : Tokens,
                     session : SessionRecord]
  BY <1>1, ClientRecord DEF SessionsInv
<1>3. /\ next \in ClientStates /\ next.at = "persist" /\ next.token = t
      /\ next.session = client[c].session
  <2>1. next \in [at : {"forget", "claim", "renew", "persist"}, token : Tokens,
                  session : SessionRecord]
    BY <1>2
  <2> QED
    BY <1>2, <2>1 DEF ClientStates
<1> HIDE DEF next
<1>4. t \in Tokens /\ s \in SignIns
  BY <1>2 DEF SessionRecord
<1>5. /\ sessions[t].signIn = s /\ sessions[t].absolute = client[c].session.absolute
  BY <1>1, <1>4 DEF SessionsInv, ResolvedSession, Resolved
<1>6. /\ sessions' \in [Tokens -> SessionStates]
      /\ \A u \in Tokens :
           /\ Alive(u)' => u \notin {t} /\ Alive(u) /\ sessions'[u] = sessions[u]
           /\ sessions[u].state # "unissued" => sessions'[u].state # "unissued"
  BY <1>1, <1>4, WithoutTokens DEF SessionsInv
<1>7. client'[c] = next /\ \A d \in Clients \ {c} : client'[d] = client[d]
  BY <1>1 DEF SessionsInv, SessionsTypeOK
<1>8. StoredFor(t, s)
  BY <1>5 DEF StoredFor
<1>9. /\ \A z \in SignIns, u \in Tokens : StoredFor(u, z)' => z # s /\ StoredFor(u, z)
      /\ \A z \in SignIns, d \in Clients : Holds(d, z)' =>
           \/ d = c /\ z = s
           \/ z # s /\ Holds(d, z)
  <2>1. ASSUME NEW z \in SignIns, NEW u \in Tokens, StoredFor(u, z)'
        PROVE  z # s /\ StoredFor(u, z)
    BY <1>4, <1>6, <1>8, <2>1 DEF StoredFor, SessionsInv, OneHolder
  <2>2. ASSUME NEW z \in SignIns, NEW d \in Clients, Holds(d, z)'
        PROVE  \/ d = c /\ z = s
               \/ z # s /\ Holds(d, z)
    <3>1. CASE d = c
      BY <1>3, <1>7, <2>2, <3>1 DEF Holds
    <3>2. CASE d # c
      <4>1. Holds(d, z)
        BY <1>7, <2>2, <3>2 DEF Holds
      <4> QED
        BY <1>4, <1>8, <4>1 DEF SessionsInv, OneHolder
    <3> QED
      BY <3>1, <3>2
  <2> QED
    BY <2>1, <2>2
<1>10. SessionsTypeOK'
  BY <1>1, <1>3, <1>6 DEF SessionsInv, SessionsTypeOK
<1>11. OneHolder'
  BY <1>9 DEF SessionsInv, OneHolder
<1>12. TransactionSpent' /\ EndedForGood'
  <2>1. transactions[s] = "gone" /\ s \notin ended
    BY <1>4, <1>8 DEF SessionsInv, TransactionSpent, EndedForGood
  <2> QED
    BY <1>1, <1>9, <2>1 DEF SessionsInv, SessionsTypeOK, TransactionSpent, EndedForGood
<1>13. ResolvedSession'
  <2> SUFFICES ASSUME NEW d \in Clients, NEW u \in Tokens, Resolved(d, u)'
               PROVE  /\ sessions'[u].state # "unissued"
                      /\ Alive(u)' => /\ sessions'[u].signIn = client'[d].session.signIn
                                      /\ sessions'[u].absolute = client'[d].session.absolute
    BY DEF ResolvedSession
  <2>1. Resolved(d, u) /\ client'[d].session = client[d].session
    BY <1>1, <1>3, <1>7 DEF Resolved
  <2> QED
    BY <1>6, <2>1 DEF SessionsInv, ResolvedSession
<1>14. AbsoluteEnd'
  <2>1. client[c].session.absolute = signedInAt[s] + AbsoluteTtl
    BY <1>4, <1>5 DEF SessionsInv, AbsoluteEnd
  <2>2. \A d \in Clients : client'[d].at = "persist" =>
          client'[d].session.absolute = signedInAt[client'[d].session.signIn] + AbsoluteTtl
    BY <1>3, <1>7, <2>1 DEF SessionsInv, AbsoluteEnd
  <2> QED
    BY <1>1, <1>6, <2>2 DEF SessionsInv, AbsoluteEnd
<1>15. IdleEnd'
  BY <1>1, <1>6 DEF SessionsInv, IdleEnd
<1> QED
  BY <1>10, <1>11, <1>12, <1>13, <1>14, <1>15 DEF SessionsInv

\* EXPIRE moves the expiry of the session that was resolved, and of no other.
LEMMA RenewStep ==
  ASSUME SessionsInv, NEW c \in Clients, Renew(c), Alive(client[c].token)
  PROVE  SessionsInv'
<1> DEFINE t == client[c].token
           s == client[c].session.signIn
           ttl == RemainingTtl(client[c].session.absolute)
           next == [at |-> "handle", token |-> t]
<1>1. /\ client[c].at = "renew" /\ sessions' = [sessions EXCEPT ![t].expires = now + ttl]
      /\ usedAt' = [usedAt EXCEPT ![s] = now]
      /\ client' = [client EXCEPT ![c] = next] /\ next.at = "handle"
      /\ UNCHANGED <<now, transactions, index, signedInAt, ended>>
  BY DEF Renew, At, Then
<1>2. client[c] \in [at : {"forget", "claim", "renew", "persist"}, token : Tokens,
                     session : SessionRecord]
  BY <1>1, ClientRecord DEF SessionsInv
<1>3. /\ t \in Tokens /\ s \in SignIns /\ next \in ClientStates
      /\ client[c].session.absolute \in Nat
  BY <1>2 DEF SessionRecord, ClientStates
<1>4. ttl \in 1..IdleTtl
  BY <1>3, RemainingTtlBounds DEF SessionsInv, SessionsTypeOK
<1> HIDE DEF next, ttl
<1>5. sessions[t] \in SessionRecord /\ sessions[t].signIn = s
  BY <1>1, <1>3, AliveRecord DEF SessionsInv, ResolvedSession, Resolved
<1>6. /\ sessions'[t] \in SessionRecord
      /\ sessions'[t].signIn = s /\ sessions'[t].absolute = sessions[t].absolute
      /\ sessions'[t].expires = now + ttl
      /\ \A u \in Tokens \ {t} : sessions'[u] = sessions[u]
      /\ sessions' \in [Tokens -> SessionStates]
  <2>1. sessions' = [sessions EXCEPT ![t] = [sessions[t] EXCEPT !.expires = now + ttl]]
    BY <1>1
  <2>2. [sessions[t] EXCEPT !.expires = now + ttl] \in SessionRecord
    BY <1>4, <1>5, SessionsAssumption DEF SessionRecord, SessionsInv, SessionsTypeOK
  <2>3. /\ [sessions[t] EXCEPT !.expires = now + ttl].signIn = sessions[t].signIn
        /\ [sessions[t] EXCEPT !.expires = now + ttl].absolute = sessions[t].absolute
        /\ [sessions[t] EXCEPT !.expires = now + ttl].expires = now + ttl
    BY <1>5 DEF SessionRecord
  <2> QED
    BY <1>3, <1>5, <2>1, <2>2, <2>3 DEF SessionsInv, SessionsTypeOK, SessionStates
<1>7. \A u \in Tokens : /\ Alive(u)' <=> Alive(u)
                        /\ sessions'[u].state = sessions[u].state
                        /\ Alive(u) => /\ sessions'[u].signIn = sessions[u].signIn
                                       /\ sessions'[u].absolute = sessions[u].absolute
  BY <1>3, <1>5, <1>6 DEF Alive, SessionRecord
<1>8. client'[c] = next /\ \A d \in Clients \ {c} : client'[d] = client[d]
  BY <1>1 DEF SessionsInv, SessionsTypeOK
<1>9. /\ \A z \in SignIns, u \in Tokens : StoredFor(u, z)' => StoredFor(u, z)
      /\ \A z \in SignIns, d \in Clients : Holds(d, z)' => Holds(d, z)
  BY <1>1, <1>7, <1>8 DEF StoredFor, Holds
<1>10. SessionsTypeOK'
  BY <1>1, <1>3, <1>6 DEF SessionsInv, SessionsTypeOK
<1>11. OneHolder' /\ TransactionSpent' /\ EndedForGood'
  BY <1>1, <1>9 DEF SessionsInv, SessionsTypeOK, OneHolder, TransactionSpent, EndedForGood
<1>12. ResolvedSession'
  <2> SUFFICES ASSUME NEW d \in Clients, NEW u \in Tokens, Resolved(d, u)'
               PROVE  /\ sessions'[u].state # "unissued"
                      /\ Alive(u)' => /\ sessions'[u].signIn = client'[d].session.signIn
                                      /\ sessions'[u].absolute = client'[d].session.absolute
    BY DEF ResolvedSession
  <2>1. Resolved(d, u) /\ client'[d] = client[d]
    BY <1>1, <1>8 DEF Resolved
  <2> QED
    BY <1>7, <2>1 DEF SessionsInv, ResolvedSession
<1>13. AbsoluteEnd'
  BY <1>1, <1>7, <1>8 DEF SessionsInv, AbsoluteEnd
<1>14. IdleEnd'
  <2> SUFFICES ASSUME NEW u \in Tokens, Alive(u)'
               PROVE  /\ now < sessions'[u].expires
                      /\ sessions'[u].expires <= usedAt'[sessions'[u].signIn] + IdleTtl
    BY <1>1 DEF IdleEnd
  <2>1. CASE u = t
    BY <1>1, <1>3, <1>4, <1>6, <2>1, SessionsAssumption DEF SessionsInv, SessionsTypeOK
  <2>2. CASE u # t
    <3>1. Alive(u) /\ sessions'[u] = sessions[u]
      BY <1>6, <1>7, <2>2
    <3>2. sessions[u].signIn \in SignIns /\ sessions[u].signIn # s
      BY <1>3, <1>5, <2>2, <3>1, AliveRecord
      DEF SessionsInv, OneHolder, SessionRecord, StoredFor
    <3> QED
      BY <1>1, <3>1, <3>2 DEF SessionsInv, SessionsTypeOK, IdleEnd
  <2> QED
    BY <2>1, <2>2
<1> QED
  BY <1>10, <1>11, <1>12, <1>13, <1>14 DEF SessionsInv

-----------------------------------------------------------------------------
(* The actions.                                                            *)

\* A request gives up what it has, and may delete sessions.
LEMMA LetGoStep ==
  ASSUME SessionsInv, NEW c \in Clients,
         NEW next \in ClientStates, client' = [client EXCEPT ![c] = next],
         next.at \notin {"exchange", "forget", "claim", "renew", "persist"},
         NEW T \in SUBSET Tokens, sessions' = Without(T),
         UNCHANGED <<now, transactions, signedInAt, usedAt>>,
         index' \in [members : SUBSET Tokens, expires : Nat],
         ended' \subseteq ended \cup {sessions[t].signIn : t \in {u \in T : Alive(u)}}
  PROVE  SessionsInv'
<1>1. client' \in [Clients -> ClientStates]
  BY DEF SessionsInv, SessionsTypeOK
<1>2. \A d \in Clients : client'[d] = client[d] \/ client'[d] = next
  BY DEF SessionsInv, SessionsTypeOK
<1>3. now' \in Nat /\ \A t \in Tokens \ T : Alive(t) => now' < sessions[t].expires
  BY DEF SessionsInv, SessionsTypeOK, IdleEnd
<1> QED
  BY <1>1, <1>2, <1>3, DropStep

\* The index after SREM is one.
LEMMA IndexStates ==
  ASSUME SessionsInv, NEW t
  PROVE  /\ index \in [members : SUBSET Tokens, expires : Nat]
         /\ Unindexed(t) \in [members : SUBSET Tokens, expires : Nat]
         /\ NoIndex \in [members : SUBSET Tokens, expires : Nat]
  BY DEF SessionsInv, SessionsTypeOK, Unindexed, NoIndex

\* A request notes the session it found.
LEMMA ResolveStep ==
  ASSUME SessionsInv, NEW c \in Clients, NEW t \in Tokens, Resolve(c, t)
  PROVE  SessionsInv'
<1> DEFINE place == IF sessions[t].absolute <= now THEN "forget"
                    ELSE IF NeedsRotation(t) THEN "claim" ELSE "renew"
           next == [at |-> place, token |-> t, session |-> sessions[t]]
<1>1. /\ Alive(t) /\ client' = [client EXCEPT ![c] = next]
      /\ UNCHANGED <<now, transactions, sessions, index, signedInAt, usedAt, ended>>
  BY DEF Resolve, Then
<1>2. place \in {"forget", "claim", "renew"}
  OBVIOUS
<1> HIDE DEF place
<1>3. next \in ClientStates
  BY <1>1, <1>2, AliveRecord DEF SessionsInv, ClientStates
<1>4. client' \in [Clients -> ClientStates]
  BY <1>1, <1>3 DEF SessionsInv, SessionsTypeOK
<1>5. \A d \in Clients :
        \/ client'[d] = client[d]
        \/ /\ client'[d].at \in {"forget", "claim", "renew"}
           /\ client'[d].token = t /\ client'[d].session = sessions[t]
  BY <1>1, <1>2 DEF SessionsInv, SessionsTypeOK
<1>6. \A d \in Clients :
        \/ client'[d] = client[d]
        \/ /\ client'[d].at \in {"forget", "claim", "renew"}
           /\ Alive(client'[d].token)
           /\ client'[d].session = sessions[client'[d].token]
  BY <1>1, <1>5
<1>7. sessions' = Without({}) /\ {} \in SUBSET Tokens
  BY <1>1, WithoutNone DEF SessionsInv
<1>8. index' \in [members : SUBSET Tokens, expires : Nat] /\ now' \in Nat
  BY <1>1 DEF SessionsInv, SessionsTypeOK
<1>9. \A u \in Tokens \ {} : Alive(u) => now' < sessions[u].expires
  BY <1>1 DEF SessionsInv, IdleEnd
<1> QED
  BY <1>1, <1>4, <1>6, <1>7, <1>8, <1>9, DropStep

\* The code's exchange ends with the first session of the sign-in.
LEMMA CreateSessionStep ==
  ASSUME SessionsInv, NEW c \in Clients, CreateSession(c)
  PROVE  SessionsInv'
<1> DEFINE s == client[c].signIn
<1>1. client[c].at = "exchange" /\ s \in SignIns
  BY ClientRecord DEF CreateSession, At, SessionsInv
<1>2. PICK t \in Tokens : Persist(s, now + AbsoluteTtl, t)
  BY DEF CreateSession
<1>3. /\ signedInAt' = [signedInAt EXCEPT ![s] = now]
      /\ client' = [client EXCEPT ![c] = NoClient]
      /\ UNCHANGED <<now, transactions, ended>>
  BY DEF CreateSession, Then
<1>4. Holds(c, s) /\ now + AbsoluteTtl \in Nat
  BY <1>1, SessionsAssumption DEF Holds, SessionsInv, SessionsTypeOK
<1>5. now + AbsoluteTtl = signedInAt'[s] + AbsoluteTtl
  BY <1>1, <1>3 DEF SessionsInv, SessionsTypeOK
<1>6. NoClient \in ClientStates /\ NoClient.at = "idle"
  BY DEF ClientStates, NoClient
<1> HIDE DEF s
<1> QED
  BY <1>1, <1>2, <1>3, <1>4, <1>5, <1>6, PersistStep

\* A rotation ends with the session under another token.
LEMMA PersistRotatedStep ==
  ASSUME SessionsInv, NEW c \in Clients, PersistRotated(c)
  PROVE  SessionsInv'
<1> DEFINE s == client[c].session.signIn
           absolute == client[c].session.absolute
<1>1. client[c].at = "persist"
  BY DEF PersistRotated, At
<1>2. client[c] \in [at : {"forget", "claim", "renew", "persist"}, token : Tokens,
                     session : SessionRecord]
  BY <1>1, ClientRecord DEF SessionsInv
<1>3. s \in SignIns /\ absolute \in Nat
  BY <1>2 DEF SessionRecord
<1>4. PICK t \in Tokens :
        /\ Persist(s, absolute, t)
        /\ client' = [client EXCEPT ![c] =
             [at |-> "unindex", token |-> t, old |-> client[c].token]]
  BY DEF PersistRotated, AbsoluteKept, Then
<1> DEFINE next == [at |-> "unindex", token |-> t, old |-> client[c].token]
<1>5. next \in ClientStates /\ next.at = "unindex"
  BY <1>2 DEF ClientStates
<1>6. Holds(c, s) /\ absolute = signedInAt[s] + AbsoluteTtl
  BY <1>1 DEF Holds, SessionsInv, AbsoluteEnd
<1>7. UNCHANGED <<now, transactions, signedInAt, ended>>
  BY DEF PersistRotated
<1> HIDE DEF s, absolute, next
<1>8. client' = [client EXCEPT ![c] = next]
  BY <1>4 DEF next
<1> QED
  BY <1>3, <1>4, <1>5, <1>6, <1>7, <1>8, PersistStep

\* The requests' other steps give something up.
LEMMA RequestStep ==
  ASSUME SessionsInv, NEW c \in Clients,
         \/ Forget(c) \/ Unindex(c) \/ RevokeSession(c) \/ UnindexRevoked(c)
         \/ ListSessions(c) \/ RevokeListed(c) \/ EndRequest(c)
         \/ Renew(c) /\ ~Alive(client[c].token)
         \/ ClaimRotation(c) /\ ~Alive(client[c].token)
  PROVE  SessionsInv'
<1>1. /\ NoClient \in ClientStates /\ NoClient.at = "idle" /\ {} \in SUBSET Tokens
      /\ sessions = Without({})
  BY WithoutNone DEF ClientStates, NoClient, SessionsInv
<1>2. CASE Forget(c) \/ (ClaimRotation(c) /\ ~Alive(client[c].token))
  <2>1. client[c].token \in Tokens
    BY <1>2, ClientRecord DEF SessionsInv, Forget, ClaimRotation, At
  <2> QED
    BY <1>1, <1>2, <2>1, IndexStates, LetGoStep
    DEF Forget, ClaimRotation, TransactionClaimed, Then
<1>3. CASE Unindex(c) \/ (Renew(c) /\ ~Alive(client[c].token))
  <2> DEFINE next == [at |-> "handle", token |-> client[c].token]
  <2>1. client[c].token \in Tokens
    BY <1>3, ClientRecord DEF SessionsInv, Unindex, Renew, At
  <2>2. next \in ClientStates /\ next.at = "handle"
    BY <2>1 DEF ClientStates
  <2> QED
    BY <1>1, <1>3, <2>2, IndexStates, LetGoStep DEF Unindex, Renew, Then
<1>4. CASE RevokeSession(c)
  <2> DEFINE t == client[c].token
             next == IF Alive(t) THEN [at |-> "revoked", old |-> t] ELSE NoClient
  <2>1. t \in Tokens /\ {t} \in SUBSET Tokens
    BY <1>4, ClientRecord DEF SessionsInv, RevokeSession, At
  <2>2. next \in ClientStates /\ next.at \in {"revoked", "idle"}
    BY <1>1, <2>1 DEF ClientStates
  <2>3. client' = [client EXCEPT ![c] = next] /\ sessions' = Without({t})
    BY <1>4 DEF RevokeSession, Then
  <2>4. ended' \subseteq ended \cup {sessions[u].signIn : u \in {v \in {t} : Alive(v)}}
    BY <1>4 DEF RevokeSession
  <2>5. UNCHANGED <<now, transactions, index, signedInAt, usedAt>>
    BY <1>4 DEF RevokeSession
  <2> HIDE DEF t, next
  <2> QED
    BY <2>1, <2>2, <2>3, <2>4, <2>5, IndexStates, LetGoStep
<1>5. CASE UnindexRevoked(c) \/ EndRequest(c)
  <2>1. /\ client' = [client EXCEPT ![c] = NoClient] /\ sessions' = sessions
        /\ UNCHANGED <<now, transactions, signedInAt, usedAt>> /\ ended' = ended
    BY <1>5 DEF UnindexRevoked, EndRequest, Then
  <2>2. index' \in [members : SUBSET Tokens, expires : Nat]
    BY <1>5, IndexStates DEF UnindexRevoked, EndRequest
  <2>3. sessions' = Without({}) /\ ended' \subseteq ended
    BY <1>1, <2>1
  <2> QED
    BY <1>1, <2>1, <2>2, <2>3, LetGoStep
<1>6. CASE ListSessions(c)
  <2> DEFINE next == [at |-> "wipe", members |-> index.members]
  <2>1. next \in ClientStates /\ next.at = "wipe"
    BY DEF ClientStates, SessionsInv, SessionsTypeOK
  <2> QED
    BY <1>1, <1>6, <2>1, IndexStates, LetGoStep DEF ListSessions, Then
<1>7. CASE RevokeListed(c)
  <2> DEFINE T == client[c].members
  <2>1. T \in SUBSET Tokens
    BY <1>7, ClientRecord DEF SessionsInv, RevokeListed, At
  <2> QED
    BY <1>1, <1>7, <2>1, IndexStates, LetGoStep DEF RevokeListed, Then
<1> QED
  BY <1>2, <1>3, <1>4, <1>5, <1>6, <1>7

\* A session that reaches its expiry is gone.
LEMMA TickStep ==
  ASSUME SessionsInv, Tick
  PROVE  SessionsInv'
<1> DEFINE T == {t \in Tokens : Alive(t) /\ sessions[t].expires = now + 1}
<1>1. T \in SUBSET Tokens /\ sessions' = Without(T) /\ now' = now + 1 /\ now' \in Nat
  BY DEF Tick, SessionsInv, SessionsTypeOK
<1>2. ASSUME NEW t \in Tokens \ T, Alive(t)
      PROVE  now' < sessions[t].expires
  <2>1. now < sessions[t].expires /\ sessions[t].expires # now + 1
    BY <1>2 DEF SessionsInv, IdleEnd
  <2>2. sessions[t].expires \in Nat /\ now \in Nat
    BY <1>2, AliveRecord DEF SessionsInv, SessionsTypeOK, SessionRecord
  <2> QED
    BY <1>1, <2>1, <2>2
<1>3. index' \in [members : SUBSET Tokens, expires : Nat]
  BY IndexStates DEF Tick
<1>4. UNCHANGED <<transactions, client, signedInAt, usedAt, ended>>
  BY DEF Tick
<1>5. client' \in [Clients -> ClientStates]
  BY <1>4 DEF SessionsInv, SessionsTypeOK
<1> HIDE DEF T
<1> QED
  BY <1>1, <1>2, <1>3, <1>4, <1>5, DropStep

\* Every step preserves the invariant.
LEMMA SessionsInvStep == SessionsInv /\ [SessionsNext]_sessionVars => SessionsInv'
<1> SUFFICES ASSUME SessionsInv, [SessionsNext]_sessionVars
             PROVE  SessionsInv'
  OBVIOUS
<1>1. ASSUME NEW s \in SignIns, BeginSignIn(s) \/ TransactionExpires(s)
      PROVE  SessionsInv'
  BY <1>1, TransactionStep
<1>2. ASSUME NEW c \in Clients, NEW s \in SignIns, Callback(c, s)
      PROVE  SessionsInv'
  BY <1>2, CallbackStep
<1>3. ASSUME NEW c \in Clients, CreateSession(c) \/ PersistRotated(c)
      PROVE  SessionsInv'
  BY <1>3, CreateSessionStep, PersistRotatedStep
<1>4. ASSUME NEW c \in Clients, NEW t \in Tokens, Resolve(c, t)
      PROVE  SessionsInv'
  BY <1>4, ResolveStep
<1>5. ASSUME NEW c \in Clients, Renew(c) \/ ClaimRotation(c)
      PROVE  SessionsInv'
  BY <1>5, RenewStep, ClaimRotationStep, RequestStep
<1>6. ASSUME NEW c \in Clients,
             \/ Forget(c) \/ Unindex(c) \/ RevokeSession(c) \/ UnindexRevoked(c)
             \/ ListSessions(c) \/ RevokeListed(c) \/ EndRequest(c)
      PROVE  SessionsInv'
  BY <1>6, RequestStep
<1>7. CASE Tick
  BY <1>7, TickStep
<1>8. CASE UNCHANGED sessionVars
  BY <1>8
  DEF sessionVars, SessionsInv, SessionsTypeOK, OneHolder, TransactionSpent, EndedForGood,
      ResolvedSession, AbsoluteEnd, IdleEnd, StoredFor, Holds, Resolved, Alive
<1> QED
  BY <1>1, <1>2, <1>3, <1>4, <1>5, <1>6, <1>7, <1>8 DEF SessionsNext

\* The invariant holds throughout every behaviour.
LEMMA SessionsInvariance == SessionsSpec => []SessionsInv
  BY SessionsInitInv, SessionsInvStep, PTL DEF SessionsSpec

-----------------------------------------------------------------------------
(* The theorems.                                                           *)

\* Every variable stays within its type.
THEOREM SessionsTypeCorrect == SessionsSpec => []SessionsTypeOK
<1>1. SessionsInv => SessionsTypeOK
  BY DEF SessionsInv
<1> QED
  BY <1>1, SessionsInvariance, PTL

\* A sign-in has one live session at most, however callbacks and rotations race.
THEOREM OneLiveSession == SessionsSpec => []OneSessionPerSignIn
<1>1. SessionsInv => OneSessionPerSignIn
  <2> SUFFICES ASSUME SessionsInv, NEW s \in SignIns
               PROVE  Cardinality(TokensOf(s)) <= 1
    BY DEF OneSessionPerSignIn
  <2>1. CASE TokensOf(s) = {}
    BY <2>1, FS_EmptySet
  <2>2. CASE TokensOf(s) # {}
    <3>1. PICK t \in Tokens : TokensOf(s) = {t}
      BY <2>2 DEF TokensOf, SessionsInv, OneHolder, StoredFor
    <3> QED
      BY <3>1, FS_Singleton
  <2> QED
    BY <2>1, <2>2
<1> QED
  BY <1>1, SessionsInvariance, PTL

\* A sign-in one of whose sessions a revocation has deleted has no session again.
THEOREM RevokedForGood == SessionsSpec => []RevocationIsFinal
<1>1. SessionsInv => RevocationIsFinal
  BY DEF SessionsInv, EndedForGood, RevocationIsFinal, TokensOf, StoredFor
<1> QED
  BY <1>1, SessionsInvariance, PTL

\* An idle request only goes on to renew or to claim by resolving its session.
LEMMA OnlyResolveAdmits ==
  ASSUME SessionsInv, SessionsNext,
         NEW c \in Clients, At(c, "idle"), client'[c].at \in {"renew", "claim"}
  PROVE  \E t \in Tokens : Resolve(c, t)
<1>1. client \in [Clients -> ClientStates] /\ client'[c] # client[c]
  BY DEF SessionsInv, SessionsTypeOK, At
<1>2. ASSUME NEW d \in Clients, NEW next, client' = [client EXCEPT ![d] = next]
      PROVE  d = c /\ next.at \in {"renew", "claim"}
  BY <1>1, <1>2
<1>3. ASSUME NEW s \in SignIns, BeginSignIn(s) \/ TransactionExpires(s)
      PROVE  FALSE
  BY <1>1, <1>3 DEF BeginSignIn, TransactionExpires
<1>4. ASSUME NEW d \in Clients, NEW s \in SignIns, Callback(d, s)
      PROVE  FALSE
  <2> DEFINE next == [at |-> "exchange", signIn |-> s]
  <2>1. client' = [client EXCEPT ![d] = next] /\ next.at = "exchange"
    BY <1>4 DEF Callback, Then
  <2> HIDE DEF next
  <2> QED
    BY <1>2, <2>1
<1>5. ASSUME NEW d \in Clients, NEW t \in Tokens, Resolve(d, t)
      PROVE  Resolve(c, t)
  BY <1>2, <1>5 DEF Resolve, Then
<1>6. ASSUME NEW d \in Clients, ~At(d, "idle")
      PROVE  d # c
  BY <1>6
<1>7. ASSUME NEW d \in Clients,
             \/ CreateSession(d) \/ Forget(d) \/ Renew(d) \/ ClaimRotation(d)
             \/ PersistRotated(d) \/ Unindex(d) \/ RevokeSession(d) \/ UnindexRevoked(d)
             \/ ListSessions(d) \/ RevokeListed(d) \/ EndRequest(d)
      PROVE  FALSE
  <2>1. ~At(d, "idle")
    BY <1>7
    DEF CreateSession, Forget, Renew, ClaimRotation, PersistRotated, Unindex, RevokeSession,
        UnindexRevoked, ListSessions, RevokeListed, EndRequest, At
  <2>2. \E next : client' = [client EXCEPT ![d] = next]
    BY <1>7
    DEF CreateSession, Forget, Renew, ClaimRotation, PersistRotated, Unindex, RevokeSession,
        UnindexRevoked, ListSessions, RevokeListed, EndRequest, Then
  <2> QED
    BY <1>2, <1>6, <2>1, <2>2
<1>8. CASE Tick
  BY <1>1, <1>8 DEF Tick
<1> QED
  BY <1>3, <1>4, <1>5, <1>7, <1>8 DEF SessionsNext

\* A request is let in within the idle and the absolute lifetime of its sign-in.
THEOREM LifetimesKept == SessionsSpec => LifetimesHold
<1> DEFINE Admission ==
      \A c \in Clients :
        At(c, "idle") /\ client'[c].at \in {"renew", "claim"} =>
          LET s == client'[c].session.signIn
          IN  now < usedAt[s] + IdleTtl /\ now < signedInAt[s] + AbsoluteTtl
<1>1. SessionsInv /\ [SessionsNext]_sessionVars => [Admission]_sessionVars
  <2> SUFFICES ASSUME SessionsInv, SessionsNext,
                      NEW c \in Clients, At(c, "idle"), client'[c].at \in {"renew", "claim"}
               PROVE  LET s == client'[c].session.signIn
                      IN  now < usedAt[s] + IdleTtl /\ now < signedInAt[s] + AbsoluteTtl
    OBVIOUS
  <2>1. PICK t \in Tokens : Resolve(c, t)
    BY OnlyResolveAdmits
  <2>2. Alive(t) /\ sessions[t] \in SessionRecord
    BY <2>1, AliveRecord DEF Resolve, SessionsInv
  <2>3. client'[c].session = sessions[t] /\ ~(sessions[t].absolute <= now)
    BY <2>1 DEF Resolve, Then, SessionsInv, SessionsTypeOK
  <2> DEFINE s == sessions[t].signIn
  <2>4. s \in SignIns /\ sessions[t].absolute \in Nat /\ sessions[t].expires \in Nat
    BY <2>2 DEF SessionRecord
  <2>5. now \in Nat /\ usedAt[s] \in Nat /\ signedInAt[s] \in Nat
    BY <2>4 DEF SessionsInv, SessionsTypeOK
  <2>6. /\ sessions[t].absolute = signedInAt[s] + AbsoluteTtl
        /\ now < sessions[t].expires /\ sessions[t].expires <= usedAt[s] + IdleTtl
    BY <2>2 DEF SessionsInv, AbsoluteEnd, IdleEnd
  <2>7. now < signedInAt[s] + AbsoluteTtl
    BY <2>3, <2>4, <2>5, <2>6
  <2>8. now < usedAt[s] + IdleTtl
    BY <2>4, <2>5, <2>6, SessionsAssumption
  <2> QED
    BY <2>3, <2>7, <2>8
<1> QED
  BY <1>1, SessionsInvariance, PTL DEF SessionsSpec, LifetimesHold

-----------------------------------------------------------------------------
(* The inductive invariant of the request pipeline.                        *)

Tries == 1..MaxTries
GuardNames == {"edge", "rate", "session", "csrf", "role", "monitor"}
Owes(guards, g) == \E i \in DOMAIN guards : guards[i] = g

Refusals == {400, 401, 403, 404, Declined, 429, 503}

Places   == {"none", "guards", "handler", "invalidate", "over"}
Answers  == {Unanswered, Lost, Done, 408, 500} \cup Refusals

AttemptSet ==
  [pc : Places, route : Routes, carries : Carried \cup {{}}, guards : Seq(GuardNames),
   answer : Answers, applied : BOOLEAN, counted : BOOLEAN]

HeldSet ==
  [roles : SUBSET (AllRoles \cup {NoRole}), session : BOOLEAN, outage : BOOLEAN]

RequestsTypeOK ==
  /\ redis \in BOOLEAN /\ session \in BOOLEAN /\ roleNow \in AllRoles \cup {NoRole}
  /\ attempts \in [Tries -> AttemptSet]
  /\ held \in [Tries -> HeldSet]

\* The answers of the guards and of a signature that does not hold.
Spurned == {401, 403, 404, 429}

\* A delivery that may have left its time.
Signed(a) == a.route.area = "delivery" /\ "signature" \in a.carries

\* The rate limit is not passed yet.
Outside(a) ==
  a.guards \in {<<"edge", "rate">> \o a.route.guards, <<"rate">> \o a.route.guards}

\* How far an attempt is, and what of its work it has answered.
ProgressOK(a) ==
  /\ \A g \in GuardNames :
       Owes(a.guards, g) => g \in {"edge", "rate"} \/ Owes(a.route.guards, g)
  /\ Owes(a.guards, "rate") => Outside(a)
  /\ a.pc = "guards" => a.answer = Unanswered /\ ~a.applied
  /\ a.pc = "handler" => a.answer \in {Unanswered, 408} /\ ~a.applied
  /\ a.pc = "invalidate" => a.answer \in {Unanswered, 408} /\ a.route.kind = "write"
  /\ (a.pc \in {"handler", "invalidate"} \/ a.applied \/ a.answer = Done) => a.guards = <<>>
  /\ a.applied => a.route.kind \in {"write", "leave"}
  /\ a.applied => a.answer \notin Refusals
  /\ a.applied => a.counted \/ a.answer \in {Unanswered, Lost, 408}

\* What an attempt has that has passed its guards.
PassedOK(a, h) ==
  /\ ~Owes(a.guards, "rate") /\ ~IsExempt(a.route) => ~h.outage
  /\ Owes(a.route.guards, "session") /\ ~Owes(a.guards, "session") =>
       h.session /\ "cookie" \in a.carries
  /\ Owes(a.route.guards, "csrf") /\ ~Owes(a.guards, "csrf")
       /\ a.route.kind \notin SafeKinds => {"origin", "token"} \subseteq a.carries
  /\ Owes(a.route.guards, "role") /\ ~Owes(a.guards, "role") =>
       h.roles \cap a.route.roles # {}
  /\ (a.pc = "invalidate" \/ a.applied) /\ a.route.area = "delivery" => Signed(a)

\* What an attempt is answered that met Redis down all its life.
OutageOK(a, h) ==
  /\ a.route.kind = "live" => a.answer \in {Unanswered, Lost, Done, 408}
  /\ a.route.kind = "ready" /\ h.outage => a.answer \in {Unanswered, Lost, 503, 408}
  /\ ~IsExempt(a.route) /\ h.outage => a.answer \in {Unanswered, Lost, 503, 404}

AttemptOK(a, h) == ProgressOK(a) /\ PassedOK(a, h) /\ OutageOK(a, h)

\* The history has what holds now, for whoever runs; a session that ended stays so.
MetOK(a, h, down, role, stored) ==
  /\ Running(a) => role \in h.roles /\ (h.outage => down)
  /\ stored => h.session

AttemptsOK ==
  \A n \in Tries :
    \/ attempts[n] = NotMade
    \/ /\ attempts[n].pc # "none" /\ AttemptOK(attempts[n], held[n])
       /\ MetOK(attempts[n], held[n], ~redis, roleNow, session)

\* A caller tries again what no answer has settled, and nothing else.
InOrder ==
  \A k, m \in Tries :
    k < m /\ attempts[m].pc # "none" =>
      attempts[k].answer \in Inconclusive /\ attempts[k].route = attempts[m].route

\* Work told, or about to be told, to be done is done, by this attempt or one before.
WorkDone ==
  \A n \in Tries : LET a == attempts[n] IN
    \/ a.pc = "invalidate" /\ a.answer = Unanswered
    \/ a.answer = Done /\ a.route.kind = "write"
    => \E m \in 1..n : attempts[m].applied

\* Work with a key is done once.
KeyedOnce ==
  \A k, m \in Tries :
    attempts[k].applied /\ attempts[m].applied /\ attempts[k].route.keyed => k = m

\* What has left its time was signed, has passed its guards and was not spurned.
ReceivedOK ==
  \A n \in Tries : n \in lastReceived =>
    /\ Signed(attempts[n]) /\ attempts[n].pc \notin {"none", "guards"}
    /\ attempts[n].answer \notin Spurned

RequestsInv ==
  RequestsTypeOK /\ AttemptsOK /\ InOrder /\ WorkDone /\ KeyedOnce /\ ReceivedOK

-----------------------------------------------------------------------------
\* The guards of a route, and the roles they let in, are those of its area.
Shape(r) ==
  /\ r.guards \in {Anyone, SignedIn, Member, Monitor}
  /\ r.keyed \in BOOLEAN /\ r.invalidates \in BOOLEAN
  /\ r.kind \in {"read", "write", "whoami", "leave", "live", "ready"}
  /\ r.keyed => r.kind = "write"
  /\ r.kind \in {"write", "leave"} /\ r.area # "delivery" => r.guards \in {SignedIn, Member}
  /\ r.area = "delivery" => r.kind = "write" /\ r.guards = Anyone
  /\ r.kind \in {"live", "ready"} <=> IsHealth(r)
  /\ IsExempt(r) => r.kind \in {"live", "ready", "read"}
  /\ IsHealth(r) => r.guards = Anyone
  /\ r.guards = Member => r.roles \subseteq DocumentedRoles(r.area)

\* The lists of guards are different.
LEMMA FourLists ==
  /\ Anyone # Member /\ SignedIn # Member /\ Monitor # Member
  /\ Anyone # SignedIn /\ Anyone # Monitor /\ SignedIn # Monitor
<1> QED
  BY DEF Anyone, SignedIn, Member, Monitor

\* Routes of members have the shape if their roles are the documented ones.
LEMMA MemberShape ==
  ASSUME NEW area, area \notin {"health", "metrics", "delivery"},
         NEW kind \in {"read", "write"}, NEW roles, roles \subseteq DocumentedRoles(area),
         NEW keyed \in BOOLEAN, keyed => kind = "write", NEW invalidates \in BOOLEAN
  PROVE  Shape(Route(area, kind, Member, roles, keyed, invalidates))
<1> QED
  BY FourLists DEF Shape, Route, IsHealth, IsExempt

\* So do the routes of whoever is signed in, and those of the probes.
LEMMA OtherShape ==
  ASSUME NEW area, NEW kind, NEW guards, NEW keyed \in BOOLEAN, NEW invalidates \in BOOLEAN,
         \/ /\ area \notin {"health", "metrics", "delivery"} /\ guards = SignedIn
            /\ kind \in {"read", "write", "leave"} /\ ~keyed
         \/ area = "auth" /\ kind = "whoami" /\ guards = Anyone /\ ~keyed
         \/ area = "delivery" /\ kind = "write" /\ guards = Anyone
         \/ area = "health" /\ kind \in {"live", "ready"} /\ guards = Anyone /\ ~keyed
         \/ area = "metrics" /\ kind = "read" /\ guards = Monitor /\ ~keyed
  PROVE  Shape(Route(area, kind, guards, {}, keyed, invalidates))
<1> QED
  BY FourLists DEF Shape, Route, IsHealth, IsExempt

\* A route is a record, of which Keyed and Invalidating set one column.
RouteRecord(r) ==
  r \in [area : {r.area}, kind : {r.kind}, guards : {r.guards}, roles : {r.roles},
         keyed : BOOLEAN, invalidates : BOOLEAN]

\* Setting a column of a write leaves the shape of its route.
LEMMA KeyedShape ==
  ASSUME NEW r, RouteRecord(r), Shape(r), r.kind = "write"
  PROVE  /\ RouteRecord(Keyed(r)) /\ Shape(Keyed(r)) /\ Keyed(r).kind = "write"
         /\ RouteRecord(Invalidating(r)) /\ Shape(Invalidating(r))
<1>1. /\ Keyed(r) \in [area : {r.area}, kind : {r.kind}, guards : {r.guards},
                       roles : {r.roles}, keyed : BOOLEAN, invalidates : BOOLEAN]
      /\ Invalidating(r) \in [area : {r.area}, kind : {r.kind}, guards : {r.guards},
                              roles : {r.roles}, keyed : BOOLEAN, invalidates : BOOLEAN]
  BY DEF Keyed, Invalidating, RouteRecord
<1>2. ASSUME NEW k, k \in [area : {r.area}, kind : {r.kind}, guards : {r.guards},
                           roles : {r.roles}, keyed : BOOLEAN, invalidates : BOOLEAN]
      PROVE  RouteRecord(k) /\ Shape(k) /\ k.kind = "write"
  <2>1. /\ k.area = r.area /\ k.kind = r.kind /\ k.guards = r.guards /\ k.roles = r.roles
        /\ k.keyed \in BOOLEAN /\ k.invalidates \in BOOLEAN
    BY <1>2
  <2>2. RouteRecord(k)
    BY <1>2, <2>1 DEF RouteRecord
  <2> QED
    BY <2>1, <2>2 DEF Shape, IsHealth, IsExempt
<1> QED
  BY <1>1, <1>2

\* A member's route as its area declares it.
LEMMA DeclaredShape ==
  ASSUME NEW area, area \notin {"health", "metrics", "delivery"}, NEW roles,
         roles \subseteq DocumentedRoles(area)
  PROVE  /\ Shape(MemberRead(area, roles)) /\ Shape(MemberWrite(area, roles))
         /\ Shape(Keyed(MemberWrite(area, roles)))
         /\ Shape(Invalidating(MemberWrite(area, roles)))
         /\ Shape(Invalidating(Keyed(MemberWrite(area, roles))))
<1>1. Shape(MemberRead(area, roles)) /\ Shape(MemberWrite(area, roles))
  BY MemberShape DEF MemberRead, MemberWrite
<1>2. RouteRecord(MemberWrite(area, roles)) /\ MemberWrite(area, roles).kind = "write"
  BY DEF RouteRecord, MemberWrite, Route
<1>3. /\ RouteRecord(Keyed(MemberWrite(area, roles))) /\ Shape(Keyed(MemberWrite(area, roles)))
      /\ Keyed(MemberWrite(area, roles)).kind = "write"
      /\ Shape(Invalidating(MemberWrite(area, roles)))
  BY <1>1, <1>2, KeyedShape
<1> QED
  BY <1>1, <1>3, KeyedShape

\* Every route of the table has the shape.
LEMMA RouteShape ==
  ASSUME NEW r \in Routes
  PROVE  Shape(r)
<1>1. CASE r \in SalesRoutes \cup OperationsRoutes
  <2>1. /\ DocumentedRoles("sales") = AllRoles /\ DocumentedRoles("operations") = AllRoles
        /\ DocumentedRoles("thresholds") = {"OWNER", "ADMIN"}
        /\ DocumentedRoles("alerts") = AllRoles \ {"VIEWER"}
    BY DEF DocumentedRoles
  <2>2. {"OWNER", "ADMIN", "ANALYST"} = AllRoles \ {"VIEWER"}
    BY DEF AllRoles
  <2> QED
    BY <1>1, <2>1, <2>2, DeclaredShape DEF SalesRoutes, OperationsRoutes
<1>2. CASE r \in GovernanceRoutes \cup TeamRoutes \cup WebhookRoutes
  <2>1. /\ \A area \in {"governance", "invitations", "team", "webhooks"} :
             DocumentedRoles(area) = {"OWNER", "ADMIN"}
        /\ \A area \in {"settings", "jobs"} : DocumentedRoles(area) = {"OWNER"}
    BY DEF DocumentedRoles
  <2> QED
    BY <1>2, <2>1, DeclaredShape DEF GovernanceRoutes, TeamRoutes, WebhookRoutes
<1>3. CASE r \in DataRoutes \cup ImportRoutes
  <2>1. \A area \in {"ingestion", "imports"} :
          DocumentedRoles(area) = {"OWNER", "ADMIN", "ANALYST"}
    BY DEF DocumentedRoles, AllRoles
  <2> QED
    BY <1>3, <2>1, DeclaredShape DEF DataRoutes, ImportRoutes
<1>4. CASE r \in DeliveryRoutes
  <2> DEFINE d == Route("delivery", "write", Anyone, {}, FALSE, FALSE)
  <2>1. RouteRecord(d) /\ d.kind = "write"
    BY DEF RouteRecord, Route
  <2>2. Shape(d)
    BY OtherShape
  <2>3. r = Invalidating(Keyed(d))
    BY <1>4 DEF DeliveryRoutes
  <2> HIDE DEF d
  <2>4. RouteRecord(Keyed(d)) /\ Shape(Keyed(d)) /\ Keyed(d).kind = "write"
    BY <2>1, <2>2, KeyedShape
  <2> QED
    BY <2>3, <2>4, KeyedShape
<1>5. CASE r \in AuthRoutes \cup HealthRoutes \cup MetricsRoutes
  BY <1>5, OtherShape DEF AuthRoutes, HealthRoutes, MetricsRoutes
<1>6. CASE r \in ProfileRoutes \cup OrganizationRoutes \cup AcceptanceRoutes
  BY <1>6, OtherShape DEF ProfileRoutes, OrganizationRoutes, AcceptanceRoutes
<1> QED
  BY <1>1, <1>2, <1>3, <1>4, <1>5, <1>6 DEF Routes

\* Which guards each list names.
LEMMA GuardLists ==
  /\ {Anyone, SignedIn, Member, Monitor} \subseteq Seq(GuardNames)
  /\ \A g \in GuardNames : /\ ~Owes(<<>>, g) /\ ~Owes(Anyone, g)
                           /\ Owes(SignedIn, g) <=> g \in {"session", "csrf"}
                           /\ Owes(Member, g) <=> g \in {"session", "csrf", "role"}
                           /\ Owes(Monitor, g) <=> g = "monitor"
<1>1. {Anyone, SignedIn, Member, Monitor} \subseteq Seq(GuardNames)
  BY DEF Anyone, SignedIn, Member, Monitor, GuardNames
<1>2. \A g \in GuardNames : /\ ~Owes(<<>>, g) /\ ~Owes(Anyone, g)
  BY DEF Owes, Anyone
<1>3. \A g \in GuardNames : Owes(SignedIn, g) <=> g \in {"session", "csrf"}
  BY DEF Owes, SignedIn
<1>4. \A g \in GuardNames : Owes(Member, g) <=> g \in {"session", "csrf", "role"}
  BY DEF Owes, Member
<1>5. \A g \in GuardNames : Owes(Monitor, g) <=> g = "monitor"
  BY DEF Owes, Monitor
<1> QED
  BY <1>1, <1>2, <1>3, <1>4, <1>5

\* What is owed after a guard is what was owed before, but for that guard.
LEMMA OwesTail ==
  ASSUME NEW s \in Seq(GuardNames), s # <<>>, NEW g \in GuardNames
  PROVE  /\ Head(s) \in GuardNames /\ Tail(s) \in Seq(GuardNames)
         /\ Owes(s, Head(s))
         /\ Owes(Tail(s), g) => Owes(s, g)
         /\ Owes(s, g) => Owes(Tail(s), g) \/ g = Head(s)
<1>1. /\ Head(s) = s[1] /\ Head(s) \in GuardNames /\ Tail(s) \in Seq(GuardNames)
      /\ Len(s) \in Nat /\ Len(s) >= 1 /\ DOMAIN s = 1..Len(s)
      /\ DOMAIN Tail(s) = 1..(Len(s) - 1)
      /\ \A i \in 1..(Len(s) - 1) : Tail(s)[i] = s[i + 1]
  <2>1. Len(s) \in Nat \ {0} /\ DOMAIN s = 1..Len(s)
    BY LenProperties, EmptySeq
  <2>2. /\ Head(s) \in GuardNames /\ Tail(s) \in Seq(GuardNames)
        /\ Len(Tail(s)) = Len(s) - 1
        /\ \A i \in 1..Len(Tail(s)) : Tail(s)[i] = s[i + 1]
    BY HeadTailProperties
  <2>3. DOMAIN Tail(s) = 1..Len(Tail(s))
    BY <2>2, LenProperties
  <2>4. Head(s) = s[1]
    OBVIOUS
  <2> QED
    BY <2>1, <2>2, <2>3, <2>4
<1>2. Owes(s, Head(s))
  BY <1>1 DEF Owes
<1>3. Owes(Tail(s), g) => Owes(s, g)
  <2> SUFFICES ASSUME NEW i \in DOMAIN Tail(s), Tail(s)[i] = g
               PROVE  Owes(s, g)
    BY DEF Owes
  <2>1. i + 1 \in DOMAIN s /\ s[i + 1] = g
    BY <1>1
  <2> QED
    BY <2>1 DEF Owes
<1>4. Owes(s, g) => Owes(Tail(s), g) \/ g = Head(s)
  <2> SUFFICES ASSUME NEW i \in DOMAIN s, s[i] = g, g # Head(s)
               PROVE  Owes(Tail(s), g)
    BY DEF Owes
  <2>1. i - 1 \in DOMAIN Tail(s) /\ Tail(s)[i - 1] = g
    BY <1>1
  <2> QED
    BY <2>1 DEF Owes
<1> QED
  BY <1>1, <1>2, <1>3, <1>4

\* A new attempt owes the edge, the rate limit and the guards of its route.
LEMMA MadeOwes ==
  ASSUME NEW s \in Seq(GuardNames)
  PROVE  /\ <<"edge", "rate">> \o s \in Seq(GuardNames)
         /\ \A g \in GuardNames :
              Owes(<<"edge", "rate">> \o s, g) <=> g \in {"edge", "rate"} \/ Owes(s, g)
<1> DEFINE t == <<"edge", "rate">>
<1>1. t \in Seq(GuardNames) /\ Len(t) = 2 /\ t[1] = "edge" /\ t[2] = "rate"
  BY DEF GuardNames
<1>2. Len(s) \in Nat /\ DOMAIN s = 1..Len(s)
  BY LenProperties
<1> HIDE DEF t
<1>3. /\ t \o s \in Seq(GuardNames) /\ DOMAIN (t \o s) = 1..(2 + Len(s))
      /\ \A i \in 1..(2 + Len(s)) : (t \o s)[i] = IF i <= 2 THEN t[i] ELSE s[i - 2]
  <2>1. /\ t \o s \in Seq(GuardNames) /\ Len(t \o s) = Len(t) + Len(s)
        /\ \A i \in 1..(Len(t) + Len(s)) :
             (t \o s)[i] = IF i <= Len(t) THEN t[i] ELSE s[i - Len(t)]
    BY <1>1, ConcatProperties
  <2>2. DOMAIN (t \o s) = 1..Len(t \o s)
    BY <2>1, LenProperties
  <2> QED
    BY <1>1, <2>1, <2>2
<1>4. ASSUME NEW g \in GuardNames, Owes(t \o s, g)
      PROVE  g \in {"edge", "rate"} \/ Owes(s, g)
  <2>1. PICK i \in 1..(2 + Len(s)) : (t \o s)[i] = g
    BY <1>3, <1>4 DEF Owes
  <2>2. CASE i <= 2
    BY <1>1, <1>3, <2>1, <2>2
  <2>3. CASE ~(i <= 2)
    <3>1. i - 2 \in DOMAIN s /\ s[i - 2] = g
      BY <1>2, <1>3, <2>1, <2>3
    <3> QED
      BY <3>1 DEF Owes
  <2> QED
    BY <2>2, <2>3
<1>5. ASSUME NEW g \in GuardNames, Owes(s, g)
      PROVE  Owes(t \o s, g)
  <2>1. PICK i \in 1..Len(s) : s[i] = g
    BY <1>2, <1>5 DEF Owes
  <2>2. i + 2 \in DOMAIN (t \o s) /\ (t \o s)[i + 2] = g
    BY <1>2, <1>3, <2>1
  <2> QED
    BY <2>2 DEF Owes
<1>6. Owes(t \o s, "edge") /\ Owes(t \o s, "rate")
  <2>1. 1 \in DOMAIN (t \o s) /\ 2 \in DOMAIN (t \o s)
    BY <1>2, <1>3
  <2>2. (t \o s)[1] = "edge" /\ (t \o s)[2] = "rate"
    BY <1>1, <1>2, <1>3
  <2> QED
    BY <2>1, <2>2 DEF Owes
<1> QED
  BY <1>3, <1>4, <1>5, <1>6 DEF t

\* The edge comes first, then the rate limit, then the guards of the route.
LEMMA GuardOrder ==
  ASSUME NEW s \in Seq(GuardNames), ~Owes(s, "rate")
  PROVE  /\ <<"edge", "rate">> \o s # <<>> /\ <<"rate">> \o s # <<>>
         /\ Head(<<"edge", "rate">> \o s) = "edge"
         /\ Tail(<<"edge", "rate">> \o s) = <<"rate">> \o s
         /\ Head(<<"rate">> \o s) = "rate" /\ Tail(<<"rate">> \o s) = s
<1>1. <<"edge">> \o (<<"rate">> \o s) = <<"edge", "rate">> \o s
  <2> DEFINE e == <<"edge">>
             t == <<"rate">>
             u == <<"edge", "rate">>
  <2>1. /\ e \in Seq(GuardNames) /\ t \in Seq(GuardNames) /\ u \in Seq(GuardNames)
        /\ Len(e) = 1 /\ Len(t) = 1 /\ Len(u) = 2
        /\ e[1] = "edge" /\ t[1] = "rate" /\ u[1] = "edge" /\ u[2] = "rate"
    BY DEF GuardNames
  <2> HIDE DEF e, t, u
  <2>2. /\ e \o t \in Seq(GuardNames) /\ Len(e \o t) = 2
        /\ \A i \in 1..2 : (e \o t)[i] = IF i <= 1 THEN e[i] ELSE t[i - 1]
    BY <2>1, ConcatProperties
  <2>3. \A i \in 1..2 : (e \o t)[i] = u[i]
    BY <2>1, <2>2
  <2>4. e \o t = u
    BY <2>1, <2>2, <2>3, SeqEqual
  <2>5. (e \o t) \o s = e \o (t \o s)
    BY <2>1, ConcatAssociative
  <2> QED
    BY <2>4, <2>5 DEF e, t, u
<1>2. ASSUME NEW t \in Seq(GuardNames), NEW g \in GuardNames
      PROVE  <<g>> \o t # <<>> /\ Head(<<g>> \o t) = g /\ Tail(<<g>> \o t) = t
  <2> DEFINE u == <<g>> \o t
  <2>1. <<g>> \in Seq(GuardNames) /\ Len(<<g>>) = 1 /\ <<g>>[1] = g
    OBVIOUS
  <2>2. /\ u \in Seq(GuardNames) /\ Len(u) = 1 + Len(t)
        /\ \A i \in 1..(1 + Len(t)) : u[i] = IF i <= 1 THEN <<g>>[i] ELSE t[i - 1]
    BY <2>1, ConcatProperties
  <2>3. Len(t) \in Nat /\ DOMAIN t = 1..Len(t) /\ Len(<<>>) = 0
    BY LenProperties
  <2> HIDE DEF u
  <2>4. u # <<>> /\ u[1] = g
    BY <2>1, <2>2, <2>3
  <2>5. Head(u) = g
    BY <2>4
  <2>6. /\ Tail(u) \in Seq(GuardNames) /\ Len(Tail(u)) = Len(t)
        /\ \A i \in 1..Len(Tail(u)) : Tail(u)[i] = u[i + 1]
    BY <2>2, <2>3, <2>4, HeadTailProperties
  <2>7. \A i \in 1..Len(t) : Tail(u)[i] = t[i]
    BY <2>2, <2>3, <2>6
  <2>8. Tail(u) = t
    BY <2>6, <2>7, SeqEqual
  <2> QED
    BY <2>4, <2>5, <2>8 DEF u
<1>3. "edge" \in GuardNames /\ "rate" \in GuardNames /\ <<"rate">> \in Seq(GuardNames)
  BY DEF GuardNames
<1>4. <<"rate">> \o s \in Seq(GuardNames)
  BY <1>3, ConcatProperties
<1> QED
  BY <1>1, <1>2, <1>3, <1>4

\* An attempt that has not been made.
LEMMA NotMadeColumns ==
  /\ NotMade \in AttemptSet /\ NotMade.pc = "none" /\ NotMade.answer = Unanswered
  /\ ~NotMade.applied /\ ~NotMade.route.keyed
<1>1. \E r \in HealthRoutes : r.kind = "live"
  <2>1. Route("health", "live", Anyone, {}, FALSE, FALSE) \in HealthRoutes
    BY DEF HealthRoutes
  <2>2. Route("health", "live", Anyone, {}, FALSE, FALSE).kind = "live"
    BY DEF Route
  <2> QED
    BY <2>1, <2>2
<1>2. PICK r \in HealthRoutes : r = (CHOOSE q \in HealthRoutes : q.kind = "live")
                                /\ r.kind = "live"
  BY <1>1
<1>3. r \in Routes
  BY DEF Routes
<1>4. ~r.keyed
  BY DEF HealthRoutes, Route
<1>5. NotMade.route = r
  BY <1>2 DEF NotMade
<1>6. <<>> \in Seq(GuardNames)
  OBVIOUS
<1>7. NotMade \in AttemptSet
  BY <1>3, <1>5, <1>6 DEF NotMade, AttemptSet, Places, Answers, Unanswered
<1> QED
  BY <1>4, <1>5, <1>7 DEF NotMade

\* An attempt with other guards to pass.
LEMMA GuardsColumn ==
  ASSUME NEW a \in AttemptSet, NEW s \in Seq(GuardNames)
  PROVE  /\ LET b == [a EXCEPT !.guards = s] IN
            /\ b \in AttemptSet /\ b.pc = a.pc /\ b.route = a.route
            /\ b.carries = a.carries /\ b.guards = s /\ b.answer = a.answer
            /\ b.applied = a.applied /\ b.counted = a.counted
<1> QED
  BY DEF AttemptSet

\* An attempt that goes on.
LEMMA PlaceColumn ==
  ASSUME NEW a \in AttemptSet, NEW p \in Places
  PROVE  /\ LET b == [a EXCEPT !.pc = p] IN
            /\ b \in AttemptSet /\ b.pc = p /\ b.route = a.route
            /\ b.carries = a.carries /\ b.guards = a.guards /\ b.answer = a.answer
            /\ b.applied = a.applied /\ b.counted = a.counted
<1> QED
  BY DEF AttemptSet

\* An attempt that is answered where it is.
LEMMA AnswerColumn ==
  ASSUME NEW a \in AttemptSet, NEW w \in Answers
  PROVE  /\ LET b == [a EXCEPT !.answer = w] IN
            /\ b \in AttemptSet /\ b.pc = a.pc /\ b.route = a.route
            /\ b.carries = a.carries /\ b.guards = a.guards /\ b.answer = w
            /\ b.applied = a.applied /\ b.counted = a.counted
<1> QED
  BY DEF AttemptSet

\* An attempt with its work done or not.
LEMMA AppliedColumn ==
  ASSUME NEW a \in AttemptSet, NEW d \in BOOLEAN
  PROVE  /\ LET b == [a EXCEPT !.applied = d] IN
            /\ b \in AttemptSet /\ b.pc = a.pc /\ b.route = a.route
            /\ b.carries = a.carries /\ b.guards = a.guards /\ b.answer = a.answer
            /\ b.applied = d /\ b.counted = a.counted
<1> QED
  BY DEF AttemptSet

\* What is known of an attempt that has been made.
LEMMA MadeAttempt ==
  ASSUME RequestsInv, NEW n \in Tries, attempts[n].pc # "none"
  PROVE  /\ attempts[n] \in AttemptSet /\ AttemptOK(attempts[n], held[n])
         /\ MetOK(attempts[n], held[n], ~redis, roleNow, session)
         /\ held[n] \in HeldSet /\ Shape(attempts[n].route)
         /\ attempts[n].route.guards \in Seq(GuardNames)
         /\ ~Owes(attempts[n].route.guards, "rate")
<1>1. attempts[n] \in AttemptSet /\ held[n] \in HeldSet
  BY DEF RequestsInv, RequestsTypeOK
<1>2. Shape(attempts[n].route)
  BY <1>1, RouteShape DEF AttemptSet
<1>3. /\ attempts[n].route.guards \in Seq(GuardNames)
      /\ ~Owes(attempts[n].route.guards, "rate")
  <2>1. attempts[n].route.guards \in {Anyone, SignedIn, Member, Monitor}
    BY <1>2 DEF Shape
  <2>2. "rate" \in GuardNames
    BY DEF GuardNames
  <2> QED
    BY <2>1, <2>2, GuardLists
<1>4. /\ AttemptOK(attempts[n], held[n])
      /\ MetOK(attempts[n], held[n], ~redis, roleNow, session)
  BY NotMadeColumns DEF RequestsInv, AttemptsOK
<1> QED
  BY <1>1, <1>2, <1>3, <1>4

\* What has applied, or has an answer, has been made.
LEMMA NotMadeYet ==
  ASSUME RequestsInv, NEW n \in Tries,
         attempts[n].applied \/ attempts[n].answer # Unanswered
  PROVE  attempts[n].pc # "none"
<1> QED
  BY NotMadeColumns DEF RequestsInv, AttemptsOK

\* One attempt goes on: no answer is changed, no work undone, and work with a key is
\* done only where none was.
LEMMA MoveStep ==
  ASSUME RequestsInv, NEW n \in Tries, attempts[n].pc # "none", NEW b \in AttemptSet,
         attempts' = [attempts EXCEPT ![n] = b],
         UNCHANGED <<redis, roleNow, held>>, session' \in BOOLEAN, session' => session,
         lastReceived' \in {lastReceived, lastReceived \cup {n}},
         n \in lastReceived' =>
           Signed(b) /\ b.pc # "guards" /\ b.answer \notin Spurned,
         b.pc # "none", b.route = attempts[n].route,
         Running(b) => Running(attempts[n]),
         attempts[n].answer # Unanswered => b.answer = attempts[n].answer,
         attempts[n].applied => b.applied,
         AttemptOK(b, held[n]),
         b.applied /\ ~attempts[n].applied => ~ReplaysKey(n),
         \/ b.pc = "invalidate" /\ b.answer = Unanswered
         \/ b.answer = Done /\ b.route.kind = "write"
         => b.applied \/ \E m \in 1..n : attempts[m].applied
  PROVE  RequestsInv'
<1>1. attempts \in [Tries -> AttemptSet]
  BY DEF RequestsInv, RequestsTypeOK
<1>2. /\ attempts' \in [Tries -> AttemptSet] /\ attempts'[n] = b
      /\ \A k \in Tries : k # n => attempts'[k] = attempts[k]
  BY <1>1
<1>3. RequestsTypeOK'
  BY <1>2 DEF RequestsInv, RequestsTypeOK
<1>4. MetOK(attempts[n], held[n], ~redis, roleNow, session)
  BY MadeAttempt
<1>5. AttemptsOK'
  <2> SUFFICES ASSUME NEW k \in Tries
               PROVE  \/ attempts'[k] = NotMade
                      \/ /\ attempts'[k].pc # "none" /\ AttemptOK(attempts'[k], held[k])
                         /\ MetOK(attempts'[k], held[k], ~redis, roleNow, session')
    BY DEF AttemptsOK
  <2>1. CASE k = n
    BY <1>2, <1>4, <2>1 DEF MetOK
  <2>2. CASE k # n
    BY <1>2, <2>2 DEF RequestsInv, AttemptsOK, MetOK
  <2> QED
    BY <2>1, <2>2
<1>6. \A k \in Tries : attempts[k].answer \in Inconclusive => attempts'[k].answer = attempts[k].answer
  BY <1>2 DEF Inconclusive, Unanswered, Lost
<1>7. \A k \in Tries : /\ attempts'[k].route = attempts[k].route
                       /\ attempts'[k].pc # "none" => attempts[k].pc # "none"
                       /\ attempts[k].applied => attempts'[k].applied
  BY <1>2
<1>8. InOrder'
  BY <1>6, <1>7 DEF RequestsInv, InOrder
<1>9. WorkDone'
  <2> SUFFICES ASSUME NEW k \in Tries,
                      \/ attempts'[k].pc = "invalidate" /\ attempts'[k].answer = Unanswered
                      \/ attempts'[k].answer = Done /\ attempts'[k].route.kind = "write"
               PROVE  \E m \in 1..k : attempts'[m].applied
    BY DEF WorkDone
  <2>1. 1..k \subseteq Tries /\ k \in 1..k
    BY PipelineAssumption DEF Tries
  <2>2. CASE k = n /\ b.applied
    BY <1>2, <2>1, <2>2
  <2>3. CASE k = n /\ ~b.applied
    <3>1. PICK m \in 1..n : attempts[m].applied
      BY <1>2, <2>3
    <3> QED
      BY <1>7, <2>1, <2>3, <3>1
  <2>4. CASE k # n
    <3>1. attempts'[k] = attempts[k]
      BY <1>2, <2>4
    <3>2. PICK m \in 1..k : attempts[m].applied
      BY <3>1 DEF RequestsInv, WorkDone
    <3> QED
      BY <1>7, <2>1, <3>2
  <2> QED
    BY <2>2, <2>3, <2>4
<1>10. KeyedOnce'
  <2> SUFFICES ASSUME NEW k \in Tries, NEW m \in Tries, attempts'[k].applied,
                      attempts'[m].applied, attempts'[k].route.keyed
               PROVE  k = m
    BY DEF KeyedOnce
  <2>1. CASE attempts[k].applied /\ attempts[m].applied
    BY <1>7, <2>1 DEF RequestsInv, KeyedOnce
  <2>2. CASE ~attempts[k].applied
    <3>1. k = n /\ ~ReplaysKey(n)
      BY <1>2, <2>2
    <3>2. ~attempts[m].applied
      BY <1>7, <3>1 DEF ReplaysKey, Tries
    <3> QED
      BY <1>2, <3>1, <3>2
  <2>3. CASE ~attempts[m].applied /\ attempts[k].applied
    <3>1. m = n /\ ~ReplaysKey(n)
      BY <1>2, <2>3
    <3>2. ~attempts[n].route.keyed
      BY <2>3, <3>1 DEF ReplaysKey, Tries
    <3>3. attempts[k].pc # "none" /\ attempts[k].route.keyed
      BY <1>7, <2>3, NotMadeYet
    <3>4. attempts[k].route = attempts[n].route
      <4>1. k \in Int /\ n \in Int /\ (k = n \/ k < n \/ n < k)
        BY DEF Tries
      <4> QED
        BY <3>3, <4>1 DEF RequestsInv, InOrder
    <3> QED
      BY <3>2, <3>3, <3>4
  <2> QED
    BY <2>1, <2>2, <2>3
<1>11. ReceivedOK'
  <2> SUFFICES ASSUME NEW k \in Tries, k \in lastReceived'
               PROVE  /\ Signed(attempts'[k]) /\ attempts'[k].pc \notin {"none", "guards"}
                      /\ attempts'[k].answer \notin Spurned
    BY DEF ReceivedOK, Signed
  <2>1. CASE k = n
    BY <1>2, <2>1
  <2>2. CASE k # n
    BY <1>2, <2>2 DEF RequestsInv, ReceivedOK
  <2> QED
    BY <2>1, <2>2
<1> QED
  BY <1>3, <1>5, <1>8, <1>9, <1>10, <1>11 DEF RequestsInv

\* What left its time before is as it was.
LEMMA ReceivedStays ==
  ASSUME RequestsInv, NEW n \in Tries, UNCHANGED lastReceived
  PROVE  /\ lastReceived' \in {lastReceived, lastReceived \cup {n}}
         /\ n \in lastReceived' =>
              /\ Signed(attempts[n]) /\ attempts[n].pc \notin {"none", "guards"}
              /\ attempts[n].answer \notin Spurned
<1> QED
  BY DEF RequestsInv, ReceivedOK

\* The guard that lets an attempt on, or refuses it.
LEMMA GuardStep ==
  ASSUME RequestsInv, NEW n \in Tries, Guard(n)
  PROVE  RequestsInv'
<1> DEFINE a == attempts[n]
           h == held[n]
           g == Head(a.guards)
<1>1. /\ a.pc = "guards" /\ a.guards # <<>>
      /\ UNCHANGED <<redis, roleNow, lastReceived, held>>
      /\ session' = (session /\ (g = "session" /\ "cookie" \in a.carries /\ redis => account))
  BY DEF Guard
<1>2. PICK status \in Verdicts(a, g) :
        attempts' = [attempts EXCEPT ![n] =
          IF status = Done THEN [a EXCEPT !.guards = Tail(a.guards)]
                           ELSE [a EXCEPT !.pc = "over", !.answer = status]]
  BY DEF Guard
<1>3. /\ a \in AttemptSet /\ AttemptOK(a, h) /\ MetOK(a, h, ~redis, roleNow, session)
      /\ h \in HeldSet /\ Shape(a.route)
      /\ a.route.guards \in Seq(GuardNames) /\ ~Owes(a.route.guards, "rate")
  BY <1>1, MadeAttempt
<1>4. session' \in BOOLEAN /\ (session' => session) /\ redis \in BOOLEAN
  BY <1>1 DEF RequestsInv, RequestsTypeOK
<1>5. Running(a) /\ a.answer = Unanswered /\ ~a.applied /\ a.guards \in Seq(GuardNames)
  BY <1>1, <1>3 DEF Running, AttemptOK, ProgressOK, AttemptSet
<1>6. /\ g \in GuardNames /\ Tail(a.guards) \in Seq(GuardNames) /\ Owes(a.guards, g)
      /\ \A m \in GuardNames : /\ Owes(Tail(a.guards), m) => Owes(a.guards, m)
                               /\ Owes(a.guards, m) => Owes(Tail(a.guards), m) \/ m = g
  BY <1>1, <1>5, OwesTail
<1>9. lastReceived' \in {lastReceived, lastReceived \cup {n}} /\ n \notin lastReceived'
  BY <1>1, ReceivedStays
<1> HIDE DEF a, h, g
<1>7. CASE status = Done
  <2> DEFINE b == [a EXCEPT !.guards = Tail(a.guards)]
  <2>1. /\ b \in AttemptSet /\ b.pc = "guards" /\ b.guards = Tail(a.guards)
        /\ b.answer = Unanswered /\ ~b.applied /\ b.carries = a.carries
        /\ b.route = a.route
    BY <1>1, <1>3, <1>5, <1>6, GuardsColumn
  <2> HIDE DEF b
  <2>2. Owes(b.guards, "rate") => Outside(b)
    <3> SUFFICES ASSUME Owes(b.guards, "rate")
                 PROVE  b.guards = <<"rate">> \o b.route.guards
      BY DEF Outside
    <3>1. Owes(a.guards, "rate")
      BY <1>6, <2>1 DEF GuardNames
    <3>2. a.guards \in {<<"edge", "rate">> \o a.route.guards, <<"rate">> \o a.route.guards}
      BY <1>3, <3>1 DEF AttemptOK, ProgressOK, Outside
    <3>3. CASE a.guards = <<"edge", "rate">> \o a.route.guards
      BY <1>3, <2>1, <3>3, GuardOrder
    <3>4. CASE a.guards = <<"rate">> \o a.route.guards
      <4>1. b.guards = a.route.guards
        BY <1>3, <2>1, <3>4, GuardOrder
      <4> QED
        BY <1>3, <4>1
    <3> QED
      BY <3>2, <3>3, <3>4
  <2>3. ProgressOK(b)
    <3>1. ProgressOK(a)
      BY <1>3 DEF AttemptOK
    <3>2. \A m \in GuardNames :
            Owes(b.guards, m) => m \in {"edge", "rate"} \/ Owes(b.route.guards, m)
      BY <1>6, <2>1, <3>1 DEF ProgressOK
    <3> QED
      BY <2>1, <2>2, <3>2 DEF ProgressOK, Unanswered, Done
  <2>4. PassedOK(b, h)
    <3>1. /\ PassedOK(a, h) /\ roleNow \in h.roles /\ (h.outage => ~redis)
          /\ session => h.session
      BY <1>3, <1>5 DEF AttemptOK, MetOK
    <3>2. ~Owes(b.guards, "rate") /\ ~IsExempt(b.route) => ~h.outage
      <4>1. g = "rate" /\ ~IsExempt(a.route) => redis
        BY <1>2, <1>7 DEF Verdicts, Enforce, Done
      <4> QED
        BY <1>6, <2>1, <3>1, <4>1 DEF PassedOK, GuardNames
    <3>3. Owes(b.route.guards, "session") /\ ~Owes(b.guards, "session") =>
            h.session /\ "cookie" \in b.carries
      <4>1. g = "session" => session /\ "cookie" \in a.carries
        BY <1>2, <1>7 DEF Verdicts, Authenticate, Done
      <4> QED
        BY <1>6, <2>1, <3>1, <4>1 DEF PassedOK, GuardNames
    <3>4. Owes(b.route.guards, "csrf") /\ ~Owes(b.guards, "csrf")
            /\ b.route.kind \notin SafeKinds => {"origin", "token"} \subseteq b.carries
      <4>1. g = "csrf" /\ a.route.kind \notin SafeKinds => {"origin", "token"} \subseteq a.carries
        BY <1>2, <1>7 DEF Verdicts, CsrfVerdict, Done
      <4> QED
        BY <1>6, <2>1, <3>1, <4>1 DEF PassedOK, GuardNames
    <3>5. Owes(b.route.guards, "role") /\ ~Owes(b.guards, "role") =>
            h.roles \cap b.route.roles # {}
      <4>1. g = "role" => roleNow \in a.route.roles
        BY <1>2, <1>7 DEF Verdicts, RoleVerdict, Done
      <4> QED
        BY <1>6, <2>1, <3>1, <4>1 DEF PassedOK, GuardNames
    <3> QED
      BY <2>1, <3>2, <3>3, <3>4, <3>5 DEF PassedOK
  <2>5. OutageOK(b, h)
    BY <2>1 DEF OutageOK
  <2>6. attempts' = [attempts EXCEPT ![n] = b] /\ Running(a)
    BY <1>2, <1>5, <1>7 DEF b
  <2> QED
    <3>1. /\ b.pc # "invalidate" /\ b.answer # Done /\ b.pc # "none"
          /\ AttemptOK(b, h) /\ a.pc # "none"
      BY <1>1, <2>1, <2>3, <2>4, <2>5 DEF AttemptOK, Done, Unanswered
    <3> QED
      BY <1>1, <1>4, <1>5, <1>9, <2>1, <2>6, <3>1, MoveStep DEF a, h
<1>8. CASE status # Done
  <2> DEFINE b == [a EXCEPT !.pc = "over", !.answer = status]
  <2>1. /\ status \in {400, 404, 429, 503, 401, 500, 403}
        /\ g = "edge" => status = 404 /\ ~IsHealth(a.route)
        /\ g = "rate" => ~IsExempt(a.route) /\ (redis \/ status = 503)
    BY <1>2, <1>6, <1>8
    DEF Verdicts, AcceptsEdgeRequest, Enforce, Authenticate, CsrfVerdict, RoleVerdict,
        MonitorVerdict, GuardNames, Done
  <2>2. status \in Refusals \cup {500}
    BY <2>1 DEF Refusals
  <2>3. /\ b \in AttemptSet /\ b.pc = "over" /\ b.guards = a.guards
        /\ b.answer = status /\ ~b.applied /\ b.carries = a.carries
        /\ b.route = a.route
    <3>1. "over" \in Places /\ status \in Answers
      BY <2>2 DEF Places, Answers
    <3> QED
      <4>1. a \in AttemptSet
        BY <1>3
      <4>2. LET d == [a EXCEPT !.pc = "over", !.answer = status] IN
              /\ d \in AttemptSet /\ d.pc = "over" /\ d.route = a.route
              /\ d.carries = a.carries /\ d.guards = a.guards /\ d.answer = status
              /\ d.applied = a.applied
        BY <3>1, <4>1 DEF AttemptSet
      <4> QED
        BY <1>5, <4>2
  <2> HIDE DEF b
  <2>4. ProgressOK(b)
    <3>1. Outside(a) => Outside(b)
      BY <2>3 DEF Outside
    <3>2. b.answer # Done /\ ~b.applied
      BY <1>8, <2>3
    <3> QED
      BY <1>3, <2>3, <3>1, <3>2 DEF AttemptOK, ProgressOK
  <2>5. PassedOK(b, h)
    BY <1>3, <2>3 DEF AttemptOK, PassedOK
  <2>6. OutageOK(b, h)
    <3>1. a.route.kind \notin {"live", "ready"}
      <4> SUFFICES ASSUME a.route.kind \in {"live", "ready"}
                   PROVE  FALSE
        OBVIOUS
      <4>1. IsHealth(a.route) /\ IsExempt(a.route) /\ a.route.guards = Anyone
        BY <1>3 DEF Shape, IsHealth, IsExempt
      <4>2. g \in {"edge", "rate"}
        BY <1>3, <1>6, <4>1, GuardLists DEF AttemptOK, ProgressOK
      <4> QED
        BY <2>1, <4>1, <4>2
    <3>2. ~IsExempt(a.route) /\ h.outage => status \in {503, 404}
      <4> SUFFICES ASSUME ~IsExempt(a.route), h.outage
                   PROVE  status \in {503, 404}
        OBVIOUS
      <4>1. Owes(a.guards, "rate") /\ ~redis
        BY <1>3, <1>5 DEF AttemptOK, PassedOK, MetOK
      <4>2. a.guards \in {<<"edge", "rate">> \o a.route.guards, <<"rate">> \o a.route.guards}
        BY <1>3, <4>1 DEF AttemptOK, ProgressOK, Outside
      <4>3. g \in {"edge", "rate"}
        BY <1>3, <4>2, GuardOrder DEF g
      <4> QED
        BY <2>1, <4>1, <4>3
    <3> QED
      BY <2>3, <3>1, <3>2 DEF OutageOK
  <2>7. attempts' = [attempts EXCEPT ![n] = b]
    BY <1>2, <1>8 DEF b
  <2>8. Running(a) /\ ~Running(b) /\ b.answer # Done
    BY <1>5, <1>8, <2>3 DEF Running
  <2> QED
    <3>1. /\ b.pc # "invalidate" /\ b.pc # "none" /\ AttemptOK(b, h) /\ a.pc # "none"
      BY <1>1, <2>3, <2>4, <2>5, <2>6 DEF AttemptOK
    <3> QED
      BY <1>1, <1>4, <1>5, <1>9, <2>3, <2>7, <2>8, <3>1, MoveStep DEF a, h
<1> QED
  BY <1>7, <1>8

\* What must be so of an attempt for an answer of its handler to be in order.
MayAnswer(a, h, status) ==
  /\ a \in AttemptSet /\ a.guards = <<>> /\ a.answer \in {Unanswered, 408}
  /\ a.applied => a.route.kind \in {"write", "leave"}
  /\ PassedOK(a, h) /\ OutageOK(a, h)
  /\ status \in {Done, 500} \cup Refusals
  /\ status \in Refusals => ~a.applied
  /\ a.route.kind = "live" => status = Done
  /\ a.route.kind = "ready" /\ h.outage => status = 503

\* An attempt that is answered so is in order.
LEMMA AnsweredOK ==
  ASSUME NEW a, NEW h, NEW status, MayAnswer(a, h, status)
  PROVE  /\ Answered(a, status) \in AttemptSet /\ AttemptOK(Answered(a, status), h)
         /\ Answered(a, status).pc = "over" /\ Answered(a, status).route = a.route
         /\ Answered(a, status).applied = a.applied
         /\ Answered(a, status).carries = a.carries
         /\ Answered(a, status).answer = IF a.answer = Unanswered THEN status ELSE a.answer
<1> DEFINE b == Answered(a, status)
<1>1. /\ a \in AttemptSet /\ a.guards = <<>> /\ a.answer \in {Unanswered, 408}
      /\ status \in {Done, 500} \cup Refusals
  BY DEF MayAnswer
<1>2. /\ b \in AttemptSet /\ b.pc = "over" /\ b.route = a.route /\ b.applied = a.applied
      /\ b.answer = (IF a.answer = Unanswered THEN status ELSE a.answer)
      /\ b.guards = <<>> /\ b.carries = a.carries
      /\ a.answer = Unanswered => b.counted
  <2>1. "over" \in Places /\ status \in Answers
    BY <1>1 DEF Places, Answers
  <2> QED
    <3>1. LET d == [a EXCEPT !.pc = "over", !.answer = status, !.counted = TRUE] IN
            /\ d \in AttemptSet /\ d.pc = "over" /\ d.route = a.route
            /\ d.carries = a.carries /\ d.guards = a.guards /\ d.answer = status
            /\ d.applied = a.applied /\ d.counted
      BY <1>1, <2>1 DEF AttemptSet
    <3>2. LET d == [a EXCEPT !.pc = "over"] IN
            /\ d \in AttemptSet /\ d.pc = "over" /\ d.route = a.route
            /\ d.carries = a.carries /\ d.guards = a.guards /\ d.answer = a.answer
            /\ d.applied = a.applied
      BY <1>1, <2>1 DEF AttemptSet
    <3> QED
      BY <1>1, <3>1, <3>2 DEF Answered
<1> HIDE DEF b
<1>3. b.answer \in {status, 408} /\ (b.answer # 408 => b.counted)
  BY <1>1, <1>2
<1>4. ProgressOK(b)
  <2>1. \A g \in GuardNames : ~Owes(b.guards, g)
    BY <1>2, GuardLists
  <2>2. "rate" \in GuardNames
    BY DEF GuardNames
  <2>3. 408 \notin Refusals
    BY DEF Refusals, Declined
  <2> QED
    BY <1>2, <1>3, <2>1, <2>2, <2>3 DEF ProgressOK, MayAnswer
<1>5. PassedOK(b, h)
  BY <1>1, <1>2 DEF MayAnswer, PassedOK, Signed
<1>6. OutageOK(b, h)
  <2>1. ~IsExempt(a.route) => ~h.outage
    BY <1>1, GuardLists DEF MayAnswer, PassedOK, GuardNames
  <2> QED
    BY <1>2, <1>3, <2>1 DEF OutageOK, MayAnswer
<1> QED
  BY <1>2, <1>4, <1>5, <1>6 DEF AttemptOK, b

\* An attempt is over with the answer of its work, which left it as `c`.
AnswersFrom(n, c, status) ==
  /\ attempts[n].pc \in {"guards", "handler", "invalidate"}
  /\ MayAnswer(c, held[n], status)
  /\ c.route = attempts[n].route /\ c.answer = attempts[n].answer
  /\ attempts[n].applied => c.applied
  /\ c.applied /\ ~attempts[n].applied => ~ReplaysKey(n)
  /\ attempts' = [attempts EXCEPT ![n] = Answered(c, status)]
  /\ UNCHANGED <<redis, roleNow, held>>
  /\ lastReceived' \in {lastReceived, lastReceived \cup {n}}
  /\ n \in lastReceived' => Signed(c) /\ status \notin Spurned
  /\ session' \in BOOLEAN /\ (session' => session)
  /\ status = Done /\ attempts[n].answer = Unanswered /\ c.route.kind = "write" =>
       c.applied \/ \E m \in 1..n : attempts[m].applied

\* The answer of a handler preserves the invariant.
LEMMA AnswerStep ==
  ASSUME RequestsInv, NEW n \in Tries, NEW c, NEW status, AnswersFrom(n, c, status)
  PROVE  RequestsInv'
<1> DEFINE b == Answered(c, status)
<1>1. /\ b \in AttemptSet /\ AttemptOK(b, held[n]) /\ b.pc = "over" /\ b.route = c.route
      /\ b.applied = c.applied
      /\ b.answer = IF c.answer = Unanswered THEN status ELSE c.answer
      /\ b.carries = c.carries
  BY AnsweredOK DEF AnswersFrom
<1>2. c.answer \in {Unanswered, 408}
  BY DEF AnswersFrom, MayAnswer
<1>3. attempts' = [attempts EXCEPT ![n] = b] /\ attempts[n].pc # "none"
  BY DEF AnswersFrom
<1> HIDE DEF b
<1>4. /\ ~Running(b) /\ b.pc # "none" /\ b.pc # "invalidate"
      /\ attempts[n].answer # Unanswered => b.answer = attempts[n].answer
      /\ b.answer = Done => status = Done /\ attempts[n].answer = Unanswered
  BY <1>1, <1>2 DEF AnswersFrom, Running, Done
<1>5. n \in lastReceived' => Signed(b) /\ b.pc # "guards" /\ b.answer \notin Spurned
  BY <1>1, <1>2 DEF AnswersFrom, Signed, Spurned
<1> QED
  BY <1>1, <1>3, <1>4, <1>5, MoveStep DEF AnswersFrom

\* What is known of an attempt past its guards.
LEMMA PastGuards ==
  ASSUME RequestsInv, NEW n \in Tries, attempts[n].pc # "none",
         attempts[n].guards = <<>>, Running(attempts[n])
  PROVE  LET a == attempts[n] IN
         /\ a \in AttemptSet /\ a.answer \in {Unanswered, 408} /\ Shape(a.route)
         /\ ~IsExempt(a.route) => ~held[n].outage
         /\ held[n].outage => ~redis
         /\ a.applied => a.pc = "invalidate"
         /\ a.pc = "guards" => a.answer = Unanswered
         /\ a.pc = "invalidate" => a.route.kind = "write"
         /\ ProgressOK(a) /\ PassedOK(a, held[n]) /\ OutageOK(a, held[n])
<1> DEFINE a == attempts[n]
<1>1. /\ a \in AttemptSet /\ AttemptOK(a, held[n]) /\ Shape(a.route)
      /\ MetOK(a, held[n], ~redis, roleNow, session)
  BY MadeAttempt
<1>2. ProgressOK(a) /\ PassedOK(a, held[n]) /\ OutageOK(a, held[n])
  BY <1>1 DEF AttemptOK
<1>3. ~Owes(a.guards, "rate")
  BY GuardLists DEF GuardNames
<1>4. held[n].outage => ~redis
  BY <1>1 DEF MetOK
<1>5. ~IsExempt(a.route) => ~held[n].outage
  BY <1>2, <1>3 DEF PassedOK
<1>6. /\ a.answer \in {Unanswered, 408} /\ (a.applied => a.pc = "invalidate")
      /\ a.pc = "guards" => a.answer = Unanswered
      /\ a.pc = "invalidate" => a.route.kind = "write"
  BY <1>2 DEF ProgressOK, Running
<1> QED
  BY <1>1, <1>2, <1>4, <1>5, <1>6

\* A handler, or the parsing before it, answers without work done.
PlainlyAnswers(n, status) ==
  /\ attempts[n].pc \in {"guards", "handler"} /\ attempts[n].guards = <<>>
  /\ \/ attempts[n].pc = "handler"
     \/ attempts[n].route.kind = "write"
  /\ status \in {Done, 500} \cup Refusals
  /\ attempts' = [attempts EXCEPT ![n] = Answered(attempts[n], status)]
  /\ UNCHANGED <<redis, roleNow, held>>
  /\ lastReceived' \in {lastReceived, lastReceived \cup {n}}
  /\ n \in lastReceived' => Signed(attempts[n]) /\ status \notin Spurned
  /\ session' \in BOOLEAN /\ (session' => session)
  /\ attempts[n].route.kind = "live" => status = Done
  /\ attempts[n].route.kind = "ready" /\ held[n].outage => status = 503
  /\ attempts[n].route.kind = "write" => status # Done

\* Such an answer preserves the invariant.
LEMMA PlainAnswer ==
  ASSUME RequestsInv, NEW n \in Tries, NEW status, PlainlyAnswers(n, status)
  PROVE  RequestsInv'
<1>1. attempts[n].pc # "none" /\ Running(attempts[n]) /\ attempts[n].guards = <<>>
  BY DEF PlainlyAnswers, Running
<1>2. MayAnswer(attempts[n], held[n], status)
  BY <1>1, PastGuards DEF PlainlyAnswers, MayAnswer
<1>3. AnswersFrom(n, attempts[n], status)
  BY <1>2 DEF PlainlyAnswers, AnswersFrom
<1> QED
  BY <1>3, AnswerStep

\* Past its guards the request is refused as it is, or handled.
LEMMA ParseStep ==
  ASSUME RequestsInv, NEW n \in Tries, Parse(n)
  PROVE  RequestsInv'
<1> DEFINE a == attempts[n]
<1>1. /\ a.pc = "guards" /\ a.guards = <<>>
      /\ UNCHANGED <<redis, session, roleNow, lastReceived, held>>
      /\ attempts' = [attempts EXCEPT ![n] =
           IF Malformed(a) THEN Answered(a, 400) ELSE [a EXCEPT !.pc = "handler"]]
  BY DEF Parse
<1>2. session' \in BOOLEAN /\ (session' => session)
  BY <1>1 DEF RequestsInv, RequestsTypeOK
<1>3. Running(a) /\ a.pc # "none"
  BY <1>1 DEF Running
<1>4. /\ a \in AttemptSet /\ a.answer = Unanswered /\ Shape(a.route) /\ ~a.applied
      /\ ~IsExempt(a.route) => ~held[n].outage
      /\ ProgressOK(a) /\ PassedOK(a, held[n]) /\ OutageOK(a, held[n])
  BY <1>1, <1>3, PastGuards
<1>5. lastReceived' \in {lastReceived, lastReceived \cup {n}} /\ n \notin lastReceived'
  BY <1>1, ReceivedStays
<1>6. CASE Malformed(a)
  <2>1. a.route.kind = "write"
    BY <1>4, <1>6 DEF Malformed, Shape
  <2>2. attempts' = [attempts EXCEPT ![n] = Answered(a, 400)]
    BY <1>1, <1>6
  <2>3. 400 \in {Done, 500} \cup Refusals /\ 400 # Done
    BY DEF Refusals, Done
  <2>4. PlainlyAnswers(n, 400)
    <3> HIDE DEF a
    <3> QED
      BY <1>1, <1>2, <1>5, <2>1, <2>2, <2>3 DEF PlainlyAnswers, a
  <2> QED
    BY <2>4, PlainAnswer
<1>7. CASE ~Malformed(a)
  <2> DEFINE b == [a EXCEPT !.pc = "handler"]
  <2>1. attempts' = [attempts EXCEPT ![n] = b]
    BY <1>1, <1>7
  <2>2. /\ b \in AttemptSet /\ b.pc = "handler" /\ b.route = a.route
        /\ b.carries = a.carries /\ b.guards = a.guards /\ b.answer = a.answer
        /\ b.applied = a.applied
    BY <1>4, PlaceColumn DEF Places
  <2> HIDE DEF b
  <2>3. ProgressOK(b)
    <3>1. Outside(a) => Outside(b)
      BY <2>2 DEF Outside
    <3> QED
      BY <1>1, <1>4, <2>2, <3>1 DEF ProgressOK
  <2>4. PassedOK(b, held[n])
    BY <1>4, <2>2 DEF PassedOK
  <2>5. OutageOK(b, held[n])
    BY <1>4, <2>2 DEF OutageOK
  <2>6. /\ AttemptOK(b, held[n]) /\ b.pc # "none" /\ b.pc # "invalidate"
        /\ b.answer # Done
    BY <1>4, <2>2, <2>3, <2>4, <2>5 DEF AttemptOK, Done, Unanswered
  <2> HIDE DEF a
  <2> QED
    BY <1>1, <1>2, <1>3, <1>4, <1>5, <2>1, <2>2, <2>6, MoveStep DEF a
<1> QED
  BY <1>6, <1>7

\* A request in its handler has passed its guards.
LEMMA InHandler ==
  ASSUME RequestsInv, NEW n \in Tries, attempts[n].pc = "handler"
  PROVE  /\ attempts[n] \in AttemptSet /\ attempts[n].guards = <<>>
         /\ Shape(attempts[n].route) /\ AttemptOK(attempts[n], held[n])
<1>1. attempts[n] \in AttemptSet /\ AttemptOK(attempts[n], held[n]) /\ Shape(attempts[n].route)
  BY MadeAttempt
<1> QED
  BY <1>1 DEF AttemptOK, ProgressOK

\* A signature holds and the time is noted, or the delivery is refused.
LEMMA VerifyStep ==
  ASSUME RequestsInv, NEW n \in Tries, Verify(n)
  PROVE  RequestsInv'
<1> DEFINE a == attempts[n]
<1>1. /\ a.pc = "handler" /\ a.route.area = "delivery" /\ n \notin lastReceived
      /\ UNCHANGED <<redis, session, roleNow, held>>
  BY DEF Verify
<1>2. session' \in BOOLEAN /\ (session' => session)
  BY <1>1 DEF RequestsInv, RequestsTypeOK
<1>3. /\ a \in AttemptSet /\ a.guards = <<>> /\ a.route.kind = "write"
      /\ AttemptOK(a, held[n])
  BY <1>1, InHandler DEF Shape
<1>4. CASE "signature" \in a.carries
  <2>1. lastReceived' = lastReceived \cup {n} /\ attempts' = attempts
    BY <1>4 DEF Verify
  <2>2. a.answer \in {Unanswered, 408}
    BY <1>1, <1>3 DEF AttemptOK, ProgressOK
  <2>3. ReceivedOK'
    <3> SUFFICES ASSUME NEW k \in Tries, k \in lastReceived'
                 PROVE  /\ Signed(attempts[k]) /\ attempts[k].pc \notin {"none", "guards"}
                        /\ attempts[k].answer \notin Spurned
      BY <2>1 DEF ReceivedOK, Signed
    <3>1. CASE k = n
      BY <1>1, <1>4, <2>2, <3>1 DEF Signed, Spurned, Unanswered
    <3>2. CASE k # n
      BY <2>1, <3>2 DEF RequestsInv, ReceivedOK
    <3> QED
      BY <3>1, <3>2
  <2> QED
    BY <1>1, <2>1, <2>3
    DEF RequestsInv, RequestsTypeOK, AttemptsOK, InOrder, WorkDone, KeyedOnce
<1>5. CASE "signature" \notin a.carries
  <2>1. PICK status \in {400, 401} :
          attempts' = [attempts EXCEPT ![n] = Answered(a, status)]
    BY <1>5 DEF Verify
  <2>2. UNCHANGED lastReceived
    BY <1>5 DEF Verify
  <2>3. lastReceived' \in {lastReceived, lastReceived \cup {n}} /\ n \notin lastReceived'
    BY <1>1, <2>2
  <2>4. status \in {Done, 500} \cup Refusals /\ status # Done
    BY DEF Refusals, Done
  <2>5. PlainlyAnswers(n, status)
    <3> HIDE DEF a
    <3> QED
      BY <1>1, <1>2, <1>3, <2>1, <2>3, <2>4 DEF PlainlyAnswers, a
  <2> QED
    BY <2>5, PlainAnswer
<1> QED
  BY <1>4, <1>5

\* The order of a verified delivery is refused.
LEMMA RefuseOrderStep ==
  ASSUME RequestsInv, NEW n \in Tries, RefuseOrder(n)
  PROVE  RequestsInv'
<1> DEFINE a == attempts[n]
<1>1. /\ a.pc = "handler" /\ n \in lastReceived
      /\ UNCHANGED <<redis, session, roleNow, lastReceived, held>>
      /\ attempts' = [attempts EXCEPT ![n] = Answered(a, 400)]
  BY DEF RefuseOrder
<1>2. session' \in BOOLEAN /\ (session' => session)
  BY <1>1 DEF RequestsInv, RequestsTypeOK
<1>3. /\ lastReceived' \in {lastReceived, lastReceived \cup {n}} /\ Signed(a)
  BY <1>1, ReceivedStays
<1>4. a.guards = <<>> /\ a.route.kind = "write"
  BY <1>1, <1>3, InHandler DEF Shape, Signed
<1>5. 400 \in {Done, 500} \cup Refusals /\ 400 # Done /\ 400 \notin Spurned
  BY DEF Refusals, Done, Spurned
<1>6. PlainlyAnswers(n, 400)
  <2> HIDE DEF a
  <2> QED
    BY <1>1, <1>2, <1>3, <1>4, <1>5 DEF PlainlyAnswers, a
<1> QED
  BY <1>6, PlainAnswer

\* A read answers as Redis and the database let it.
LEMMA HandleReadStep ==
  ASSUME RequestsInv, NEW n \in Tries, HandleRead(n)
  PROVE  RequestsInv'
<1> DEFINE a == attempts[n]
<1>1. /\ a.pc = "handler" /\ a.route.kind \in SafeKinds
      /\ UNCHANGED <<redis, roleNow, lastReceived, held>>
      /\ session' = (session /\ (a.route.kind = "whoami" /\ "cookie" \in a.carries /\ redis
                                   => account))
  BY DEF HandleRead
<1>2. PICK status \in
        CASE a.route.kind = "live"   -> {Done}
          [] a.route.kind = "ready"  -> IF redis THEN {Done, 503} ELSE {503}
          [] a.route.kind = "whoami" ->
               IF "cookie" \notin a.carries \/ redis THEN {Done, 500, 503} ELSE {503}
          [] a.route.kind = "read"   ->
               IF a.route.area = "metrics" THEN {Done} ELSE {Done, Declined, 500, 503} :
        attempts' = [attempts EXCEPT ![n] = Answered(a, status)]
  BY DEF HandleRead
<1>3. session' \in BOOLEAN /\ (session' => session)
  BY <1>1 DEF RequestsInv, RequestsTypeOK
<1>4. Running(a) /\ a.pc # "none" /\ a.guards = <<>>
  <2>1. AttemptOK(a, held[n])
    BY <1>1, MadeAttempt
  <2> QED
    BY <1>1, <2>1 DEF Running, AttemptOK, ProgressOK
<1>5. held[n].outage => ~redis
  BY <1>4, PastGuards
<1>6. /\ status \in {Done, 500} \cup Refusals
      /\ a.route.kind = "live" => status = Done
      /\ a.route.kind = "ready" /\ ~redis => status = 503
  BY <1>1, <1>2 DEF SafeKinds, Refusals
<1>8. /\ lastReceived' \in {lastReceived, lastReceived \cup {n}}
      /\ n \in lastReceived' => Signed(a) /\ status \notin Spurned
  <2>1. status \notin Spurned
    BY <1>1, <1>2 DEF SafeKinds, Spurned, Done, Declined
  <2> QED
    BY <1>1, <2>1, ReceivedStays
<1>7. PlainlyAnswers(n, status)
  BY <1>1, <1>2, <1>3, <1>4, <1>5, <1>6, <1>8 DEF PlainlyAnswers, SafeKinds
<1> QED
  BY <1>7, PlainAnswer

\* A write is declined as it is.
LEMMA DeclineStep ==
  ASSUME RequestsInv, NEW n \in Tries, DeclineWrite(n)
  PROVE  RequestsInv'
<1> DEFINE a == attempts[n]
<1>1. /\ a.pc = "handler" /\ a.route.kind = "write"
      /\ UNCHANGED <<redis, session, roleNow, lastReceived, held>>
  BY DEF DeclineWrite
<1>2. PICK status \in {500, 503} \cup (IF AtWork(n) THEN {Declined} ELSE {}) :
        attempts' = [attempts EXCEPT ![n] = Answered(a, status)]
  BY DEF DeclineWrite
<1>3. session' \in BOOLEAN /\ (session' => session)
  BY <1>1 DEF RequestsInv, RequestsTypeOK
<1>4. a.guards = <<>>
  <2>1. AttemptOK(a, held[n])
    BY <1>1, MadeAttempt
  <2> QED
    BY <1>1, <2>1 DEF AttemptOK, ProgressOK
<1>5. status \in {Done, 500} \cup Refusals /\ status # Done /\ status \notin Spurned
  <2>1. status \in {Declined, 500, 503}
    BY <1>2
  <2> QED
    BY <2>1 DEF Refusals, Done, Declined, Spurned
<1>7. /\ lastReceived' \in {lastReceived, lastReceived \cup {n}}
      /\ n \in lastReceived' => Signed(a)
  BY <1>1, ReceivedStays
<1>6. PlainlyAnswers(n, status)
  BY <1>1, <1>2, <1>3, <1>4, <1>5, <1>7 DEF PlainlyAnswers
<1> QED
  BY <1>6, PlainAnswer

\* An attempt whose transaction has committed.
Worked(n) == [attempts[n] EXCEPT !.applied = ~ReplaysKey(n)]

\* Committed work is done by this attempt or, for a key that is used, by one before it.
LEMMA WorkedOK ==
  ASSUME RequestsInv, NEW n \in Tries, AtWork(n)
  PROVE  /\ Worked(n) \in AttemptSet /\ Worked(n).pc = "handler"
         /\ Worked(n).route = attempts[n].route /\ Worked(n).carries = attempts[n].carries
         /\ Worked(n).guards = <<>> /\ Worked(n).answer = attempts[n].answer
         /\ Worked(n).answer \in {Unanswered, 408}
         /\ Worked(n).applied <=> ~ReplaysKey(n)
         /\ ~attempts[n].applied
         /\ Worked(n).route.area = "delivery" => Signed(Worked(n))
         /\ PassedOK(Worked(n), held[n]) /\ OutageOK(Worked(n), held[n])
         /\ MayAnswer(Worked(n), held[n], Done) /\ MayAnswer(Worked(n), held[n], 500)
         /\ attempts[n].answer = Unanswered =>
              Worked(n).applied \/ \E m \in 1..n : attempts[m].applied
<1> DEFINE a == attempts[n]
           c == Worked(n)
           h == held[n]
<1>0. a.pc = "handler" /\ a.route.kind = "write" /\ (a.route.area = "delivery" => Signed(a))
  BY DEF AtWork, RequestsInv, ReceivedOK
<1>1. AttemptOK(a, h)
  BY <1>0, MadeAttempt
<1>2. a.guards = <<>> /\ a.pc # "none" /\ Running(a) /\ ~a.applied
  BY <1>0, <1>1 DEF AttemptOK, ProgressOK, Running
<1>3. /\ a \in AttemptSet /\ a.answer \in {Unanswered, 408}
      /\ PassedOK(a, h) /\ OutageOK(a, h)
  BY <1>2, PastGuards
<1>4. ReplaysKey(n) \in BOOLEAN
  <2>1. attempts[n].route.keyed \in BOOLEAN
    BY <1>2, MadeAttempt DEF Shape
  <2> QED
    BY <2>1 DEF ReplaysKey
<1>5. /\ c \in AttemptSet /\ c.pc = a.pc /\ c.route = a.route /\ c.carries = a.carries
      /\ c.guards = a.guards /\ c.answer = a.answer /\ c.applied = ~ReplaysKey(n)
  <2> DEFINE d == ~ReplaysKey(n)
  <2>1. d \in BOOLEAN
    BY <1>4
  <2>2. c = [a EXCEPT !.applied = d]
    BY DEF Worked
  <2> HIDE DEF a, c, d
  <2>3. /\ c \in AttemptSet /\ c.pc = a.pc /\ c.route = a.route /\ c.carries = a.carries
        /\ c.guards = a.guards /\ c.answer = a.answer /\ c.applied = d
    BY <1>3, <2>1, <2>2, AppliedColumn
  <2> QED
    BY <2>3 DEF d
<1>9. c.route.area = "delivery" => Signed(c)
  <2> HIDE DEF a, c
  <2> QED
    BY <1>0, <1>5 DEF Signed
<1>6. PassedOK(c, h) /\ OutageOK(c, h)
  <2>1. c.route.area = "delivery" => Signed(c)
    BY <1>9
  <2> HIDE DEF a, c, h
  <2> QED
    BY <1>3, <1>5, <2>1 DEF PassedOK, OutageOK
<1>7. MayAnswer(c, h, Done) /\ MayAnswer(c, h, 500)
  <2>1. c.route.kind = "write"
    BY <1>0, <1>5
  <2>2. Done \notin Refusals /\ 500 \notin Refusals
    BY DEF Refusals, Done, Declined
  <2> HIDE DEF a, c, h
  <2> QED
    BY <1>2, <1>3, <1>5, <1>6, <2>1, <2>2 DEF MayAnswer
<1>8. ASSUME a.answer = Unanswered, ~c.applied
      PROVE  \E m \in 1..n : attempts[m].applied
  <2>1. PICK m \in Tries : attempts[m].applied
    BY <1>5, <1>8 DEF ReplaysKey, Tries
  <2>2. ~(n < m)
    <3>1. attempts[m].pc # "none"
      BY <2>1, NotMadeYet
    <3>2. Unanswered \notin Inconclusive
      BY DEF Unanswered, Inconclusive, Lost
    <3> QED
      BY <1>8, <3>1, <3>2 DEF RequestsInv, InOrder
  <2>3. m \in 1..n
    BY <2>2 DEF Tries
  <2> QED
    BY <2>1, <2>3
<1> QED
  BY <1>0, <1>2, <1>3, <1>5, <1>6, <1>7, <1>8, <1>9

\* The transaction of a write commits, or finds its key used.
LEMMA HandleWriteStep ==
  ASSUME RequestsInv, NEW n \in Tries, HandleWrite(n)
  PROVE  RequestsInv'
<1> DEFINE a == attempts[n]
           c == Worked(n)
<1>1. /\ a.pc = "handler" /\ a.route.kind = "write"
      /\ UNCHANGED <<redis, session, roleNow, lastReceived, held>>
  BY DEF HandleWrite, AtWork
<1>2. session' \in BOOLEAN /\ (session' => session)
  BY <1>1 DEF RequestsInv, RequestsTypeOK
<1>3. /\ c \in AttemptSet /\ c.pc = "handler" /\ c.route = a.route /\ c.carries = a.carries
      /\ c.guards = <<>> /\ c.answer = a.answer /\ c.answer \in {Unanswered, 408}
      /\ c.applied <=> ~ReplaysKey(n)
      /\ ~a.applied /\ PassedOK(c, held[n]) /\ OutageOK(c, held[n])
      /\ MayAnswer(c, held[n], Done)
      /\ c.route.area = "delivery" => Signed(c)
      /\ a.answer = Unanswered => c.applied \/ \E m \in 1..n : attempts[m].applied
  BY WorkedOK DEF HandleWrite
<1>6. /\ lastReceived' \in {lastReceived, lastReceived \cup {n}}
      /\ n \in lastReceived' => Signed(c)
  <2>1. n \in lastReceived' => Signed(a)
    BY <1>1, ReceivedStays
  <2> QED
    BY <1>1, <1>3, <2>1 DEF Signed
<1>4. CASE ~a.route.invalidates
  <2>1. attempts' = [attempts EXCEPT ![n] = Answered(c, Done)]
    BY <1>4 DEF HandleWrite, Worked
  <2> HIDE DEF c
  <2>2. AnswersFrom(n, c, Done)
    <3>1. Done \notin Spurned
      BY DEF Done, Spurned
    <3> QED
      BY <1>1, <1>2, <1>3, <1>6, <2>1, <3>1 DEF AnswersFrom
  <2> QED
    BY <2>2, AnswerStep
<1>5. CASE a.route.invalidates
  <2> DEFINE b == [c EXCEPT !.pc = "invalidate"]
  <2>1. attempts' = [attempts EXCEPT ![n] = b]
    BY <1>5 DEF HandleWrite, Worked
  <2> HIDE DEF c
  <2>2. /\ b \in AttemptSet /\ b.pc = "invalidate" /\ b.route = c.route
        /\ b.carries = c.carries /\ b.guards = c.guards /\ b.answer = c.answer
        /\ b.applied = c.applied
    BY <1>3, PlaceColumn DEF Places
  <2> HIDE DEF b
  <2>3. ProgressOK(b)
    <3>1. \A g \in GuardNames : ~Owes(b.guards, g)
      BY <1>3, <2>2, GuardLists
    <3>2. "rate" \in GuardNames
      BY DEF GuardNames
    <3>3. 408 \notin Refusals /\ Unanswered \notin Refusals
      BY DEF Refusals, Declined, Unanswered
    <3> QED
      BY <1>1, <1>3, <2>2, <3>1, <3>2, <3>3 DEF ProgressOK
  <2>4. PassedOK(b, held[n]) /\ OutageOK(b, held[n])
    BY <1>3, <2>2 DEF PassedOK, OutageOK, Signed
  <2>5. /\ AttemptOK(b, held[n]) /\ b.pc # "none" /\ Running(a) /\ a.pc # "none"
        /\ b.answer # Done
    BY <1>1, <1>3, <2>2, <2>3, <2>4 DEF AttemptOK, Running, Done, Unanswered
  <2> HIDE DEF a
  <2> QED
    <3>1. /\ attempts[n].answer # Unanswered => b.answer = attempts[n].answer
          /\ attempts[n].applied => b.applied
          /\ b.applied /\ ~attempts[n].applied => ~ReplaysKey(n)
          /\ b.route = attempts[n].route
          /\ \/ b.pc = "invalidate" /\ b.answer = Unanswered
             \/ b.answer = Done /\ b.route.kind = "write"
             => b.applied \/ \E m \in 1..n : attempts[m].applied
      BY <1>3, <2>2, <2>5 DEF a
    <3>2. n \in lastReceived' => Signed(b) /\ b.pc # "guards" /\ b.answer \notin Spurned
      BY <1>3, <1>6, <2>2 DEF Signed, Spurned, Unanswered
    <3> QED
      BY <1>1, <1>2, <1>6, <2>1, <2>2, <2>5, <3>1, <3>2, MoveStep DEF a
<1> QED
  BY <1>4, <1>5

\* It commits, and the answer to COMMIT is lost.
LEMMA LoseCommitStep ==
  ASSUME RequestsInv, NEW n \in Tries, LoseCommit(n)
  PROVE  RequestsInv'
<1> DEFINE a == attempts[n]
           c == Worked(n)
<1>1. /\ a.pc = "handler" /\ a.route.kind = "write"
      /\ UNCHANGED <<redis, session, roleNow, lastReceived, held>>
      /\ attempts' = [attempts EXCEPT ![n] = Answered(c, 500)]
  BY DEF LoseCommit, AtWork, Worked
<1>2. session' \in BOOLEAN /\ (session' => session)
  BY <1>1 DEF RequestsInv, RequestsTypeOK
<1>3. /\ c.route = a.route /\ c.answer = a.answer /\ (c.applied <=> ~ReplaysKey(n))
      /\ ~a.applied /\ MayAnswer(c, held[n], 500) /\ c.carries = a.carries
  BY WorkedOK DEF LoseCommit
<1>5. /\ lastReceived' \in {lastReceived, lastReceived \cup {n}}
      /\ n \in lastReceived' => Signed(c) /\ 500 \notin Spurned
  <2>1. n \in lastReceived' => Signed(a)
    BY <1>1, ReceivedStays
  <2> QED
    BY <1>1, <1>3, <2>1 DEF Signed, Spurned
<1>4. AnswersFrom(n, c, 500)
  <2> HIDE DEF c
  <2> QED
    BY <1>1, <1>2, <1>3, <1>5 DEF AnswersFrom, Done
<1> QED
  BY <1>4, AnswerStep

\* Logging out removes the session, or says that it could not.
LEMMA LeaveStep ==
  ASSUME RequestsInv, NEW n \in Tries, Leave(n)
  PROVE  RequestsInv'
<1> DEFINE a == attempts[n]
           c == [a EXCEPT !.applied = TRUE]
<1>1. /\ a.pc = "handler" /\ a.route.kind = "leave"
      /\ UNCHANGED <<redis, roleNow, lastReceived, held>>
      /\ session' = (session /\ ~redis)
  BY DEF Leave
<1>2. session' \in BOOLEAN /\ (session' => session)
  BY <1>1 DEF RequestsInv, RequestsTypeOK
<1>3. /\ a \in AttemptSet /\ AttemptOK(a, held[n]) /\ Shape(a.route)
  BY <1>1, MadeAttempt
<1>4. a.guards = <<>> /\ a.answer \in {Unanswered, 408} /\ ~a.applied
  BY <1>1, <1>3 DEF AttemptOK, ProgressOK
<1>5. ~a.route.keyed /\ a.route.area # "delivery"
  BY <1>1, <1>3 DEF Shape
<1>8. lastReceived' \in {lastReceived, lastReceived \cup {n}} /\ n \notin lastReceived'
  BY <1>1, <1>5, ReceivedStays DEF Signed
<1>6. CASE ~redis
  <2>1. attempts' = [attempts EXCEPT ![n] = Answered(a, 503)]
    BY <1>6 DEF Leave
  <2>2. 503 \in {Done, 500} \cup Refusals
    BY DEF Refusals
  <2>3. PlainlyAnswers(n, 503)
    BY <1>1, <1>2, <1>4, <1>8, <2>1, <2>2 DEF PlainlyAnswers
  <2> QED
    BY <2>3, PlainAnswer
<1>7. CASE redis
  <2>1. attempts' = [attempts EXCEPT ![n] = Answered(c, Done)]
    BY <1>7 DEF Leave
  <2>2. /\ c \in AttemptSet /\ c.pc = a.pc /\ c.route = a.route /\ c.carries = a.carries
        /\ c.guards = a.guards /\ c.answer = a.answer /\ c.applied
    BY <1>3 DEF AttemptSet
  <2> HIDE DEF c
  <2>3. PassedOK(c, held[n]) /\ OutageOK(c, held[n])
    BY <1>3, <1>5, <2>2 DEF AttemptOK, PassedOK, OutageOK
  <2>4. Done \notin Refusals
    BY DEF Refusals, Done, Declined
  <2>5. MayAnswer(c, held[n], Done)
    BY <1>1, <1>4, <1>5, <2>2, <2>3, <2>4 DEF MayAnswer
  <2>6. ~ReplaysKey(n)
    BY <1>5 DEF ReplaysKey
  <2>7. AnswersFrom(n, c, Done)
    BY <1>1, <1>2, <1>8, <2>1, <2>2, <2>5, <2>6 DEF AnswersFrom
  <2> QED
    BY <2>7, AnswerStep
<1> QED
  BY <1>6, <1>7

\* The invalidation ends with the answer that the work was done.
LEMMA InvalidateStep ==
  ASSUME RequestsInv, NEW n \in Tries, Invalidate(n)
  PROVE  RequestsInv'
<1> DEFINE a == attempts[n]
<1>1. /\ a.pc = "invalidate" /\ UNCHANGED <<redis, session, roleNow, lastReceived, held>>
      /\ attempts' = [attempts EXCEPT ![n] = Answered(a, Done)]
  BY DEF Invalidate
<1>2. session' \in BOOLEAN /\ (session' => session)
  BY <1>1 DEF RequestsInv, RequestsTypeOK
<1>3. a \in AttemptSet /\ AttemptOK(a, held[n])
  BY <1>1, MadeAttempt
<1>4. a.guards = <<>> /\ a.answer \in {Unanswered, 408} /\ a.route.kind = "write"
  BY <1>1, <1>3 DEF AttemptOK, ProgressOK
<1>5. Done \notin Refusals
  BY DEF Refusals, Done, Declined
<1>6. MayAnswer(a, held[n], Done)
  BY <1>1, <1>3, <1>4, <1>5 DEF MayAnswer, AttemptOK, PassedOK
<1>7. a.answer = Unanswered => \E m \in 1..n : attempts[m].applied
  BY <1>1 DEF RequestsInv, WorkDone
<1>9. /\ lastReceived' \in {lastReceived, lastReceived \cup {n}}
      /\ n \in lastReceived' => Signed(a) /\ Done \notin Spurned
  BY <1>1, ReceivedStays DEF Done, Spurned
<1>8. AnswersFrom(n, a, Done)
  BY <1>1, <1>2, <1>6, <1>7, <1>9 DEF AnswersFrom
<1> QED
  BY <1>8, AnswerStep

\* The budget ends.
LEMMA TimeOutStep ==
  ASSUME RequestsInv, NEW n \in Tries, TimeOut(n)
  PROVE  RequestsInv'
<1> DEFINE a == attempts[n]
           b == [a EXCEPT !.answer = 408]
<1>1. /\ a.pc \in {"handler", "invalidate"} /\ a.answer = Unanswered
      /\ UNCHANGED <<redis, session, roleNow, lastReceived, held>>
      /\ attempts' = [attempts EXCEPT ![n].answer = 408]
  BY DEF TimeOut
<1>2. session' \in BOOLEAN /\ (session' => session)
  BY <1>1 DEF RequestsInv, RequestsTypeOK
<1>3. a \in AttemptSet /\ AttemptOK(a, held[n]) /\ Shape(a.route)
  BY <1>1, MadeAttempt
<1>4. a.guards = <<>> /\ Running(a) /\ a.pc # "none"
  BY <1>1, <1>3 DEF AttemptOK, ProgressOK, Running
<1>5. /\ ~IsExempt(a.route) => ~held[n].outage
      /\ ProgressOK(a) /\ PassedOK(a, held[n]) /\ OutageOK(a, held[n])
  BY <1>4, PastGuards
<1>6. attempts' = [attempts EXCEPT ![n] = b]
  BY <1>1
<1>7. /\ b \in AttemptSet /\ b.pc = a.pc /\ b.route = a.route /\ b.carries = a.carries
      /\ b.guards = a.guards /\ b.answer = 408 /\ b.applied = a.applied
  <2>1. 408 \in Answers
    BY DEF Answers
  <2> HIDE DEF a
  <2> QED
    BY <1>3, <2>1, AnswerColumn
<1> HIDE DEF b
<1>8. ProgressOK(b)
  <2>1. \A g \in GuardNames : ~Owes(b.guards, g)
    BY <1>4, <1>7, GuardLists
  <2>2. "rate" \in GuardNames
    BY DEF GuardNames
  <2>3. 408 \notin Refusals /\ 408 # Done
    BY DEF Refusals, Declined, Done
  <2> QED
    BY <1>1, <1>4, <1>5, <1>7, <2>1, <2>2, <2>3 DEF ProgressOK
<1>9. PassedOK(b, held[n]) /\ OutageOK(b, held[n])
  BY <1>5, <1>7 DEF PassedOK, OutageOK, Signed
<1>10. /\ AttemptOK(b, held[n]) /\ b.pc # "none" /\ b.answer # Done
       /\ b.answer # Unanswered /\ b.route = attempts[n].route
       /\ attempts[n].answer = Unanswered /\ (attempts[n].applied => b.applied)
       /\ ~(b.applied /\ ~attempts[n].applied)
  BY <1>1, <1>7, <1>8, <1>9 DEF AttemptOK, Done, Unanswered
<1>11. /\ lastReceived' \in {lastReceived, lastReceived \cup {n}}
       /\ n \in lastReceived' => Signed(b) /\ b.pc # "guards" /\ b.answer \notin Spurned
  BY <1>1, <1>7, ReceivedStays DEF Signed, Spurned
<1> HIDE DEF a
<1> QED
  BY <1>1, <1>2, <1>4, <1>6, <1>7, <1>10, <1>11, MoveStep DEF a

\* A caller attempts what it wants, or attempts it again.
LEMMA ReceiveStep ==
  ASSUME RequestsInv, NEW n \in Tries, Receive(n)
  PROVE  RequestsInv'
<1>1. /\ attempts[n].pc = "none" /\ UNCHANGED <<redis, session, roleNow, lastReceived>>
      /\ held' = [held EXCEPT ![n] =
                    [roles |-> {roleNow}, session |-> session, outage |-> ~redis]]
  BY DEF Receive
<1>2. PICK route \in Routes, carries \in Carried :
        /\ n > 1 => /\ attempts[n - 1].answer \in Inconclusive
                    /\ route = attempts[n - 1].route
        /\ attempts' = [attempts EXCEPT ![n] = Made(route, carries)]
  BY DEF Receive
<1>3. attempts \in [Tries -> AttemptSet] /\ held \in [Tries -> HeldSet]
  BY DEF RequestsInv, RequestsTypeOK
<1>4. attempts[n] = NotMade
  BY <1>1 DEF RequestsInv, AttemptsOK
<1>5. Shape(route) /\ route.guards \in Seq(GuardNames) /\ ~Owes(route.guards, "rate")
  <2>1. Shape(route)
    BY RouteShape
  <2>2. route.guards \in {Anyone, SignedIn, Member, Monitor}
    BY <2>1 DEF Shape
  <2> QED
    BY <2>1, <2>2, GuardLists DEF GuardNames
<1> DEFINE b == Made(route, carries)
           h == [roles |-> {roleNow}, session |-> session, outage |-> ~redis]
<1>6. /\ b \in AttemptSet /\ b.pc = "guards" /\ b.route = route /\ b.carries = carries
      /\ b.guards = <<"edge", "rate">> \o route.guards /\ b.answer = Unanswered
      /\ ~b.applied
  <2> DEFINE s == <<"edge", "rate">> \o route.guards
  <2>1. s \in Seq(GuardNames)
    BY <1>5, MadeOwes
  <2>2. b = [NotMade EXCEPT !.pc = "guards", !.route = route, !.carries = carries,
                            !.guards = s]
    BY DEF Made
  <2>3. "guards" \in Places
    BY DEF Places
  <2> HIDE DEF b, s
  <2>4. /\ b \in AttemptSet /\ b.pc = "guards" /\ b.route = route /\ b.carries = carries
        /\ b.guards = s /\ b.answer = NotMade.answer /\ b.applied = NotMade.applied
    BY <2>1, <2>2, <2>3, NotMadeColumns DEF AttemptSet
  <2> QED
    BY <2>4, NotMadeColumns DEF s
<1>7. /\ attempts' \in [Tries -> AttemptSet] /\ attempts'[n] = b
      /\ \A k \in Tries : k # n => attempts'[k] = attempts[k]
  <2> HIDE DEF b
  <2>1. attempts' = [attempts EXCEPT ![n] = b]
    BY <1>2 DEF b
  <2> QED
    BY <1>3, <1>6, <2>1
<1>8. /\ held' \in [Tries -> HeldSet] /\ held'[n] = h
      /\ \A k \in Tries : k # n => held'[k] = held[k]
  <2>1. h \in HeldSet
    BY DEF RequestsInv, RequestsTypeOK, HeldSet
  <2> HIDE DEF h
  <2>2. held' = [held EXCEPT ![n] = h]
    BY <1>1 DEF h
  <2> QED
    BY <1>3, <2>1, <2>2
<1>9. h.roles = {roleNow} /\ h.session = session /\ h.outage = ~redis
  OBVIOUS
<1> HIDE DEF b, h
<1>10. RequestsTypeOK'
  BY <1>1, <1>7, <1>8 DEF RequestsInv, RequestsTypeOK
<1>11. AttemptOK(b, h)
  <2>1. \A g \in GuardNames :
          Owes(b.guards, g) <=> g \in {"edge", "rate"} \/ Owes(route.guards, g)
    BY <1>5, <1>6, MadeOwes
  <2>2. ProgressOK(b)
    BY <1>6, <2>1 DEF ProgressOK, Outside, Unanswered, Done
  <2>3. PassedOK(b, h)
    BY <1>6, <2>1 DEF PassedOK, GuardNames
  <2>4. OutageOK(b, h)
    BY <1>6 DEF OutageOK
  <2> QED
    BY <2>2, <2>3, <2>4 DEF AttemptOK
<1>12. MetOK(b, h, ~redis, roleNow, session)
  BY <1>9 DEF MetOK
<1>13. AttemptsOK'
  <2> SUFFICES ASSUME NEW k \in Tries
               PROVE  \/ attempts'[k] = NotMade
                      \/ /\ attempts'[k].pc # "none" /\ AttemptOK(attempts'[k], held'[k])
                         /\ MetOK(attempts'[k], held'[k], ~redis, roleNow, session)
    BY <1>1 DEF AttemptsOK
  <2>1. CASE k = n
    BY <1>6, <1>7, <1>8, <1>11, <1>12, <2>1
  <2>2. CASE k # n
    BY <1>7, <1>8, <2>2 DEF RequestsInv, AttemptsOK
  <2> QED
    BY <2>1, <2>2
<1>14. ~attempts[n].applied /\ attempts[n].answer = Unanswered
  BY <1>4, NotMadeColumns
<1>15. Unanswered \notin Inconclusive
  BY DEF Unanswered, Inconclusive, Lost
<1>16. \A k \in Tries : k \in Int /\ k >= 1
  BY DEF Tries
<1>17. InOrder'
  <2> SUFFICES ASSUME NEW k \in Tries, NEW m \in Tries, k < m, attempts'[m].pc # "none"
               PROVE  /\ attempts'[k].answer \in Inconclusive
                      /\ attempts'[k].route = attempts'[m].route
    BY DEF InOrder
  <2>1. k # n \/ m # n
    BY <1>16
  <2>2. CASE m = n
    <3>1. n > 1 /\ n - 1 \in Tries /\ (k = n - 1 \/ k < n - 1) /\ k # n
      BY <1>16, <2>2, PipelineAssumption DEF Tries
    <3>2. attempts[n - 1].answer \in Inconclusive /\ route = attempts[n - 1].route
      BY <1>2, <3>1
    <3>3. attempts[n - 1].pc # "none"
      BY <1>15, <3>1, <3>2, NotMadeYet
    <3>4. attempts[k].answer \in Inconclusive /\ attempts[k].route = route
      BY <3>1, <3>2, <3>3 DEF RequestsInv, InOrder
    <3> QED
      BY <1>6, <1>7, <2>2, <3>1, <3>4
  <2>3. CASE m # n
    <3>1. /\ attempts[m].pc # "none" /\ attempts'[m] = attempts[m]
          /\ attempts[k].answer \in Inconclusive /\ attempts[k].route = attempts[m].route
      BY <1>7, <2>3 DEF RequestsInv, InOrder
    <3>2. k # n
      BY <1>14, <1>15, <3>1
    <3> QED
      BY <1>7, <3>1, <3>2
  <2> QED
    BY <2>2, <2>3
<1>18. WorkDone'
  <2> SUFFICES ASSUME NEW k \in Tries,
                      \/ attempts'[k].pc = "invalidate" /\ attempts'[k].answer = Unanswered
                      \/ attempts'[k].answer = Done /\ attempts'[k].route.kind = "write"
               PROVE  \E m \in 1..k : attempts'[m].applied
    BY DEF WorkDone
  <2>1. k # n
    BY <1>6, <1>7 DEF Unanswered, Done
  <2>2. PICK m \in 1..k : attempts[m].applied
    BY <1>7, <2>1 DEF RequestsInv, WorkDone
  <2>3. m # n /\ m \in Tries
    BY <1>14, <2>2, PipelineAssumption DEF Tries
  <2> QED
    BY <1>7, <2>2, <2>3
<1>19. KeyedOnce'
  BY <1>6, <1>7 DEF RequestsInv, KeyedOnce
<1>20. ReceivedOK'
  <2>1. n \notin lastReceived
    BY <1>1 DEF RequestsInv, ReceivedOK
  <2> QED
    BY <1>1, <1>7, <2>1 DEF RequestsInv, ReceivedOK, Signed
<1> QED
  BY <1>10, <1>13, <1>17, <1>18, <1>19, <1>20 DEF RequestsInv

\* What an attempt has met only grows.
Outgrows(g, h) ==
  h.roles \subseteq g.roles /\ g.session = h.session /\ (g.outage => h.outage)

\* An attempt that has met more is as it was.
LEMMA MetMore ==
  ASSUME NEW a, NEW g, NEW h, Outgrows(g, h), AttemptOK(a, h)
  PROVE  AttemptOK(a, g)
<1> QED
  BY DEF Outgrows, AttemptOK, PassedOK, OutageOK

\* The world changes around the attempts.
LEMMA WorldStep ==
  ASSUME RequestsInv, UNCHANGED <<attempts, lastReceived>>, held' \in [Tries -> HeldSet],
         redis' \in BOOLEAN, session' \in BOOLEAN, session' => session,
         roleNow' \in AllRoles \cup {NoRole},
         \A n \in Tries :
           /\ Outgrows(held'[n], held[n])
           /\ Running(attempts[n]) => roleNow' \in held'[n].roles /\ (held'[n].outage => ~redis')
  PROVE  RequestsInv'
<1>1. RequestsTypeOK'
  BY DEF RequestsInv, RequestsTypeOK
<1>2. AttemptsOK'
  <2> SUFFICES ASSUME NEW n \in Tries, attempts[n] # NotMade
               PROVE  /\ attempts[n].pc # "none" /\ AttemptOK(attempts[n], held'[n])
                      /\ MetOK(attempts[n], held'[n], ~redis', roleNow', session')
    BY DEF AttemptsOK
  <2>1. /\ attempts[n].pc # "none" /\ AttemptOK(attempts[n], held[n])
        /\ MetOK(attempts[n], held[n], ~redis, roleNow, session)
    BY DEF RequestsInv, AttemptsOK
  <2>2. AttemptOK(attempts[n], held'[n])
    BY <2>1, MetMore
  <2>3. MetOK(attempts[n], held'[n], ~redis', roleNow', session')
    BY <2>1 DEF MetOK, Outgrows
  <2> QED
    BY <2>1, <2>2, <2>3
<1>3. InOrder' /\ WorkDone' /\ KeyedOnce' /\ ReceivedOK'
  BY DEF RequestsInv, InOrder, WorkDone, KeyedOnce, ReceivedOK, Signed
<1> QED
  BY <1>1, <1>2, <1>3 DEF RequestsInv

\* What holds around an attempt that has been made is in its history.
LEMMA HistoryHolds ==
  ASSUME RequestsInv, NEW n \in Tries, Running(attempts[n])
  PROVE  roleNow \in held[n].roles /\ (held[n].outage => ~redis)
<1>1. attempts[n].pc # "none"
  BY DEF Running
<1>2. MetOK(attempts[n], held[n], ~redis, roleNow, session)
  BY <1>1, MadeAttempt
<1> QED
  BY <1>2 DEF MetOK

\* The caller's role changes.
LEMMA RoleStep ==
  ASSUME RequestsInv, RoleChanges
  PROVE  RequestsInv'
<1>1. /\ roleNow' \in AllRoles \cup {NoRole}
      /\ UNCHANGED <<redis, session, attempts, lastReceived>>
      /\ held' = [n \in Tries |->
                    IF Running(attempts[n])
                    THEN [held[n] EXCEPT !.roles = held[n].roles \cup {roleNow'}]
                    ELSE held[n]]
  BY DEF RoleChanges, Meeting, Tries
<1>2. held \in [Tries -> HeldSet] /\ redis \in BOOLEAN /\ session \in BOOLEAN
  BY DEF RequestsInv, RequestsTypeOK
<1>3. ASSUME NEW n \in Tries
      PROVE  /\ held'[n] \in HeldSet /\ Outgrows(held'[n], held[n])
             /\ Running(attempts[n]) =>
                  roleNow' \in held'[n].roles /\ (held'[n].outage => ~redis)
  <2>1. CASE ~Running(attempts[n])
    <3>1. held'[n] = held[n] /\ held[n] \in HeldSet
      BY <1>1, <1>2, <2>1
    <3> QED
      BY <2>1, <3>1 DEF Outgrows
  <2>2. CASE Running(attempts[n])
    <3> DEFINE r == held[n].roles \cup {roleNow'}
    <3>1. held'[n] = [held[n] EXCEPT !.roles = r] /\ held[n] \in HeldSet
      BY <1>1, <1>2, <2>2
    <3>2. r \in SUBSET (AllRoles \cup {NoRole})
      BY <1>1, <3>1 DEF HeldSet
    <3> HIDE DEF r
    <3>3. /\ held'[n] \in HeldSet /\ held'[n].roles = r
          /\ held'[n].session = held[n].session /\ held'[n].outage = held[n].outage
      BY <3>1, <3>2 DEF HeldSet
    <3>4. held[n].outage => ~redis
      BY <2>2, HistoryHolds
    <3> QED
      BY <3>3, <3>4 DEF Outgrows, r
  <2> QED
    BY <2>1, <2>2
<1>4. held' \in [Tries -> HeldSet]
  <2>1. held' = [n \in Tries |-> held'[n]]
    BY <1>1
  <2> QED
    BY <1>3, <2>1
<1> QED
  BY <1>1, <1>2, <1>3, <1>4, WorldStep

\* The session is removed, or the user.
LEMMA LeavingStep ==
  ASSUME RequestsInv, SessionEnds \/ AccountRemoved
  PROVE  RequestsInv'
<1>1. /\ UNCHANGED <<redis, roleNow, attempts, lastReceived, held>>
      /\ session' = FALSE \/ session' = session
  <2>1. CASE SessionEnds
    BY <2>1 DEF SessionEnds
  <2>2. CASE AccountRemoved
    BY <2>2 DEF AccountRemoved
  <2> QED
    BY <2>1, <2>2
<1>2. session' \in BOOLEAN /\ (session' => session)
  <2>1. session \in BOOLEAN
    BY DEF RequestsInv, RequestsTypeOK
  <2>2. CASE session' = FALSE
    BY <2>2
  <2>3. CASE session' = session
    BY <2>1, <2>3
  <2> QED
    BY <1>1, <2>2, <2>3
<1>3. \A n \in Tries :
        /\ Outgrows(held[n], held[n])
        /\ Running(attempts[n]) => roleNow \in held[n].roles /\ (held[n].outage => ~redis)
  BY HistoryHolds DEF Outgrows
<1>4. held' \in [Tries -> HeldSet] /\ redis' \in BOOLEAN /\ roleNow' \in AllRoles \cup {NoRole}
  BY <1>1 DEF RequestsInv, RequestsTypeOK
<1> QED
  BY <1>1, <1>2, <1>3, <1>4, WorldStep

\* Redis goes, or comes back.
LEMMA RedisStep ==
  ASSUME RequestsInv, RedisChanges
  PROVE  RequestsInv'
<1>1. /\ redis' = ~redis /\ UNCHANGED <<session, roleNow, attempts, lastReceived>>
      /\ held' = [n \in Tries |->
                    IF Running(attempts[n])
                    THEN [held[n] EXCEPT !.outage = held[n].outage /\ ~redis']
                    ELSE held[n]]
  BY DEF RedisChanges, Meeting, Tries
<1>2. /\ held \in [Tries -> HeldSet] /\ redis \in BOOLEAN /\ session \in BOOLEAN
      /\ roleNow \in AllRoles \cup {NoRole}
  BY DEF RequestsInv, RequestsTypeOK
<1>3. ASSUME NEW n \in Tries
      PROVE  /\ held'[n] \in HeldSet /\ Outgrows(held'[n], held[n])
             /\ Running(attempts[n]) =>
                  roleNow \in held'[n].roles /\ (held'[n].outage => ~redis')
  <2>1. CASE ~Running(attempts[n])
    <3>1. held'[n] = held[n] /\ held[n] \in HeldSet
      BY <1>1, <1>2, <2>1
    <3> QED
      BY <2>1, <3>1 DEF Outgrows
  <2>2. CASE Running(attempts[n])
    <3> DEFINE d == held[n].outage /\ ~redis'
    <3>1. held'[n] = [held[n] EXCEPT !.outage = d] /\ held[n] \in HeldSet
      BY <1>1, <1>2, <2>2
    <3>2. d \in BOOLEAN /\ (d => held[n].outage) /\ (d => ~redis')
      BY <1>1, <3>1
    <3> HIDE DEF d
    <3>3. /\ held'[n] \in HeldSet /\ held'[n].roles = held[n].roles
          /\ held'[n].session = held[n].session /\ held'[n].outage = d
      BY <3>1, <3>2 DEF HeldSet
    <3>4. roleNow \in held[n].roles
      BY <2>2, HistoryHolds
    <3> QED
      BY <3>2, <3>3, <3>4 DEF Outgrows
  <2> QED
    BY <2>1, <2>2
<1>4. held' \in [Tries -> HeldSet]
  <2>1. held' = [n \in Tries |-> held'[n]]
    BY <1>1
  <2> QED
    BY <1>3, <2>1
<1> QED
  BY <1>1, <1>2, <1>3, <1>4, WorldStep

\* The process ends: who waits for an answer gets none, and the work that was done stays.
LEMMA CrashStep ==
  ASSUME RequestsInv, ApiCrashes
  PROVE  RequestsInv'
<1>1. /\ UNCHANGED <<redis, session, roleNow, lastReceived, held>>
      /\ attempts' = [n \in Tries |->
           IF Running(attempts[n])
           THEN [attempts[n] EXCEPT
                   !.pc = "over",
                   !.answer = IF attempts[n].answer = Unanswered THEN Lost
                              ELSE attempts[n].answer]
           ELSE attempts[n]]
  BY DEF ApiCrashes, Tries
<1>2. attempts \in [Tries -> AttemptSet]
  BY DEF RequestsInv, RequestsTypeOK
<1>3. ASSUME NEW n \in Tries, Running(attempts[n])
      PROVE  /\ attempts'[n] \in AttemptSet /\ attempts'[n].pc = "over"
             /\ attempts'[n].route = attempts[n].route
             /\ attempts'[n].carries = attempts[n].carries
             /\ attempts'[n].applied = attempts[n].applied
             /\ attempts'[n].answer \in {Lost, 408}
             /\ attempts[n].answer # Unanswered => attempts'[n].answer = attempts[n].answer
             /\ AttemptOK(attempts'[n], held[n])
             /\ MetOK(attempts'[n], held[n], ~redis, roleNow, session)
  <2> DEFINE a == attempts[n]
             b == attempts'[n]
             w == IF a.answer = Unanswered THEN Lost ELSE a.answer
  <2>1. /\ a \in AttemptSet /\ AttemptOK(a, held[n])
        /\ MetOK(a, held[n], ~redis, roleNow, session)
    BY <1>3, MadeAttempt DEF Running
  <2>2. a.answer \in {Unanswered, 408}
    BY <1>3, <2>1 DEF Running, AttemptOK, ProgressOK
  <2>3. /\ w \in {Lost, 408} /\ w \in Answers
        /\ a.answer = Unanswered => w = Lost
        /\ a.answer # Unanswered => w = a.answer
    BY <2>2 DEF Answers
  <2>4. b = [a EXCEPT !.pc = "over", !.answer = w]
    BY <1>1, <1>3
  <2> HIDE DEF a, b, w
  <2>5. /\ b \in AttemptSet /\ b.pc = "over" /\ b.route = a.route /\ b.carries = a.carries
        /\ b.guards = a.guards /\ b.answer = w /\ b.applied = a.applied
    BY <2>1, <2>3, <2>4 DEF AttemptSet, Places
  <2>6. ProgressOK(b)
    <3>1. Outside(a) => Outside(b)
      BY <2>5 DEF Outside
    <3>2. w \notin Refusals /\ w # Done
      BY <2>3 DEF Refusals, Declined, Done, Lost
    <3> QED
      BY <2>1, <2>3, <2>5, <3>1, <3>2 DEF AttemptOK, ProgressOK
  <2>7. PassedOK(b, held[n]) /\ OutageOK(b, held[n])
    <3>1. PassedOK(a, held[n]) /\ OutageOK(a, held[n])
      BY <2>1 DEF AttemptOK
    <3>2. PassedOK(b, held[n])
      BY <2>1, <2>5, <3>1 DEF PassedOK, Signed, AttemptOK, ProgressOK
    <3>3. OutageOK(b, held[n])
      BY <2>3, <2>5, <3>1 DEF OutageOK, Unanswered, Lost
    <3> QED
      BY <3>2, <3>3
  <2>8. MetOK(b, held[n], ~redis, roleNow, session)
    BY <2>1, <2>5 DEF MetOK, Running
  <2> QED
    BY <2>3, <2>5, <2>6, <2>7, <2>8 DEF AttemptOK, a, b
<1>4. ASSUME NEW n \in Tries, ~Running(attempts[n])
      PROVE  attempts'[n] = attempts[n]
  BY <1>1, <1>4
<1>5. RequestsTypeOK'
  <2>1. attempts' = [n \in Tries |-> attempts'[n]]
    BY <1>1
  <2>2. \A n \in Tries : attempts'[n] \in AttemptSet
    BY <1>2, <1>3, <1>4
  <2>3. attempts' \in [Tries -> AttemptSet]
    BY <2>1, <2>2
  <2> QED
    BY <1>1, <2>3 DEF RequestsInv, RequestsTypeOK
<1>6. AttemptsOK'
  <2> SUFFICES ASSUME NEW n \in Tries
               PROVE  \/ attempts'[n] = NotMade
                      \/ /\ attempts'[n].pc # "none" /\ AttemptOK(attempts'[n], held[n])
                         /\ MetOK(attempts'[n], held[n], ~redis, roleNow, session)
    BY <1>1 DEF AttemptsOK
  <2>1. CASE Running(attempts[n])
    BY <1>3, <2>1
  <2>2. CASE ~Running(attempts[n])
    BY <1>4, <2>2 DEF RequestsInv, AttemptsOK
  <2> QED
    BY <2>1, <2>2
<1>7. \A n \in Tries :
        /\ attempts[n].answer \in Inconclusive => attempts'[n].answer \in Inconclusive
        /\ attempts'[n].route = attempts[n].route /\ attempts'[n].applied = attempts[n].applied
        /\ attempts'[n].pc # "none" => attempts[n].pc # "none"
        /\ attempts'[n].answer = Done => attempts[n].answer = Done
        /\ attempts'[n].pc # "invalidate"
  BY <1>3, <1>4 DEF Inconclusive, Done, Lost, Running
<1>8. InOrder'
  BY <1>7 DEF RequestsInv, InOrder
<1>9. WorkDone'
  <2> SUFFICES ASSUME NEW k \in Tries, attempts'[k].answer = Done,
                      attempts'[k].route.kind = "write"
               PROVE  \E m \in 1..k : attempts'[m].applied
    BY <1>7 DEF WorkDone
  <2>1. PICK m \in 1..k : attempts[m].applied
    BY <1>7 DEF RequestsInv, WorkDone
  <2>2. m \in Tries
    BY PipelineAssumption DEF Tries
  <2> QED
    BY <1>7, <2>1, <2>2
<1>10. KeyedOnce'
  BY <1>7 DEF RequestsInv, KeyedOnce
<1>11. ReceivedOK'
  <2> SUFFICES ASSUME NEW k \in Tries, k \in lastReceived
               PROVE  /\ Signed(attempts'[k]) /\ attempts'[k].pc \notin {"none", "guards"}
                      /\ attempts'[k].answer \notin Spurned
    BY <1>1 DEF ReceivedOK, Signed
  <2>1. /\ Signed(attempts[k]) /\ attempts[k].pc \notin {"none", "guards"}
        /\ attempts[k].answer \notin Spurned
    BY DEF RequestsInv, ReceivedOK
  <2>2. CASE Running(attempts[k])
    BY <1>3, <2>1, <2>2 DEF Signed, Spurned, Lost
  <2>3. CASE ~Running(attempts[k])
    BY <1>4, <2>1, <2>3
  <2> QED
    BY <2>2, <2>3
<1> QED
  BY <1>5, <1>6, <1>8, <1>9, <1>10, <1>11 DEF RequestsInv

\* The invariant holds before any attempt.
LEMMA RequestsStart ==
  RequestsInit => RequestsInv
<1> SUFFICES ASSUME RequestsInit
             PROVE  RequestsInv
  OBVIOUS
<1>1. /\ attempts = [n \in Tries |-> NotMade]
      /\ held = [n \in Tries |-> [roles |-> {}, session |-> FALSE, outage |-> FALSE]]
  BY DEF RequestsInit, Tries
<1>2. [roles |-> {}, session |-> FALSE, outage |-> FALSE] \in HeldSet
  BY DEF HeldSet
<1>3. RequestsTypeOK
  BY <1>1, <1>2, NotMadeColumns DEF RequestsInit, RequestsTypeOK
<1>4. \A n \in Tries : attempts[n] = NotMade
  BY <1>1
<1>5. AttemptsOK
  BY <1>4 DEF AttemptsOK
<1>6. InOrder /\ KeyedOnce
  BY <1>4, NotMadeColumns DEF InOrder, KeyedOnce
<1>7. WorkDone
  BY <1>4, NotMadeColumns DEF WorkDone, Unanswered, Done
<1>8. ReceivedOK
  BY DEF RequestsInit, ReceivedOK
<1> QED
  BY <1>3, <1>5, <1>6, <1>7, <1>8 DEF RequestsInv

\* Every step preserves it.
LEMMA RequestsStep ==
  RequestsInv /\ [RequestsNext]_requestVars => RequestsInv'
<1> SUFFICES ASSUME RequestsInv, [RequestsNext]_requestVars
             PROVE  RequestsInv'
  OBVIOUS
<1>1. CASE UNCHANGED requestVars
  BY <1>1
  DEF requestVars, RequestsInv, RequestsTypeOK, AttemptsOK, InOrder, WorkDone, KeyedOnce,
      ReceivedOK, Signed
<1>2. CASE RoleChanges \/ SessionEnds \/ AccountRemoved \/ RedisChanges \/ ApiCrashes
  BY <1>2, RoleStep, LeavingStep, RedisStep, CrashStep
<1>3. CASE \E n \in 1..MaxTries :
             \/ Receive(n) \/ Guard(n) \/ Parse(n) \/ Verify(n) \/ RefuseOrder(n)
             \/ HandleRead(n) \/ HandleWrite(n) \/ DeclineWrite(n) \/ LoseCommit(n)
             \/ Leave(n) \/ Invalidate(n) \/ TimeOut(n)
  <2>1. PICK n \in Tries :
             \/ Receive(n) \/ Guard(n) \/ Parse(n) \/ Verify(n) \/ RefuseOrder(n)
             \/ HandleRead(n) \/ HandleWrite(n) \/ DeclineWrite(n) \/ LoseCommit(n)
             \/ Leave(n) \/ Invalidate(n) \/ TimeOut(n)
    BY <1>3 DEF Tries
  <2>2. CASE Receive(n) \/ Guard(n) \/ Parse(n) \/ HandleRead(n)
    BY <2>2, ReceiveStep, GuardStep, ParseStep, HandleReadStep
  <2>3. CASE HandleWrite(n) \/ DeclineWrite(n) \/ LoseCommit(n)
    BY <2>3, HandleWriteStep, DeclineStep, LoseCommitStep
  <2>4. CASE Leave(n) \/ Invalidate(n) \/ TimeOut(n)
    BY <2>4, LeaveStep, InvalidateStep, TimeOutStep
  <2>5. CASE Verify(n) \/ RefuseOrder(n)
    BY <2>5, VerifyStep, RefuseOrderStep
  <2> QED
    BY <2>1, <2>2, <2>3, <2>4, <2>5
<1> QED
  BY <1>1, <1>2, <1>3 DEF RequestsNext

\* The invariant holds in every state.
LEMMA RequestsInvariant ==
  RequestsSpec => []RequestsInv
<1> QED
  BY RequestsStart, RequestsStep, PTL DEF RequestsSpec

-----------------------------------------------------------------------------
(* The theorems.                                                           *)

\* For every way a request may prove itself and any number of attempts: whoever is let in,
\* or changes something, held while the request ran a role the documentation allows, a
\* session and the proofs its kind of change needs; and without Redis nobody is let in
\* (the guards of auth.guard.ts, roles.guard.ts and csrf.guard.ts, in their order).
THEOREM AuthorityHeld == RequestsSpec => []ActsWithAuthority
<1>1. ASSUME RequestsInv
      PROVE  ActsWithAuthority
  <2> SUFFICES ASSUME NEW n \in Tries
               PROVE  LET a == attempts[n] IN
                 /\ FailsClosed(n, a)
                 /\ (a.applied \/ a.answer = Done) =>
                   /\ "role" \in {a.route.guards[i] : i \in DOMAIN a.route.guards} =>
                        held[n].roles \cap DocumentedRoles(a.route.area) # {}
                   /\ a.route.guards \in {SignedIn, Member} =>
                        held[n].session /\ "cookie" \in a.carries
                   /\ a.applied => IF a.route.area = "delivery" THEN "signature" \in a.carries
                                   ELSE {"origin", "token"} \subseteq a.carries
                 /\ n \in lastReceived => Signed(a)
    BY DEF ActsWithAuthority, Tries, Signed
  <2> DEFINE a == attempts[n]
             h == held[n]
  <2>3. n \in lastReceived => Signed(a)
    BY <1>1 DEF RequestsInv, ReceivedOK
  <2>1. CASE a.pc = "none"
    <3>1. a = NotMade
      BY <1>1, <2>1 DEF RequestsInv, AttemptsOK
    <3>2. ~a.applied /\ a.answer = Unanswered
      BY <3>1, NotMadeColumns
    <3> QED
      BY <2>3, <3>2 DEF FailsClosed, Unanswered, Done
  <2>2. CASE a.pc # "none"
    <3>1. /\ a \in AttemptSet /\ ProgressOK(a) /\ PassedOK(a, h) /\ OutageOK(a, h)
          /\ Shape(a.route)
      BY <1>1, <2>2, MadeAttempt DEF AttemptOK
    <3>2. a.applied \/ a.answer = Done => \A g \in GuardNames : ~Owes(a.guards, g)
      BY <3>1, GuardLists DEF ProgressOK
    <3>3. FailsClosed(n, a)
      <4>1. "rate" \in GuardNames
        BY DEF GuardNames
      <4>2. ~IsExempt(a.route) /\ h.outage => ~a.applied /\ a.answer \in {Unanswered, Lost, 503, 404}
        BY <3>1, <3>2, <4>1 DEF PassedOK, OutageOK
      <4>3. a.route.kind = "live" => IsExempt(a.route)
        BY <3>1 DEF Shape, IsHealth, IsExempt
      <4> QED
        BY <3>1, <4>2, <4>3 DEF FailsClosed, OutageOK
    <3>4. ASSUME a.applied \/ a.answer = Done
          PROVE  /\ "role" \in {a.route.guards[i] : i \in DOMAIN a.route.guards} =>
                      h.roles \cap DocumentedRoles(a.route.area) # {}
                 /\ a.route.guards \in {SignedIn, Member} => h.session /\ "cookie" \in a.carries
                 /\ a.applied => IF a.route.area = "delivery" THEN "signature" \in a.carries
                                 ELSE {"origin", "token"} \subseteq a.carries
      <4>1. \A g \in GuardNames : ~Owes(a.guards, g)
        BY <3>2, <3>4
      <4>2. {"role", "session", "csrf"} \subseteq GuardNames
        BY DEF GuardNames
      <4>3. /\ a.route.guards \in {Anyone, SignedIn, Member, Monitor}
            /\ a.route.guards = Member => a.route.roles \subseteq DocumentedRoles(a.route.area)
        BY <3>1 DEF Shape
      <4>4. ASSUME "role" \in {a.route.guards[i] : i \in DOMAIN a.route.guards}
            PROVE  h.roles \cap DocumentedRoles(a.route.area) # {}
        <5>1. Owes(a.route.guards, "role")
          BY <4>4 DEF Owes
        <5>2. a.route.guards = Member
          BY <4>2, <4>3, <5>1, GuardLists
        <5>3. h.roles \cap a.route.roles # {}
          BY <3>1, <4>1, <4>2, <5>1 DEF PassedOK
        <5> QED
          BY <4>3, <5>2, <5>3
      <4>5. ASSUME a.route.guards \in {SignedIn, Member}
            PROVE  /\ h.session /\ "cookie" \in a.carries
                   /\ a.route.kind = "write" \/ a.route.kind = "leave" =>
                        {"origin", "token"} \subseteq a.carries
        <5>1. Owes(a.route.guards, "session") /\ Owes(a.route.guards, "csrf")
          BY <4>2, <4>5, GuardLists
        <5> QED
          BY <3>1, <4>1, <4>2, <5>1 DEF PassedOK, SafeKinds
      <4>6. ASSUME a.applied
            PROVE  IF a.route.area = "delivery" THEN "signature" \in a.carries
                   ELSE {"origin", "token"} \subseteq a.carries
        <5>1. a.route.kind \in {"write", "leave"}
          BY <3>1, <4>6 DEF ProgressOK
        <5>2. CASE a.route.area = "delivery"
          BY <3>1, <4>6, <5>2 DEF PassedOK, Signed
        <5>3. CASE a.route.area # "delivery"
          <6>1. a.route.guards \in {SignedIn, Member}
            BY <3>1, <5>1, <5>3 DEF Shape
          <6> QED
            BY <4>5, <5>1, <5>3, <6>1
        <5> QED
          BY <5>2, <5>3
      <4> QED
        BY <4>4, <4>5, <4>6
    <3> QED
      BY <2>3, <3>3, <3>4
  <2> QED
    BY <2>1, <2>2
<1> QED
  BY <1>1, RequestsInvariant, PTL

\* For any number of attempts: a refusal means that the attempt changed nothing, a success
\* that the work is done, and work with an idempotency key is done once, whatever was timed
\* out, lost in a crash or tried again (request-timeout.interceptor.ts).
THEOREM AnswersTold == RequestsSpec => []AnswersTellTheEffect
<1>1. ASSUME RequestsInv
      PROVE  AnswersTellTheEffect
  <2> SUFFICES ASSUME NEW n \in Tries
               PROVE  LET a == attempts[n] IN
                 /\ a.answer \in {400, 401, 403, 404, Declined, 429, 503} => ~a.applied
                 /\ a.answer \in Spurned => n \notin lastReceived
                 /\ a.answer = Done /\ a.route.kind = "write" =>
                      \E m \in 1..n : attempts[m].applied
                 /\ a.applied => a.counted \/ a.answer \in {Unanswered, Lost, 408}
                 /\ a.route.keyed => Cardinality({m \in Tries : attempts[m].applied}) <= 1
    BY DEF AnswersTellTheEffect, Tries, Spurned
  <2> DEFINE a == attempts[n]
             D == {m \in Tries : attempts[m].applied}
  <2>1. ASSUME a.applied
        PROVE  a.answer \notin Refusals /\ (a.counted \/ a.answer \in {Unanswered, Lost, 408})
    <3>1. AttemptOK(a, held[n])
      BY <1>1, <2>1, NotMadeYet, MadeAttempt
    <3> QED
      BY <2>1, <3>1 DEF AttemptOK, ProgressOK
  <2>2. a.answer = Done /\ a.route.kind = "write" => \E m \in 1..n : attempts[m].applied
    BY <1>1 DEF RequestsInv, WorkDone
  <2>3. ASSUME a.route.keyed
        PROVE  Cardinality(D) <= 1
    <3>1. \A m \in D : attempts[m].route.keyed
      <4> SUFFICES ASSUME NEW m \in Tries, attempts[m].applied
                   PROVE  attempts[m].route.keyed
        OBVIOUS
      <4>1. attempts[m].pc # "none" /\ attempts[n].pc # "none"
        <5>1. attempts[n] # NotMade
          BY <2>3, NotMadeColumns
        <5> QED
          BY <1>1, <5>1, NotMadeYet DEF RequestsInv, AttemptsOK
      <4>2. m \in Int /\ n \in Int /\ (m = n \/ m < n \/ n < m)
        BY DEF Tries
      <4>3. attempts[m].route = attempts[n].route
        BY <1>1, <4>1, <4>2 DEF RequestsInv, InOrder
      <4> QED
        BY <2>3, <4>3
    <3>2. \A k, m \in D : k = m
      BY <1>1, <3>1 DEF RequestsInv, KeyedOnce
    <3> HIDE DEF D
    <3>3. CASE D = {}
      BY <3>3, FS_EmptySet
    <3>4. CASE D # {}
      <4>1. PICK m \in D : TRUE
        BY <3>4
      <4>2. D = {m}
        BY <3>2, <4>1
      <4> QED
        BY <4>2, FS_Singleton
    <3> QED
      BY <3>3, <3>4
  <2>4. a.answer \in Spurned => n \notin lastReceived
    BY <1>1 DEF RequestsInv, ReceivedOK
  <2> QED
    BY <2>1, <2>2, <2>3, <2>4 DEF Refusals
<1> QED
  BY <1>1, RequestsInvariant, PTL

-----------------------------------------------------------------------------
(* The web application's session.                                          *)

\* A set of numbers has a least one.
LEMMA LeastIsIn ==
  ASSUME NEW S \in SUBSET Nat, S # {}
  PROVE  Min(S) \in S /\ \A y \in S : Min(S) <= y
<1>1. PICK x \in S : \A y \in S : ~(<<y, x>> \in OpToRel(<, Nat))
  BY NatLessThanWellFounded, WFMin
<1>2. \A y \in S : x <= y
  <2> SUFFICES ASSUME NEW y \in S
               PROVE  x <= y
    OBVIOUS
  <2>1. ~(y < x)
    BY <1>1 DEF OpToRel
  <2> QED
    BY <2>1
<1> QED
  BY <1>2 DEF Min

\* What is selected after the effect is listed, unless nothing is.
LEMMA SyncedIsListed ==
  ASSUME NEW current, NEW v
  PROVE  LET s == Synced(current, Joined(v))
         IN  s \in Joined(v) \/ (s = Unset /\ Joined(v) = {})
<1>1. Joined(v) \in SUBSET Nat
  BY WebAssumption DEF Joined
<1>2. Joined(v) # {} => Min(Joined(v)) \in Joined(v)
  BY <1>1, LeastIsIn
<1> QED
  BY <1>2 DEF Synced

\* While the session is loaded nothing is listed and nothing selected.
LEMMA LoadingSelectsNothing ==
  /\ Joined(State("loading", Anonymous)) = {}
  /\ \A current : Synced(current, {}) = Unset
  BY DEF Joined, State, Synced

\* ensureLoaded and fetchSession in whatever order their answers come, sign-in,
\* sign-out, navigation and the workspace filter: token and selection always belong to
\* the session that is shown.
THEOREM TokenOfTheSession == WebSpec => []ShownTogether
<1>1. WebInit => ShownTogether
  BY LoadingSelectsNothing DEF WebInit, ShownTogether, State
<1>2. ShownTogether /\ [WebNext]_webVars => ShownTogether'
  <2> SUFFICES ASSUME ShownTogether, [WebNext]_webVars
               PROVE  ShownTogether'
    OBVIOUS
  <2>1. ASSUME NEW l \in Loads, NEW result, Settles(l, result)
        PROVE  ShownTogether'
    <3>1. /\ view' = result /\ csrfToken' = TokenOf(result)
          /\ selected' = Synced(selected, Joined(result))
      BY <2>1 DEF Settles
    <3>2. Joined(view)' = Joined(result)
      BY <3>1 DEF Joined
    <3> QED
      BY <3>1, <3>2, SyncedIsListed DEF ShownTogether, TokenOf
  <2>2. ASSUME NEW l \in Loads, ArriveLoad(l) \/ FailLoad(l)
        PROVE  ShownTogether'
    BY <2>1, <2>2 DEF ArriveLoad, FailLoad
  <2>3. ASSUME view' = State("loading", Anonymous), selected' = Unset
        PROVE  ShownTogether'
    <3>1. Joined(view)' = {}
      BY <2>3, LoadingSelectsNothing DEF Joined
    <3> QED
      BY <2>3, <3>1 DEF ShownTogether, State
  <2>4. ASSUME SaveAndReload \/ \E o \in WebOrganizations : Join(o)
        PROVE  ShownTogether'
    BY <2>3, <2>4, LoadingSelectsNothing DEF SaveAndReload, Join, Insist
  <2>5. ASSUME SignOut \/ SignIn
        PROVE  ShownTogether'
    BY <2>3, <2>5 DEF SignOut, SignIn, Started
  <2>6. ASSUME UNCHANGED <<view, csrfToken>>,
               selected' = selected \/ selected' \in Joined(view)
        PROVE  ShownTogether'
    <3>1. Joined(view)' = Joined(view)
      BY <2>6 DEF Joined
    <3> QED
      BY <2>6, <3>1 DEF ShownTogether
  <2>7. CASE GuardsAnswer
    BY <2>6, <2>7 DEF GuardsAnswer, Chosen
  <2>8. CASE AfterReload
    BY <2>6, <2>8 DEF AfterReload, Chosen
  <2>9. ASSUME NEW o \in WebOrganizations, SelectOrganization(o)
        PROVE  ShownTogether'
    BY <2>6, <2>9 DEF SelectOrganization, Chosen
  <2>10. CASE \/ \E l \in Loads : ServeLoad(l)
              \/ \E p \in Pages : Navigate(p)
              \/ AccountChanges \/ UNCHANGED webVars
    BY <2>6, <2>10 DEF ServeLoad, Navigate, AccountChanges, webVars
  <2> QED
    BY <2>2, <2>4, <2>5, <2>7, <2>8, <2>9, <2>10 DEF WebNext
<1> QED
  BY <1>1, <1>2, PTL DEF WebSpec

-----------------------------------------------------------------------------
(* The inductive invariant of the sales page.                              *)

Addresses == [query : Queries \cup {Bare, Nothing}, row : Opened]
Named(url) == url.query # Nothing

SalesRecord ==
  [url : Addresses, next : Addresses, version : Nat, options : BOOLEAN,
   shown : Queries \cup {Bare, Nothing}, detail : Opened, loading : BOOLEAN,
   detailLoading : BOOLEAN, error : BOOLEAN]

SalesCalls == [kind : {"options", "data", "detail"}, version : Nat, url : Addresses]

SalesTypeOK == sales \in SalesRecord /\ calls \in SUBSET SalesCalls

\* Addresses without a query are only where the page begins.
AddressesNamed ==
  /\ sales.next = NoAddress \/ Named(sales.next)
  /\ sales.url = NoAddress \/ Named(sales.url)
  /\ sales.detailLoading \/ sales.detail # Nothing => Named(sales.url)

\* One request counts, that of the address; the page is loading until it has come.
Counts(c) ==
  /\ Named(sales.url) /\ c.url = sales.url /\ sales.loading /\ ~sales.error
  /\ c.kind = "detail" => sales.shown = sales.url.query

CallsInOrder ==
  /\ \A c \in calls : c.version <= sales.version /\ (SalesCurrent(c) => Counts(c))
  /\ \A c, d \in calls : SalesCurrent(c) /\ SalesCurrent(d) => c = d

SalesInv == SalesTypeOK /\ AddressesNamed /\ CallsInOrder /\ SalesShowsAddress

\* The page that is not open has not moved.
WorkspaceInv ==
  /\ open \in {"sales", "operations"}
  /\ open = "sales" => SalesInv
  /\ open = "operations" => sales.loading

-----------------------------------------------------------------------------
\* A new address: older requests no longer count, and nothing is claimed until the new
\* one has come.
LEMMA SynchronizeStep ==
  ASSUME SalesInv, NEW url \in Addresses, Named(url), SalesSynchronize(url)
  PROVE  SalesInv'
<1>1. sales \in SalesRecord /\ sales.version \in Nat /\ calls \in SUBSET SalesCalls
  BY DEF SalesInv, SalesTypeOK, SalesRecord
<1>2. PICK v \in Nat : v = sales.version + 1
  BY <1>1
<1>3. PICK new \in SalesCalls :
        /\ calls' = calls \cup {new} /\ new.version = v /\ new.url = url
        /\ new.kind # "detail"
  <2> DEFINE new == [kind |-> IF sales.options THEN "data" ELSE "options",
                     version |-> v, url |-> url]
  <2>1. calls' = calls \cup {new}
    BY <1>2 DEF SalesSynchronize, Call
  <2>2. new \in SalesCalls /\ new.kind # "detail"
    BY DEF SalesCalls
  <2> QED
    BY <2>1, <2>2
<1>4. /\ sales' \in SalesRecord /\ sales'.url = url /\ sales'.next = NoAddress
      /\ sales'.version = v /\ sales'.loading = TRUE /\ sales'.error = FALSE
  <2>1. sales' = [sales EXCEPT !.url = url, !.next = NoAddress, !.version = v,
                               !.loading = TRUE, !.error = FALSE]
    BY <1>2 DEF SalesSynchronize
  <2>2. NoAddress \in Addresses
    BY DEF NoAddress, Addresses, Opened
  <2> QED
    BY <1>1, <2>1, <2>2 DEF SalesRecord
<1>5. SalesTypeOK' /\ AddressesNamed' /\ SalesShowsAddress'
  BY <1>1, <1>3, <1>4 DEF SalesTypeOK, AddressesNamed, Named, SalesShowsAddress
<1>6. \A c \in calls : c.version <= sales.version /\ c.version \in Nat
  BY <1>1 DEF SalesInv, CallsInOrder, SalesCalls
<1>7. \A c \in calls' : c.version <= v /\ (c.version = v => c = new)
  BY <1>1, <1>2, <1>3, <1>6
<1>8. CallsInOrder'
  BY <1>3, <1>4, <1>7 DEF CallsInOrder, SalesCurrent, Counts, Named
<1> QED
  BY <1>5, <1>8 DEF SalesInv

\* An answer that does not count is dropped.
LEMMA LateAnswer ==
  ASSUME SalesInv, NEW c \in calls, sales' = sales, calls' = calls \ {c}
  PROVE  SalesInv'
  BY DEF SalesInv, SalesTypeOK, AddressesNamed, CallsInOrder, SalesCurrent, Counts,
         SalesShowsAddress

\* The last answer of the address: no request counts any more.
LEMMA LastAnswer ==
  ASSUME SalesInv, NEW c \in calls, SalesCurrent(c), calls' = calls \ {c},
         sales' \in SalesRecord, sales'.url = sales.url, sales'.version = sales.version,
         sales'.next = NoAddress \/ Named(sales'.next), SalesShowsAddress'
  PROVE  SalesInv'
<1>1. SalesTypeOK'
  BY DEF SalesInv, SalesTypeOK
<1>2. AddressesNamed'
  BY DEF SalesInv, AddressesNamed, CallsInOrder, Counts, Named
<1>3. \A d \in calls' : d \in calls /\ ~SalesCurrent(d)' /\ d.version <= sales'.version
  BY DEF SalesInv, CallsInOrder, SalesCurrent
<1>4. CallsInOrder'
  BY <1>3 DEF CallsInOrder
<1> QED
  BY <1>1, <1>2, <1>4 DEF SalesInv

\* An answer after which the page asks for more.
LEMMA NextRequest ==
  ASSUME SalesInv, NEW c \in calls, SalesCurrent(c), NEW kind \in {"data", "detail"},
         calls' = (calls \ {c}) \cup {[c EXCEPT !.kind = kind]},
         sales' \in SalesRecord, sales'.url = sales.url, sales'.version = sales.version,
         sales'.next = sales.next, sales'.loading = sales.loading,
         sales'.error = sales.error, kind = "detail" => sales'.shown = sales.url.query
  PROVE  SalesInv'
<1> DEFINE e == [c EXCEPT !.kind = kind]
<1>1. /\ e \in SalesCalls /\ e.kind = kind /\ e.version = c.version /\ e.url = c.url
      /\ calls \in SUBSET SalesCalls
  BY DEF SalesInv, SalesTypeOK, SalesCalls
<1> HIDE DEF e
<1>2. calls' = (calls \ {c}) \cup {e}
  BY DEF e
<1>3. Counts(c) /\ sales.loading /\ c.version = sales.version
  BY DEF SalesInv, CallsInOrder, SalesCurrent, Counts
<1>4. SalesTypeOK'
  BY <1>1, <1>2 DEF SalesTypeOK
<1>5. AddressesNamed' /\ SalesShowsAddress'
  BY <1>3 DEF SalesInv, AddressesNamed, Named, Counts, SalesShowsAddress
<1>6. \A d \in calls' : \/ d = e
                        \/ d \in calls /\ ~SalesCurrent(d)' /\ d.version <= sales'.version
  BY <1>2 DEF SalesInv, CallsInOrder, SalesCurrent
<1>7. Counts(e)' /\ e.version <= sales'.version
  <2>1. c.version <= sales.version
    BY DEF SalesInv, CallsInOrder
  <2> QED
    BY <1>1, <1>3, <2>1 DEF Counts, Named
<1>8. CallsInOrder'
  BY <1>6, <1>7 DEF CallsInOrder, SalesCurrent
<1> QED
  BY <1>4, <1>5, <1>8 DEF SalesInv

\* What an answer brings.
LEMMA AnswersStep ==
  ASSUME SalesInv, NEW c \in calls,
         SalesOptionsCome(c) \/ SalesDataComes(c) \/ SalesDetailComes(c) \/ SalesFails(c)
  PROVE  SalesInv'
<1>1. CASE ~SalesCurrent(c)
  BY <1>1, LateAnswer DEF SalesOptionsCome, SalesDataComes, SalesDetailComes, SalesFails
<1>2. CASE SalesCurrent(c)
  <2>1. /\ sales \in SalesRecord /\ c \in SalesCalls /\ Counts(c) /\ c.url = sales.url
        /\ Named(sales.url) /\ sales.url \in Addresses /\ sales.url # NoAddress
    BY <1>2 DEF SalesInv, SalesTypeOK, SalesRecord, CallsInOrder, Counts, Named, NoAddress
  <2>2. CASE SalesOptionsCome(c) /\ c.url.query = Bare
    <3> DEFINE next == [query |-> Preset, row |-> c.url.row]
    <3>1. /\ sales' = [sales EXCEPT !.options = TRUE, !.loading = FALSE, !.next = next]
          /\ calls' = calls \ {c}
      BY <1>2, <2>2 DEF SalesOptionsCome
    <3>2. next \in Addresses /\ Named(next) /\ next # NoAddress
      BY <2>1, WorkspaceAssumption DEF Addresses, Named, NoAddress
    <3> HIDE DEF next
    <3>3. /\ sales' \in SalesRecord /\ sales'.url = sales.url /\ sales'.next = next
          /\ sales'.version = sales.version
      BY <2>1, <3>1, <3>2 DEF SalesRecord
    <3>4. SalesShowsAddress'
      BY <3>2, <3>3 DEF SalesShowsAddress
    <3> QED
      BY <1>2, <3>1, <3>2, <3>3, <3>4, LastAnswer
  <2>3. CASE SalesOptionsCome(c) /\ c.url.query # Bare
    <3>1. /\ sales' = [sales EXCEPT !.options = TRUE]
          /\ calls' = (calls \ {c}) \cup {[c EXCEPT !.kind = "data"]}
      BY <1>2, <2>3 DEF SalesOptionsCome
    <3>2. /\ sales' \in SalesRecord /\ sales'.url = sales.url /\ sales'.next = sales.next
          /\ sales'.version = sales.version /\ sales'.loading = sales.loading
          /\ sales'.error = sales.error
      BY <2>1, <3>1 DEF SalesRecord
    <3> QED
      BY <1>2, <3>1, <3>2, NextRequest
  <2>4. CASE SalesDataComes(c) /\ c.url.row = Nothing
    <3>1. /\ sales' = [sales EXCEPT !.shown = c.url.query, !.detail = Nothing,
                                    !.loading = FALSE]
          /\ calls' = calls \ {c}
      BY <1>2, <2>4 DEF SalesDataComes
    <3>2. /\ sales' \in SalesRecord /\ sales'.url = sales.url /\ sales'.next = sales.next
          /\ sales'.version = sales.version /\ sales'.shown = sales.url.query
          /\ sales'.detail = Nothing
      BY <2>1, <3>1 DEF SalesRecord, Addresses, Opened
    <3>3. SalesShowsAddress' /\ (sales.next = NoAddress \/ Named(sales.next))
      BY <3>2 DEF SalesShowsAddress, SalesInv, AddressesNamed
    <3> QED
      BY <1>2, <3>1, <3>2, <3>3, LastAnswer
  <2>5. CASE SalesDataComes(c) /\ c.url.row # Nothing
    <3>1. /\ sales' = [sales EXCEPT !.shown = c.url.query, !.detailLoading = TRUE]
          /\ calls' = (calls \ {c}) \cup {[c EXCEPT !.kind = "detail"]}
      BY <1>2, <2>5 DEF SalesDataComes
    <3>2. /\ sales' \in SalesRecord /\ sales'.url = sales.url /\ sales'.next = sales.next
          /\ sales'.version = sales.version /\ sales'.loading = sales.loading
          /\ sales'.error = sales.error /\ sales'.shown = sales.url.query
      BY <2>1, <3>1 DEF SalesRecord, Addresses
    <3> QED
      BY <1>2, <3>1, <3>2, NextRequest
  <2>6. CASE SalesDetailComes(c)
    <3>1. /\ sales' = [sales EXCEPT !.detail = c.url.row, !.detailLoading = FALSE,
                                    !.loading = FALSE]
          /\ calls' = calls \ {c} /\ c.kind = "detail"
      BY <1>2, <2>6 DEF SalesDetailComes
    <3>2. /\ sales' \in SalesRecord /\ sales'.url = sales.url /\ sales'.next = sales.next
          /\ sales'.version = sales.version /\ sales'.shown = sales.shown
          /\ sales'.detail = sales.url.row
      BY <2>1, <3>1 DEF SalesRecord, Addresses
    <3>3. SalesShowsAddress' /\ (sales.next = NoAddress \/ Named(sales.next))
      BY <2>1, <3>1, <3>2 DEF SalesShowsAddress, SalesInv, AddressesNamed, Counts
    <3> QED
      BY <1>2, <3>1, <3>2, <3>3, LastAnswer
  <2>7. CASE SalesFails(c) /\ c.kind = "detail"
    <3> DEFINE next == [sales.url EXCEPT !.row = Nothing]
    <3>1. /\ sales' = [sales EXCEPT !.detailLoading = FALSE, !.loading = FALSE,
                                    !.next = next]
          /\ calls' = calls \ {c}
      BY <1>2, <2>7 DEF SalesFails
    <3>2. next \in Addresses /\ Named(next) /\ next # NoAddress
      BY <2>1 DEF Addresses, Opened, Named, NoAddress
    <3> HIDE DEF next
    <3>3. /\ sales' \in SalesRecord /\ sales'.url = sales.url /\ sales'.next = next
          /\ sales'.version = sales.version
      BY <2>1, <3>1, <3>2 DEF SalesRecord
    <3>4. SalesShowsAddress'
      BY <3>2, <3>3 DEF SalesShowsAddress
    <3> QED
      BY <1>2, <3>1, <3>2, <3>3, <3>4, LastAnswer
  <2>8. CASE SalesFails(c) /\ c.kind # "detail"
    <3>1. /\ sales' = [sales EXCEPT !.error = TRUE, !.loading = FALSE]
          /\ calls' = calls \ {c}
      BY <1>2, <2>8 DEF SalesFails
    <3>2. /\ sales' \in SalesRecord /\ sales'.url = sales.url /\ sales'.next = sales.next
          /\ sales'.version = sales.version /\ sales'.error
      BY <2>1, <3>1 DEF SalesRecord
    <3>3. SalesShowsAddress' /\ (sales.next = NoAddress \/ Named(sales.next))
      BY <3>2 DEF SalesShowsAddress, SalesInv, AddressesNamed
    <3> QED
      BY <1>2, <3>1, <3>2, <3>3, LastAnswer
  <2> QED
    BY <2>2, <2>3, <2>4, <2>5, <2>6, <2>7, <2>8
<1> QED
  BY <1>1, <1>2

\* closeOrder leaves the page to the navigation it begins.
LEMMA CloseStep ==
  ASSUME SalesInv, SalesClose
  PROVE  SalesInv'
<1> DEFINE next == [sales.url EXCEPT !.row = Nothing]
<1>1. /\ sales \in SalesRecord /\ Named(sales.url) /\ sales.url \in Addresses
      /\ sales' = [sales EXCEPT !.detailLoading = FALSE, !.detail = Nothing, !.next = next]
      /\ calls' = calls
  BY DEF SalesClose, SalesInv, SalesTypeOK, SalesRecord, AddressesNamed
<1>2. next \in Addresses /\ Named(next) /\ next # NoAddress
  BY <1>1 DEF Addresses, Opened, Named, NoAddress
<1> HIDE DEF next
<1>3. /\ sales' \in SalesRecord /\ sales'.url = sales.url /\ sales'.next = next
      /\ sales'.version = sales.version /\ sales'.loading = sales.loading
      /\ sales'.error = sales.error /\ sales'.shown = sales.shown
  BY <1>1, <1>2 DEF SalesRecord, Opened
<1>4. SalesTypeOK' /\ AddressesNamed' /\ SalesShowsAddress'
  BY <1>1, <1>2, <1>3 DEF SalesInv, SalesTypeOK, AddressesNamed, Named, SalesShowsAddress
<1>5. CallsInOrder'
  BY <1>1, <1>3 DEF SalesInv, CallsInOrder, SalesCurrent, Counts, Named
<1> QED
  BY <1>4, <1>5 DEF SalesInv

\* Every step of the sales page keeps the invariant.
LEMMA SalesStep ==
  ASSUME SalesInv, SalesNext
  PROVE  SalesInv'
<1>1. sales \in SalesRecord /\ sales.url \in Addresses /\ sales.next \in Addresses
      /\ AddressesNamed
  BY DEF SalesInv, SalesTypeOK, SalesRecord
<1>2. CASE SalesNavigate
  <2>1. PICK q \in Queries, row \in Opened :
          SalesSynchronize([query |-> q, row |-> row])
    BY <1>2 DEF SalesNavigate
  <2>2. [query |-> q, row |-> row] \in Addresses /\ Named([query |-> q, row |-> row])
    BY WorkspaceAssumption DEF Addresses, Named
  <2> QED
    BY <2>1, <2>2, SynchronizeStep
<1>3. CASE SalesArrive
  <2>1. LET url == [query |-> Bare, row |-> Nothing]
        IN  url \in Addresses /\ Named(url)
    BY WorkspaceAssumption DEF Addresses, Opened, Named
  <2> QED
    BY <1>3, <2>1, SynchronizeStep DEF SalesArrive
<1>4. CASE SalesRedirect \/ SalesRetry
  BY <1>1, <1>4, SynchronizeStep DEF SalesRedirect, SalesRetry, AddressesNamed
<1> QED
  BY <1>2, <1>3, <1>4, AnswersStep, CloseStep DEF SalesNext

\* synchronize, closeOrder and their requests, whose answers come in any order or fail:
\* a sales page that has stopped loading shows what its address says.
THEOREM SalesFollowsAddress == WorkspaceSpec => []SalesShowsAddress
<1>1. WorkspaceInit => WorkspaceInv
  <2> SUFFICES ASSUME WorkspaceInit
               PROVE  WorkspaceInv
    OBVIOUS
  <2>1. NoAddress \in Addresses
    BY DEF NoAddress, Addresses, Opened
  <2>2. /\ sales \in SalesRecord /\ calls = {} /\ sales.loading /\ ~sales.detailLoading
        /\ sales.detail = Nothing /\ sales.url = NoAddress /\ sales.next = NoAddress
    BY <2>1 DEF WorkspaceInit, SalesRecord, Opened
  <2>3. SalesInv
    BY <2>2 DEF SalesInv, SalesTypeOK, AddressesNamed, CallsInOrder, SalesShowsAddress
  <2> QED
    BY <2>2, <2>3 DEF WorkspaceInit, WorkspaceInv
<1>2. WorkspaceInv /\ [WorkspaceNext]_workspaceVars => WorkspaceInv'
  <2> SUFFICES ASSUME WorkspaceInv, [WorkspaceNext]_workspaceVars
               PROVE  WorkspaceInv'
    OBVIOUS
  <2>1. CASE open = "sales" /\ SalesNext /\ UNCHANGED open
    BY <2>1, SalesStep DEF WorkspaceInv
  <2>2. CASE open = "operations" /\ OperationsNext /\ UNCHANGED open
    BY <2>2 DEF WorkspaceInv, OperationsNext, OperationsNavigate, OperationsReload,
                OperationsAct, OperationsOpen, OperationsDataComes, OperationsFails
  <2>3. CASE UNCHANGED workspaceVars
    BY <2>3 DEF WorkspaceInv, workspaceVars, SalesInv, SalesTypeOK, AddressesNamed,
                CallsInOrder, SalesCurrent, Counts, SalesShowsAddress
  <2> QED
    BY <2>1, <2>2, <2>3 DEF WorkspaceNext
<1>3. WorkspaceInv => SalesShowsAddress
  BY DEF WorkspaceInv, SalesInv, SalesShowsAddress
<1> QED
  BY <1>1, <1>2, <1>3, PTL DEF WorkspaceSpec

-----------------------------------------------------------------------------
(* Reporting periods: the dates an answer is about.                        *)

\* A count of leap days is a number, whatever years they lie in.
LEMMA LeapDaysCounted ==
  ASSUME NEW y \in Nat, NEW m \in Nat
  PROVE  Cardinality(LeapDays(y, m)) \in Nat
<1>1. ASSUME NEW l \in LeapDays(y, m)
      PROVE  l \in 0..y
  <2>1. l \in Nat
    BY PeriodsAssumption DEF LeapDays
  <2>2. l < y \/ l = y
    BY DEF LeapDays
  <2> QED
    BY <2>1, <2>2
<1>2. IsFiniteSet(0..y)
  BY FS_Interval
<1>3. IsFiniteSet(LeapDays(y, m))
  BY <1>1, <1>2, FS_Subset
<1> QED
  BY <1>3, FS_CardinalityType

\* A month begins on a day, and the month number n no earlier than n days after day 1.
LEMMA FirstDayIsLate ==
  ASSUME NEW y \in Nat, NEW m \in Nat
  PROVE  FirstDay(y, m) \in Nat /\ FirstDay(y, m) >= 1 + 12 * y + m
<1> DEFINE n == 12 * y + m
<1>1. n \in Nat
  OBVIOUS
<1>2. n * MonthDays \in Nat /\ n * MonthDays >= n
  <2> HIDE DEF n
  <2>1. \A a, b \in Nat : b # 0 => a * b \in Nat /\ a * b >= a
    OBVIOUS
  <2> QED
    BY <1>1, <2>1, PeriodsAssumption
<1>3. Cardinality(LeapDays(y, m)) \in Nat
  BY LeapDaysCounted
<1> QED
  BY <1>1, <1>2, <1>3 DEF FirstDay

\* Year 0 begins on day 1.
LEMMA YearZero == FirstDay(0, 0) = 1
<1>1. ASSUME NEW l \in LeapDays(0, 0)
      PROVE  FALSE
  <2>1. l \in Nat
    BY PeriodsAssumption DEF LeapDays
  <2>2. l < 0
    BY DEF LeapDays
  <2> QED
    BY <2>1, <2>2
<1>2. Cardinality(LeapDays(0, 0)) = 0
  BY <1>1, FS_EmptySet
<1>3. (12 * 0 + 0) * MonthDays = 0
  BY PeriodsAssumption
<1> QED
  BY <1>2, <1>3 DEF FirstDay

\* Every day lies in a year.
LEMMA YearIsFound ==
  ASSUME NEW day \in Nat, day >= 1
  PROVE  /\ YearOf(day) \in Nat
         /\ FirstDay(YearOf(day), 0) <= day
<1> DEFINE S == {y \in Nat : day < FirstDay(y + 1, 0)}
<1>1. day \in S
  <2>1. FirstDay(day + 1, 0) >= 1 + 12 * (day + 1) + 0
    BY FirstDayIsLate
  <2>2. FirstDay(day + 1, 0) \in Nat
    BY FirstDayIsLate
  <2> QED
    BY <2>1, <2>2
<1>2. Min(S) \in S
  BY <1>1, LeastIsIn
<1>3. \A y \in S : Min(S) <= y
  BY <1>1, LeastIsIn
<1> DEFINE w == Min(S)
<1>4. w \in Nat /\ w <= day /\ day < FirstDay(w + 1, 0)
  BY <1>1, <1>2, <1>3
<1>5. FirstDay(w, 0) <= day
  <2>1. CASE w = 0
    BY <2>1, YearZero
  <2>2. CASE w # 0
    <3> HIDE DEF w
    <3>1. w - 1 \in Nat /\ w - 1 < w /\ (w - 1) + 1 = w
      BY <1>4, <2>2
    <3>2. w - 1 \notin S
      BY <3>1, <1>3, <1>4 DEF w
    <3>3. ~(day < FirstDay(w, 0))
      BY <3>1, <3>2
    <3>4. FirstDay(w, 0) \in Nat
      BY <1>4, FirstDayIsLate
    <3> QED
      BY <3>3, <3>4
  <2> QED
    BY <2>1, <2>2
<1>6. w \in 0..day
  BY <1>4
<1> HIDE DEF w
<1>7. \E y \in 0..day : FirstDay(y, 0) <= day /\ day < FirstDay(y + 1, 0)
  BY <1>4, <1>5, <1>6
<1> QED
  BY <1>7 DEF YearOf

\* Every day lies in a month.
LEMMA MonthIsFound ==
  ASSUME NEW day \in Nat, day >= 1
  PROVE  MonthOf(day) \in 0..11
<1> DEFINE S == {m \in 0..11 : FirstDay(YearOf(day), m) <= day}
           R == {11 - m : m \in S}
<1>1. 0 \in S
  BY YearIsFound
<1>2. 11 \in R /\ R \in SUBSET Nat
  BY <1>1
<1>3. PICK x \in R : \A y \in R : ~(<<y, x>> \in OpToRel(<, Nat))
  BY <1>2, NatLessThanWellFounded, WFMin
<1>4. PICK k \in S : x = 11 - k
  BY <1>3
<1>5. \A m \in S : m <= k
  <2> SUFFICES ASSUME NEW m \in S
               PROVE  m <= k
    OBVIOUS
  <2>1. ~(11 - m < 11 - k)
    BY <1>2, <1>3, <1>4 DEF OpToRel
  <2> QED
    BY <2>1
<1>6. Max(S) \in S
  BY <1>4, <1>5 DEF Max
<1> QED
  BY <1>6 DEF MonthOf

\* The ranges a preset stands for are dates, and both are there.
LEMMA PresetIsComplete ==
  ASSUME NEW p \in Presets, NEW d \in Days
  PROVE  LET r == DateRangeForPreset(p, d)
         IN  r.from \in Nat /\ r.to \in Nat /\ Complete(r)
<1> DEFINE tomorrow == d + 1
<1>1. /\ d \in Nat /\ d >= 1 /\ tomorrow \in Nat /\ tomorrow >= 1
      /\ ShortDays \in Nat /\ LongDays \in Nat /\ ShortDays <= d /\ LongDays <= d
  BY PeriodsAssumption
<1>2. YearOf(tomorrow) \in Nat
  BY <1>1, YearIsFound
<1>3. CASE p = "last-7-days"
  BY <1>1, <1>3 DEF DateRangeForPreset, Period, Complete, Missing
<1>4. CASE p = "last-30-days"
  BY <1>1, <1>4 DEF DateRangeForPreset, Period, Complete, Missing
<1>5. CASE p = "quarter-to-date"
  <2> DEFINE m == 3 * (MonthOf(d) \div 3)
             from == FirstDay(YearOf(tomorrow), m)
  <2>1. m \in Nat
    BY <1>1, MonthIsFound
  <2>2. from \in Nat /\ from >= 1 + 12 * YearOf(tomorrow) + m
    BY <1>2, <2>1, FirstDayIsLate
  <2>3. from # 0
    BY <1>2, <2>1, <2>2
  <2>4. DateRangeForPreset(p, d) = Period(from, tomorrow)
    BY <1>5 DEF DateRangeForPreset
  <2> QED
    BY <1>1, <2>2, <2>3, <2>4 DEF Period, Complete, Missing
<1>6. CASE p = "year-to-date"
  <2> DEFINE from == FirstDay(YearOf(tomorrow), 0)
  <2>1. from \in Nat /\ from >= 1 + 12 * YearOf(tomorrow) + 0
    BY <1>2, FirstDayIsLate
  <2>2. from # 0
    BY <1>2, <2>1
  <2>3. DateRangeForPreset(p, d) = Period(from, tomorrow)
    BY <1>6 DEF DateRangeForPreset
  <2> QED
    BY <1>1, <2>1, <2>2, <2>3 DEF Period, Complete, Missing
<1> QED
  BY <1>3, <1>4, <1>5, <1>6 DEF Presets

-----------------------------------------------------------------------------
Ranges == [from : Nat, to : Nat]
DatedAddresses == [range : Ranges, by : {"link", "user", "preset"}]
PeriodVerdicts ==
  [state : {"nothing", "accepted", "refused", "cursor", "key reused"},
   range : [from : Int, to : Int]]
KeptExports == [sent : Ranges, kept : PeriodVerdicts, repeated : PeriodVerdicts]

PeriodsTypeOK ==
  /\ today \in Days
  /\ preset \in Presets
  /\ address \in DatedAddresses
  /\ answered \in PeriodVerdicts
  /\ export \in KeptExports

\* What is answered tells: its period is whole, and that of an address with both dates.
AnswerWhole ==
  answered.state = "accepted" =>
    /\ Whole(answered.range)
    /\ Complete(address.range) => answered.range = address.range

\* The sales page asks for an address with both dates, and the API's verdict on it
\* does not depend on the day.
SalesOK ==
  openPage = "sales" =>
    /\ Complete(address.range)
    /\ \/ answered.state = "nothing"
       \/ \E d \in Days : answered = NormalizeFilter(address.range, d)

\* What is kept of an export is what the API made of it on some day.
ExportOK ==
  /\ export.kept.state = "accepted" =>
       \E d \in Days : export.kept = NormalizeFilter(export.sent, d)
  /\ Complete(export.sent) => export.repeated.state # "key reused"

PeriodsInv == PeriodsTypeOK /\ AnswerWhole /\ SalesOK /\ ExportOK

\* No verdict, or a refusal, is a verdict of no period.
LEMMA WithoutPeriod ==
  /\ NoVerdict \in PeriodVerdicts /\ NoVerdict.state = "nothing"
  /\ \A why \in {"cursor", "key reused"} :
       Refused(why) \in PeriodVerdicts /\ Refused(why).state = why
  BY DEF NoVerdict, Refused, Verdict, PeriodVerdicts, Period, Missing

\* normalizeFilter refuses, or accepts a whole period; of two dates it changes neither.
LEMMA NormalizedRange ==
  ASSUME NEW r \in Ranges, NEW d \in Days
  PROVE  LET v == NormalizeFilter(r, d)
         IN  /\ v \in PeriodVerdicts /\ v.state \in {"accepted", "refused"}
             /\ v.state = "accepted" => Whole(v.range)
             /\ v.state = "accepted" /\ Complete(r) => v.range = r
<1> DEFINE from == Given(r.from, DefaultDateRange(d).from)
           to == Given(r.to, DefaultDateRange(d).to)
<1>1. d \in Nat /\ LongDays \in Nat /\ MaxRange \in Nat
  BY PeriodsAssumption
<1>2. from \in Int /\ to \in Int
  BY <1>1 DEF Given, DefaultDateRange, Period, Ranges
<1>3. NormalizeFilter(r, d) =
        IF ~ValidDate(from) \/ ~ValidDate(to) \/ from >= to \/ to - from > MaxRange
        THEN Refused("refused") ELSE Verdict("accepted", Period(from, to))
  BY DEF NormalizeFilter
<1>4. Complete(r) => Period(from, to) = r
  BY DEF Complete, Given, Period, Ranges
<1> HIDE DEF from, to
<1>5. CASE ~ValidDate(from) \/ ~ValidDate(to) \/ from >= to \/ to - from > MaxRange
  BY <1>3, <1>5 DEF Refused, Verdict, PeriodVerdicts, Period, Missing
<1>6. CASE ~(~ValidDate(from) \/ ~ValidDate(to) \/ from >= to \/ to - from > MaxRange)
  <2>1. Whole(Period(from, to))
    BY <1>1, <1>2, <1>6 DEF Whole, Period
  <2> QED
    BY <1>2, <1>3, <1>4, <1>6, <2>1 DEF Verdict, PeriodVerdicts, Period
<1> QED
  BY <1>5, <1>6

\* With both dates it is the same verdict on every day.
LEMMA SameOnEveryDay ==
  ASSUME NEW r, Complete(r), NEW d, NEW e
  PROVE  NormalizeFilter(r, d) = NormalizeFilter(r, e)
  BY DEF NormalizeFilter, Given, Complete

\* The query of a page is a range; the sales page's is its address, and so is the
\* operations page's when both dates are there.
LEMMA QueryOfAddress ==
  ASSUME PeriodsTypeOK
  PROVE  /\ PageQuery \in Ranges
         /\ Complete(address.range) => PageQuery = address.range
<1>1. LET f == DateRangeForPreset(preset, today) IN f.from \in Nat /\ f.to \in Nat
  BY PresetIsComplete DEF PeriodsTypeOK
<1>2. address.range \in Ranges
  BY DEF PeriodsTypeOK, DatedAddresses
<1>3. QueryFrom(address.range, today) \in Ranges
  BY <1>1, <1>2 DEF QueryFrom, Period, Given, Ranges
<1>4. Complete(address.range) => QueryFrom(address.range, today) = address.range
  BY <1>2 DEF QueryFrom, Period, Given, Ranges, Complete
<1> QED
  BY <1>2, <1>3, <1>4 DEF PageQuery

\* On some day: what is answered now is accounted for by today.
LEMMA AnswerOfToday ==
  ASSUME PeriodsInv
  PROVE  LET v == NormalizeFilter(PageQuery, today)
         IN  /\ v \in PeriodVerdicts /\ v.state \in {"accepted", "refused"}
             /\ v.state = "accepted" => /\ Whole(v.range)
                                        /\ Complete(address.range) => v.range = address.range
             /\ openPage = "sales" => v = NormalizeFilter(address.range, today)
<1>1. today \in Days /\ PageQuery \in Ranges
      /\ (Complete(address.range) => PageQuery = address.range)
  BY QueryOfAddress DEF PeriodsInv, PeriodsTypeOK
<1>2. openPage = "sales" => Complete(address.range)
  BY DEF PeriodsInv, SalesOK
<1> QED
  BY <1>1, <1>2, NormalizedRange

\* A page is opened, or gets another range: it has no answer yet.
LEMMA PageOpens ==
  ASSUME PeriodsInv, NEW name \in {"sales", "operations"},
         NEW a \in DatedAddresses, OpenPage(name, a)
  PROVE  PeriodsInv'
<1>1. /\ Filled(a, today) \in DatedAddresses
      /\ Complete(Filled(a, today).range)
  <2>1. LET f == DateRangeForPreset(preset, today)
        IN  f.from \in Nat /\ f.to \in Nat /\ Complete(f)
    BY PresetIsComplete DEF PeriodsInv, PeriodsTypeOK
  <2>2. DateRangeForPreset(preset, today) \in Ranges
    BY <2>1 DEF DateRangeForPreset, Period, Ranges
  <2> QED
    BY <2>1, <2>2 DEF Filled, Address, DatedAddresses
<1>2. /\ address' \in DatedAddresses
      /\ name = "sales" => Complete(address'.range)
  BY <1>1 DEF OpenPage
<1>3. /\ openPage' = name /\ answered' \in PeriodVerdicts /\ answered'.state = "nothing"
      /\ UNCHANGED <<today, preset, export>>
  BY WithoutPeriod DEF OpenPage
<1> QED
  BY <1>2, <1>3 DEF PeriodsInv, PeriodsTypeOK, AnswerWhole, SalesOK, ExportOK

\* The preset is changed; an analytical page gets its range.
LEMMA PresetSelected ==
  ASSUME PeriodsInv, NEW p \in Presets, SelectDatePreset(p)
  PROVE  PeriodsInv'
<1>1. LET f == DateRangeForPreset(p, today)
      IN  f.from \in Nat /\ f.to \in Nat /\ Complete(f)
  BY PresetIsComplete DEF PeriodsInv, PeriodsTypeOK
<1>2. DateRangeForPreset(p, today) \in Ranges
  BY <1>1 DEF DateRangeForPreset, Period, Ranges
<1>3. preset' = p /\ UNCHANGED <<today, openPage, export>>
  BY DEF SelectDatePreset
<1>4. CASE openPage \in {"sales", "operations"}
  <2>1. address' = Address(DateRangeForPreset(p, today), "preset") /\ answered' = NoVerdict
    BY <1>4 DEF SelectDatePreset
  <2>2. address' \in DatedAddresses
        /\ Complete(address'.range)
    BY <1>1, <1>2, <2>1 DEF Address, DatedAddresses
  <2>3. answered' \in PeriodVerdicts /\ answered'.state = "nothing"
    BY <2>1, WithoutPeriod
  <2> QED
    BY <1>3, <2>2, <2>3 DEF PeriodsInv, PeriodsTypeOK, AnswerWhole, SalesOK, ExportOK
<1>5. CASE openPage \notin {"sales", "operations"}
  <2>1. UNCHANGED <<address, answered>>
    BY <1>5 DEF SelectDatePreset
  <2> QED
    BY <1>3, <1>5, <2>1 DEF PeriodsInv, PeriodsTypeOK, AnswerWhole, SalesOK, ExportOK
<1> QED
  BY <1>4, <1>5

\* An export is asked for and repeated.
LEMMA ExportStep ==
  ASSUME PeriodsInv,
         \/ Repeat
         \/ \E from, to \in Typed : Enqueue(Period(from, to))
  PROVE  PeriodsInv'
<1>1. UNCHANGED <<today, preset, openPage, address, answered>>
  BY DEF Repeat, Enqueue
<1>2. AnswerWhole' /\ SalesOK'
  BY <1>1 DEF PeriodsInv, AnswerWhole, SalesOK
<1>3. ASSUME NEW from \in Typed, NEW to \in Typed, Enqueue(Period(from, to))
      PROVE  export' \in KeptExports /\ ExportOK'
  <2>1. Period(from, to) \in Ranges
    BY PeriodsAssumption DEF Period, Ranges
  <2>2. /\ export'.sent = Period(from, to)
        /\ export'.kept = NormalizeFilter(Period(from, to), today)
        /\ export'.repeated = NoVerdict
    BY <1>3 DEF Enqueue
  <2>3. today \in Days
    BY DEF PeriodsInv, PeriodsTypeOK
  <2> QED
    BY <1>3, <2>1, <2>2, <2>3, NormalizedRange, WithoutPeriod DEF Enqueue, ExportOK, KeptExports
<1>4. ASSUME Repeat
      PROVE  export' \in KeptExports /\ ExportOK'
  <2> DEFINE again == NormalizeFilter(export.sent, today)
  <2>1. PICK d \in Days : export.kept = NormalizeFilter(export.sent, d)
    BY <1>4 DEF Repeat, PeriodsInv, ExportOK
  <2>2. export' = [export EXCEPT !.repeated =
                     IF again = export.kept THEN again ELSE Refused("key reused")]
    BY <1>4 DEF Repeat
  <2>3. export \in KeptExports /\ today \in Days
    BY DEF PeriodsInv, PeriodsTypeOK
  <2>4. again \in PeriodVerdicts /\ again.state \in {"accepted", "refused"}
    BY <2>3, NormalizedRange DEF KeptExports
  <2>5. Complete(export.sent) => again = export.kept
    BY <2>1, SameOnEveryDay
  <2> QED
    <3> HIDE DEF again
    <3>1. /\ export'.sent = export.sent /\ export'.kept = export.kept
          /\ export'.repeated = IF again = export.kept THEN again ELSE Refused("key reused")
      BY <2>2, <2>3 DEF KeptExports
    <3>2. export' \in KeptExports
      BY <2>2, <2>3, <2>4, WithoutPeriod DEF KeptExports
    <3>3. Complete(export'.sent) => export'.repeated.state # "key reused"
      BY <3>1, <2>4, <2>5
    <3> QED
      BY <2>1, <3>1, <3>2, <3>3 DEF ExportOK
<1> QED
  BY <1>1, <1>2, <1>3, <1>4 DEF PeriodsInv, PeriodsTypeOK

\* The pages ask, and ask for the next page of what they got.
LEMMA PeriodAnswered ==
  ASSUME PeriodsInv, LoadPeriod \/ NextPage
  PROVE  PeriodsInv'
<1> DEFINE v == NormalizeFilter(PageQuery, today)
<1>1. UNCHANGED <<today, preset, openPage, address, export>>
  BY DEF LoadPeriod, NextPage
<1>2. /\ v \in PeriodVerdicts /\ v.state \in {"accepted", "refused"}
      /\ v.state = "accepted" => /\ Whole(v.range)
                                 /\ Complete(address.range) => v.range = address.range
      /\ openPage = "sales" => v = NormalizeFilter(address.range, today)
  BY AnswerOfToday
<1>3. today \in Days
  BY DEF PeriodsInv, PeriodsTypeOK
<1> HIDE DEF v
<1>4. CASE answered' = v
  BY <1>1, <1>2, <1>3, <1>4 DEF PeriodsInv, PeriodsTypeOK, AnswerWhole, SalesOK, ExportOK
<1>5. CASE NextPage /\ v.state = "accepted" /\ v # answered
  <2>1. answered' = Refused("cursor") /\ answered.state = "accepted"
    BY <1>5 DEF NextPage, WithCursor, v
  <2>2. openPage # "sales"
    <3>1. SUFFICES ASSUME openPage = "sales"
                   PROVE  FALSE
      OBVIOUS
    <3>2. Complete(address.range)
          /\ \E d \in Days : answered = NormalizeFilter(address.range, d)
      BY <2>1, <3>1 DEF PeriodsInv, SalesOK
    <3>3. answered = v
      BY <1>2, <3>1, <3>2, SameOnEveryDay
    <3> QED
      BY <1>5, <3>3
  <2> QED
    BY <1>1, <2>1, <2>2, WithoutPeriod
       DEF PeriodsInv, PeriodsTypeOK, AnswerWhole, SalesOK, ExportOK
<1> QED
  BY <1>4, <1>5 DEF LoadPeriod, NextPage, WithCursor, v

\* No step of the workspace, the API or the calendar disturbs it.
LEMMA PeriodsStep == PeriodsInv /\ [PeriodsNext]_periodVars => PeriodsInv'
<1> SUFFICES ASSUME PeriodsInv, [PeriodsNext]_periodVars
             PROVE  PeriodsInv'
  OBVIOUS
<1>1. CASE Midnight
  BY <1>1 DEF Midnight, PeriodsInv, PeriodsTypeOK, AnswerWhole, SalesOK, ExportOK
<1>2. CASE Restart
  <2>1. preset' \in Presets
    BY <1>2 DEF Restart, Fallback, Presets
  <2>2. address' \in DatedAddresses
    BY <1>2 DEF Restart, Link, Address, DatedAddresses, Period, Ranges, Missing
  <2>3. openPage' # "sales" /\ answered' = NoVerdict /\ UNCHANGED <<today, export>>
    BY <1>2 DEF Restart
  <2> QED
    BY <2>1, <2>2, <2>3, WithoutPeriod
       DEF PeriodsInv, PeriodsTypeOK, AnswerWhole, SalesOK, ExportOK
<1>3. CASE LoadPeriod \/ NextPage
  BY <1>3, PeriodAnswered
<1>4. CASE Repeat \/ \E from, to \in Typed : Enqueue(Period(from, to))
  BY <1>4, ExportStep
<1>5. ASSUME NEW name \in {"sales", "operations"},
             \/ OpenPage(name, Link)
             \/ \E from, to \in Typed : OpenPage(name, Address(Period(from, to), "user"))
      PROVE  PeriodsInv'
  <2>1. Link \in DatedAddresses
    BY DEF Link, Address, DatedAddresses, Period, Ranges, Missing
  <2>2. \A from, to \in Typed : Address(Period(from, to), "user") \in DatedAddresses
    BY PeriodsAssumption DEF Address, DatedAddresses, Period, Ranges
  <2> QED
    BY <1>5, <2>1, <2>2, PageOpens
<1>6. CASE \E p \in Presets : SelectDatePreset(p)
  BY <1>6, PresetSelected
<1>7. CASE UNCHANGED periodVars
  BY <1>7 DEF periodVars, PeriodsInv, PeriodsTypeOK, AnswerWhole, SalesOK, ExportOK
<1> QED
  BY <1>1, <1>2, <1>3, <1>4, <1>5, <1>6, <1>7 DEF PeriodsNext

\* Whatever the dates typed, the presets and the midnights: what is answered and what
\* is kept are whole periods, an answer is about its address, the sales page's next page
\* continues it, and an export's repetition is the same export.
THEOREM PeriodsKept == PeriodsSpec => []PeriodsHold
<1>1. PeriodsInit => PeriodsInv
  <2> SUFFICES ASSUME PeriodsInit
               PROVE  PeriodsInv
    OBVIOUS
  <2>1. Link \in DatedAddresses /\ Link.range \in Ranges
    BY DEF Link, Address, DatedAddresses, Period, Ranges, Missing
  <2>2. PeriodsTypeOK
    BY <2>1, WithoutPeriod DEF PeriodsInit, PeriodsTypeOK, KeptExports
  <2>3. AnswerWhole /\ SalesOK /\ ExportOK
    BY WithoutPeriod DEF PeriodsInit, AnswerWhole, SalesOK, ExportOK
  <2> QED
    BY <2>2, <2>3 DEF PeriodsInv
<1>2. PeriodsInv => PeriodsHold
  <2> SUFFICES ASSUME PeriodsInv
               PROVE  PeriodsHold
    OBVIOUS
  <2>1. export.kept.state = "accepted" => Whole(export.kept.range)
    BY NormalizedRange DEF PeriodsInv, PeriodsTypeOK, ExportOK, KeptExports
  <2>2. openPage = "sales" => answered.state # "cursor"
    BY NormalizedRange DEF PeriodsInv, PeriodsTypeOK, SalesOK, DatedAddresses
  <2> QED
    BY <2>1, <2>2 DEF PeriodsHold, PeriodsInv, AnswerWhole, ExportOK
<1> QED
  BY <1>1, <1>2, PeriodsStep, PTL DEF PeriodsSpec

=============================================================================
