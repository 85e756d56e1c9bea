------------------------- MODULE IntegrationProofs --------------------------
(***************************************************************************)
(* Theorems about Webhooks: what an accepted delivery was signed with, and *)
(* which of the secrets handed out is the endpoint's, for any number of    *)
(* administrators and deliveries and any tolerance of the clocks; and      *)
(* about OrderIngestion: one effect per receipt, and which circles of      *)
(* waiting there can be, for any snapshots, files, keys and senders; and   *)
(* about OrderContract: what it accepts is stored whole or refused for one *)
(* of the reasons it does not look at, for any files, bodies and products. *)
(***************************************************************************)
EXTENDS Webhooks, OrderIngestion, OrderContract, SequenceTheorems, FiniteSetTheorems,
        TLAPS

-----------------------------------------------------------------------------
(* The inductive invariant.                                                *)

EndpointRecord == [status : {"active", "revoked"}, version : Nat, secret : Secrets]

AdminRecord ==
  [at : {"idle", "refused", "failed"}]
    \cup [at : {"rotating", "committed", "handed", "unanswered"}, version : Nat]

DeliveryRecord ==
  [at : {"idle", "refused"}]
    \cup [at : {"arrived", "verified", "accepted"}, secret : Secrets,
          inForce : SUBSET Secrets]
    \cup [at : {"read"}, secret : Secrets, inForce : SUBSET Secrets, expected : Secrets]

WebhooksTypeOK ==
  /\ clock \in Nat
  /\ endpoint \in EndpointRecord
  /\ rowLock \in Admins \cup {Nobody}
  /\ admin \in [Admins -> AdminRecord]
  /\ delivery \in [Deliveries -> DeliveryRecord]

\* A rotation holds the row from its read to its commit, so the version it hands out
\* is the next one.
RotationsLocked ==
  \A a \in Admins : admin[a].at = "rotating" =>
    rowLock = a /\ admin[a].version = endpoint.version + 1

\* The versions committed are those up to the stored one, and the stored secret is
\* that of the administrator who committed the stored version.
CommittedVersions ==
  /\ \A a \in Admins : Committed(a) =>
       /\ admin[a].version <= endpoint.version
       /\ admin[a].version = endpoint.version => endpoint.secret = a
       /\ endpoint.secret \in Admins
  /\ endpoint.secret \in Admins =>
       /\ Committed(endpoint.secret)
       /\ admin[endpoint.secret].version = endpoint.version

\* A delivery in progress has noted the secret that is in force.
CurrentNoted ==
  \A d \in Deliveries :
    delivery[d].at \in {"arrived", "read", "verified"} =>
      Current(endpoint) \subseteq delivery[d].inForce

\* What a delivery is compared with, and then signed with, was in force.
ExpectedNoted ==
  \A d \in Deliveries :
    /\ delivery[d].at = "read" => delivery[d].expected \in delivery[d].inForce
    /\ delivery[d].at \in {"verified", "accepted"} =>
         delivery[d].secret \in delivery[d].inForce

WebhooksInv ==
  WebhooksTypeOK /\ RotationsLocked /\ CommittedVersions /\ CurrentNoted /\ ExpectedNoted

-----------------------------------------------------------------------------
(* What records hold.                                                      *)

\* The columns of an administrator's request and of a delivery.
LEMMA RecordColumns ==
  /\ \A r \in AdminRecord : /\ r.at \in {"idle", "refused", "failed", "rotating", "committed",
                                         "handed", "unanswered"}
                            /\ r.at \in {"rotating", "committed", "handed", "unanswered"} =>
                                 r.version \in Nat
  /\ \A r \in DeliveryRecord :
       /\ r.at \in {"idle", "refused", "arrived", "read", "verified", "accepted"}
       /\ r.at \in {"arrived", "read", "verified", "accepted"} =>
            r.secret \in Secrets /\ r.inForce \in SUBSET Secrets
       /\ r.at = "read" => r.expected \in Secrets
  BY DEF AdminRecord, DeliveryRecord

\* The secret in force is a secret.
LEMMA CurrentSecret ==
  ASSUME NEW e \in EndpointRecord
  PROVE  Current(e) \subseteq Secrets
  BY DEF Current, EndpointRecord

-----------------------------------------------------------------------------
(* The rotation.                                                           *)

\* Noting adds the secret in force to what a delivery in progress has noted, and
\* leaves the rest of it.
LEMMA NotingAdds ==
  ASSUME WebhooksInv, NEW e \in EndpointRecord, Noting(e)
  PROVE  /\ delivery' \in [Deliveries -> DeliveryRecord]
         /\ \A d \in Deliveries :
              IF delivery[d].at \in {"arrived", "read", "verified"}
                THEN /\ delivery'[d].at = delivery[d].at
                     /\ delivery'[d].secret = delivery[d].secret
                     /\ delivery'[d].inForce = delivery[d].inForce \cup Current(e)
                     /\ delivery[d].at = "read" =>
                          delivery'[d].expected = delivery[d].expected
                ELSE delivery'[d] = delivery[d]
<1>1. ASSUME NEW d \in Deliveries, delivery[d].at \in {"arrived", "read", "verified"}
      PROVE  /\ delivery'[d] \in DeliveryRecord
             /\ delivery'[d].at = delivery[d].at
             /\ delivery'[d].secret = delivery[d].secret
             /\ delivery'[d].inForce = delivery[d].inForce \cup Current(e)
             /\ delivery[d].at = "read" =>
                  delivery'[d].expected = delivery[d].expected
  <2>1. delivery'[d] =
          [delivery[d] EXCEPT !.inForce = delivery[d].inForce \cup Current(e)]
    BY <1>1 DEF Noting
  <2>2. Current(e) \subseteq Secrets
    BY CurrentSecret
  <2>3. delivery[d] \in DeliveryRecord
    BY DEF WebhooksInv, WebhooksTypeOK
  <2>4. CASE delivery[d].at = "read"
    <3>1. delivery[d] \in [at : {"read"}, secret : Secrets, inForce : SUBSET Secrets,
                           expected : Secrets]
      BY <2>3, <2>4 DEF DeliveryRecord
    <3> QED
      BY <2>1, <2>2, <3>1 DEF DeliveryRecord
  <2>5. CASE delivery[d].at # "read"
    <3>1. delivery[d] \in [at : {"arrived", "verified", "accepted"}, secret : Secrets,
                           inForce : SUBSET Secrets]
      BY <1>1, <2>3, <2>5 DEF DeliveryRecord
    <3> QED
      BY <2>1, <2>2, <2>5, <3>1 DEF DeliveryRecord
  <2> QED
    BY <2>4, <2>5
<1>2. ASSUME NEW d \in Deliveries, delivery[d].at \notin {"arrived", "read", "verified"}
      PROVE  delivery'[d] = delivery[d] /\ delivery'[d] \in DeliveryRecord
  BY <1>2 DEF Noting, WebhooksInv, WebhooksTypeOK
<1>3. delivery' \in [Deliveries -> DeliveryRecord]
  <2>1. delivery' = [d \in Deliveries |-> delivery'[d]]
    BY DEF Noting
  <2> QED
    BY <1>1, <1>2, <2>1
<1> QED
  BY <1>1, <1>2, <1>3

\* A rotation begins with the row locked, at the version after the stored one.
LEMMA BeginRotationStep ==
  ASSUME WebhooksInv, NEW a \in Admins, BeginRotation(a)
  PROVE  WebhooksInv'
<1> DEFINE x == [at |-> "rotating", version |-> endpoint.version + 1]
<1>1. /\ admin[a].at = "idle" /\ rowLock = Nobody /\ rowLock' = a
      /\ admin' = [admin EXCEPT ![a] = x] /\ UNCHANGED <<clock, endpoint, delivery>>
  BY DEF BeginRotation, ReadForUpdate
<1>2. endpoint \in EndpointRecord /\ endpoint.version \in Nat
  BY DEF WebhooksInv, WebhooksTypeOK, EndpointRecord
<1>3. x \in AdminRecord /\ x.at = "rotating" /\ x.version = endpoint.version + 1
  BY <1>2 DEF AdminRecord
<1> HIDE DEF x
<1>4. admin'[a] = x /\ \A b \in Admins \ {a} : admin'[b] = admin[b]
  BY <1>1 DEF WebhooksInv, WebhooksTypeOK
<1>5. \A b \in Admins : admin[b].at # "rotating"
  BY <1>1, WebhooksAssumption DEF WebhooksInv, RotationsLocked
<1>6. WebhooksTypeOK'
  BY <1>1, <1>3 DEF WebhooksInv, WebhooksTypeOK
<1>7. RotationsLocked'
  BY <1>1, <1>3, <1>4, <1>5 DEF RotationsLocked
<1>8. CommittedVersions'
  <2>1. \A b \in Admins : /\ Committed(b)' <=> Committed(b)
                          /\ Committed(b) => admin'[b] = admin[b]
    BY <1>1, <1>3, <1>4 DEF Committed
  <2> QED
    BY <1>1, <2>1 DEF WebhooksInv, CommittedVersions
<1>9. CurrentNoted' /\ ExpectedNoted'
  BY <1>1 DEF WebhooksInv, CurrentNoted, ExpectedNoted, Current
<1> QED
  BY <1>6, <1>7, <1>8, <1>9 DEF WebhooksInv

\* A request to rotate that is refused, rolled back, answered or left unanswered
\* changes nothing but where it stands and, at most, its lock.
LEMMA RotationEnds ==
  ASSUME WebhooksInv, NEW a \in Admins, NEW x \in AdminRecord, x.at # "rotating",
         admin' = [admin EXCEPT ![a] = x],
         rowLock' = rowLock \/ (admin[a].at = "rotating" /\ rowLock' = Nobody),
         Committed(a) => /\ x.at \in {"committed", "handed", "unanswered"}
                         /\ x.version = admin[a].version,
         ~Committed(a) => x.at \in {"refused", "failed"},
         UNCHANGED <<clock, endpoint, delivery>>
  PROVE  WebhooksInv'
<1>1. admin'[a] = x /\ \A b \in Admins \ {a} : admin'[b] = admin[b]
  BY DEF WebhooksInv, WebhooksTypeOK
<1>2. WebhooksTypeOK'
  BY DEF WebhooksInv, WebhooksTypeOK
<1>3. RotationsLocked'
  <2> SUFFICES ASSUME NEW b \in Admins, admin'[b].at = "rotating"
               PROVE  rowLock' = b /\ admin'[b].version = endpoint'.version + 1
    BY DEF RotationsLocked
  <2>1. b # a /\ admin'[b] = admin[b]
    BY <1>1
  <2>2. rowLock = b /\ admin[b].version = endpoint.version + 1
    BY <2>1 DEF WebhooksInv, RotationsLocked
  <2>3. rowLock' = rowLock
    BY <2>1, <2>2 DEF WebhooksInv, RotationsLocked
  <2> QED
    BY <2>1, <2>2, <2>3
<1>4. \A b \in Admins : /\ Committed(b)' <=> Committed(b)
                        /\ Committed(b) => admin'[b].version = admin[b].version
  BY <1>1 DEF Committed
<1>5. CommittedVersions'
  BY <1>4 DEF WebhooksInv, CommittedVersions
<1>6. CurrentNoted' /\ ExpectedNoted'
  BY DEF WebhooksInv, CurrentNoted, ExpectedNoted, Current
<1> QED
  BY <1>2, <1>3, <1>5, <1>6 DEF WebhooksInv

\* A rotation that finds no active endpoint is refused.
LEMMA RotationRefusedStep ==
  ASSUME WebhooksInv, NEW a \in Admins, RotationRefused(a)
  PROVE  WebhooksInv'
<1> DEFINE x == [at |-> "refused"]
<1>1. /\ ~Committed(a) /\ admin' = [admin EXCEPT ![a] = x]
      /\ UNCHANGED <<clock, endpoint, rowLock, delivery>>
  BY DEF RotationRefused, Committed
<1>2. x \in AdminRecord /\ x.at = "refused"
  BY DEF AdminRecord
<1> HIDE DEF x
<1> QED
  BY <1>1, <1>2, RotationEnds

\* A rotation that fails before its commit leaves the endpoint and frees the row.
LEMMA RotationFailsStep ==
  ASSUME WebhooksInv, NEW a \in Admins, RotationFails(a)
  PROVE  WebhooksInv'
<1> DEFINE x == [at |-> "failed"]
<1>1. /\ ~Committed(a) /\ admin' = [admin EXCEPT ![a] = x]
      /\ admin[a].at = "rotating" /\ rowLock' = Nobody
      /\ UNCHANGED <<clock, endpoint, delivery>>
  BY DEF RotationFails, Committed
<1>2. x \in AdminRecord /\ x.at = "failed"
  BY DEF AdminRecord
<1> HIDE DEF x
<1> QED
  BY <1>1, <1>2, RotationEnds

\* Whether the administrator is told or not changes nothing that is stored.
LEMMA AnswerRotationStep ==
  ASSUME WebhooksInv, NEW a \in Admins, AnswerRotation(a)
  PROVE  WebhooksInv'
<1>1. PICK at \in {"handed", "unanswered"} : admin' = [admin EXCEPT ![a].at = at]
  BY DEF AnswerRotation
<1> DEFINE x == [at |-> at, version |-> admin[a].version]
<1>2. /\ admin[a].at = "committed" /\ UNCHANGED <<clock, endpoint, rowLock, delivery>>
  BY DEF AnswerRotation
<1>3. admin[a] \in [at : {"rotating", "committed", "handed", "unanswered"}, version : Nat]
  BY <1>2 DEF WebhooksInv, WebhooksTypeOK, AdminRecord
<1>4. admin' = [admin EXCEPT ![a] = x]
  <2>1. [admin[a] EXCEPT !.at = at] = x
    BY <1>3
  <2> QED
    BY <1>1, <2>1
<1>5. x \in AdminRecord /\ x.at = at /\ x.version = admin[a].version
  BY <1>3 DEF AdminRecord
<1> HIDE DEF x
<1> QED
  BY <1>2, <1>4, <1>5, RotationEnds DEF Committed

\* A rotation commits its secret and its version, and nobody else's version is as high.
LEMMA CommitRotationStep ==
  ASSUME WebhooksInv, NEW a \in Admins, CommitRotation(a)
  PROVE  WebhooksInv'
<1> DEFINE x == [at |-> "committed", version |-> admin[a].version]
           e == [endpoint EXCEPT !.version = admin[a].version, !.secret = a]
<1>1. /\ admin[a].at = "rotating" /\ rowLock' = Nobody /\ endpoint' = e
      /\ admin' = [admin EXCEPT ![a] = x] /\ Noting(endpoint') /\ clock' = clock
  <2>1. admin[a].at = "rotating"
    BY DEF CommitRotation
  <2>2. admin[a] \in [at : {"rotating", "committed", "handed", "unanswered"}, version : Nat]
    BY <2>1 DEF WebhooksInv, WebhooksTypeOK, AdminRecord
  <2>3. [admin[a] EXCEPT !.at = "committed"] = x
    BY <2>2
  <2> QED
    BY <2>3 DEF CommitRotation
<1>2. /\ endpoint \in EndpointRecord /\ endpoint.version \in Nat
      /\ rowLock = a /\ admin[a].version = endpoint.version + 1
  BY <1>1 DEF WebhooksInv, WebhooksTypeOK, EndpointRecord, RotationsLocked
<1>3. /\ x \in AdminRecord /\ x.at = "committed" /\ x.version = endpoint.version + 1
      /\ e \in EndpointRecord /\ e.version = endpoint.version + 1 /\ e.secret = a
      /\ e.version \in Nat
  <2>1. x \in AdminRecord /\ x.at = "committed" /\ x.version = endpoint.version + 1
    BY <1>2 DEF AdminRecord
  <2>2. a \in Secrets /\ admin[a].version \in Nat
    BY <1>2 DEF Secrets
  <2>3. e \in EndpointRecord /\ e.version = admin[a].version /\ e.secret = a
    BY <1>2, <2>2 DEF EndpointRecord
  <2> QED
    BY <1>2, <2>1, <2>2, <2>3
<1> HIDE DEF x, e
<1>4. admin'[a] = x /\ \A b \in Admins \ {a} : admin'[b] = admin[b]
  BY <1>1 DEF WebhooksInv, WebhooksTypeOK
<1>5. \A b \in Admins \ {a} : admin[b].at # "rotating"
  BY <1>2, WebhooksAssumption DEF WebhooksInv, RotationsLocked
<1>6. /\ delivery' \in [Deliveries -> DeliveryRecord]
      /\ \A d \in Deliveries :
           IF delivery[d].at \in {"arrived", "read", "verified"}
             THEN /\ delivery'[d].at = delivery[d].at
                  /\ delivery'[d].secret = delivery[d].secret
                  /\ delivery'[d].inForce = delivery[d].inForce \cup Current(e)
                  /\ delivery[d].at = "read" =>
                       delivery'[d].expected = delivery[d].expected
             ELSE delivery'[d] = delivery[d]
  BY <1>1, <1>3, NotingAdds
<1>7. WebhooksTypeOK'
  BY <1>1, <1>3, <1>6 DEF WebhooksInv, WebhooksTypeOK
<1>8. RotationsLocked'
  BY <1>3, <1>4, <1>5 DEF RotationsLocked
<1>9. CommittedVersions'
  <2>1. Committed(a)' /\ \A b \in Admins \ {a} : Committed(b)' <=> Committed(b)
    BY <1>3, <1>4 DEF Committed
  <2>2. \A b \in Admins \ {a} : Committed(b) =>
          admin'[b].version \in Nat /\ admin'[b].version < e.version
    BY <1>2, <1>3, <1>4, RecordColumns
    DEF WebhooksInv, WebhooksTypeOK, CommittedVersions, Committed
  <2> QED
    BY <1>1, <1>3, <1>4, <2>1, <2>2 DEF CommittedVersions
<1>10. CurrentNoted'
  BY <1>1, <1>6 DEF CurrentNoted
<1>11. ExpectedNoted'
  BY <1>6 DEF WebhooksInv, ExpectedNoted
<1> QED
  BY <1>7, <1>8, <1>9, <1>10, <1>11 DEF WebhooksInv

-----------------------------------------------------------------------------
(* The deliveries.                                                         *)

\* A step of one delivery keeps the invariant when what it has noted covers the secret
\* in force and what it compares with.
LEMMA DeliveryMoves ==
  ASSUME WebhooksInv, NEW d \in Deliveries, NEW x \in DeliveryRecord,
         delivery' = [delivery EXCEPT ![d] = x],
         UNCHANGED <<clock, endpoint, rowLock, admin>>,
         x.at \in {"arrived", "read", "verified"} => Current(endpoint) \subseteq x.inForce,
         x.at = "read" => x.expected \in x.inForce,
         x.at \in {"verified", "accepted"} => x.secret \in x.inForce
  PROVE  WebhooksInv'
<1>1. delivery'[d] = x /\ \A c \in Deliveries \ {d} : delivery'[c] = delivery[c]
  BY DEF WebhooksInv, WebhooksTypeOK
<1>2. WebhooksTypeOK'
  BY DEF WebhooksInv, WebhooksTypeOK
<1>3. RotationsLocked' /\ CommittedVersions'
  BY DEF WebhooksInv, RotationsLocked, CommittedVersions, Committed
<1>4. CurrentNoted'
  BY <1>1 DEF WebhooksInv, CurrentNoted, Current
<1>5. ExpectedNoted'
  BY <1>1 DEF WebhooksInv, ExpectedNoted
<1> QED
  BY <1>2, <1>3, <1>4, <1>5 DEF WebhooksInv

\* A refused delivery and none at all claim nothing.
LEMMA DeliveryEnds ==
  ASSUME WebhooksInv, NEW d \in Deliveries, NEW at \in {"idle", "refused"},
         delivery' = [delivery EXCEPT ![d] = [at |-> at]],
         UNCHANGED <<clock, endpoint, rowLock, admin>>
  PROVE  WebhooksInv'
<1> DEFINE x == [at |-> at]
<1>1. x \in DeliveryRecord /\ x.at \in {"idle", "refused"}
  BY DEF DeliveryRecord
<1>2. delivery' = [delivery EXCEPT ![d] = x]
  OBVIOUS
<1> HIDE DEF x
<1> QED
  BY <1>1, <1>2, DeliveryMoves

\* A delivery that arrives within the tolerance notes the secret in force.
LEMMA ArriveStep ==
  ASSUME WebhooksInv, NEW d \in Deliveries, NEW s \in Secrets, NEW t, Arrive(d, s, t)
  PROVE  WebhooksInv'
<1>1. UNCHANGED <<clock, endpoint, rowLock, admin>>
  BY DEF Arrive
<1>2. CASE delivery' = [delivery EXCEPT ![d] = [at |-> "refused"]]
  BY <1>1, <1>2, DeliveryEnds
<1> DEFINE x == [at |-> "arrived", secret |-> s, inForce |-> Current(endpoint)]
<1>3. CASE delivery' = [delivery EXCEPT ![d] = x]
  <2>1. Current(endpoint) \subseteq Secrets
    BY CurrentSecret DEF WebhooksInv, WebhooksTypeOK
  <2>2. x \in DeliveryRecord /\ x.at = "arrived" /\ x.inForce = Current(endpoint)
    BY <2>1 DEF DeliveryRecord
  <2> HIDE DEF x
  <2> QED
    BY <1>1, <1>3, <2>2, DeliveryMoves
<1> QED
  BY <1>2, <1>3 DEF Arrive

\* What the endpoint's row holds while it is active is in force.
LEMMA ReadCredentialStep ==
  ASSUME WebhooksInv, NEW d \in Deliveries, ReadCredential(d)
  PROVE  WebhooksInv'
<1>1. UNCHANGED <<clock, endpoint, rowLock, admin>> /\ delivery[d].at = "arrived"
  BY DEF ReadCredential
<1>2. CASE Usable(endpoint) = {}
  <2>1. delivery' = [delivery EXCEPT ![d] = [at |-> "refused"]]
    BY <1>2 DEF ReadCredential
  <2> QED
    BY <1>1, <2>1, DeliveryEnds
<1>3. CASE Usable(endpoint) # {}
  <2> DEFINE x == [at |-> "read", secret |-> delivery[d].secret,
                   inForce |-> delivery[d].inForce, expected |-> endpoint.secret]
  <2>1. delivery' = [delivery EXCEPT ![d] = x]
    BY <1>3 DEF ReadCredential
  <2>2. /\ Current(endpoint) = {endpoint.secret} /\ endpoint.secret \in Secrets
        /\ Current(endpoint) \subseteq delivery[d].inForce
    BY <1>1, <1>3
    DEF Usable, Current, WebhooksInv, WebhooksTypeOK, EndpointRecord, CurrentNoted
  <2>3. delivery[d].secret \in Secrets /\ delivery[d].inForce \in SUBSET Secrets
    BY <1>1, RecordColumns DEF WebhooksInv, WebhooksTypeOK
  <2>4. /\ x \in DeliveryRecord /\ x.at = "read" /\ x.inForce = delivery[d].inForce
        /\ x.expected = endpoint.secret
    BY <2>2, <2>3 DEF DeliveryRecord
  <2> HIDE DEF x
  <2> QED
    BY <1>1, <2>1, <2>2, <2>4, DeliveryMoves
<1> QED
  BY <1>2, <1>3

\* A delivery goes on when it was signed with what it was compared with.
LEMMA VerifyStep ==
  ASSUME WebhooksInv, NEW d \in Deliveries, Verify(d)
  PROVE  WebhooksInv'
<1>1. UNCHANGED <<clock, endpoint, rowLock, admin>> /\ delivery[d].at = "read"
  BY DEF Verify
<1>2. CASE delivery[d].secret # delivery[d].expected
  <2>1. delivery' = [delivery EXCEPT ![d] = [at |-> "refused"]]
    BY <1>2 DEF Verify
  <2> QED
    BY <1>1, <2>1, DeliveryEnds
<1>3. CASE delivery[d].secret = delivery[d].expected
  <2> DEFINE x == [at |-> "verified", secret |-> delivery[d].secret,
                   inForce |-> delivery[d].inForce]
  <2>1. delivery' = [delivery EXCEPT ![d] = x]
    BY <1>3 DEF Verify
  <2>2. /\ delivery[d].secret \in delivery[d].inForce
        /\ Current(endpoint) \subseteq delivery[d].inForce
    BY <1>1, <1>3 DEF WebhooksInv, CurrentNoted, ExpectedNoted
  <2>3. delivery[d].secret \in Secrets /\ delivery[d].inForce \in SUBSET Secrets
    BY <1>1, RecordColumns DEF WebhooksInv, WebhooksTypeOK
  <2>4. /\ x \in DeliveryRecord /\ x.at = "verified" /\ x.inForce = delivery[d].inForce
        /\ x.secret = delivery[d].secret
    BY <2>3 DEF DeliveryRecord
  <2> HIDE DEF x
  <2> QED
    BY <1>1, <2>1, <2>2, <2>4, DeliveryMoves
<1> QED
  BY <1>2, <1>3

\* What is verified is ingested.
LEMMA IngestStep ==
  ASSUME WebhooksInv, NEW d \in Deliveries, Ingest(d)
  PROVE  WebhooksInv'
<1> DEFINE x == [delivery[d] EXCEPT !.at = "accepted"]
<1>1. /\ UNCHANGED <<clock, endpoint, rowLock, admin>> /\ delivery[d].at = "verified"
      /\ delivery' = [delivery EXCEPT ![d] = x]
  BY DEF Ingest
<1>2. delivery[d] \in [at : {"arrived", "verified", "accepted"}, secret : Secrets,
                       inForce : SUBSET Secrets]
  BY <1>1 DEF WebhooksInv, WebhooksTypeOK, DeliveryRecord
<1>3. /\ x \in DeliveryRecord /\ x.at = "accepted" /\ x.secret = delivery[d].secret
      /\ x.inForce = delivery[d].inForce
  BY <1>2 DEF DeliveryRecord
<1>4. delivery[d].secret \in delivery[d].inForce
  BY <1>1 DEF WebhooksInv, ExpectedNoted
<1> HIDE DEF x
<1> QED
  BY <1>1, <1>3, <1>4, DeliveryMoves

-----------------------------------------------------------------------------
(* The invariant and the theorems.                                         *)

\* The endpoint begins with a secret nobody was handed by a rotation.
LEMMA WebhooksInitInv == WebhooksInit => WebhooksInv
<1> SUFFICES ASSUME WebhooksInit
             PROVE  WebhooksInv
  OBVIOUS
<1>1. /\ endpoint \in EndpointRecord /\ endpoint.secret \in {First, Derived}
  BY DEF WebhooksInit, EndpointRecord, Secrets
<1>2. /\ \A a \in Admins : admin[a] \in AdminRecord /\ admin[a].at = "idle"
      /\ \A d \in Deliveries : delivery[d] \in DeliveryRecord /\ delivery[d].at = "idle"
  BY DEF WebhooksInit, NoDelivery, AdminRecord, DeliveryRecord
<1>3. WebhooksTypeOK
  BY <1>1, <1>2 DEF WebhooksInit, WebhooksTypeOK
<1>4. endpoint.secret \notin Admins
  BY <1>1, WebhooksAssumption
<1>5. RotationsLocked /\ CommittedVersions /\ CurrentNoted /\ ExpectedNoted
  BY <1>2, <1>4 DEF RotationsLocked, CommittedVersions, Committed, CurrentNoted, ExpectedNoted
<1> QED
  BY <1>3, <1>5 DEF WebhooksInv

\* Every step keeps the invariant.
LEMMA WebhooksInvStep == WebhooksInv /\ [WebhooksNext]_webhookVars => WebhooksInv'
<1> SUFFICES ASSUME WebhooksInv, [WebhooksNext]_webhookVars
             PROVE  WebhooksInv'
  OBVIOUS
<1>1. ASSUME UNCHANGED <<endpoint, rowLock, admin, delivery>>, clock' \in Nat
      PROVE  WebhooksInv'
  BY <1>1
  DEF WebhooksInv, WebhooksTypeOK, RotationsLocked, CommittedVersions, Committed,
      CurrentNoted, ExpectedNoted, Current
<1>2. CASE UNCHANGED webhookVars
  BY <1>1, <1>2 DEF webhookVars, WebhooksInv, WebhooksTypeOK
<1>3. CASE WebhookTick
  BY <1>1, <1>3 DEF WebhookTick, WebhooksInv, WebhooksTypeOK
<1>4. ASSUME NEW a \in Admins, BeginRotation(a)
      PROVE  WebhooksInv'
  BY <1>4, BeginRotationStep
<1>5. ASSUME NEW a \in Admins,
             RotationRefused(a) \/ RotationFails(a) \/ AnswerRotation(a)
      PROVE  WebhooksInv'
  BY <1>5, RotationRefusedStep, RotationFailsStep, AnswerRotationStep
<1>6. ASSUME NEW a \in Admins, CommitRotation(a)
      PROVE  WebhooksInv'
  BY <1>6, CommitRotationStep
<1>7. CASE Revoke
  <2> DEFINE e == [endpoint EXCEPT !.status = "revoked"]
  <2>1. endpoint' = e /\ UNCHANGED <<clock, rowLock, admin, delivery>>
    BY <1>7 DEF Revoke
  <2>2. /\ e \in EndpointRecord /\ e.status = "revoked" /\ e.version = endpoint.version
        /\ e.secret = endpoint.secret
    BY DEF WebhooksInv, WebhooksTypeOK, EndpointRecord
  <2> HIDE DEF e
  <2>3. WebhooksTypeOK'
    BY <2>1, <2>2 DEF WebhooksInv, WebhooksTypeOK
  <2>4. RotationsLocked' /\ CommittedVersions' /\ ExpectedNoted'
    BY <2>1, <2>2 DEF WebhooksInv, RotationsLocked, CommittedVersions, Committed, ExpectedNoted
  <2>5. CurrentNoted'
    BY <2>1, <2>2 DEF CurrentNoted, Current
  <2> QED
    BY <2>3, <2>4, <2>5 DEF WebhooksInv
<1>8. ASSUME NEW d \in Deliveries, NEW s \in Secrets, NEW t \in 0..MaxTime, Arrive(d, s, t)
      PROVE  WebhooksInv'
  BY <1>8, ArriveStep
<1>9. ASSUME NEW d \in Deliveries,
             ReadCredential(d) \/ Verify(d) \/ Ingest(d) \/ DeliveryAnswered(d)
      PROVE  WebhooksInv'
  <2>1. CASE DeliveryAnswered(d)
    BY <2>1, DeliveryEnds DEF DeliveryAnswered, NoDelivery
  <2> QED
    BY <1>9, <2>1, ReadCredentialStep, VerifyStep, IngestStep
<1> QED
  BY <1>2, <1>3, <1>4, <1>5, <1>6, <1>7, <1>8, <1>9 DEF WebhooksNext

\* The invariant holds throughout.
LEMMA WebhooksInvariance == WebhooksSpec => []WebhooksInv
<1> QED
  BY WebhooksInitInv, WebhooksInvStep, PTL DEF WebhooksSpec

\* A rotation or a revocation may commit between any two of the three transactions of a
\* delivery; still an accepted delivery was signed with a secret in force at some moment
\* since it arrived.
THEOREM AcceptedInForce == WebhooksSpec => []AcceptedWasCurrent
<1>1. WebhooksInv => AcceptedWasCurrent
  BY DEF WebhooksInv, ExpectedNoted, AcceptedWasCurrent
<1> QED
  BY <1>1, WebhooksInvariance, PTL

\* However many administrators rotate at once, and whichever of their answers are
\* lost: the secret handed out last is the one stored, unless that is the secret of a
\* rotation committed later whose administrator was not told it.
THEOREM LastSecretStored == WebhooksSpec => []HandedSecretWorks
<1>1. WebhooksInv => HandedSecretWorks
  <2> SUFFICES ASSUME WebhooksInv, NEW a \in Admins, admin[a].at = "handed",
                      \A b \in Admins :
                        admin[b].at = "handed" => admin[b].version <= admin[a].version,
                      ~(endpoint.secret = a /\ endpoint.version = admin[a].version)
               PROVE  \E b \in Admins :
                        /\ Committed(b) /\ admin[b].at # "handed"
                        /\ admin[b].version > admin[a].version
                        /\ endpoint.secret = b /\ endpoint.version = admin[b].version
    BY DEF HandedSecretWorks
  <2> DEFINE b == endpoint.secret
  <2>1. /\ b \in Admins /\ Committed(b) /\ admin[b].version = endpoint.version
        /\ admin[a].version <= endpoint.version /\ admin[a].version # endpoint.version
    BY DEF WebhooksInv, CommittedVersions, Committed
  <2>2. admin[a].version \in Nat /\ endpoint.version \in Nat
    BY RecordColumns DEF WebhooksInv, WebhooksTypeOK, EndpointRecord
  <2>3. admin[b].version > admin[a].version
    BY <2>1, <2>2
  <2>4. admin[b].at # "handed"
    BY <2>1, <2>2, <2>3
  <2> QED
    BY <2>1, <2>3, <2>4
<1> QED
  BY <1>1, WebhooksInvariance, PTL

-----------------------------------------------------------------------------
(* The inductive invariant of the ingestion.                               *)

ItemSet == [key : AllKeys, snapshot : Snapshots]

Pending == [at : {"insert", "read", "commit"}, of : Nat, items : Seq(ItemSet),
            written : SUBSET ItemSet]

\* `rows`, which rows are still to lock, is left open.
Locking(rows) == [at : {"row"}, of : Nat, items : Seq(ItemSet), written : SUBSET ItemSet,
                  rows : {rows}]

\* What a transaction is doing: nothing, or items of which there is a next one until
\* it commits.
SenderOK(s) ==
  \/ s = NotSending
  \/ /\ s \in Pending \cup Locking(s.rows)
     /\ s.at # "commit" => s.items # <<>>

SendersOK ==
  /\ sender = [c \in Senders |-> sender[c]]
  /\ \A c \in Senders : SenderOK(sender[c])
  /\ rowHolder \in [Rows -> Senders \cup {NoSender}]

\* A key is without receipt and effect, or has a receipt for one snapshot and one effect.
OneReceipt ==
  /\ receipts = [k \in AllKeys |-> receipts[k]] /\ effects = [k \in AllKeys |-> effects[k]]
  /\ \A k \in AllKeys : \/ receipts[k] = {} /\ effects[k] = 0
                        \/ \E s \in Snapshots : receipts[k] = {s} /\ effects[k] = 1

\* All that a transaction has written or has still to write.
AllItems(s) == s.written \cup {s.items[n] : n \in DOMAIN s.items}

\* Within one transaction a key stands for one snapshot.
KeysAgree ==
  \A c \in Senders : sender[c].at # "idle" =>
    \A i, j \in AllItems(sender[c]) : i.key = j.key => i = j

\* The transaction has the key to itself: nobody has committed a receipt for it.
Claimed(c, k) == rowHolder[<<"receipt", k>>] = c /\ receipts[k] = {}

\* A transaction has claimed what it has written and what it is writing.
ClaimsHeld ==
  \A c \in Senders :
    /\ sender[c].at # "idle" => \A i \in sender[c].written : Claimed(c, i.key)
    /\ sender[c].at = "row" => Claimed(c, Head(sender[c].items).key)

IngestionInv == SendersOK /\ OneReceipt /\ KeysAgree /\ ClaimsHeld

-----------------------------------------------------------------------------
\* The columns of what a transaction is doing.
LEMMA SenderColumns ==
  ASSUME NEW s, SenderOK(s), s.at # "idle"
  PROVE  /\ s.at \in {"insert", "read", "row", "commit"}
         /\ s.of \in Nat /\ s.items \in Seq(ItemSet) /\ s.written \in SUBSET ItemSet
         /\ s.at \in {"insert", "read", "commit"} => s \in Pending
         /\ s.at = "row" => s \in Locking(s.rows)
         /\ s.at # "commit" =>
              /\ Head(s.items) \in ItemSet /\ Head(s.items) \in AllItems(s)
              /\ Tail(s.items) \in Seq(ItemSet)
              /\ \A n \in DOMAIN Tail(s.items) :
                   n + 1 \in DOMAIN s.items /\ Tail(s.items)[n] = s.items[n + 1]
<1>1. s \in Pending \cup Locking(s.rows) /\ (s.at # "commit" => s.items # <<>>)
  BY DEF SenderOK, NotSending
<1>2. /\ s.at \in {"insert", "read", "row", "commit"}
      /\ s.of \in Nat /\ s.items \in Seq(ItemSet) /\ s.written \in SUBSET ItemSet
      /\ s.at \in {"insert", "read", "commit"} => s \in Pending
      /\ s.at = "row" => s \in Locking(s.rows)
  BY <1>1 DEF Pending, Locking
<1>3. ASSUME s.at # "commit"
      PROVE  /\ Head(s.items) \in ItemSet /\ Head(s.items) \in AllItems(s)
             /\ Tail(s.items) \in Seq(ItemSet)
             /\ \A n \in DOMAIN Tail(s.items) :
                  n + 1 \in DOMAIN s.items /\ Tail(s.items)[n] = s.items[n + 1]
  <2>1. s.items # <<>>
    BY <1>1, <1>3
  <2>2. /\ Head(s.items) \in ItemSet /\ Tail(s.items) \in Seq(ItemSet)
        /\ Len(Tail(s.items)) = Len(s.items) - 1
        /\ \A i \in 1..Len(Tail(s.items)) : Tail(s.items)[i] = s.items[i + 1]
    BY <1>2, <2>1, HeadTailProperties
  <2>3. /\ Len(s.items) \in Nat \ {0} /\ DOMAIN s.items = 1..Len(s.items)
        /\ DOMAIN Tail(s.items) = 1..Len(Tail(s.items))
    BY <1>2, <2>1, <2>2, LenProperties, EmptySeq
  <2>4. Head(s.items) = s.items[1]
    BY <1>2, <2>1
  <2>5. Head(s.items) \in AllItems(s)
    BY <2>3, <2>4 DEF AllItems
  <2>6. \A n \in DOMAIN Tail(s.items) :
          n + 1 \in DOMAIN s.items /\ Tail(s.items)[n] = s.items[n + 1]
    BY <2>2, <2>3
  <2> QED
    BY <2>2, <2>5, <2>6
<1> QED
  BY <1>2, <1>3

-----------------------------------------------------------------------------
\* A step of one transaction keeps the invariant when nobody else loses a claim and its
\* own new state has the claims it needs.
LEMMA OneMoves ==
  ASSUME IngestionInv, NEW c \in Senders, NEW x, SenderOK(x),
         sender' = [sender EXCEPT ![c] = x],
         rowHolder' \in [Rows -> Senders \cup {NoSender}], OneReceipt',
         \A d \in Senders \ {c}, k \in AllKeys :
           Claimed(d, k) => rowHolder'[<<"receipt", k>>] = d /\ receipts'[k] = {},
         x.at # "idle" =>
           /\ \A i, j \in AllItems(x) : i.key = j.key => i = j
           /\ \A i \in x.written :
                rowHolder'[<<"receipt", i.key>>] = c /\ receipts'[i.key] = {},
         x.at = "row" => rowHolder'[<<"receipt", Head(x.items).key>>] = c
                         /\ receipts'[Head(x.items).key] = {}
  PROVE  IngestionInv'
<1>1. sender'[c] = x /\ \A d \in Senders \ {c} : sender'[d] = sender[d]
  BY DEF IngestionInv, SendersOK
<1>2. SendersOK'
  <2>1. sender' = [d \in Senders |-> sender'[d]]
    BY DEF IngestionInv, SendersOK
  <2>2. \A d \in Senders : SenderOK(sender'[d])
    BY <1>1 DEF IngestionInv, SendersOK
  <2> QED
    BY <2>1, <2>2 DEF SendersOK
<1>3. KeysAgree'
  <2>1. ASSUME NEW d \in Senders, sender'[d].at # "idle"
        PROVE  \A i, j \in AllItems(sender'[d]) : i.key = j.key => i = j
    BY <1>1, <2>1 DEF IngestionInv, KeysAgree
  <2> QED
    BY <2>1 DEF KeysAgree, AllItems
<1>4. ClaimsHeld'
  <2>1. ASSUME NEW d \in Senders
        PROVE  /\ sender'[d].at # "idle" => \A i \in sender'[d].written :
                    rowHolder'[<<"receipt", i.key>>] = d /\ receipts'[i.key] = {}
               /\ sender'[d].at = "row" =>
                    /\ rowHolder'[<<"receipt", Head(sender'[d].items).key>>] = d
                    /\ receipts'[Head(sender'[d].items).key] = {}
    <3>1. CASE d = c
      BY <1>1, <3>1
    <3>2. CASE d # c
      <4>1. sender'[d] = sender[d] /\ SenderOK(sender[d])
        BY <1>1, <3>2 DEF IngestionInv, SendersOK
      <4>2. CASE sender[d].at # "idle"
        <5>1. \A i \in sender[d].written : i.key \in AllKeys /\ Claimed(d, i.key)
          BY <4>1, <4>2, SenderColumns DEF IngestionInv, ClaimsHeld, ItemSet
        <5>2. sender[d].at = "row" => /\ Head(sender[d].items).key \in AllKeys
                                      /\ Claimed(d, Head(sender[d].items).key)
          BY <4>1, <4>2, SenderColumns DEF IngestionInv, ClaimsHeld, ItemSet
        <5> QED
          BY <3>2, <4>1, <5>1, <5>2
      <4>3. CASE sender[d].at = "idle"
        BY <4>1, <4>3
      <4> QED
        BY <4>2, <4>3
    <3> QED
      BY <3>1, <3>2
  <2> QED
    BY <2>1 DEF ClaimsHeld, Claimed
<1> QED
  BY <1>2, <1>3, <1>4 DEF IngestionInv

\* The receipt of a key is a row of its own.
LEMMA ReceiptRows ==
  /\ \A k \in AllKeys : <<"receipt", k>> \in Rows
  /\ \A k, m \in AllKeys : <<"receipt", k>> = <<"receipt", m>> => k = m
  BY DEF Rows

\* Locking a row that is free or one's own takes no claim from anybody else.
LEMMA LockTakesNoClaim ==
  ASSUME IngestionInv, NEW c \in Senders, NEW row, Unheld(c, row),
         rowHolder' = [rowHolder EXCEPT ![row] = c], receipts' = receipts
  PROVE  /\ rowHolder' \in [Rows -> Senders \cup {NoSender}]
         /\ \A d \in Senders, k \in AllKeys :
              Claimed(d, k) => rowHolder'[<<"receipt", k>>] = d /\ receipts'[k] = {}
         /\ row \in Rows => rowHolder'[row] = c
<1>1. rowHolder \in [Rows -> Senders \cup {NoSender}]
  BY DEF IngestionInv, SendersOK
<1>2. \A d \in Senders, k \in AllKeys :
        Claimed(d, k) => rowHolder'[<<"receipt", k>>] = d /\ receipts'[k] = {}
  <2> SUFFICES ASSUME NEW d \in Senders, NEW k \in AllKeys, Claimed(d, k)
               PROVE  rowHolder'[<<"receipt", k>>] = d /\ receipts'[k] = {}
    OBVIOUS
  <2>1. rowHolder[<<"receipt", k>>] = d /\ receipts[k] = {} /\ <<"receipt", k>> \in Rows
    BY ReceiptRows DEF Claimed
  <2>2. CASE row = <<"receipt", k>>
    BY <1>1, <2>1, <2>2, IngestionAssumption DEF Unheld
  <2>3. CASE row # <<"receipt", k>>
    BY <1>1, <2>1, <2>3
  <2> QED
    BY <2>2, <2>3
<1> QED
  BY <1>1, <1>2

\* Receipts and effects that do not change stay as they are.
LEMMA SameReceipts ==
  ASSUME IngestionInv, UNCHANGED <<receipts, effects>>
  PROVE  OneReceipt'
  BY DEF IngestionInv, OneReceipt

\* The items a transaction begins with: one under a key of its own, or those of a file.
LEMMA DeliverStep ==
  ASSUME IngestionInv, NEW c \in Senders, DeliverOne(c) \/ DeliverImport(c)
  PROVE  IngestionInv'
<1>1. PICK items \in Seq(ItemSet) :
        /\ Deliver(c, items) /\ items # <<>>
        /\ \A m, n \in DOMAIN items : items[m].key = items[n].key => items[m] = items[n]
  <2>1. CASE DeliverOne(c)
    <3>1. PICK s \in Snapshots, k \in DeliveryKeys :
            Deliver(c, <<[key |-> k, snapshot |-> s]>>)
      BY <2>1 DEF DeliverOne
    <3>2. [key |-> k, snapshot |-> s] \in ItemSet
      BY DEF ItemSet, AllKeys
    <3>3. PICK item : item = [key |-> k, snapshot |-> s]
      OBVIOUS
    <3>4. /\ <<item>> \in Seq(ItemSet) /\ <<item>> # <<>>
          /\ \A m, n \in DOMAIN <<item>> : <<item>>[m] = <<item>>[n]
      BY <3>2, <3>3
    <3> QED
      BY <3>1, <3>3, <3>4
  <2>2. CASE DeliverImport(c)
    <3>1. PICK f \in Imports :
            Deliver(c, [i \in DOMAIN f |-> [key |-> <<f, f[i]>>, snapshot |-> f[i]]])
      BY <2>2 DEF DeliverImport
    <3> DEFINE items == [i \in DOMAIN f |-> [key |-> <<f, f[i]>>, snapshot |-> f[i]]]
    <3>2. f \in Seq(Snapshots) /\ f # <<>>
      BY IngestionAssumption
    <3>3. /\ Len(f) \in Nat \ {0} /\ DOMAIN f = 1..Len(f)
          /\ \A i \in DOMAIN f : f[i] \in Snapshots
      BY <3>2, LenProperties, EmptySeq, ElementOfSeq
    <3>4. \A i \in DOMAIN f : <<f, f[i]>> \in AllKeys
      BY DEF AllKeys, ImportKeys
    <3>5. \A i \in DOMAIN f : items[i] \in ItemSet
      BY <3>3, <3>4 DEF ItemSet
    <3>6. items \in Seq(ItemSet) /\ DOMAIN items = DOMAIN f
      BY <3>3, <3>5, SeqDef
    <3>7. items # <<>>
      BY <3>3, <3>6
    <3>8. \A m, n \in DOMAIN items : items[m].key = items[n].key => items[m] = items[n]
      BY <3>6
    <3> QED
      BY <3>1, <3>6, <3>7, <3>8
  <2> QED
    BY <2>1, <2>2
<1> DEFINE x == [at |-> "insert", of |-> Len(items), items |-> items, written |-> {}]
<1>2. sender' = [sender EXCEPT ![c] = x] /\ UNCHANGED <<receipts, stored, rowHolder, effects>>
  BY <1>1 DEF Deliver
<1>3. Len(items) \in Nat
  BY LenProperties
<1>4. /\ x \in Pending /\ x.at = "insert" /\ x.items = items /\ x.written = {}
  BY <1>3 DEF Pending
<1> HIDE DEF x
<1>5. SenderOK(x)
  BY <1>1, <1>4 DEF SenderOK
<1>6. \A i, j \in AllItems(x) : i.key = j.key => i = j
  BY <1>1, <1>4 DEF AllItems
<1>7. OneReceipt' /\ rowHolder' \in [Rows -> Senders \cup {NoSender}]
  BY <1>2, SameReceipts DEF IngestionInv, SendersOK
<1>8. \A d \in Senders \ {c}, k \in AllKeys :
        Claimed(d, k) => rowHolder'[<<"receipt", k>>] = d /\ receipts'[k] = {}
  BY <1>2 DEF Claimed
<1> QED
  BY <1>2, <1>4, <1>5, <1>6, <1>7, <1>8, OneMoves

\* What is rolled back gives back the transaction's own locks.
LEMMA RollbackStep ==
  ASSUME IngestionInv, NEW c \in Senders, Rollback(c)
  PROVE  IngestionInv'
<1>1. /\ rowHolder' = [r \in Rows |-> IF rowHolder[r] = c THEN NoSender ELSE rowHolder[r]]
      /\ sender' = [sender EXCEPT ![c] = NotSending]
      /\ UNCHANGED <<receipts, stored, effects>>
  BY DEF Rollback
<1>2. rowHolder' \in [Rows -> Senders \cup {NoSender}]
  BY <1>1 DEF IngestionInv, SendersOK
<1>3. SenderOK(NotSending) /\ NotSending.at = "idle"
  BY DEF SenderOK, NotSending
<1>4. \A d \in Senders \ {c}, k \in AllKeys :
        Claimed(d, k) => rowHolder'[<<"receipt", k>>] = d /\ receipts'[k] = {}
  BY <1>1, ReceiptRows DEF Claimed
<1>5. OneReceipt'
  BY <1>1, SameReceipts
<1> QED
  BY <1>1, <1>2, <1>3, <1>4, <1>5, OneMoves

\* A new receipt claims its key.
LEMMA InsertReceiptStep ==
  ASSUME IngestionInv, NEW c \in Senders, InsertReceipt(c)
  PROVE  IngestionInv'
<1>1. sender[c].at = "insert" /\ SenderOK(sender[c]) /\ sender[c].at # "idle"
  BY DEF InsertReceipt, Doing, IngestionInv, SendersOK
<1>2. /\ sender[c] \in Pending /\ Item(c) \in ItemSet /\ sender[c].items # <<>>
  BY <1>1, SenderColumns DEF Item, SenderOK, NotSending
<1>3. /\ \A i, j \in AllItems(sender[c]) : i.key = j.key => i = j
      /\ \A i \in sender[c].written : i.key \in AllKeys /\ Claimed(c, i.key)
  BY <1>1, <1>2 DEF IngestionInv, KeysAgree, ClaimsHeld, Pending, ItemSet
<1>4. OneReceipt' /\ receipts' = receipts
  BY SameReceipts DEF InsertReceipt
<1>5. CASE receipts[Item(c).key] = {}
  <2> DEFINE x == [at |-> "row", of |-> sender[c].of, items |-> sender[c].items,
                   written |-> sender[c].written, rows |-> Plan(Item(c).snapshot)]
  <2>1. /\ rowHolder' = [rowHolder EXCEPT ![Receipt(c)] = c] /\ Unheld(c, Receipt(c))
        /\ sender' = [sender EXCEPT ![c] = x]
    BY <1>5 DEF InsertReceipt, MayInsert
  <2>2. /\ x \in Locking(x.rows) /\ x.at = "row" /\ x.items = sender[c].items
        /\ x.written = sender[c].written
    BY <1>2 DEF Pending, Locking
  <2> HIDE DEF x
  <2>3. SenderOK(x) /\ AllItems(x) = AllItems(sender[c])
    BY <1>2, <2>2 DEF SenderOK, AllItems
  <2>4. /\ rowHolder' \in [Rows -> Senders \cup {NoSender}]
        /\ \A d \in Senders, k \in AllKeys :
             Claimed(d, k) => rowHolder'[<<"receipt", k>>] = d /\ receipts'[k] = {}
        /\ Receipt(c) \in Rows => rowHolder'[Receipt(c)] = c
    BY <1>4, <2>1, LockTakesNoClaim
  <2>5. /\ Receipt(c) = <<"receipt", Head(x.items).key>> /\ Head(x.items).key \in AllKeys
        /\ receipts'[Head(x.items).key] = {} /\ Receipt(c) \in Rows
    BY <1>2, <1>4, <1>5, <2>2, ReceiptRows DEF Receipt, Item, ItemSet
  <2> QED
    BY <1>3, <1>4, <2>1, <2>2, <2>3, <2>4, <2>5, OneMoves
<1>6. CASE receipts[Item(c).key] # {}
  <2> DEFINE x == [sender[c] EXCEPT !.at = "read"]
  <2>1. rowHolder' = rowHolder /\ sender' = [sender EXCEPT ![c] = x]
    BY <1>6 DEF InsertReceipt
  <2>2. /\ x \in Pending /\ x.at = "read" /\ x.items = sender[c].items
        /\ x.written = sender[c].written
    BY <1>2 DEF Pending
  <2> HIDE DEF x
  <2>3. SenderOK(x) /\ AllItems(x) = AllItems(sender[c])
    BY <1>2, <2>2 DEF SenderOK, AllItems
  <2>4. /\ rowHolder' \in [Rows -> Senders \cup {NoSender}]
        /\ \A d \in Senders, k \in AllKeys :
             Claimed(d, k) => rowHolder'[<<"receipt", k>>] = d /\ receipts'[k] = {}
    BY <1>4, <2>1 DEF IngestionInv, SendersOK, Claimed
  <2> QED
    BY <1>3, <1>4, <2>1, <2>2, <2>3, <2>4, OneMoves
<1> QED
  BY <1>5, <1>6

\* What is left to do after an item is part of what there was.
LEMMA NextItemPart ==
  ASSUME NEW c, SenderOK(sender[c]), sender[c].at \in {"insert", "read", "row"}
  PROVE  /\ Tail(sender[c].items) \in Seq(ItemSet)
         /\ \A n \in DOMAIN Tail(sender[c].items) :
              Tail(sender[c].items)[n] \in AllItems(sender[c])
  BY SenderColumns DEF AllItems

\* A replay goes on with the next item.
LEMMA ReadReceiptStep ==
  ASSUME IngestionInv, NEW c \in Senders, ReadReceipt(c)
  PROVE  IngestionInv'
<1>1. sender[c].at = "read" /\ SenderOK(sender[c]) /\ sender[c].at # "idle"
  BY DEF ReadReceipt, Doing, IngestionInv, SendersOK
<1>2. sender[c] \in Pending
  BY <1>1, SenderColumns
<1>3. /\ \A i, j \in AllItems(sender[c]) : i.key = j.key => i = j
      /\ \A i \in sender[c].written : i.key \in AllKeys /\ Claimed(c, i.key)
  BY <1>1, <1>2 DEF IngestionInv, KeysAgree, ClaimsHeld, Pending, ItemSet
<1>4. OneReceipt' /\ receipts' = receipts
  BY SameReceipts DEF ReadReceipt
<1> DEFINE x == NextItem(c)
           rest == Tail(sender[c].items)
<1>5. /\ rowHolder' = [rowHolder EXCEPT ![Receipt(c)] = c] /\ Unheld(c, Receipt(c))
      /\ sender' = [sender EXCEPT ![c] = x]
  BY DEF ReadReceipt
<1>6. rest \in Seq(ItemSet) /\ \A n \in DOMAIN rest : rest[n] \in AllItems(sender[c])
  BY <1>1, NextItemPart
<1>7. x = [sender[c] EXCEPT !.items = rest, !.at = IF rest = <<>> THEN "commit" ELSE "insert"]
  BY DEF NextItem
<1>8. /\ x \in Pending /\ x.at = (IF rest = <<>> THEN "commit" ELSE "insert")
      /\ x.items = rest /\ x.written = sender[c].written
  BY <1>2, <1>6, <1>7 DEF Pending
<1> HIDE DEF x, rest
<1>9. SenderOK(x) /\ AllItems(x) \subseteq AllItems(sender[c])
  BY <1>6, <1>8 DEF SenderOK, AllItems
<1>10. /\ rowHolder' \in [Rows -> Senders \cup {NoSender}]
       /\ \A d \in Senders, k \in AllKeys :
            Claimed(d, k) => rowHolder'[<<"receipt", k>>] = d /\ receipts'[k] = {}
  BY <1>4, <1>5, LockTakesNoClaim
<1>11. /\ \A i, j \in AllItems(x) : i.key = j.key => i = j
       /\ \A i \in x.written :
            rowHolder'[<<"receipt", i.key>>] = c /\ receipts'[i.key] = {}
  BY <1>3, <1>4, <1>5, <1>8, <1>9, <1>10
<1> QED
  BY <1>3, <1>4, <1>5, <1>8, <1>9, <1>10, <1>11, OneMoves

\* Locking a row of the plan takes no receipt from anybody.
LEMMA LockRowStep ==
  ASSUME IngestionInv, NEW c \in Senders, LockRow(c)
  PROVE  IngestionInv'
<1>1. sender[c].at = "row" /\ SenderOK(sender[c]) /\ sender[c].at # "idle"
  BY DEF LockRow, Doing, IngestionInv, SendersOK
<1>2. sender[c] \in Locking(sender[c].rows) /\ sender[c].items # <<>>
  BY <1>1, SenderColumns DEF SenderOK, NotSending
<1>3. /\ \A i, j \in AllItems(sender[c]) : i.key = j.key => i = j
      /\ \A i \in sender[c].written : i.key \in AllKeys /\ Claimed(c, i.key)
      /\ Head(sender[c].items).key \in AllKeys
      /\ Claimed(c, Head(sender[c].items).key)
  BY <1>1, <1>2, SenderColumns DEF IngestionInv, KeysAgree, ClaimsHeld, Locking, ItemSet
<1>4. OneReceipt' /\ receipts' = receipts
  BY SameReceipts DEF LockRow
<1> DEFINE x == [sender[c] EXCEPT !.rows = Tail(sender[c].rows)]
<1>5. /\ rowHolder' = [rowHolder EXCEPT ![Wanted(c)] = c] /\ Unheld(c, Wanted(c))
      /\ sender' = [sender EXCEPT ![c] = x]
  BY DEF LockRow
<1>6. /\ x \in Locking(x.rows) /\ x.at = "row" /\ x.items = sender[c].items
      /\ x.written = sender[c].written
  BY <1>2 DEF Locking
<1> HIDE DEF x
<1>7. SenderOK(x) /\ AllItems(x) = AllItems(sender[c])
  BY <1>2, <1>6 DEF SenderOK, AllItems
<1>8. /\ rowHolder' \in [Rows -> Senders \cup {NoSender}]
      /\ \A d \in Senders, k \in AllKeys :
           Claimed(d, k) => rowHolder'[<<"receipt", k>>] = d /\ receipts'[k] = {}
  BY <1>4, <1>5, LockTakesNoClaim
<1>9. /\ \A i, j \in AllItems(x) : i.key = j.key => i = j
      /\ \A i \in x.written :
           rowHolder'[<<"receipt", i.key>>] = c /\ receipts'[i.key] = {}
  BY <1>3, <1>5, <1>6, <1>7, <1>8
<1>10. rowHolder'[<<"receipt", Head(x.items).key>>] = c
       /\ receipts'[Head(x.items).key] = {}
  BY <1>3, <1>6, <1>8
<1> QED
  BY <1>3, <1>4, <1>5, <1>6, <1>7, <1>8, <1>9, <1>10, OneMoves

\* An item that has been written keeps its claim until the commit.
LEMMA WriteItemStep ==
  ASSUME IngestionInv, NEW c \in Senders, WriteItem(c)
  PROVE  IngestionInv'
<1>1. sender[c].at = "row" /\ SenderOK(sender[c]) /\ sender[c].at # "idle"
  BY DEF WriteItem, Doing, IngestionInv, SendersOK
<1>2. sender[c] \in Locking(sender[c].rows) /\ Item(c) \in ItemSet
      /\ Item(c) \in AllItems(sender[c])
  BY <1>1, SenderColumns DEF Item
<1>3. /\ \A i, j \in AllItems(sender[c]) : i.key = j.key => i = j
      /\ \A i \in sender[c].written \cup {Item(c)} : i.key \in AllKeys /\ Claimed(c, i.key)
  BY <1>1, <1>2 DEF IngestionInv, KeysAgree, ClaimsHeld, Locking, ItemSet, Item
<1>4. OneReceipt' /\ receipts' = receipts /\ rowHolder' = rowHolder
  BY SameReceipts DEF WriteItem
<1> DEFINE rest == Tail(sender[c].items)
           x == [at |-> NextItem(c).at, of |-> sender[c].of, items |-> NextItem(c).items,
                 written |-> Written(c) \cup {Item(c)}]
<1>5. sender' = [sender EXCEPT ![c] = x]
  BY DEF WriteItem
<1>6. rest \in Seq(ItemSet) /\ \A n \in DOMAIN rest : rest[n] \in AllItems(sender[c])
  BY <1>1, NextItemPart
<1>7. NextItem(c).at = (IF rest = <<>> THEN "commit" ELSE "insert")
      /\ NextItem(c).items = rest
  <2>1. NextItem(c) =
          [sender[c] EXCEPT !.items = rest, !.at = IF rest = <<>> THEN "commit" ELSE "insert"]
    BY DEF NextItem
  <2> HIDE DEF rest
  <2> QED
    BY <1>2, <2>1 DEF Locking
<1>8. /\ x \in Pending /\ x.at = (IF rest = <<>> THEN "commit" ELSE "insert")
      /\ x.items = rest /\ x.written = sender[c].written \cup {Item(c)}
  BY <1>2, <1>6, <1>7 DEF Pending, Locking, Written
<1> HIDE DEF x, rest
<1>9. SenderOK(x) /\ AllItems(x) \subseteq AllItems(sender[c])
  BY <1>2, <1>6, <1>8 DEF SenderOK, AllItems
<1>10. /\ rowHolder' \in [Rows -> Senders \cup {NoSender}]
       /\ \A d \in Senders, k \in AllKeys :
            Claimed(d, k) => rowHolder'[<<"receipt", k>>] = d /\ receipts'[k] = {}
  BY <1>4 DEF IngestionInv, SendersOK, Claimed
<1>11. /\ \A i, j \in AllItems(x) : i.key = j.key => i = j
       /\ \A i \in x.written :
            rowHolder'[<<"receipt", i.key>>] = c /\ receipts'[i.key] = {}
  BY <1>3, <1>4, <1>8, <1>9 DEF Claimed
<1> QED
  BY <1>3, <1>4, <1>5, <1>8, <1>9, <1>10, <1>11, OneMoves

\* The receipts of a commit are those of the keys it claimed, one snapshot each.
LEMMA CommitReceipts ==
  ASSUME IngestionInv, NEW c \in Senders, CommitItems(c)
  PROVE  OneReceipt'
<1>1. sender[c].at = "commit" /\ SenderOK(sender[c]) /\ sender[c].at # "idle"
  BY DEF CommitItems, Doing, IngestionInv, SendersOK
<1>2. /\ Written(c) \in SUBSET ItemSet
      /\ \A i, j \in Written(c) : i.key = j.key => i = j
      /\ \A i \in Written(c) : i.key \in AllKeys /\ Claimed(c, i.key)
  BY <1>1, SenderColumns
  DEF IngestionInv, KeysAgree, ClaimsHeld, AllItems, Written, ItemSet
<1>3. /\ receipts' = [k \in AllKeys |->
           receipts[k] \cup {i.snapshot : i \in {j \in Written(c) : j.key = k}}]
      /\ effects' = [k \in AllKeys |->
           effects[k] + Cardinality({i \in Written(c) : i.key = k})]
  BY DEF CommitItems
<1>4. ASSUME NEW k \in AllKeys
      PROVE  \/ receipts'[k] = {} /\ effects'[k] = 0
             \/ \E s \in Snapshots : receipts'[k] = {s} /\ effects'[k] = 1
  <2> DEFINE W == {i \in Written(c) : i.key = k}
  <2>1. /\ receipts'[k] = receipts[k] \cup {i.snapshot : i \in W}
        /\ effects'[k] = effects[k] + Cardinality(W)
    BY <1>3
  <2>2. \/ receipts[k] = {} /\ effects[k] = 0
        \/ \E s \in Snapshots : receipts[k] = {s} /\ effects[k] = 1
    BY DEF IngestionInv, OneReceipt
  <2>3. CASE W = {}
    <3>1. {i.snapshot : i \in W} = {}
      BY <2>3
    <3>2. Cardinality(W) = 0
      BY <2>3, FS_EmptySet
    <3> HIDE DEF W
    <3>3. receipts'[k] = receipts[k] /\ effects'[k] = effects[k]
      BY <2>1, <2>2, <3>1, <3>2
    <3> QED
      BY <2>2, <3>3
  <2>4. ASSUME NEW w \in W
        PROVE  \E s \in Snapshots : receipts'[k] = {s} /\ effects'[k] = 1
    <3>1. w \in ItemSet /\ w.key = k /\ w.snapshot \in Snapshots /\ Claimed(c, k)
      BY <1>2 DEF ItemSet
    <3>2. W = {w}
      BY <1>2, <3>1
    <3>3. receipts[k] = {} /\ effects[k] = 0
      BY <2>2, <3>1 DEF Claimed
    <3> HIDE DEF W
    <3>4. {i.snapshot : i \in W} = {w.snapshot} /\ Cardinality(W) = 1
      BY <3>2, FS_Singleton
    <3>5. receipts'[k] = {w.snapshot} /\ effects'[k] = 1
      BY <2>1, <3>3, <3>4
    <3> QED
      BY <3>1, <3>5
  <2> QED
    BY <2>3, <2>4
<1>5. receipts' = [k \in AllKeys |-> receipts'[k]] /\ effects' = [k \in AllKeys |-> effects'[k]]
  BY <1>3
<1> QED
  BY <1>4, <1>5 DEF OneReceipt

\* A commit gives back the transaction's own locks, and changes no receipt that another
\* one has claimed.
LEMMA CommitStep ==
  ASSUME IngestionInv, NEW c \in Senders, CommitItems(c)
  PROVE  IngestionInv'
<1>1. sender[c].at = "commit" /\ SenderOK(sender[c]) /\ sender[c].at # "idle"
  BY DEF CommitItems, Doing, IngestionInv, SendersOK
<1>2. /\ receipts' = [k \in AllKeys |->
           receipts[k] \cup {i.snapshot : i \in {j \in Written(c) : j.key = k}}]
      /\ rowHolder' = [r \in Rows |-> IF rowHolder[r] = c THEN NoSender ELSE rowHolder[r]]
      /\ sender' = [sender EXCEPT ![c] = NotSending]
  BY DEF CommitItems
<1>3. \A i \in Written(c) : Claimed(c, i.key)
  BY <1>1 DEF IngestionInv, ClaimsHeld, Written
<1>4. \A d \in Senders \ {c}, k \in AllKeys :
        Claimed(d, k) => rowHolder'[<<"receipt", k>>] = d /\ receipts'[k] = {}
  <2> SUFFICES ASSUME NEW d \in Senders \ {c}, NEW k \in AllKeys, Claimed(d, k)
               PROVE  rowHolder'[<<"receipt", k>>] = d /\ receipts'[k] = {}
    OBVIOUS
  <2>1. rowHolder[<<"receipt", k>>] = d /\ receipts[k] = {} /\ <<"receipt", k>> \in Rows
    BY ReceiptRows DEF Claimed
  <2>2. {j \in Written(c) : j.key = k} = {}
    BY <1>3, <2>1 DEF Claimed
  <2> QED
    BY <1>2, <2>1, <2>2
<1>5. SenderOK(NotSending) /\ NotSending.at = "idle"
  BY DEF SenderOK, NotSending
<1>6. rowHolder' \in [Rows -> Senders \cup {NoSender}]
  BY <1>2 DEF IngestionInv, SendersOK
<1> QED
  BY <1>2, <1>4, <1>5, <1>6, CommitReceipts, OneMoves

\* Retention purges no receipt that somebody has claimed.
LEMMA PurgeStep ==
  ASSUME IngestionInv, NEW k \in AllKeys, PurgeReceipt(k)
  PROVE  IngestionInv'
<1>1. /\ receipts' = [receipts EXCEPT ![k] = {}] /\ effects' = [effects EXCEPT ![k] = 0]
      /\ UNCHANGED <<rowHolder, sender>>
  BY DEF PurgeReceipt
<1>2. /\ receipts = [m \in AllKeys |-> receipts[m]] /\ effects = [m \in AllKeys |-> effects[m]]
      /\ \A m \in AllKeys : \/ receipts[m] = {} /\ effects[m] = 0
                            \/ \E s \in Snapshots : receipts[m] = {s} /\ effects[m] = 1
  BY DEF IngestionInv, OneReceipt
<1>3. /\ receipts' = [m \in AllKeys |-> IF m = k THEN {} ELSE receipts[m]]
      /\ effects' = [m \in AllKeys |-> IF m = k THEN 0 ELSE effects[m]]
  BY <1>1, <1>2
<1>4. OneReceipt'
  BY <1>2, <1>3 DEF OneReceipt
<1>5. \A m \in AllKeys : receipts[m] = {} => receipts'[m] = {}
  BY <1>3
<1>6. ClaimsHeld'
  <2>1. ASSUME NEW c \in Senders, sender[c].at # "idle"
        PROVE  /\ \A i \in sender[c].written :
                    rowHolder[<<"receipt", i.key>>] = c /\ receipts'[i.key] = {}
               /\ sender[c].at = "row" =>
                    /\ rowHolder[<<"receipt", Head(sender[c].items).key>>] = c
                    /\ receipts'[Head(sender[c].items).key] = {}
    <3>1. SenderOK(sender[c])
      BY DEF IngestionInv, SendersOK
    <3>2. /\ sender[c].written \in SUBSET ItemSet
          /\ sender[c].at = "row" => Head(sender[c].items) \in ItemSet
      BY <2>1, <3>1, SenderColumns
    <3> QED
      BY <1>5, <2>1, <3>2 DEF IngestionInv, ClaimsHeld, Claimed, ItemSet
  <2> QED
    BY <1>1, <2>1 DEF ClaimsHeld, Claimed
<1>7. SendersOK' /\ KeysAgree'
  BY <1>1 DEF IngestionInv, SendersOK, KeysAgree, AllItems
<1> QED
  BY <1>4, <1>6, <1>7 DEF IngestionInv

\* There is nothing received and nothing under way to begin with.
LEMMA IngestionInitInv == IngestionInit => IngestionInv
<1> SUFFICES ASSUME IngestionInit
             PROVE  IngestionInv
  OBVIOUS
<1>1. \A c \in Senders : sender[c] = NotSending
  BY DEF IngestionInit
<1>2. NotSending.at = "idle" /\ SenderOK(NotSending)
  BY DEF NotSending, SenderOK
<1>3. SendersOK
  BY <1>1, <1>2 DEF IngestionInit, SendersOK
<1>4. OneReceipt
  BY DEF IngestionInit, OneReceipt
<1>5. KeysAgree /\ ClaimsHeld
  BY <1>1, <1>2 DEF KeysAgree, ClaimsHeld
<1> QED
  BY <1>3, <1>4, <1>5 DEF IngestionInv

\* Every step keeps the invariant.
LEMMA IngestionInvStep == IngestionInv /\ [IngestionNext]_ingestionVars => IngestionInv'
<1> SUFFICES ASSUME IngestionInv, [IngestionNext]_ingestionVars
             PROVE  IngestionInv'
  OBVIOUS
<1>1. CASE UNCHANGED ingestionVars
  <2>1. /\ receipts' = receipts /\ effects' = effects
        /\ rowHolder' = rowHolder /\ sender' = sender
    BY <1>1 DEF ingestionVars
  <2>2. SendersOK'
    BY <2>1 DEF IngestionInv, SendersOK
  <2>3. OneReceipt'
    BY <2>1 DEF IngestionInv, OneReceipt
  <2>4. KeysAgree'
    BY <2>1 DEF IngestionInv, KeysAgree, AllItems
  <2>5. ClaimsHeld'
    BY <2>1 DEF IngestionInv, ClaimsHeld, Claimed
  <2> QED
    BY <2>2, <2>3, <2>4, <2>5 DEF IngestionInv
<1>2. ASSUME NEW c \in Senders, DeliverOne(c) \/ DeliverImport(c)
      PROVE  IngestionInv'
  BY <1>2, DeliverStep
<1>3. ASSUME NEW c \in Senders, InsertReceipt(c) \/ ReadReceipt(c)
      PROVE  IngestionInv'
  BY <1>3, InsertReceiptStep, ReadReceiptStep
<1>4. ASSUME NEW c \in Senders, LockRow(c) \/ WriteItem(c) \/ CommitItems(c)
      PROVE  IngestionInv'
  BY <1>4, LockRowStep, WriteItemStep, CommitStep
<1>5. ASSUME NEW c \in Senders,
             \/ ReceiptDisagrees(c) \/ RefuseProducts(c) \/ RefuseFulfilment(c)
             \/ Fail(c)
      PROVE  IngestionInv'
  BY <1>5, RollbackStep DEF ReceiptDisagrees, RefuseProducts, RefuseFulfilment, Fail
<1>6. ASSUME NEW k \in AllKeys, PurgeReceipt(k)
      PROVE  IngestionInv'
  BY <1>6, PurgeStep
<1> QED
  BY <1>1, <1>2, <1>3, <1>4, <1>5, <1>6 DEF IngestionNext

\* The invariant holds throughout.
LEMMA IngestionInvariance == IngestionSpec => []IngestionInv
<1> QED
  BY IngestionInitInv, IngestionInvStep, PTL DEF IngestionSpec

\* While a receipt is kept its snapshot has been written once under it, however many
\* deliveries and files repeat it, how close together and how often they fail.
THEOREM OneEffectPerReceipt == IngestionSpec => []EffectPerReceipt
<1>1. IngestionInv => EffectPerReceipt
  <2> SUFFICES ASSUME IngestionInv, NEW k \in AllKeys
               PROVE  effects[k] = Cardinality(receipts[k]) /\ effects[k] <= 1
    BY DEF EffectPerReceipt
  <2>1. \/ receipts[k] = {} /\ effects[k] = 0
        \/ \E s \in Snapshots : receipts[k] = {s} /\ effects[k] = 1
    BY DEF IngestionInv, OneReceipt
  <2>2. CASE receipts[k] = {} /\ effects[k] = 0
    <3>1. Cardinality({}) = 0
      BY FS_EmptySet
    <3> QED
      BY <2>2, <3>1
  <2>3. CASE \E s \in Snapshots : receipts[k] = {s} /\ effects[k] = 1
    <3>1. PICK s \in Snapshots : receipts[k] = {s} /\ effects[k] = 1
      BY <2>3
    <3>2. Cardinality({s}) = 1
      BY FS_Singleton
    <3> QED
      BY <3>1, <3>2
  <2> QED
    BY <2>1, <2>2, <2>3
<1> QED
  BY <1>1, IngestionInvariance, PTL

-----------------------------------------------------------------------------
(* The order in which an order or a stock position locks its rows.         *)

\* The tables in the order of the upserts, after the receipt.
Place(row) ==
  CASE row[1] = "receipt"  -> 0
    [] row[1] = "channel"  -> 1
    [] row[1] = "location" -> 2
    [] row[1] = "customer" -> 3
    [] row[1] = "product"  -> 4
    [] OTHER               -> 5

\* Whoever waits for row w may hold row r; products follow each other in any order.
Before(r, w) == Place(r) < Place(w) \/ (r[1] = "product" /\ w[1] = "product")

\* The rows of p are locked one after the other, of the tables from lo to hi.
Band(p, lo, hi) ==
  /\ \A n \in DOMAIN p : Place(p[n]) \in lo..hi
  /\ \A m, n \in DOMAIN p : m < n => Before(p[m], p[n])

PlanRows(s) ==
  {<<"channel", s.channel>>, <<"location", CHOOSE n \in s.location : TRUE>>,
   <<"customer", CHOOSE n \in s.customer : TRUE>>, Target(s)}
    \cup {<<"product", l>> : l \in STRING}

\* A place is one of six.
LEMMA PlaceRange == \A row : Place(row) \in 0..5 /\ (row[1] = "product" => Place(row) = 4)
  BY DEF Place

\* Tables that follow each other are locked one after the other.
LEMMA BandsConcat ==
  ASSUME NEW S, NEW p \in Seq(S), NEW q \in Seq(S),
         NEW a \in Nat, NEW b \in Nat, NEW c \in Nat, NEW d \in Nat,
         Band(p, a, b), Band(q, c, d), a <= b, b < c, c <= d
  PROVE  p \o q \in Seq(S) /\ Band(p \o q, a, d)
<1> DEFINE r == p \o q
<1>1. /\ r \in Seq(S)
      /\ Len(r) = Len(p) + Len(q)
      /\ \A i \in 1..Len(p) + Len(q) : r[i] = IF i <= Len(p) THEN p[i] ELSE q[i - Len(p)]
  BY ConcatProperties
<1>2. /\ Len(p) \in Nat /\ DOMAIN p = 1..Len(p) /\ Len(q) \in Nat /\ DOMAIN q = 1..Len(q)
      /\ DOMAIN r = 1..Len(r)
  BY <1>1, LenProperties
<1> HIDE DEF r
<1>3. \A n \in DOMAIN r : \/ n \in DOMAIN p /\ r[n] = p[n]
                          \/ n - Len(p) \in DOMAIN q /\ r[n] = q[n - Len(p)] /\ n > Len(p)
  BY <1>1, <1>2
<1>4. \A n \in DOMAIN r : Place(r[n]) \in a..d
  <2> SUFFICES ASSUME NEW n \in DOMAIN r
               PROVE  Place(r[n]) \in a..d
    OBVIOUS
  <2>1. Place(r[n]) \in 0..5
    BY PlaceRange
  <2>2. Place(r[n]) \in a..b \/ Place(r[n]) \in c..d
    BY <1>3 DEF Band
  <2> QED
    BY <2>1, <2>2
<1>5. \A m, n \in DOMAIN r : m < n => Before(r[m], r[n])
  <2> SUFFICES ASSUME NEW m \in DOMAIN r, NEW n \in DOMAIN r, m < n
               PROVE  Before(r[m], r[n])
    OBVIOUS
  <2>1. CASE n \in DOMAIN p
    <3>1. m \in DOMAIN p /\ r[m] = p[m] /\ r[n] = p[n]
      BY <1>1, <1>2, <2>1
    <3> QED
      BY <2>1, <3>1 DEF Band
  <2>2. CASE n \notin DOMAIN p /\ m \in DOMAIN p
    <3>1. r[m] = p[m] /\ n - Len(p) \in DOMAIN q /\ r[n] = q[n - Len(p)]
      BY <1>1, <1>2, <2>2
    <3>2. Place(r[m]) \in a..b /\ Place(r[n]) \in c..d
      BY <2>2, <3>1 DEF Band
    <3> QED
      BY <3>2 DEF Before
  <2>3. CASE n \notin DOMAIN p /\ m \notin DOMAIN p
    <3>1. /\ m - Len(p) \in DOMAIN q /\ r[m] = q[m - Len(p)]
          /\ n - Len(p) \in DOMAIN q /\ r[n] = q[n - Len(p)]
          /\ m - Len(p) < n - Len(p)
      BY <1>1, <1>2, <2>3
    <3> QED
      BY <3>1 DEF Band
  <2> QED
    BY <2>1, <2>2, <2>3
<1> QED
  BY <1>1, <1>4, <1>5 DEF r, Band

\* One row, or none, is in order.
LEMMA BandOfOne ==
  /\ \A row : Band(<<row>>, Place(row), Place(row))
  /\ \A n \in 0..5 : Band(<<>>, n, n)
<1>1. \A row : Place(row) \in Int
  BY PlaceRange
<1> QED
  BY <1>1 DEF Band

\* The plan of a snapshot is in the order of the tables.
LEMMA PlanInOrder ==
  ASSUME NEW s \in Snapshots
  PROVE  Plan(s) \in Seq(Rows) /\ Band(Plan(s), 1, 5)
<1> DEFINE S == PlanRows(s)
           C == <<<<"channel", s.channel>>>>
           L == OptionalRow("location", s.location)
           B == OptionalRow("customer", s.customer)
           P == ProductRows(s)
           T == <<Target(s)>>
<1>1. C \in Seq(S) /\ Band(C, 1, 1)
  <2>1. Place(<<"channel", s.channel>>) = 1
    BY DEF Place
  <2> QED
    BY <2>1, BandOfOne DEF PlanRows
<1>2. L \in Seq(S) /\ Band(L, 2, 2)
  <2> DEFINE row == <<"location", CHOOSE n \in s.location : TRUE>>
  <2>1. Place(row) = 2 /\ row \in S
    BY DEF Place, PlanRows
  <2>2. L = <<>> \/ L = <<row>>
    BY DEF OptionalRow
  <2> HIDE DEF row, S, L
  <2>3. Band(<<row>>, 2, 2) /\ Band(<<>>, 2, 2) /\ <<row>> \in Seq(S) /\ <<>> \in Seq(S)
    BY <2>1, BandOfOne, EmptySeq
  <2> QED
    BY <2>2, <2>3
<1>3. B \in Seq(S) /\ Band(B, 3, 3)
  <2> DEFINE row == <<"customer", CHOOSE n \in s.customer : TRUE>>
  <2>1. Place(row) = 3 /\ row \in S
    BY DEF Place, PlanRows
  <2>2. B = <<>> \/ B = <<row>>
    BY DEF OptionalRow
  <2> HIDE DEF row, S, B
  <2>3. Band(<<row>>, 3, 3) /\ Band(<<>>, 3, 3) /\ <<row>> \in Seq(S) /\ <<>> \in Seq(S)
    BY <2>1, BandOfOne, EmptySeq
  <2> QED
    BY <2>2, <2>3
<1>4. P \in Seq(S) /\ Band(P, 4, 4)
  <2>1. s.lines \in Seq(STRING)
    BY IngestionAssumption
  <2>2. Len(s.lines) \in Nat /\ DOMAIN s.lines = 1..Len(s.lines)
    BY <2>1, LenProperties
  <2>3. \A n \in 1..Len(s.lines) : s.lines[n] \in STRING
    BY <2>1, ElementOfSeq
  <2>4. P = [i \in 1..Len(s.lines) |-> <<"product", s.lines[i]>>]
    BY <2>2 DEF ProductRows
  <2>5. \A n \in 1..Len(s.lines) : P[n] = <<"product", s.lines[n]>> /\ P[n] \in S
    BY <2>3, <2>4 DEF PlanRows
  <2> HIDE DEF P, S
  <2>6. P \in Seq(S)
    <3>1. P \in [1..Len(s.lines) -> S]
      BY <2>4, <2>5
    <3> QED
      BY <2>2, <3>1
  <2>7. DOMAIN P = 1..Len(s.lines)
    BY <2>4
  <2>8. \A n \in DOMAIN P : P[n][1] = "product"
    BY <2>5, <2>7
  <2>9. \A n \in DOMAIN P : Place(P[n]) \in 4..4
    BY <2>8, PlaceRange
  <2> QED
    BY <2>6, <2>8, <2>9 DEF Band, Before
<1>5. T \in Seq(S) /\ Band(T, 5, 5)
  <2>1. Place(Target(s)) = 5
    BY DEF Place, Target
  <2> QED
    BY <2>1, BandOfOne DEF PlanRows
<1> HIDE DEF S, C, L, B, P, T
<1>6. Plan(s) \in Seq(S) /\ Band(Plan(s), 1, 5)
  <2>0. /\ 1 \in Nat /\ 2 \in Nat /\ 3 \in Nat /\ 4 \in Nat /\ 5 \in Nat
        /\ 1 < 2 /\ 2 < 3 /\ 2 < 4 /\ 3 < 4 /\ 4 < 5
        /\ 1 <= 1 /\ 1 <= 2 /\ 1 <= 3 /\ 1 <= 4
        /\ 2 <= 2 /\ 2 <= 4 /\ 3 <= 3 /\ 4 <= 4 /\ 5 <= 5
    OBVIOUS
  <2>1. CASE s.kind = "order"
    <3>1. Plan(s) = C \o L \o B \o P \o T
      BY <2>1 DEF Plan, C, L, B, P, T
    <3>2. C \o L \in Seq(S) /\ Band(C \o L, 1, 2)
      BY <1>1, <1>2, <2>0, BandsConcat, ZenonT(30)
    <3>3. C \o L \o B \in Seq(S) /\ Band(C \o L \o B, 1, 3)
      BY <1>3, <3>2, <2>0, BandsConcat, ZenonT(30)
    <3>4. C \o L \o B \o P \in Seq(S) /\ Band(C \o L \o B \o P, 1, 4)
      BY <1>4, <3>3, <2>0, BandsConcat, ZenonT(30)
    <3>5. C \o L \o B \o P \o T \in Seq(S) /\ Band(C \o L \o B \o P \o T, 1, 5)
      BY <1>5, <3>4, <2>0, BandsConcat, ZenonT(30)
    <3> QED
      BY <3>1, <3>5, Zenon
  <2>2. CASE s.kind # "order"
    <3>1. Plan(s) = L \o P \o T
      BY <2>2 DEF Plan, L, P, T
    <3>2. L \o P \in Seq(S) /\ Band(L \o P, 2, 4)
      BY <1>2, <1>4, <2>0, BandsConcat, ZenonT(30)
    <3>3. L \o P \o T \in Seq(S) /\ Band(L \o P \o T, 2, 5)
      BY <1>5, <3>2, <2>0, BandsConcat, ZenonT(30)
    <3>4. Plan(s) \in Seq(S) /\ Band(Plan(s), 2, 5)
      BY <3>1, <3>3, Zenon
    <3> QED
      BY <3>4, PlaceRange DEF Band
  <2> QED
    BY <2>1, <2>2
<1>7. \A n \in 1..Len(Plan(s)) : Plan(s)[n] \in Rows
  <2>1. Range(Plan(s)) \subseteq Rows
    BY DEF Rows
  <2> QED
    BY <1>6, <2>1, LenProperties DEF Range
<1>8. Plan(s) \in Seq(Rows)
  <2>1. Len(Plan(s)) \in Nat /\ Plan(s) \in [1..Len(Plan(s)) -> S]
    BY <1>6, LenProperties
  <2> QED
    BY <1>7, <2>1
<1> QED
  BY <1>6, <1>8

-----------------------------------------------------------------------------
(* Who ingests a single item holds rows that come before what it waits for. *)

\* A transaction that holds nothing.
FreeOfLocks(c) == \A r \in Rows : rowHolder[r] # c

\* What transaction c has locked and has still to lock, on its last item.
RowsLeft(c) ==
  /\ sender[c].rows \in Seq(Rows) /\ Band(sender[c].rows, 1, 5)
  /\ \A r \in Rows, n \in DOMAIN sender[c].rows :
       rowHolder[r] = c => Before(r, sender[c].rows[n])

LocksOK(c) ==
  /\ sender[c].at = "idle" => FreeOfLocks(c)
  /\ sender[c].at \in {"insert", "read", "row"} /\ sender[c].of = 1 =>
       /\ Tail(sender[c].items) = <<>>
       /\ IF sender[c].at = "row" THEN RowsLeft(c) ELSE FreeOfLocks(c)

LocksInOrder == \A c \in Senders : LocksOK(c)

\* It is enough to look at the transaction that moves, when no other one gets a row.
LEMMA OneLocks ==
  ASSUME IngestionInv, LocksInOrder, NEW c \in Senders, NEW x,
         sender' = [sender EXCEPT ![c] = x],
         \A d \in Senders \ {c}, r \in Rows : rowHolder'[r] = d => rowHolder[r] = d,
         LocksOK(c)'
  PROVE  LocksInOrder'
<1> SUFFICES ASSUME NEW d \in Senders \ {c}
             PROVE  LocksOK(d)'
  BY DEF LocksInOrder
<1>1. LocksOK(d) /\ sender'[d] = sender[d]
  BY DEF LocksInOrder, IngestionInv, SendersOK
<1>2. FreeOfLocks(d) => FreeOfLocks(d)'
  BY DEF FreeOfLocks
<1>3. RowsLeft(d) => RowsLeft(d)'
  BY <1>1 DEF RowsLeft
<1> QED
  BY <1>1, <1>2, <1>3 DEF LocksOK

\* Who takes a row gets no other one, and nobody else gets any.
LEMMA OneMoreRow ==
  ASSUME IngestionInv, NEW c \in Senders, NEW row,
         rowHolder' = [rowHolder EXCEPT ![row] = c]
  PROVE  /\ \A d \in Senders \ {c}, r \in Rows : rowHolder'[r] = d => rowHolder[r] = d
         /\ \A r \in Rows : rowHolder'[r] = c => r = row \/ rowHolder[r] = c
  BY DEF IngestionInv, SendersOK

\* A transaction begins without locks; one item has no other after it.
LEMMA DeliverLocks ==
  ASSUME IngestionInv, LocksInOrder, NEW c \in Senders, DeliverOne(c) \/ DeliverImport(c)
  PROVE  LocksInOrder'
<1>1. PICK items : Deliver(c, items) /\ (Len(items) = 1 => Tail(items) = <<>>)
  <2>1. CASE DeliverOne(c)
    <3>1. PICK s \in Snapshots, k \in DeliveryKeys :
            Deliver(c, <<[key |-> k, snapshot |-> s]>>)
      BY <2>1 DEF DeliverOne
    <3>2. Tail(<<[key |-> k, snapshot |-> s]>>) = <<>>
      OBVIOUS
    <3> QED
      BY <3>1, <3>2
  <2>2. CASE DeliverImport(c)
    <3>1. PICK f \in Imports :
            Deliver(c, [i \in DOMAIN f |-> [key |-> <<f, f[i]>>, snapshot |-> f[i]]])
      BY <2>2 DEF DeliverImport
    <3> DEFINE items == [i \in DOMAIN f |-> [key |-> <<f, f[i]>>, snapshot |-> f[i]]]
    <3>2. f \in Seq(Snapshots) /\ Len(f) \in Nat /\ DOMAIN f = 1..Len(f)
      BY IngestionAssumption, LenProperties
    <3>3. \A i \in 1..Len(f) : items[i] \in ItemSet
      <4>1. \A i \in DOMAIN f : f[i] \in Snapshots /\ <<f, f[i]>> \in AllKeys
        BY <3>2 DEF AllKeys, ImportKeys
      <4> QED
        BY <3>2, <4>1 DEF ItemSet
    <3>4. items = [i \in 1..Len(f) |-> items[i]]
      BY <3>2
    <3> HIDE DEF items
    <3>5. items \in Seq(ItemSet)
      <4>1. items \in [1..Len(f) -> ItemSet]
        BY <3>3, <3>4
      <4> QED
        BY <3>2, <4>1
    <3>6. Len(items) = 1 => Tail(items) = <<>>
      <4> SUFFICES ASSUME Len(items) = 1
                   PROVE  Tail(items) = <<>>
        OBVIOUS
      <4>1. items # <<>>
        BY EmptySeq
      <4>2. Tail(items) \in Seq(ItemSet) /\ Len(Tail(items)) = 0
        BY <3>5, <4>1, HeadTailProperties
      <4> QED
        BY <4>2, EmptySeq
    <3> QED
      BY <3>1, <3>6 DEF items
  <2> QED
    BY <2>1, <2>2
<1> DEFINE x == [at |-> "insert", of |-> Len(items), items |-> items, written |-> {}]
<1>2. /\ sender[c].at = "idle" /\ sender' = [sender EXCEPT ![c] = x]
      /\ rowHolder' = rowHolder
  BY <1>1 DEF Deliver, Doing
<1>3. sender'[c] = x
  BY <1>2 DEF IngestionInv, SendersOK
<1>4. FreeOfLocks(c)'
  BY <1>2 DEF LocksInOrder, LocksOK, FreeOfLocks
<1>5. LocksOK(c)'
  BY <1>1, <1>3, <1>4 DEF LocksOK
<1> QED
  BY <1>2, <1>5, OneLocks

\* What ends gives its rows back.
LEMMA EndLocks ==
  ASSUME IngestionInv, LocksInOrder, NEW c \in Senders, Rollback(c) \/ CommitItems(c)
  PROVE  LocksInOrder'
<1>1. /\ rowHolder' = [r \in Rows |-> IF rowHolder[r] = c THEN NoSender ELSE rowHolder[r]]
      /\ sender' = [sender EXCEPT ![c] = NotSending]
  BY DEF Rollback, CommitItems
<1>2. sender'[c] = NotSending /\ NotSending.at = "idle"
  BY <1>1 DEF IngestionInv, SendersOK, NotSending
<1>3. FreeOfLocks(c)'
  BY <1>1, IngestionAssumption DEF FreeOfLocks
<1>4. LocksOK(c)'
  BY <1>2, <1>3 DEF LocksOK
<1>5. \A d \in Senders \ {c}, r \in Rows : rowHolder'[r] = d => rowHolder[r] = d
  BY <1>1, IngestionAssumption
<1> QED
  BY <1>1, <1>4, <1>5, OneLocks

\* The receipt comes before all rows of the plan.
LEMMA InsertLocks ==
  ASSUME IngestionInv, LocksInOrder, NEW c \in Senders, InsertReceipt(c)
  PROVE  LocksInOrder'
<1>1. sender[c].at = "insert" /\ SenderOK(sender[c]) /\ LocksOK(c)
  BY DEF InsertReceipt, Doing, IngestionInv, SendersOK, LocksInOrder
<1>2. sender[c] \in Pending /\ Item(c) \in ItemSet
  BY <1>1, SenderColumns DEF Item
<1>3. CASE receipts[Item(c).key] = {}
  <2> DEFINE x == [at |-> "row", of |-> sender[c].of, items |-> sender[c].items,
                   written |-> sender[c].written, rows |-> Plan(Item(c).snapshot)]
  <2>1. /\ rowHolder' = [rowHolder EXCEPT ![Receipt(c)] = c]
        /\ sender' = [sender EXCEPT ![c] = x]
    BY <1>3 DEF InsertReceipt
  <2>2. sender'[c] = x
    BY <2>1 DEF IngestionInv, SendersOK
  <2>3. /\ \A d \in Senders \ {c}, r \in Rows : rowHolder'[r] = d => rowHolder[r] = d
        /\ \A r \in Rows : rowHolder'[r] = c => r = Receipt(c) \/ rowHolder[r] = c
    BY <2>1, OneMoreRow
  <2>4. Plan(Item(c).snapshot) \in Seq(Rows) /\ Band(Plan(Item(c).snapshot), 1, 5)
    BY <1>2, PlanInOrder DEF ItemSet
  <2>5. ASSUME sender[c].of = 1
        PROVE  Tail(x.items) = <<>> /\ RowsLeft(c)'
    <3>1. Tail(x.items) = <<>> /\ FreeOfLocks(c)
      BY <1>1, <2>5 DEF LocksOK
    <3>2. \A r \in Rows : rowHolder'[r] = c => Place(r) = 0
      BY <2>3, <3>1 DEF FreeOfLocks, Receipt, Place
    <3>3. \A n \in DOMAIN x.rows : Place(x.rows[n]) \in 1..5
      BY <2>4 DEF Band
    <3> QED
      BY <2>2, <2>4, <3>1, <3>2, <3>3 DEF RowsLeft, Before
  <2>6. LocksOK(c)'
    BY <2>2, <2>5 DEF LocksOK
  <2> QED
    BY <2>1, <2>3, <2>6, OneLocks
<1>4. CASE receipts[Item(c).key] # {}
  <2> DEFINE x == [sender[c] EXCEPT !.at = "read"]
  <2>1. rowHolder' = rowHolder /\ sender' = [sender EXCEPT ![c] = x]
    BY <1>4 DEF InsertReceipt
  <2>2. sender'[c] = x
    BY <2>1 DEF IngestionInv, SendersOK
  <2>3. x.at = "read" /\ x.of = sender[c].of /\ x.items = sender[c].items
    BY <1>2 DEF Pending
  <2> HIDE DEF x
  <2>4. FreeOfLocks(c) => FreeOfLocks(c)'
    BY <2>1 DEF FreeOfLocks
  <2>5. LocksOK(c)'
    BY <1>1, <2>2, <2>3, <2>4 DEF LocksOK
  <2> QED
    BY <2>1, <2>5, OneLocks
<1> QED
  BY <1>3, <1>4

\* After its one item a transaction commits, and waits for nothing.
LEMMA NextLocks ==
  ASSUME IngestionInv, LocksInOrder, NEW c \in Senders, ReadReceipt(c) \/ WriteItem(c)
  PROVE  LocksInOrder'
<1>1. sender[c].at \in {"read", "row"} /\ SenderOK(sender[c]) /\ LocksOK(c)
  BY DEF ReadReceipt, WriteItem, Doing, IngestionInv, SendersOK, LocksInOrder
<1>2. sender[c] \in Pending \cup Locking(sender[c].rows)
  BY <1>1, SenderColumns
<1> DEFINE rest == Tail(sender[c].items)
<1>3. NextItem(c).at = (IF rest = <<>> THEN "commit" ELSE "insert")
      /\ NextItem(c).items = rest /\ NextItem(c).of = sender[c].of
  <2>1. NextItem(c) =
          [sender[c] EXCEPT !.items = rest, !.at = IF rest = <<>> THEN "commit" ELSE "insert"]
    BY DEF NextItem
  <2> HIDE DEF rest
  <2> QED
    BY <1>2, <2>1 DEF Locking, Pending
<1>4. PICK x : /\ sender' = [sender EXCEPT ![c] = x]
               /\ x.at = NextItem(c).at /\ x.of = sender[c].of
  <2>1. CASE ReadReceipt(c)
    BY <1>3, <2>1 DEF ReadReceipt
  <2>2. CASE WriteItem(c)
    <3> DEFINE y == [at |-> NextItem(c).at, of |-> sender[c].of, items |-> NextItem(c).items,
                     written |-> Written(c) \cup {Item(c)}]
    <3>1. sender' = [sender EXCEPT ![c] = y]
      BY <2>2 DEF WriteItem
    <3>2. y.at = NextItem(c).at /\ y.of = sender[c].of
      OBVIOUS
    <3> HIDE DEF y
    <3> QED
      BY <3>1, <3>2
  <2> QED
    BY <2>1, <2>2
<1>5. sender'[c] = x
  BY <1>4 DEF IngestionInv, SendersOK
<1>6. sender[c].of = 1 => x.at = "commit"
  BY <1>1, <1>3, <1>4 DEF LocksOK
<1>7. LocksOK(c)'
  BY <1>3, <1>4, <1>5, <1>6 DEF LocksOK
<1>8. \A d \in Senders \ {c}, r \in Rows : rowHolder'[r] = d => rowHolder[r] = d
  BY OneMoreRow DEF ReadReceipt, WriteItem
<1> QED
  BY <1>4, <1>7, <1>8, OneLocks

\* The row that is locked comes before those that are left.
LEMMA RowLocks ==
  ASSUME IngestionInv, LocksInOrder, NEW c \in Senders, LockRow(c)
  PROVE  LocksInOrder'
<1>1. /\ sender[c].at = "row" /\ SenderOK(sender[c]) /\ LocksOK(c)
      /\ sender[c].rows # <<>>
  BY DEF LockRow, Doing, IngestionInv, SendersOK, LocksInOrder
<1>2. sender[c] \in Locking(sender[c].rows)
  BY <1>1, SenderColumns
<1> DEFINE rows == sender[c].rows
           x == [sender[c] EXCEPT !.rows = Tail(sender[c].rows)]
<1>3. /\ rowHolder' = [rowHolder EXCEPT ![Head(rows)] = c]
      /\ sender' = [sender EXCEPT ![c] = x]
  BY <1>1 DEF LockRow, Wanted, Doing
<1>4. sender'[c] = x
  BY <1>3 DEF IngestionInv, SendersOK
<1>5. /\ x.at = "row" /\ x.of = sender[c].of /\ x.items = sender[c].items
      /\ x.rows = Tail(rows)
  BY <1>1, <1>2 DEF Locking
<1> HIDE DEF x
<1>6. /\ \A d \in Senders \ {c}, r \in Rows : rowHolder'[r] = d => rowHolder[r] = d
      /\ \A r \in Rows : rowHolder'[r] = c => r = Head(rows) \/ rowHolder[r] = c
  BY <1>3, OneMoreRow
<1>7. ASSUME sender[c].of = 1
      PROVE  Tail(x.items) = <<>> /\ RowsLeft(c)'
  <2>1. Tail(x.items) = <<>> /\ RowsLeft(c)
    BY <1>1, <1>5, <1>7 DEF LocksOK
  <2>2. rows \in Seq(Rows) /\ Band(rows, 1, 5)
    BY <2>1 DEF RowsLeft
  <2>3. /\ Head(rows) = rows[1] /\ Tail(rows) \in Seq(Rows)
        /\ Len(Tail(rows)) = Len(rows) - 1 /\ Len(rows) \in Nat \ {0}
        /\ \A n \in 1..Len(Tail(rows)) : Tail(rows)[n] = rows[n + 1]
    BY <1>1, <2>2, HeadTailProperties, EmptySeq
  <2>4. DOMAIN rows = 1..Len(rows) /\ DOMAIN Tail(rows) = 1..Len(Tail(rows))
    BY <2>2, <2>3, LenProperties
  <2>5. \A n \in DOMAIN Tail(rows) :
          n \in Nat /\ n > 0 /\ n + 1 \in DOMAIN rows /\ Tail(rows)[n] = rows[n + 1]
    BY <2>3, <2>4
  <2>6. Band(Tail(rows), 1, 5)
    <3>1. \A n \in DOMAIN Tail(rows) : Place(Tail(rows)[n]) \in 1..5
      BY <2>2, <2>5 DEF Band
    <3>2. ASSUME NEW m \in DOMAIN Tail(rows), NEW n \in DOMAIN Tail(rows), m < n
          PROVE  Before(Tail(rows)[m], Tail(rows)[n])
      <4>1. m + 1 < n + 1
        BY <2>5, <3>2
      <4> QED
        BY <2>2, <2>5, <4>1 DEF Band
    <3> QED
      BY <3>1, <3>2 DEF Band
  <2>7. ASSUME NEW r \in Rows, NEW n \in DOMAIN Tail(rows), rowHolder'[r] = c
        PROVE  Before(r, Tail(rows)[n])
    <3>1. CASE r = Head(rows)
      <4>1. 1 \in DOMAIN rows /\ 1 < n + 1
        BY <2>3, <2>4, <2>5
      <4> QED
        BY <2>2, <2>3, <2>5, <3>1, <4>1 DEF Band
    <3>2. CASE rowHolder[r] = c
      BY <2>1, <2>5, <3>2 DEF RowsLeft
    <3> QED
      BY <1>6, <2>7, <3>1, <3>2
  <2> QED
    BY <1>4, <1>5, <2>1, <2>3, <2>6, <2>7 DEF RowsLeft
<1>8. LocksOK(c)'
  BY <1>4, <1>5, <1>7 DEF LocksOK
<1> QED
  BY <1>3, <1>6, <1>8, OneLocks

\* The locks of those who ingest one item stay in order.
LEMMA LocksStep ==
  IngestionInv /\ LocksInOrder /\ [IngestionNext]_ingestionVars => LocksInOrder'
<1> SUFFICES ASSUME IngestionInv, LocksInOrder, [IngestionNext]_ingestionVars
             PROVE  LocksInOrder'
  OBVIOUS
<1>1. ASSUME sender' = sender, rowHolder' = rowHolder
      PROVE  LocksInOrder'
  BY <1>1 DEF LocksInOrder, LocksOK, FreeOfLocks, RowsLeft
<1>2. ASSUME NEW c \in Senders,
             ReceiptDisagrees(c) \/ RefuseProducts(c) \/ RefuseFulfilment(c)
               \/ CommitItems(c) \/ Fail(c)
      PROVE  LocksInOrder'
  BY <1>2, EndLocks DEF ReceiptDisagrees, RefuseProducts, RefuseFulfilment, Fail
<1>3. ASSUME NEW k \in AllKeys, PurgeReceipt(k)
      PROVE  LocksInOrder'
  BY <1>1, <1>3 DEF PurgeReceipt
<1>4. CASE UNCHANGED ingestionVars
  BY <1>1, <1>4 DEF ingestionVars
<1> QED
  BY <1>2, <1>3, <1>4, DeliverLocks, InsertLocks, NextLocks, RowLocks DEF IngestionNext

\* Nobody holds a row at first.
LEMMA LocksInit == IngestionInit => LocksInOrder
  BY IngestionAssumption DEF IngestionInit, LocksInOrder, LocksOK, FreeOfLocks, NotSending

\* Every member of a circle holds the row it is asked for, and waits for a later one.
LEMMA WaitsForLater ==
  ASSUME IngestionInv, LocksInOrder, NEW S \in SUBSET Senders, Circle(S),
         \A c \in S : sender[c].of = 1, NEW b \in S
  PROVE  Before(Wanted(b), Wanted(rowHolder[Wanted(b)]))
<1> DEFINE w == Wanted(b)
           d == rowHolder[w]
<1>1. Blocked(b) /\ d \in S /\ Blocked(d)
  BY DEF Circle
<1>2. /\ SenderOK(sender[b]) /\ LocksOK(b) /\ sender[b].of = 1
      /\ LocksOK(d) /\ sender[d].of = 1
  BY <1>1 DEF IngestionInv, SendersOK, LocksInOrder
<1>3. w \in Rows
  <2>1. CASE sender[b].at = "row"
    <3>1. sender[b].rows # <<>> /\ sender[b].rows \in Seq(Rows)
      BY <1>1, <1>2, <2>1 DEF Blocked, Waits, Doing, LocksOK, RowsLeft
    <3> QED
      BY <2>1, <3>1, HeadTailProperties DEF Wanted, Doing
  <2>2. CASE sender[b].at \in {"insert", "read"}
    <3>1. Head(sender[b].items) \in ItemSet
      BY <1>2, <2>2, SenderColumns
    <3> QED
      BY <2>2, <3>1, ReceiptRows DEF Wanted, Doing, Receipt, Item, ItemSet
  <2> QED
    BY <1>1, <2>1, <2>2 DEF Blocked, Waits, Doing
<1>4. sender[d].at \in {"insert", "read", "row"} /\ ~FreeOfLocks(d)
  BY <1>1, <1>3 DEF Blocked, Waits, Doing, FreeOfLocks
<1>5. sender[d].at = "row" /\ RowsLeft(d)
  BY <1>2, <1>4 DEF LocksOK
<1>6. sender[d].rows # <<>> /\ Wanted(d) = Head(sender[d].rows)
  BY <1>1, <1>5 DEF Blocked, Waits, Doing, Wanted
<1>7. 1 \in DOMAIN sender[d].rows /\ Head(sender[d].rows) = sender[d].rows[1]
  <2>1. sender[d].rows \in Seq(Rows)
    BY <1>5 DEF RowsLeft
  <2> QED
    BY <1>6, <2>1, HeadTailProperties, LenProperties, EmptySeq
<1> QED
  BY <1>3, <1>5, <1>6, <1>7 DEF RowsLeft

\* In a circle of waiting nobody waits for a row before the products, and nobody for
\* one after them.
LEMMA CircleOfProducts ==
  ASSUME IngestionInv, LocksInOrder
  PROVE  OnlyProductsDeadlock
<1> SUFFICES ASSUME NEW S \in SUBSET Senders, Circle(S), \A c \in S : sender[c].of = 1,
                    NEW a \in S
             PROVE  Wanted(a)[1] = "product"
  BY DEF OnlyProductsDeadlock
<1> DEFINE place(c) == Place(Wanted(c))
           product(c) == Wanted(c)[1] = "product"
<1>1. \A c \in S : place(c) \in 0..5 /\ (product(c) <=> place(c) = 4)
  BY DEF Place
<1>2. \A c \in S : \E b \in S : place(b) < place(c) \/ (product(b) /\ product(c))
  <2> SUFFICES ASSUME NEW c \in S
               PROVE  \E b \in S : place(b) < place(c) \/ (product(b) /\ product(c))
    OBVIOUS
  <2>1. PICK b \in S : rowHolder[Wanted(b)] = c
    BY DEF Circle
  <2> QED
    BY <2>1, WaitsForLater DEF Before
<1>3. \A b \in S : \E c \in S : place(b) < place(c) \/ (product(b) /\ product(c))
  <2> SUFFICES ASSUME NEW b \in S
               PROVE  \E c \in S : place(b) < place(c) \/ (product(b) /\ product(c))
    OBVIOUS
  <2>1. rowHolder[Wanted(b)] \in S
    BY DEF Circle
  <2> QED
    BY <2>1, WaitsForLater DEF Before
<1> HIDE DEF place, product
<1>4. \A n \in 0..3 : (\A c \in S : place(c) >= n) => \A c \in S : place(c) >= n + 1
  BY <1>1, <1>2
<1>5. \A c \in S : place(c) >= 4
  <2>1. \A c \in S : place(c) >= 0
    BY <1>1
  <2>2. \A c \in S : place(c) >= 1
    BY <1>4, <2>1
  <2>3. \A c \in S : place(c) >= 2
    BY <1>4, <2>2
  <2>4. \A c \in S : place(c) >= 3
    BY <1>4, <2>3
  <2> QED
    BY <1>4, <2>4
<1>6. place(a) = 4
  BY <1>1, <1>3, <1>5
<1> QED
  BY <1>1, <1>6 DEF product

\* claimRequest, the upserts and the commit of any number of transactions: where those
\* that ingest one order or position wait for each other in a circle, each of them
\* waits for a product; the order of the tables closes no other circle.
THEOREM CirclesAreProducts == IngestionSpec => []OnlyProductsDeadlock
<1>1. IngestionInit => IngestionInv /\ LocksInOrder
  BY IngestionInitInv, LocksInit
<1>2. IngestionInv /\ LocksInOrder /\ [IngestionNext]_ingestionVars
        => (IngestionInv /\ LocksInOrder)'
  BY IngestionInvStep, LocksStep
<1>3. IngestionInv /\ LocksInOrder => OnlyProductsDeadlock
  BY CircleOfProducts
<1> QED
  BY <1>1, <1>2, <1>3, PTL DEF IngestionSpec
-----------------------------------------------------------------------------
(* The order contract: what is valid can be stored.                        *)

\* The columns of an accepted order satisfy the CHECKs of orders: each amount and
\* each part of the sum is within the database's integers.
LEMMA ValidColumnsStorable ==
  ASSUME NEW c, IsColumns(c), Amounts(c), c.total = c.subtotal - c.discount + c.tax
  PROVE  /\ NotNegative(c)
         /\ SumMatches(c.total, c.subtotal, c.discount, c.tax)
<1>1. DOMAIN c = {"about", "subtotal", "discount", "tax", "total"}
  BY DEF IsColumns, Columns
<1>2. \A field \in {"subtotal", "discount", "tax", "total"} : c[field] \in 0..SafeInteger
  BY <1>1 DEF Amounts, Amount
<1>3. c.subtotal \in 0..SafeInteger /\ c.discount \in 0..SafeInteger
        /\ c.tax \in 0..SafeInteger /\ c.total \in 0..SafeInteger
  BY <1>2
<1>4. \A n \in 0..SafeInteger : Fits(n) /\ n >= 0
  BY ContractAssumption DEF Fits
<1>5. NotNegative(c)
  BY <1>1, <1>2, <1>4 DEF NotNegative
<1>6. SumMatches(c.total, c.subtotal, c.discount, c.tax)
  BY <1>3, ContractAssumption DEF SumMatches, Fits
<1> QED  BY <1>5, <1>6

\* An item the contract accepts satisfies the CHECKs of order_items: its product is
\* its total without tax and with the discount, at most twice the largest amount.
LEMMA ValidItemStorable ==
  ASSUME NEW i, IsLineItem(i), ValidItem(i)
  PROVE  StorableItem(i)
<1>1. DOMAIN i = {"id", "product", "sku", "quantity", "price", "discount", "tax", "total"}
  BY DEF IsLineItem, LineItem
<1>2. \A field \in {"price", "discount", "tax", "total"} : i[field] \in 0..SafeInteger
  BY <1>1 DEF ValidItem, Amounts, Amount
<1>3. /\ i.price \in 0..SafeInteger /\ i.discount \in 0..SafeInteger
      /\ i.tax \in 0..SafeInteger /\ i.total \in 0..SafeInteger
      /\ i.quantity \in 1..MaxQuantity
  BY <1>2 DEF ValidItem
<1>4. \A n \in 0..SafeInteger : Fits(n) /\ n >= 0
  BY ContractAssumption DEF Fits
<1>5. Fits(i.quantity) /\ i.quantity > 0
  BY <1>3, ContractAssumption DEF Fits
<1>6. NotNegative(i)
  <2>1. \A field \in {"price", "discount", "tax", "total"} : Fits(i[field]) /\ i[field] >= 0
    BY <1>2, <1>4
  <2>2. Fits(i["quantity"]) /\ i["quantity"] >= 0
    BY <1>3, <1>5
  <2>3. \A field \in DOMAIN i \ {"id", "about", "product", "sku"} :
          field = "quantity" \/ field \in {"price", "discount", "tax", "total"}
    BY <1>1
  <2> QED  BY <2>1, <2>2, <2>3 DEF NotNegative
<1>7. SumMatches(i.total, i.quantity * i.price, i.discount, i.tax)
  <2> DEFINE product == i.quantity * i.price
  <2>1. product \in Int
    BY <1>3, ContractAssumption
  <2>2. i.total = product - i.discount + i.tax
    BY DEF ValidItem
  <2> HIDE DEF product
  <2>3. SumMatches(i.total, product, i.discount, i.tax)
    BY <1>3, <2>1, <2>2, ContractAssumption DEF SumMatches, Fits
  <2> QED  BY <2>3 DEF product
<1> QED  BY <1>5, <1>6, <1>7 DEF StorableItem

\* The same for the amounts of a payment.
LEMMA ValidPaymentStorable ==
  ASSUME NEW p \in [captured : Int, refunded : Int], ValidPayment(p)
  PROVE  StorablePayment(p)
<1>1. DOMAIN p = {"captured", "refunded"}
  OBVIOUS
<1>2. \A field \in {"captured", "refunded"} : p[field] \in 0..SafeInteger
  BY <1>1 DEF ValidPayment, Amounts, Amount
<1>3. \A n \in 0..SafeInteger : Fits(n) /\ n >= 0
  BY ContractAssumption DEF Fits
<1> QED  BY <1>1, <1>2, <1>3 DEF StorablePayment, NotNegative, ValidPayment

\* Of two instants the earlier one is not in a later millisecond.
LEMMA MillisecondsMonotone ==
  ASSUME NEW a \in Int, NEW b \in Int, a <= b
  PROVE  Milliseconds(a) <= Milliseconds(b) /\ Milliseconds(a) \in Int
<1> DEFINE k == PerMillisecond
           p == a \div k
           q == b \div k
<1>1. k \in Nat \ {0}
  BY ContractAssumption
<1> HIDE DEF k
<1>2. p \in Int /\ q \in Int /\ k * p <= a /\ b < k * q + k
  BY <1>1
<1> HIDE DEF p, q
<1>3. k * p < k * q + k
  <2>1. k * p \in Int /\ k * q \in Int
    BY <1>1, <1>2
  <2> QED
    BY <1>1, <1>2, <2>1
<1>4. p <= q
  <2> SUFFICES ASSUME p >= q + 1
               PROVE  FALSE
    BY <1>2
  <2>1. k * p >= k * (q + 1) /\ k * (q + 1) = k * q + k
    BY <1>1, <1>2
  <2> QED
    BY <1>1, <1>2, <1>3, <2>1
<1> QED
  BY <1>2, <1>4 DEF Milliseconds, p, q, k

\* Two instants the contract lets pass and the table refuses are in one millisecond.
LEMMA InOrderStorable ==
  ASSUME NEW e, HasInstants(e), InOrder(e), ~StorableEvent(e)
  PROVE  OneMillisecond(e)
<1>1. e.first \in Int /\ e.then \in Int
  BY DEF HasInstants
<1>2. e.then < e.first /\ Milliseconds(e.then) >= Milliseconds(e.first)
  BY <1>1 DEF StorableEvent, InOrder
<1>3. /\ Milliseconds(e.then) <= Milliseconds(e.first)
      /\ Milliseconds(e.then) \in Int /\ Milliseconds(e.first) \in Int
  BY <1>1, <1>2, MillisecondsMonotone
<1> QED  BY <1>2, <1>3 DEF OneMillisecond

\* What the contract accepts and the transaction refuses, it refuses for a reason the
\* contract does not look at.
LEMMA ValidIsStorable ==
  ASSUME NEW o, IsCandidate(o), ValidOrder(o), NEW table, NEW already,
         ~Storable(o, table, already)
  PROVE  Overlooked(o, table, already)
<1>1. NotNegative(o.columns)
      /\ SumMatches(o.columns.total, o.columns.subtotal, o.columns.discount, o.columns.tax)
  BY ValidColumnsStorable DEF IsCandidate, ValidOrder
<1>2. \A i \in Range(o.items) : StorableItem(i)
  BY ValidItemStorable DEF IsCandidate, ValidOrder
<1>3. \A p \in o.payment : StorablePayment(p)
  BY ValidPaymentStorable DEF IsCandidate, ArePayments, ValidOrder
<1>4. \A e \in Range(o.returns) : Fits(e.amount) /\ e.amount >= 0
  BY ContractAssumption DEF IsCandidate, ValidOrder, Amount, Fits
<1>5. CASE \A e \in Range(o.fulfilments) \cup Range(o.returns) : StorableEvent(e)
  <2>1. WithinConstraints(o)
    BY <1>1, <1>2, <1>3, <1>4, <1>5 DEF WithinConstraints, ValidOrder
  <2> QED  BY <2>1 DEF Storable, Overlooked
<1>6. CASE \E e \in Range(o.fulfilments) \cup Range(o.returns) : ~StorableEvent(e)
  BY <1>6, InOrderStorable DEF IsCandidate, ValidOrder, Overlooked
<1> QED  BY <1>5, <1>6

-----------------------------------------------------------------------------
(* Grouping the rows of a file.                                            *)

GroupingRecord(p) ==
  /\ p = [at |-> "grouping", file |-> p.file, next |-> p.next, groups |-> p.groups,
          issues |-> p.issues]
  /\ p.file \in Files /\ p.next \in 1..Len(p.file) + 1 /\ p.issues \in BOOLEAN
  /\ p.groups = [id \in DOMAIN p.groups |-> p.groups[id]]

AcceptedRecord(p) ==
  /\ p = [at |-> "accepted", orders |-> p.orders, file |-> p.file, stored |-> p.stored,
          own |-> p.own]
  /\ p.stored \subseteq p.orders

StoredRecord(p) == p = [at |-> "stored", orders |-> p.orders, file |-> p.file]

RejectedRecord(p) ==
  p = [at |-> "rejected", order |-> p.order, seen |-> p.seen, stored |-> p.stored]

ContractTypeOK ==
  \/ parse \in [at : {"idle", "refused"}]
  \/ GroupingRecord(parse)
  \/ AcceptedRecord(parse)
  \/ StoredRecord(parse)
  \/ RejectedRecord(parse)

\* A group is a sequence of at least one of the file's rows.
GroupsOfRows ==
  parse.at = "grouping" => \A id \in DOMAIN parse.groups :
    parse.groups[id] \in Seq(Range(parse.file)) \ {<<>>}

\* Every row read so far is in the group of its order.
RowsAreGrouped ==
  parse.at = "grouping" => \A k \in 1..parse.next - 1 :
    LET id == parse.file[k].order
    IN  /\ id \in DOMAIN parse.groups
        /\ \E i \in DOMAIN parse.groups[id] : parse.groups[id][i] = parse.file[k]

\* Without an issue, the rows of a group have the columns of its first one.
GroupsAgree ==
  parse.at = "grouping" /\ ~parse.issues => \A id \in DOMAIN parse.groups :
    \A i \in DOMAIN parse.groups[id] : parse.groups[id][i].columns = Head(parse.groups[id]).columns

\* Every row of a file is an item, once, of one of the orders.
RowsKept(taken, file) ==
  \A row \in Range(file) : \E o \in taken :
    /\ o.id = row.order.id /\ o.columns = ColumnsOf(row)
    /\ Cardinality({i \in DOMAIN o.items : o.items[i] = ItemOf(row)}) = 1

\* What is being stored is valid, and holds the rows of its file.
AcceptedOrders ==
  parse.at = "accepted" =>
    /\ \A o \in parse.orders : IsCandidate(o) /\ ValidOrder(o)
    /\ RowsKept(parse.orders, parse.file)

GroupingInv == GroupsOfRows /\ RowsAreGrouped /\ GroupsAgree

ContractInv ==
  ContractTypeOK /\ GroupingInv /\ AcceptedOrders /\ AcceptedIsStoredWhole

\* A file's groups hold rows, and what is built of a row has the parts of an order.
LEMMA ToOrderIsCandidate ==
  ASSUME NEW f \in Files, NEW rows \in Seq(Range(f)) \ {<<>>}, NEW id
  PROVE  IsCandidate(ToOrder(id, rows))
<1> DEFINE o == ToOrder(id, rows)
<1>1. IsRow(Head(rows)) /\ \A i \in DOMAIN rows : IsRow(rows[i])
  BY ContractAssumption
<1>2. \A n \in Int : OrZero(n) \in Int
  BY DEF OrZero
<1>3. IsColumns(ColumnsOf(Head(rows)))
  BY <1>1, <1>2 DEF ColumnsOf, IsRow, IsColumns, Columns
<1>4. IsColumns(o.columns)
  BY <1>3 DEF ToOrder, Candidate
<1>6. \A i \in DOMAIN rows : IsLineItem(ItemOf(rows[i]))
  BY <1>1, <1>2 DEF ItemOf, IsRow, IsLineItem, LineItem
<1>7. o.items = [i \in DOMAIN rows |-> ItemOf(rows[i])]
  BY DEF ToOrder, Candidate
<1>8. DOMAIN rows = 1..Len(rows) /\ Len(rows) \in Nat
  OBVIOUS
<1>9. o.items \in Seq(Range(o.items)) /\ \A i \in Range(o.items) : IsLineItem(i)
  <2>1. \A i \in 1..Len(rows) : o.items[i] \in Range(o.items)
    BY <1>7, <1>8 DEF Range
  <2>2. o.items \in [1..Len(rows) -> Range(o.items)]
    BY <1>7, <1>8, <2>1
  <2>3. o.items \in Seq(Range(o.items))
    BY <1>8, <2>2
  <2> QED  BY <1>6, <1>7, <2>3 DEF Range
<1>10. ArePayments(o.payment)
  <2>1. ArePayments(Head(rows).payment)
    BY <1>1 DEF IsRow
  <2>2. \A p \in [captured : Int, refunded : Int] :
          [p EXCEPT !.captured = OrZero(@), !.refunded = OrZero(@)]
            \in [captured : Int, refunded : Int]
    BY <1>2
  <2>3. o.payment = PaymentOf(Head(rows))
    BY DEF ToOrder, Candidate
  <2>4. PaymentOf(Head(rows)) \subseteq [captured : Int, refunded : Int]
    BY <2>1, <2>2 DEF ArePayments, PaymentOf
  <2> QED  BY <2>3, <2>4 DEF ArePayments
<1>11. Range(o.fulfilments) = {} /\ Range(o.returns) = {}
  BY DEF ToOrder, Candidate, Range
<1> QED  BY <1>4, <1>9, <1>10, <1>11 DEF IsCandidate

\* What appending an element leaves of a sequence.
LEMMA Appended ==
  ASSUME NEW S, NEW s \in Seq(S), NEW e \in S
  PROVE  /\ Append(s, e) \in Seq(S) \ {<<>>}
         /\ DOMAIN s = 1..Len(s) /\ Len(s) \in Nat
         /\ DOMAIN Append(s, e) = 1..Len(s) + 1
         /\ \A i \in 1..Len(s) : Append(s, e)[i] = s[i]
         /\ Append(s, e)[Len(s) + 1] = e
         /\ Head(Append(s, e)) = Append(s, e)[1]
         /\ s # <<>> => Len(s) >= 1 /\ Head(s) = s[1]
<1>1. DOMAIN s = 1..Len(s) /\ Len(s) \in Nat
  OBVIOUS
<1>2. /\ Append(s, e) \in Seq(S) /\ Append(s, e) # <<>> /\ Len(Append(s, e)) = Len(s) + 1
      /\ \A i \in 1..Len(s) : Append(s, e)[i] = s[i]
      /\ Append(s, e)[Len(s) + 1] = e
  BY AppendProperties
<1>3. DOMAIN Append(s, e) = 1..Len(s) + 1
  BY <1>2
<1>4. \A t \in Seq(S) : t # <<>> => Len(t) >= 1 /\ Head(t) = t[1]
  BY EmptySeq
<1> QED  BY <1>1, <1>2, <1>3, <1>4

\* Reading a file starts without groups; a row joins the group of its order, and is
\* compared with the first of it.
LEMMA GroupingKept ==
  ASSUME ContractInv, ReadFile \/ GroupRow
  PROVE  ContractTypeOK' /\ GroupsOfRows' /\ RowsAreGrouped' /\ GroupsAgree'
<1>1. CASE ReadFile
  <2>1. PICK f \in Files :
          parse' = IF Len(f) \in 1..MaxRows
                     THEN [at |-> "grouping", file |-> f, next |-> 1, groups |-> NoGroups,
                           issues |-> FALSE]
                     ELSE [at |-> "refused"]
    BY <1>1 DEF ReadFile
  <2>2. CASE ~(Len(f) \in 1..MaxRows)
    <3>1. parse' = [at |-> "refused"]
      BY <2>1, <2>2
    <3> QED  BY <3>1 DEF ContractTypeOK, GroupsOfRows, RowsAreGrouped, GroupsAgree
  <2>3. CASE Len(f) \in 1..MaxRows
    <3>1. parse' = [at |-> "grouping", file |-> f, next |-> 1, groups |-> NoGroups,
                    issues |-> FALSE]
      BY <2>1, <2>3
    <3>2. NoGroups = [id \in DOMAIN NoGroups |-> NoGroups[id]] /\ DOMAIN NoGroups = {}
      BY DEF NoGroups
    <3>3. GroupingRecord(parse')
      BY <2>3, <3>1, <3>2, ContractAssumption DEF GroupingRecord
    <3>4. GroupsOfRows' /\ RowsAreGrouped' /\ GroupsAgree'
      BY <3>1, <3>2 DEF GroupsOfRows, RowsAreGrouped, GroupsAgree
    <3> QED  BY <3>3, <3>4 DEF ContractTypeOK
  <2> QED  BY <2>2, <2>3
<1>2. CASE GroupRow
  <2> DEFINE file == parse.file
             k == parse.next
             row == file[k]
             known == row.order \in DOMAIN parse.groups
             before == IF known THEN parse.groups[row.order] ELSE <<>>
             groups == [id \in DOMAIN parse.groups \cup {row.order} |->
                         IF id = row.order THEN Append(before, row) ELSE parse.groups[id]]
             issues == parse.issues \/ (known /\ Disagrees(Head(before), row))
  <2>1. parse.at = "grouping" /\ k <= Len(file)
    BY <1>2 DEF GroupRow
  <2>2. GroupingRecord(parse)
    BY <2>1 DEF ContractInv, ContractTypeOK, AcceptedRecord, StoredRecord, RejectedRecord
  <2>3. file \in Files /\ file \in Seq(Range(file)) /\ k \in 1..Len(file) /\ Len(file) \in Nat
    BY <2>1, <2>2, ContractAssumption DEF GroupingRecord
  <2>4. row \in Range(file)
    BY <2>3 DEF Range
  <2>5. parse' = [parse EXCEPT !.next = k + 1, !.issues = issues, !.groups = groups]
    BY <1>2 DEF GroupRow
  <2>6. parse' = [at |-> "grouping", file |-> file, next |-> k + 1, groups |-> groups,
                  issues |-> issues]
    BY <2>1, <2>2, <2>5 DEF GroupingRecord
  <2>7. GroupingRecord(parse')
    <3>1. issues \in BOOLEAN
      BY <2>2 DEF GroupingRecord, Disagrees
    <3>2. groups = [id \in DOMAIN groups |-> groups[id]]
      OBVIOUS
    <3>3. k + 1 \in 1..Len(file) + 1
      BY <2>3
    <3> HIDE DEF groups, issues, k, file
    <3> QED  BY <2>3, <2>6, <3>1, <3>2, <3>3 DEF GroupingRecord
  <2>8. before \in Seq(Range(file)) /\ (known => before # <<>>)
    <3>1. CASE known
      <4>1. parse.groups[row.order] \in Seq(Range(file)) \ {<<>>}
        BY <2>1, <3>1 DEF ContractInv, GroupingInv, GroupsOfRows
      <4> QED  BY <3>1, <4>1
    <3>2. CASE ~known
      <4>1. before = <<>> /\ <<>> \in Seq(Range(file))
        BY <3>2
      <4> QED  BY <3>2, <4>1
    <3> QED  BY <3>1, <3>2
  <2>9. /\ DOMAIN groups = DOMAIN parse.groups \cup {row.order}
        /\ groups[row.order] = Append(before, row)
        /\ \A id \in DOMAIN parse.groups : id # row.order => groups[id] = parse.groups[id]
    OBVIOUS
  <2>10. /\ Append(before, row) \in Seq(Range(file)) \ {<<>>}
         /\ DOMAIN before = 1..Len(before) /\ Len(before) \in Nat
         /\ DOMAIN Append(before, row) = 1..Len(before) + 1
         /\ \A i \in 1..Len(before) : Append(before, row)[i] = before[i]
         /\ Append(before, row)[Len(before) + 1] = row
         /\ Head(Append(before, row)) = Append(before, row)[1]
         /\ before # <<>> => Len(before) >= 1 /\ Head(before) = before[1]
    <3> HIDE DEF before, row
    <3> QED  BY <2>4, <2>8, Appended
  <2>11. /\ parse'.at = "grouping" /\ parse'.file = file /\ parse'.next = k + 1
         /\ parse'.groups = groups /\ parse'.issues = issues
    BY <2>6
  <2>12. /\ known => before = parse.groups[row.order] /\ before # <<>>
         /\ ~known => before = <<>> /\ Len(before) = 0
         /\ ~issues => ~parse.issues /\ (known => Head(before).columns = row.columns)
    BY <2>8 DEF Disagrees
  <2> HIDE DEF before, groups, issues, known, row
  <2>13. GroupsOfRows'
    <3>1. ASSUME NEW id \in DOMAIN groups  PROVE groups[id] \in Seq(Range(file)) \ {<<>>}
      <4>1. CASE id = row.order
        BY <4>1, <2>9, <2>10
      <4>2. CASE id # row.order
        BY <4>2, <2>1, <2>9, <3>1 DEF ContractInv, GroupingInv, GroupsOfRows
      <4> QED  BY <4>1, <4>2
    <3> QED  BY <3>1, <2>11 DEF GroupsOfRows
  <2>14. RowsAreGrouped'
    <3>1. ASSUME NEW j \in 1..k
          PROVE  LET id == file[j].order
                 IN  id \in DOMAIN groups /\ \E i \in DOMAIN groups[id] : groups[id][i] = file[j]
      <4>1. CASE j = k
        <5>1. Len(before) + 1 \in DOMAIN groups[row.order]
          BY <2>9, <2>10
        <5>2. groups[row.order][Len(before) + 1] = row
          BY <2>9, <2>10
        <5> QED  BY <4>1, <5>1, <5>2, <2>9 DEF row
      <4>2. CASE j # k
        <5> DEFINE id == file[j].order
        <5>1. j \in 1..k - 1
          BY <2>3, <4>2
        <5>2. id \in DOMAIN parse.groups
              /\ \E i \in DOMAIN parse.groups[id] : parse.groups[id][i] = file[j]
          BY <2>1, <5>1 DEF ContractInv, GroupingInv, RowsAreGrouped
        <5>3. PICK i \in DOMAIN parse.groups[id] : parse.groups[id][i] = file[j]
          BY <5>2
        <5>4. id \in DOMAIN groups /\ i \in DOMAIN groups[id] /\ groups[id][i] = file[j]
          <6>1. CASE id = row.order
            <7>1. before = parse.groups[id]
              BY <6>1, <5>2, <2>12 DEF known, row
            <7> QED  BY <6>1, <7>1, <5>2, <5>3, <2>9, <2>10
          <6>2. CASE id # row.order
            BY <6>2, <5>2, <5>3, <2>9
          <6> QED  BY <6>1, <6>2
        <5> QED  BY <5>4
      <4> QED  BY <4>1, <4>2
    <3>2. (k + 1) - 1 = k
      BY <2>3
    <3> QED  BY <3>1, <3>2, <2>11 DEF RowsAreGrouped
  <2>15. GroupsAgree'
    <3>1. ASSUME ~issues, NEW id \in DOMAIN groups, NEW i \in DOMAIN groups[id]
          PROVE  groups[id][i].columns = Head(groups[id]).columns
      <4>1. ~parse.issues /\ (known => Head(before).columns = row.columns)
        BY <3>1, <2>12
      <4>2. CASE id # row.order
        BY <4>1, <4>2, <2>1, <2>9, <3>1 DEF ContractInv, GroupingInv, GroupsAgree
      <4>3. CASE id = row.order /\ known
        <5>1. before = parse.groups[row.order] /\ Head(before) = before[1] /\ Len(before) >= 1
          BY <4>3, <2>10, <2>12
        <5>2. \A m \in 1..Len(before) : before[m].columns = Head(before).columns
          BY <4>1, <4>3, <5>1, <2>1, <2>10 DEF ContractInv, GroupingInv, GroupsAgree, known, row
        <5>3. groups[id] = Append(before, row) /\ Head(groups[id]) = Head(before)
          <6>1. Head(groups[id]) = groups[id][1] /\ groups[id] = Append(before, row)
            BY <4>3, <2>9, <2>10
          <6> QED  BY <6>1, <5>1, <2>10
        <5>4. i \in 1..Len(before) + 1
          BY <3>1, <4>3, <2>9, <2>10
        <5>5. CASE i = Len(before) + 1
          BY <4>1, <4>3, <5>3, <5>5, <2>10
        <5>6. CASE i # Len(before) + 1
          <6>1. i \in 1..Len(before)
            BY <5>4, <5>6, <2>10
          <6> QED  BY <6>1, <5>2, <5>3, <2>10
        <5> QED  BY <5>5, <5>6
      <4>4. CASE id = row.order /\ ~known
        <5>1. groups[id] = Append(before, row) /\ i = 1
          BY <3>1, <4>4, <2>9, <2>10, <2>12
        <5> QED  BY <5>1, <2>10
      <4> QED  BY <4>2, <4>3, <4>4
    <3> QED  BY <3>1, <2>11 DEF GroupsAgree
  <2> QED  BY <2>7, <2>13, <2>14, <2>15 DEF ContractTypeOK
<1> QED  BY <1>1, <1>2

\* What a file's groups become when all of them are valid.
LEMMA AcceptedFileStored ==
  ASSUME ContractInv, parse.at = "grouping", parse.next > Len(parse.file), ~parse.issues,
         \A o \in Orders : ValidOrder(o)
  PROVE  /\ \A o \in Orders : IsCandidate(o)
         /\ RowsKept(Orders, parse.file)
<1> DEFINE file == parse.file
<1>1. GroupingRecord(parse)
  BY DEF ContractInv, ContractTypeOK, AcceptedRecord, StoredRecord, RejectedRecord
<1>2. file \in Files /\ file \in Seq(Range(file)) /\ Len(file) \in Nat /\ parse.next = Len(file) + 1
  BY <1>1, ContractAssumption DEF GroupingRecord
<1>3. \A o \in Orders : IsCandidate(o)
  <2>1. ASSUME NEW cell \in DOMAIN parse.groups
        PROVE  IsCandidate(ToOrder(cell.id, parse.groups[cell]))
    BY <1>2, ToOrderIsCandidate DEF ContractInv, GroupingInv, GroupsOfRows
  <2> QED  BY <2>1 DEF Orders
<1>4. ASSUME NEW row \in Range(file)
      PROVE  \E o \in Orders :
               /\ o.id = row.order.id /\ o.columns = ColumnsOf(row)
               /\ Cardinality({i \in DOMAIN o.items : o.items[i] = ItemOf(row)}) = 1
  <2> DEFINE group == parse.groups[row.order]
             o == ToOrder(row.order.id, group)
  <2>1. PICK k \in 1..Len(file) : row = file[k]
    BY <1>2 DEF Range
  <2>2. k \in 1..parse.next - 1
    BY <1>2
  <2>3. row.order \in DOMAIN parse.groups /\ \E i \in DOMAIN group : group[i] = row
    BY <2>1, <2>2 DEF ContractInv, GroupingInv, RowsAreGrouped
  <2>4. PICK i \in DOMAIN group : group[i] = row
    BY <2>3
  <2>5. o \in Orders /\ ValidOrder(o)
    BY <2>3 DEF Orders
  <2>6. row.columns = Head(group).columns
    BY <2>3, <2>4 DEF ContractInv, GroupingInv, GroupsAgree
  <2>7. o.id = row.order.id /\ o.columns = ColumnsOf(row)
    BY <2>6 DEF ToOrder, Candidate, ColumnsOf
  <2>8. o.items = [j \in DOMAIN group |-> ItemOf(group[j])]
    BY DEF ToOrder, Candidate
  <2>9. {j \in DOMAIN o.items : o.items[j] = ItemOf(row)} = {i}
    <3>1. UniqueIds(o.items)
      BY <2>5 DEF ValidOrder
    <3>2. i \in DOMAIN o.items /\ o.items[i] = ItemOf(row)
      BY <2>4, <2>8
    <3>3. \A j \in DOMAIN o.items : o.items[j] = ItemOf(row) => j = i
      BY <3>1, <3>2 DEF UniqueIds
    <3> QED  BY <3>2, <3>3
  <2>10. Cardinality({j \in DOMAIN o.items : o.items[j] = ItemOf(row)}) = 1
    BY <2>9, FS_Singleton
  <2> QED  BY <2>5, <2>7, <2>10
<1> QED  BY <1>3, <1>4 DEF RowsKept

\* A document's order is stored with the others, or refused with a reason.
LEMMA StoreOrderStep ==
  ASSUME ContractInv, StoreOrder
  PROVE  ContractInv'
<1>1. parse.at = "accepted"
  BY DEF StoreOrder
<1>2. AcceptedRecord(parse)
  BY <1>1 DEF ContractInv, ContractTypeOK, GroupingRecord, StoredRecord, RejectedRecord
<1>3. PICK o \in parse.orders \ parse.stored, table \in Committable(parse.own) :
        parse' = IF Storable(o, table, parse.stored)
                   THEN [parse EXCEPT !.stored = @ \cup {o}, !.own = WithProducts(@, o)]
                   ELSE [at |-> "rejected", order |-> o, seen |-> table,
                         stored |-> parse.stored]
  BY DEF StoreOrder
<1>4. CASE Storable(o, table, parse.stored)
  <2> DEFINE kept == parse.stored \cup {o}
             own == WithProducts(parse.own, o)
  <2>1. parse' = [[parse EXCEPT !.stored = kept] EXCEPT !.own = own]
    BY <1>3, <1>4
  <2> HIDE DEF own, kept
  <2>2. parse' = [at |-> "accepted", orders |-> parse.orders, file |-> parse.file,
                  stored |-> kept, own |-> own]
    <3>1. \A taken, file, already, before :
            /\ [[at |-> "accepted", orders |-> taken, file |-> file, stored |-> already,
                 own |-> before] EXCEPT !.stored = kept]
                 = [at |-> "accepted", orders |-> taken, file |-> file, stored |-> kept,
                    own |-> before]
            /\ [[at |-> "accepted", orders |-> taken, file |-> file, stored |-> kept,
                 own |-> before] EXCEPT !.own = own]
                 = [at |-> "accepted", orders |-> taken, file |-> file, stored |-> kept,
                    own |-> own]
      OBVIOUS
    <3>2. parse = [at |-> "accepted", orders |-> parse.orders, file |-> parse.file,
                   stored |-> parse.stored, own |-> parse.own]
      BY <1>2 DEF AcceptedRecord
    <3> DEFINE before == parse.own
               already == parse.stored
               taken == parse.orders
               file == parse.file
    <3>3. parse = [at |-> "accepted", orders |-> taken, file |-> file, stored |-> already,
                   own |-> before]
      BY <3>2
    <3> HIDE DEF before, already, taken, file
    <3>4. parse' = [at |-> "accepted", orders |-> taken, file |-> file, stored |-> kept,
                    own |-> own]
      BY <2>1, <3>1, <3>3
    <3> QED  BY <3>4 DEF taken, file
  <2>3. kept \subseteq parse.orders
    BY <1>2 DEF AcceptedRecord, kept
  <2>4. AcceptedRecord(parse') /\ parse'.at = "accepted"
    BY <2>2, <2>3 DEF AcceptedRecord
  <2>5. AcceptedOrders'
    BY <1>1, <2>2 DEF ContractInv, AcceptedOrders
  <2>6. AcceptedIsStoredWhole' /\ ContractTypeOK'
    BY <2>4 DEF AcceptedIsStoredWhole, ContractTypeOK
  <2>7. GroupingInv'
    BY <2>4 DEF GroupingInv, GroupsOfRows, RowsAreGrouped, GroupsAgree
  <2> QED  BY <2>5, <2>6, <2>7 DEF ContractInv
<1>5. CASE ~Storable(o, table, parse.stored)
  <2>1. parse' = [at |-> "rejected", order |-> o, seen |-> table, stored |-> parse.stored]
    BY <1>3, <1>5
  <2>2. Overlooked(o, table, parse.stored)
    BY <1>1, <1>5, ValidIsStorable DEF ContractInv, AcceptedOrders
  <2>3. AcceptedIsStoredWhole' /\ ContractTypeOK'
    BY <2>1, <2>2 DEF AcceptedIsStoredWhole, ContractTypeOK, RejectedRecord
  <2>4. GroupingInv' /\ AcceptedOrders'
    BY <2>1 DEF GroupingInv, GroupsOfRows, RowsAreGrouped, GroupsAgree, AcceptedOrders
  <2> QED  BY <2>3, <2>4 DEF ContractInv
<1> QED  BY <1>4, <1>5

\* When all its orders are stored the document is.
LEMMA CommitOrdersStep ==
  ASSUME ContractInv, CommitOrders
  PROVE  ContractInv'
<1>1. /\ parse.at = "accepted" /\ parse.stored = parse.orders
      /\ parse' = [at |-> "stored", orders |-> parse.orders, file |-> parse.file]
  BY DEF CommitOrders
<1>2. AcceptedIsStoredWhole'
  BY <1>1 DEF ContractInv, AcceptedOrders, RowsKept, AcceptedIsStoredWhole
<1>3. ContractTypeOK' /\ GroupingInv' /\ AcceptedOrders'
  BY <1>1 DEF ContractTypeOK, StoredRecord, GroupingInv, GroupsOfRows, RowsAreGrouped,
              GroupsAgree, AcceptedOrders
<1> QED  BY <1>2, <1>3 DEF ContractInv

\* A document that is accepted is valid; one that is not leaves nothing.
LEMMA Outcomes ==
  ASSUME ContractInv
  PROVE  /\ parse' \in [at : {"idle", "refused"}] => ContractInv'
         /\ \A taken, file :
              /\ parse' = AcceptedDocument(taken, file)
              /\ \A o \in taken : IsCandidate(o) /\ ValidOrder(o)
              /\ RowsKept(taken, file)
              => ContractInv'
<1>1. ASSUME parse' \in [at : {"idle", "refused"}]
      PROVE  ContractInv'
  BY <1>1 DEF ContractInv, ContractTypeOK, GroupingInv, GroupsOfRows, RowsAreGrouped,
              GroupsAgree, AcceptedOrders, AcceptedIsStoredWhole
<1>2. ASSUME NEW taken, NEW file, parse' = AcceptedDocument(taken, file),
             \A o \in taken : IsCandidate(o) /\ ValidOrder(o), RowsKept(taken, file)
      PROVE  ContractInv'
  <2>1. parse' = [at |-> "accepted", orders |-> taken, file |-> file, stored |-> {},
                  own |-> NoProducts]
    BY <1>2 DEF AcceptedDocument
  <2>2. ContractTypeOK'
    BY <2>1 DEF ContractTypeOK, AcceptedRecord
  <2>3. AcceptedOrders'
    BY <1>2, <2>1 DEF AcceptedOrders
  <2>4. GroupingInv' /\ AcceptedIsStoredWhole'
    BY <2>1 DEF GroupingInv, GroupsOfRows, RowsAreGrouped, GroupsAgree, AcceptedIsStoredWhole
  <2> QED  BY <2>2, <2>3, <2>4 DEF ContractInv
<1> QED  BY <1>1, <1>2

\* For any files and bodies, any products that others commit meanwhile, any precision
\* of the database's instants and any limits its integers hold: what the contract
\* accepts is stored whole, or refused for one of the six reasons it does not look at.
THEOREM AcceptedIsWhole == ContractSpec => []AcceptedIsStoredWhole
<1>1. ContractInit => ContractInv
  BY DEF ContractInit, NoDocument, ContractInv, ContractTypeOK, GroupingInv, GroupsOfRows,
         RowsAreGrouped, GroupsAgree, AcceptedOrders, AcceptedIsStoredWhole
<1>2. ASSUME ContractInv, [ContractNext]_parse  PROVE ContractInv'
  <2>1. CASE UNCHANGED parse
    BY <1>2, <2>1 DEF ContractInv, ContractTypeOK, GroupingInv, GroupsOfRows, RowsAreGrouped,
                      GroupsAgree, AcceptedOrders, AcceptedIsStoredWhole
  <2>2. CASE ReadFile \/ GroupRow
    <3>1. parse'.at \in {"grouping", "refused"}
      <4>1. CASE ReadFile
        BY <4>1 DEF ReadFile
      <4>2. CASE GroupRow
        <5>0. parse.at = "grouping"
          BY <4>2 DEF GroupRow
        <5>1. GroupingRecord(parse)
          BY <1>2, <5>0 DEF ContractInv, ContractTypeOK, AcceptedRecord, StoredRecord,
                            RejectedRecord
        <5>2. parse'.at = parse.at
          BY <4>2, <5>1 DEF GroupRow, GroupingRecord
        <5> QED  BY <5>0, <5>2
      <4> QED  BY <2>2, <4>1, <4>2
    <3>2. AcceptedIsStoredWhole' /\ AcceptedOrders'
      BY <3>1 DEF AcceptedIsStoredWhole, AcceptedOrders
    <3> QED  BY <1>2, <2>2, <3>2, GroupingKept DEF ContractInv, GroupingInv
  <2>3. CASE ValidateGroups
    <3>1. CASE ~parse.issues /\ \A o \in Orders : ValidOrder(o)
      <4>1. parse' = AcceptedDocument(Orders, parse.file)
        BY <2>3, <3>1 DEF ValidateGroups
      <4>2. (\A o \in Orders : IsCandidate(o)) /\ RowsKept(Orders, parse.file)
        BY <1>2, <2>3, <3>1, AcceptedFileStored DEF ValidateGroups
      <4> QED  BY <1>2, <3>1, <4>1, <4>2, Outcomes
    <3>2. CASE ~(~parse.issues /\ \A o \in Orders : ValidOrder(o))
      <4>1. parse' = [at |-> "refused"]
        BY <2>3, <3>2 DEF ValidateGroups
      <4> QED  BY <1>2, <4>1, Outcomes
    <3> QED  BY <3>1, <3>2
  <2>4. CASE ReadDelivery
    <3>1. PICK o \in Bodies :
            parse' = IF ValidOrder(o)
                       THEN AcceptedDocument({o}, <<>>)
                       ELSE [at |-> "refused"]
      BY <2>4 DEF ReadDelivery
    <3>2. CASE ValidOrder(o)
      <4>1. parse' = AcceptedDocument({o}, <<>>) /\ IsCandidate(o)
        BY <3>1, <3>2, ContractAssumption
      <4>2. RowsKept({o}, <<>>)
        BY DEF RowsKept, Range
      <4> QED  BY <1>2, <3>2, <4>1, <4>2, Outcomes
    <3>3. CASE ~ValidOrder(o)
      <4>1. parse' = [at |-> "refused"]
        BY <3>1, <3>3
      <4> QED  BY <1>2, <4>1, Outcomes
    <3> QED  BY <3>2, <3>3
  <2>5. CASE Respond
    <3>1. parse' = [at |-> "idle"]
      BY <2>5 DEF Respond, NoDocument
    <3> QED  BY <1>2, <3>1, Outcomes
  <2> QED
    BY <1>2, <2>1, <2>2, <2>3, <2>4, <2>5, StoreOrderStep, CommitOrdersStep DEF ContractNext
<1>3. ContractInv => AcceptedIsStoredWhole
  BY DEF ContractInv
<1> QED  BY <1>1, <1>2, <1>3, PTL DEF ContractSpec
=============================================================================
