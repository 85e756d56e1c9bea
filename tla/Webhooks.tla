------------------------------ MODULE Webhooks ------------------------------
(***************************************************************************)
(* WebhookService and OrderWebhookController.receive for one endpoint: its *)
(* credential is rotated and revoked by administrators while signed        *)
(* deliveries arrive, some late, some twice.                               *)
(*                                                                         *)
(* A secret is named by the request that drew it (randomBytes); a          *)
(* signature is the secret it was made with.  The audit rows of these      *)
(* transactions are left out; what ingestOrder does with a delivery is     *)
(* OrderIngestion's.                                                       *)
(***************************************************************************)
EXTENDS Naturals

CONSTANTS
  Admins,      \* requests to rotate the credential
  Deliveries,  \* requests of the sender in flight at once
  Derived,     \* the secret of a version 0 endpoint, from WEBHOOK_SIGNING_KEY
  First,       \* the secret create() returned
  Nobody,      \* no lock
  Tolerance,   \* WEBHOOK_CLOCK_TOLERANCE_SECONDS
  MaxTime      \* bound: the clock stops here

ASSUME WebhooksAssumption ==
  /\ Tolerance \in Nat /\ MaxTime \in Nat
  /\ {Derived, First, Nobody} \cap Admins = {}

VARIABLES
  clock,       \* seconds
  endpoint,    \* the row: status, version, secret
  rowLock,     \* who holds it FOR UPDATE
  admin,       \* where each rotation stands
  delivery     \* where each delivery stands

webhookVars == <<clock, endpoint, rowLock, admin, delivery>>

Secrets == Admins \cup {Derived, First}
NoDelivery == [at |-> "idle"]

\* create(), or an endpoint from before credentials were stored.
WebhooksInit ==
  /\ clock = 0
  /\ endpoint \in {[status |-> "active", version |-> 1, secret |-> First],
                   [status |-> "active", version |-> 0, secret |-> Derived]}
  /\ rowLock = Nobody
  /\ admin = [a \in Admins |-> [at |-> "idle"]]
  /\ delivery = [d \in Deliveries |-> NoDelivery]

WebhookTick ==
  /\ clock < MaxTime
  /\ clock' = clock + 1
  /\ UNCHANGED <<endpoint, rowLock, admin, delivery>>

Current(e) == IF e.status = "active" THEN {e.secret} ELSE {}

\* Each delivery in progress notes the secrets that were in force since it came.
Noting(e) ==
  delivery' = [d \in Deliveries |->
    IF delivery[d].at \in {"arrived", "read", "verified"}
      THEN [delivery[d] EXCEPT !.inForce = @ \cup Current(e)]
      ELSE delivery[d]]

-----------------------------------------------------------------------------
(* rotate() and revoke().                                                  *)

\* fault: the row is read without FOR UPDATE
ReadUnlocked(a) == UNCHANGED rowLock

\* SELECT ... FOR UPDATE
ReadForUpdate(a) == rowLock = Nobody /\ rowLock' = a

BeginRotation(a) ==
  /\ admin[a].at = "idle"
  /\ endpoint.status = "active"
  /\ ReadForUpdate(a)
  /\ admin' = [admin EXCEPT ![a] = [at |-> "rotating", version |-> endpoint.version + 1]]
  /\ UNCHANGED <<clock, endpoint, delivery>>

\* No active endpoint: NotFoundException.
RotationRefused(a) ==
  /\ admin[a].at = "idle"
  /\ rowLock = Nobody
  /\ endpoint.status # "active"
  /\ admin' = [admin EXCEPT ![a] = [at |-> "refused"]]
  /\ UNCHANGED <<clock, endpoint, rowLock, delivery>>

\* A statement or the COMMIT fails, or the process dies: all is rolled back.
RotationFails(a) ==
  /\ admin[a].at = "rotating"
  /\ rowLock' = Nobody
  /\ admin' = [admin EXCEPT ![a] = [at |-> "failed"]]
  /\ UNCHANGED <<clock, endpoint, delivery>>

\* UPDATE and COMMIT.
CommitRotation(a) ==
  /\ admin[a].at = "rotating"
  /\ endpoint' = [endpoint EXCEPT !.version = admin[a].version, !.secret = a]
  /\ rowLock' = Nobody
  /\ admin' = [admin EXCEPT ![a].at = "committed"]
  /\ Noting(endpoint')
  /\ UNCHANGED clock

\* The administrator is handed the secret, or never sees it: the answer of the COMMIT
\* or of the request is lost, or a 408 was sent while the handler went on.
AnswerRotation(a) ==
  /\ admin[a].at = "committed"
  /\ \E at \in {"handed", "unanswered"} : admin' = [admin EXCEPT ![a].at = at]
  /\ UNCHANGED <<clock, endpoint, rowLock, delivery>>

\* One UPDATE, which waits for the lock; revoking again changes nothing more.
Revoke ==
  /\ rowLock = Nobody
  /\ endpoint' = [endpoint EXCEPT !.status = "revoked"]
  /\ UNCHANGED <<clock, rowLock, admin, delivery>>

-----------------------------------------------------------------------------
(* receive().  The sender signs with a secret it was given at some time,   *)
(* and its message may arrive at any later time and more than once.        *)

\* Secrets a sender may be configured with, this endpoint's old ones among them.
Known == {First, Derived} \cup {a \in Admins : admin[a].at = "handed"}

Distance(s, t) == IF s > t THEN s - t ELSE t - s

Arrive(d, secret, signedAt) ==
  /\ delivery[d].at = "idle"
  /\ secret \in Known /\ signedAt <= MaxTime
  /\ delivery' = [delivery EXCEPT ![d] =
       IF Distance(clock, signedAt) > Tolerance
         THEN [at |-> "refused"]
         ELSE [at |-> "arrived", secret |-> secret, inForce |-> Current(endpoint)]]
  /\ UNCHANGED <<clock, endpoint, rowLock, admin>>

\* fault: whether the endpoint is active is not asked
CredentialOf(e) == {e.secret}

\* The credential to compare with; none when the endpoint is not active.
Usable(e) == IF e.status = "active" THEN {e.secret} ELSE {}

\* The first transaction of verify().
ReadCredential(d) ==
  /\ delivery[d].at = "arrived"
  /\ delivery' = [delivery EXCEPT ![d] =
       IF Usable(endpoint) = {}
         THEN [at |-> "refused"]
         ELSE [at |-> "read", secret |-> @.secret, inForce |-> @.inForce,
               expected |-> endpoint.secret]]
  /\ UNCHANGED <<clock, endpoint, rowLock, admin>>

\* The HMAC, and the second transaction: last_received_at, whose UPDATE waits for
\* the lock of a rotation.
Verify(d) ==
  /\ delivery[d].at = "read"
  /\ \/ /\ delivery[d].secret = delivery[d].expected
        /\ rowLock = Nobody
        /\ delivery' = [delivery EXCEPT ![d] =
             [at |-> "verified", secret |-> @.secret, inForce |-> @.inForce]]
     \/ /\ delivery[d].secret # delivery[d].expected
        /\ delivery' = [delivery EXCEPT ![d] = [at |-> "refused"]]
  /\ UNCHANGED <<clock, endpoint, rowLock, admin>>

\* ingestOrder in a third transaction, whatever became of the endpoint.
Ingest(d) ==
  /\ delivery[d].at = "verified"
  /\ delivery' = [delivery EXCEPT ![d].at = "accepted"]
  /\ UNCHANGED <<clock, endpoint, rowLock, admin>>

DeliveryAnswered(d) ==
  /\ delivery[d].at \in {"accepted", "refused"}
  /\ delivery' = [delivery EXCEPT ![d] = NoDelivery]
  /\ UNCHANGED <<clock, endpoint, rowLock, admin>>

-----------------------------------------------------------------------------
WebhooksNext ==
  \/ WebhookTick
  \/ \E a \in Admins :
       \/ BeginRotation(a) \/ RotationRefused(a) \/ RotationFails(a)
       \/ CommitRotation(a) \/ AnswerRotation(a)
  \/ Revoke
  \/ \E d \in Deliveries :
       \/ \E s \in Secrets, t \in 0..MaxTime : Arrive(d, s, t)
       \/ ReadCredential(d) \/ Verify(d) \/ Ingest(d) \/ DeliveryAnswered(d)

WebhooksSpec == WebhooksInit /\ [][WebhooksNext]_webhookVars

-----------------------------------------------------------------------------
(* Properties.                                                             *)

\* verify() and ingestOrder are three transactions, and a rotation or a revocation
\* may commit between any two of them; still, an accepted delivery was signed with
\* a secret that was in force at some moment since it arrived.
AcceptedWasCurrent ==
  \A d \in Deliveries : delivery[d].at = "accepted" => delivery[d].secret \in delivery[d].inForce

\* Whose secret has been stored, told or not.
Committed(a) == admin[a].at \in {"committed", "handed", "unanswered"}

\* The secret handed out last is the stored one, unless a later rotation committed
\* whose secret its administrator was not told, or not yet: of two who rotate at once
\* never both are told a secret of the same version, one of which the endpoint would
\* not know, and no secret is replaced by one that was drawn before it.
HandedSecretWorks ==
  \A a \in Admins :
    /\ admin[a].at = "handed"
    /\ \A b \in Admins : admin[b].at = "handed" => admin[b].version <= admin[a].version
    => \/ endpoint.secret = a /\ endpoint.version = admin[a].version
       \/ \E b \in Admins :
            /\ Committed(b) /\ admin[b].at # "handed"
            /\ admin[b].version > admin[a].version
            /\ endpoint.secret = b /\ endpoint.version = admin[b].version
=============================================================================
