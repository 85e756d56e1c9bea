---------------------------- MODULE Invitations -----------------------------
(***************************************************************************)
(* The invitations of one organization:                                    *)
(* GovernanceService.createInvitation, revokeInvitation, acceptInvitation  *)
(* and expireInvitations, beside the members they add and that TeamService *)
(* adds and removes.                                                       *)
(*                                                                         *)
(* A person stands for a normalized address and the user who has it, an    *)
(* invitation for its token.  Transactions are READ COMMITTED: what one    *)
(* reads and what it later writes are two steps, between which others      *)
(* commit, unless a row lock keeps them out.  Audit rows are left out.     *)
(***************************************************************************)
EXTENDS Naturals, FiniteSets

CONSTANTS
  Persons,       \* people outside the organization at first
  Ids,           \* invitations that may be created
  Accepts,       \* acceptInvitation requests
  Sends,         \* createInvitation requests
  NoOne,         \* who holds no lock, or has not accepted
  MaxJoins       \* bound: memberships created for one person

ASSUME InvitationAssumption == NoOne \notin Accepts

VARIABLES
  guestRole,     \* organization_memberships of the persons; "none": no row
  invitation,    \* organization_invitations
  invitationLock, \* who holds an invitation FOR UPDATE
  accept, send,  \* where each request stands
  joins,         \* history: memberships created by accepting each invitation
  additions      \* history: memberships created for each person

invitationVars == <<guestRole, invitation, invitationLock, accept, send, joins, additions>>

Invitable == {"ADMIN", "ANALYST"}      \* VIEWER is treated as ANALYST is
NoInvitation == [status |-> "absent"]
AtRest == [at |-> "idle"]

InvitationsInit ==
  /\ guestRole = [p \in Persons |-> "none"]
  /\ invitation = [i \in Ids |-> NoInvitation]
  /\ invitationLock = [i \in Ids |-> NoOne]
  /\ accept = [a \in Accepts |-> AtRest]
  /\ send = [s \in Sends |-> AtRest]
  /\ joins = [i \in Ids |-> 0]
  /\ additions = [p \in Persons |-> 0]

IsPending(i) == invitation[i].status = "pending"

\* The week of an invitation passes.
WeekPasses(i) ==
  /\ IsPending(i) /\ ~invitation[i].lapsed
  /\ invitation' = [invitation EXCEPT ![i].lapsed = TRUE]
  /\ UNCHANGED <<guestRole, invitationLock, accept, send, joins, additions>>

\* UPDATE ... WHERE status = 'pending' AND expires_at <= now() waits for locked rows.
Lapsed == {i \in Ids : IsPending(i) /\ invitation[i].lapsed}
Expired(rows) ==
  [i \in Ids |-> IF i \in Lapsed THEN [rows[i] EXCEPT !.status = "expired"] ELSE rows[i]]

\* expireInvitations, at the start of a list or an overview.
ExpireInvitations ==
  /\ Lapsed # {} /\ \A i \in Lapsed : invitationLock[i] = NoOne
  /\ invitation' = Expired(invitation)
  /\ UNCHANGED <<guestRole, invitationLock, accept, send, joins, additions>>

-----------------------------------------------------------------------------
(* createInvitation.                                                       *)

CanInvite(actor, target) == actor = "OWNER" \/ (actor = "ADMIN" /\ target # "ADMIN")

\* With the role the guard read: whether the person is a member already.
CheckMember(s, p, actor, target) ==
  /\ send[s].at = "idle"
  /\ CanInvite(actor, target)
  /\ guestRole[p] = "none"
  /\ send' = [send EXCEPT ![s] = [at |-> "checked", person |-> p, role |-> target]]
  /\ UNCHANGED <<guestRole, invitation, invitationLock, accept, joins, additions>>

\* organization_invitations_pending_email_idx
TakenAddress(p) == \E i \in Ids \ Lapsed : IsPending(i) /\ invitation[i].person = p

\* Expires old ones, inserts the row and commits; a taken address rolls both back.
InsertInvitation(s, i) ==
  /\ send[s].at = "checked"
  /\ \A j \in Lapsed : invitationLock[j] = NoOne
  /\ invitation[i].status = "absent"
  /\ send' = [send EXCEPT ![s] = AtRest]
  /\ invitation' =
       IF TakenAddress(send[s].person)
         THEN invitation
         ELSE [Expired(invitation) EXCEPT ![i] =
                [status |-> "pending", person |-> send[s].person, role |-> send[s].role,
                 lapsed |-> FALSE, by |-> NoOne]]
  /\ UNCHANGED <<guestRole, invitationLock, accept, joins, additions>>

-----------------------------------------------------------------------------
\* revokeInvitation: one UPDATE of a pending row, which waits for its lock.
RevokeInvitation(i) ==
  /\ IsPending(i) /\ invitationLock[i] = NoOne
  /\ invitation' = [invitation EXCEPT ![i].status = "revoked"]
  /\ UNCHANGED <<guestRole, invitationLock, accept, send, joins, additions>>

\* fault: SELECT without FOR UPDATE
SelectUnlocked(i, a) == UNCHANGED invitationLock

\* SELECT ... FOR UPDATE
SelectForUpdate(i, a) ==
  invitationLock[i] = NoOne /\ invitationLock' = [invitationLock EXCEPT ![i] = a]

\* acceptInvitation reads the invitation of the token.
BeginAccept(a, p, i) ==
  /\ accept[a].at = "idle"
  /\ invitation[i].status # "absent"
  /\ SelectForUpdate(i, a)
  /\ accept' = [accept EXCEPT ![a] = [at |-> "read", person |-> p, id |-> i, row |-> invitation[i]]]
  /\ UNCHANGED <<guestRole, invitation, send, joins, additions>>

Unlocked(a) == [i \in Ids |-> IF invitationLock[i] = a THEN NoOne ELSE invitationLock[i]]
Settled(a) == accept' = [accept EXCEPT ![a] = AtRest] /\ invitationLock' = Unlocked(a)

\* Another address; the same user again, who is told the invitation's role; or an
\* invitation that is over.  Nothing is written.
AcceptAnswered(a) ==
  /\ accept[a].at = "read"
  /\ LET row == accept[a].row
     IN  \/ row.person # accept[a].person
         \/ row.status # "pending"
         \/ invitation[accept[a].id].lapsed
  /\ Settled(a)
  /\ UNCHANGED <<guestRole, invitation, send, joins, additions>>

\* organization_invitations_terminal_state: revoked_at stays set.
StaysOpen(i) == invitation[i].status # "revoked"

\* INSERT ... ON CONFLICT DO NOTHING, UPDATE to accepted, COMMIT.
Accept(a) ==
  LET i == accept[a].id
      p == accept[a].person
  IN  /\ accept[a].at = "read"
      /\ accept[a].row.person = p /\ accept[a].row.status = "pending"
      /\ ~invitation[i].lapsed
      /\ additions[p] < MaxJoins
      /\ IF StaysOpen(i)
           THEN /\ invitation' = [invitation EXCEPT ![i].status = "accepted", ![i].by = p]
                /\ IF guestRole[p] = "none"
                     THEN /\ guestRole' = [guestRole EXCEPT ![p] = accept[a].row.role]
                          /\ joins' = [joins EXCEPT ![i] = @ + 1]
                          /\ additions' = [additions EXCEPT ![p] = @ + 1]
                     ELSE UNCHANGED <<guestRole, joins, additions>>
           ELSE UNCHANGED <<invitation, guestRole, joins, additions>>
      /\ Settled(a)
      /\ UNCHANGED send

-----------------------------------------------------------------------------
(* TeamService, one transaction each (their locks are Membership's).       *)

AddMember(p, r) ==
  /\ guestRole[p] = "none" /\ additions[p] < MaxJoins
  /\ guestRole' = [guestRole EXCEPT ![p] = r]
  /\ additions' = [additions EXCEPT ![p] = @ + 1]
  /\ UNCHANGED <<invitation, invitationLock, accept, send, joins>>

RemoveMember(p) ==
  /\ guestRole[p] # "none"
  /\ guestRole' = [guestRole EXCEPT ![p] = "none"]
  /\ UNCHANGED <<invitation, invitationLock, accept, send, joins, additions>>

InvitationsNext ==
  \/ ExpireInvitations
  \/ \E i \in Ids : WeekPasses(i) \/ RevokeInvitation(i)
  \/ \E s \in Sends :
       \/ \E p \in Persons, actor \in {"OWNER", "ADMIN"}, r \in Invitable : CheckMember(s, p, actor, r)
       \/ \E i \in Ids : InsertInvitation(s, i)
  \/ \E a \in Accepts :
       \/ \E p \in Persons, i \in Ids : BeginAccept(a, p, i)
       \/ AcceptAnswered(a) \/ Accept(a)
  \/ \E p \in Persons : RemoveMember(p) \/ \E r \in Invitable : AddMember(p, r)

InvitationsSpec == InvitationsInit /\ [][InvitationsNext]_invitationVars

-----------------------------------------------------------------------------
(* Properties.                                                             *)

\* An invitation adds its person once: however its token is presented again, at
\* the same time, after a removal, a revocation or the end of its week, it does not
\* bring a removed member back, and an address has one pending invitation.
InvitationAdmitsOnce ==
  \A i \in Ids :
    /\ joins[i] <= 1
    /\ joins[i] = 1 => invitation[i].status = "accepted" /\ invitation[i].by = invitation[i].person
    /\ IsPending(i) => \A j \in Ids \ {i} :
                         IsPending(j) => invitation[j].person # invitation[i].person
=============================================================================
