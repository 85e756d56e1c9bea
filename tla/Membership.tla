----------------------------- MODULE Membership -----------------------------
(***************************************************************************)
(* The members of one organization and the transactions by which the team  *)
(* API changes them: addMember, updateMemberRole and removeMember of the   *)
(* identity repository, over the rows of organization_memberships.         *)
(*                                                                         *)
(* The transactions run at READ COMMITTED and rest on row locks: SELECT .. *)
(* FOR UPDATE waits for the holder, then reads the row as it is by then.   *)
(* Each locking step is an action.  The final write and COMMIT are one     *)
(* action, since nobody sees the write earlier; so are all rollbacks.      *)
(* PostgreSQL breaks a circle of waiting transactions by aborting one.     *)
(*                                                                         *)
(* VIEWER is left out: the policy treats it as ANALYST everywhere.         *)
(*                                                                         *)
(* A definition marked "fault" is a plausible mistake in the one below it; *)
(* nothing uses it.  The properties are checked to notice each of them.    *)
(***************************************************************************)
EXTENDS Naturals, FiniteSets

CONSTANTS
  Users,        \* directory users
  Requests,     \* requests that may be in progress at the same time
  NoUser,       \* the actor and the target of a request slot not in use
  Free          \* the holder of a row nobody has locked

ASSUME UsersAssumption    == IsFiniteSet(Users) /\ NoUser \notin Users
ASSUME RequestsAssumption == Free \notin Requests

VARIABLES
  role,   \* the committed table: the role of each user, or "NONE" without a row
  lock,   \* who has locked the row of each user
  tx      \* what each request has in its local variables

membershipVars == <<role, lock, tx>>

-----------------------------------------------------------------------------
(* authorization.policy                                                    *)

Roles == {"OWNER", "ADMIN", "ANALYST"}

Manageable(r) == CASE r = "OWNER" -> Roles
                   [] r = "ADMIN" -> {"ANALYST"}
                   [] OTHER       -> {}

CanAssign(actorRole, newRole)    == newRole \in Manageable(actorRole)
CanManage(actorRole, targetRole) == actorRole = "OWNER" \/ targetRole \in Manageable(actorRole)

-----------------------------------------------------------------------------
(* The requests.  new is the role to add or to set ("NONE" to remove);     *)
(* todo are the rows the owner query has still to lock, owners the ones it *)
(* found.                                                                  *)

Ops   == {"none", "add", "update", "remove"}
RequestSteps == {"idle", "actor", "target", "owners", "lock owners", "write"}

Tx == [op         : Ops,
       at         : RequestSteps,
       actor      : Users \cup {NoUser},
       target     : Users \cup {NoUser},
       new        : Roles \cup {"NONE"},
       actorRole  : Roles \cup {"NONE"},
       targetRole : Roles \cup {"NONE"},
       todo       : SUBSET Users,
       owners     : SUBSET Users]

Idle == [op |-> "none", at |-> "idle", actor |-> NoUser, target |-> NoUser,
         new |-> "NONE", actorRole |-> "NONE", targetRole |-> "NONE",
         todo |-> {}, owners |-> {}]

Open(r, op, a, u, new) ==
  tx' = [tx EXCEPT ![r] = [Idle EXCEPT !.op = op, !.at = "actor", !.actor = a,
                                       !.target = u, !.new = new]]

Lockable(r, u) == lock[u] \in {Free, r}

\* fault: an error leaves the transaction, and so its locks, open
LocksKept(r) == lock

LocksReleased(r) == [u \in Users |-> IF lock[u] = r THEN Free ELSE lock[u]]

EndTx(r) ==
  /\ lock' = LocksReleased(r)
  /\ tx' = [tx EXCEPT ![r] = Idle]

\* createOrganization() makes its user the first owner.
MembershipInit ==
  /\ \E founder \in Users :
       role = [u \in Users |-> IF u = founder THEN "OWNER" ELSE "NONE"]
  /\ lock = [u \in Users |-> Free]
  /\ tx = [r \in Requests |-> Idle]

-----------------------------------------------------------------------------
(* Starting a request.  RolesGuard has let the actor in before; what       *)
(* counts is the role the transaction reads again below.                   *)

BeginAdd(r, a, u, new) ==
  /\ tx[r].at = "idle" /\ new # "OWNER"
  /\ Open(r, "add", a, u, new)
  /\ UNCHANGED <<role, lock>>

BeginUpdate(r, a, u, new) ==
  /\ tx[r].at = "idle"
  /\ Open(r, "update", a, u, new)
  /\ UNCHANGED <<role, lock>>

BeginRemove(r, a, u) ==
  /\ tx[r].at = "idle"
  /\ Open(r, "remove", a, u, "NONE")
  /\ UNCHANGED <<role, lock>>

-----------------------------------------------------------------------------
(* The steps of request r.                                                 *)

\* fault: the row is read without FOR UPDATE
JustRead(r, u) == lock' = lock

TakeLock(r, u) == lock' = [lock EXCEPT ![u] = r]

AddPermitted(t)    == CanAssign(t.actorRole, t.new)
UpdatePermitted(t) == CanManage(t.actorRole, t.targetRole) /\ CanAssign(t.actorRole, t.new)
RemovePermitted(t) == CanManage(t.actorRole, t.targetRole)

\* lockMembership() of the actor; 403 without a row, or without the permission.
LockActor(r) ==
  LET u == tx[r].actor
      t == [tx[r] EXCEPT !.actorRole = role[u]]
  IN  /\ tx[r].at = "actor"
      /\ Lockable(r, u)
      /\ IF role[u] = "NONE" \/ (t.op = "add" /\ ~AddPermitted(t))
           THEN EndTx(r)
           ELSE /\ TakeLock(r, u)
                /\ tx' = [tx EXCEPT ![r] =
                     [t EXCEPT !.at = IF t.op = "add" THEN "write" ELSE "target"]]
      /\ UNCHANGED role

LosesOwner(t) == t.targetRole = "OWNER" /\ t.new # "OWNER"

\* lockMembership() of the target, and the policy.
LockTarget(r) ==
  LET u == tx[r].target
      t == [tx[r] EXCEPT !.targetRole = role[u]]
  IN  /\ tx[r].at = "target"
      /\ Lockable(r, u)
      /\ IF \/ role[u] = "NONE"
            \/ t.op = "update" /\ ~UpdatePermitted(t)
            \/ t.op = "remove" /\ ~RemovePermitted(t)
           THEN EndTx(r)
           ELSE /\ TakeLock(r, u)
                /\ tx' = [tx EXCEPT ![r] =
                     [t EXCEPT !.at = IF LosesOwner(t) THEN "owners" ELSE "write"]]
      /\ UNCHANGED role

\* assertAnotherOwner(): SELECT ... WHERE role = 'OWNER' FOR UPDATE finds the rows
\* in one snapshot, locks them one after the other, and drops the ones that by
\* the time it has the lock are no longer owners.
FindOwners(r) ==
  /\ tx[r].at = "owners"
  /\ tx' = [tx EXCEPT ![r].at = "lock owners", ![r].owners = {},
                      ![r].todo = {u \in Users : role[u] = "OWNER"}]
  /\ UNCHANGED <<role, lock>>

LockOwner(r, u) ==
  /\ tx[r].at = "lock owners" /\ u \in tx[r].todo
  /\ Lockable(r, u)
  /\ IF role[u] = "NONE" THEN UNCHANGED lock ELSE TakeLock(r, u)
  /\ tx' = [tx EXCEPT ![r].todo = @ \ {u},
                      ![r].owners = IF role[u] = "OWNER" THEN @ \cup {u} ELSE @]
  /\ UNCHANGED role

\* fault: the owner who is about to go counts as the one who stays
TooFewOwnersLax(n) == n < 1

TooFewOwners(n) == n <= 1

CountOwners(r) ==
  /\ tx[r].at = "lock owners" /\ tx[r].todo = {}
  /\ IF TooFewOwners(Cardinality(tx[r].owners))
       THEN EndTx(r)
       ELSE tx' = [tx EXCEPT ![r].at = "write"] /\ UNCHANGED lock
  /\ UNCHANGED role

\* INSERT (409 if the row exists), UPDATE or DELETE; the audit event; COMMIT.
Write(r) ==
  /\ tx[r].at = "write"
  /\ role' = IF tx[r].op = "add" /\ role[tx[r].target] # "NONE"
               THEN role ELSE [role EXCEPT ![tx[r].target] = tx[r].new]
  /\ EndTx(r)

-----------------------------------------------------------------------------
(* PostgreSQL, and the other writer of the table.                          *)

\* The rows request r may be waiting for.
Wants(r) == CASE tx[r].at = "actor"       -> {tx[r].actor}
              [] tx[r].at = "target"      -> {tx[r].target}
              [] tx[r].at = "lock owners" -> tx[r].todo
              [] OTHER                    -> {}

InCircle(r) ==
  \E circle \in SUBSET Requests :
    /\ r \in circle
    /\ \A s \in circle :
         \E u \in Wants(s) : lock[u] \in circle \ {s}

DeadlockVictim(r) ==
  /\ InCircle(r)
  /\ EndTx(r)
  /\ UNCHANGED role

\* The statement times out, or the connection or the API process dies.
Abort(r) ==
  /\ tx[r].at # "idle"
  /\ EndTx(r)
  /\ UNCHANGED role

\* acceptInvitation() of the governance service inserts a member, or nothing.
AcceptInvitation(u, new) ==
  /\ new # "OWNER"
  /\ role[u] = "NONE"
  /\ role' = [role EXCEPT ![u] = new]
  /\ UNCHANGED <<lock, tx>>

-----------------------------------------------------------------------------
Begin(r) ==
  \E a, u \in Users :
    \/ \E new \in Roles : BeginAdd(r, a, u, new) \/ BeginUpdate(r, a, u, new)
    \/ BeginRemove(r, a, u)

Step(r) ==
  \/ LockActor(r) \/ LockTarget(r)
  \/ FindOwners(r) \/ \E u \in Users : LockOwner(r, u)
  \/ CountOwners(r)
  \/ Write(r)

MembershipNext ==
  \/ \E r \in Requests : Begin(r) \/ Step(r) \/ DeadlockVictim(r) \/ Abort(r)
  \/ \E u \in Users, new \in Roles : AcceptInvitation(u, new)

MembershipSpec == MembershipInit /\ [][MembershipNext]_membershipVars

\* A request goes on while it can.  Row locks queue, so a request that finds its
\* row free again and again gets it.  Circles are detected.
MembershipFairSpec ==
  /\ MembershipSpec
  /\ \A r \in Requests : SF_membershipVars(Step(r)) /\ WF_membershipVars(DeadlockVictim(r))

-----------------------------------------------------------------------------
(* Properties.                                                             *)

MembershipTypeOK ==
  /\ role \in [Users -> Roles \cup {"NONE"}]
  /\ lock \in [Users -> Requests \cup {Free}]
  /\ tx \in [Requests -> Tx]

\* The organization always has an owner: also when its owners demote and remove
\* each other, or themselves, at the same time.
AlwaysAnOwner == \E u \in Users : role[u] = "OWNER"

\* Who changes a member's role or removes a member has, at the moment the change
\* becomes visible, the role that permits exactly this change: neither side's
\* role has moved since it was checked.
ByAuthority(u) ==
  \E r \in Requests :
    /\ tx[r].at = "write" /\ tx'[r].at = "idle" /\ tx[r].target = u
    /\ CanManage(role[tx[r].actor], role[u])
    /\ role'[u] # "NONE" => CanAssign(role[tx[r].actor], role'[u])

AuthorityAtCommit ==
  [][\A u \in Users : role[u] # "NONE" /\ role'[u] # role[u] => ByAuthority(u)]_role

\* Every request is answered in the end: waiting for each other never lasts.
EveryRequestEnds ==
  \A r \in Requests : tx[r].at # "idle" ~> tx[r].at = "idle"
=============================================================================
