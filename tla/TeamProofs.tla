----------------------------- MODULE TeamProofs -----------------------------
(***************************************************************************)
(* Theorems about Membership: AlwaysAnOwner and AuthorityAtCommit, for any *)
(* number of users and of concurrent requests; about Invitations: an       *)
(* invitation admits one person, once, for any number of either; and about *)
(* ManagementPages: what they tell of a change is what they show, for any  *)
(* number of changes and loads.                                            *)
(*                                                                         *)
(* The argument about members and invitations: what a request has read     *)
(* under a lock stays true as long as it holds the lock (Good,             *)
(* ReadStillHolds), because nobody writes a row that another request has   *)
(* locked (Frame). A request that takes away an owner still holds the lock *)
(* of another owner when it writes.                                        *)
(***************************************************************************)
EXTENDS Membership, Invitations, ManagementPages, FiniteSetTheorems,
        WellFoundedInduction, TLAPS

\* Row u is locked by request r and is as r has read it.
Holds(r, u, as) == u \in Users /\ lock[u] = r /\ role[u] = as /\ as # "NONE"

ChangesMember(t) == t.op \in {"update", "remove"}

AnotherOwner(r) ==
  \E u \in Users : u # tx[r].target /\ Holds(r, u, "OWNER")

\* What request r may rely on, at each of its steps.
Good(r) ==
  /\ tx[r].at # "idle" =>
       /\ tx[r].actor \in Users /\ tx[r].target \in Users
       /\ \/ tx[r].op = "add" /\ tx[r].new \in Roles \ {"OWNER"}
          \/ tx[r].op = "update" /\ tx[r].new \in Roles
          \/ tx[r].op = "remove" /\ tx[r].new = "NONE"
  /\ tx[r].at = "actor" => tx[r].targetRole = "NONE"
  /\ tx[r].at = "target" =>
       ChangesMember(tx[r]) /\ Holds(r, tx[r].actor, tx[r].actorRole)
  /\ tx[r].at \in {"owners", "lock owners"} \/ (tx[r].at = "write" /\ tx[r].op # "add") =>
       /\ ChangesMember(tx[r])
       /\ Holds(r, tx[r].actor, tx[r].actorRole)
       /\ Holds(r, tx[r].target, tx[r].targetRole)
       /\ CanManage(tx[r].actorRole, tx[r].targetRole)
       /\ tx[r].op = "update" => CanAssign(tx[r].actorRole, tx[r].new)
  /\ tx[r].at = "lock owners" => \A u \in tx[r].owners : Holds(r, u, "OWNER")
  /\ tx[r].at = "write" =>
       /\ tx[r].op = "add" => tx[r].targetRole = "NONE"
       /\ LosesOwner(tx[r]) => AnotherOwner(r)

IInv == MembershipTypeOK /\ AlwaysAnOwner /\ \A r \in Requests : Good(r)

\* A step in which request r keeps its locks, and nobody writes those rows.
Frame(r) ==
  /\ tx'[r] = tx[r]
  /\ \A u \in Users :
       lock[u] = r => /\ lock'[u] = r
                      /\ role[u] # "NONE" => role'[u] = role[u]

-----------------------------------------------------------------------------
\* A request not moving relies on no more than its locks protect.
LEMMA FrameGood ==
  ASSUME NEW r \in Requests, Good(r), Frame(r)
  PROVE  Good(r)'
<1>1. \A u, as : Holds(r, u, as) => Holds(r, u, as)'
  BY DEF Holds, Frame
<1>2. AnotherOwner(r) => AnotherOwner(r)'
  BY <1>1 DEF AnotherOwner, Frame
<1> QED
  BY <1>1, <1>2 DEF Good, Frame, ChangesMember, LosesOwner

\* Ending request r leaves the other requests alone.
LEMMA EndFrame ==
  ASSUME MembershipTypeOK, NEW r \in Requests, EndTx(r),
         NEW s \in Requests, s # r,
         \A u \in Users : lock[u] = s /\ role[u] # "NONE" => role'[u] = role[u]
  PROVE  Frame(s)
  BY DEF MembershipTypeOK, EndTx, LocksReleased, Frame

\* So does a locking step of request r.
LEMMA LockFrame ==
  ASSUME MembershipTypeOK, NEW r \in Requests, NEW u \in Users, Lockable(r, u),
         UNCHANGED lock \/ TakeLock(r, u),
         NEW t, tx' = [tx EXCEPT ![r] = t], UNCHANGED role,
         NEW s \in Requests, s # r
  PROVE  Frame(s)
  BY RequestsAssumption DEF MembershipTypeOK, Lockable, TakeLock, Frame

\* A request that has ended relies on nothing.
LEMMA EndGood ==
  ASSUME MembershipTypeOK, NEW r \in Requests, EndTx(r)
  PROVE  Good(r)'
  BY DEF MembershipTypeOK, EndTx, Idle, Good

\* Ending a request keeps the types.
LEMMA EndTyped ==
  ASSUME MembershipTypeOK, NEW r \in Requests, EndTx(r)
  PROVE  /\ lock' \in [Users -> Requests \cup {Free}]
         /\ tx' \in [Requests -> Tx]
<1>1. Idle \in Tx
  BY DEF Idle, Tx, Ops, RequestSteps
<1> QED
  BY <1>1 DEF MembershipTypeOK, EndTx, LocksReleased

\* Ending without a write preserves the invariant.
LEMMA EndInv ==
  ASSUME IInv, NEW r \in Requests, EndTx(r), UNCHANGED role
  PROVE  IInv'
<1>1. MembershipTypeOK'
  BY EndTyped DEF IInv, MembershipTypeOK
<1>2. \A s \in Requests : s # r => Frame(s)
  BY EndFrame DEF IInv
<1>3. \A s \in Requests : Good(s)'
  BY <1>2, FrameGood, EndGood DEF IInv
<1> QED
  BY <1>1, <1>3 DEF IInv, AlwaysAnOwner

\* A locking step preserves the invariant if its request may rely on what it read.
LEMMA LockInv ==
  ASSUME IInv, NEW r \in Requests, NEW u \in Users, Lockable(r, u),
         UNCHANGED lock \/ TakeLock(r, u),
         NEW t \in Tx, tx' = [tx EXCEPT ![r] = t], UNCHANGED role,
         Good(r)'
  PROVE  IInv'
<1>1. MembershipTypeOK'
  BY DEF IInv, MembershipTypeOK, TakeLock
<1>2. \A s \in Requests : s # r => Frame(s)
  BY LockFrame DEF IInv
<1>3. \A s \in Requests : Good(s)'
  BY <1>2, FrameGood DEF IInv
<1> QED
  BY <1>1, <1>3 DEF IInv, AlwaysAnOwner

-----------------------------------------------------------------------------
\* Initially there is one owner and nothing in progress.
LEMMA InitIInv == MembershipInit => IInv
<1> SUFFICES ASSUME MembershipInit
             PROVE  IInv
  OBVIOUS
<1>1. Idle \in Tx
  BY DEF Idle, Tx, Ops, RequestSteps
<1>2. MembershipTypeOK /\ AlwaysAnOwner
  BY <1>1 DEF MembershipInit, MembershipTypeOK, AlwaysAnOwner, Roles
<1>3. \A r \in Requests : Good(r)
  BY DEF MembershipInit, Idle, Good
<1> QED
  BY <1>2, <1>3 DEF IInv

\* Starting a request.
LEMMA BeginInv ==
  ASSUME IInv, NEW r \in Requests, Begin(r)
  PROVE  IInv'
<1> USE DEF Ops, RequestSteps, Roles
<1>1. PICK op \in {"add", "update", "remove"}, a \in Users, u \in Users,
           new \in Roles \cup {"NONE"} :
        /\ Open(r, op, a, u, new)
        /\ \/ op = "add" /\ new \in Roles \ {"OWNER"}
           \/ op = "update" /\ new \in Roles
           \/ op = "remove" /\ new = "NONE"
        /\ UNCHANGED <<role, lock>>
  BY DEF Begin, BeginAdd, BeginUpdate, BeginRemove
<1> DEFINE t == [Idle EXCEPT !.op = op, !.at = "actor", !.actor = a,
                             !.target = u, !.new = new]
<1>2. t \in Tx /\ tx' = [tx EXCEPT ![r] = t]
  BY <1>1 DEF Open, Idle, Tx
<1>3. MembershipTypeOK'
  BY <1>1, <1>2 DEF IInv, MembershipTypeOK
<1>4. \A s \in Requests : s # r => Frame(s)
  BY <1>1, <1>2 DEF IInv, MembershipTypeOK, Frame
<1>5. tx'[r] = t
  BY <1>2 DEF IInv, MembershipTypeOK
<1>6. Good(r)'
  BY <1>1, <1>5 DEF Good, Idle
<1>7. \A s \in Requests : Good(s)'
  BY <1>4, <1>6, FrameGood DEF IInv
<1> QED
  BY <1>1, <1>3, <1>7 DEF IInv, AlwaysAnOwner

\* Reading and locking the actor.
LEMMA LockActorInv ==
  ASSUME IInv, NEW r \in Requests, LockActor(r)
  PROVE  IInv'
<1> DEFINE u == tx[r].actor
           t == [tx[r] EXCEPT !.actorRole = role[u]]
           n == [t EXCEPT !.at = IF t.op = "add" THEN "write" ELSE "target"]
<1>1. tx[r].at = "actor" /\ Lockable(r, u) /\ UNCHANGED role
  BY DEF LockActor
<1>2. u \in Users /\ Good(r) /\ MembershipTypeOK
  BY <1>1 DEF IInv, Good
<1>3. CASE EndTx(r)
  BY <1>1, <1>3, EndInv
<1>4. CASE ~EndTx(r)
  <2>1. /\ role[u] # "NONE" /\ TakeLock(r, u)
        /\ tx' = [tx EXCEPT ![r] = n]
    BY <1>4 DEF LockActor
  <2>2. n \in Tx
    BY <1>2 DEF MembershipTypeOK, Tx, RequestSteps
  <2>3. tx'[r] = n /\ lock'[u] = r
    BY <1>2, <2>1 DEF MembershipTypeOK, TakeLock
  <2>4. /\ n.op = tx[r].op /\ n.new = tx[r].new /\ n.actor = u /\ n.target = tx[r].target
        /\ n.actorRole = role[u] /\ n.targetRole = "NONE"
        /\ n.at = IF n.op = "add" THEN "write" ELSE "target"
    BY <1>1, <1>2 DEF MembershipTypeOK, Tx, Good
  <2>5. Holds(r, tx[r].actor, tx[r].actorRole)'
    BY <1>1, <1>2, <2>1, <2>3, <2>4 DEF Holds
  <2>6. ~LosesOwner(tx[r])'
    BY <2>3, <2>4 DEF LosesOwner
  <2>7. Good(r)'
    <3> HIDE DEF n, u, t
    <3> QED
      BY <1>1, <1>2, <2>3, <2>4, <2>5, <2>6 DEF Good, ChangesMember
  <2> QED
    BY <1>1, <1>2, <2>1, <2>2, <2>7, LockInv
<1> QED
  BY <1>3, <1>4

\* Reading and locking the target, under the policy.
LEMMA LockTargetInv ==
  ASSUME IInv, NEW r \in Requests, LockTarget(r)
  PROVE  IInv'
<1> DEFINE u == tx[r].target
           t == [tx[r] EXCEPT !.targetRole = role[u]]
           n == [t EXCEPT !.at = IF LosesOwner(t) THEN "owners" ELSE "write"]
<1>1. tx[r].at = "target" /\ Lockable(r, u) /\ UNCHANGED role
  BY DEF LockTarget
<1>2. u \in Users /\ Good(r) /\ MembershipTypeOK
  BY <1>1 DEF IInv, Good
<1>3. CASE EndTx(r)
  BY <1>1, <1>3, EndInv
<1>4. CASE ~EndTx(r)
  <2>1. /\ role[u] # "NONE" /\ TakeLock(r, u)
        /\ tx' = [tx EXCEPT ![r] = n]
        /\ t.op = "update" => UpdatePermitted(t)
        /\ t.op = "remove" => RemovePermitted(t)
    BY <1>4 DEF LockTarget
  <2>2. n \in Tx
    BY <1>2 DEF MembershipTypeOK, Tx, RequestSteps
  <2>3. /\ n.op = tx[r].op /\ n.new = tx[r].new /\ n.actor = tx[r].actor /\ n.target = u
        /\ n.actorRole = tx[r].actorRole /\ n.targetRole = role[u]
        /\ n.at = IF LosesOwner(n) THEN "owners" ELSE "write"
    BY <1>2 DEF MembershipTypeOK, Tx, LosesOwner
  <2>4. tx'[r] = n /\ lock'[u] = r
    BY <1>2, <2>1 DEF MembershipTypeOK, TakeLock
  <2>5. /\ Holds(r, tx[r].actor, tx[r].actorRole)'
        /\ Holds(r, tx[r].target, tx[r].targetRole)'
    BY <1>1, <1>2, <2>1, <2>3, <2>4 DEF MembershipTypeOK, Good, Holds, TakeLock
  <2>6. /\ t.op = n.op /\ t.new = n.new
        /\ t.actorRole = n.actorRole /\ t.targetRole = n.targetRole
    BY <1>2, <2>3 DEF MembershipTypeOK, Tx
  <2>7. ChangesMember(n)
    BY <1>1, <1>2, <2>3 DEF Good, ChangesMember
  <2>8. /\ CanManage(n.actorRole, n.targetRole)
        /\ n.op = "update" => CanAssign(n.actorRole, n.new)
        /\ n.at = "write" => ~LosesOwner(n)
    <3> HIDE DEF n, u, t
    <3> QED
      BY <2>1, <2>3, <2>6, <2>7
      DEF ChangesMember, UpdatePermitted, RemovePermitted, LosesOwner
  <2>9. Good(r)'
    <3> HIDE DEF n, u, t
    <3> QED
      BY <1>1, <1>2, <2>3, <2>4, <2>5, <2>7, <2>8
      DEF Good, ChangesMember, CanManage, CanAssign, LosesOwner
  <2> QED
    BY <1>1, <1>2, <2>1, <2>2, <2>9, LockInv
<1> QED
  BY <1>3, <1>4

\* The snapshot of the owner query.
LEMMA FindOwnersInv ==
  ASSUME IInv, NEW r \in Requests, FindOwners(r)
  PROVE  IInv'
<1> DEFINE n == [tx[r] EXCEPT !.at = "lock owners", !.owners = {},
                              !.todo = {u \in Users : role[u] = "OWNER"}]
<1>1. MembershipTypeOK /\ Good(r) /\ tx[r].at = "owners" /\ UNCHANGED <<role, lock>>
  BY DEF IInv, FindOwners
<1>2. n \in Tx /\ tx' = [tx EXCEPT ![r] = n]
  BY <1>1 DEF FindOwners, MembershipTypeOK, Tx, RequestSteps
<1>3. /\ tx'[r] = n /\ n.op = tx[r].op /\ n.new = tx[r].new /\ n.actor = tx[r].actor
      /\ n.target = tx[r].target /\ n.actorRole = tx[r].actorRole
      /\ n.targetRole = tx[r].targetRole /\ n.at = "lock owners" /\ n.owners = {}
  BY <1>1, <1>2 DEF MembershipTypeOK, Tx
<1>4. \A s \in Requests : s # r => Frame(s)
  BY <1>1, <1>2 DEF MembershipTypeOK, Frame
<1>5. Good(r)'
  BY <1>1, <1>3 DEF Good, Holds, ChangesMember
<1>6. MembershipTypeOK'
  BY <1>1, <1>2 DEF MembershipTypeOK
<1>7. \A s \in Requests : Good(s)'
  BY <1>4, <1>5, FrameGood DEF IInv
<1> QED
  BY <1>1, <1>6, <1>7 DEF IInv, AlwaysAnOwner

\* Locking one of the rows the owner query found.
LEMMA LockOwnerInv ==
  ASSUME IInv, NEW r \in Requests, NEW u \in Users, LockOwner(r, u)
  PROVE  IInv'
<1> DEFINE n == [tx[r] EXCEPT !.todo = @ \ {u},
                              !.owners = IF role[u] = "OWNER" THEN @ \cup {u} ELSE @]
<1>1. /\ MembershipTypeOK /\ Good(r) /\ tx[r].at = "lock owners" /\ Lockable(r, u)
      /\ UNCHANGED role
      /\ IF role[u] = "NONE" THEN UNCHANGED lock ELSE TakeLock(r, u)
  BY DEF IInv, LockOwner
<1>2. n \in Tx /\ tx' = [tx EXCEPT ![r] = n]
  BY <1>1 DEF LockOwner, MembershipTypeOK, Tx
<1>3. /\ tx'[r] = n /\ n.op = tx[r].op /\ n.new = tx[r].new /\ n.actor = tx[r].actor
      /\ n.target = tx[r].target /\ n.actorRole = tx[r].actorRole
      /\ n.targetRole = tx[r].targetRole /\ n.at = tx[r].at
      /\ n.owners = IF role[u] = "OWNER" THEN tx[r].owners \cup {u} ELSE tx[r].owners
  BY <1>1, <1>2 DEF MembershipTypeOK, Tx
<1>4. \A v \in Users : lock[v] = r => lock'[v] = r
  BY <1>1 DEF MembershipTypeOK, TakeLock
<1>5. role[u] = "OWNER" => lock'[u] = r
  BY <1>1 DEF MembershipTypeOK, TakeLock
<1>6. \A v, as : Holds(r, v, as) => Holds(r, v, as)'
  BY <1>1, <1>4 DEF Holds
<1>7. Holds(r, u, "OWNER")' \/ role[u] # "OWNER"
  BY <1>1, <1>5 DEF Holds
<1>8. \A v \in n.owners : Holds(r, v, "OWNER")'
  <2> SUFFICES ASSUME NEW v \in n.owners
               PROVE  Holds(r, v, "OWNER")'
    OBVIOUS
  <2> HIDE DEF n
  <2>1. CASE v \in tx[r].owners
    BY <1>1, <1>4, <2>1 DEF Good, Holds
  <2>2. CASE v = u /\ role[u] = "OWNER"
    BY <1>1, <1>5, <2>2 DEF Holds
  <2> QED
    BY <1>3, <2>1, <2>2
<1>9. Good(r)'
  <2> HIDE DEF n
  <2> QED
    BY <1>1, <1>3, <1>6, <1>8 DEF Good, ChangesMember
<1> QED
  BY <1>1, <1>2, <1>9, LockInv

\* More than one row means that there is an owner besides the target.
LEMMA TwoOwners ==
  ASSUME NEW S, NEW x, ~TooFewOwners(Cardinality(S))
  PROVE  \E y \in S : y # x
<1> SUFFICES ASSUME S \subseteq {x}
             PROVE  FALSE
  OBVIOUS
<1>1. S = {} \/ S = {x}
  OBVIOUS
<1>2. Cardinality({}) = 0 /\ Cardinality({x}) = 1
  BY FS_EmptySet, FS_Singleton
<1> QED
  BY <1>1, <1>2 DEF TooFewOwners

\* Counting the owners.
LEMMA CountOwnersInv ==
  ASSUME IInv, NEW r \in Requests, CountOwners(r)
  PROVE  IInv'
<1> DEFINE n == [tx[r] EXCEPT !.at = "write"]
<1>1. MembershipTypeOK /\ Good(r) /\ tx[r].at = "lock owners" /\ UNCHANGED role
  BY DEF IInv, CountOwners
<1>2. CASE EndTx(r)
  BY <1>1, <1>2, EndInv
<1>3. CASE ~EndTx(r)
  <2>1. /\ ~TooFewOwners(Cardinality(tx[r].owners)) /\ UNCHANGED lock
        /\ tx' = [tx EXCEPT ![r] = n]
    BY <1>3 DEF CountOwners
  <2>2. /\ n \in Tx /\ tx'[r] = n /\ n.op = tx[r].op /\ n.new = tx[r].new
        /\ n.actor = tx[r].actor /\ n.target = tx[r].target
        /\ n.actorRole = tx[r].actorRole /\ n.targetRole = tx[r].targetRole
        /\ n.at = "write"
    BY <1>1, <2>1 DEF MembershipTypeOK, Tx, RequestSteps
  <2>3. PICK y \in tx[r].owners : y # tx[r].target
    BY <2>1, TwoOwners DEF TooFewOwners
  <2>4. AnotherOwner(r)'
    BY <1>1, <2>1, <2>2, <2>3 DEF Good, Holds, AnotherOwner
  <2>5. Good(r)'
    BY <1>1, <2>1, <2>2, <2>4 DEF Good, Holds, ChangesMember
  <2>6. \A s \in Requests : s # r => Frame(s)
    BY <1>1, <2>1 DEF MembershipTypeOK, Frame
  <2>7. \A s \in Requests : Good(s)'
    BY <2>5, <2>6, FrameGood DEF IInv
  <2> QED
    BY <1>1, <2>1, <2>2, <2>7 DEF IInv, MembershipTypeOK, AlwaysAnOwner
<1> QED
  BY <1>2, <1>3

-----------------------------------------------------------------------------
\* Write changes no row but the target's: an absent one for "add", one that the
\* request holds otherwise.
LEMMA WriteChanges ==
  ASSUME IInv, NEW r \in Requests, Write(r)
  PROVE  /\ Good(r) /\ MembershipTypeOK /\ tx[r].target \in Users /\ tx[r].at = "write"
         /\ EndTx(r) /\ tx'[r].at = "idle"
         /\ role' \in [Users -> Roles \cup {"NONE"}]
         /\ \A u \in Users : u # tx[r].target => role'[u] = role[u]
         /\ tx[r].op = "add" /\ role[tx[r].target] # "NONE"
              => role'[tx[r].target] = role[tx[r].target]
         /\ tx[r].op # "add" => role'[tx[r].target] = tx[r].new
<1>1. Good(r) /\ MembershipTypeOK /\ tx[r].at = "write" /\ EndTx(r)
  BY DEF IInv, Write
<1>2. tx[r].target \in Users
  BY <1>1 DEF Good
<1>3. tx[r].new \in Roles \cup {"NONE"}
  BY <1>1 DEF MembershipTypeOK, Tx
<1>4. tx'[r].at = "idle"
  BY <1>1 DEF MembershipTypeOK, EndTx, Idle
<1> QED
  BY <1>1, <1>2, <1>3, <1>4 DEF MembershipTypeOK, Write

\* An owner is left after every write.
LEMMA WriteLeavesOwner ==
  ASSUME IInv, NEW r \in Requests, Write(r)
  PROVE  AlwaysAnOwner'
<1>1. PICK o \in Users : role[o] = "OWNER"
  BY DEF IInv, AlwaysAnOwner
<1>2. CASE o # tx[r].target
  BY <1>1, <1>2, WriteChanges DEF AlwaysAnOwner
<1>3. CASE o = tx[r].target /\ tx[r].op = "add"
  BY <1>1, <1>3, WriteChanges DEF AlwaysAnOwner
<1>4. CASE o = tx[r].target /\ tx[r].op # "add"
  <2>1. tx[r].targetRole = "OWNER"
    BY <1>1, <1>4, WriteChanges DEF Good, Holds
  <2>2. CASE tx[r].new = "OWNER"
    BY <1>4, <2>2, WriteChanges DEF AlwaysAnOwner
  <2>3. CASE tx[r].new # "OWNER"
    <3>1. AnotherOwner(r)
      BY <2>1, <2>3, WriteChanges DEF Good, LosesOwner
    <3>2. PICK u \in Users : u # tx[r].target /\ role[u] = "OWNER"
      BY <3>1 DEF AnotherOwner, Holds
    <3> QED
      BY <3>2, WriteChanges DEF AlwaysAnOwner
  <2> QED
    BY <2>2, <2>3
<1> QED
  BY <1>2, <1>3, <1>4

\* The write preserves the invariant.
LEMMA WriteInv ==
  ASSUME IInv, NEW r \in Requests, Write(r)
  PROVE  IInv'
<1>1. MembershipTypeOK'
  BY WriteChanges, EndTyped DEF MembershipTypeOK
<1>2. ASSUME NEW s \in Requests, s # r
      PROVE  Good(s)'
  <2>1. tx[r].op # "add" => lock[tx[r].target] = r
    BY WriteChanges DEF Good, Holds
  <2>2. \A u \in Users : lock[u] = s /\ role[u] # "NONE" => role'[u] = role[u]
    BY <1>2, <2>1, WriteChanges
  <2> QED
    BY <1>2, <2>2, WriteChanges, EndFrame, FrameGood DEF IInv
<1>3. Good(r)'
  BY WriteChanges, EndGood
<1> QED
  BY <1>1, <1>2, <1>3, WriteLeavesOwner DEF IInv

\* A new member by invitation.
LEMMA AcceptInv ==
  ASSUME IInv, NEW u \in Users, NEW new \in Roles, AcceptInvitation(u, new)
  PROVE  IInv'
<1>1. MembershipTypeOK'
  BY DEF IInv, MembershipTypeOK, AcceptInvitation
<1>2. \A s \in Requests : Frame(s)
  BY DEF IInv, MembershipTypeOK, AcceptInvitation, Frame
<1>3. \A s \in Requests : Good(s)'
  BY <1>2, FrameGood DEF IInv
<1>4. AlwaysAnOwner'
  BY DEF IInv, MembershipTypeOK, AcceptInvitation, AlwaysAnOwner
<1> QED
  BY <1>1, <1>3, <1>4 DEF IInv

\* Every step preserves the invariant.
LEMMA InvStep == IInv /\ [MembershipNext]_membershipVars => IInv'
<1> SUFFICES ASSUME IInv, [MembershipNext]_membershipVars
             PROVE  IInv'
  OBVIOUS
<1>1. ASSUME NEW r \in Requests, Begin(r)
      PROVE  IInv'
  BY <1>1, BeginInv
<1>2. ASSUME NEW r \in Requests, Step(r)
      PROVE  IInv'
  BY <1>2, LockActorInv, LockTargetInv, FindOwnersInv, LockOwnerInv,
     CountOwnersInv, WriteInv DEF Step
<1>3. ASSUME NEW r \in Requests, DeadlockVictim(r) \/ Abort(r)
      PROVE  IInv'
  BY <1>3, EndInv DEF DeadlockVictim, Abort
<1>4. ASSUME NEW u \in Users, NEW new \in Roles, AcceptInvitation(u, new)
      PROVE  IInv'
  BY <1>4, AcceptInv
<1>5. CASE UNCHANGED membershipVars
  <2>1. \A r \in Requests : Frame(r)
    BY <1>5 DEF membershipVars, Frame
  <2>2. \A r \in Requests : Good(r)'
    BY <2>1, FrameGood DEF IInv
  <2> QED
    BY <1>5, <2>2 DEF membershipVars, IInv, MembershipTypeOK, AlwaysAnOwner
<1> QED
  BY <1>1, <1>2, <1>3, <1>4, <1>5 DEF MembershipNext

\* The invariant holds in every state.
LEMMA Invariance == MembershipSpec => []IInv
  BY InitIInv, InvStep, PTL DEF MembershipSpec

\* Every variable stays within its type.
THEOREM TypeCorrect == MembershipSpec => []MembershipTypeOK
<1>1. IInv => MembershipTypeOK
  BY DEF IInv
<1> QED
  BY <1>1, Invariance, PTL

\* Whatever its owners do to each other at the same time, and however many of
\* them, the organization keeps an owner.
THEOREM OwnerRetained == MembershipSpec => []AlwaysAnOwner
<1>1. IInv => AlwaysAnOwner
  BY DEF IInv
<1> QED
  BY <1>1, Invariance, PTL

\* The step of a request that writes is covered by the roles of that moment.
LEMMA AuthorityStep ==
  ASSUME IInv, [MembershipNext]_membershipVars, NEW u \in Users, role[u] # "NONE", role'[u] # role[u]
  PROVE  ByAuthority(u)
<1>1. PICK r \in Requests : Write(r)
  BY DEF MembershipNext, membershipVars, Begin, BeginAdd, BeginUpdate, BeginRemove, Step, LockActor,
     LockTarget, FindOwners, LockOwner, CountOwners, DeadlockVictim, Abort,
     AcceptInvitation, IInv, MembershipTypeOK
<1>2. u = tx[r].target /\ tx[r].op # "add" /\ role'[u] = tx[r].new
  BY <1>1, WriteChanges
<1>3. /\ tx[r].actorRole = role[tx[r].actor] /\ tx[r].targetRole = role[u]
      /\ CanManage(tx[r].actorRole, tx[r].targetRole)
      /\ tx[r].op = "update" => CanAssign(tx[r].actorRole, tx[r].new)
      /\ tx[r].op = "remove" => tx[r].new = "NONE"
      /\ tx[r].op \in {"update", "remove"}
  BY <1>1, <1>2, WriteChanges DEF Good, Holds, ChangesMember, Roles
<1> QED
  BY <1>1, <1>2, <1>3, WriteChanges DEF ByAuthority

\* No member's role is changed, and no member removed, but by an actor who has
\* the authority for it at that moment.
THEOREM AuthorityIsCurrent == MembershipSpec => AuthorityAtCommit
<1>1. IInv /\ [MembershipNext]_membershipVars =>
        [\A u \in Users : role[u] # "NONE" /\ role'[u] # role[u] => ByAuthority(u)]_role
  BY AuthorityStep
<1> QED
  BY <1>1, Invariance, PTL DEF MembershipSpec, AuthorityAtCommit

-----------------------------------------------------------------------------
(* The inductive invariant of the invitations.                             *)

InvitationRow ==
  [status : {"pending", "accepted", "revoked", "expired"}, person : Persons,
   role : Invitable, lapsed : BOOLEAN, by : Persons \cup {NoOne}]

AcceptRecord ==
  {AtRest} \cup [at : {"read"}, person : Persons, id : Ids, row : InvitationRow]

SendRecord ==
  {AtRest} \cup [at : {"checked"}, person : Persons, role : Invitable]

InvitationsTypeOK ==
  /\ invitation \in [Ids -> {NoInvitation} \cup InvitationRow]
  /\ invitationLock \in [Ids -> Accepts \cup {NoOne}]
  /\ accept \in [Accepts -> AcceptRecord]
  /\ send \in [Sends -> SendRecord]
  /\ joins \in [Ids -> Nat]

\* An acceptance holds the invitation it has read, of which only the week goes on.
ReadStillHolds ==
  \A a \in Accepts : accept[a].at = "read" =>
    LET i == accept[a].id
    IN  /\ invitationLock[i] = a
        /\ invitation[i] \in InvitationRow
        /\ invitation[i].status = accept[a].row.status
        /\ invitation[i].person = accept[a].row.person

\* Only its acceptance, which ends an invitation, has added anybody.
JoinedAccepted ==
  \A i \in Ids :
    \/ joins[i] = 0
    \/ /\ joins[i] = 1 /\ invitation[i].status = "accepted"
       /\ invitation[i].by = invitation[i].person

\* An address has one pending invitation.
OnePending ==
  \A i, j \in Ids :
    IsPending(i) /\ IsPending(j) /\ i # j => invitation[j].person # invitation[i].person

InvitationsInv == InvitationsTypeOK /\ ReadStillHolds /\ JoinedAccepted /\ OnePending

-----------------------------------------------------------------------------
\* What becomes of a row that nobody inserts or accepts: a pending one may lapse, and
\* end unless it is held.
RowGoesOn(old, new, free) ==
  \/ new = old
  \/ /\ old \in InvitationRow /\ new \in InvitationRow
     /\ old.status = "pending" /\ new.person = old.person
     /\ new.status = "pending" \/ (free /\ new.status \in {"revoked", "expired"})

\* A step in which all rows go on and no request keeps the invariant.
LEMMA RowsGoOn ==
  ASSUME InvitationsInv, invitation' \in [Ids -> {NoInvitation} \cup InvitationRow],
         \A i \in Ids :
           RowGoesOn(invitation[i], invitation'[i], invitationLock[i] = NoOne),
         UNCHANGED <<invitationLock, accept, send, joins>>
  PROVE  InvitationsInv'
<1>1. ReadStillHolds'
  <2> SUFFICES ASSUME NEW a \in Accepts, accept[a].at = "read"
               PROVE  LET i == accept[a].id
                      IN  /\ invitationLock[i] = a
                          /\ invitation'[i] \in InvitationRow
                          /\ invitation'[i].status = accept[a].row.status
                          /\ invitation'[i].person = accept[a].row.person
    BY DEF ReadStillHolds
  <2> DEFINE i == accept[a].id
  <2>1. i \in Ids
    BY DEF InvitationsInv, InvitationsTypeOK, AcceptRecord, AtRest
  <2>2. /\ invitationLock[i] = a /\ invitation[i] \in InvitationRow
        /\ invitation[i].status = accept[a].row.status
        /\ invitation[i].person = accept[a].row.person
    BY DEF InvitationsInv, ReadStillHolds
  <2>3. invitationLock[i] # NoOne
    BY <2>2, InvitationAssumption
  <2>4. RowGoesOn(invitation[i], invitation'[i], FALSE)
    BY <2>1, <2>3
  <2> HIDE DEF i
  <2>5. /\ invitation'[i] \in InvitationRow /\ invitation'[i].status = invitation[i].status
        /\ invitation'[i].person = invitation[i].person
    BY <2>2, <2>4 DEF RowGoesOn
  <2> QED
    BY <2>2, <2>5 DEF i
<1>2. JoinedAccepted'
  <2> SUFFICES ASSUME NEW i \in Ids
               PROVE  \/ joins[i] = 0
                      \/ /\ joins[i] = 1 /\ invitation'[i].status = "accepted"
                         /\ invitation'[i].by = invitation'[i].person
    BY DEF JoinedAccepted
  <2>1. RowGoesOn(invitation[i], invitation'[i], invitationLock[i] = NoOne)
    OBVIOUS
  <2> QED
    BY <2>1 DEF InvitationsInv, JoinedAccepted, RowGoesOn
<1>3. OnePending'
  <2> SUFFICES ASSUME NEW i \in Ids, NEW j \in Ids, i # j,
                      invitation'[i].status = "pending", invitation'[j].status = "pending"
               PROVE  invitation'[j].person # invitation'[i].person
    BY DEF OnePending, IsPending
  <2>1. /\ invitation[i].status = "pending" /\ invitation'[i].person = invitation[i].person
        /\ invitation[j].status = "pending" /\ invitation'[j].person = invitation[j].person
    BY DEF RowGoesOn
  <2> QED
    BY <2>1 DEF InvitationsInv, OnePending, IsPending
<1>4. InvitationsTypeOK'
  BY DEF InvitationsInv, InvitationsTypeOK
<1> QED
  BY <1>1, <1>2, <1>3, <1>4 DEF InvitationsInv

\* Expiring ends pending rows that nobody holds.
LEMMA ExpiredRows ==
  ASSUME InvitationsInv, \A i \in Lapsed : invitationLock[i] = NoOne
  PROVE  /\ Expired(invitation) \in [Ids -> {NoInvitation} \cup InvitationRow]
         /\ \A i \in Ids : /\ RowGoesOn(invitation[i], Expired(invitation)[i],
                                        invitationLock[i] = NoOne)
                           /\ Expired(invitation)[i].status = "pending" =>
                                i \notin Lapsed /\ Expired(invitation)[i] = invitation[i]
<1>1. ASSUME NEW i \in Lapsed
      PROVE  /\ i \in Ids /\ invitation[i] \in InvitationRow
             /\ invitation[i].status = "pending"
             /\ [invitation[i] EXCEPT !.status = "expired"] \in InvitationRow
             /\ [invitation[i] EXCEPT !.status = "expired"].status = "expired"
             /\ [invitation[i] EXCEPT !.status = "expired"].person = invitation[i].person
  <2>1. /\ i \in Ids /\ invitation[i] \in {NoInvitation} \cup InvitationRow
        /\ invitation[i].status = "pending"
    BY DEF Lapsed, IsPending, InvitationsInv, InvitationsTypeOK
  <2>2. invitation[i] \in InvitationRow
    BY <2>1 DEF NoInvitation
  <2> QED
    BY <2>1, <2>2 DEF InvitationRow
<1>2. \A i \in Ids : invitation[i] \in {NoInvitation} \cup InvitationRow
  BY DEF InvitationsInv, InvitationsTypeOK
<1>3. ASSUME NEW i \in Ids
      PROVE  Expired(invitation)[i] = IF i \in Lapsed
                                      THEN [invitation[i] EXCEPT !.status = "expired"]
                                      ELSE invitation[i]
  BY DEF Expired
<1>4. Expired(invitation) = [i \in Ids |-> Expired(invitation)[i]]
  BY DEF Expired
<1>5. ASSUME NEW i \in Ids
      PROVE  /\ Expired(invitation)[i] \in {NoInvitation} \cup InvitationRow
             /\ RowGoesOn(invitation[i], Expired(invitation)[i], invitationLock[i] = NoOne)
             /\ Expired(invitation)[i].status = "pending" =>
                  i \notin Lapsed /\ Expired(invitation)[i] = invitation[i]
  <2>1. CASE i \in Lapsed
    BY <1>1, <1>3, <2>1 DEF RowGoesOn
  <2>2. CASE i \notin Lapsed
    BY <1>2, <1>3, <2>2 DEF RowGoesOn
  <2> QED
    BY <2>1, <2>2
<1> QED
  BY <1>4, <1>5

\* The sweep of lapsed invitations preserves the invariant.
LEMMA ExpireStep ==
  ASSUME InvitationsInv, ExpireInvitations
  PROVE  InvitationsInv'
<1>1. /\ invitation' = Expired(invitation) /\ \A i \in Lapsed : invitationLock[i] = NoOne
      /\ UNCHANGED <<invitationLock, accept, send, joins>>
  BY DEF ExpireInvitations
<1> QED
  BY <1>1, ExpiredRows, RowsGoOn

\* One row goes on.
LEMMA OneRowGoesOn ==
  ASSUME InvitationsInv, NEW i \in Ids, IsPending(i),
         NEW row, invitation' = [invitation EXCEPT ![i] = row],
         row \in InvitationRow, row.person = invitation[i].person,
         \/ row.status = "pending"
         \/ invitationLock[i] = NoOne /\ row.status = "revoked",
         UNCHANGED <<invitationLock, accept, send, joins>>
  PROVE  InvitationsInv'
<1>1. invitation \in [Ids -> {NoInvitation} \cup InvitationRow]
  BY DEF InvitationsInv, InvitationsTypeOK
<1>2. invitation[i] \in InvitationRow
  BY <1>1 DEF IsPending, NoInvitation
<1>3. RowGoesOn(invitation[i], row, invitationLock[i] = NoOne)
  BY <1>2 DEF RowGoesOn, IsPending
<1>4. ASSUME NEW j \in Ids
      PROVE  RowGoesOn(invitation[j], invitation'[j], invitationLock[j] = NoOne)
  <2>1. CASE j = i
    BY <1>1, <1>3, <2>1
  <2>2. CASE j # i
    BY <1>1, <2>2 DEF RowGoesOn
  <2> QED
    BY <2>1, <2>2
<1>5. invitation' \in [Ids -> {NoInvitation} \cup InvitationRow]
  BY <1>1
<1> QED
  BY <1>4, <1>5, RowsGoOn

\* The week of an invitation passes, or it is revoked.
LEMMA WeekOrRevocation ==
  ASSUME InvitationsInv, NEW i \in Ids, WeekPasses(i) \/ RevokeInvitation(i)
  PROVE  InvitationsInv'
<1>1. IsPending(i) /\ UNCHANGED <<invitationLock, accept, send, joins>>
  BY DEF WeekPasses, RevokeInvitation
<1>2. invitation[i] \in InvitationRow /\ invitation[i].status = "pending"
  BY <1>1 DEF InvitationsInv, InvitationsTypeOK, IsPending, NoInvitation
<1>3. CASE WeekPasses(i)
  <2> DEFINE row == [invitation[i] EXCEPT !.lapsed = TRUE]
  <2>1. row \in InvitationRow /\ row.person = invitation[i].person /\ row.status = "pending"
    BY <1>2 DEF InvitationRow
  <2>2. invitation' = [invitation EXCEPT ![i] = row]
    BY <1>3 DEF WeekPasses
  <2> HIDE DEF row
  <2> QED
    BY <1>1, <2>1, <2>2, OneRowGoesOn
<1>4. CASE RevokeInvitation(i)
  <2> DEFINE row == [invitation[i] EXCEPT !.status = "revoked"]
  <2>1. row \in InvitationRow /\ row.person = invitation[i].person /\ row.status = "revoked"
    BY <1>2 DEF InvitationRow
  <2>2. invitation' = [invitation EXCEPT ![i] = row] /\ invitationLock[i] = NoOne
    BY <1>4 DEF RevokeInvitation
  <2> HIDE DEF row
  <2> QED
    BY <1>1, <2>1, <2>2, OneRowGoesOn
<1> QED
  BY <1>3, <1>4

\* createInvitation: the row it inserts is the one pending for its address.
LEMMA InsertStep ==
  ASSUME InvitationsInv, NEW s \in Sends, NEW i \in Ids, InsertInvitation(s, i)
  PROVE  InvitationsInv'
<1> DEFINE E == Expired(invitation)
           new == [status |-> "pending", person |-> send[s].person, role |-> send[s].role,
                   lapsed |-> FALSE, by |-> NoOne]
<1>1. /\ send[s].at = "checked" /\ send' = [send EXCEPT ![s] = AtRest]
      /\ \A j \in Lapsed : invitationLock[j] = NoOne
      /\ invitation[i].status = "absent"
      /\ UNCHANGED <<invitationLock, accept, joins>>
  BY DEF InsertInvitation
<1>2. send' \in [Sends -> SendRecord]
  BY <1>1 DEF InvitationsInv, InvitationsTypeOK, SendRecord
<1>3. send[s].person \in Persons /\ send[s].role \in Invitable
  BY <1>1 DEF InvitationsInv, InvitationsTypeOK, SendRecord, AtRest
<1>4. CASE TakenAddress(send[s].person)
  <2>1. invitation' = invitation
    BY <1>4 DEF InsertInvitation
  <2> QED
    BY <1>1, <1>2, <2>1 DEF InvitationsInv, InvitationsTypeOK, ReadStillHolds,
                            JoinedAccepted, OnePending, IsPending
<1>5. CASE ~TakenAddress(send[s].person)
  <2>1. invitation' = [E EXCEPT ![i] = new]
    BY <1>5 DEF InsertInvitation
  <2>2. new \in InvitationRow /\ new.status = "pending" /\ new.person = send[s].person
    BY <1>3 DEF InvitationRow
  <2>3. /\ E \in [Ids -> {NoInvitation} \cup InvitationRow]
        /\ \A j \in Ids : /\ RowGoesOn(invitation[j], E[j], invitationLock[j] = NoOne)
                          /\ E[j].status = "pending" =>
                               j \notin Lapsed /\ E[j] = invitation[j]
    BY <1>1, ExpiredRows
  <2> HIDE DEF E, new
  <2>4. /\ invitation' \in [Ids -> {NoInvitation} \cup InvitationRow]
        /\ invitation'[i] = new /\ \A j \in Ids : j # i => invitation'[j] = E[j]
    BY <2>1, <2>2, <2>3
  <2>5. invitation[i] = NoInvitation
    BY <1>1 DEF InvitationsInv, InvitationsTypeOK, InvitationRow
  <2>6. InvitationsTypeOK'
    BY <1>1, <1>2, <2>4 DEF InvitationsInv, InvitationsTypeOK
  <2>7. ReadStillHolds'
    <3> SUFFICES ASSUME NEW a \in Accepts, accept[a].at = "read"
                 PROVE  LET k == accept[a].id
                        IN  /\ invitationLock[k] = a
                            /\ invitation'[k] \in InvitationRow
                            /\ invitation'[k].status = accept[a].row.status
                            /\ invitation'[k].person = accept[a].row.person
      BY <1>1 DEF ReadStillHolds
    <3> DEFINE k == accept[a].id
    <3>1. k \in Ids
      BY DEF InvitationsInv, InvitationsTypeOK, AcceptRecord, AtRest
    <3>2. /\ invitationLock[k] = a /\ invitation[k] \in InvitationRow
          /\ invitation[k].status = accept[a].row.status
          /\ invitation[k].person = accept[a].row.person
      BY DEF InvitationsInv, ReadStillHolds
    <3>3. invitationLock[k] # NoOne
      BY <3>2, InvitationAssumption
    <3> HIDE DEF k
    <3>4. RowGoesOn(invitation[k], E[k], FALSE)
      BY <2>3, <3>1, <3>3
    <3>5. k # i
      BY <2>5, <3>2 DEF NoInvitation, InvitationRow
    <3>6. /\ invitation'[k] \in InvitationRow /\ invitation'[k].status = invitation[k].status
          /\ invitation'[k].person = invitation[k].person
      BY <2>4, <3>1, <3>2, <3>4, <3>5 DEF RowGoesOn
    <3> QED
      BY <3>2, <3>6 DEF k
  <2>8. JoinedAccepted'
    <3> SUFFICES ASSUME NEW j \in Ids
                 PROVE  \/ joins[j] = 0
                        \/ /\ joins[j] = 1 /\ invitation'[j].status = "accepted"
                           /\ invitation'[j].by = invitation'[j].person
      BY <1>1 DEF JoinedAccepted
    <3>1. \/ joins[j] = 0
          \/ /\ joins[j] = 1 /\ invitation[j].status = "accepted"
             /\ invitation[j].by = invitation[j].person
      BY DEF InvitationsInv, JoinedAccepted
    <3>2. CASE j = i
      BY <2>5, <3>1, <3>2 DEF NoInvitation
    <3>3. CASE j # i
      BY <2>3, <2>4, <3>1, <3>3 DEF RowGoesOn
    <3> QED
      BY <3>2, <3>3
  <2>9. OnePending'
    <3> SUFFICES ASSUME NEW j \in Ids, NEW k \in Ids, j # k,
                        invitation'[j].status = "pending", invitation'[k].status = "pending"
                 PROVE  invitation'[k].person # invitation'[j].person
      BY DEF OnePending, IsPending
    <3>1. ASSUME NEW m \in Ids, m # i, invitation'[m].status = "pending"
          PROVE  /\ invitation[m].status = "pending" /\ invitation'[m] = invitation[m]
                 /\ invitation'[m].person # new.person
      <4>1. m \notin Lapsed /\ invitation'[m] = invitation[m]
        BY <2>3, <2>4, <3>1
      <4> QED
        BY <1>5, <2>2, <3>1, <4>1 DEF TakenAddress, IsPending
    <3>2. CASE j = i
      BY <2>4, <3>1, <3>2
    <3>3. CASE k = i
      BY <2>4, <3>1, <3>3
    <3>4. CASE j # i /\ k # i
      BY <3>1, <3>4 DEF InvitationsInv, OnePending, IsPending
    <3> QED
      BY <3>2, <3>3, <3>4
  <2> QED
    BY <2>6, <2>7, <2>8, <2>9 DEF InvitationsInv
<1> QED
  BY <1>4, <1>5

\* Steps of a sender or of the team write no invitation.
LEMMA ElsewhereStep ==
  ASSUME InvitationsInv, UNCHANGED <<invitation, invitationLock, accept, joins>>,
         send' \in [Sends -> SendRecord]
  PROVE  InvitationsInv'
<1> QED
  BY DEF InvitationsInv, InvitationsTypeOK, ReadStillHolds, JoinedAccepted, OnePending,
         IsPending

\* createInvitation checks the person; the team adds or removes one.
LEMMA OtherSteps ==
  ASSUME InvitationsInv,
         \/ \E s \in Sends, p \in Persons, actor \in {"OWNER", "ADMIN"}, r \in Invitable :
              CheckMember(s, p, actor, r)
         \/ \E p \in Persons : RemoveMember(p) \/ \E r \in Invitable : AddMember(p, r)
  PROVE  InvitationsInv'
<1>1. UNCHANGED <<invitation, invitationLock, accept, joins>>
  BY DEF CheckMember, RemoveMember, AddMember
<1>2. send \in [Sends -> SendRecord]
  BY DEF InvitationsInv, InvitationsTypeOK
<1>3. ASSUME NEW s \in Sends, NEW p \in Persons, NEW actor, NEW r \in Invitable,
             CheckMember(s, p, actor, r)
      PROVE  send' \in [Sends -> SendRecord]
  <2>1. [at |-> "checked", person |-> p, role |-> r] \in SendRecord
    BY DEF SendRecord
  <2>2. send' = [send EXCEPT ![s] = [at |-> "checked", person |-> p, role |-> r]]
    BY <1>3 DEF CheckMember
  <2> QED
    BY <1>2, <2>1, <2>2
<1>4. send' \in [Sends -> SendRecord]
  BY <1>2, <1>3 DEF RemoveMember, AddMember
<1> QED
  BY <1>1, <1>4, ElsewhereStep

\* acceptInvitation locks the invitation it reads.
LEMMA BeginAcceptStep ==
  ASSUME InvitationsInv, NEW a \in Accepts, NEW p \in Persons, NEW i \in Ids,
         BeginAccept(a, p, i)
  PROVE  InvitationsInv'
<1> DEFINE r == [at |-> "read", person |-> p, id |-> i, row |-> invitation[i]]
<1>1. /\ invitationLock[i] = NoOne /\ invitationLock' = [invitationLock EXCEPT ![i] = a]
      /\ accept' = [accept EXCEPT ![a] = r]
      /\ invitation[i].status # "absent" /\ UNCHANGED <<invitation, send, joins>>
  BY DEF BeginAccept, SelectForUpdate
<1>2. invitation[i] \in InvitationRow
  BY <1>1 DEF InvitationsInv, InvitationsTypeOK, NoInvitation
<1>3. r \in AcceptRecord /\ r.at = "read" /\ r.id = i /\ r.row = invitation[i]
  BY <1>2 DEF AcceptRecord
<1> HIDE DEF r
<1>4. /\ accept \in [Accepts -> AcceptRecord]
      /\ invitationLock \in [Ids -> Accepts \cup {NoOne}]
  BY DEF InvitationsInv, InvitationsTypeOK
<1>5. InvitationsTypeOK'
  BY <1>1, <1>3, <1>4 DEF InvitationsInv, InvitationsTypeOK
<1>6. ReadStillHolds'
  <2> SUFFICES ASSUME NEW b \in Accepts, accept'[b].at = "read"
               PROVE  LET k == accept'[b].id
                      IN  /\ invitationLock'[k] = b
                          /\ invitation[k] \in InvitationRow
                          /\ invitation[k].status = accept'[b].row.status
                          /\ invitation[k].person = accept'[b].row.person
    BY <1>1 DEF ReadStillHolds
  <2>1. CASE b = a
    BY <1>1, <1>2, <1>3, <1>4, <2>1
  <2>2. CASE b # a
    <3>1. accept'[b] = accept[b]
      BY <1>1, <1>4, <2>2
    <3>2. /\ invitationLock[accept[b].id] = b
          /\ invitation[accept[b].id] \in InvitationRow
          /\ invitation[accept[b].id].status = accept[b].row.status
          /\ invitation[accept[b].id].person = accept[b].row.person
      BY <3>1 DEF InvitationsInv, ReadStillHolds
    <3>3. accept[b].id # i
      BY <1>1, <3>2, InvitationAssumption
    <3>4. invitationLock'[accept[b].id] = b
      BY <1>1, <1>4, <3>2, <3>3
    <3> QED
      BY <3>1, <3>2, <3>4
  <2> QED
    BY <2>1, <2>2
<1>7. JoinedAccepted' /\ OnePending'
  BY <1>1 DEF InvitationsInv, JoinedAccepted, OnePending, IsPending
<1> QED
  BY <1>5, <1>6, <1>7 DEF InvitationsInv

\* A request that ends gives up its lock and no other's.
LEMMA SettledLocks ==
  ASSUME InvitationsInv, NEW a \in Accepts, Settled(a)
  PROVE  /\ accept' \in [Accepts -> AcceptRecord]
         /\ invitationLock' \in [Ids -> Accepts \cup {NoOne}]
         /\ \A b \in Accepts : accept'[b].at = "read" =>
              b # a /\ accept'[b] = accept[b] /\ accept[b].id \in Ids
              /\ invitationLock'[accept[b].id] = invitationLock[accept[b].id]
<1>1. /\ accept' = [accept EXCEPT ![a] = AtRest]
      /\ invitationLock' = [i \in Ids |-> IF invitationLock[i] = a THEN NoOne
                                          ELSE invitationLock[i]]
  BY DEF Settled, Unlocked
<1>2. /\ accept \in [Accepts -> AcceptRecord]
      /\ invitationLock \in [Ids -> Accepts \cup {NoOne}]
  BY DEF InvitationsInv, InvitationsTypeOK
<1>3. ASSUME NEW b \in Accepts, accept'[b].at = "read"
      PROVE  b # a /\ accept'[b] = accept[b] /\ accept[b].id \in Ids
             /\ invitationLock'[accept[b].id] = invitationLock[accept[b].id]
  <2>1. b # a /\ accept'[b] = accept[b]
    BY <1>1, <1>2, <1>3 DEF AtRest
  <2>2. accept[b].id \in Ids
    BY <1>2, <1>3, <2>1 DEF AcceptRecord, AtRest
  <2>3. invitationLock[accept[b].id] = b
    BY <1>3, <2>1 DEF InvitationsInv, ReadStillHolds
  <2> QED
    BY <1>1, <2>1, <2>2, <2>3
<1>4. accept' \in [Accepts -> AcceptRecord]
  BY <1>1, <1>2 DEF AcceptRecord
<1>5. invitationLock' \in [Ids -> Accepts \cup {NoOne}]
  BY <1>1, <1>2
<1> QED
  BY <1>3, <1>4, <1>5

\* An answer without effect.
LEMMA AnsweredStep ==
  ASSUME InvitationsInv, NEW a \in Accepts, Settled(a), UNCHANGED <<invitation, send, joins>>
  PROVE  InvitationsInv'
<1>1. InvitationsTypeOK'
  BY SettledLocks DEF InvitationsInv, InvitationsTypeOK
<1>2. ReadStillHolds'
  BY SettledLocks DEF InvitationsInv, ReadStillHolds
<1>3. JoinedAccepted' /\ OnePending'
  BY DEF InvitationsInv, JoinedAccepted, OnePending, IsPending
<1> QED
  BY <1>1, <1>2, <1>3 DEF InvitationsInv

\* The person of the invitation is added once: it was pending and is held.
LEMMA AcceptStep ==
  ASSUME InvitationsInv, NEW a \in Accepts, Accept(a)
  PROVE  InvitationsInv'
<1> DEFINE i == accept[a].id
           p == accept[a].person
           new == [invitation[i] EXCEPT !.status = "accepted", !.by = p]
<1>1. /\ accept[a].at = "read" /\ accept[a].row.person = p
      /\ accept[a].row.status = "pending" /\ Settled(a) /\ send' = send
  BY DEF Accept
<1>2. i \in Ids /\ p \in Persons
  BY <1>1 DEF InvitationsInv, InvitationsTypeOK, AcceptRecord, AtRest
<1>3. /\ invitationLock[i] = a /\ invitation[i] \in InvitationRow
      /\ invitation[i].status = "pending" /\ invitation[i].person = p
  BY <1>1 DEF InvitationsInv, ReadStillHolds
<1>4. joins[i] = 0
  BY <1>2, <1>3 DEF InvitationsInv, JoinedAccepted
<1>5. /\ new \in InvitationRow /\ new.status = "accepted" /\ new.by = p /\ new.person = p
  BY <1>2, <1>3 DEF InvitationRow
<1>6. /\ invitation \in [Ids -> {NoInvitation} \cup InvitationRow]
      /\ joins \in [Ids -> Nat]
  BY DEF InvitationsInv, InvitationsTypeOK
<1>7. /\ invitation' = [invitation EXCEPT ![i] = new]
      /\ joins' = joins \/ joins' = [joins EXCEPT ![i] = @ + 1]
  <2>1. /\ invitation' = [invitation EXCEPT ![i].status = "accepted", ![i].by = p]
        /\ joins' = joins \/ joins' = [joins EXCEPT ![i] = @ + 1]
    BY <1>3 DEF Accept, StaysOpen
  <2> QED
    BY <1>2, <1>6, <2>1
<1> HIDE DEF new
<1>8. /\ invitation' \in [Ids -> {NoInvitation} \cup InvitationRow] /\ invitation'[i] = new
      /\ \A j \in Ids : j # i => invitation'[j] = invitation[j]
  BY <1>2, <1>5, <1>6, <1>7
<1>9. /\ joins' \in [Ids -> Nat] /\ joins'[i] \in {0, 1}
      /\ \A j \in Ids : j # i => joins'[j] = joins[j]
  BY <1>2, <1>4, <1>6, <1>7
<1>10. InvitationsTypeOK'
  BY <1>1, <1>8, <1>9, SettledLocks DEF InvitationsInv, InvitationsTypeOK
<1>11. ReadStillHolds'
  <2> SUFFICES ASSUME NEW b \in Accepts, accept'[b].at = "read"
               PROVE  LET k == accept'[b].id
                      IN  /\ invitationLock'[k] = b
                          /\ invitation'[k] \in InvitationRow
                          /\ invitation'[k].status = accept'[b].row.status
                          /\ invitation'[k].person = accept'[b].row.person
    BY DEF ReadStillHolds
  <2>1. /\ b # a /\ accept'[b] = accept[b] /\ accept[b].id \in Ids
        /\ invitationLock'[accept[b].id] = invitationLock[accept[b].id]
    BY <1>1, SettledLocks
  <2>2. /\ invitationLock[accept[b].id] = b
        /\ invitation[accept[b].id] \in InvitationRow
        /\ invitation[accept[b].id].status = accept[b].row.status
        /\ invitation[accept[b].id].person = accept[b].row.person
    BY <2>1 DEF InvitationsInv, ReadStillHolds
  <2>3. invitation'[accept[b].id] = invitation[accept[b].id]
    BY <1>3, <1>8, <2>1, <2>2
  <2> QED
    BY <2>1, <2>2, <2>3
<1>12. JoinedAccepted'
  BY <1>5, <1>8, <1>9 DEF InvitationsInv, JoinedAccepted
<1>13. OnePending'
  <2> SUFFICES ASSUME NEW j \in Ids, NEW k \in Ids, j # k,
                      invitation'[j].status = "pending", invitation'[k].status = "pending"
               PROVE  invitation'[k].person # invitation'[j].person
    BY DEF OnePending, IsPending
  <2>1. j # i /\ k # i
    BY <1>5, <1>8
  <2> QED
    BY <1>8, <2>1 DEF InvitationsInv, OnePending, IsPending
<1> QED
  BY <1>10, <1>11, <1>12, <1>13 DEF InvitationsInv

\* There is no invitation, lock or request at first.
LEMMA InvitationsInitInv == InvitationsInit => InvitationsInv
<1> SUFFICES ASSUME InvitationsInit
             PROVE  InvitationsInv
  OBVIOUS
<1>1. InvitationsTypeOK
  BY DEF InvitationsInit, InvitationsTypeOK, AcceptRecord, SendRecord
<1>2. ReadStillHolds
  BY DEF InvitationsInit, ReadStillHolds, AtRest
<1>3. JoinedAccepted /\ OnePending
  BY DEF InvitationsInit, JoinedAccepted, OnePending, IsPending, NoInvitation
<1> QED
  BY <1>1, <1>2, <1>3 DEF InvitationsInv

\* Every step keeps the invariant.
LEMMA InvitationsInvStep == InvitationsInv /\ [InvitationsNext]_invitationVars => InvitationsInv'
<1> SUFFICES ASSUME InvitationsInv, [InvitationsNext]_invitationVars
             PROVE  InvitationsInv'
  OBVIOUS
<1>1. CASE UNCHANGED invitationVars
  <2>1. UNCHANGED <<invitation, invitationLock, accept, send, joins>>
    BY <1>1 DEF invitationVars
  <2>2. send' \in [Sends -> SendRecord]
    BY <2>1 DEF InvitationsInv, InvitationsTypeOK
  <2> QED
    BY <2>1, <2>2, ElsewhereStep
<1>2. CASE ExpireInvitations
  BY <1>2, ExpireStep
<1>3. ASSUME NEW i \in Ids, WeekPasses(i) \/ RevokeInvitation(i)
      PROVE  InvitationsInv'
  BY <1>3, WeekOrRevocation
<1>4. ASSUME NEW s \in Sends, NEW i \in Ids, InsertInvitation(s, i)
      PROVE  InvitationsInv'
  BY <1>4, InsertStep
<1>5. ASSUME NEW a \in Accepts, NEW p \in Persons, NEW i \in Ids, BeginAccept(a, p, i)
      PROVE  InvitationsInv'
  BY <1>5, BeginAcceptStep
<1>6. ASSUME NEW a \in Accepts, AcceptAnswered(a)
      PROVE  InvitationsInv'
  BY <1>6, AnsweredStep DEF AcceptAnswered
<1>7. ASSUME NEW a \in Accepts, Accept(a)
      PROVE  InvitationsInv'
  BY <1>7, AcceptStep
<1> QED
  BY <1>1, <1>2, <1>3, <1>4, <1>5, <1>6, <1>7, OtherSteps DEF InvitationsNext

\* However an invitation's token is presented, at once, after a removal, a revocation
\* or the end of its week, it adds its person once; an address has one pending.
THEOREM AdmittedOnce == InvitationsSpec => []InvitationAdmitsOnce
<1>1. InvitationsInv => InvitationAdmitsOnce
  BY DEF InvitationsInv, JoinedAccepted, OnePending, InvitationAdmitsOnce, IsPending
<1> QED
  BY <1>1, InvitationsInitInv, InvitationsInvStep, PTL DEF InvitationsSpec

-----------------------------------------------------------------------------
(* The inductive invariant of the management pages.                        *)

Labels == TeamActions \cup GovernanceActions \cup {NoFlag}

ReadSet == [pc : {"none", "sent", "over"}, parts : [Parts -> Nat]]
CallSet == [pc : {"none", "sent", "applied", "failed", "reloading", "over"},
            label : Labels, made : Nat, read : Nat, told : [Parts -> Nat]]

ManagementTypeOK ==
  /\ pageName \in {"team", "governance"} /\ version \in Nat
  /\ reads \in [Reads -> ReadSet] /\ calls \in [Calls -> CallSet]
  /\ form \in [of : Nat, edited : BOOLEAN]

\* Nothing has come of a load that has not been sent.
UnsentBlank == \A r \in Reads : reads[r].pc = "none" => reads[r].parts = NoParts

\* What has come of parts, of whatever is as new as version v.
Since(parts, v) == \A p \in Parts : parts[p] = Nothing \/ parts[p] >= v

\* A change waits for a load that was sent after it was made.
WaitsForNewer(c) ==
  LET r == calls[c].read
  IN  calls[c].pc = "reloading" =>
        r \in Reads /\ reads[r].pc = "sent" /\ Since(reads[r].parts, calls[c].made)

ToldNewer(c) ==
  calls[c].pc = "over" =>
    /\ calls[c].told = NoParts \/ \A p \in Parts : calls[c].told[p] >= calls[c].made
    /\ HandsSecret(calls[c].label) => calls[c].made \in everShown

CallOK(c) == calls[c].made <= version /\ WaitsForNewer(c) /\ ToldNewer(c)

FormFilled ==
  pageName = "governance" /\ shown.kind = "ready" /\ ~form.edited =>
    form.of = shown.parts["head"]

ManagementInv ==
  ManagementTypeOK /\ UnsentBlank /\ (\A c \in Calls : CallOK(c)) /\ FormFilled

-----------------------------------------------------------------------------
\* A set of numbers has a least one.
LEMMA LeastIsIn ==
  ASSUME NEW S \in SUBSET Nat, S # {}
  PROVE  Min(S) \in S
<1>1. PICK x \in S : \A y \in S : ~(<<y, x>> \in OpToRel(<, Nat))
  BY NatLessThanWellFounded, WFMin
<1>2. \A y \in S : x <= y
  <2> SUFFICES ASSUME NEW y \in S
               PROVE  x <= y
    OBVIOUS
  <2>1. ~(y < x)
    BY <1>1 DEF OpToRel
  <2> QED
    BY <2>1
<1> QED
  BY <1>2 DEF Min

\* load sends one that was not sent.
LEMMA LoadSends ==
  ASSUME ManagementInv, Load
  PROVE  LET r == Min(UnusedReads)
         IN  /\ r \in Reads /\ reads[r].pc = "none" /\ reads[r].parts = NoParts
             /\ reads' \in [Reads -> ReadSet]
             /\ reads'[r] = [pc |-> "sent", parts |-> NoParts]
             /\ \A q \in Reads \ {r} : reads'[q] = reads[q]
             /\ shown' = Showing("loading", NoParts)
<1> DEFINE r == Min(UnusedReads)
<1>1. r \in UnusedReads
  <2>1. UnusedReads \in SUBSET Nat /\ UnusedReads # {}
    BY DEF Load, UnusedReads, Reads
  <2> QED
    BY <2>1, LeastIsIn
<1>2. r \in Reads /\ reads[r].pc = "none" /\ reads[r].parts = NoParts
  BY <1>1 DEF UnusedReads, ManagementInv, UnsentBlank
<1>3. reads' = [reads EXCEPT ![r].pc = "sent"] /\ shown' = Showing("loading", NoParts)
  BY DEF Load
<1> HIDE DEF r
<1>4. /\ reads'[r] = [pc |-> "sent", parts |-> NoParts]
      /\ \A q \in Reads \ {r} : reads'[q] = reads[q]
      /\ reads' \in [Reads -> ReadSet]
  BY <1>2, <1>3 DEF ManagementInv, ManagementTypeOK, ReadSet
<1> QED
  BY <1>2, <1>3, <1>4 DEF r

\* A load that is sent changes nothing for the changes that wait for others.
LEMMA LoadKeeps ==
  ASSUME ManagementInv, Load, UNCHANGED <<pageName, version, form, everShown>>,
         NEW c \in Calls, calls'[c] = calls[c]
  PROVE  CallOK(c)'
<1>1. CallOK(c)
  BY DEF ManagementInv
<1> DEFINE r == calls[c].read
<1>2. ASSUME calls[c].pc = "reloading"
      PROVE  r \in Reads /\ reads[r].pc = "sent" /\ reads'[r] = reads[r]
  BY <1>1, <1>2, LoadSends DEF CallOK, WaitsForNewer
<1>3. WaitsForNewer(c)'
  BY <1>1, <1>2 DEF CallOK, WaitsForNewer
<1> QED
  BY <1>1, <1>3 DEF CallOK, ToldNewer

\* A change that is not touched stays as it is, when its load, if it waits for one,
\* gets nothing older than the change.
LEMMA OthersKeep ==
  ASSUME ManagementInv, NEW c \in Calls, calls'[c] = calls[c],
         version' \in Nat, version <= version', everShown \subseteq everShown',
         calls[c].pc = "reloading" =>
           LET r == calls[c].read
           IN  reads'[r].pc = "sent" /\ Since(reads'[r].parts, calls[c].made)
  PROVE  CallOK(c)'
<1>1. CallOK(c) /\ version \in Nat /\ calls[c].made \in Nat
  BY DEF ManagementInv, ManagementTypeOK, CallSet
<1>2. WaitsForNewer(c)'
  BY <1>1 DEF CallOK, WaitsForNewer, Since
<1>3. ToldNewer(c)'
  BY <1>1 DEF CallOK, ToldNewer
<1>4. calls'[c].made <= version'
  BY <1>1 DEF CallOK
<1> QED
  BY <1>2, <1>3, <1>4 DEF CallOK

\* A change is asked for, made, or fails.
LEMMA CallMoves ==
  ASSUME ManagementInv, NEW c \in Calls,
         (\E label \in Offered : Act(c, label)) \/ Apply(c) \/ ActFails(c)
  PROVE  ManagementInv'
<1> DEFINE x == calls'[c]
<1>1. /\ x \in CallSet /\ x.pc \in {"sent", "applied", "failed"} /\ x.made <= version'
      /\ calls' = [calls EXCEPT ![c] = x]
      /\ UNCHANGED <<pageName, shown, reads, form, everShown>>
      /\ version' \in Nat /\ version <= version'
  <2>0. calls[c] \in CallSet /\ calls \in [Calls -> CallSet] /\ version \in Nat
        /\ calls[c].made \in Nat /\ calls[c].made <= version
    BY DEF ManagementInv, ManagementTypeOK, CallOK, CallSet
  <2>1. CASE \E label \in Offered : Act(c, label)
    <3>1. PICK label \in Offered : Act(c, label)
      BY <2>1
    <3>2. label \in Labels
      BY DEF Offered, Labels
    <3> DEFINE y == [calls[c] EXCEPT !.pc = "sent", !.label = label]
    <3>3. calls' = [calls EXCEPT ![c] = y]
      BY <2>0, <3>1 DEF Act
    <3>4. y \in CallSet /\ y.pc = "sent" /\ y.made = calls[c].made
      BY <2>0, <3>2 DEF CallSet
    <3> HIDE DEF y
    <3>5. UNCHANGED <<pageName, version, shown, reads, form, everShown>>
      BY <3>1 DEF Act
    <3> QED
      BY <2>0, <3>3, <3>4, <3>5
  <2>2. CASE Apply(c)
    <3>1. calls' = [calls EXCEPT ![c] =
                      [calls[c] EXCEPT !.pc = "applied", !.made = version + 1]]
      BY <2>0, <2>2 DEF Apply
    <3> QED
      BY <2>0, <2>2, <3>1 DEF Apply, CallSet
  <2>3. CASE ActFails(c)
    <3>1. calls' = [calls EXCEPT ![c] = [calls[c] EXCEPT !.pc = "failed"]]
      BY <2>0, <2>3 DEF ActFails
    <3> QED
      BY <2>0, <2>3, <3>1 DEF ActFails, CallSet
  <2> QED
    BY <2>1, <2>2, <2>3
<1> HIDE DEF x
<1>2. ManagementTypeOK'
  BY <1>1 DEF ManagementInv, ManagementTypeOK
<1>3. UnsentBlank' /\ FormFilled'
  BY <1>1 DEF ManagementInv, UnsentBlank, FormFilled
<1>4. CallOK(c)'
  BY <1>1 DEF ManagementInv, ManagementTypeOK, x, CallOK, WaitsForNewer, ToldNewer
<1>5. ASSUME NEW d \in Calls \ {c}
      PROVE  CallOK(d)'
  <2>1. calls'[d] = calls[d] /\ CallOK(d)
    BY <1>1 DEF ManagementInv, ManagementTypeOK
  <2> QED
    BY <1>1, <2>1, OthersKeep DEF CallOK, WaitsForNewer
<1> QED
  BY <1>2, <1>3, <1>4, <1>5 DEF ManagementInv

\* The answer to a change begins a load.
LEMMA AcceptedStep ==
  ASSUME ManagementInv, NEW c \in Calls, Accepted(c)
  PROVE  ManagementInv'
<1> DEFINE r == Min(UnusedReads)
           x == [calls[c] EXCEPT !.pc = "reloading", !.read = r]
<1>0. /\ Load /\ UNCHANGED <<pageName, version, form, everShown>>
      /\ calls \in [Calls -> CallSet] /\ calls[c] \in CallSet /\ calls[c].made \in Nat
      /\ calls' = [calls EXCEPT ![c] = x]
  BY DEF Accepted, ManagementInv, ManagementTypeOK, CallSet
<1>1. /\ r \in Reads /\ r \in Nat /\ reads' \in [Reads -> ReadSet]
      /\ reads'[r] = [pc |-> "sent", parts |-> NoParts]
      /\ \A q \in Reads \ {r} : reads'[q] = reads[q]
      /\ shown' = Showing("loading", NoParts)
  BY <1>0, LoadSends DEF Reads
<1> HIDE DEF r
<1>2. x \in CallSet /\ x.pc = "reloading" /\ x.read = r /\ x.made = calls[c].made
  BY <1>0, <1>1 DEF CallSet
<1> HIDE DEF x
<1>3. ManagementTypeOK'
  BY <1>0, <1>1, <1>2 DEF ManagementInv, ManagementTypeOK
<1>4. UnsentBlank' /\ FormFilled'
  BY <1>0, <1>1 DEF ManagementInv, UnsentBlank, FormFilled, Showing
<1>5. CallOK(c)'
  <2>1. calls'[c] = x
    BY <1>0
  <2>2. Since(reads'[r].parts, x.made)
    BY <1>1 DEF Since, NoParts
  <2>3. x.made <= version'
    BY <1>0, <1>2 DEF ManagementInv, CallOK
  <2> QED
    BY <1>1, <1>2, <2>1, <2>2, <2>3 DEF CallOK, WaitsForNewer, ToldNewer, Since
<1>6. ASSUME NEW d \in Calls \ {c}
      PROVE  CallOK(d)'
  BY <1>0, LoadKeeps
<1> QED
  BY <1>3, <1>4, <1>5, <1>6 DEF ManagementInv

\* A load without a change.
LEMMA RefreshStep ==
  ASSUME ManagementInv, Refresh
  PROVE  ManagementInv'
<1>0. Load /\ UNCHANGED <<pageName, version, form, calls, everShown>>
  BY DEF Refresh
<1>1. PICK r \in Reads :
        /\ reads' \in [Reads -> ReadSet] /\ reads'[r].pc = "sent"
        /\ \A q \in Reads \ {r} : reads'[q] = reads[q]
        /\ shown' = Showing("loading", NoParts)
  BY <1>0, LoadSends
<1>2. ManagementTypeOK'
  BY <1>0, <1>1 DEF ManagementInv, ManagementTypeOK
<1>3. UnsentBlank' /\ FormFilled'
  BY <1>0, <1>1 DEF ManagementInv, UnsentBlank, FormFilled, Showing
<1>4. \A c \in Calls : CallOK(c)'
  BY <1>0, LoadKeeps
<1> QED
  BY <1>2, <1>3, <1>4 DEF ManagementInv

\* A part comes as the API keeps it, which has every change made by then.
LEMMA ServeStep ==
  ASSUME ManagementInv, NEW r \in Reads, NEW part \in Parts, Serve(r, part)
  PROVE  ManagementInv'
<1> DEFINE parts == [reads[r].parts EXCEPT ![part] = version]
           x == [reads[r] EXCEPT !.parts = parts]
<1>1. /\ reads \in [Reads -> ReadSet] /\ reads[r] \in ReadSet /\ reads[r].pc = "sent"
      /\ reads[r].parts \in [Parts -> Nat] /\ version \in Nat
      /\ reads' = [reads EXCEPT ![r] = x]
      /\ UNCHANGED <<pageName, version, shown, calls, form, everShown>>
  BY DEF Serve, ManagementInv, ManagementTypeOK, ReadSet
<1>2. parts \in [Parts -> Nat] /\ \A p \in Parts : parts[p] \in {version, reads[r].parts[p]}
  BY <1>1
<1> HIDE DEF parts
<1>3. x \in ReadSet /\ x.pc = "sent" /\ x.parts = parts
  BY <1>1, <1>2 DEF ReadSet
<1> HIDE DEF x
<1>4. ManagementTypeOK' /\ UnsentBlank' /\ FormFilled'
  BY <1>1, <1>3 DEF ManagementInv, ManagementTypeOK, UnsentBlank, FormFilled
<1>5. ASSUME NEW c \in Calls
      PROVE  CallOK(c)'
  <2>1. CallOK(c) /\ calls[c].made \in Nat
    BY DEF ManagementInv, ManagementTypeOK, CallSet
  <2>2. CASE calls[c].pc = "reloading" /\ calls[c].read = r
    <3>1. Since(reads[r].parts, calls[c].made)
      BY <2>1, <2>2 DEF CallOK, WaitsForNewer
    <3>2. Since(parts, calls[c].made)
      BY <1>1, <1>2, <2>1, <3>1 DEF Since, CallOK
    <3> QED
      BY <1>1, <1>3, <2>2, <3>2, OthersKeep
  <2>3. CASE ~(calls[c].pc = "reloading" /\ calls[c].read = r)
    BY <1>1, <2>1, <2>3, OthersKeep DEF CallOK, WaitsForNewer
  <2> QED
    BY <2>2, <2>3
<1> QED
  BY <1>4, <1>5 DEF ManagementInv

\* A load ends, with all its parts or with none, for whoever waited for it.
LEMMA ContinueStep ==
  ASSUME ManagementInv, NEW r \in Reads, NEW kind \in {"ready", "error"},
         NEW parts \in [Parts -> Nat],
         kind = "ready" => parts = reads[r].parts /\ \A p \in Parts : parts[p] # Nothing,
         kind = "error" => parts = NoParts,
         Continue(r, Showing(kind, parts))
  PROVE  ManagementInv'
<1>1. /\ reads \in [Reads -> ReadSet] /\ calls \in [Calls -> CallSet]
      /\ form \in [of : Nat, edited : BOOLEAN] /\ version \in Nat
  BY DEF ManagementInv, ManagementTypeOK
<1>2. /\ reads' = [reads EXCEPT ![r] = [NoRead EXCEPT !.pc = "over"]]
      /\ shown' = [kind |-> kind, parts |-> parts]
      /\ UNCHANGED <<pageName, version>>
  BY DEF Continue, Showing
<1>3. [NoRead EXCEPT !.pc = "over"] \in ReadSet
  BY DEF NoRead, NoParts, Nothing, ReadSet
<1>4. /\ reads' \in [Reads -> ReadSet] /\ reads'[r].pc = "over"
      /\ \A q \in Reads \ {r} : reads'[q] = reads[q]
  <2>1. [NoRead EXCEPT !.pc = "over"].pc = "over"
    BY DEF NoRead
  <2> QED
    BY <1>1, <1>2, <1>3, <2>1
<1>5. \A c \in Calls :
        calls'[c] = IF c \in Waiting(r)
                    THEN [calls[c] EXCEPT !.pc = "over", !.told = parts] ELSE calls[c]
  BY DEF Continue, Showing
<1>6. calls' \in [Calls -> CallSet]
  <2>1. \A c \in Calls : [calls[c] EXCEPT !.pc = "over", !.told = parts] \in CallSet
    BY <1>1 DEF CallSet
  <2>2. calls' = [c \in Calls |-> calls'[c]]
    BY DEF Continue
  <2> QED
    BY <1>1, <1>5, <2>1, <2>2
<1>7. form' = (IF pageName = "governance" /\ kind = "ready"
               THEN [of |-> parts["head"], edited |-> FALSE] ELSE form)
  BY DEF Continue, Showing
<1>8. ManagementTypeOK'
  <2>1. parts["head"] \in Nat
    BY DEF Parts
  <2>2. form' \in [of : Nat, edited : BOOLEAN]
    BY <1>1, <1>7, <2>1
  <2> QED
    BY <1>2, <1>4, <1>6, <2>2 DEF ManagementInv, ManagementTypeOK
<1>9. UnsentBlank' /\ FormFilled'
  BY <1>2, <1>4, <1>7 DEF ManagementInv, UnsentBlank, FormFilled
<1>10. /\ everShown \subseteq everShown'
       /\ \A c \in Waiting(r) : HandsSecret(calls[c].label) => calls[c].made \in everShown'
  BY DEF Continue
<1>11. ASSUME NEW c \in Calls
       PROVE  CallOK(c)'
  <2>1. CallOK(c) /\ calls[c] \in CallSet
    BY <1>1 DEF ManagementInv
  <2>2. CASE c \in Waiting(r)
    <3>1. /\ calls'[c].pc = "over" /\ calls'[c].told = parts
          /\ calls'[c].label = calls[c].label /\ calls'[c].made = calls[c].made
      BY <1>5, <2>1, <2>2 DEF CallSet
    <3>2. Since(reads[r].parts, calls[c].made)
      BY <2>1, <2>2 DEF Waiting, CallOK, WaitsForNewer
    <3>3. parts = NoParts \/ \A p \in Parts : parts[p] >= calls[c].made
      BY <3>2 DEF Since
    <3> QED
      BY <1>2, <1>10, <2>1, <2>2, <3>1, <3>3 DEF CallOK, WaitsForNewer, ToldNewer
  <2>3. CASE c \notin Waiting(r)
    <3>1. calls'[c] = calls[c] /\ ~(calls[c].pc = "reloading" /\ calls[c].read = r)
      BY <1>5, <2>3 DEF Waiting
    <3>2. calls[c].pc = "reloading" => reads'[calls[c].read] = reads[calls[c].read]
      BY <1>4, <2>1, <3>1 DEF CallOK, WaitsForNewer
    <3> QED
      BY <1>1, <1>2, <1>10, <2>1, <3>1, <3>2, OthersKeep DEF CallOK, WaitsForNewer
  <2> QED
    BY <2>2, <2>3
<1> QED
  BY <1>8, <1>9, <1>11 DEF ManagementInv

\* The invariant holds at first.
LEMMA ManagementInitInv == ManagementInit => ManagementInv
<1> SUFFICES ASSUME ManagementInit
             PROVE  ManagementInv
  OBVIOUS
<1>1. NoParts \in [Parts -> Nat]
  BY DEF NoParts, Nothing
<1>2. NoRead \in ReadSet /\ [NoRead EXCEPT !.pc = "sent"] \in ReadSet
      /\ NoRead.parts = NoParts /\ [NoRead EXCEPT !.pc = "sent"].pc = "sent"
  BY <1>1 DEF NoRead, ReadSet
<1>3. NoCall \in CallSet /\ NoCall.pc = "none" /\ NoCall.made = 0
  BY <1>1 DEF NoCall, CallSet, Labels, NoFlag, Nothing
<1>4. ManagementTypeOK
  BY <1>2, <1>3 DEF ManagementInit, ManagementTypeOK, Nothing
<1>5. UnsentBlank
  BY <1>2 DEF ManagementInit, UnsentBlank
<1>6. \A c \in Calls : CallOK(c)
  BY <1>3 DEF ManagementInit, CallOK, WaitsForNewer, ToldNewer
<1>7. FormFilled
  BY DEF ManagementInit, FormFilled, Showing
<1> QED
  BY <1>4, <1>5, <1>6, <1>7 DEF ManagementInv

\* Every step of the pages keeps it.
LEMMA ManagementInvStep == ManagementInv /\ [ManagementNext]_managementVars => ManagementInv'
<1> SUFFICES ASSUME ManagementInv, [ManagementNext]_managementVars
             PROVE  ManagementInv'
  OBVIOUS
<1>1. ASSUME NEW r \in Reads, ServeHead(r) \/ ServeRows(r) \/ ServeAudit(r)
      PROVE  ManagementInv'
  BY <1>1, ServeStep DEF ServeHead, ServeRows, ServeAudit, Parts
<1>2. ASSUME NEW r \in Reads, Arrive(r)
      PROVE  ManagementInv'
  <2>1. reads[r].parts \in [Parts -> Nat]
    BY DEF ManagementInv, ManagementTypeOK, ReadSet
  <2> QED
    BY <1>2, <2>1, ContinueStep DEF Arrive
<1>3. ASSUME NEW r \in Reads, LoadFails(r)
      PROVE  ManagementInv'
  <2>1. NoParts \in [Parts -> Nat]
    BY DEF NoParts, Nothing
  <2> QED
    BY <1>3, <2>1, ContinueStep DEF LoadFails
<1>4. CASE Edit
  <2>1. form'.edited /\ form' \in [of : Nat, edited : BOOLEAN]
    BY <1>4 DEF Edit, ManagementInv, ManagementTypeOK
  <2>2. UNCHANGED <<pageName, version, reads, calls, everShown>>
    BY <1>4 DEF Edit
  <2>3. ManagementTypeOK' /\ UnsentBlank' /\ FormFilled'
    BY <2>1, <2>2 DEF ManagementInv, ManagementTypeOK, UnsentBlank, FormFilled
  <2>4. \A c \in Calls : CallOK(c)'
    BY <2>2 DEF ManagementInv, CallOK, WaitsForNewer, ToldNewer
  <2> QED
    BY <2>3, <2>4 DEF ManagementInv
<1>5. CASE DismissSecret \/ UNCHANGED managementVars
  <2>1. UNCHANGED <<pageName, version, shown, reads, calls, form, everShown>>
    BY <1>5 DEF DismissSecret, managementVars
  <2>2. ManagementTypeOK' /\ UnsentBlank' /\ FormFilled'
    BY <2>1 DEF ManagementInv, ManagementTypeOK, UnsentBlank, FormFilled
  <2>3. \A c \in Calls : CallOK(c)'
    BY <2>1 DEF ManagementInv, CallOK, WaitsForNewer, ToldNewer
  <2> QED
    BY <2>2, <2>3 DEF ManagementInv
<1> QED
  BY <1>1, <1>2, <1>3, <1>4, <1>5, CallMoves, AcceptedStep, RefreshStep DEF ManagementNext

\* The team and the governance page, with any number of changes and loads that answer in
\* any order: what is told after a load is at least as new as the change, a rotated
\* secret is shown, and the form holds what is shown.
THEOREM ChangesAreTold == ManagementSpec => []PageTellsItsChanges
<1>1. ManagementInv => PageTellsItsChanges
  BY DEF ManagementInv, CallOK, ToldNewer, FormFilled, PageTellsItsChanges
<1> QED
  BY <1>1, ManagementInitInv, ManagementInvStep, PTL DEF ManagementSpec
=============================================================================
