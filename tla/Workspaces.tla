------------------------------ MODULE Workspaces ------------------------------
(***************************************************************************)
(* Members and invites of one workspace.  A request loads what it checks,    *)
(* and writes at its commit; the session writes only the columns that differ *)
(* from what it loaded, the member count excepted where the code increments  *)
(* it in SQL.                                                                *)
(***************************************************************************)
EXTENDS Integers, FiniteSets

CONSTANTS People,   \* users of the installation
          Owner,    \* owner_id of the workspace
          Invites,  \* invites that may be created
          Actions,  \* requests under way
          NoOne,
          MaxCount  \* bound on the member count

ASSUME WorkspacesAssumption == /\ Owner \in People /\ NoOne \notin People
                               /\ IsFiniteSet(People) /\ MaxCount \in Nat

VARIABLES
  seats,    \* team_memberships: status and role per user; "none" without a row
  count,    \* workspaces.member_count
  invites,  \* workspace_invites: status, invitee and role
  act,      \* per request: what it is about to commit, and what it loaded
  removed   \* history: a removal has been committed

workspaceVars == <<seats, count, invites, act, removed>>

\* An editor may do no more to members and invites than a viewer.
Roles == {"admin", "viewer"}

NoSeat == [status |-> "none", role |-> "viewer"]
NoInvite == [status |-> "none", who |-> NoOne, role |-> "viewer"]
NoAct == [kind |-> "idle", who |-> NoOne, role |-> "viewer", invite |-> NoOne,
          seat |-> NoSeat, count |-> 0]

Active(u) == seats[u].status = "active"

\* can_manage_members of what check_workspace_access returns.
Manages(a) == a = Owner \/ (Active(a) /\ seats[a].role \in {"owner", "admin"})

\* Whoever may manage members and invites may be the caller.
Managers == {a \in People : Manages(a)}

Members == {u \in People : Active(u)}

\* Of what was loaded, only what the commit depends on is kept.
Start(r, kind, u, role) ==
  /\ act[r].kind = "idle"
  /\ act' = [act EXCEPT ![r] = [kind |-> kind, who |-> u, role |-> role, invite |-> NoOne,
                                seat |-> IF kind \in {"add", "role"} THEN seats[u] ELSE NoSeat,
                                count |-> IF kind \in {"add", "remove"} THEN count ELSE 0]]
  /\ UNCHANGED <<seats, count, invites, removed>>

Done(r) == act' = [act EXCEPT ![r] = NoAct]

--------------------------------------------------------------------------------
(* Taking a seat: add_member and accept_invite *)

\* A second row for the same user breaks the unique index: 500, and nothing is written.
Conflict(u, seen) == seen.status = "none" /\ seats[u].status # "none"

\* The seat as loaded, with its changed columns; a column set to what was loaded is
\* not in the UPDATE.
Seated(u, seen, role) ==
  [status |-> IF seen.status = "active" THEN seats[u].status ELSE "active",
   role |-> IF seen.status # "none" /\ seen.role = role THEN seats[u].role ELSE role]

\* Mutant of Raised: computed from the count that was loaded.
RaisedFromLoaded(loaded) == loaded + 1

\* UPDATE ... SET member_count = member_count + 1.
Raised(loaded) == count + 1

AddLoad(r, u, role) ==
  /\ Managers # {} /\ ~Active(u)
  /\ Start(r, "add", u, role)

AddCommit(r) ==
  LET x == act[r]
  IN  /\ x.kind = "add" /\ count < MaxCount
      /\ IF Conflict(x.who, x.seat) THEN UNCHANGED <<seats, count>>
         ELSE /\ seats' = [seats EXCEPT ![x.who] = Seated(x.who, x.seat, x.role)]
              /\ count' = Raised(x.count)
      /\ Done(r)
      /\ UNCHANGED <<invites, removed>>

AcceptLoad(r, i) ==
  /\ invites[i].status = "pending"
  /\ act[r].kind = "idle"
  /\ act' = [act EXCEPT ![r] = [kind |-> "accept", who |-> invites[i].who, role |-> invites[i].role,
                                invite |-> i, seat |-> seats[invites[i].who], count |-> count]]
  /\ UNCHANGED <<seats, count, invites, removed>>

AcceptCommit(r) ==
  LET x == act[r]
  IN  /\ x.kind = "accept" /\ count < MaxCount
      /\ IF Conflict(x.who, x.seat) THEN UNCHANGED <<seats, count, invites>>
         ELSE /\ seats' = [seats EXCEPT ![x.who] = Seated(x.who, x.seat, x.role)]
              /\ count' = Raised(x.count)
              /\ invites' = [invites EXCEPT ![x.invite].status = "accepted"]
      /\ Done(r)
      /\ UNCHANGED removed

\* An invite found expired is marked so, and refused.
AcceptExpired(r) ==
  /\ act[r].kind = "accept"
  /\ invites' = [invites EXCEPT ![act[r].invite].status = "expired"]
  /\ Done(r)
  /\ UNCHANGED <<seats, count, removed>>

--------------------------------------------------------------------------------
(* Changing and leaving a seat: update_member and remove_member *)

RoleLoad(r, u, role) ==
  /\ Managers # {} /\ u # Owner /\ Active(u)
  /\ Start(r, "role", u, role)

RoleCommit(r) ==
  LET x == act[r]
  IN  /\ x.kind = "role"
      /\ seats' = [seats EXCEPT ![x.who].role = IF x.seat.role = x.role THEN @ ELSE x.role]
      /\ Done(r)
      /\ UNCHANGED <<count, invites, removed>>

\* Mutant of Removable: whoever may manage members may remove any of them.
RemovableByManager(a, u) == Manages(a) \/ a = u

\* The owner cannot be removed; others by a manager or by themselves.
Removable(a, u) == u # Owner /\ (Manages(a) \/ a = u)

RemoveLoad(r, u) ==
  /\ {a \in People : Removable(a, u)} # {}
  /\ Active(u)
  /\ Start(r, "remove", u, "viewer")

\* The count is written as a number, one below the one loaded and at least 1.
RemoveCommit(r) ==
  LET x == act[r]
      lower == IF x.count > 1 THEN x.count - 1 ELSE 1
  IN  /\ x.kind = "remove"
      /\ seats' = [seats EXCEPT ![x.who].status = "left"]
      /\ count' = IF lower = x.count THEN count ELSE lower
      /\ removed' = TRUE
      /\ Done(r)
      /\ UNCHANGED invites

--------------------------------------------------------------------------------
(* Invites: create_invite and cancel_invite *)

\* The check for a pending invite compares the address as typed with the lower case
\* one that is stored: it sees nothing when the address is typed in capitals.
InviteLoad(r, u, role) ==
  /\ Managers # {} /\ ~Active(u)
  /\ Start(r, "invite", u, role)

InviteCommit(r, i) ==
  /\ act[r].kind = "invite" /\ invites[i].status = "none"
  /\ invites' = [invites EXCEPT ![i] = [status |-> "pending", who |-> act[r].who, role |-> act[r].role]]
  /\ Done(r)
  /\ UNCHANGED <<seats, count, removed>>

\* No condition on the status: an accepted invite can still be cancelled.
CancelInvite(i) ==
  /\ Managers # {} /\ invites[i].status # "none"
  /\ invites' = [invites EXCEPT ![i].status = "declined"]
  /\ UNCHANGED <<seats, count, act, removed>>

\* A statement raises: the transaction is rolled back.
ActError(r) ==
  /\ act[r].kind # "idle"
  /\ Done(r)
  /\ UNCHANGED <<seats, count, invites, removed>>

\* create_workspace stores the owner's membership with the workspace.
WorkspaceInit ==
  /\ seats = [u \in People |-> IF u = Owner THEN [status |-> "active", role |-> "owner"] ELSE NoSeat]
  /\ count = 1
  /\ invites = [i \in Invites |-> NoInvite]
  /\ act = [r \in Actions |-> NoAct]
  /\ removed = FALSE

WorkspaceNext ==
  \/ \E r \in Actions :
       \/ \E u \in People : \/ \E role \in Roles : \/ AddLoad(r, u, role)
                                                   \/ RoleLoad(r, u, role)
                                                   \/ InviteLoad(r, u, role)
                            \/ RemoveLoad(r, u)
       \/ \E i \in Invites : AcceptLoad(r, i) \/ InviteCommit(r, i)
       \/ AddCommit(r) \/ AcceptCommit(r) \/ AcceptExpired(r)
       \/ RoleCommit(r) \/ RemoveCommit(r) \/ ActError(r)
  \/ \E i \in Invites : CancelInvite(i)

WorkspaceSpec == WorkspaceInit /\ [][WorkspaceNext]_workspaceVars

--------------------------------------------------------------------------------
(* Properties *)

\* The owner stays an active member, whatever is invited, added, removed and changed.
OwnerKeepsSeat == seats[Owner] = [status |-> "active", role |-> "owner"]

\* "So concurrent add/accept can't lose an increment": while nobody was removed, the
\* count is at least the number of members.
NoIncrementLost == ~removed => count >= Cardinality(Members)
================================================================================
