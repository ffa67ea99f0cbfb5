---------------------------- MODULE Administration ----------------------------
(***************************************************************************)
(* Administrators change accounts.  A request checks the administrator and   *)
(* loads the target, and writes at its commit only the columns whose new     *)
(* value differs from the one it loaded.                                     *)
(***************************************************************************)
CONSTANTS Accounts,     \* users of the installation
          Updates,      \* requests of PUT /admin/users/{user_id} under way
          Nobody

ASSUME AdministrationAssumption == Nobody \notin Accounts

Columns == {"admin", "active", "deleted"}

\* UserUpdate: values for some of the columns.
Bodies == UNION {[S -> BOOLEAN] : S \in SUBSET Columns}

VARIABLES
  account,  \* users: role = "admin", is_active, is_deleted
  update,   \* per request: the administrator, the target, and the columns it will write
  outdated  \* history: a request was committed by somebody no longer an administrator

adminVars == <<account, update, outdated>>

NoUpdate == [by |-> Nobody, who |-> Nobody, changes |-> <<>>]

\* get_current_user and require_admin, on an account verified and set up.
SignedIn(a) == account[a].active /\ ~account[a].deleted
RequireAdmin(a) == SignedIn(a) /\ account[a].admin

\* A body that would cost its author the administration.
StepsDown(body) ==
  \/ "admin" \in DOMAIN body /\ ~body["admin"]
  \/ "active" \in DOMAIN body /\ ~body["active"]
  \/ "deleted" \in DOMAIN body /\ body["deleted"]

\* Mutant of MayUpdate: the check of the author's own account looks at the role only.
MayUpdateUnlessDemoting(a, u, body) ==
  RequireAdmin(a) /\ ~(u = a /\ "admin" \in DOMAIN body /\ ~body["admin"])

\* An administrator may do anything but step down.
MayUpdate(a, u, body) == RequireAdmin(a) /\ ~(u = a /\ StepsDown(body))

\* The columns the body sets to another value than the one loaded.
Changes(u, body) == [c \in {k \in DOMAIN body : account[u][k] # body[k]} |-> body[c]]

UpdateLoad(r, a, u, body) ==
  /\ update[r].by = Nobody
  /\ MayUpdate(a, u, body)
  /\ update' = [update EXCEPT ![r] = [by |-> a, who |-> u, changes |-> Changes(u, body)]]
  /\ UNCHANGED <<account, outdated>>

UpdateCommit(r) ==
  LET x == update[r]
  IN  /\ x.by # Nobody
      /\ account' = [account EXCEPT ![x.who] =
                       [c \in Columns |-> IF c \in DOMAIN x.changes THEN x.changes[c] ELSE @[c]]]
      /\ outdated' = (outdated \/ ~RequireAdmin(x.by))
      /\ update' = [update EXCEPT ![r] = NoUpdate]

\* A statement raises, or the client goes away: nothing is written.
UpdateError(r) ==
  /\ update[r].by # Nobody
  /\ update' = [update EXCEPT ![r] = NoUpdate]
  /\ UNCHANGED <<account, outdated>>

\* Some accounts, at least one of them, are administrators' to begin with.
AdministrationInit ==
  /\ \E first \in (SUBSET Accounts) \ {{}} :
       account = [u \in Accounts |-> [admin |-> u \in first, active |-> TRUE, deleted |-> FALSE]]
  /\ update = [r \in Updates |-> NoUpdate]
  /\ outdated = FALSE

AdministrationNext ==
  \E r \in Updates :
    \/ \E a, u \in Accounts, body \in Bodies : UpdateLoad(r, a, u, body)
    \/ UpdateCommit(r)
    \/ UpdateError(r)

AdministrationSpec == AdministrationInit /\ [][AdministrationNext]_adminVars

--------------------------------------------------------------------------------
(* Properties *)

\* "An admin demoting/deleting their own account can lock every admin out": an
\* administrator remains who can sign in, unless a request was committed after its author
\* had lost the administration to another one.
AnAdminRemains == ~outdated => \E u \in Accounts : RequireAdmin(u)
================================================================================
