------------------------------- MODULE Sessions --------------------------------
(***************************************************************************)
(* The sessions of one account: refresh tokens in Redis with a per-user      *)
(* index, rotation, logout with a blacklist of access tokens, and the end of *)
(* all sessions when the password changes.  Each call to Redis is a step.    *)
(***************************************************************************)
EXTENDS Integers, FiniteSets, FiniteSetsExt

CONSTANTS Visits,     \* concurrent requests
          MaxTokens,  \* bound on the refresh tokens issued
          MaxGrants,  \* bound on the access tokens whose expiry is followed
          FullLife, OnboardingLife, \* lives of the two kinds of access token
          MaxNow,     \* bound on the time
          MaxChanges  \* bound on the password changes

ASSUME SessionsAssumption ==
  {MaxTokens, MaxGrants, FullLife, OnboardingLife, MaxNow, MaxChanges} \subseteq Nat

VARIABLES
  issued,    \* refresh tokens handed out so far: 1..issued
  valid,     \* keys refresh:<hash> in Redis
  userIndex, \* the set refresh_user:<id>
  visit,     \* per request: operation, step and locals
  now,
  accessTokens, \* access tokens: per token its expiry
  blacklist, \* per revoked access token the time its entry expires
  out,       \* history: access tokens that were logged out
  ended,     \* history: tokens issued before a password change that completed
  stray,     \* history: tokens issued while an invalidation was under way
  changes    \* history: password changes

sessionVars == <<issued, valid, userIndex, visit, now, accessTokens, blacklist, out, ended, stray, changes>>

refreshVars == <<issued, valid, userIndex, ended, stray, changes>>
accessVars == <<now, accessTokens, blacklist, out>>

NoVisit == [op |-> "idle", at |-> "start", token |-> 0, grant |-> 0, seen |-> {}, before |-> {}]

Begin(v, op, t) ==
  /\ visit[v].op = "idle"
  /\ visit' = [visit EXCEPT ![v] = [NoVisit EXCEPT !.op = op, !.token = t]]

Now(v, op, at) == visit[v].op = op /\ visit[v].at = at

Move(v, at) == visit' = [visit EXCEPT ![v].at = at]

End(v) == visit' = [visit EXCEPT ![v] = NoVisit]

--------------------------------------------------------------------------------
(* Tokens *)

\* Mutant of CreateRefresh: the index is left alone.
CreateUnindexed ==
  /\ issued < MaxTokens
  /\ issued' = issued + 1
  /\ valid' = valid \cup {issued + 1}
  /\ UNCHANGED <<userIndex, stray, ended, changes>>

\* Key, index entry and its life in one pipeline.
CreateRefresh ==
  /\ issued < MaxTokens
  /\ issued' = issued + 1
  /\ valid' = valid \cup {issued + 1}
  /\ userIndex' = userIndex \cup {issued + 1}
  /\ stray' = IF \E v \in Visits : visit[v].at = "delete keys" \/ visit[v].at = "drop index"
              THEN stray \cup {issued + 1} ELSE stray
  /\ UNCHANGED <<ended, changes>>

CreateAccessToken(life) ==
  /\ accessTokens' = IF Cardinality(DOMAIN accessTokens) < MaxGrants
                     THEN [g \in 1..Cardinality(DOMAIN accessTokens) + 1 |->
                       IF g \in DOMAIN accessTokens THEN accessTokens[g] ELSE now + life]
               ELSE accessTokens
  /\ UNCHANGED <<now, blacklist, out>>

--------------------------------------------------------------------------------
(* Requests *)

\* The password is verified in a thread; the account must be active.
LoginBegins(v) == Begin(v, "login", 0) /\ UNCHANGED <<refreshVars, accessVars>>

Login(v) ==
  /\ Now(v, "login", "start")
  /\ CreateRefresh /\ CreateAccessToken(FullLife) /\ End(v)

\* The address is verified: an access token for the onboarding page.
VerifiedLogin == CreateAccessToken(OnboardingLife) /\ UNCHANGED <<refreshVars, visit>>

RefreshBegins(v, t) ==
  /\ Begin(v, "refresh", t) /\ UNCHANGED <<refreshVars, accessVars>>

\* The key is read; without it the answer is 401.
RefreshGet(v) ==
  /\ Now(v, "refresh", "start")
  /\ IF visit[v].token \in valid THEN Move(v, "delete") ELSE End(v)
  /\ UNCHANGED <<refreshVars, accessVars>>

RefreshDelete(v) ==
  /\ Now(v, "refresh", "delete")
  /\ valid' = valid \ {visit[v].token}
  /\ Move(v, "unindex")
  /\ UNCHANGED <<issued, userIndex, ended, stray, changes, accessVars>>

RefreshUnindex(v) ==
  /\ Now(v, "refresh", "unindex")
  /\ userIndex' = userIndex \ {visit[v].token}
  /\ Move(v, "issue")
  /\ UNCHANGED <<issued, valid, ended, stray, changes, accessVars>>

RefreshIssue(v) ==
  /\ Now(v, "refresh", "issue")
  /\ CreateRefresh /\ CreateAccessToken(FullLife) /\ End(v)

\* The account was deactivated or deleted: 401, and the token is used up.
RefreshRefused(v) ==
  /\ Now(v, "refresh", "issue") /\ End(v)
  /\ UNCHANGED <<refreshVars, accessVars>>

\* The access token a request brings is decoded and looked up in the blacklist.
Accepted(g) ==
  /\ now < accessTokens[g]
  /\ g \in DOMAIN blacklist => now >= blacklist[g]

LogoutBegins(v, t, g) ==
  /\ Accepted(g)
  /\ visit[v].op = "idle"
  /\ visit' = [visit EXCEPT ![v] = [NoVisit EXCEPT !.op = "logout", !.token = t, !.grant = g]]
  /\ UNCHANGED <<refreshVars, accessVars>>

\* The entry in the index stays until the index goes.
LogoutRevokes(v) ==
  /\ Now(v, "logout", "start")
  /\ valid' = valid \ {visit[v].token}
  /\ Move(v, "blacklist")
  /\ UNCHANGED <<issued, userIndex, ended, stray, changes, accessVars>>

Remaining(g) == Max({accessTokens[g] - now, 1})

LogoutBlacklists(v) ==
  /\ Now(v, "logout", "blacklist")
  /\ LET g == visit[v].grant
     IN  /\ blacklist' = [h \in DOMAIN blacklist \cup {g} |->
                            IF h = g THEN now + Remaining(g) ELSE blacklist[h]]
         /\ out' = out \cup {g}
  /\ End(v)
  /\ UNCHANGED <<refreshVars, now, accessTokens>>

\* The call fails: logged, and the user is told to be logged out.
LogoutCannotBlacklist(v) ==
  /\ Now(v, "logout", "blacklist") /\ End(v)
  /\ UNCHANGED <<refreshVars, accessVars>>

\* The new password is committed (change_password, reset_password), then the sessions end.
ChangeBegins(v) ==
  /\ changes < MaxChanges
  /\ Begin(v, "change", 0)
  /\ changes' = changes + 1
  /\ UNCHANGED <<issued, valid, userIndex, ended, stray, accessVars>>

InvalidateReads(v) ==
  /\ Now(v, "change", "start")
  /\ visit' = [visit EXCEPT ![v].at = "delete keys", ![v].seen = userIndex, ![v].before = 1..issued]
  /\ UNCHANGED <<refreshVars, accessVars>>

InvalidateDeletes(v) ==
  /\ Now(v, "change", "delete keys")
  /\ valid' = valid \ visit[v].seen
  /\ Move(v, "drop index")
  /\ UNCHANGED <<issued, userIndex, ended, stray, changes, accessVars>>

InvalidateDropsIndex(v) ==
  /\ Now(v, "change", "drop index")
  /\ userIndex' = {}
  /\ ended' = ended \cup visit[v].before
  /\ End(v)
  /\ UNCHANGED <<issued, valid, stray, changes, accessVars>>

\* A process dies between two calls.
Dies(v) == visit[v].op # "idle" /\ End(v) /\ UNCHANGED <<refreshVars, accessVars>>

\* Refresh tokens outlive the time followed here.
Tick == now < MaxNow /\ now' = now + 1 /\ UNCHANGED <<refreshVars, visit, accessTokens, blacklist, out>>

--------------------------------------------------------------------------------
SessionsInit ==
  /\ issued = 0 /\ valid = {} /\ userIndex = {}
  /\ visit = [v \in Visits |-> NoVisit]
  /\ now = 0 /\ accessTokens = [g \in {} |-> 0] /\ blacklist = [g \in {} |-> 0] /\ out = {}
  /\ ended = {} /\ stray = {} /\ changes = 0

SessionsNext ==
  \/ \E v \in Visits :
       \/ LoginBegins(v) \/ Login(v)
       \/ \E t \in 1..issued : RefreshBegins(v, t)
       \/ RefreshGet(v) \/ RefreshDelete(v) \/ RefreshUnindex(v) \/ RefreshIssue(v) \/ RefreshRefused(v)
       \/ \E t \in 0..issued, g \in DOMAIN accessTokens : LogoutBegins(v, t, g)
       \/ LogoutRevokes(v) \/ LogoutBlacklists(v) \/ LogoutCannotBlacklist(v)
       \/ ChangeBegins(v) \/ InvalidateReads(v) \/ InvalidateDeletes(v) \/ InvalidateDropsIndex(v)
       \/ Dies(v)
  \/ VerifiedLogin \/ Tick

SessionsSpec == SessionsInit /\ [][SessionsNext]_sessionVars

--------------------------------------------------------------------------------
(* Properties *)

\* Once a password change has completed, no session from before it can be refreshed,
\* although rotations, logouts and logins go on while the index is read and dropped.  The
\* exception are tokens issued during an earlier invalidation: they leave the index with it.
\* And a logged-out access token is refused for the rest of its life, which for an
\* onboarding token is longer than the default.
EndedSessionsStayEnded ==
  /\ valid \cap (ended \ stray) = {}
  /\ \A g \in out : ~Accepted(g)
================================================================================
