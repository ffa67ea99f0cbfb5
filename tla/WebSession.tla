------------------------------ MODULE WebSession ------------------------------
(***************************************************************************)
(* A session as the browser keeps it: the access token in localStorage and   *)
(* the auth_state and refresh cookies, which the tabs share, and the user    *)
(* and page of each tab.  The middleware gates pages by auth_state, the      *)
(* AuthProvider checks the token, refreshes it, signs in and signs out.      *)
(***************************************************************************)
EXTENDS Integers

CONSTANTS Tabs,
          MaxPairs,  \* bound on the pairs of tokens the server issues
          SameOrigin \* the API has the pages' origin: login answers set cookies

ASSUME WebSessionAssumption == MaxPairs \in Nat /\ SameOrigin \in BOOLEAN

VARIABLES
  localToken,     \* access token in localStorage, 0 for none
  authState,  \* cookie auth_state, read by the middleware
  jar,        \* refresh cookie, 0 for none
  pairs,      \* the server's: pairs issued so far
  live,       \* access tokens it accepts
  redeemable, \* refresh tokens it accepts
  tab,        \* per tab: page, user, isLoading, the check and the form under way
  excused,    \* history: the server refused a token, a tab logged out, or localStorage was dropped
  bounces     \* history, per tab: times in a row the middleware sent it back

serverVars == <<pairs, live, redeemable>>
browserVars == <<localToken, authState, jar>>
webVars == <<browserVars, serverVars, tab, excused, bounces>>

NewTab(page) == [page |-> page, user |-> FALSE, loading |-> TRUE, check |-> "start", form |-> "none", token |-> 0]

Sets(t, user, loading, check) ==
  tab' = [tab EXCEPT ![t].user = user, ![t].loading = loading, ![t].check = check, ![t].token = 0]

\* Access token k is stored, and with it the cookie for the middleware.
SetTokens(k) ==
  /\ localToken' = k /\ authState' = TRUE
  /\ bounces' = [t \in Tabs |-> 0]

ClearTokens == localToken' = 0 /\ authState' = FALSE /\ UNCHANGED <<jar, bounces>>

\* The server issues a pair, with a refresh token or for onboarding without.
Issue(withRefresh) ==
  /\ pairs < MaxPairs /\ pairs' = pairs + 1
  /\ live' = live \cup {pairs'}
  /\ redeemable' = IF withRefresh THEN redeemable \cup {pairs'} ELSE redeemable

--------------------------------------------------------------------------------
(* Pages *)

\* The page the middleware lets a request end on.
Landed(page) == IF authState THEN "app" ELSE "login"

\* A document is loaded, of either page: whatever was under way in the tab is gone.
OpenPage(t) ==
  /\ tab' = [tab EXCEPT ![t] = NewTab(Landed("login"))]
  /\ bounces' = [bounces EXCEPT ![t] = 0]
  /\ UNCHANGED <<browserVars, serverVars, excused>>

\* useProtectedRoute leaves for /login; the middleware may send it back.
Redirect(t) ==
  /\ tab[t].page = "app" /\ ~tab[t].loading /\ ~tab[t].user
  /\ tab' = [tab EXCEPT ![t] = NewTab(Landed("login"))]
  /\ bounces' = [bounces EXCEPT ![t] = IF authState THEN @ + 1 ELSE 0]
  /\ UNCHANGED <<browserVars, serverVars, excused>>

--------------------------------------------------------------------------------
(* The check: fetchUser and tryRefreshToken *)

Checking(t, at) == tab[t].check = at

\* Mutant of FetchWithoutToken: the cookie is left alone.
FetchGivesUp(t) ==
  /\ Checking(t, "start") /\ localToken = 0
  /\ Sets(t, tab[t].user, FALSE, "none")
  /\ UNCHANGED <<browserVars, serverVars, bounces, excused>>

\* The token is gone, but the cookie may still be there.
FetchWithoutToken(t) ==
  /\ Checking(t, "start") /\ localToken = 0
  /\ ClearTokens /\ Sets(t, tab[t].user, FALSE, "none")
  /\ UNCHANGED <<serverVars, excused>>

FetchUser(t) ==
  /\ Checking(t, "start") /\ localToken # 0
  /\ tab' = [tab EXCEPT ![t].check = "asked", ![t].token = localToken]
  /\ UNCHANGED <<browserVars, serverVars, excused, bounces>>

FetchOk(t) ==
  /\ Checking(t, "asked") /\ tab[t].token \in live
  /\ Sets(t, TRUE, FALSE, "none")
  /\ UNCHANGED <<browserVars, serverVars, excused, bounces>>

\* 401: the refresh is sent with the cookie the browser has now.
FetchRefused(t) ==
  /\ Checking(t, "asked") /\ tab[t].token \notin live
  /\ tab' = [tab EXCEPT ![t].check = "renew", ![t].token = jar]
  /\ excused' = TRUE
  /\ UNCHANGED <<browserVars, serverVars, bounces>>

\* Mutant of FetchOutage: every failure ends the session.
FetchOutageClears(t) ==
  /\ Checking(t, "asked")
  /\ ClearTokens /\ Sets(t, FALSE, FALSE, "none")
  /\ UNCHANGED <<serverVars, excused>>

\* 5xx or a network failure: the tokens are kept, the user stays what it was.
FetchOutage(t) ==
  /\ Checking(t, "asked")
  /\ Sets(t, tab[t].user, FALSE, "none")
  /\ bounces' = [bounces EXCEPT ![t] = 0]
  /\ UNCHANGED <<browserVars, serverVars, excused>>

\* The server rotates the refresh token: cookie first, the body still to be read.
RenewServed(t) ==
  /\ Checking(t, "renew") /\ tab[t].token \in redeemable
  /\ pairs < MaxPairs /\ pairs' = pairs + 1
  /\ live' = live \cup {pairs'}
  /\ redeemable' = (redeemable \ {tab[t].token}) \cup {pairs'}
  /\ jar' = pairs'
  /\ tab' = [tab EXCEPT ![t].check = "renewed", ![t].token = pairs']
  /\ UNCHANGED <<localToken, authState, excused, bounces>>

\* The new token is stored, and the user is fetched again.
RenewArrives(t) ==
  /\ Checking(t, "renewed")
  /\ SetTokens(tab[t].token) /\ tab' = [tab EXCEPT ![t].check = "start", ![t].token = 0]
  /\ UNCHANGED <<jar, serverVars, excused>>

\* A refused refresh and one that could not be made end the session alike.
RenewFails(t) ==
  /\ \/ Checking(t, "renew")
     \/ Checking(t, "renewed") \* the response is lost
  /\ ClearTokens /\ Sets(t, FALSE, FALSE, "none")
  /\ UNCHANGED <<serverVars, excused>>

\* refreshUser, of a page that shows the user.
RefreshUser(t) ==
  /\ tab[t].user /\ Checking(t, "none")
  /\ tab' = [tab EXCEPT ![t].check = "start"]
  /\ UNCHANGED <<browserVars, serverVars, excused, bounces>>

--------------------------------------------------------------------------------
(* The forms: login, verifyEmail and logout *)

Submit(t, form) == tab' = [tab EXCEPT ![t].form = form, ![t].loading = TRUE]

Submits(t, form) ==
  /\ tab[t].page = "login" /\ tab[t].form = "none" /\ Submit(t, form)
  /\ UNCHANGED <<browserVars, serverVars, excused, bounces>>

SubmitLogin(t) == Submits(t, "login")

SubmitCode(t) == Submits(t, "code")

\* Sent without credentials: a cross-origin answer sets no cookie.
LoginOk(t) ==
  /\ tab[t].form = "login" /\ Issue(TRUE)
  /\ SetTokens(pairs') /\ jar' = IF SameOrigin THEN pairs' ELSE jar
  /\ tab' = [tab EXCEPT ![t].form = "none", ![t].user = TRUE, ![t].loading = FALSE, ![t].page = "app"]
  /\ UNCHANGED excused

\* The answer holds an access token only; fetchUser follows.
\* Bound: the check that began with the page is over by then.
VerifyOk(t) ==
  /\ tab[t].form = "code" /\ Checking(t, "none") /\ Issue(FALSE)
  /\ SetTokens(pairs')
  /\ tab' = [tab EXCEPT ![t].form = "verified", ![t].check = "start"]
  /\ UNCHANGED <<jar, excused>>

\* handleVerify leaves for the dashboard when verifyEmail has returned.
Verified(t) ==
  /\ tab[t].form = "verified" /\ Checking(t, "none")
  /\ tab' = [tab EXCEPT ![t].form = "none", ![t].page = Landed("app"), ![t].loading = FALSE]
  /\ UNCHANGED <<browserVars, serverVars, excused, bounces>>

\* The answer to the last page of the onboarding holds a full pair.
CompleteOnboarding(t) ==
  /\ tab[t].page = "app" /\ tab[t].user /\ tab[t].form = "none" /\ localToken \in live
  /\ Issue(TRUE) /\ SetTokens(pairs') /\ jar' = IF SameOrigin THEN pairs' ELSE jar
  /\ tab' = [tab EXCEPT ![t].loading = FALSE]
  /\ UNCHANGED excused

FormFails(t) ==
  /\ tab[t].form \in {"login", "code"}
  /\ tab' = [tab EXCEPT ![t].form = "none", ![t].loading = FALSE]
  /\ UNCHANGED <<browserVars, serverVars, excused, bounces>>

SubmitLogout(t) ==
  /\ tab[t].page = "app" /\ tab[t].user /\ tab[t].form = "none"
  /\ tab' = [tab EXCEPT ![t].form = "logout"]
  /\ UNCHANGED <<browserVars, serverVars, excused, bounces>>

\* The request may fail, and is left out without a token: finally clears all.
Logout(t) ==
  /\ tab[t].form = "logout"
  /\ \/ /\ localToken \in live /\ live' = live \ {localToken}
        /\ IF SameOrigin THEN redeemable' = redeemable \ {jar} /\ jar' = 0
                         ELSE UNCHANGED <<redeemable, jar>>
     \/ UNCHANGED <<live, redeemable, jar>>
  /\ localToken' = 0 /\ authState' = FALSE
  /\ tab' = [tab EXCEPT ![t].form = "none", ![t].user = FALSE]
  /\ excused' = TRUE
  /\ UNCHANGED <<pairs, bounces>>

--------------------------------------------------------------------------------
(* The surroundings *)

AccessExpires == live' = {} /\ live # {} /\ UNCHANGED <<browserVars, pairs, redeemable, tab, excused, bounces>>

\* All refresh tokens of the account are revoked, or they expire.
RefreshExpires ==
  /\ redeemable # {} /\ redeemable' = {}
  /\ UNCHANGED <<browserVars, pairs, live, tab, excused, bounces>>

\* The browser drops localStorage and keeps the cookies.
Evicted ==
  /\ localToken # 0 /\ localToken' = 0 /\ excused' = TRUE
  /\ UNCHANGED <<authState, jar, serverVars, tab, bounces>>

\* auth_state was last set seven days ago.
AuthStateExpires ==
  /\ authState /\ authState' = FALSE
  /\ UNCHANGED <<localToken, jar, serverVars, tab, excused, bounces>>

WebInit ==
  /\ localToken = 0 /\ authState = FALSE /\ jar = 0
  /\ pairs = 0 /\ live = {} /\ redeemable = {}
  /\ tab = [t \in Tabs |-> NewTab("login")]
  /\ excused = FALSE /\ bounces = [t \in Tabs |-> 0]

WebNext ==
  \/ \E t \in Tabs :
       \/ OpenPage(t) \/ Redirect(t)
       \/ FetchWithoutToken(t) \/ FetchUser(t) \/ FetchOk(t) \/ FetchRefused(t) \/ FetchOutage(t)
       \/ RenewServed(t) \/ RenewArrives(t) \/ RenewFails(t) \/ RefreshUser(t)
       \/ SubmitLogin(t) \/ SubmitCode(t) \/ LoginOk(t) \/ VerifyOk(t) \/ Verified(t)
       \/ CompleteOnboarding(t) \/ FormFails(t) \/ SubmitLogout(t) \/ Logout(t)
  \/ AccessExpires \/ RefreshExpires \/ Evicted \/ AuthStateExpires

WebSpec == WebInit /\ [][WebNext]_webVars

--------------------------------------------------------------------------------
(* "A transient backend outage must not log the user out" (AuthProvider.tsx:102-104):
   once a pair was issued the browser holds an access token, unless the server
   refused one, a tab logged out, or the browser evicted it. *)
OutageKeepsTokens == pairs > 0 /\ localToken = 0 => excused

(* The middleware and the tabs agree soon: a tab without a user is sent back from
   /login at most once before its check settles the matter, so no "infinite
   redirect loop" (AuthProvider.tsx:69-73) arises while the server can be
   reached.  Each outage the tab sees, and each sign in, begins the count anew. *)
NoRedirectLoop == \A t \in Tabs : bounces[t] <= 1
================================================================================
