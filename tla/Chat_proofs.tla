------------------------------ MODULE Chat_proofs ------------------------------
(***************************************************************************)
(* Proofs about the chat window, the session of the browser with its        *)
(* redirects, and the history of conversations, for every number of         *)
(* questions, tabs, tokens and conversations.                               *)
(***************************************************************************)
EXTENDS ChatWindow, WebSession, Conversations, TLAPS

--------------------------------------------------------------------------------
(* One reply to each question, and no stream left behind.  A stream is      *)
(* settled once it has had its reply, and while nothing overlapped the abort*)
(* handle is that of the only stream that runs.                             *)

Stream == [at : {"new", "sent", "open", "told", "failed", "over"}, settled : BOOLEAN,
           aborted : BOOLEAN, replies : Nat]

WindowTypes ==
  /\ stream \in [Questions -> Stream]
  /\ loading \in BOOLEAN /\ mounted \in BOOLEAN /\ overlapped \in BOOLEAN

\* A stream has had a reply when it is settled, and ends settled or aborted.
SettledOnce ==
  \A q \in Questions :
    /\ stream[q].replies = IF stream[q].settled THEN 1 ELSE 0
    /\ stream[q].settled => stream[q].at \in {"failed", "over"}
    /\ stream[q].at = "failed" => stream[q].settled
    /\ stream[q].at = "over" => stream[q].settled \/ stream[q].aborted

WindowInv == WindowTypes /\ SettledOnce /\ LeavingStopsStreams

LEMMA WindowInitially == WindowInit => WindowInv
<1> SUFFICES ASSUME WindowInit PROVE WindowInv
  OBVIOUS
<1>1. NewStream \in Stream /\ NewStream.at = "new" /\ NewStream.settled = FALSE /\ NewStream.replies = 0
  BY DEF NewStream, Stream
<1>2. \A q \in Questions : stream[q] = NewStream
  BY DEF WindowInit
<1>3. WindowTypes
  BY <1>1 DEF WindowInit, WindowTypes
<1>4. SettledOnce
  BY <1>1, <1>2 DEF SettledOnce
<1>5. LeavingStopsStreams
  BY <1>1, <1>2 DEF LeavingStopsStreams, Running
<1> QED
  BY <1>3, <1>4, <1>5 DEF WindowInv

\* A settled end: nothing more, or the reply.
LEMMA SettleType ==
  ASSUME WindowInv, NEW q \in Questions, NEW author, Settle(q, author)
  PROVE  stream' \in [Questions -> Stream]
<1>1. CASE stream[q].settled
  BY <1>1 DEF Settle, Goes, WindowInv, WindowTypes, Stream
<1>2. CASE ~stream[q].settled
  <2>1. stream' = [stream EXCEPT ![q].at = "over", ![q].settled = TRUE, ![q].replies = @ + 1]
    BY <1>2 DEF Settle
  <2> QED
    BY <2>1 DEF WindowInv, WindowTypes, Stream
<1> QED
  BY <1>1, <1>2

LEMMA WindowTypesStep == WindowInv /\ [WindowNext]_windowVars => WindowTypes'
<1> SUFFICES ASSUME WindowInv, [WindowNext]_windowVars PROVE WindowTypes'
  OBVIOUS
<1> USE DEF WindowInv, WindowTypes, Stream, Goes
<1>1. ASSUME NEW q \in Questions, Send(q), overlapped' \in BOOLEAN PROVE WindowTypes'
  BY <1>1 DEF Send
<1>2. ASSUME NEW q \in Questions, TypeQuestion(q) PROVE WindowTypes'
  BY <1>1, <1>2 DEF TypeQuestion
<1>3. ASSUME NEW q \in Questions, PickSuggestion(q) PROVE WindowTypes'
  BY <1>1, <1>3 DEF PickSuggestion
<1>4. ASSUME NEW q \in Questions, OpenStream(q) PROVE WindowTypes'
  BY <1>4 DEF OpenStream
<1>5. ASSUME NEW q \in Questions, ReadToken(q) PROVE WindowTypes'
  BY <1>5 DEF ReadToken
<1>6. ASSUME NEW q \in Questions, ReadError(q) PROVE WindowTypes'
  BY <1>6 DEF ReadError
<1>7. ASSUME NEW q \in Questions, ReadEnd(q) PROVE WindowTypes'
  BY <1>7, SettleType DEF ReadEnd, StreamEnds
<1>8. ASSUME NEW q \in Questions, StreamFails(q) PROVE WindowTypes'
  BY <1>8, SettleType DEF StreamFails, StreamEnds
<1>9. ASSUME NEW q \in Questions, AbortArrives(q) PROVE WindowTypes'
  BY <1>9 DEF AbortArrives, StreamEnds
<1>10. CASE Clear
  BY <1>10 DEF Clear
<1>11. CASE LeavePage
  BY <1>11 DEF LeavePage
<1>12. CASE UNCHANGED windowVars
  BY <1>12 DEF windowVars
<1> QED
  BY <1>2, <1>3, <1>4, <1>5, <1>6, <1>7, <1>8, <1>9, <1>10, <1>11, <1>12 DEF WindowNext

LEMMA SettledStep == WindowInv /\ [WindowNext]_windowVars => SettledOnce'
<1> SUFFICES ASSUME WindowInv, [WindowNext]_windowVars PROVE SettledOnce'
  OBVIOUS
<1> USE DEF WindowInv, WindowTypes, Stream, SettledOnce, Goes
<1>1. ASSUME NEW q \in Questions, Send(q) PROVE SettledOnce'
  BY <1>1 DEF Send
<1>2. ASSUME NEW q \in Questions, TypeQuestion(q) \/ PickSuggestion(q) PROVE SettledOnce'
  BY <1>1, <1>2 DEF TypeQuestion, PickSuggestion
<1>3. ASSUME NEW q \in Questions, OpenStream(q) PROVE SettledOnce'
  BY <1>3 DEF OpenStream
<1>4. ASSUME NEW q \in Questions, ReadToken(q) PROVE SettledOnce'
  BY <1>4 DEF ReadToken
<1>5. ASSUME NEW q \in Questions, ReadError(q) PROVE SettledOnce'
  BY <1>5 DEF ReadError
<1>6. ASSUME NEW q \in Questions, ReadEnd(q) PROVE SettledOnce'
  BY <1>6 DEF ReadEnd, Settle
<1>7. ASSUME NEW q \in Questions, StreamFails(q) PROVE SettledOnce'
  BY <1>7 DEF StreamFails, Settle, Running
<1>8. ASSUME NEW q \in Questions, AbortArrives(q) PROVE SettledOnce'
  BY <1>8 DEF AbortArrives, Running
<1>9. CASE Clear
  BY <1>9 DEF Clear
<1>10. CASE LeavePage
  BY <1>10 DEF LeavePage
<1>11. CASE UNCHANGED windowVars
  BY <1>11 DEF windowVars
<1> QED
  BY <1>2, <1>3, <1>4, <1>5, <1>6, <1>7, <1>8, <1>9, <1>10, <1>11 DEF WindowNext

\* While nothing overlapped and the page is open, one stream runs at most.
LEMMA OneRuns ==
  ASSUME WindowInv, ~overlapped, mounted, NEW q \in Questions, NEW p \in Questions, Running(q), Running(p)
  PROVE  p = q /\ loading
BY DEF WindowInv, LeavingStopsStreams

LEMMA LeavingStep == WindowInv /\ [WindowNext]_windowVars => LeavingStopsStreams'
<1> SUFFICES ASSUME WindowInv, [WindowNext]_windowVars, ~overlapped' PROVE LeavingStopsStreams'
  BY DEF LeavingStopsStreams
<1> USE DEF WindowInv, WindowTypes, Stream, Goes, LeavingStopsStreams, Running
<1>1. ASSUME NEW q \in Questions, TypeQuestion(q) PROVE LeavingStopsStreams'
  BY <1>1 DEF TypeQuestion, Send
<1>2. ASSUME NEW q \in Questions, PickSuggestion(q) PROVE LeavingStopsStreams'
  BY <1>2 DEF PickSuggestion, Send
<1>3. ASSUME NEW q \in Questions, OpenStream(q) PROVE LeavingStopsStreams'
  BY <1>3 DEF OpenStream
<1>4. ASSUME NEW q \in Questions, ReadToken(q) PROVE LeavingStopsStreams'
  BY <1>4 DEF ReadToken
<1>5. ASSUME NEW q \in Questions, ReadError(q) PROVE LeavingStopsStreams'
  BY <1>5 DEF ReadError
<1>6. ASSUME NEW q \in Questions, ReadEnd(q) PROVE LeavingStopsStreams'
  BY <1>6, OneRuns DEF ReadEnd, Settle, StreamEnds
<1>7. ASSUME NEW q \in Questions, StreamFails(q) PROVE LeavingStopsStreams'
  BY <1>7, OneRuns DEF StreamFails, Settle, StreamEnds
<1>8. ASSUME NEW q \in Questions, AbortArrives(q) PROVE LeavingStopsStreams'
  BY <1>8, OneRuns DEF AbortArrives, StreamEnds
<1>9. CASE Clear
  BY <1>9 DEF Clear
<1>10. CASE LeavePage
  BY <1>10 DEF LeavePage
<1>11. CASE UNCHANGED windowVars
  BY <1>11 DEF windowVars
<1> QED
  BY <1>1, <1>2, <1>3, <1>4, <1>5, <1>6, <1>7, <1>8, <1>9, <1>10, <1>11 DEF WindowNext

(* A question gets one reply, however its stream ends (the settled flag of
   sendChatMessage), for any number of questions. *)
THEOREM RepliesAreSingle == WindowSpec => []AnsweredOnce
<1>1. ASSUME WindowInv PROVE AnsweredOnce
  <2> SUFFICES ASSUME NEW q \in Questions
               PROVE  /\ stream[q].replies <= 1
                      /\ stream[q].at = "over" /\ ~stream[q].aborted => stream[q].replies = 1
    BY DEF AnsweredOnce
  <2>1. CASE stream[q].settled
    BY <1>1, <2>1 DEF WindowInv, SettledOnce
  <2>2. CASE ~stream[q].settled
    <3>1. stream[q].replies = 0
      BY <1>1, <2>2 DEF WindowInv, SettledOnce
    <3>2. stream[q].at = "over" => stream[q].aborted
      BY <1>1, <2>2, Zenon DEF WindowInv, SettledOnce
    <3> QED
      BY <3>1, <3>2
  <2> QED
    BY <2>1, <2>2
<1>2. WindowInv /\ [WindowNext]_windowVars => WindowInv'
  BY WindowTypesStep, SettledStep, LeavingStep DEF WindowInv
<1> QED
  BY <1>1, <1>2, WindowInitially, PTL DEF WindowSpec

(* An open page keeps the abort handle of the stream that runs, and a page that was left
   has aborted it (the effect of ChatInterface that runs when it unmounts). *)
THEOREM StreamsStop == WindowSpec => []LeavingStopsStreams
<1>1. WindowInv => LeavingStopsStreams
  BY DEF WindowInv
<1>2. WindowInv /\ [WindowNext]_windowVars => WindowInv'
  BY WindowTypesStep, SettledStep, LeavingStep DEF WindowInv
<1> QED
  BY <1>1, <1>2, WindowInitially, PTL DEF WindowSpec

--------------------------------------------------------------------------------
(* An outage costs the browser no token.  The tokens are cleared by a check *)
(* that found none, by a logout, and by a refresh that failed; and a refresh*)
(* is only ever tried after the server refused a token.                     *)

Pages == {"login", "app"}
Checks == {"none", "start", "asked", "renew", "renewed"}
FormSteps == {"none", "login", "code", "verified", "logout"}

TabStates == [page : Pages, user : BOOLEAN, loading : BOOLEAN, check : Checks, form : FormSteps, token : Nat]

WebTypes ==
  /\ localToken \in Nat /\ jar \in Nat /\ pairs \in Nat
  /\ tab \in [Tabs -> TabStates]
  /\ excused \in BOOLEAN

\* A tab refreshes only what was refused, and waits for a token that exists.
RefusedFirst ==
  \A t \in Tabs :
    /\ tab[t].check \in {"renew", "renewed"} => excused
    /\ tab[t].check = "renewed" => tab[t].token # 0

WebInv == WebTypes /\ RefusedFirst /\ OutageKeepsTokens

LEMMA NewTabType == ASSUME NEW page \in Pages PROVE NewTab(page) \in TabStates /\ NewTab(page).check = "start"
BY DEF NewTab, TabStates, Pages, Checks, FormSteps

LEMMA LandedType == \A page : Landed(page) \in Pages
BY DEF Landed, Pages

\* What a check that ends leaves in its tab.
LEMMA SetsType ==
  ASSUME tab \in [Tabs -> TabStates], NEW t \in Tabs, NEW user \in BOOLEAN, NEW busy \in BOOLEAN,
         NEW check \in Checks, Sets(t, user, busy, check)
  PROVE  tab' \in [Tabs -> TabStates]
<1> DEFINE g == [tab EXCEPT ![t].user = user, ![t].loading = busy]
<1>1. g \in [Tabs -> TabStates]
  BY DEF TabStates
<1>2. tab' = [g EXCEPT ![t].check = check, ![t].token = 0]
  BY DEF Sets
<1> HIDE DEF g
<1>3. PICK e \in TabStates : e = g[t]
  BY <1>1
<1>4. [e EXCEPT !.check = check, !.token = 0] \in TabStates
  BY DEF TabStates
<1>5. tab' = [g EXCEPT ![t] = [e EXCEPT !.check = check, !.token = 0]]
  BY <1>1, <1>2, <1>3
<1> QED BY <1>1, <1>4, <1>5

LEMMA WebInitially == WebInit => WebInv
<1> SUFFICES ASSUME WebInit PROVE WebInv
  OBVIOUS
<1>1. NewTab("login") \in TabStates /\ NewTab("login").check = "start"
  BY NewTabType DEF Pages
<1>2. tab \in [Tabs -> TabStates] /\ \A t \in Tabs : tab[t].check = "start"
  BY <1>1 DEF WebInit
<1>3. WebTypes
  BY <1>2 DEF WebInit, WebTypes
<1>4. RefusedFirst
  BY <1>2 DEF RefusedFirst
<1>5. OutageKeepsTokens
  BY DEF WebInit, OutageKeepsTokens
<1> QED
  BY <1>3, <1>4, <1>5 DEF WebInv

\* The tabs keep their type.
LEMMA TabsStep == WebInv /\ [WebNext]_webVars => tab' \in [Tabs -> TabStates]
<1> SUFFICES ASSUME WebInv, [WebNext]_webVars PROVE tab' \in [Tabs -> TabStates]
  OBVIOUS
<1>t. tab \in [Tabs -> TabStates] /\ localToken \in Nat /\ jar \in Nat /\ pairs \in Nat
  BY DEF WebInv, WebTypes
<1>u. \A t \in Tabs : tab[t].user \in BOOLEAN
  BY <1>t DEF TabStates
<1>c. \A c \in {"none", "start", "asked", "renew", "renewed"} : c \in Checks
  BY DEF Checks
<1>f. \A f \in {"none", "login", "code", "verified", "logout"} : f \in FormSteps
  BY DEF FormSteps
<1>1. ASSUME NEW t \in Tabs, OpenPage(t) \/ Redirect(t) PROVE tab' \in [Tabs -> TabStates]
  BY <1>1, <1>t, NewTabType, LandedType DEF OpenPage, Redirect
<1>2. ASSUME NEW t \in Tabs, FetchWithoutToken(t) \/ FetchOk(t) \/ FetchOutage(t) \/ RenewFails(t)
      PROVE  tab' \in [Tabs -> TabStates]
  BY <1>2, <1>t, <1>u, <1>c, SetsType DEF FetchWithoutToken, FetchOk, FetchOutage, RenewFails
<1>3. ASSUME NEW t \in Tabs, FetchUser(t) PROVE tab' \in [Tabs -> TabStates]
  <2>2. "asked" \in Checks
    BY <1>c, <1>f
  <2>3. tab' = [tab EXCEPT ![t].check = "asked", ![t].token = localToken]
    BY <1>3 DEF FetchUser
  <2> QED
    BY <2>2, <2>3, <1>t DEF TabStates
<1>4. ASSUME NEW t \in Tabs, FetchRefused(t) PROVE tab' \in [Tabs -> TabStates]
  <2>2. "renew" \in Checks
    BY <1>c, <1>f
  <2>3. tab' = [tab EXCEPT ![t].check = "renew", ![t].token = jar]
    BY <1>4 DEF FetchRefused
  <2> QED
    BY <2>2, <2>3, <1>t DEF TabStates
<1>5. ASSUME NEW t \in Tabs, RenewServed(t) PROVE tab' \in [Tabs -> TabStates]
  <2>1. pairs' \in Nat
    BY <1>5, <1>t DEF RenewServed
  <2>2. "renewed" \in Checks
    BY <1>c, <1>f
  <2>3. tab' = [tab EXCEPT ![t].check = "renewed", ![t].token = pairs']
    BY <1>5 DEF RenewServed
  <2> QED
    BY <2>2, <2>3, <1>t, <2>1 DEF TabStates
<1>6. ASSUME NEW t \in Tabs, RenewArrives(t) PROVE tab' \in [Tabs -> TabStates]
  <2>2. "start" \in Checks
    BY <1>c, <1>f
  <2>3. tab' = [tab EXCEPT ![t].check = "start", ![t].token = 0]
    BY <1>6 DEF RenewArrives
  <2> QED
    BY <2>2, <2>3, <1>t DEF TabStates
<1>7. ASSUME NEW t \in Tabs, RefreshUser(t) PROVE tab' \in [Tabs -> TabStates]
  <2>2. "start" \in Checks
    BY <1>c, <1>f
  <2>3. tab' = [tab EXCEPT ![t].check = "start"]
    BY <1>7 DEF RefreshUser
  <2> QED
    BY <2>2, <2>3, <1>t DEF TabStates
<1>8. ASSUME NEW t \in Tabs, SubmitLogin(t) PROVE tab' \in [Tabs -> TabStates]
  <2>2. "login" \in FormSteps
    BY <1>c, <1>f
  <2>3. tab' = [tab EXCEPT ![t].form = "login", ![t].loading = TRUE]
    BY <1>8 DEF SubmitLogin, Submits, Submit
  <2> QED
    BY <2>2, <2>3, <1>t DEF TabStates
<1>9. ASSUME NEW t \in Tabs, SubmitCode(t) PROVE tab' \in [Tabs -> TabStates]
  <2>2. "code" \in FormSteps
    BY <1>c, <1>f
  <2>3. tab' = [tab EXCEPT ![t].form = "code", ![t].loading = TRUE]
    BY <1>9 DEF SubmitCode, Submits, Submit
  <2> QED
    BY <2>2, <2>3, <1>t DEF TabStates
<1>10. ASSUME NEW t \in Tabs, FormFails(t) PROVE tab' \in [Tabs -> TabStates]
  <2>2. "none" \in FormSteps
    BY <1>c, <1>f
  <2>3. tab' = [tab EXCEPT ![t].form = "none", ![t].loading = FALSE]
    BY <1>10 DEF FormFails
  <2> QED
    BY <2>2, <2>3, <1>t DEF TabStates
<1>11. ASSUME NEW t \in Tabs, VerifyOk(t) PROVE tab' \in [Tabs -> TabStates]
  <2>2. "verified" \in FormSteps /\ "start" \in Checks
    BY <1>c, <1>f
  <2>3. tab' = [tab EXCEPT ![t].form = "verified", ![t].check = "start"]
    BY <1>11 DEF VerifyOk
  <2> QED
    BY <2>2, <2>3, <1>t DEF TabStates
<1>12. ASSUME NEW t \in Tabs, CompleteOnboarding(t) PROVE tab' \in [Tabs -> TabStates]
  <2>2. "none" \in FormSteps
    BY <1>c, <1>f
  <2>3. tab' = [tab EXCEPT ![t].loading = FALSE]
    BY <1>12 DEF CompleteOnboarding
  <2> QED
    BY <2>2, <2>3, <1>t DEF TabStates
<1>13. ASSUME NEW t \in Tabs, SubmitLogout(t) PROVE tab' \in [Tabs -> TabStates]
  <2>2. "logout" \in FormSteps
    BY <1>c, <1>f
  <2>3. tab' = [tab EXCEPT ![t].form = "logout"]
    BY <1>13 DEF SubmitLogout
  <2> QED
    BY <2>2, <2>3, <1>t DEF TabStates
<1>14. ASSUME NEW t \in Tabs, Logout(t) PROVE tab' \in [Tabs -> TabStates]
  <2>2. "none" \in FormSteps
    BY <1>c, <1>f
  <2>3. tab' = [tab EXCEPT ![t].form = "none", ![t].user = FALSE]
    BY <1>14 DEF Logout
  <2> QED
    BY <2>2, <2>3, <1>t DEF TabStates
<1>15. ASSUME NEW t \in Tabs, LoginOk(t) PROVE tab' \in [Tabs -> TabStates]
  <2> DEFINE g == [tab EXCEPT ![t].form = "none", ![t].user = TRUE]
  <2>1. "none" \in FormSteps /\ "app" \in Pages
    BY <1>f DEF Pages
  <2>2. g \in [Tabs -> TabStates]
    BY <1>t, <2>1 DEF TabStates
  <2>3. tab' = [g EXCEPT ![t].loading = FALSE, ![t].page = "app"]
    BY <1>15 DEF LoginOk
  <2> HIDE DEF g
  <2> QED
    BY <2>1, <2>2, <2>3 DEF TabStates
<1>16. ASSUME NEW t \in Tabs, Verified(t) PROVE tab' \in [Tabs -> TabStates]
  <2> DEFINE g == [tab EXCEPT ![t].form = "none", ![t].page = Landed("app")]
  <2>1. "none" \in FormSteps /\ Landed("app") \in Pages
    BY <1>f, LandedType
  <2>2. g \in [Tabs -> TabStates]
    BY <1>t, <2>1 DEF TabStates
  <2>3. tab' = [g EXCEPT ![t].loading = FALSE]
    BY <1>16 DEF Verified
  <2> HIDE DEF g
  <2> QED
    BY <2>2, <2>3 DEF TabStates
<1>17. CASE AccessExpires \/ RefreshExpires \/ Evicted \/ AuthStateExpires \/ UNCHANGED webVars
  BY <1>t, <1>17 DEF AccessExpires, RefreshExpires, Evicted, AuthStateExpires, webVars
<1> QED
  BY <1>1, <1>2, <1>3, <1>4, <1>5, <1>6, <1>7, <1>8, <1>9, <1>10, <1>11, <1>12, <1>13, <1>14, <1>15, <1>16, <1>17 DEF WebNext

LEMMA WebTypesStep == WebInv /\ [WebNext]_webVars => WebTypes'
<1> SUFFICES ASSUME WebInv, [WebNext]_webVars PROVE WebTypes'
  OBVIOUS
<1>1. tab' \in [Tabs -> TabStates]
  BY TabsStep
<1>2. tab \in [Tabs -> TabStates] /\ localToken \in Nat /\ jar \in Nat /\ pairs \in Nat /\ excused \in BOOLEAN
  BY DEF WebInv, WebTypes
<1>3. \A t \in Tabs : tab[t].token \in Nat
  BY <1>2 DEF TabStates
<1> DEFINE Typed == localToken \in Nat /\ jar \in Nat /\ pairs \in Nat /\ excused \in BOOLEAN
<1>4. ASSUME NEW t \in Tabs,
             OpenPage(t) \/ Redirect(t) \/ FetchUser(t) \/ FetchOk(t) \/ FetchRefused(t) \/ FetchOutage(t)
       PROVE  Typed'
  BY <1>2, <1>3, <1>4 DEF OpenPage, Redirect, FetchUser, FetchOk, FetchRefused, FetchOutage, browserVars, serverVars
<1>5. ASSUME NEW t \in Tabs,
             RefreshUser(t) \/ SubmitLogin(t) \/ SubmitCode(t) \/ Verified(t) \/ FormFails(t) \/ SubmitLogout(t)
       PROVE  Typed'
  BY <1>2, <1>3, <1>5 DEF RefreshUser, SubmitLogin, SubmitCode, Verified, FormFails, SubmitLogout, Submits, browserVars, serverVars
<1>6. ASSUME NEW t \in Tabs,
             FetchWithoutToken(t) \/ RenewFails(t)
       PROVE  Typed'
  <2>1. CASE FetchWithoutToken(t)
    BY <1>2, <2>1 DEF FetchWithoutToken, ClearTokens, serverVars
  <2>2. CASE RenewFails(t)
    BY <1>2, <2>2 DEF RenewFails, ClearTokens, serverVars
  <2> QED
    BY <1>6, <2>1, <2>2
<1>7. ASSUME NEW t \in Tabs,
             RenewServed(t)
       PROVE  Typed'
  BY <1>2, <1>3, <1>7 DEF RenewServed
<1>8. ASSUME NEW t \in Tabs,
             RenewArrives(t)
       PROVE  Typed'
  BY <1>2, <1>3, <1>8 DEF RenewArrives, SetTokens, serverVars
<1>9. ASSUME NEW t \in Tabs,
             LoginOk(t)
       PROVE  Typed'
  BY <1>2, <1>3, <1>9 DEF LoginOk, SetTokens, Issue
<1>10. ASSUME NEW t \in Tabs,
             VerifyOk(t)
       PROVE  Typed'
  BY <1>2, <1>3, <1>10 DEF VerifyOk, SetTokens, Issue
<1>11. ASSUME NEW t \in Tabs,
             CompleteOnboarding(t)
       PROVE  Typed'
  BY <1>2, <1>3, <1>11 DEF CompleteOnboarding, SetTokens, Issue
<1>12. ASSUME NEW t \in Tabs,
             Logout(t)
       PROVE  Typed'
  BY <1>2, <1>3, <1>12 DEF Logout
<1>13. ASSUME AccessExpires \/ RefreshExpires PROVE Typed'
  BY <1>2, <1>13 DEF AccessExpires, RefreshExpires, browserVars
<1>14. ASSUME Evicted PROVE Typed'
  BY <1>2, <1>14 DEF Evicted, serverVars
<1>15. ASSUME AuthStateExpires PROVE Typed'
  BY <1>2, <1>15 DEF AuthStateExpires, serverVars
<1>16. ASSUME UNCHANGED webVars PROVE Typed'
  BY <1>2, <1>16 DEF webVars, browserVars, serverVars
<1>17. Typed'
  <2> HIDE DEF Typed
  <2> QED
    BY <1>4, <1>5, <1>6, <1>7, <1>8, <1>9, <1>10, <1>11, <1>12, <1>13, <1>14, <1>15, <1>16 DEF WebNext
<1> QED
  BY <1>1, <1>17 DEF WebTypes

LEMMA RefusedFirstStep == WebInv /\ [WebNext]_webVars => RefusedFirst'
<1> SUFFICES ASSUME WebInv, [WebNext]_webVars PROVE RefusedFirst'
  OBVIOUS
<1> USE DEF WebInv, WebTypes, TabStates, Pages, Checks, FormSteps, RefusedFirst
<1>1. ASSUME NEW t \in Tabs, OpenPage(t) PROVE RefusedFirst'
  BY <1>1 DEF OpenPage, NewTab, Landed, browserVars, serverVars
<1>2. ASSUME NEW t \in Tabs, Redirect(t) PROVE RefusedFirst'
  BY <1>2 DEF Redirect, NewTab, Landed, browserVars, serverVars
<1>3. ASSUME NEW t \in Tabs, FetchWithoutToken(t) PROVE RefusedFirst'
  BY <1>3 DEF FetchWithoutToken, ClearTokens, Sets, Checking, serverVars
<1>4. ASSUME NEW t \in Tabs, FetchUser(t) PROVE RefusedFirst'
  BY <1>4 DEF FetchUser, Checking, browserVars, serverVars
<1>5. ASSUME NEW t \in Tabs, FetchOk(t) PROVE RefusedFirst'
  BY <1>5 DEF FetchOk, Sets, Checking, browserVars, serverVars
<1>6. ASSUME NEW t \in Tabs, FetchRefused(t) PROVE RefusedFirst'
  BY <1>6 DEF FetchRefused, Checking, browserVars, serverVars
<1>7. ASSUME NEW t \in Tabs, FetchOutage(t) PROVE RefusedFirst'
  BY <1>7 DEF FetchOutage, Sets, Checking, browserVars, serverVars
<1>8. ASSUME NEW t \in Tabs, RenewServed(t) PROVE RefusedFirst'
  BY <1>8 DEF RenewServed, Checking
<1>9. ASSUME NEW t \in Tabs, RenewArrives(t) PROVE RefusedFirst'
  BY <1>9 DEF RenewArrives, SetTokens, Checking, serverVars
<1>10. ASSUME NEW t \in Tabs, RenewFails(t) PROVE RefusedFirst'
  BY <1>10 DEF RenewFails, ClearTokens, Sets, Checking, serverVars
<1>11. ASSUME NEW t \in Tabs, RefreshUser(t) PROVE RefusedFirst'
  BY <1>11 DEF RefreshUser, Checking, browserVars, serverVars
<1>12. ASSUME NEW t \in Tabs, SubmitLogin(t) PROVE RefusedFirst'
  BY <1>12 DEF SubmitLogin, Submits, Submit, browserVars, serverVars
<1>13. ASSUME NEW t \in Tabs, SubmitCode(t) PROVE RefusedFirst'
  BY <1>13 DEF SubmitCode, Submits, Submit, browserVars, serverVars
<1>14. ASSUME NEW t \in Tabs, LoginOk(t) PROVE RefusedFirst'
  BY <1>14 DEF LoginOk, Issue, SetTokens
<1>15. ASSUME NEW t \in Tabs, VerifyOk(t) PROVE RefusedFirst'
  BY <1>15 DEF VerifyOk, Issue, SetTokens, Checking
<1>16. ASSUME NEW t \in Tabs, Verified(t) PROVE RefusedFirst'
  BY <1>16 DEF Verified, Landed, Checking, browserVars, serverVars
<1>17. ASSUME NEW t \in Tabs, CompleteOnboarding(t) PROVE RefusedFirst'
  BY <1>17 DEF CompleteOnboarding, Issue, SetTokens
<1>18. ASSUME NEW t \in Tabs, FormFails(t) PROVE RefusedFirst'
  BY <1>18 DEF FormFails, browserVars, serverVars
<1>19. ASSUME NEW t \in Tabs, SubmitLogout(t) PROVE RefusedFirst'
  BY <1>19 DEF SubmitLogout, browserVars, serverVars
<1>20. ASSUME NEW t \in Tabs, Logout(t) PROVE RefusedFirst'
  BY <1>20 DEF Logout
<1>21. CASE AccessExpires
  BY <1>21 DEF AccessExpires, browserVars
<1>22. CASE RefreshExpires
  BY <1>22 DEF RefreshExpires, browserVars
<1>23. CASE Evicted
  BY <1>23 DEF Evicted, serverVars
<1>24. CASE AuthStateExpires
  BY <1>24 DEF AuthStateExpires, serverVars
<1>25. CASE UNCHANGED webVars
  BY <1>25 DEF webVars, browserVars, serverVars
<1> QED
  BY <1>1, <1>2, <1>3, <1>4, <1>5, <1>6, <1>7, <1>8, <1>9, <1>10, <1>11, <1>12, <1>13,
     <1>14, <1>15, <1>16, <1>17, <1>18, <1>19, <1>20, <1>21, <1>22, <1>23, <1>24, <1>25 DEF WebNext

LEMMA OutageStep == WebInv /\ [WebNext]_webVars => OutageKeepsTokens'
<1> SUFFICES ASSUME WebInv, [WebNext]_webVars PROVE OutageKeepsTokens'
  OBVIOUS
<1> USE DEF WebInv, WebTypes, RefusedFirst, OutageKeepsTokens
<1>1. ASSUME NEW t \in Tabs, OpenPage(t) PROVE OutageKeepsTokens'
  BY <1>1 DEF OpenPage, NewTab, Landed, browserVars, serverVars
<1>2. ASSUME NEW t \in Tabs, Redirect(t) PROVE OutageKeepsTokens'
  BY <1>2 DEF Redirect, NewTab, Landed, browserVars, serverVars
<1>3. ASSUME NEW t \in Tabs, FetchWithoutToken(t) PROVE OutageKeepsTokens'
  BY <1>3 DEF FetchWithoutToken, ClearTokens, Sets, Checking, serverVars
<1>4. ASSUME NEW t \in Tabs, FetchUser(t) PROVE OutageKeepsTokens'
  BY <1>4 DEF FetchUser, Checking, browserVars, serverVars
<1>5. ASSUME NEW t \in Tabs, FetchOk(t) PROVE OutageKeepsTokens'
  BY <1>5 DEF FetchOk, Sets, Checking, browserVars, serverVars
<1>6. ASSUME NEW t \in Tabs, FetchRefused(t) PROVE OutageKeepsTokens'
  BY <1>6 DEF FetchRefused, Checking, browserVars, serverVars
<1>7. ASSUME NEW t \in Tabs, FetchOutage(t) PROVE OutageKeepsTokens'
  BY <1>7 DEF FetchOutage, Sets, Checking, browserVars, serverVars
<1>8. ASSUME NEW t \in Tabs, RenewServed(t) PROVE OutageKeepsTokens'
  BY <1>8 DEF RenewServed, Checking
<1>9. ASSUME NEW t \in Tabs, RenewArrives(t) PROVE OutageKeepsTokens'
  BY <1>9 DEF RenewArrives, SetTokens, Checking, serverVars
<1>10. ASSUME NEW t \in Tabs, RenewFails(t) PROVE OutageKeepsTokens'
  BY <1>10 DEF RenewFails, ClearTokens, Sets, Checking, serverVars
<1>11. ASSUME NEW t \in Tabs, RefreshUser(t) PROVE OutageKeepsTokens'
  BY <1>11 DEF RefreshUser, Checking, browserVars, serverVars
<1>12. ASSUME NEW t \in Tabs, SubmitLogin(t) PROVE OutageKeepsTokens'
  BY <1>12 DEF SubmitLogin, Submits, Submit, browserVars, serverVars
<1>13. ASSUME NEW t \in Tabs, SubmitCode(t) PROVE OutageKeepsTokens'
  BY <1>13 DEF SubmitCode, Submits, Submit, browserVars, serverVars
<1>14. ASSUME NEW t \in Tabs, LoginOk(t) PROVE OutageKeepsTokens'
  BY <1>14 DEF LoginOk, Issue, SetTokens
<1>15. ASSUME NEW t \in Tabs, VerifyOk(t) PROVE OutageKeepsTokens'
  BY <1>15 DEF VerifyOk, Issue, SetTokens, Checking
<1>16. ASSUME NEW t \in Tabs, Verified(t) PROVE OutageKeepsTokens'
  BY <1>16 DEF Verified, Landed, Checking, browserVars, serverVars
<1>17. ASSUME NEW t \in Tabs, CompleteOnboarding(t) PROVE OutageKeepsTokens'
  BY <1>17 DEF CompleteOnboarding, Issue, SetTokens
<1>18. ASSUME NEW t \in Tabs, FormFails(t) PROVE OutageKeepsTokens'
  BY <1>18 DEF FormFails, browserVars, serverVars
<1>19. ASSUME NEW t \in Tabs, SubmitLogout(t) PROVE OutageKeepsTokens'
  BY <1>19 DEF SubmitLogout, browserVars, serverVars
<1>20. ASSUME NEW t \in Tabs, Logout(t) PROVE OutageKeepsTokens'
  BY <1>20 DEF Logout
<1>21. CASE AccessExpires
  BY <1>21 DEF AccessExpires, browserVars
<1>22. CASE RefreshExpires
  BY <1>22 DEF RefreshExpires, browserVars
<1>23. CASE Evicted
  BY <1>23 DEF Evicted, serverVars
<1>24. CASE AuthStateExpires
  BY <1>24 DEF AuthStateExpires, serverVars
<1>25. CASE UNCHANGED webVars
  BY <1>25 DEF webVars, browserVars, serverVars
<1> QED
  BY <1>1, <1>2, <1>3, <1>4, <1>5, <1>6, <1>7, <1>8, <1>9, <1>10, <1>11, <1>12, <1>13,
     <1>14, <1>15, <1>16, <1>17, <1>18, <1>19, <1>20, <1>21, <1>22, <1>23, <1>24, <1>25 DEF WebNext

(* Once the browser was given a token it keeps one, however often the server cannot be
   reached, unless the server refused a token, a tab logged out, or the browser dropped
   its storage (fetchUser's catch branch), for any number of tabs. *)
THEOREM TokensSurviveOutages == WebSpec => []OutageKeepsTokens
<1>1. WebInv => OutageKeepsTokens
  BY DEF WebInv
<1>2. WebInv /\ [WebNext]_webVars => WebInv'
  BY WebTypesStep, RefusedFirstStep, OutageStep DEF WebInv
<1> QED
  BY <1>1, <1>2, WebInitially, PTL DEF WebSpec

--------------------------------------------------------------------------------
(* No redirect loop.  A tab sent back from /login has its check before it,  *)
(* and a check that ends without a user takes the cookie with it, unless it *)
(* met an outage.  A form belongs to /login, and a code accepted begins the *)
(* count anew.                                                              *)

RedirectsSound ==
  /\ bounces \in [Tabs -> {0, 1}] /\ authState \in BOOLEAN
  /\ \A t \in Tabs :
       /\ tab[t].form \in {"login", "code", "verified"} => tab[t].page = "login"
       /\ tab[t].form = "verified" => bounces[t] = 0
       /\ bounces[t] = 1 /\ authState /\ tab[t].page = "app" /\ ~tab[t].user => tab[t].loading

LEMMA RedirectsStep == WebInv /\ RedirectsSound /\ [WebNext]_webVars => RedirectsSound'
<1> SUFFICES ASSUME WebInv, RedirectsSound, [WebNext]_webVars PROVE RedirectsSound'
  OBVIOUS
<1> USE DEF WebInv, WebTypes, TabStates, RedirectsSound
<1>1. ASSUME NEW t \in Tabs, OpenPage(t) PROVE RedirectsSound'
  BY <1>1 DEF OpenPage, NewTab, Landed, browserVars, serverVars
<1>2. ASSUME NEW t \in Tabs, Redirect(t) PROVE RedirectsSound'
  BY <1>2 DEF Redirect, NewTab, Landed, browserVars, serverVars
<1>3. ASSUME NEW t \in Tabs, FetchWithoutToken(t) PROVE RedirectsSound'
  BY <1>3 DEF FetchWithoutToken, ClearTokens, Sets, Checking, serverVars
<1>4. ASSUME NEW t \in Tabs, FetchUser(t) PROVE RedirectsSound'
  BY <1>4 DEF FetchUser, Checking, browserVars, serverVars
<1>5. ASSUME NEW t \in Tabs, FetchOk(t) PROVE RedirectsSound'
  BY <1>5 DEF FetchOk, Sets, Checking, browserVars, serverVars
<1>6. ASSUME NEW t \in Tabs, FetchRefused(t) PROVE RedirectsSound'
  BY <1>6 DEF FetchRefused, Checking, browserVars, serverVars
<1>7. ASSUME NEW t \in Tabs, FetchOutage(t) PROVE RedirectsSound'
  BY <1>7 DEF FetchOutage, Sets, Checking, browserVars, serverVars
<1>8. ASSUME NEW t \in Tabs, RenewServed(t) PROVE RedirectsSound'
  BY <1>8 DEF RenewServed, Checking
<1>9. ASSUME NEW t \in Tabs, RenewArrives(t) PROVE RedirectsSound'
  BY <1>9 DEF RenewArrives, SetTokens, Checking, serverVars
<1>10. ASSUME NEW t \in Tabs, RenewFails(t) PROVE RedirectsSound'
  BY <1>10 DEF RenewFails, ClearTokens, Sets, Checking, serverVars
<1>11. ASSUME NEW t \in Tabs, RefreshUser(t) PROVE RedirectsSound'
  BY <1>11 DEF RefreshUser, Checking, browserVars, serverVars
<1>12. ASSUME NEW t \in Tabs, SubmitLogin(t) PROVE RedirectsSound'
  BY <1>12 DEF SubmitLogin, Submits, Submit, browserVars, serverVars
<1>13. ASSUME NEW t \in Tabs, SubmitCode(t) PROVE RedirectsSound'
  BY <1>13 DEF SubmitCode, Submits, Submit, browserVars, serverVars
<1>14. ASSUME NEW t \in Tabs, LoginOk(t) PROVE RedirectsSound'
  BY <1>14 DEF LoginOk, Issue, SetTokens
<1>15. ASSUME NEW t \in Tabs, VerifyOk(t) PROVE RedirectsSound'
  BY <1>15 DEF VerifyOk, Issue, SetTokens, Checking
<1>16. ASSUME NEW t \in Tabs, Verified(t) PROVE RedirectsSound'
  BY <1>16 DEF Verified, Landed, Checking, browserVars, serverVars
<1>17. ASSUME NEW t \in Tabs, CompleteOnboarding(t) PROVE RedirectsSound'
  BY <1>17 DEF CompleteOnboarding, Issue, SetTokens
<1>18. ASSUME NEW t \in Tabs, FormFails(t) PROVE RedirectsSound'
  BY <1>18 DEF FormFails, browserVars, serverVars
<1>19. ASSUME NEW t \in Tabs, SubmitLogout(t) PROVE RedirectsSound'
  BY <1>19 DEF SubmitLogout, browserVars, serverVars
<1>20. ASSUME NEW t \in Tabs, Logout(t) PROVE RedirectsSound'
  BY <1>20 DEF Logout
<1>21. CASE AccessExpires
  BY <1>21 DEF AccessExpires, browserVars
<1>22. CASE RefreshExpires
  BY <1>22 DEF RefreshExpires, browserVars
<1>23. CASE Evicted
  BY <1>23 DEF Evicted, serverVars
<1>24. CASE AuthStateExpires
  BY <1>24 DEF AuthStateExpires, serverVars
<1>25. CASE UNCHANGED webVars
  BY <1>25 DEF webVars, browserVars, serverVars
<1> QED
  BY <1>1, <1>2, <1>3, <1>4, <1>5, <1>6, <1>7, <1>8, <1>9, <1>10, <1>11, <1>12, <1>13,
     <1>14, <1>15, <1>16, <1>17, <1>18, <1>19, <1>20, <1>21, <1>22, <1>23, <1>24, <1>25 DEF WebNext

(* The middleware sends a tab without a user back from /login at most once in a row, for any
   number of tabs, although they share the token and the cookie and change them at any time
   (the catch branches of fetchUser and the clearing of the cookie without a token). *)
THEOREM NoTabLoops == WebSpec => []NoRedirectLoop
<1>1. WebInit => RedirectsSound
  <2> SUFFICES ASSUME WebInit PROVE RedirectsSound
    OBVIOUS
  <2>1. bounces \in [Tabs -> {0, 1}] /\ authState \in BOOLEAN /\ \A t \in Tabs : bounces[t] = 0
    BY DEF WebInit
  <2>2. \A t \in Tabs : tab[t].form = "none" /\ tab[t].page = "login"
    BY DEF WebInit, NewTab
  <2> QED BY <2>1, <2>2 DEF RedirectsSound
<1>2. WebInv /\ [WebNext]_webVars => WebInv'
  BY WebTypesStep, RefusedFirstStep, OutageStep DEF WebInv
<1>3. RedirectsSound => NoRedirectLoop
  BY DEF RedirectsSound, NoRedirectLoop
<1> QED
  BY <1>1, <1>2, <1>3, WebInitially, RedirectsStep, PTL DEF WebSpec

--------------------------------------------------------------------------------
(* Conversations *)

Live == {"resolved", "selecting", "filling", "answering", "invalidating"}

ChatTypes ==
  /\ DOMAIN chats = Chats /\ DOMAIN saved = Chats /\ DOMAIN history = Chats
  /\ DOMAIN settled = Chats /\ DOMAIN round = Rounds
  /\ \A r \in Rounds : DOMAIN round[r] = {"at", "chat", "seen", "loaded", "owed"}

\* What is settled is stored, and in the cache if there is one.
ChatSound(c) ==
  /\ chats[c] = "free" => settled[c] = {} /\ history[c] = NoHistory
  /\ chats[c] = "open" =>
       settled[c] \subseteq saved[c] /\ (history[c] # NoHistory => settled[c] \subseteq history[c])

\* What a turn is about to cache holds what is settled by now.
RoundSound(r) ==
  round[r].at \in Live =>
    /\ round[r].chat \in Chats /\ chats[round[r].chat] # "free"
    /\ round[r].at \in {"selecting", "filling"} => ~round[r].loaded
    /\ round[r].at # "resolved" => round[r].owed \subseteq settled[round[r].chat]
    /\ chats[round[r].chat] = "open" =>
         /\ round[r].at = "filling" => settled[round[r].chat] \subseteq round[r].seen
         /\ round[r].at = "invalidating" => r \in saved[round[r].chat]
         /\ round[r].at \in {"answering", "invalidating"} /\ round[r].loaded
              => round[r].owed \subseteq round[r].seen

ChatInv ==
  /\ ChatTypes
  /\ \A c \in Chats : ChatSound(c)
  /\ \A r \in Rounds : RoundSound(r)

LEMMA CreateConversationSound ==
  ASSUME ChatInv, NEW c \in Chats, CreateConversation(c), NEW r \in Rounds,
         UNCHANGED round \/ Enters(r, c)
  PROVE  ChatInv'
<1>1. /\ chats[c] = "free" /\ chats' = [chats EXCEPT ![c] = "open"]
      /\ UNCHANGED <<saved, history, settled>>
  BY DEF CreateConversation
<1>2. ChatTypes'
  BY <1>1 DEF ChatInv, ChatTypes, Enters, Live
<1>3. \A d \in Chats : ChatSound(d)'
  BY <1>1 DEF ChatInv, ChatTypes, ChatSound
<1>4. \A x \in Rounds : RoundSound(x)'
  BY <1>1 DEF ChatInv, ChatTypes, RoundSound, Live, Enters
<1> QED BY <1>2, <1>3, <1>4 DEF ChatInv

LEMMA ChatOpsSound ==
  ASSUME ChatInv, NEW c \in Chats, DeleteSession(c) \/ HistoryExpires(c)
  PROVE  ChatInv'
<1>1. ChatTypes'
  BY DEF ChatInv, ChatTypes, DeleteSession, HistoryExpires
<1>2. \A d \in Chats : ChatSound(d)'
  BY DEF ChatInv, ChatTypes, ChatSound, DeleteSession, HistoryExpires
<1>3. \A x \in Rounds : RoundSound(x)'
  BY DEF ChatInv, ChatTypes, RoundSound, Live, DeleteSession, HistoryExpires
<1> QED BY <1>1, <1>2, <1>3 DEF ChatInv

LEMMA RoundOver ==
  ASSUME ChatInv, NEW r \in Rounds, Over(r), UNCHANGED <<chats, saved, history, settled>>
  PROVE  ChatInv'
<1>1. ChatTypes'
  BY DEF ChatInv, ChatTypes, Over, NewRound, Live
<1>2. \A x \in Rounds : RoundSound(x)'
  BY DEF ChatInv, ChatTypes, RoundSound, Over, NewRound, Live
<1> QED BY <1>1, <1>2 DEF ChatInv, ChatSound

LEMMA ContinueSound ==
  ASSUME ChatInv, NEW r \in Rounds, NEW c \in Chats, ContinueChat(r, c)
  PROVE  ChatInv'
<1>1. ChatTypes'
  BY DEF ChatInv, ChatTypes, ContinueChat, Enters, Live
<1>2. \A x \in Rounds : RoundSound(x)'
  BY DEF ChatInv, ChatTypes, RoundSound, ContinueChat, Enters, Live
<1> QED BY <1>1, <1>2 DEF ChatInv, ChatSound, ContinueChat

LEMMA LoadSound ==
  ASSUME ChatInv, NEW r \in Rounds, LoadHistory(r)
  PROVE  ChatInv'
<1>1. ChatTypes /\ RoundSound(r) /\ round[r].chat \in Chats
  BY DEF ChatInv, LoadHistory, RoundSound, Live
<1>2. PICK c \in Chats : c = round[r].chat
  BY <1>1
<1>3. PICK hit \in BOOLEAN : hit = (history[c] # NoHistory)
  OBVIOUS
<1>4. PICK seen : seen = IF hit THEN history[c] ELSE {}
  OBVIOUS
<1>5. /\ round[r].at = "resolved"
      /\ round' = [round EXCEPT ![r].owed = settled[c], ![r].loaded = hit, ![r].seen = seen,
                                ![r].at = IF hit THEN "answering" ELSE "selecting"]
      /\ UNCHANGED <<chats, saved, history, settled>>
  BY <1>2, <1>3, <1>4 DEF LoadHistory
<1>6. /\ \A x \in Rounds \ {r} : round'[x] = round[x]
      /\ round'[r].owed = settled[c] /\ round'[r].loaded = hit /\ round'[r].seen = seen
      /\ round'[r].at = IF hit THEN "answering" ELSE "selecting"
      /\ round'[r].chat = c
  BY <1>1, <1>2, <1>5 DEF ChatTypes
<1>7. ChatTypes'
  BY <1>1, <1>5 DEF ChatTypes, Live
<1>8. \A x \in Rounds \ {r} : RoundSound(x)'
  <2> TAKE x \in Rounds \ {r}
  <2>1. round'[x] = round[x] /\ UNCHANGED <<chats, saved, settled>>
    BY <1>5, <1>6
  <2>2. RoundSound(x)
    BY DEF ChatInv
  <2> QED BY <2>1, <2>2 DEF RoundSound
<1>9. RoundSound(r)'
  <2>1. chats[c] # "free" /\ ChatSound(c)
    BY <1>1, <1>2, <1>5 DEF ChatInv, RoundSound, Live
  <2>2. chats[c] = "open" /\ hit => settled[c] \subseteq seen
    BY <1>3, <1>4, <2>1 DEF ChatSound
  <2>3. round'[r].at = IF hit THEN "answering" ELSE "selecting"
    BY <1>6
  <2>4. chats' = chats /\ settled' = settled /\ round'[r].chat = c
    BY <1>5, <1>6
  <2>5. round'[r].owed = settled[c] /\ round'[r].loaded = hit /\ round'[r].seen = seen
    BY <1>6
  <2>6. CASE hit
    BY <2>1, <2>2, <2>3, <2>4, <2>5, <2>6 DEF RoundSound
  <2>7. CASE ~hit
    BY <2>1, <2>3, <2>4, <2>5, <2>7 DEF RoundSound
  <2> QED BY <2>6, <2>7
<1> QED BY <1>5, <1>7, <1>8, <1>9 DEF ChatInv, ChatSound

LEMMA SelectSound ==
  ASSUME ChatInv, NEW r \in Rounds, SelectHistory(r)
  PROVE  ChatInv'
<1>1. ChatTypes'
  BY DEF ChatInv, ChatTypes, SelectHistory, RoundSound, Live
<1>2. \A x \in Rounds : RoundSound(x)'
  BY DEF ChatInv, ChatTypes, RoundSound, ChatSound, SelectHistory, Live
<1> QED BY <1>1, <1>2 DEF ChatInv, ChatSound, SelectHistory

LEMMA FillSound ==
  ASSUME ChatInv, NEW r \in Rounds, FillHistory(r)
  PROVE  ChatInv'
<1>1. ChatTypes'
  BY DEF ChatInv, ChatTypes, FillHistory, Live
<1>2. \A c \in Chats : ChatSound(c)'
  BY DEF ChatInv, ChatTypes, RoundSound, ChatSound, FillHistory, Live
<1>3. \A x \in Rounds : RoundSound(x)'
  BY DEF ChatInv, ChatTypes, RoundSound, FillHistory, Live
<1> QED BY <1>1, <1>2, <1>3 DEF ChatInv

LEMMA LoadFailsSound ==
  ASSUME ChatInv, NEW r \in Rounds, LoadFails(r)
  PROVE  ChatInv'
<1>1. ChatTypes'
  BY DEF ChatInv, ChatTypes, LoadFails, Live
<1>2. \A x \in Rounds : RoundSound(x)'
  BY DEF ChatInv, ChatTypes, RoundSound, LoadFails, Live
<1> QED BY <1>1, <1>2 DEF ChatInv, ChatSound, LoadFails

LEMMA SaveSound ==
  ASSUME ChatInv, NEW r \in Rounds, SaveMessages(r)
  PROVE  ChatInv'
<1>1. ChatTypes'
  BY DEF ChatInv, ChatTypes, SaveMessages, Step, RoundSound, Live
<1>2. \A c \in Chats : ChatSound(c)'
  BY DEF ChatInv, ChatTypes, ChatSound, SaveMessages, Step
<1>3. \A x \in Rounds : RoundSound(x)'
  BY DEF ChatInv, ChatTypes, RoundSound, SaveMessages, Step, Live
<1> QED BY <1>1, <1>2, <1>3 DEF ChatInv

LEMMA InvalidateSound ==
  ASSUME ChatInv, NEW r \in Rounds, InvalidateHistory(r)
  PROVE  ChatInv'
<1>1. PICK c \in Chats : c = round[r].chat
  BY DEF ChatInv, RoundSound, InvalidateHistory, Live
<1>2. /\ round[r].at = "invalidating"
      /\ round' = [round EXCEPT ![r] = [NewRound EXCEPT !.at = "over"]]
      /\ history' = [history EXCEPT ![c] = NoHistory]
      /\ settled' = [settled EXCEPT ![c] = IF Undisturbed(r) THEN @ \cup {r} ELSE @]
      /\ UNCHANGED <<chats, saved>>
  BY <1>1 DEF InvalidateHistory, Over
<1>3. ChatTypes'
  BY <1>2 DEF ChatInv, ChatTypes, NewRound, Live
<1>4. chats[c] = "open" => r \in saved[c]
  BY <1>1, <1>2 DEF ChatInv, RoundSound, Live
<1>5. \A d \in Chats : settled'[d] \subseteq settled[d] \cup (IF d = c THEN {r} ELSE {})
                       /\ settled[d] \subseteq settled'[d]
  BY <1>2 DEF ChatInv, ChatTypes
<1>6. \A d \in Chats : ChatSound(d)'
  <2> SUFFICES ASSUME NEW d \in Chats PROVE ChatSound(d)'
    OBVIOUS
  <2>1. CASE d = c
    <3>1. history'[c] = NoHistory /\ chats[c] # "free"
      BY <1>1, <1>2 DEF ChatInv, ChatTypes, RoundSound, Live
    <3> QED BY <1>2, <1>4, <1>5, <2>1, <3>1 DEF ChatInv, ChatSound
  <2>2. CASE d # c
    BY <1>2, <2>2 DEF ChatInv, ChatTypes, ChatSound
  <2> QED BY <2>1, <2>2
<1>7. \A x \in Rounds : RoundSound(x)'
  <2> SUFFICES ASSUME NEW x \in Rounds PROVE RoundSound(x)'
    OBVIOUS
  <2>1. CASE x = r
    BY <1>2, <2>1 DEF ChatInv, ChatTypes, RoundSound, NewRound, Live
  <2>2. CASE x # r
    <3>1. round'[x] = round[x]
      BY <1>2, <2>2 DEF ChatInv, ChatTypes
    <3>2. round[x].at = "filling" /\ round[x].chat \in Chats /\ chats[round[x].chat] = "open"
            => settled'[round[x].chat] \subseteq round[x].seen
      BY <1>1, <1>2 DEF ChatInv, ChatTypes, RoundSound, Undisturbed, Live
    <3>3. round[x].chat \in Chats => settled[round[x].chat] \subseteq settled'[round[x].chat]
      BY <1>5
    <3>4. RoundSound(x)
      BY DEF ChatInv
    <3> QED BY <1>2, <3>1, <3>2, <3>3, <3>4 DEF RoundSound
  <2> QED BY <2>1, <2>2
<1> QED BY <1>3, <1>6, <1>7 DEF ChatInv

THEOREM ChatInvariant == ConversationsSpec => []ChatInv
<1>1. ConversationsInit => ChatInv
  BY DEF ConversationsInit, ChatInv, ChatTypes, ChatSound, RoundSound, NewRound, Live
<1>2. ChatInv /\ [ConversationsNext]_chatVars => ChatInv'
  <2> SUFFICES ASSUME ChatInv, [ConversationsNext]_chatVars PROVE ChatInv'
    OBVIOUS
  <2>1. ASSUME NEW c \in Chats, CreateChatSession(c) PROVE ChatInv'
    <3>1. CreateConversation(c) /\ UNCHANGED round
      BY <2>1 DEF CreateChatSession
    <3>2. ChatTypes'
      BY <3>1 DEF CreateConversation, ChatInv, ChatTypes
    <3>3. \A d \in Chats : ChatSound(d)'
      BY <3>1 DEF CreateConversation, ChatInv, ChatTypes, ChatSound
    <3>4. \A x \in Rounds : RoundSound(x)'
      BY <3>1 DEF CreateConversation, ChatInv, ChatTypes, RoundSound
    <3> QED BY <3>2, <3>3, <3>4 DEF ChatInv
  <2>2. ASSUME NEW c \in Chats, DeleteSession(c) \/ HistoryExpires(c) PROVE ChatInv'
    BY <2>2, ChatOpsSound
  <2>3. ASSUME NEW r \in Rounds, NEW c \in Chats, ContinueChat(r, c) PROVE ChatInv'
    BY <2>3, ContinueSound
  <2>4. ASSUME NEW r \in Rounds, NEW c \in Chats, StartChat(r, c) PROVE ChatInv'
    BY <2>4, CreateConversationSound DEF StartChat
  <2>5. ASSUME NEW r \in Rounds, RefuseMessage(r) \/ SaveFails(r) \/ TurnCancelled(r) PROVE ChatInv'
    BY <2>5, RoundOver DEF RefuseMessage, SaveFails, TurnCancelled
  <2>6. ASSUME NEW r \in Rounds,
               LoadHistory(r) \/ SelectHistory(r) \/ FillHistory(r) \/ LoadFails(r)
                 \/ SaveMessages(r) \/ InvalidateHistory(r)
        PROVE  ChatInv'
    BY <2>6, LoadSound, SelectSound, FillSound, LoadFailsSound, SaveSound, InvalidateSound
  <2>7. CASE UNCHANGED chatVars
    BY <2>7 DEF chatVars, ChatInv, ChatTypes, ChatSound, RoundSound
  <2> QED BY <2>1, <2>2, <2>3, <2>4, <2>5, <2>6, <2>7 DEF ConversationsNext
<1> QED BY <1>1, <1>2, PTL DEF ConversationsSpec

\* A turn that was given a history answers from every settled turn before it.
THEOREM TurnsAlwaysSeeTheirPast == ConversationsSpec => []TurnsSeeTheirPast
<1>1. ChatInv => TurnsSeeTheirPast
  BY DEF ChatInv, RoundSound, TurnsSeeTheirPast, Live
<1> QED BY <1>1, ChatInvariant, PTL
================================================================================
