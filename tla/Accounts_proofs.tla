---------------------------- MODULE Accounts_proofs ----------------------------
(***************************************************************************)
(* Proofs about the accounts of users: their quotas, workspaces and roles,  *)
(* the rate of their requests and their sessions, for every number of users *)
(* and requests and every limit.                                            *)
(***************************************************************************)
EXTENDS Quota, Workspaces, Administration, RateLimit, Sessions,
        FiniteSetTheorems, TLAPS

--------------------------------------------------------------------------------
(* The caps of Quota for every limit, calendar and number of requests.      *)

Rows == [today : Nat, month : Nat, lastDaily : Nat, lastMonthly : Nat]
CallRecords == [step : {"idle", "reserve", "read", "reset", "retry", "refused"},
                began : Nat, day : Nat, first : Nat, reset : BOOLEAN]

QuotaTypeOK ==
  /\ date \in Nat /\ first \in Nat
  /\ quota \in Rows
  /\ call \in [Calls -> CallRecords]
  /\ admin \in [step : {"idle", "read"}, count : Nat, today : BOOLEAN, month : BOOLEAN]
  /\ grants \in [day : Nat, month : Nat]
  /\ twice \in [day : BOOLEAN, month : BOOLEAN]

\* The counters stay within their limits; they are what was granted since their last
\* reset, and a reset of the period before accounts for one more limit.
WithinLimits == quota.today <= Daily /\ quota.month <= Monthly

DayCounted ==
  ~twice.day => grants.day <= quota.today + (IF quota.lastDaily < date THEN 0 ELSE Daily)

MonthCounted ==
  ~twice.month =>
    grants.month <= quota.month + (IF quota.lastMonthly < first THEN 0 ELSE Monthly)

\* No date a request or the row holds is in the future.
Past(a) == a.began <= date /\ a.day <= date /\ a.first <= date

Calendar ==
  /\ first <= date
  /\ quota.lastDaily <= date /\ quota.lastMonthly <= date
  /\ \A c \in Calls : Past(call[c])

QuotaInv == QuotaTypeOK /\ WithinLimits /\ DayCounted /\ MonthCounted /\ Calendar

\* The records a request goes through have the type of one.
LEMMA NoCallType == NoCall \in CallRecords
BY DEF NoCall, CallRecords

LEMMA ResetSeenType ==
  ASSUME QuotaTypeOK, NEW S \in SUBSET Calls
  PROVE  /\ ResetSeen(S) \in [Calls -> CallRecords]
         /\ \A c \in Calls : /\ ResetSeen(S)[c].step = call[c].step
                             /\ ResetSeen(S)[c].began = call[c].began
                             /\ ResetSeen(S)[c].day = call[c].day
                             /\ ResetSeen(S)[c].first = call[c].first
                             /\ ~ResetSeen(S)[c].reset => ~call[c].reset
                             /\ c \in S /\ call[c].step \in {"read", "retry"} => ResetSeen(S)[c].reset
<1>1. ASSUME NEW c \in Calls
      PROVE  /\ ResetSeen(S)[c] \in CallRecords
             /\ ResetSeen(S)[c].step = call[c].step
             /\ ResetSeen(S)[c].began = call[c].began
             /\ ResetSeen(S)[c].day = call[c].day
             /\ ResetSeen(S)[c].first = call[c].first
             /\ ~ResetSeen(S)[c].reset => ~call[c].reset
             /\ c \in S /\ call[c].step \in {"read", "retry"} => ResetSeen(S)[c].reset
  <2>1. PICK x \in CallRecords : x = call[c]
    BY DEF QuotaTypeOK
  <2>2. ResetSeen(S)[c] = IF c \in S /\ x.step \in {"read", "retry"} THEN [x EXCEPT !.reset = TRUE] ELSE x
    BY <2>1 DEF ResetSeen
  <2>3. [x EXCEPT !.reset = TRUE] \in CallRecords
    BY DEF CallRecords
  <2> QED
    BY <2>1, <2>2, <2>3 DEF CallRecords
<1> QED
  BY <1>1 DEF ResetSeen

\* The invariant holds when the account is created.
LEMMA QuotaInvInit == QuotaInit => QuotaInv
<1> SUFFICES ASSUME QuotaInit PROVE QuotaInv
  OBVIOUS
<1>1. QuotaTypeOK
  BY NoCallType DEF QuotaInit, QuotaTypeOK, Rows
<1>2. WithinLimits /\ DayCounted /\ MonthCounted /\ Calendar
  BY QuotaAssumption DEF QuotaInit, WithinLimits, DayCounted, MonthCounted, Calendar, Past, NoCall
<1> QED
  BY <1>1, <1>2 DEF QuotaInv

\* A granted request is counted in the row and in the history.
LEMMA GrantStep == ASSUME QuotaInv, NEW c \in Calls, Grant(c) PROVE QuotaInv'
<1>t. QuotaTypeOK
  BY DEF QuotaInv
<1>c. call' = [call EXCEPT ![c] = NoCall]
  BY DEF Grant
<1>q. /\ quota' = Counted(quota) /\ BelowLimits
      /\ grants' = [day |-> grants.day + 1, month |-> grants.month + 1]
      /\ UNCHANGED <<date, first, admin, twice>>
  BY DEF Grant
<1>1. QuotaTypeOK'
  <2>1. call' \in [Calls -> CallRecords]
    BY NoCallType, <1>t, <1>c DEF QuotaTypeOK
  <2>2. quota' \in Rows
    <3>1. quota \in Rows
      BY <1>t DEF QuotaTypeOK
    <3>2. /\ quota.today + 1 \in Nat /\ quota.month + 1 \in Nat
          /\ Counted(quota) = [[quota EXCEPT !.today = quota.today + 1]
                                       EXCEPT !.month = quota.month + 1]
      BY <3>1 DEF Rows, Counted
    <3>4. PICK m \in Nat, n \in Nat : m = quota.today + 1 /\ n = quota.month + 1
      BY <3>2
    <3>5. [[quota EXCEPT !.today = m] EXCEPT !.month = n] \in Rows
      BY <3>1 DEF Rows
    <3> QED
      BY <1>q, <3>2, <3>4, <3>5
  <2>3. grants' \in [day : Nat, month : Nat]
    BY <1>t, <1>q DEF QuotaTypeOK
  <2> QED
    BY <1>t, <1>q, <2>1, <2>2, <2>3 DEF QuotaTypeOK
<1>2. /\ quota'.today = quota.today + 1 /\ quota'.month = quota.month + 1
      /\ quota'.lastDaily = quota.lastDaily /\ quota'.lastMonthly = quota.lastMonthly
  BY <1>t, <1>q DEF QuotaTypeOK, Rows, Counted
<1>3. WithinLimits'
  BY <1>t, <1>q, <1>2, QuotaAssumption DEF QuotaInv, WithinLimits, BelowLimits, QuotaTypeOK, Rows
<1>4. DayCounted' /\ MonthCounted'
  BY <1>t, <1>q, <1>2, QuotaAssumption
  DEF QuotaInv, DayCounted, MonthCounted, QuotaTypeOK, Rows
<1>5. Calendar'
  BY <1>t, <1>c, <1>q, <1>2 DEF QuotaInv, Calendar, Past, NoCall, QuotaTypeOK
<1> QED
  BY <1>1, <1>3, <1>4, <1>5 DEF QuotaInv

\* Steps that move one request and touch nothing else.
LEMMA CallMoves ==
  ASSUME QuotaInv, NEW c \in Calls, NEW x \in CallRecords,
         call' = [call EXCEPT ![c] = x],
         UNCHANGED <<date, first, quota, admin, grants, twice>>,
         Past(x)
  PROVE  QuotaInv'
<1>1. QuotaTypeOK'
  BY DEF QuotaInv, QuotaTypeOK
<1>2. WithinLimits' /\ DayCounted' /\ MonthCounted'
  BY DEF QuotaInv, WithinLimits, DayCounted, MonthCounted
<1>3. Calendar'
  BY DEF QuotaInv, QuotaTypeOK, Calendar, Past
<1> QED
  BY <1>1, <1>2, <1>3 DEF QuotaInv

\* Steps of a request, the inline reset excepted.
LEMMA CallStep ==
  ASSUME QuotaInv, NEW c \in Calls,
         CallBegin(c) \/ Reserve(c) \/ Decide(c) \/ Retry(c) \/ CallError(c)
  PROVE  QuotaInv'
<1>t. /\ date \in Nat /\ first \in Nat /\ first <= date
      /\ call[c] \in CallRecords /\ NoCall \in CallRecords
  BY NoCallType DEF QuotaInv, QuotaTypeOK, Calendar
<1>1. CASE CallBegin(c)
  <2> DEFINE x == [NoCall EXCEPT !.step = "reserve", !.began = date]
  <2>1. x \in CallRecords /\ x.began = date /\ x.day = 0 /\ x.first = 0
    BY <1>t DEF NoCall, CallRecords
  <2>2. call' = [call EXCEPT ![c] = x] /\ UNCHANGED <<date, first, quota, admin, grants, twice>>
    BY <1>1 DEF CallBegin
  <2>3. Past(x)
    BY <1>t, <2>1 DEF Past
  <2> HIDE DEF x
  <2> QED
    BY <2>1, <2>2, <2>3, CallMoves
<1>2. CASE Reserve(c)
  <2>1. CASE Grant(c)
    BY <2>1, GrantStep
  <2>2. CASE ~Grant(c)
    <3> DEFINE x == [call[c] EXCEPT !.step = "read"]
    <3>1. x \in CallRecords /\ x.began = call[c].began /\ x.day = call[c].day /\ x.first = call[c].first
      BY <1>t DEF CallRecords
    <3>2. /\ call[c].step = "reserve" /\ call' = [call EXCEPT ![c] = x]
          /\ UNCHANGED <<date, first, quota, admin, grants, twice>>
      BY <1>2, <2>2 DEF Reserve
    <3>3. Past(x)
      BY <3>1 DEF QuotaInv, Calendar, Past
    <3> HIDE DEF x
    <3> QED
      BY <3>1, <3>2, <3>3, CallMoves
  <2> QED
    BY <2>1, <2>2
<1>3. CASE Decide(c)
  <2> DEFINE x == IF Stale THEN [call[c] EXCEPT !.step = "reset", !.day = date, !.first = first]
                  ELSE [NoCall EXCEPT !.step = "refused"]
  <2>1. /\ x \in CallRecords /\ x.began \in {0, call[c].began}
        /\ x.day \in {0, date} /\ x.first \in {0, first}
    BY <1>t DEF NoCall, CallRecords
  <2>3. Past(x)
    BY <1>t, <2>1 DEF QuotaInv, Calendar, Past
  <2>2. call' = [call EXCEPT ![c] = x] /\ UNCHANGED <<date, first, quota, admin, grants, twice>>
    BY <1>3 DEF Decide
  <2> HIDE DEF x
  <2> QED
    BY <2>1, <2>2, <2>3, CallMoves
<1>4. CASE Retry(c)
  <2>1. CASE Grant(c)
    BY <2>1, GrantStep
  <2>2. CASE ~Grant(c)
    <3> DEFINE x == [NoCall EXCEPT !.step = "refused"]
    <3>1. x \in CallRecords /\ Past(x)
      <4>1. x \in CallRecords /\ x.began = 0 /\ x.day = 0 /\ x.first = 0
        BY DEF NoCall, CallRecords
      <4> QED
        BY <1>t, <4>1 DEF Past
    <3>2. /\ call' = [call EXCEPT ![c] = x]
          /\ UNCHANGED <<date, first, quota, admin, grants, twice>>
      BY <1>4, <2>2 DEF Retry
    <3> HIDE DEF x
    <3> QED
      BY <3>1, <3>2, CallMoves
  <2> QED
    BY <2>1, <2>2
<1>5. CASE CallError(c)
  <2>1. Past(NoCall)
    BY <1>t DEF NoCall, Past
  <2> QED
    BY <1>t, <1>5, <2>1, CallMoves DEF CallError
<1> QED
  BY <1>1, <1>2, <1>3, <1>4, <1>5

\* An inline reset closes a period of the row: on a current counter it sets twice.
LEMMA InlineResetStep == ASSUME QuotaInv, NEW c \in Calls, InlineReset(c) PROVE QuotaInv'
<1>t. /\ QuotaTypeOK /\ call[c] \in CallRecords
  BY DEF QuotaInv, QuotaTypeOK
<1> DEFINE x == [NoCall EXCEPT !.step = "retry", !.began = call[c].began]
           seen == ResetSeen(Calls \ {c})
<1>x. x \in CallRecords /\ x.began = call[c].began /\ x.day = 0 /\ x.first = 0
  BY <1>t DEF NoCall, CallRecords
<1>s. /\ seen \in [Calls -> CallRecords]
      /\ \A d \in Calls : Past(seen[d]) /\ Past(call[d])
  BY <1>t, ResetSeenType DEF QuotaInv, Calendar, Past
<1>e. /\ quota' = [today |-> 0, month |-> 0,
                   lastDaily |-> call[c].day, lastMonthly |-> call[c].first]
      /\ twice' = [day |-> twice.day \/ quota.lastDaily >= call[c].day \/ call[c].day # date,
                   month |-> twice.month \/ quota.lastMonthly >= call[c].first
                                         \/ call[c].first # first]
      /\ call' = [seen EXCEPT ![c] = x]
      /\ UNCHANGED <<date, first, admin, grants>>
  BY DEF InlineReset
<1> HIDE DEF x, seen
<1>1. QuotaTypeOK'
  <2>1. call' \in [Calls -> CallRecords]
    BY <1>s, <1>x, <1>e DEF QuotaTypeOK
  <2>2. quota' \in Rows
    BY <1>t, <1>e DEF CallRecords, Rows
  <2>3. twice' \in [day : BOOLEAN, month : BOOLEAN]
    BY <1>e, Zenon
  <2> QED
    BY <1>t, <1>e, <2>1, <2>2, <2>3 DEF QuotaTypeOK
<1>2. WithinLimits'
  BY <1>e, QuotaAssumption DEF WithinLimits
<1>3. DayCounted'
  <2> SUFFICES ASSUME ~twice'.day
               PROVE  grants'.day <= quota'.today + (IF quota'.lastDaily < date' THEN 0 ELSE Daily)
    BY DEF DayCounted
  <2>1. ~twice.day /\ ~(quota.lastDaily >= call[c].day) /\ call[c].day = date
    BY <1>e
  <2>2. quota.lastDaily < date
    BY <2>1, <1>t DEF QuotaTypeOK, Rows
  <2>3. grants.day <= quota.today
    BY <2>1, <2>2, <1>t DEF QuotaInv, DayCounted, QuotaTypeOK, Rows
  <2>4. grants.day <= Daily
    BY <2>3, <1>t, QuotaAssumption DEF QuotaInv, WithinLimits, QuotaTypeOK, Rows
  <2>5. quota'.today = 0 /\ quota'.lastDaily = date /\ date' = date /\ grants' = grants
    BY <1>e, <2>1
  <2> QED
    BY <2>4, <2>5, <1>t, QuotaAssumption DEF QuotaTypeOK
<1>4. MonthCounted'
  <2> SUFFICES ASSUME ~twice'.month
               PROVE  grants'.month <= quota'.month
                        + (IF quota'.lastMonthly < first' THEN 0 ELSE Monthly)
    BY DEF MonthCounted
  <2>1. ~twice.month /\ ~(quota.lastMonthly >= call[c].first) /\ call[c].first = first
    BY <1>e
  <2>2. quota.lastMonthly < first
    BY <2>1, <1>t DEF QuotaTypeOK, Rows
  <2>3. grants.month <= quota.month
    BY <2>1, <2>2, <1>t DEF QuotaInv, MonthCounted, QuotaTypeOK, Rows
  <2>4. grants.month <= Monthly
    BY <2>3, <1>t, QuotaAssumption DEF QuotaInv, WithinLimits, QuotaTypeOK, Rows
  <2>5. quota'.month = 0 /\ quota'.lastMonthly = first /\ first' = first /\ grants' = grants
    BY <1>e, <2>1
  <2> QED
    BY <2>4, <2>5, <1>t, QuotaAssumption DEF QuotaTypeOK
<1>5. Calendar'
  <2>1. Past(x) /\ quota'.lastDaily <= date /\ quota'.lastMonthly <= date
    BY <1>t, <1>e, <1>s, <1>x DEF Past, QuotaTypeOK
  <2>2. \A d \in Calls : Past(call'[d])
    BY <1>s, <1>e, <2>1
  <2> QED
    BY <1>e, <2>1, <2>2 DEF QuotaInv, Calendar, Past
<1> QED
  BY <1>1, <1>2, <1>3, <1>4, <1>5 DEF QuotaInv

\* A reset of one counter, by Beat: it opens a period of the row and closes another.
LEMMA BeatDailyStep == ASSUME QuotaInv, BeatDaily PROVE QuotaInv'
<1>t. QuotaTypeOK
  BY DEF QuotaInv
<1>q. quota \in Rows /\ date \in Nat
  BY <1>t DEF QuotaTypeOK
<1>e. /\ quota.lastDaily < date
      /\ quota' = [quota EXCEPT !.today = 0, !.lastDaily = date]
      /\ UNCHANGED <<date, first, admin, grants, twice>>
      /\ call' = ResetSeen(Calls)
  BY DEF BeatDaily
<1>r. /\ quota' \in Rows
      /\ quota'.today = 0 /\ quota'.month = quota.month
      /\ quota'.lastDaily = date /\ quota'.lastMonthly = quota.lastMonthly
  BY <1>q, <1>e DEF Rows
<1>s. call' \in [Calls -> CallRecords] /\ \A c \in Calls : Past(call'[c])
  BY <1>t, <1>e, ResetSeenType DEF QuotaInv, Calendar, Past
<1>1. QuotaTypeOK'
  BY <1>t, <1>e, <1>r, <1>s DEF QuotaTypeOK
<1>2. WithinLimits'
  BY <1>r, QuotaAssumption DEF QuotaInv, WithinLimits
<1>3. DayCounted'
  <2>1. ~twice.day => grants.day <= Daily
    BY <1>t, <1>e, QuotaAssumption DEF QuotaInv, DayCounted, WithinLimits, QuotaTypeOK, Rows
  <2> QED
    BY <1>t, <1>e, <1>r, <2>1, QuotaAssumption DEF DayCounted, QuotaTypeOK
<1>4. MonthCounted'
  BY <1>e, <1>r DEF QuotaInv, MonthCounted
<1>5. Calendar'
  BY <1>q, <1>e, <1>r, <1>s DEF QuotaInv, Calendar, Past
<1> QED
  BY <1>1, <1>2, <1>3, <1>4, <1>5 DEF QuotaInv

\* The monthly reset dates itself today, which is the first of the month or later.
LEMMA BeatMonthlyStep == ASSUME QuotaInv, BeatMonthly PROVE QuotaInv'
<1>t. QuotaTypeOK
  BY DEF QuotaInv
<1>q. quota \in Rows /\ date \in Nat /\ first \in Nat /\ first <= date
  BY <1>t DEF QuotaInv, QuotaTypeOK, Calendar
<1>e. /\ quota.lastMonthly < first
      /\ quota' = [quota EXCEPT !.month = 0, !.lastMonthly = date]
      /\ UNCHANGED <<date, first, admin, grants, twice>>
      /\ call' = ResetSeen(Calls)
  BY DEF BeatMonthly
<1>r. /\ quota' \in Rows
      /\ quota'.month = 0 /\ quota'.today = quota.today
      /\ quota'.lastMonthly = date /\ quota'.lastDaily = quota.lastDaily
  BY <1>q, <1>e DEF Rows
<1>s. call' \in [Calls -> CallRecords] /\ \A c \in Calls : Past(call'[c])
  BY <1>t, <1>e, ResetSeenType DEF QuotaInv, Calendar, Past
<1>1. QuotaTypeOK'
  BY <1>t, <1>e, <1>r, <1>s DEF QuotaTypeOK
<1>2. WithinLimits'
  BY <1>r, QuotaAssumption DEF QuotaInv, WithinLimits
<1>3. DayCounted'
  BY <1>e, <1>r DEF QuotaInv, DayCounted
<1>4. MonthCounted'
  <2>1. ~twice.month => grants.month <= Monthly
    BY <1>t, <1>e, QuotaAssumption DEF QuotaInv, MonthCounted, WithinLimits, QuotaTypeOK, Rows
  <2> QED
    BY <1>t, <1>e, <1>r, <1>q, <2>1, QuotaAssumption DEF MonthCounted, QuotaTypeOK
<1>5. Calendar'
  BY <1>q, <1>e, <1>r, <1>s DEF QuotaInv, Calendar, Past
<1> QED
  BY <1>1, <1>2, <1>3, <1>4, <1>5 DEF QuotaInv

\* The admin reads, and later writes zeroes; the history starts again with them.
LEMMA AdminResetStep == ASSUME QuotaInv, AdminRead \/ AdminCommit PROVE QuotaInv'
<1>t. QuotaTypeOK
  BY DEF QuotaInv
<1>q. quota \in Rows
  BY <1>t DEF QuotaTypeOK
<1>1. CASE AdminRead
  <2>1. UNCHANGED <<date, first, quota, call, grants, twice>>
    BY <1>1 DEF AdminRead
  <2>2. admin' \in [step : {"idle", "read"}, count : Nat, today : BOOLEAN, month : BOOLEAN]
    BY <1>1, <1>t DEF AdminRead, QuotaTypeOK
  <2>3. QuotaTypeOK'
    BY <2>1, <2>2, <1>t DEF QuotaTypeOK
  <2> QED
    BY <2>1, <2>3 DEF QuotaInv, WithinLimits, DayCounted, MonthCounted, Calendar, Past
<1>2. CASE AdminCommit
  <2>e. /\ quota' = [quota EXCEPT !.today = IF admin.today THEN 0 ELSE @,
                                  !.month = IF admin.month THEN 0 ELSE @]
        /\ grants' = [day |-> IF admin.today THEN 0 ELSE grants.day,
                      month |-> IF admin.month THEN 0 ELSE grants.month]
        /\ admin' = [admin EXCEPT !.step = "idle"]
        /\ call' = ResetSeen(Calls)
        /\ UNCHANGED <<date, first, twice>>
    BY <1>2 DEF AdminCommit
  <2>r. /\ quota' \in Rows
        /\ quota'.today = (IF admin.today THEN 0 ELSE quota.today)
        /\ quota'.month = (IF admin.month THEN 0 ELSE quota.month)
        /\ quota'.lastDaily = quota.lastDaily /\ quota'.lastMonthly = quota.lastMonthly
    BY <1>q, <2>e DEF Rows
  <2>s. call' \in [Calls -> CallRecords] /\ \A c \in Calls : Past(call'[c])
    BY <1>t, <2>e, ResetSeenType DEF QuotaInv, Calendar, Past
  <2>1. QuotaTypeOK'
    <3>1. grants' \in [day : Nat, month : Nat]
      BY <1>t, <2>e DEF QuotaTypeOK
    <3>2. admin' \in [step : {"idle", "read"}, count : Nat, today : BOOLEAN, month : BOOLEAN]
      BY <1>t, <2>e DEF QuotaTypeOK
    <3> QED
      BY <1>t, <2>e, <2>r, <2>s, <3>1, <3>2 DEF QuotaTypeOK
  <2>2. WithinLimits'
    BY <2>r, QuotaAssumption DEF QuotaInv, WithinLimits
  <2>3. DayCounted'
    <3>1. grants'.day = (IF admin.today THEN 0 ELSE grants.day) /\ date' = date /\ twice' = twice
      BY <2>e
    <3> QED
      BY <1>t, <2>r, <3>1, QuotaAssumption DEF QuotaInv, DayCounted, QuotaTypeOK, Rows
  <2>4. MonthCounted'
    <3>1. grants'.month = (IF admin.month THEN 0 ELSE grants.month) /\ first' = first /\ twice' = twice
      BY <2>e
    <3> QED
      BY <1>t, <2>r, <3>1, QuotaAssumption DEF QuotaInv, MonthCounted, QuotaTypeOK, Rows
  <2>5. Calendar'
    BY <2>e, <2>r, <2>s DEF QuotaInv, Calendar, Past
  <2> QED
    BY <2>1, <2>2, <2>3, <2>4, <2>5 DEF QuotaInv
<1> QED
  BY <1>1, <1>2

\* A new day, and perhaps month, has no grants yet.
LEMMA MidnightStep == ASSUME QuotaInv, Midnight PROVE QuotaInv'
<1>t. QuotaTypeOK /\ date \in Nat /\ first \in Nat /\ first <= date
  BY DEF QuotaInv, QuotaTypeOK, Calendar
<1>e. /\ date' = date + 1
      /\ first' = (IF date + 1 \in Firsts THEN date + 1 ELSE first)
      /\ grants' = [day |-> 0, month |-> IF date + 1 \in Firsts THEN 0 ELSE grants.month]
      /\ twice' = [day |-> FALSE, month |-> IF date + 1 \in Firsts THEN FALSE ELSE twice.month]
      /\ UNCHANGED <<quota, call, admin>>
  BY DEF Midnight
<1>1. QuotaTypeOK'
  <2>1. date' \in Nat /\ first' \in Nat
    BY <1>t, <1>e
  <2>2. grants' \in [day : Nat, month : Nat]
    BY <1>t, <1>e DEF QuotaTypeOK
  <2>3. twice.month \in BOOLEAN
    BY <1>t DEF QuotaTypeOK
  <2>4. twice' \in [day : BOOLEAN, month : BOOLEAN]
    BY <1>e, <2>3, Zenon
  <2> QED
    BY <1>t, <1>e, <2>1, <2>2, <2>4 DEF QuotaTypeOK
<1>2. WithinLimits'
  BY <1>e DEF QuotaInv, WithinLimits
<1>q. /\ quota.today \in Nat /\ quota.month \in Nat
      /\ quota.lastMonthly \in Nat /\ quota.lastDaily \in Nat
  BY <1>t DEF QuotaTypeOK, Rows
<1>3. DayCounted'
  <2>1. grants'.day = 0 /\ quota' = quota
    BY <1>e
  <2> QED
    BY <1>q, <2>1, QuotaAssumption DEF DayCounted
<1>4. MonthCounted'
  <2>1. CASE date + 1 \in Firsts
    <3>1. grants'.month = 0 /\ quota' = quota
      BY <1>e, <2>1
    <3> QED
      BY <1>q, <3>1, QuotaAssumption DEF MonthCounted
  <2>2. CASE date + 1 \notin Firsts
    <3>1. grants'.month = grants.month /\ quota' = quota /\ first' = first
          /\ twice'.month = twice.month
      BY <1>e, <2>2
    <3> QED
      BY <3>1 DEF QuotaInv, MonthCounted
  <2> QED
    BY <2>1, <2>2
<1>5. Calendar'
  <2>1. first <= first' /\ first' <= date' /\ date <= date'
    BY <1>t, <1>e
  <2>2. \A c \in Calls : call[c].began \in Nat /\ call[c].day \in Nat /\ call[c].first \in Nat
    BY <1>t DEF QuotaTypeOK, CallRecords
  <2>3. date' \in Nat /\ first' \in Nat /\ call' = call
    BY <1>t, <1>e
  <2> QED
    BY <1>t, <1>e, <1>q, <2>1, <2>2, <2>3 DEF QuotaInv, Calendar, Past
<1> QED
  BY <1>1, <1>2, <1>3, <1>4, <1>5 DEF QuotaInv

\* Every step keeps the invariant.
LEMMA QuotaInvStep == QuotaInv /\ [QuotaNext]_quotaVars => QuotaInv'
<1> SUFFICES ASSUME QuotaInv, [QuotaNext]_quotaVars PROVE QuotaInv'
  OBVIOUS
<1>1. CASE \E c \in Calls : CallBegin(c) \/ Reserve(c) \/ Decide(c) \/ Retry(c) \/ CallError(c)
  BY <1>1, CallStep
<1>2. CASE \E c \in Calls : InlineReset(c)
  BY <1>2, InlineResetStep
<1>3. CASE UNCHANGED quotaVars
  BY <1>3 DEF quotaVars, QuotaInv, QuotaTypeOK, WithinLimits, DayCounted, MonthCounted, Calendar, Past
<1> QED
  BY <1>1, <1>2, <1>3, BeatDailyStep, BeatMonthlyStep, AdminResetStep, MidnightStep DEF QuotaNext

\* The invariant of the account's row and its history, for every calendar.
THEOREM QuotaInvariant == QuotaSpec => []QuotaInv
<1> QED
  BY QuotaInvInit, QuotaInvStep, PTL DEF QuotaSpec

\* The caps: at most two limits' worth of requests on a date or in a month, unless an
\* inline reset hit a counter that was current.
THEOREM CapsAreHeld == QuotaSpec => []CapsHeld
<1>1. QuotaInv => CapsHeld
  <2> SUFFICES ASSUME QuotaInv PROVE CapsHeld
    OBVIOUS
  <2>1. quota \in Rows /\ grants \in [day : Nat, month : Nat]
    BY DEF QuotaInv, QuotaTypeOK
  <2>2. quota.today <= Daily /\ quota.month <= Monthly
    BY DEF QuotaInv, WithinLimits
  <2> QED
    BY <2>1, <2>2, QuotaAssumption DEF QuotaInv, DayCounted, MonthCounted, CapsHeld, Rows
<1> QED
  BY <1>1, QuotaInvariant, PTL

\* What a request that missed the row at its limit may rely on, if nobody reset the row since:
\* that the limit was earned, or, after its own reset, that the row is of today.
Deserved(a) ==
  a.began = date =>
    /\ a.step = "read" /\ ~a.reset /\ ~Stale => grants.day >= Daily \/ grants.month >= Monthly
    /\ a.step = "reset" => a.day = date /\ a.first = first
    /\ a.step = "retry" /\ ~a.reset => ~Stale

\* A counter that is current counts no more than was granted.
CountersEarned ==
  /\ quota.lastDaily >= date => quota.today <= grants.day
  /\ quota.lastMonthly >= first => quota.month <= grants.month

EarnedInv == QuotaInv /\ CountersEarned /\ \A c \in Calls : Deserved(call[c])

\* A current row at one of its limits has earned it.
LEMMA LimitIsEarned ==
  ASSUME EarnedInv, ~Stale, ~BelowLimits
  PROVE  grants.day >= Daily \/ grants.month >= Monthly
<1>1. quota \in Rows /\ grants \in [day : Nat, month : Nat] /\ date \in Nat /\ first \in Nat
  BY DEF EarnedInv, QuotaInv, QuotaTypeOK
<1>2. quota.today <= grants.day /\ quota.month <= grants.month
  BY <1>1 DEF EarnedInv, CountersEarned, Stale, Rows
<1> QED
  BY <1>1, <1>2, QuotaAssumption DEF BelowLimits, Rows

\* A request that moves, while the row and the grants stay or both grow by one.
LEMMA EarnedMoves ==
  ASSUME EarnedInv, QuotaInv', NEW c \in Calls, NEW x,
         call' = [call EXCEPT ![c] = x], Deserved(x)',
         UNCHANGED <<date, first>>,
         UNCHANGED <<quota, grants>>
           \/ /\ quota'.today = quota.today + 1 /\ quota'.month = quota.month + 1
              /\ quota'.lastDaily = quota.lastDaily /\ quota'.lastMonthly = quota.lastMonthly
              /\ grants'.day = grants.day + 1 /\ grants'.month = grants.month + 1
  PROVE  EarnedInv'
<1>1. /\ quota \in Rows /\ grants \in [day : Nat, month : Nat] /\ date \in Nat /\ first \in Nat
      /\ call \in [Calls -> CallRecords] /\ Daily \in Nat /\ Monthly \in Nat
  BY QuotaAssumption DEF EarnedInv, QuotaInv, QuotaTypeOK
<1>2. CountersEarned'
  BY <1>1 DEF EarnedInv, CountersEarned, Rows
<1>3. ASSUME NEW d \in Calls PROVE Deserved(call[d])'
  <2>1. CASE d = c
    <3>1. call'[d] = x
      BY <1>1, <2>1
    <3> QED
      BY <3>1 DEF Deserved, Stale
  <2>2. CASE d # c
    <3>1. call'[d] = call[d] /\ Deserved(call[d])
      BY <1>1, <2>2 DEF EarnedInv
    <3>2. Stale' <=> Stale
      BY DEF Stale
    <3>3. grants'.day >= grants.day /\ grants'.month >= grants.month
      BY <1>1
    <3>4. grants.day >= Daily \/ grants.month >= Monthly => grants'.day >= Daily \/ grants'.month >= Monthly
      <4>1. grants'.day \in Nat /\ grants'.month \in Nat
        BY DEF QuotaInv, QuotaTypeOK
      <4> QED
        BY <1>1, <3>3, <4>1
    <3>5. PICK a : a = call[d]
      OBVIOUS
    <3>6. call'[d] = a /\ Deserved(a)
      BY <3>1, <3>5
    <3>7. Deserved(a)'
      BY <3>2, <3>4, <3>6 DEF Deserved
    <3> QED
      BY <3>6, <3>7 DEF Deserved, Stale
  <2> QED
    BY <2>1, <2>2
<1> QED
  BY <1>2, <1>3 DEF EarnedInv

\* A reset of the row that the requests under way see, the one of c, if any, excepted.
LEMMA EarnedResets ==
  ASSUME EarnedInv, QuotaInv', NEW S \in SUBSET Calls, CountersEarned', UNCHANGED <<date, first>>,
         \A d \in S : call'[d] = ResetSeen(S)[d],
         \A d \in Calls \ S : Deserved(call[d])'
  PROVE  EarnedInv'
<1>1. ASSUME NEW d \in S PROVE Deserved(call[d])'
  <2>1. PICK a : a = ResetSeen(S)[d] /\ call'[d] = a
    OBVIOUS
  <2>2. PICK b : b = call[d] /\ Deserved(b)
    BY DEF EarnedInv
  <2>3. /\ a.step = b.step /\ a.began = b.began /\ a.day = b.day /\ a.first = b.first
        /\ b.step \in {"read", "retry"} => a.reset
    BY <2>1, <2>2, ResetSeenType DEF EarnedInv, QuotaInv
  <2>4. Deserved(a)'
    BY <2>2, <2>3 DEF Deserved
  <2> QED
    BY <2>1, <2>4 DEF Deserved, Stale
<1> QED
  BY <1>1 DEF EarnedInv

LEMMA EarnedInvStep == EarnedInv /\ [QuotaNext]_quotaVars => EarnedInv'
<1> SUFFICES ASSUME EarnedInv, [QuotaNext]_quotaVars PROVE EarnedInv'
  OBVIOUS
<1>i. QuotaInv'
  BY QuotaInvStep DEF EarnedInv
<1>t. /\ quota \in Rows /\ grants \in [day : Nat, month : Nat] /\ date \in Nat /\ first \in Nat
      /\ call \in [Calls -> CallRecords] /\ CountersEarned /\ first <= date
  BY DEF EarnedInv, QuotaInv, QuotaTypeOK, Calendar
<1>n. NoCall.step = "idle"
  BY DEF NoCall
<1>1. ASSUME NEW c \in Calls, Grant(c) PROVE EarnedInv'
  <2>1. Deserved(NoCall)'
    BY <1>n DEF Deserved, NoCall
  <2>2. /\ quota'.today = quota.today + 1 /\ quota'.month = quota.month + 1
        /\ quota'.lastDaily = quota.lastDaily /\ quota'.lastMonthly = quota.lastMonthly
        /\ grants'.day = grants.day + 1 /\ grants'.month = grants.month + 1
    BY <1>1, <1>t DEF Grant, Counted, Rows
  <2>3. call' = [call EXCEPT ![c] = NoCall] /\ UNCHANGED <<date, first>>
    BY <1>1 DEF Grant
  <2> QED
    BY <1>i, <2>1, <2>2, <2>3, EarnedMoves
<1>2. ASSUME NEW c \in Calls, CallBegin(c) \/ CallError(c) \/ (Retry(c) /\ ~Grant(c)) PROVE EarnedInv'
  <2>1. PICK x : /\ call' = [call EXCEPT ![c] = x]
                 /\ x.step \in {"reserve", "idle", "refused"}
    <3>1. CASE CallBegin(c)
      <4>1. PICK x : x = [NoCall EXCEPT !.step = "reserve", !.began = date]
        OBVIOUS
      <4>2. x.step = "reserve"
        BY <4>1 DEF NoCall
      <4> QED
        BY <3>1, <4>1, <4>2 DEF CallBegin
    <3>2. CASE CallError(c)
      BY <1>n, <3>2 DEF CallError
    <3>3. CASE Retry(c) /\ ~Grant(c)
      BY <3>3 DEF Retry, NoCall
    <3> QED
      BY <1>2, <3>1, <3>2, <3>3
  <2>2. Deserved(x)'
    BY <2>1 DEF Deserved
  <2>3. UNCHANGED <<date, first, quota, grants>>
    BY <1>2 DEF CallBegin, CallError, Retry
  <2> QED
    BY <1>i, <2>1, <2>2, <2>3, EarnedMoves
<1>3. ASSUME NEW c \in Calls, Reserve(c), ~Grant(c) PROVE EarnedInv'
  <2>1. PICK x : x = [call[c] EXCEPT !.step = "read"]
    OBVIOUS
  <2>2. /\ call' = [call EXCEPT ![c] = x] /\ UNCHANGED <<date, first, quota, grants>>
        /\ ~BelowLimits
    BY <1>3, <2>1 DEF Reserve
  <2>3. ~Stale => grants.day >= Daily \/ grants.month >= Monthly
    BY <2>2, LimitIsEarned
  <2>4. x.step = "read"
    BY <1>t, <2>1 DEF CallRecords
  <2>5. Deserved(x)'
    BY <2>2, <2>3, <2>4 DEF Deserved, Stale
  <2> QED
    BY <1>i, <2>2, <2>5, EarnedMoves
<1>4. ASSUME NEW c \in Calls, Decide(c) PROVE EarnedInv'
  <2>1. PICK b \in CallRecords : b = call[c]
    BY <1>t
  <2>2. PICK x : x = IF Stale THEN [b EXCEPT !.step = "reset", !.day = date, !.first = first]
                     ELSE [NoCall EXCEPT !.step = "refused"]
    OBVIOUS
  <2>3. call' = [call EXCEPT ![c] = x] /\ UNCHANGED <<date, first, quota, grants>>
    BY <1>4, <2>1, <2>2 DEF Decide
  <2>4. x.step = "refused" \/ (x.step = "reset" /\ x.day = date /\ x.first = first)
    BY <2>2 DEF NoCall, CallRecords
  <2>5. Deserved(x)'
    BY <2>3, <2>4 DEF Deserved
  <2> QED
    BY <1>i, <2>3, <2>5, EarnedMoves
<1>5. ASSUME NEW c \in Calls, InlineReset(c) PROVE EarnedInv'
  <2>1. PICK b : b = call[c] /\ Deserved(b) /\ b.step = "reset"
    BY <1>5 DEF EarnedInv, InlineReset
  <2>2. PICK x : x = [NoCall EXCEPT !.step = "retry", !.began = b.began]
    OBVIOUS
  <2>3. /\ quota' = [today |-> 0, month |-> 0, lastDaily |-> b.day, lastMonthly |-> b.first]
        /\ UNCHANGED <<date, first, grants>>
        /\ call' = [ResetSeen(Calls \ {c}) EXCEPT ![c] = x]
    BY <1>5, <2>1, <2>2 DEF InlineReset
  <2>4. x.step = "retry" /\ x.began = b.began
    BY <2>2 DEF NoCall
  <2>5. Deserved(x)'
    <3>1. b.began = date => b.day = date /\ b.first = first
      BY <2>1 DEF Deserved
    <3>2. b.began = date => quota'.lastDaily = date' /\ quota'.lastMonthly = first'
      BY <2>3, <3>1
    <3> QED
      BY <1>t, <2>3, <2>4, <3>2 DEF Deserved, Stale
  <2>6. CountersEarned'
    BY <1>t, <2>3 DEF CountersEarned
  <2>7. /\ \A d \in Calls \ {c} : call'[d] = ResetSeen(Calls \ {c})[d]
        /\ call'[c] = x
    BY <2>3 DEF ResetSeen
  <2>8. \A d \in Calls \ (Calls \ {c}) : Deserved(call[d])'
    BY <2>5, <2>7 DEF Deserved, Stale
  <2> QED
    BY <1>i, <2>3, <2>6, <2>7, <2>8, EarnedResets
<1>6. ASSUME BeatDaily \/ BeatMonthly \/ AdminCommit PROVE EarnedInv'
  <2>1. call' = ResetSeen(Calls) /\ UNCHANGED <<date, first>>
    BY <1>6 DEF BeatDaily, BeatMonthly, AdminCommit
  <2>2. CountersEarned'
    <3>1. CASE BeatDaily
      <4>1. /\ quota'.today = 0 /\ quota'.month = quota.month /\ quota'.lastMonthly = quota.lastMonthly
            /\ grants' = grants
        BY <1>t, <3>1 DEF BeatDaily, Rows
      <4> QED
        BY <1>t, <2>1, <4>1 DEF CountersEarned
    <3>3. CASE BeatMonthly
      <4>1. /\ quota'.month = 0 /\ quota'.today = quota.today /\ quota'.lastDaily = quota.lastDaily
            /\ grants' = grants
        BY <1>t, <3>3 DEF BeatMonthly, Rows
      <4> QED
        BY <1>t, <2>1, <4>1 DEF CountersEarned
    <3>2. CASE AdminCommit
      <4>1. /\ quota'.today = (IF admin.today THEN 0 ELSE quota.today)
            /\ quota'.month = (IF admin.month THEN 0 ELSE quota.month)
            /\ quota'.lastDaily = quota.lastDaily /\ quota'.lastMonthly = quota.lastMonthly
            /\ grants'.day = (IF admin.today THEN 0 ELSE grants.day)
            /\ grants'.month = (IF admin.month THEN 0 ELSE grants.month)
        BY <1>t, <3>2 DEF AdminCommit, Rows
      <4> QED
        BY <1>t, <2>1, <4>1 DEF CountersEarned
    <3> QED
      BY <1>6, <3>1, <3>2, <3>3
  <2> QED
    BY <1>i, <2>1, <2>2, EarnedResets
<1>7. ASSUME Midnight PROVE EarnedInv'
  <2>1. date' = date + 1 /\ quota' = quota /\ call' = call /\ first' \in {first, date + 1}
          /\ (first' = first /\ date + 1 \notin Firsts => grants'.month = grants.month)
          /\ (first' = first => date + 1 \notin Firsts)
    BY <1>7, <1>t DEF Midnight
  <2>2. \A c \in Calls : call[c].began <= date /\ call[c].began \in Nat
    BY <1>t DEF EarnedInv, QuotaInv, Calendar, Past, CallRecords
  <2>3. \A c \in Calls : Deserved(call[c])'
    BY <1>t, <2>1, <2>2 DEF Deserved
  <2>4. quota.lastDaily <= date /\ quota.lastMonthly <= date
    BY DEF EarnedInv, QuotaInv, Calendar
  <2>5. CountersEarned'
    <3>1. quota'.lastDaily < date'
      BY <1>t, <2>1, <2>4 DEF Rows
    <3>2. quota'.lastMonthly >= first' => quota'.month <= grants'.month
      <4>1. CASE first' = first
        BY <1>t, <2>1, <4>1 DEF CountersEarned
      <4>2. CASE first' = date + 1
        BY <1>t, <2>1, <2>4, <4>2 DEF Rows
      <4> QED
        BY <2>1, <4>1, <4>2
    <3> QED
      BY <1>t, <2>1, <3>1, <3>2 DEF CountersEarned, Rows
  <2> QED
    BY <1>i, <2>3, <2>5 DEF EarnedInv
<1>8. ASSUME AdminRead \/ UNCHANGED quotaVars PROVE EarnedInv'
  <2>1. UNCHANGED <<date, first, quota, call, grants>>
    BY <1>8 DEF AdminRead, quotaVars
  <2> QED
    BY <1>i, <2>1 DEF EarnedInv, CountersEarned, Deserved, Stale
<1> QED
  BY <1>1, <1>2, <1>3, <1>4, <1>5, <1>6, <1>7, <1>8 DEF QuotaNext, Reserve, Retry

\* A request is refused on the day it began only for a limit that was granted on that day or in
\* that month, unless another reset the row while it was deciding.
THEOREM RefusalsAlwaysEarned == QuotaSpec => RefusalsAreEarned
<1> DEFINE Earned == \A c \in Calls :
                       /\ call[c].step \in {"read", "retry"} /\ call'[c].step = "refused"
                       /\ call[c].began = date /\ ~call[c].reset
                       => grants.day >= Daily \/ grants.month >= Monthly
<1>1. EarnedInv /\ [QuotaNext]_quotaVars => [Earned]_quotaVars
  <2> SUFFICES ASSUME EarnedInv, QuotaNext, NEW c \in Calls,
                      call[c].step \in {"read", "retry"}, call'[c].step = "refused",
                      call[c].began = date, ~call[c].reset
               PROVE  grants.day >= Daily \/ grants.month >= Monthly
    OBVIOUS
  <2>1. call \in [Calls -> CallRecords] /\ call[c] \in CallRecords /\ Deserved(call[c])
    BY DEF EarnedInv, QuotaInv, QuotaTypeOK
  <2>2. (call[c].step = "read" /\ ~Stale) \/ (call[c].step = "retry" /\ ~BelowLimits)
    <3>1. call'[c].step # call[c].step
      BY <2>1
    <3>2. ~(call' = ResetSeen(Calls)) /\ call' # call
      BY <3>1, ResetSeenType DEF EarnedInv, QuotaInv
    <3>3. PICK d \in Calls : \/ CallBegin(d) \/ Reserve(d) \/ Decide(d)
                             \/ InlineReset(d) \/ Retry(d) \/ CallError(d)
      BY <3>2 DEF QuotaNext, BeatDaily, BeatMonthly, AdminRead, AdminCommit, Midnight
    <3>4. CASE InlineReset(d)
      <4>1. c # d => call'[c] = ResetSeen(Calls \ {d})[c]
        BY <3>4 DEF InlineReset, ResetSeen
      <4>2. c # d => call'[c].step = call[c].step
        BY <4>1, ResetSeenType DEF EarnedInv, QuotaInv
      <4> QED
        BY <3>1, <3>4, <4>2 DEF InlineReset
    <3>5. CASE ~InlineReset(d)
      <4>1. \E x : call' = [call EXCEPT ![d] = x]
        BY <3>3, <3>5 DEF CallBegin, Reserve, Grant, Decide, Retry, CallError
      <4>2. c = d
        BY <2>1, <3>1, <4>1
      <4>3. ~CallBegin(c) /\ ~Grant(c) /\ ~CallError(c)
        BY <2>1 DEF CallBegin, Grant, CallError, NoCall
      <4>4. ~Reserve(c)
        BY <4>3 DEF Reserve
      <4>5. Decide(c) => call[c].step = "read" /\ ~Stale
        BY <2>1 DEF Decide, CallRecords
      <4>6. Retry(c) => call[c].step = "retry" /\ ~BelowLimits
        BY <4>3 DEF Retry
      <4> QED
        BY <3>3, <3>5, <4>2, <4>3, <4>4, <4>5, <4>6
    <3> QED
      BY <3>4, <3>5
  <2> QED
    BY <2>1, <2>2, LimitIsEarned DEF Deserved
<1>2. EarnedInv /\ [QuotaNext]_quotaVars => EarnedInv'
  BY EarnedInvStep
<1>3. QuotaInit => EarnedInv
  BY QuotaInvInit, QuotaAssumption DEF QuotaInit, EarnedInv, CountersEarned, Deserved, NoCall
<1>4. QuotaSpec => [][Earned]_quotaVars
  BY <1>1, <1>2, <1>3, PTL DEF QuotaSpec
<1> QED
  BY <1>4 DEF RefusalsAreEarned

--------------------------------------------------------------------------------
(* The owner's seat and the member count of Workspaces, for every number of *)
(* people, invites and requests.                                            *)

SeatRecords == [status : {"none", "active", "left"}, role : {"owner"} \cup Roles]

ActRecords == [kind : {"idle", "add", "accept", "role", "remove", "invite"},
               who : People \cup {NoOne}, role : {"owner"} \cup Roles,
               invite : Invites \cup {NoOne}, seat : SeatRecords, count : Nat]

InviteRecords == [status : {"none", "pending", "accepted", "expired", "declined"},
                  who : People \cup {NoOne}, role : {"owner"} \cup Roles]

WorkspaceTypeOK ==
  /\ seats \in [People -> SeatRecords]
  /\ count \in Nat
  /\ invites \in [Invites -> InviteRecords]
  /\ act \in [Actions -> ActRecords]
  /\ removed \in BOOLEAN

\* No request and no invite is about the owner: add and invite refuse an active member,
\* which the owner is, and role and remove refuse the owner.
NotTheOwner ==
  /\ \A r \in Actions : act[r].kind # "idle" => act[r].who \in People \ {Owner}
  /\ \A r \in Actions : act[r].kind = "accept" =>
       act[r].invite \in Invites /\ invites[act[r].invite].status # "none"
  /\ \A i \in Invites : invites[i].status # "none" => invites[i].who \in People \ {Owner}

WorkspaceInv == WorkspaceTypeOK /\ NotTheOwner /\ OwnerKeepsSeat /\ NoIncrementLost

\* The members are a finite set, and a seat taken adds at most one.
LEMMA OneMoreMember ==
  ASSUME NEW u \in People, seats \in [People -> SeatRecords],
         NEW s \in SeatRecords, seats' = [seats EXCEPT ![u] = s]
  PROVE  /\ Cardinality(Members) \in Nat
         /\ Cardinality(Members') \in Nat
         /\ Cardinality(Members') <= Cardinality(Members) + 1
<1>1. /\ IsFiniteSet(Members) /\ Cardinality(Members) \in Nat
      /\ IsFiniteSet(Members') /\ Cardinality(Members') \in Nat
  BY WorkspacesAssumption, FS_Subset, FS_CardinalityType DEF Members
<1>2. /\ IsFiniteSet(Members \cup {u})
      /\ Cardinality(Members \cup {u}) = (IF u \in Members THEN Cardinality(Members)
                                          ELSE Cardinality(Members) + 1)
  BY <1>1, FS_AddElement
<1>3. Members' \subseteq Members \cup {u}
  BY DEF Members, Active
<1>4. Cardinality(Members') <= Cardinality(Members \cup {u})
  BY <1>2, <1>3, FS_Subset
<1> QED
  BY <1>1, <1>2, <1>4

\* At creation the owner is the one member.
LEMMA WorkspaceInvInit == WorkspaceInit => WorkspaceInv
<1> SUFFICES ASSUME WorkspaceInit PROVE WorkspaceInv
  OBVIOUS
<1>1. WorkspaceTypeOK
  <2>1. seats \in [People -> SeatRecords]
    BY DEF WorkspaceInit, SeatRecords, NoSeat, Roles
  <2>2. invites \in [Invites -> InviteRecords]
    BY DEF WorkspaceInit, InviteRecords, NoInvite, Roles
  <2>3. NoAct \in ActRecords
    BY DEF ActRecords, NoAct, NoSeat, SeatRecords, Roles
  <2>4. act \in [Actions -> ActRecords]
    BY <2>3 DEF WorkspaceInit
  <2> QED
    BY <2>1, <2>2, <2>4 DEF WorkspaceInit, WorkspaceTypeOK
<1>2. NotTheOwner
  BY DEF WorkspaceInit, NotTheOwner, NoAct, NoInvite
<1>3. OwnerKeepsSeat
  BY WorkspacesAssumption DEF WorkspaceInit, OwnerKeepsSeat
<1>4. NoIncrementLost
  <2>1. Members = {Owner}
    BY WorkspacesAssumption DEF WorkspaceInit, Members, Active, NoSeat
  <2>2. Cardinality(Members) = 1
    BY <2>1, FS_Singleton
  <2> QED
    BY <2>2 DEF WorkspaceInit, NoIncrementLost
<1> QED
  BY <1>1, <1>2, <1>3, <1>4 DEF WorkspaceInv

\* Steps that leave the seats, the count and the invites alone: what a request is about
\* is all that has to be looked at.
LEMMA ActMoves ==
  ASSUME WorkspaceInv, NEW r \in Actions, NEW x \in ActRecords,
         act' = [act EXCEPT ![r] = x],
         UNCHANGED <<seats, count, invites, removed>>,
         x.kind # "idle" => x.who \in People \ {Owner},
         x.kind = "accept" => x.invite \in Invites /\ invites[x.invite].status # "none"
  PROVE  WorkspaceInv'
<1>1. WorkspaceTypeOK'
  BY DEF WorkspaceInv, WorkspaceTypeOK
<1>2. NotTheOwner'
  BY DEF WorkspaceInv, WorkspaceTypeOK, NotTheOwner
<1>3. OwnerKeepsSeat' /\ NoIncrementLost'
  BY DEF WorkspaceInv, OwnerKeepsSeat, NoIncrementLost, Members, Active
<1> QED
  BY <1>1, <1>2, <1>3 DEF WorkspaceInv

\* A finished request is about nobody.
LEMMA NoActType == NoAct \in ActRecords /\ NoAct.kind = "idle"
BY DEF ActRecords, NoAct, NoSeat, SeatRecords, Roles

LEMMA DoneKeeps ==
  ASSUME WorkspaceInv, NEW r \in Actions, Done(r)
  PROVE  /\ act' \in [Actions -> ActRecords]
         /\ \A q \in Actions : act'[q].kind # "idle" => act'[q].who \in People \ {Owner}
         /\ \A q \in Actions : act'[q].kind = "accept" =>
              act[q].kind = "accept" /\ act'[q].invite = act[q].invite
<1>1. act \in [Actions -> ActRecords] /\ act' = [act EXCEPT ![r] = NoAct]
  BY DEF WorkspaceInv, WorkspaceTypeOK, Done
<1> QED
  BY <1>1, NoActType DEF WorkspaceInv, NotTheOwner

\* The loads of add, role, invite and remove.
LEMMA StartStep ==
  ASSUME WorkspaceInv, NEW r \in Actions, NEW u \in People \ {Owner},
         NEW kind \in {"add", "role", "remove", "invite"}, NEW role \in {"owner"} \cup Roles,
         Start(r, kind, u, role)
  PROVE  WorkspaceInv'
<1> DEFINE x == [kind |-> kind, who |-> u, role |-> role, invite |-> NoOne,
                 seat |-> IF kind \in {"add", "role"} THEN seats[u] ELSE NoSeat,
                 count |-> IF kind \in {"add", "remove"} THEN count ELSE 0]
<1>1. seats[u] \in SeatRecords /\ NoSeat \in SeatRecords /\ count \in Nat
  BY NoActType DEF WorkspaceInv, WorkspaceTypeOK, NoSeat, SeatRecords, Roles
<1>3. x \in ActRecords /\ x.kind = kind /\ x.who = u
  BY <1>1 DEF ActRecords
<1>4. act' = [act EXCEPT ![r] = x] /\ UNCHANGED <<seats, count, invites, removed>>
  BY DEF Start
<1>5. x.kind # "accept"
  BY <1>3
<1> HIDE DEF x
<1> QED
  BY <1>3, <1>4, <1>5, ActMoves

\* add_member, update_member, create_invite and remove_member load what they check.
LEMMA LoadStep ==
  ASSUME WorkspaceInv, NEW r \in Actions, NEW u \in People, NEW role \in Roles,
         AddLoad(r, u, role) \/ RoleLoad(r, u, role) \/ InviteLoad(r, u, role)
           \/ RemoveLoad(r, u)
  PROVE  WorkspaceInv'
<1>1. Active(Owner)
  BY DEF WorkspaceInv, OwnerKeepsSeat, Active
<1>2. seats[u].role \in {"owner"} \cup Roles
  BY DEF WorkspaceInv, WorkspaceTypeOK, SeatRecords
<1>3. u # Owner
  BY <1>1 DEF AddLoad, RoleLoad, InviteLoad, RemoveLoad, Removable
<1>4. CASE AddLoad(r, u, role)
  BY <1>3, <1>4, StartStep DEF AddLoad
<1>5. CASE RoleLoad(r, u, role)
  BY <1>3, <1>5, StartStep DEF RoleLoad
<1>6. CASE InviteLoad(r, u, role)
  BY <1>3, <1>6, StartStep DEF InviteLoad
<1>7. CASE RemoveLoad(r, u)
  BY <1>2, <1>3, <1>7, StartStep DEF RemoveLoad, Roles
<1> QED
  BY <1>4, <1>5, <1>6, <1>7

\* accept_invite loads a pending invite and the invitee's seat.
LEMMA AcceptLoadStep ==
  ASSUME WorkspaceInv, NEW r \in Actions, NEW i \in Invites, AcceptLoad(r, i)
  PROVE  WorkspaceInv'
<1> DEFINE x == [kind |-> "accept", who |-> invites[i].who, role |-> invites[i].role,
                 invite |-> i, seat |-> seats[invites[i].who], count |-> count]
<1>1. invites[i].who \in People \ {Owner} /\ invites[i] \in InviteRecords
  BY DEF AcceptLoad, WorkspaceInv, WorkspaceTypeOK, NotTheOwner
<1>2. x \in ActRecords
  BY <1>1 DEF ActRecords, InviteRecords, WorkspaceInv, WorkspaceTypeOK
<1>3. x.who \in People \ {Owner} /\ x.invite \in Invites /\ invites[x.invite].status # "none"
  BY <1>1 DEF AcceptLoad
<1>4. act' = [act EXCEPT ![r] = x] /\ UNCHANGED <<seats, count, invites, removed>>
  BY DEF AcceptLoad
<1> HIDE DEF x
<1> QED
  BY <1>2, <1>3, <1>4, ActMoves

\* A seat that is taken keeps its type, and another seat than the owner's changes.
LEMMA SeatTaken ==
  ASSUME WorkspaceInv, NEW u \in People \ {Owner}, NEW seen \in SeatRecords,
         NEW role \in {"owner"} \cup Roles,
         seats' = [seats EXCEPT ![u] = Seated(u, seen, role)], count' = count + 1,
         removed' = removed
  PROVE  /\ seats' \in [People -> SeatRecords] /\ count' \in Nat
         /\ OwnerKeepsSeat' /\ NoIncrementLost'
<1>1. seats \in [People -> SeatRecords] /\ count \in Nat
  BY DEF WorkspaceInv, WorkspaceTypeOK
<1>2. Seated(u, seen, role) \in SeatRecords
  BY <1>1 DEF Seated, SeatRecords
<1>3. OwnerKeepsSeat'
  BY <1>1, WorkspacesAssumption DEF WorkspaceInv, OwnerKeepsSeat
<1>4. NoIncrementLost'
  <2>1. /\ Cardinality(Members) \in Nat /\ Cardinality(Members') \in Nat
        /\ Cardinality(Members') <= Cardinality(Members) + 1
    BY <1>1, <1>2, OneMoreMember
  <2> QED
    BY <1>1, <2>1 DEF WorkspaceInv, NoIncrementLost
<1> QED
  BY <1>1, <1>2, <1>3, <1>4

\* The commits of add_member and accept_invite.
LEMMA SeatStep ==
  ASSUME WorkspaceInv, NEW r \in Actions, AddCommit(r) \/ AcceptCommit(r)
  PROVE  WorkspaceInv'
<1> DEFINE x == act[r]
<1>t. WorkspaceTypeOK /\ x \in ActRecords
  BY DEF WorkspaceInv, WorkspaceTypeOK
<1>d. Done(r) /\ removed' = removed
  BY DEF AddCommit, AcceptCommit
<1>k. x.kind \in {"add", "accept"}
  BY DEF AddCommit, AcceptCommit
<1>w. x.who \in People \ {Owner} /\ (x.kind = "accept" => x.invite \in Invites /\ invites[x.invite].status # "none")
  BY <1>k DEF WorkspaceInv, NotTheOwner
<1>s. x.seat \in SeatRecords /\ x.role \in {"owner"} \cup Roles
  BY <1>t DEF ActRecords
<1>i. /\ invites' \in [Invites -> InviteRecords]
      /\ \A i \in Invites : /\ invites[i].status # "none" => invites'[i].status # "none"
                            /\ invites'[i].status # "none" => invites'[i].who \in People \ {Owner}
  <2>1. CASE invites' = invites
    BY <1>t, <2>1 DEF WorkspaceInv, WorkspaceTypeOK, NotTheOwner
  <2>2. CASE /\ x.invite \in Invites
             /\ x.kind = "accept" /\ x.who \in People \ {Owner}
             /\ invites' = [invites EXCEPT ![x.invite].status = "accepted"]
             /\ invites[x.invite].status # "none"
    BY <1>t, <2>2 DEF WorkspaceInv, WorkspaceTypeOK, NotTheOwner, InviteRecords
  <2> QED
    BY <1>w, <2>1, <2>2 DEF AddCommit, AcceptCommit
<1>c. /\ seats' \in [People -> SeatRecords] /\ count' \in Nat
      /\ OwnerKeepsSeat' /\ NoIncrementLost'
  <2>1. CASE UNCHANGED <<seats, count>>
    BY <1>t, <1>d, <2>1 DEF WorkspaceInv, WorkspaceTypeOK, OwnerKeepsSeat, NoIncrementLost, Members, Active
  <2>2. CASE /\ seats' = [seats EXCEPT ![x.who] = Seated(x.who, x.seat, x.role)]
             /\ count' = count + 1
    <3> HIDE DEF x
    <3> QED
      BY <1>w, <1>s, <1>d, <2>2, SeatTaken
  <2> QED
    BY <2>1, <2>2 DEF AddCommit, AcceptCommit, Raised
<1> HIDE DEF x
<1> QED
  BY <1>t, <1>d, <1>i, <1>c, DoneKeeps DEF WorkspaceInv, WorkspaceTypeOK, NotTheOwner

\* Commits that change neither a status nor the count: a role, an expired or new or
\* cancelled invite.
LEMMA RoleStep ==
  ASSUME WorkspaceInv, NEW r \in Actions, RoleCommit(r)
  PROVE  WorkspaceInv'
<1> DEFINE x == act[r]
<1>t. WorkspaceTypeOK /\ x \in ActRecords
  BY DEF WorkspaceInv, WorkspaceTypeOK
<1>e. /\ Done(r) /\ UNCHANGED <<count, invites, removed>>
      /\ seats' = [seats EXCEPT ![x.who].role = IF x.seat.role = x.role THEN @ ELSE x.role]
  BY DEF RoleCommit
<1>w. x.who \in People \ {Owner} /\ x.role \in {"owner"} \cup Roles
  BY <1>t DEF RoleCommit, WorkspaceInv, NotTheOwner, ActRecords
<1> HIDE DEF x
<1>1. seats' \in [People -> SeatRecords]
  BY <1>t, <1>e, <1>w DEF WorkspaceTypeOK, SeatRecords
<1>2. OwnerKeepsSeat'
  BY <1>t, <1>e, <1>w, WorkspacesAssumption DEF WorkspaceInv, WorkspaceTypeOK, OwnerKeepsSeat
<1>3. Members' = Members
  BY <1>t, <1>e, <1>w DEF WorkspaceTypeOK, SeatRecords, Members, Active
<1>4. NoIncrementLost'
  BY <1>e, <1>3 DEF WorkspaceInv, NoIncrementLost
<1> QED
  BY <1>t, <1>e, <1>1, <1>2, <1>4, DoneKeeps DEF WorkspaceInv, WorkspaceTypeOK, NotTheOwner

LEMMA RemoveStep ==
  ASSUME WorkspaceInv, NEW r \in Actions, RemoveCommit(r)
  PROVE  WorkspaceInv'
<1> DEFINE x == act[r]
           lower == IF x.count > 1 THEN x.count - 1 ELSE 1
<1>t. WorkspaceTypeOK /\ x \in ActRecords
  BY DEF WorkspaceInv, WorkspaceTypeOK
<1>e. /\ Done(r) /\ UNCHANGED invites /\ removed' = TRUE
      /\ seats' = [seats EXCEPT ![x.who].status = "left"]
      /\ count' = IF lower = x.count THEN count ELSE lower
  BY DEF RemoveCommit
<1>w. x.who \in People \ {Owner} /\ x.count \in Nat
  BY <1>t DEF RemoveCommit, WorkspaceInv, NotTheOwner, ActRecords
<1>1. seats' \in [People -> SeatRecords]
  BY <1>t, <1>e, <1>w DEF WorkspaceTypeOK, SeatRecords
<1>2. OwnerKeepsSeat'
  BY <1>t, <1>e, <1>w, WorkspacesAssumption DEF WorkspaceInv, WorkspaceTypeOK, OwnerKeepsSeat
<1>3. count' \in Nat
  BY <1>t, <1>e, <1>w DEF WorkspaceTypeOK
<1>4. NoIncrementLost'
  BY <1>e DEF NoIncrementLost
<1> QED
  BY <1>t, <1>e, <1>1, <1>2, <1>3, <1>4, DoneKeeps DEF WorkspaceInv, WorkspaceTypeOK, NotTheOwner

\* Steps on the invites alone.
LEMMA InvitesMove ==
  ASSUME WorkspaceInv, NEW i \in Invites, NEW v \in InviteRecords,
         invites' = [invites EXCEPT ![i] = v],
         v.status # "none", v.who \in People \ {Owner},
         UNCHANGED <<seats, count, removed>>,
         act' = act \/ \E r \in Actions : Done(r)
  PROVE  WorkspaceInv'
<1>t. WorkspaceTypeOK
  BY DEF WorkspaceInv
<1>1. /\ invites' \in [Invites -> InviteRecords]
      /\ \A j \in Invites : /\ invites[j].status # "none" => invites'[j].status # "none"
                            /\ invites'[j].status # "none" => invites'[j].who \in People \ {Owner}
  BY <1>t DEF WorkspaceInv, WorkspaceTypeOK, NotTheOwner
<1>2. /\ act' \in [Actions -> ActRecords]
      /\ \A q \in Actions : act'[q].kind # "idle" => act'[q].who \in People \ {Owner}
      /\ \A q \in Actions : act'[q].kind = "accept" =>
           act[q].kind = "accept" /\ act'[q].invite = act[q].invite
  <2>1. CASE act' = act
    BY <1>t, <2>1 DEF WorkspaceInv, WorkspaceTypeOK, NotTheOwner
  <2>2. CASE \E r \in Actions : Done(r)
    BY <2>2, DoneKeeps
  <2> QED
    BY <2>1, <2>2
<1>3. OwnerKeepsSeat' /\ NoIncrementLost'
  BY DEF WorkspaceInv, OwnerKeepsSeat, NoIncrementLost, Members, Active
<1>4. WorkspaceTypeOK'
  BY <1>t, <1>1, <1>2 DEF WorkspaceTypeOK
<1>5. NotTheOwner'
  BY <1>1, <1>2 DEF WorkspaceInv, NotTheOwner
<1> QED
  BY <1>3, <1>4, <1>5 DEF WorkspaceInv

LEMMA InviteStep ==
  ASSUME WorkspaceInv,
         \/ \E r \in Actions : AcceptExpired(r) \/ \E i \in Invites : InviteCommit(r, i)
         \/ \E i \in Invites : CancelInvite(i)
  PROVE  WorkspaceInv'
<1>t. /\ invites \in [Invites -> InviteRecords] /\ act \in [Actions -> ActRecords]
  BY DEF WorkspaceInv, WorkspaceTypeOK
<1>1. ASSUME NEW r \in Actions, AcceptExpired(r) PROVE WorkspaceInv'
  <2> DEFINE i == act[r].invite
             v == [invites[i] EXCEPT !.status = "expired"]
  <2>1. /\ i \in Invites /\ invites[i].status # "none" /\ invites[i].who \in People \ {Owner}
    BY <1>1 DEF AcceptExpired, WorkspaceInv, NotTheOwner
  <2>2. invites[i] \in InviteRecords
    BY <1>t, <2>1
  <2> HIDE DEF i
  <2>3. v \in InviteRecords /\ v.status = "expired" /\ v.who = invites[i].who
    BY <2>2 DEF InviteRecords
  <2>4. invites' = [invites EXCEPT ![i] = v] /\ Done(r) /\ UNCHANGED <<seats, count, removed>>
    BY <1>1 DEF AcceptExpired, i
  <2>5. v.status # "none" /\ v.who \in People \ {Owner}
    BY <2>1, <2>3
  <2> HIDE DEF v
  <2> QED
    BY <2>1, <2>3, <2>4, <2>5, InvitesMove
<1>2. ASSUME NEW r \in Actions, NEW i \in Invites, InviteCommit(r, i) PROVE WorkspaceInv'
  <2> DEFINE v == [status |-> "pending", who |-> act[r].who, role |-> act[r].role]
  <2>1. act[r].who \in People \ {Owner} /\ act[r].role \in {"owner"} \cup Roles
    BY <1>t, <1>2 DEF InviteCommit, WorkspaceInv, NotTheOwner, ActRecords
  <2>2. v \in InviteRecords /\ v.status # "none" /\ v.who \in People \ {Owner}
    BY <2>1 DEF InviteRecords
  <2>3. invites' = [invites EXCEPT ![i] = v] /\ Done(r) /\ UNCHANGED <<seats, count, removed>>
    BY <1>2 DEF InviteCommit
  <2> HIDE DEF v
  <2> QED
    BY <2>2, <2>3, InvitesMove
<1>3. ASSUME NEW i \in Invites, CancelInvite(i) PROVE WorkspaceInv'
  <2> DEFINE v == [invites[i] EXCEPT !.status = "declined"]
  <2>1. invites[i] \in InviteRecords /\ invites[i].who \in People \ {Owner}
    BY <1>t, <1>3 DEF CancelInvite, WorkspaceInv, NotTheOwner
  <2>2. v \in InviteRecords /\ v.status # "none" /\ v.who \in People \ {Owner}
    BY <2>1 DEF InviteRecords
  <2>3. invites' = [invites EXCEPT ![i] = v] /\ act' = act /\ UNCHANGED <<seats, count, removed>>
    BY <1>3 DEF CancelInvite
  <2> HIDE DEF v
  <2> QED
    BY <2>2, <2>3, InvitesMove
<1> QED
  BY <1>1, <1>2, <1>3

\* A request that fails has written nothing.
LEMMA ErrorStep == ASSUME WorkspaceInv, NEW r \in Actions, ActError(r) PROVE WorkspaceInv'
BY NoActType, ActMoves DEF ActError, Done

\* Every step keeps the invariant.
LEMMA WorkspaceInvStep == WorkspaceInv /\ [WorkspaceNext]_workspaceVars => WorkspaceInv'
<1> SUFFICES ASSUME WorkspaceInv, [WorkspaceNext]_workspaceVars PROVE WorkspaceInv'
  OBVIOUS
<1>1. CASE \E r \in Actions, u \in People :
             \/ RemoveLoad(r, u)
             \/ \E role \in Roles : AddLoad(r, u, role) \/ RoleLoad(r, u, role)
                                      \/ InviteLoad(r, u, role)
  <2>1. "viewer" \in Roles
    BY DEF Roles
  <2> QED
    BY <1>1, <2>1, LoadStep
<1>2. CASE \E r \in Actions : \/ \E i \in Invites : AcceptLoad(r, i)
                              \/ AddCommit(r) \/ AcceptCommit(r)
                              \/ RoleCommit(r) \/ RemoveCommit(r) \/ ActError(r)
  BY <1>2, AcceptLoadStep, SeatStep, RoleStep, RemoveStep, ErrorStep
<1>3. CASE \/ \E r \in Actions : AcceptExpired(r) \/ \E i \in Invites : InviteCommit(r, i)
           \/ \E i \in Invites : CancelInvite(i)
  BY <1>3, InviteStep
<1>4. CASE UNCHANGED workspaceVars
  BY <1>4 DEF workspaceVars, WorkspaceInv, WorkspaceTypeOK, NotTheOwner, OwnerKeepsSeat,
              NoIncrementLost, Members, Active
<1> QED
  BY <1>1, <1>2, <1>3, <1>4 DEF WorkspaceNext

\* The invariant of a workspace, its invites and the requests under way.
THEOREM WorkspaceInvariant == WorkspaceSpec => []WorkspaceInv
<1> QED
  BY WorkspaceInvInit, WorkspaceInvStep, PTL DEF WorkspaceSpec

\* The owner stays an active member with the owner's role.
THEOREM OwnerStays == WorkspaceSpec => []OwnerKeepsSeat
<1>1. WorkspaceInv => OwnerKeepsSeat
  BY DEF WorkspaceInv
<1> QED
  BY <1>1, WorkspaceInvariant, PTL

\* Concurrent adds and accepts lose no increment of the member count.
THEOREM IncrementsAreKept == WorkspaceSpec => []NoIncrementLost
<1>1. WorkspaceInv => NoIncrementLost
  BY DEF WorkspaceInv
<1> QED
  BY <1>1, WorkspaceInvariant, PTL

--------------------------------------------------------------------------------
(* An administrator remains.  A request does not cost its own author the    *)
(* administration, and one committed by somebody who still is an            *)
(* administrator leaves that one.                                           *)

Account == [admin : BOOLEAN, active : BOOLEAN, deleted : BOOLEAN]

Update == [by : Accounts \cup {Nobody}, who : Accounts \cup {Nobody}, changes : Bodies]

AdminTypes ==
  /\ account \in [Accounts -> Account]
  /\ update \in [Updates -> Update]
  /\ outdated \in BOOLEAN

\* What is about to be written to its author's account does not step down.
AuthorsStay ==
  \A r \in Updates : update[r].by # Nobody =>
    /\ update[r].by \in Accounts /\ update[r].who \in Accounts
    /\ update[r].who = update[r].by => ~StepsDown(update[r].changes)

AdminInv == AdminTypes /\ AuthorsStay /\ AnAdminRemains

\* A body is a function from some of the columns to truth values.
LEMMA BodyType ==
  ASSUME NEW body \in Bodies
  PROVE  /\ DOMAIN body \subseteq Columns
         /\ body \in [DOMAIN body -> BOOLEAN]
BY DEF Bodies

\* What differs from the account as loaded is a body too, and steps down only if the whole does.
LEMMA ChangesType ==
  ASSUME NEW u \in Accounts, NEW body \in Bodies
  PROVE  /\ Changes(u, body) \in Bodies
         /\ ~StepsDown(body) => ~StepsDown(Changes(u, body))
<1> DEFINE S == {k \in DOMAIN body : account[u][k] # body[k]}
<1>1. /\ DOMAIN body \subseteq Columns
      /\ body \in [DOMAIN body -> BOOLEAN]
  BY BodyType
<1>2. S \in SUBSET Columns /\ S \subseteq DOMAIN body
  BY <1>1
<1>3. Changes(u, body) = [c \in S |-> body[c]]
  BY DEF Changes
<1>4. Changes(u, body) \in [S -> BOOLEAN]
  BY <1>1, <1>2, <1>3
<1>5. Changes(u, body) \in Bodies
  BY <1>2, <1>4 DEF Bodies
<1>6. DOMAIN Changes(u, body) = S /\ \A c \in S : Changes(u, body)[c] = body[c]
  BY <1>3
<1>7. ~StepsDown(body) => ~StepsDown(Changes(u, body))
  BY <1>2, <1>6 DEF StepsDown
<1> QED
  BY <1>5, <1>7

\* The empty body.
LEMMA NothingIsABody == NoUpdate \in Update
<1>1. <<>> \in [{} -> BOOLEAN]
  OBVIOUS
<1>2. <<>> \in Bodies
  BY <1>1 DEF Bodies
<1> QED
  BY <1>2 DEF NoUpdate, Update

LEMMA AdminInitially == AdministrationInit => AdminInv
<1> SUFFICES ASSUME AdministrationInit PROVE AdminInv
  OBVIOUS
<1>1. PICK founders \in (SUBSET Accounts) \ {{}} :
        account = [u \in Accounts |-> [admin |-> u \in founders, active |-> TRUE, deleted |-> FALSE]]
  BY DEF AdministrationInit
<1>2. account \in [Accounts -> Account]
  BY <1>1 DEF Account
<1>3. AdminTypes
  BY <1>2, NothingIsABody DEF AdministrationInit, AdminTypes
<1>4. AuthorsStay
  BY DEF AdministrationInit, AuthorsStay, NoUpdate
<1>4a. founders # {} /\ founders \subseteq Accounts
  BY <1>1
<1>5. PICK u \in founders : TRUE
  BY <1>4a
<1>6. u \in Accounts /\ RequireAdmin(u)
  BY <1>1, <1>4a, <1>5 DEF RequireAdmin, SignedIn
<1>7. AnAdminRemains
  BY <1>6 DEF AnAdminRemains
<1> QED
  BY <1>3, <1>4, <1>7 DEF AdminInv

LEMMA LoadKeeps ==
  ASSUME AdminInv, NEW r \in Updates, NEW a \in Accounts, NEW u \in Accounts, NEW body \in Bodies,
         UpdateLoad(r, a, u, body)
  PROVE  AdminInv'
<1> DEFINE x == [by |-> a, who |-> u, changes |-> Changes(u, body)]
<1>1. Changes(u, body) \in Bodies /\ (~StepsDown(body) => ~StepsDown(Changes(u, body)))
  BY ChangesType
<1>2. x \in Update
  BY <1>1 DEF Update
<1>3. AdminTypes'
  BY <1>2 DEF AdminInv, AdminTypes, UpdateLoad
<1>4. update'[r] = x /\ \A q \in Updates \ {r} : update'[q] = update[q]
  BY DEF AdminInv, AdminTypes, UpdateLoad
<1>5. x.who = x.by => ~StepsDown(x.changes)
  BY <1>1 DEF UpdateLoad, MayUpdate
<1>6. AuthorsStay'
  <2> SUFFICES ASSUME NEW q \in Updates, update'[q].by # Nobody
               PROVE  /\ update'[q].by \in Accounts /\ update'[q].who \in Accounts
                      /\ update'[q].who = update'[q].by => ~StepsDown(update'[q].changes)
    BY DEF AuthorsStay, StepsDown
  <2>1. CASE q = r
    BY <2>1, <1>4, <1>5
  <2>2. CASE q # r
    BY <2>2, <1>4 DEF AdminInv, AuthorsStay
  <2> QED
    BY <2>1, <2>2
<1>7. AnAdminRemains'
  BY DEF AdminInv, AnAdminRemains, RequireAdmin, SignedIn, UpdateLoad
<1> QED
  BY <1>3, <1>6, <1>7 DEF AdminInv

LEMMA ErrorKeeps ==
  ASSUME AdminInv, NEW r \in Updates, UpdateError(r) PROVE AdminInv'
<1>1. AdminTypes'
  BY NothingIsABody DEF AdminInv, AdminTypes, UpdateError
<1>2. AuthorsStay'
  BY DEF AdminInv, AdminTypes, AuthorsStay, UpdateError, NoUpdate, StepsDown
<1>3. AnAdminRemains'
  BY DEF AdminInv, AnAdminRemains, RequireAdmin, SignedIn, UpdateError
<1> QED
  BY <1>1, <1>2, <1>3 DEF AdminInv

LEMMA CommitKeeps ==
  ASSUME AdminInv, NEW r \in Updates, UpdateCommit(r) PROVE AdminInv'
<1> DEFINE x == update[r]
           next == [c \in Columns |-> IF c \in DOMAIN x.changes THEN x.changes[c] ELSE account[x.who][c]]
<1>1. /\ x \in Update /\ x.by \in Accounts /\ x.who \in Accounts
      /\ x.who = x.by => ~StepsDown(x.changes)
  BY DEF AdminInv, AdminTypes, AuthorsStay, UpdateCommit
<1>2. /\ DOMAIN x.changes \subseteq Columns
      /\ x.changes \in [DOMAIN x.changes -> BOOLEAN]
  BY <1>1, BodyType DEF Update
<1>3. account[x.who] \in Account
  BY <1>1 DEF AdminInv, AdminTypes
<1>4. next \in [Columns -> BOOLEAN]
  BY <1>2, <1>3 DEF Columns, Account
<1>5. next \in Account
  BY <1>4 DEF Columns, Account
<1>6. /\ account'[x.who] = next
      /\ \A u \in Accounts \ {x.who} : account'[u] = account[u]
      /\ account' \in [Accounts -> Account]
  BY <1>1, <1>5 DEF AdminInv, AdminTypes, UpdateCommit
<1>7. AdminTypes'
  BY <1>6, NothingIsABody DEF AdminInv, AdminTypes, UpdateCommit
<1>8. AuthorsStay'
  BY DEF AdminInv, AdminTypes, AuthorsStay, UpdateCommit, NoUpdate, StepsDown
<1>9. AnAdminRemains'
  <2> SUFFICES ASSUME ~outdated' PROVE \E u \in Accounts : RequireAdmin(u)'
    BY DEF AnAdminRemains
  <2>1. RequireAdmin(x.by)
    BY DEF UpdateCommit
  <2>2. CASE x.who # x.by
    <3>1. account'[x.by] = account[x.by]
      BY <1>1, <1>6, <2>2
    <3> QED
      BY <1>1, <2>1, <3>1 DEF RequireAdmin, SignedIn
  <2>3. CASE x.who = x.by
    <3>1. account'[x.by] = next
      BY <1>6, <2>3
    <3>2. ~StepsDown(x.changes)
      BY <1>1, <2>3
    <3>3. /\ next["admin"] /\ next["active"] /\ ~next["deleted"]
      BY <2>1, <2>3, <3>2 DEF RequireAdmin, SignedIn, StepsDown, Columns
    <3>4. next.admin /\ next.active /\ ~next.deleted
      BY <3>3
    <3> QED
      BY <1>1, <3>1, <3>4 DEF RequireAdmin, SignedIn
  <2> QED
    BY <2>2, <2>3
<1> QED
  BY <1>7, <1>8, <1>9 DEF AdminInv

LEMMA AdminStep == AdminInv /\ [AdministrationNext]_adminVars => AdminInv'
<1> SUFFICES ASSUME AdminInv, [AdministrationNext]_adminVars PROVE AdminInv'
  OBVIOUS
<1>1. CASE UNCHANGED adminVars
  BY <1>1 DEF adminVars, AdminInv, AdminTypes, AuthorsStay, AnAdminRemains, RequireAdmin, SignedIn, StepsDown
<1>2. CASE AdministrationNext
  BY <1>2, LoadKeeps, CommitKeeps, ErrorKeeps DEF AdministrationNext
<1> QED
  BY <1>1, <1>2

(* However the requests of administrators overlap, one remains who can sign in, unless a
   request was committed by somebody no longer an administrator (update_user, which
   keeps its author from stepping down and writes the changed columns only). *)
THEOREM AnAdminStays == AdministrationSpec => []AnAdminRemains
<1>1. AdminInv => AnAdminRemains
  BY DEF AdminInv
<1> QED
  BY <1>1, AdminInitially, AdminStep, PTL DEF AdministrationSpec

--------------------------------------------------------------------------------
(* The rate limiter *)

Answered(h) == hit[h].step \in {"admitted", "refused"}

HitStates == [step : {"idle", "stamped", "admitted", "refused"}, stamp : Nat]

RateTypes ==
  /\ lite \in BOOLEAN /\ clock \in Nat /\ expiry \in Nat /\ front \in Nat
  /\ hit \in [Hits -> HitStates]
  /\ members \subseteq Hits /\ uncounted \subseteq Hits
  /\ \A h \in Hits : hit[h].stamp <= clock

\* Answered requests are behind the front, those that left the set by a whole window, and
\* those in the set by no more than the key has to live.
Behind ==
  \A h \in Hits :
    /\ Answered(h) => hit[h].stamp <= front
    /\ Answered(h) /\ h \notin members /\ h \notin uncounted => hit[h].stamp + Window <= front
    /\ h \in members => Answered(h) /\ expiry # 0 /\ hit[h].stamp + Window <= expiry

InWindow(t) ==
  {h \in Hits \ uncounted : /\ hit[h].step = "admitted"
                            /\ t - Window < hit[h].stamp /\ hit[h].stamp <= t}

WindowsHold == \A t \in Int : Cardinality(InWindow(t)) <= Limit

RateInv == RateTypes /\ Behind /\ WindowsHold

LEMMA WindowCounts ==
  ASSUME NEW t
  PROVE  IsFiniteSet(InWindow(t)) /\ Cardinality(InWindow(t)) \in Nat
<1>1. InWindow(t) \in SUBSET Hits
  BY DEF InWindow
<1> QED BY <1>1, RateAssumption, FS_Subset, FS_CardinalityType

\* A set of requests that shrinks stays within the limit.
LEMMA FewerHold ==
  ASSUME WindowsHold, \A t \in Int : InWindow(t)' \subseteq InWindow(t)
  PROVE  WindowsHold'
<1> SUFFICES ASSUME NEW t \in Int PROVE Cardinality(InWindow(t)') <= Limit
  BY DEF WindowsHold
<1>1. Cardinality(InWindow(t)') <= Cardinality(InWindow(t)) /\ IsFiniteSet(InWindow(t)')
  BY WindowCounts, FS_Subset
<1>2. Cardinality(InWindow(t)') \in Nat
  BY <1>1, FS_CardinalityType
<1> QED BY <1>1, <1>2, WindowCounts, RateAssumption DEF WindowsHold

LEMMA PassInv ==
  ASSUME RateInv, Pass
  PROVE  RateInv'
<1>1. RateTypes' /\ Behind'
  BY DEF RateInv, RateTypes, Behind, Answered, Pass, HitStates
<1>2. \A t \in Int : InWindow(t)' = InWindow(t)
  BY DEF InWindow, Pass
<1> QED BY <1>1, <1>2, FewerHold DEF RateInv

LEMMA TakeStampInv ==
  ASSUME RateInv, NEW h \in Hits, TakeStamp(h)
  PROVE  RateInv'
<1>1. /\ hit' = [hit EXCEPT ![h] = [step |-> "stamped", stamp |-> clock]]
      /\ UNCHANGED <<lite, clock, members, expiry, front, uncounted>> /\ hit[h].step = "idle"
  BY DEF TakeStamp
<1>2. RateTypes'
  BY <1>1 DEF RateInv, RateTypes, HitStates
<1>3. Behind'
  BY <1>1 DEF RateInv, RateTypes, Behind, Answered
<1>4. \A t \in Int : InWindow(t)' \subseteq InWindow(t)
  BY <1>1 DEF RateInv, RateTypes, InWindow
<1> QED BY <1>2, <1>3, <1>4, FewerHold DEF RateInv

LEMMA FrontAdvances ==
  ASSUME RateTypes
  PROVE  /\ FrontNow \in Nat /\ front <= FrontNow
         /\ Expired => expiry <= FrontNow
         /\ \A h \in Hits : Greater(FrontNow, hit[h].stamp) \in Nat
              /\ Greater(FrontNow, hit[h].stamp) >= FrontNow
              /\ Greater(FrontNow, hit[h].stamp) >= hit[h].stamp
BY DEF RateTypes, FrontNow, Greater, HitStates

LEMMA SwallowInv ==
  ASSUME RateInv, NEW h \in Hits, hit[h].step = "stamped", Swallow(h),
         front' = Greater(FrontNow, hit[h].stamp), UNCHANGED <<lite, clock>>
  PROVE  RateInv'
<1>1. RateTypes /\ Behind /\ WindowsHold
  BY DEF RateInv
<1>2. /\ hit' = [hit EXCEPT ![h].step = IF Allowed(0) THEN "admitted" ELSE "refused"]
      /\ members' = {} /\ expiry' = 0 /\ uncounted' = uncounted \cup {h} /\ Expired
  BY DEF Swallow
<1>3. /\ front' \in Nat /\ front <= front' /\ expiry <= front' /\ hit[h].stamp <= front'
  BY <1>1, <1>2, FrontAdvances DEF RateTypes
<1>4. RateTypes'
  BY <1>1, <1>2, <1>3 DEF RateTypes, HitStates
<1>5. \A k \in Hits \ {h} : hit'[k] = hit[k]
  BY <1>1, <1>2 DEF RateTypes
<1>6. /\ hit'[h].stamp = hit[h].stamp
  BY <1>1, <1>2 DEF RateTypes, HitStates
<1>7. Behind'
  <2> SUFFICES ASSUME NEW k \in Hits
               PROVE  /\ Answered(k)' => hit'[k].stamp <= front'
                      /\ Answered(k)' /\ k \notin uncounted' => hit'[k].stamp + Window <= front'
    BY <1>2 DEF Behind
  <2>1. CASE k = h
    BY <1>2, <1>3, <1>6, <2>1
  <2>2. CASE k # h
    <3>1. hit'[k] = hit[k] /\ hit[k].stamp \in Nat
      BY <1>1, <1>5, <2>2 DEF RateTypes, HitStates
    <3> QED BY <1>1, <1>2, <1>3, <2>2, <3>1, RateAssumption DEF Behind, Answered, RateTypes
  <2> QED BY <2>1, <2>2
<1>8. \A t \in Int : InWindow(t)' \subseteq InWindow(t)
  BY <1>2, <1>5 DEF InWindow
<1> QED BY <1>1, <1>4, <1>7, <1>8, FewerHold DEF RateInv

LEMMA CountInv ==
  ASSUME RateInv, NEW h \in Hits, hit[h].step = "stamped", Count(h),
         front' = Greater(FrontNow, hit[h].stamp), UNCHANGED <<lite, clock>>
  PROVE  RateInv'
<1>1. RateTypes /\ Behind /\ WindowsHold
  BY DEF RateInv
<1>2. /\ members' = Trimmed(h) \cup {h}
      /\ hit' = [hit EXCEPT ![h].step =
                   IF Allowed(Cardinality(members')) THEN "admitted" ELSE "refused"]
      /\ expiry' = clock + Window
      /\ uncounted' = IF hit[h].stamp < FrontNow THEN uncounted \cup {h} ELSE uncounted
  BY DEF Count
<1>3. /\ front' \in Nat /\ front <= FrontNow /\ FrontNow \in Nat /\ front <= front'
      /\ Expired => expiry <= FrontNow
      /\ FrontNow <= front' /\ hit[h].stamp <= front'
      /\ ~(hit[h].stamp < FrontNow) => front' = hit[h].stamp
  <2>1. hit[h].stamp \in Nat /\ front \in Nat
    BY <1>1 DEF RateTypes, HitStates
  <2> QED BY <1>1, <2>1, FrontAdvances DEF Greater
<1>4. /\ Trimmed(h) \subseteq members
      /\ \A k \in members \ Trimmed(h) : Expired \/ ~(hit[k].stamp > hit[h].stamp - Window)
  BY DEF Trimmed
<1>5. RateTypes'
  BY <1>1, <1>2, <1>3, <1>4, RateAssumption DEF RateTypes, HitStates
<1>6. /\ \A k \in Hits \ {h} : hit'[k] = hit[k]
      /\ hit'[h].stamp = hit[h].stamp /\ Answered(h)'
  BY <1>1, <1>2 DEF RateTypes, HitStates, Answered
<1>7. \A k \in Hits : hit[k].stamp \in Nat /\ hit[k].stamp <= clock /\ hit'[k].stamp = hit[k].stamp
  BY <1>1, <1>6 DEF RateTypes, HitStates
\* What is not in the set any more is a window behind.
<1>8. \A k \in Hits \ {h} : Answered(k) /\ k \notin members' /\ k \notin uncounted
        => hit[k].stamp + Window <= FrontNow \/ hit[k].stamp + Window <= hit[h].stamp
  <2> SUFFICES ASSUME NEW k \in Hits \ {h}, Answered(k), k \notin members', k \notin uncounted
               PROVE  hit[k].stamp + Window <= FrontNow \/ hit[k].stamp + Window <= hit[h].stamp
    OBVIOUS
  <2>1. CASE k \notin members
    BY <1>1, <1>3, <1>7, <2>1, RateAssumption DEF Behind, RateTypes
  <2>2. CASE k \in members /\ Expired
    BY <1>1, <1>3, <1>7, <2>2, RateAssumption DEF Behind, RateTypes
  <2>3. CASE k \in members /\ ~Expired
    BY <1>2, <1>4, <1>7, <2>3, RateAssumption
  <2> QED BY <2>1, <2>2, <2>3
<1>9. Behind'
  <2> SUFFICES ASSUME NEW k \in Hits
               PROVE  /\ Answered(k)' => hit'[k].stamp <= front'
                      /\ Answered(k)' /\ k \notin members' /\ k \notin uncounted'
                           => hit'[k].stamp + Window <= front'
                      /\ k \in members' => Answered(k)' /\ expiry' # 0 /\ hit'[k].stamp + Window <= expiry'
    BY DEF Behind
  <2>1. expiry' # 0 /\ hit'[k].stamp + Window <= expiry'
    BY <1>1, <1>2, <1>7, RateAssumption DEF RateTypes
  <2>2. CASE k = h
    BY <1>2, <1>3, <1>6, <2>1, <2>2
  <2>3. CASE k # h
    <3>1. Answered(k)' <=> Answered(k)
      BY <1>6, <2>3 DEF Answered
    <3>2. k \in members' => k \in members
      BY <1>2, <1>4, <2>3
    <3>3. k \notin uncounted' => k \notin uncounted
      BY <1>2
    <3>4. Answered(k)' => hit'[k].stamp <= front'
      BY <1>1, <1>3, <1>7, <3>1 DEF Behind, RateTypes
    <3>5. Answered(k) /\ k \notin members' /\ k \notin uncounted => hit'[k].stamp + Window <= front'
      BY <1>3, <1>7, <1>8, <2>3, RateAssumption
    <3> QED BY <1>1, <2>1, <3>1, <3>2, <3>3, <3>4, <3>5 DEF Behind
  <2> QED BY <2>2, <2>3
<1>10. WindowsHold'
  <2> SUFFICES ASSUME NEW t \in Int PROVE Cardinality(InWindow(t)') <= Limit
    BY DEF WindowsHold
  <2>1. CASE h \notin InWindow(t)'
    <3>1. InWindow(t)' \subseteq InWindow(t)
      BY <1>2, <1>6, <2>1 DEF InWindow
    <3>2. Cardinality(InWindow(t)') <= Cardinality(InWindow(t)) /\ IsFiniteSet(InWindow(t)')
      BY <3>1, WindowCounts, FS_Subset
    <3>3. Cardinality(InWindow(t)') \in Nat
      BY <3>2, FS_CardinalityType
    <3> QED BY <1>1, <3>2, <3>3, WindowCounts, RateAssumption DEF WindowsHold
  <2>2. CASE h \in InWindow(t)'
    <3>1. /\ h \notin uncounted' /\ hit'[h].step = "admitted"
          /\ t - Window < hit[h].stamp /\ hit[h].stamp <= t
      BY <1>7, <2>2 DEF InWindow
    <3>2. ~(hit[h].stamp < FrontNow)
      BY <1>2, <3>1
    <3>3. Cardinality(members') <= Limit
      BY <1>1, <1>2, <3>1 DEF Allowed, RateTypes, HitStates
    <3>4. \A k \in InWindow(t)' : k \in members'
      <4> SUFFICES ASSUME NEW k \in InWindow(t)', k # h, k \notin members'
                   PROVE  FALSE
        BY <1>2
      <4>1. k \in Hits /\ k \notin uncounted /\ Answered(k) /\ t - Window < hit[k].stamp
        BY <1>2, <1>6, <1>7 DEF InWindow, Answered
      <4>2. hit[k].stamp + Window <= FrontNow \/ hit[k].stamp + Window <= hit[h].stamp
        BY <1>8, <4>1
      <4> QED BY <1>3, <1>7, <3>1, <3>2, <4>1, <4>2, RateAssumption
    <3>5. IsFiniteSet(members')
      BY <1>5, RateAssumption, FS_Subset DEF RateTypes
    <3>6. Cardinality(InWindow(t)') <= Cardinality(members') /\ IsFiniteSet(InWindow(t)')
      BY <3>4, <3>5, FS_Subset
    <3>7. Cardinality(InWindow(t)') \in Nat /\ Cardinality(members') \in Nat
      BY <3>5, <3>6, FS_CardinalityType
    <3> QED BY <3>3, <3>6, <3>7, RateAssumption
  <2> QED BY <2>1, <2>2
<1> QED BY <1>5, <1>9, <1>10 DEF RateInv

THEOREM RateInvariant == RateSpec => []RateInv
<1>1. RateInit => RateInv
  <2> SUFFICES ASSUME RateInit PROVE RateInv
    OBVIOUS
  <2>1. RateTypes /\ Behind
    BY DEF RateInit, RateTypes, Behind, Answered, HitStates
  <2>2. \A t \in Int : InWindow(t) = {}
    BY DEF RateInit, InWindow
  <2>3. WindowsHold
    BY <2>2, FS_EmptySet, RateAssumption DEF WindowsHold
  <2> QED BY <2>1, <2>3 DEF RateInv
<1>2. RateInv /\ [RateNext]_rateVars => RateInv'
  <2> SUFFICES ASSUME RateInv, [RateNext]_rateVars PROVE RateInv'
    OBVIOUS
  <2>1. CASE Pass
    BY <2>1, PassInv
  <2>2. ASSUME NEW h \in Hits, TakeStamp(h) PROVE RateInv'
    BY <2>2, TakeStampInv
  <2>3. ASSUME NEW h \in Hits, CheckRateLimit(h) PROVE RateInv'
    BY <2>3, SwallowInv, CountInv DEF CheckRateLimit
  <2>4. CASE UNCHANGED rateVars
    BY <2>4 DEF rateVars, RateInv, RateTypes, Behind, Answered, WindowsHold, InWindow
  <2> QED BY <2>1, <2>2, <2>3, <2>4 DEF RateNext
<1> QED BY <1>1, <1>2, PTL DEF RateSpec

\* No window of time admits more than the limit of the requests that were counted in order.
THEOREM WindowAlwaysHolds == RateSpec => []WindowHolds
<1>1. RateInv => WindowHolds
  BY DEF RateInv, RateTypes, WindowsHold, InWindow, WindowHolds
<1> QED BY <1>1, RateInvariant, PTL

--------------------------------------------------------------------------------
(* Sessions.  While an invalidation runs, every valid token it has not seen is stray. *)

VisitFields == DOMAIN visit = Visits
  /\ \A v \in Visits : DOMAIN visit[v] = {"op", "at", "token", "grant", "seen", "before"}

TokenVisit(v) ==
  /\ visit[v].token \in 0 .. issued /\ visit[v].before \subseteq 1 .. issued
  /\ visit[v].at = "unindex" => visit[v].token \notin valid
  /\ visit[v].at = "delete keys" => valid \ stray \subseteq visit[v].seen
  /\ visit[v].at = "drop index" => valid \subseteq stray

RefreshInv ==
  /\ issued \in Nat /\ valid \subseteq 1 .. issued /\ ended \subseteq 1 .. issued
  /\ valid \ stray \subseteq userIndex
  /\ valid \cap (ended \ stray) = {}
  /\ \A v \in Visits : TokenVisit(v)

\* The entry of a logged-out token in the blacklist lives as long as the token.
AccessInv ==
  /\ now \in Nat
  /\ \E n \in Nat : accessTokens \in [1 .. n -> Nat]
  /\ out \subseteq DOMAIN accessTokens /\ out \subseteq DOMAIN blacklist
  /\ \A g \in out : blacklist[g] \in Nat /\ accessTokens[g] <= blacklist[g]
  /\ \A v \in Visits : visit[v].op = "logout" => visit[v].grant \in DOMAIN accessTokens

SessionsInv == VisitFields /\ RefreshInv /\ AccessInv

LEMMA GreaterOfTwo ==
  ASSUME NEW a \in Int, NEW b \in Int
  PROVE  Max({a, b}) \in Int /\ Max({a, b}) >= a /\ Max({a, b}) >= b
<1>1. \E x \in {a, b} : \A y \in {a, b} : x >= y
  OBVIOUS
<1> QED BY <1>1 DEF Max

\* Steps of the requests that touch no refresh token.
LEMMA VisitMoves ==
  ASSUME SessionsInv, NEW v \in Visits, DOMAIN visit' = Visits,
         \A w \in Visits \ {v} : visit'[w] = visit[w],
         DOMAIN visit'[v] = {"op", "at", "token", "grant", "seen", "before"},
         UNCHANGED <<issued, valid, userIndex, ended, stray>>, TokenVisit(v)'
  PROVE  (VisitFields /\ RefreshInv)'
BY DEF SessionsInv, VisitFields, RefreshInv, TokenVisit

\* A new token is stray if an invalidation is under way.
LEMMA CreateRefreshInv ==
  ASSUME SessionsInv, NEW v \in Visits, CreateRefresh, End(v)
  PROVE  (VisitFields /\ RefreshInv)'
<1>1. /\ issued' = issued + 1 /\ valid' = valid \cup {issued + 1} /\ userIndex' = userIndex \cup {issued + 1}
      /\ stray \subseteq stray' /\ ended' = ended
      /\ (\E w \in Visits : visit[w].at \in {"delete keys", "drop index"}) => issued + 1 \in stray'
  BY DEF CreateRefresh
<1>2. visit' = [visit EXCEPT ![v] = NoVisit]
  BY DEF End
<1>3. VisitFields'
  BY <1>2 DEF SessionsInv, VisitFields, NoVisit
<1>4. /\ issued' \in Nat /\ issued + 1 \in 1 .. issued' /\ issued + 1 \notin 0 .. issued
      /\ issued + 1 \notin 1 .. issued /\ 1 .. issued \subseteq 1 .. issued' /\ 0 \in 0 .. issued'
      /\ 0 .. issued \subseteq 0 .. issued'
  <2>1. issued \in Nat /\ issued' = issued + 1
    BY <1>1 DEF SessionsInv, RefreshInv
  <2> QED BY <2>1
<1>5. TokenVisit(v)'
  <2>1. visit'[v] = NoVisit /\ issued \in Nat
    BY <1>2 DEF SessionsInv, VisitFields, RefreshInv
  <2>2. /\ visit'[v].token = 0 /\ visit'[v].before = {} /\ visit'[v].at = "start"
    BY <2>1 DEF NoVisit
  <2> QED BY <1>1, <1>4, <2>1, <2>2 DEF TokenVisit
<1>6. ASSUME NEW w \in Visits, w # v PROVE TokenVisit(w)'
  <2>1. visit'[w] = visit[w] /\ TokenVisit(w) /\ issued \in Nat
    BY <1>2, <1>6 DEF SessionsInv, VisitFields, RefreshInv
  <2>2. visit[w].token # issued + 1
    BY <1>4, <2>1 DEF TokenVisit
  <2> QED BY <1>1, <1>4, <2>1, <2>2 DEF TokenVisit
<1>7. RefreshInv'
  <2>1. /\ issued \in Nat /\ valid \subseteq 1 .. issued /\ ended \subseteq 1 .. issued
        /\ valid \ stray \subseteq userIndex /\ valid \cap (ended \ stray) = {}
    BY DEF SessionsInv, RefreshInv
  <2>2. valid' \subseteq 1 .. issued' /\ ended' \subseteq 1 .. issued'
    BY <1>1, <1>4, <2>1
  <2>3. valid' \ stray' \subseteq userIndex' /\ valid' \cap (ended' \ stray') = {}
    BY <1>1, <1>4, <2>1
  <2> QED BY <1>4, <1>5, <1>6, <2>2, <2>3 DEF RefreshInv
<1> QED BY <1>3, <1>7

\* Steps that only revoke refresh tokens.
LEMMA RevokeInv ==
  ASSUME SessionsInv, NEW v \in Visits, NEW to, Move(v, to), to # "delete keys",
         NEW gone, valid' = valid \ gone, UNCHANGED <<issued, userIndex, ended, stray>>,
         to = "unindex" => visit[v].token \in gone,
         to = "drop index" => valid \ stray \subseteq gone
  PROVE  (VisitFields /\ RefreshInv)'
<1>1. visit' = [visit EXCEPT ![v].at = to]
  BY DEF Move
<1>2. VisitFields'
  BY <1>1 DEF SessionsInv, VisitFields
<1>3. TokenVisit(v)'
  BY <1>1 DEF SessionsInv, VisitFields, RefreshInv, TokenVisit
<1>4. \A w \in Visits \ {v} : TokenVisit(w)'
  BY <1>1 DEF SessionsInv, VisitFields, RefreshInv, TokenVisit
<1>5. RefreshInv'
  BY <1>3, <1>4 DEF SessionsInv, RefreshInv
<1> QED BY <1>2, <1>5

\* Access tokens are added, never changed.
LEMMA GrantsKept ==
  ASSUME AccessInv, SessionsInv, NEW life \in Nat, CreateAccessToken(life),
         \A v \in Visits : visit'[v].op = "logout" => visit[v].op = "logout" /\ visit'[v].grant = visit[v].grant
  PROVE  AccessInv'
<1> DEFINE c == Cardinality(DOMAIN accessTokens)
<1>1. PICK n \in Nat : accessTokens \in [1 .. n -> Nat]
  BY DEF AccessInv
<1>2. DOMAIN accessTokens = 1 .. n
  BY <1>1
<1>3. c = n
  BY <1>2, FS_Interval
<1>4. now \in Nat /\ now + life \in Nat /\ UNCHANGED <<now, blacklist, out>>
  BY DEF AccessInv, CreateAccessToken
<1>5. accessTokens' = IF c < MaxGrants
                      THEN [g \in 1 .. c + 1 |-> IF g \in DOMAIN accessTokens THEN accessTokens[g] ELSE now + life]
                      ELSE accessTokens
  BY DEF CreateAccessToken
<1> HIDE DEF c
<1>6. \E m \in Nat : accessTokens' \in [1 .. m -> Nat]
  <2>1. CASE c < MaxGrants
    <3>1. accessTokens' \in [1 .. n + 1 -> Nat]
      BY <1>1, <1>2, <1>3, <1>4, <1>5, <2>1
    <3> QED BY <3>1
  <2>2. CASE ~(c < MaxGrants)
    BY <1>1, <1>5, <2>2
  <2> QED BY <2>1, <2>2
<1>7. DOMAIN accessTokens \subseteq DOMAIN accessTokens'
      /\ \A g \in DOMAIN accessTokens : accessTokens'[g] = accessTokens[g]
  <2>1. CASE c < MaxGrants
    BY <1>2, <1>3, <1>5, <2>1
  <2>2. CASE ~(c < MaxGrants)
    BY <1>5, <2>2
  <2> QED BY <2>1, <2>2
<1> QED BY <1>4, <1>6, <1>7 DEF AccessInv

LEMMA AccessKept ==
  ASSUME AccessInv, UNCHANGED accessVars,
         \A v \in Visits : visit'[v].op = "logout" => visit'[v].grant \in DOMAIN accessTokens
  PROVE  AccessInv'
BY DEF AccessInv, accessVars

LEMMA Restarted ==
  ASSUME SessionsInv, NEW v \in Visits, UNCHANGED <<issued, valid, userIndex, ended, stray>>,
         NEW rec, visit' = [visit EXCEPT ![v] = rec],
         DOMAIN rec = {"op", "at", "token", "grant", "seen", "before"},
         rec.token \in 0 .. issued, rec.before = {}, rec.at = "start"
  PROVE  (VisitFields /\ RefreshInv)'
<1>1. visit'[v] = rec
  BY DEF SessionsInv, VisitFields
<1>2. TokenVisit(v)'
  BY <1>1 DEF TokenVisit
<1>3. DOMAIN visit' = Visits /\ \A w \in Visits \ {v} : visit'[w] = visit[w]
  BY DEF SessionsInv, VisitFields
<1> QED BY <1>1, <1>2, <1>3, VisitMoves

LEMMA Ended ==
  ASSUME SessionsInv, NEW v \in Visits, UNCHANGED <<issued, valid, userIndex, ended, stray>>, End(v)
  PROVE  (VisitFields /\ RefreshInv)'
<1>1. /\ DOMAIN NoVisit = {"op", "at", "token", "grant", "seen", "before"}
      /\ NoVisit.token = 0 /\ NoVisit.before = {} /\ NoVisit.at = "start"
  BY DEF NoVisit
<1>2. 0 \in 0 .. issued
  BY DEF SessionsInv, RefreshInv
<1>3. visit' = [visit EXCEPT ![v] = NoVisit]
  BY DEF End
<1> HIDE DEF NoVisit
<1> QED BY <1>1, <1>2, <1>3, Restarted

LEMMA BeginInv ==
  ASSUME SessionsInv, NEW v \in Visits, UNCHANGED <<issued, valid, userIndex, ended, stray>>,
         NEW op, NEW t \in 0 .. issued, Begin(v, op, t)
  PROVE  (VisitFields /\ RefreshInv)'
<1> DEFINE rec == [NoVisit EXCEPT !.op = op, !.token = t]
<1>1. /\ DOMAIN rec = {"op", "at", "token", "grant", "seen", "before"}
      /\ rec.token = t /\ rec.before = {} /\ rec.at = "start"
  BY DEF NoVisit
<1>2. visit' = [visit EXCEPT ![v] = rec]
  BY DEF Begin
<1> HIDE DEF rec
<1> QED BY <1>1, <1>2, Restarted

LEMMA LogoutBeginsInv ==
  ASSUME SessionsInv, NEW v \in Visits, NEW t \in 0 .. issued, NEW g, LogoutBegins(v, t, g)
  PROVE  (VisitFields /\ RefreshInv)'
<1> DEFINE rec == [NoVisit EXCEPT !.op = "logout", !.token = t, !.grant = g]
<1>1. /\ DOMAIN rec = {"op", "at", "token", "grant", "seen", "before"}
      /\ rec.token = t /\ rec.before = {} /\ rec.at = "start"
  BY DEF NoVisit
<1>2. visit' = [visit EXCEPT ![v] = rec] /\ UNCHANGED <<issued, valid, userIndex, ended, stray>>
  BY DEF LogoutBegins, refreshVars
<1> HIDE DEF rec
<1> QED BY <1>1, <1>2, Restarted

LEMMA RefreshGetInv ==
  ASSUME SessionsInv, NEW v \in Visits, RefreshGet(v)
  PROVE  (VisitFields /\ RefreshInv)'
<1>1. CASE visit[v].token \in valid
  <2>1. visit' = [visit EXCEPT ![v].at = "delete"] /\ UNCHANGED refreshVars
    BY <1>1 DEF RefreshGet, Move
  <2>2. TokenVisit(v)'
    BY <2>1 DEF SessionsInv, VisitFields, RefreshInv, TokenVisit, refreshVars
  <2> QED BY <2>1, <2>2, VisitMoves DEF SessionsInv, VisitFields, refreshVars
<1>2. CASE visit[v].token \notin valid
  BY <1>2, Ended DEF RefreshGet, refreshVars
<1> QED BY <1>1, <1>2

LEMMA RefreshUnindexInv ==
  ASSUME SessionsInv, NEW v \in Visits, RefreshUnindex(v)
  PROVE  (VisitFields /\ RefreshInv)'
<1>1. /\ visit' = [visit EXCEPT ![v].at = "issue"] /\ userIndex' = userIndex \ {visit[v].token}
      /\ UNCHANGED <<issued, valid, ended, stray>> /\ visit[v].at = "unindex"
  BY DEF RefreshUnindex, Move, Now
<1>2. VisitFields' /\ \A w \in Visits : TokenVisit(w)'
  BY <1>1 DEF SessionsInv, VisitFields, RefreshInv, TokenVisit
<1>3. visit[v].token \notin valid
  BY <1>1 DEF SessionsInv, RefreshInv, TokenVisit
<1> QED BY <1>1, <1>2, <1>3 DEF SessionsInv, RefreshInv

LEMMA InvalidateReadsInv ==
  ASSUME SessionsInv, NEW v \in Visits, InvalidateReads(v)
  PROVE  (VisitFields /\ RefreshInv)'
<1>1. /\ visit' = [visit EXCEPT ![v].at = "delete keys", ![v].seen = userIndex, ![v].before = 1 .. issued]
      /\ UNCHANGED refreshVars
  BY DEF InvalidateReads
<1>2. TokenVisit(v)'
  BY <1>1 DEF SessionsInv, VisitFields, RefreshInv, TokenVisit, refreshVars
<1> QED BY <1>1, <1>2, VisitMoves DEF SessionsInv, VisitFields, refreshVars

\* Nothing but stray tokens is valid when the index is dropped.
LEMMA InvalidateDropsIndexInv ==
  ASSUME SessionsInv, NEW v \in Visits, InvalidateDropsIndex(v)
  PROVE  (VisitFields /\ RefreshInv)'
<1>1. /\ userIndex' = {} /\ ended' = ended \cup visit[v].before /\ visit' = [visit EXCEPT ![v] = NoVisit]
      /\ issued' = issued /\ valid' = valid /\ stray' = stray /\ visit[v].at = "drop index"
  BY DEF InvalidateDropsIndex, End, Now
<1>2. valid \subseteq stray /\ visit[v].before \subseteq 1 .. issued
  BY <1>1 DEF SessionsInv, RefreshInv, TokenVisit
<1>3. visit'[v] = NoVisit /\ \A w \in Visits \ {v} : visit'[w] = visit[w]
  BY <1>1 DEF SessionsInv, VisitFields
<1>4. TokenVisit(v)'
  <2>1. visit'[v].token = 0 /\ visit'[v].before = {} /\ visit'[v].at = "start"
    BY <1>3 DEF NoVisit
  <2>2. issued' = issued
    BY <1>1
  <2>3. 0 \in 0 .. issued
    BY DEF SessionsInv, RefreshInv
  <2> QED BY <2>1, <2>2, <2>3 DEF TokenVisit
<1>5. ASSUME NEW w \in Visits, w # v PROVE TokenVisit(w)'
  <2>1. TokenVisit(w) /\ visit'[w] = visit[w]
    BY <1>3, <1>5 DEF SessionsInv, RefreshInv
  <2>2. issued' = issued /\ valid' = valid /\ stray' = stray
    BY <1>1
  <2> QED BY <2>1, <2>2 DEF TokenVisit
<1>6. VisitFields'
  BY <1>1 DEF SessionsInv, VisitFields, NoVisit
<1> QED BY <1>1, <1>2, <1>4, <1>5, <1>6 DEF SessionsInv, RefreshInv

\* The steps that only move a request keep its access token.
LEMMA MovesKeepAccess ==
  ASSUME SessionsInv, NEW v \in Visits, UNCHANGED accessVars,
         \/ \E to : Move(v, to)
         \/ End(v)
         \/ \E op, t : op # "logout" /\ Begin(v, op, t)
         \/ InvalidateReads(v)
  PROVE  AccessInv'
<1>1. \A w \in Visits \ {v} : visit'[w] = visit[w]
  BY DEF SessionsInv, VisitFields, Move, End, Begin, InvalidateReads
<1>2. visit'[v].op = "logout" => visit[v].op = "logout" /\ visit'[v].grant = visit[v].grant
  <2>1. ASSUME NEW to, Move(v, to) PROVE visit'[v].op = visit[v].op /\ visit'[v].grant = visit[v].grant
    BY <2>1 DEF SessionsInv, VisitFields, Move
  <2>2. CASE End(v)
    BY <2>2 DEF SessionsInv, VisitFields, End, NoVisit
  <2>3. ASSUME NEW op, NEW t, op # "logout", Begin(v, op, t) PROVE visit'[v].op # "logout"
    BY <2>3 DEF SessionsInv, VisitFields, Begin, NoVisit
  <2>4. CASE InvalidateReads(v)
    BY <2>4 DEF SessionsInv, VisitFields, InvalidateReads
  <2> QED BY <2>1, <2>2, <2>3, <2>4
<1> QED BY <1>1, <1>2, AccessKept DEF SessionsInv, AccessInv

LEMMA LogoutBeginsAccess ==
  ASSUME SessionsInv, NEW v \in Visits, NEW t, NEW g \in DOMAIN accessTokens, LogoutBegins(v, t, g)
  PROVE  AccessInv'
<1>1. \A w \in Visits \ {v} : visit'[w] = visit[w]
  BY DEF SessionsInv, VisitFields, LogoutBegins
<1>2. visit'[v].grant = g
  BY DEF SessionsInv, VisitFields, LogoutBegins, NoVisit
<1>3. UNCHANGED accessVars
  BY DEF LogoutBegins
<1> QED BY <1>1, <1>2, <1>3, AccessKept DEF SessionsInv, AccessInv

LEMMA LogoutBlacklistsAccess ==
  ASSUME SessionsInv, NEW v \in Visits, LogoutBlacklists(v)
  PROVE  AccessInv'
<1> DEFINE g == visit[v].grant
<1>1. AccessInv /\ g \in DOMAIN accessTokens
  BY DEF SessionsInv, AccessInv, LogoutBlacklists, Now
<1>2. now \in Nat /\ accessTokens[g] \in Nat
  BY <1>1 DEF AccessInv
<1>3. Remaining(g) \in Int /\ Remaining(g) >= accessTokens[g] - now /\ Remaining(g) >= 1
  <2>1. accessTokens[g] - now \in Int /\ 1 \in Int
    BY <1>2
  <2> HIDE DEF g
  <2> QED BY <2>1, GreaterOfTwo DEF Remaining
<1>4. now + Remaining(g) \in Nat /\ accessTokens[g] <= now + Remaining(g)
  BY <1>2, <1>3
<1>5. /\ blacklist' = [h \in DOMAIN blacklist \cup {g} |-> IF h = g THEN now + Remaining(g) ELSE blacklist[h]]
      /\ out' = out \cup {g} /\ UNCHANGED <<now, accessTokens>>
      /\ visit' = [visit EXCEPT ![v] = NoVisit]
  BY DEF LogoutBlacklists, End
<1>6. \A w \in Visits : visit'[w].op = "logout" => visit'[w] = visit[w]
  BY <1>5 DEF SessionsInv, VisitFields, NoVisit
<1> HIDE DEF g
<1>7. out' \subseteq DOMAIN accessTokens /\ out' \subseteq DOMAIN blacklist'
  BY <1>1, <1>5 DEF AccessInv
<1>8. \A h \in out' : blacklist'[h] \in Nat /\ accessTokens[h] <= blacklist'[h]
  BY <1>1, <1>4, <1>5 DEF AccessInv
<1> QED BY <1>1, <1>5, <1>6, <1>7, <1>8 DEF AccessInv

LEMMA LivesAreNumbers == FullLife \in Nat /\ OnboardingLife \in Nat
BY SessionsAssumption

LEMMA RequestsInv ==
  ASSUME SessionsInv, NEW v \in Visits,
         \/ LoginBegins(v) \/ \E t \in 1 .. issued : RefreshBegins(v, t)
         \/ RefreshGet(v) \/ RefreshRefused(v) \/ LogoutCannotBlacklist(v) \/ ChangeBegins(v)
         \/ InvalidateReads(v) \/ Dies(v)
  PROVE  SessionsInv'
<1>1. CASE LoginBegins(v)
  <2>1. Begin(v, "login", 0) /\ UNCHANGED <<issued, valid, userIndex, ended, stray>> /\ UNCHANGED accessVars
    BY <1>1 DEF LoginBegins, refreshVars
  <2>2. 0 \in 0 .. issued
    BY DEF SessionsInv, RefreshInv
  <2> QED BY <2>1, <2>2, BeginInv, MovesKeepAccess DEF SessionsInv
<1>2. ASSUME NEW t \in 1 .. issued, RefreshBegins(v, t) PROVE SessionsInv'
  <2>1. Begin(v, "refresh", t) /\ UNCHANGED <<issued, valid, userIndex, ended, stray>> /\ UNCHANGED accessVars
    BY <1>2 DEF RefreshBegins, refreshVars
  <2>2. t \in 0 .. issued
    BY DEF SessionsInv, RefreshInv
  <2> QED BY <2>1, <2>2, BeginInv, MovesKeepAccess DEF SessionsInv
<1>3. CASE RefreshGet(v)
  BY <1>3, RefreshGetInv, MovesKeepAccess DEF RefreshGet, SessionsInv
<1>4. CASE RefreshRefused(v) \/ LogoutCannotBlacklist(v) \/ Dies(v)
  BY <1>4, Ended, MovesKeepAccess DEF RefreshRefused, LogoutCannotBlacklist, Dies, SessionsInv, refreshVars
<1>5. CASE ChangeBegins(v)
  <2>1. Begin(v, "change", 0) /\ UNCHANGED <<issued, valid, userIndex, ended, stray>> /\ UNCHANGED accessVars
    BY <1>5 DEF ChangeBegins
  <2>2. 0 \in 0 .. issued
    BY DEF SessionsInv, RefreshInv
  <2> QED BY <2>1, <2>2, BeginInv, MovesKeepAccess DEF SessionsInv
<1>6. CASE InvalidateReads(v)
  <2>1. UNCHANGED accessVars
    BY <1>6 DEF InvalidateReads
  <2> QED BY <1>6, <2>1, InvalidateReadsInv, MovesKeepAccess DEF SessionsInv
<1> QED BY <1>1, <1>2, <1>3, <1>4, <1>5, <1>6

LEMMA RevocationsInv ==
  ASSUME SessionsInv, NEW v \in Visits,
         RefreshDelete(v) \/ LogoutRevokes(v) \/ InvalidateDeletes(v) \/ RefreshUnindex(v)
           \/ InvalidateDropsIndex(v)
  PROVE  SessionsInv'
<1>1. CASE RefreshDelete(v)
  <2>1. Move(v, "unindex") /\ valid' = valid \ {visit[v].token}
        /\ UNCHANGED <<issued, userIndex, ended, stray>> /\ UNCHANGED accessVars
    BY <1>1 DEF RefreshDelete
  <2>2. (VisitFields /\ RefreshInv)'
    BY <2>1, RevokeInv
  <2> QED BY <2>1, <2>2, MovesKeepAccess DEF SessionsInv
<1>2. CASE LogoutRevokes(v)
  <2>1. Move(v, "blacklist") /\ valid' = valid \ {visit[v].token}
        /\ UNCHANGED <<issued, userIndex, ended, stray>> /\ UNCHANGED accessVars
    BY <1>2 DEF LogoutRevokes
  <2>2. (VisitFields /\ RefreshInv)'
    BY <2>1, RevokeInv
  <2> QED BY <2>1, <2>2, MovesKeepAccess DEF SessionsInv
<1>3. CASE InvalidateDeletes(v)
  <2>1. Move(v, "drop index") /\ valid' = valid \ visit[v].seen
        /\ UNCHANGED <<issued, userIndex, ended, stray>> /\ UNCHANGED accessVars
    BY <1>3 DEF InvalidateDeletes
  <2>2. valid \ stray \subseteq visit[v].seen
    BY <1>3 DEF InvalidateDeletes, Now, SessionsInv, RefreshInv, TokenVisit
  <2>3. PICK gone : gone = visit[v].seen
    OBVIOUS
  <2>4. (VisitFields /\ RefreshInv)'
    <3>1. valid' = valid \ gone /\ valid \ stray \subseteq gone
      BY <2>1, <2>2, <2>3
    <3>2. \A to : Move(v, to) /\ to = "drop index" => (VisitFields /\ RefreshInv)'
      BY <2>1, <3>1, RevokeInv
    <3> QED BY <2>1, <3>2
  <2> QED BY <2>1, <2>4, MovesKeepAccess DEF SessionsInv
<1>4. CASE RefreshUnindex(v)
  <2>1. Move(v, "issue") /\ UNCHANGED accessVars
    BY <1>4 DEF RefreshUnindex
  <2> QED BY <1>4, <2>1, RefreshUnindexInv, MovesKeepAccess DEF SessionsInv
<1>5. CASE InvalidateDropsIndex(v)
  <2>1. End(v) /\ UNCHANGED accessVars
    BY <1>5 DEF InvalidateDropsIndex
  <2> QED BY <1>5, <2>1, InvalidateDropsIndexInv, MovesKeepAccess DEF SessionsInv
<1> QED BY <1>1, <1>2, <1>3, <1>4, <1>5

LEMMA IssuesInv ==
  ASSUME SessionsInv, NEW v \in Visits, CreateRefresh, CreateAccessToken(FullLife), End(v)
  PROVE  SessionsInv'
<1>1. \A w \in Visits : visit'[w].op = "logout" => visit[w].op = "logout" /\ visit'[w].grant = visit[w].grant
  BY DEF End, SessionsInv, VisitFields, NoVisit
<1>2. AccessInv'
  BY <1>1, GrantsKept, LivesAreNumbers DEF SessionsInv
<1> QED BY <1>2, CreateRefreshInv DEF SessionsInv

THEOREM SessionsInvariant == SessionsSpec => []SessionsInv
<1>1. SessionsInit => SessionsInv
  <2> SUFFICES ASSUME SessionsInit PROVE SessionsInv
    OBVIOUS
  <2>1. VisitFields
    BY DEF SessionsInit, VisitFields, NoVisit
  <2>2. RefreshInv
    BY DEF SessionsInit, RefreshInv, TokenVisit, NoVisit
  <2>3. accessTokens \in [1 .. 0 -> Nat]
    BY DEF SessionsInit
  <2>4. AccessInv
    BY <2>3 DEF SessionsInit, AccessInv, NoVisit
  <2> QED BY <2>1, <2>2, <2>4 DEF SessionsInv
<1>2. SessionsInv /\ [SessionsNext]_sessionVars => SessionsInv'
  <2> SUFFICES ASSUME SessionsInv, [SessionsNext]_sessionVars PROVE SessionsInv'
    OBVIOUS
  <2>1. ASSUME NEW v \in Visits, Login(v) \/ RefreshIssue(v) PROVE SessionsInv'
    BY <2>1, IssuesInv DEF Login, RefreshIssue
  <2>2. ASSUME NEW v \in Visits,
               \/ LoginBegins(v) \/ \E t \in 1 .. issued : RefreshBegins(v, t)
               \/ RefreshGet(v) \/ RefreshRefused(v) \/ LogoutCannotBlacklist(v) \/ ChangeBegins(v)
               \/ InvalidateReads(v) \/ Dies(v)
        PROVE  SessionsInv'
    BY <2>2, RequestsInv
  <2>3. ASSUME NEW v \in Visits,
               RefreshDelete(v) \/ LogoutRevokes(v) \/ InvalidateDeletes(v) \/ RefreshUnindex(v)
                 \/ InvalidateDropsIndex(v)
        PROVE  SessionsInv'
    BY <2>3, RevocationsInv
  <2>4. ASSUME NEW v \in Visits, NEW t \in 0 .. issued, NEW g \in DOMAIN accessTokens, LogoutBegins(v, t, g)
        PROVE  SessionsInv'
    BY <2>4, LogoutBeginsInv, LogoutBeginsAccess DEF SessionsInv
  <2>5. ASSUME NEW v \in Visits, LogoutBlacklists(v) PROVE SessionsInv'
    <3>1. End(v) /\ UNCHANGED <<issued, valid, userIndex, ended, stray>>
      BY <2>5 DEF LogoutBlacklists, refreshVars
    <3> QED BY <2>5, <3>1, Ended, LogoutBlacklistsAccess DEF SessionsInv
  <2>6. CASE VerifiedLogin
    <3>1. AccessInv'
      BY <2>6, GrantsKept, LivesAreNumbers DEF VerifiedLogin, SessionsInv
    <3> QED BY <2>6, <3>1 DEF VerifiedLogin, SessionsInv, VisitFields, RefreshInv, TokenVisit, refreshVars
  <2>7. CASE Tick
    <3>1. AccessInv'
      BY <2>7 DEF Tick, SessionsInv, AccessInv
    <3> QED BY <2>7, <3>1 DEF Tick, SessionsInv, VisitFields, RefreshInv, TokenVisit, refreshVars
  <2>8. CASE UNCHANGED sessionVars
    BY <2>8 DEF sessionVars, SessionsInv, VisitFields, RefreshInv, TokenVisit, AccessInv
  <2> QED BY <2>1, <2>2, <2>3, <2>4, <2>5, <2>6, <2>7, <2>8 DEF SessionsNext
<1> QED BY <1>1, <1>2, PTL DEF SessionsSpec

\* What ended stays ended, and what was logged out is refused.
THEOREM SessionsAlwaysStayEnded == SessionsSpec => []EndedSessionsStayEnded
<1>1. SessionsInv => EndedSessionsStayEnded
  <2> SUFFICES ASSUME SessionsInv, NEW g \in out PROVE valid \cap (ended \ stray) = {} /\ ~Accepted(g)
    BY DEF EndedSessionsStayEnded, SessionsInv, RefreshInv
  <2>1. /\ now \in Nat /\ accessTokens[g] \in Nat /\ g \in DOMAIN blacklist
        /\ blacklist[g] \in Nat /\ accessTokens[g] <= blacklist[g]
    BY DEF SessionsInv, AccessInv
  <2> QED BY <2>1 DEF Accepted, SessionsInv, RefreshInv
<1> QED BY <1>1, SessionsInvariant, PTL
================================================================================
