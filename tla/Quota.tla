--------------------------------- MODULE Quota ---------------------------------
(***************************************************************************)
(* The request quota of one account: the counters in its user_quotas row,    *)
(* the requests that reserve against them, the two Celery Beat resets, the   *)
(* reset a request applies itself when Beat was missed, and the admin's.     *)
(***************************************************************************)
EXTENDS Integers

CONSTANTS Calls,        \* requests under way
          Daily,        \* daily_limit
          Monthly,      \* monthly_limit
          Firsts,       \* dates on which a month begins
          MaxDate,      \* bound on the calendar
          MaxAdmin      \* bound on the admin's resets

ASSUME QuotaAssumption == /\ Daily \in Nat /\ Monthly \in Nat
                          /\ Firsts \subseteq Nat
                          /\ MaxDate \in Nat /\ MaxAdmin \in Nat

VARIABLES
  date,     \* the current day, in UTC; day 0 is the first of a month
  first,    \* the first day of its month
  quota,    \* the row: counters and the dates of their last resets
  call,     \* per request: step and locals of check_and_increment
  admin,    \* the admin's request, and how many there were
  grants,   \* history: requests granted on this date and in this month
  twice     \* history: counters that were zeroed although they were current

quotaVars == <<date, first, quota, call, admin, grants, twice>>

\* "reset" is a history: someone reset the row since the request last saw it.
NoCall == [step |-> "idle", began |-> 0, day |-> 0, first |-> 0, reset |-> FALSE]

--------------------------------------------------------------------------------
(* check_and_increment *)

\* The requests of S that missed the row at its limit, and see it reset by someone else.
ResetSeen(S) == [c \in Calls |-> IF c \in S /\ call[c].step \in {"read", "retry"}
                                 THEN [call[c] EXCEPT !.reset = TRUE] ELSE call[c]]

\* WHERE of the conditional UPDATE.
BelowLimits == quota.today < Daily /\ quota.month < Monthly

Counted(q) == [q EXCEPT !.today = @ + 1, !.month = @ + 1]

\* The conditional UPDATE matched: the request is counted and let through.
Grant(c) ==
  /\ BelowLimits
  /\ quota' = Counted(quota)
  /\ grants' = [day |-> grants.day + 1, month |-> grants.month + 1]
  /\ call' = [call EXCEPT ![c] = NoCall]
  /\ UNCHANGED <<date, first, admin, twice>>

CallBegin(c) ==
  /\ call[c].step \in {"idle", "refused"}
  /\ call' = [call EXCEPT ![c] = [NoCall EXCEPT !.step = "reserve", !.began = date]]
  /\ UNCHANGED <<date, first, quota, admin, grants, twice>>

Reserve(c) ==
  /\ call[c].step = "reserve"
  /\ \/ Grant(c)
     \/ /\ ~BelowLimits
        /\ call' = [call EXCEPT ![c].step = "read"]
        /\ UNCHANGED <<date, first, quota, admin, grants, twice>>

\* Mutant of Stale: only a row that missed both resets.
StaleBoth == quota.lastDaily < date /\ quota.lastMonthly < first

\* A reset was missed.
Stale == quota.lastDaily < date \/ quota.lastMonthly < first

\* The row is read to find out which limit it was; _inline_reset_if_stale looks at it.
Decide(c) ==
  /\ call[c].step = "read"
  /\ call' = [call EXCEPT ![c] = IF Stale THEN [@ EXCEPT !.step = "reset", !.day = date, !.first = first]
                                 ELSE [NoCall EXCEPT !.step = "refused"]]
  /\ UNCHANGED <<date, first, quota, admin, grants, twice>>

\* Its UPDATE has no condition on the dates, and resets both counters.
InlineReset(c) ==
  /\ call[c].step = "reset"
  /\ quota' = [today |-> 0, month |-> 0,
               lastDaily |-> call[c].day, lastMonthly |-> call[c].first]
  /\ twice' = [day |-> twice.day \/ quota.lastDaily >= call[c].day \/ call[c].day # date,
               month |-> twice.month \/ quota.lastMonthly >= call[c].first
                                     \/ call[c].first # first]
  /\ call' = [ResetSeen(Calls \ {c}) EXCEPT ![c] = [NoCall EXCEPT !.step = "retry", !.began = call[c].began]]
  /\ UNCHANGED <<date, first, admin, grants>>

Retry(c) ==
  /\ call[c].step = "retry"
  /\ \/ Grant(c)
     \/ /\ ~BelowLimits
        /\ call' = [call EXCEPT ![c] = [NoCall EXCEPT !.step = "refused"]]
        /\ UNCHANGED <<date, first, quota, admin, grants, twice>>

\* A statement raises: the request fails, and its transaction with it.
CallError(c) ==
  /\ call[c].step \notin {"idle", "refused"}
  /\ call' = [call EXCEPT ![c] = NoCall]
  /\ UNCHANGED <<date, first, quota, admin, grants, twice>>

--------------------------------------------------------------------------------
(* Celery Beat, which may be late, or fire twice, and the admin *)

\* Mutant of BeatDaily: a second run of the day is not guarded.
BeatDailyUnguarded ==
  /\ quota' = [quota EXCEPT !.today = 0, !.lastDaily = date]
  /\ call' = ResetSeen(Calls)
  /\ UNCHANGED <<date, first, admin, grants, twice>>

BeatDaily ==
  /\ quota.lastDaily < date
  /\ quota' = [quota EXCEPT !.today = 0, !.lastDaily = date]
  /\ call' = ResetSeen(Calls)
  /\ UNCHANGED <<date, first, admin, grants, twice>>

BeatMonthly ==
  /\ quota.lastMonthly < first
  /\ quota' = [quota EXCEPT !.month = 0, !.lastMonthly = date]
  /\ call' = ResetSeen(Calls)
  /\ UNCHANGED <<date, first, admin, grants, twice>>

AdminRead ==
  /\ admin.step = "idle" /\ admin.count < MaxAdmin
  /\ admin' = [step |-> "read", count |-> admin.count + 1,
               today |-> quota.today > 0, month |-> quota.month > 0]
  /\ UNCHANGED <<date, first, quota, call, grants, twice>>

\* The session writes the counters that were not 0 when the row was loaded.  The
\* history starts again with them: what the admin gives back is not an excess.
AdminCommit ==
  /\ admin.step = "read"
  /\ quota' = [quota EXCEPT !.today = IF admin.today THEN 0 ELSE @,
                            !.month = IF admin.month THEN 0 ELSE @]
  /\ grants' = [day |-> IF admin.today THEN 0 ELSE grants.day,
                month |-> IF admin.month THEN 0 ELSE grants.month]
  /\ admin' = [admin EXCEPT !.step = "idle"]
  /\ call' = ResetSeen(Calls)
  /\ UNCHANGED <<date, first, twice>>

Midnight ==
  /\ date < MaxDate
  /\ date' = date + 1
  /\ LET begins == date + 1 \in Firsts
     IN  /\ first' = IF begins THEN date + 1 ELSE first
         /\ grants' = [day |-> 0, month |-> IF begins THEN 0 ELSE grants.month]
         /\ twice' = [day |-> FALSE, month |-> IF begins THEN FALSE ELSE twice.month]
  /\ UNCHANGED <<quota, call, admin>>

QuotaInit ==
  /\ date = 0 /\ first = 0
  /\ quota = [today |-> 0, month |-> 0, lastDaily |-> 0, lastMonthly |-> 0]
  /\ call = [c \in Calls |-> NoCall]
  /\ admin = [step |-> "idle", count |-> 0, today |-> FALSE, month |-> FALSE]
  /\ grants = [day |-> 0, month |-> 0]
  /\ twice = [day |-> FALSE, month |-> FALSE]

QuotaNext ==
  \/ \E c \in Calls : \/ CallBegin(c) \/ Reserve(c) \/ Decide(c)
                      \/ InlineReset(c) \/ Retry(c) \/ CallError(c)
  \/ BeatDaily \/ BeatMonthly \/ AdminRead \/ AdminCommit \/ Midnight

QuotaSpec == QuotaInit /\ [][QuotaNext]_quotaVars

--------------------------------------------------------------------------------
(* Properties *)

\* Between two resets a limit's worth of requests is granted, and a counter that is
\* current is not reset: at most twice the limit on a date or in a month, however
\* late Beat runs and however often.  An inline reset that hits a current counter
\* (twice) voids it.
CapsHeld ==
  /\ ~twice.day => grants.day <= 2 * Daily
  /\ ~twice.month => grants.month <= 2 * Monthly

\* "Without it a missed midnight reset leaves the user hard-blocked": a request is refused on
\* the day it began only after a limit's worth of requests was granted on that day or in its
\* month, however late Beat is and whoever else asks; unless another reset the row between
\* its UPDATE and its decision ("a rare lost race ... treat as exhausted").
RefusalsAreEarned ==
  [][\A c \in Calls :
       /\ call[c].step \in {"read", "retry"} /\ call'[c].step = "refused"
       /\ call[c].began = date /\ ~call[c].reset
       => grants.day >= Daily \/ grants.month >= Monthly]_quotaVars

\* "Monthly limit reached: wait for reset" (docs/API.md): the monthly cap, with a late
\* reset allowed for, whichever way the counter is reset.
MonthlyCapHeld == grants.month <= 2 * Monthly
================================================================================
