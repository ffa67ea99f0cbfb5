------------------------------- MODULE RateLimit -------------------------------
(***************************************************************************)
(* The sliding window of one caller: a sorted set in Redis, trimmed, extended *)
(* and counted by each request in one transaction.  A request takes its time  *)
(* stamp first, and reaches Redis whenever the connection lets it.            *)
(***************************************************************************)
EXTENDS Integers, FiniteSets

CONSTANTS Hits,     \* requests of the caller
          Limit,    \* limit
          Window,   \* window_seconds
          MaxClock  \* bound on the time

ASSUME RateAssumption == /\ IsFiniteSet(Hits) /\ Limit \in Nat /\ Window \in Nat \ {0}
                         /\ MaxClock \in Nat

VARIABLES
  lite,      \* REDIS_URL is empty: Redis is an object of the process
  clock,
  hit,       \* per request: step, stamp
  members,   \* the sorted set under the caller's key; its scores are the stamps
  expiry,    \* when the key expires; 0 for no key
  front,     \* history: no request in place from now on has an earlier stamp
  uncounted  \* history: requests Redis did not see in the order of their stamps, or swallowed

rateVars == <<lite, clock, hit, members, expiry, front, uncounted>>

\* Bound: the clock stops.
Pass ==
  /\ clock < MaxClock
  /\ clock' = clock + 1
  /\ UNCHANGED <<lite, hit, members, expiry, front, uncounted>>

TakeStamp(h) ==
  /\ hit[h].step = "idle"
  /\ hit' = [hit EXCEPT ![h] = [step |-> "stamped", stamp |-> clock]]
  /\ UNCHANGED <<lite, clock, members, expiry, front, uncounted>>

\* The key is past its time: Redis has removed it, the stand-in looks when it is used.
Expired == expiry # 0 /\ IF lite THEN expiry < clock ELSE expiry <= clock

Greater(i, j) == IF i < j THEN j ELSE i

\* What the members leave, and the front after the key went.
FrontNow == IF Expired THEN Greater(front, expiry) ELSE front

\* zremrangebyscore takes both bounds.
Trimmed(h) == {k \in members : ~Expired /\ hit[k].stamp > hit[h].stamp - Window}

\* Mutant of Allowed: counted before it is added.
AllowedFirst(count) == count - 1 <= Limit

Allowed(count) == count <= Limit

\* The stand-in drops an expired key when it counts, with the member just added, and does
\* not find it again to let it expire.
Swallow(h) ==
  /\ lite /\ Expired
  /\ hit' = [hit EXCEPT ![h].step = IF Allowed(0) THEN "admitted" ELSE "refused"]
  /\ members' = {} /\ expiry' = 0
  /\ uncounted' = uncounted \cup {h}

\* Trim, add, count and expire in one pipeline.
Count(h) ==
  /\ ~(lite /\ Expired)
  /\ members' = Trimmed(h) \cup {h}
  /\ hit' = [hit EXCEPT ![h].step = IF Allowed(Cardinality(members')) THEN "admitted" ELSE "refused"]
  /\ expiry' = clock + Window
  /\ uncounted' = IF hit[h].stamp < FrontNow THEN uncounted \cup {h} ELSE uncounted

CheckRateLimit(h) ==
  /\ hit[h].step = "stamped"
  /\ Swallow(h) \/ Count(h)
  /\ front' = Greater(FrontNow, hit[h].stamp)
  /\ UNCHANGED <<lite, clock>>

--------------------------------------------------------------------------------
RateInit ==
  /\ lite \in BOOLEAN /\ clock = 1
  /\ hit = [h \in Hits |-> [step |-> "idle", stamp |-> 0]]
  /\ members = {} /\ expiry = 0 /\ front = 0 /\ uncounted = {}

RateNext == Pass \/ \E h \in Hits : TakeStamp(h) \/ CheckRateLimit(h)

RateSpec == RateInit /\ [][RateNext]_rateVars

--------------------------------------------------------------------------------
(* Properties *)

\* "zcard-before-zadd saw N-1 for the Nth request and let limit+1 requests through each
\* window" (check_rate_limit): no window of time, wherever it begins, admits more than the
\* limit of the requests that reached Redis in their order, however many race.
WindowHolds ==
  \A t \in 0 .. clock :
    Cardinality({h \in Hits \ uncounted : /\ hit[h].step = "admitted"
                                          /\ t - Window < hit[h].stamp /\ hit[h].stamp <= t}) <= Limit
================================================================================
