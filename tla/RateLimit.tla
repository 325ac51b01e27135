------------------------------ MODULE RateLimit ------------------------------
(***************************************************************************)
(* Rate limits: core/rate_limit.py.                                        *)
(*                                                                         *)
(* A request is charged in the bucket of its user, in that of its address  *)
(* and in a daily quota, one Redis script after the other, and goes on as  *)
(* soon as it has passed the last one its policy asks for.  Policies share *)
(* no key, so a behaviour follows the requests of one.  Time is counted in *)
(* ticks; the clock of Redis may be set back, that of the API is not.      *)
(***************************************************************************)
EXTENDS Integers, Sequences, FiniteSets

CONSTANTS Subjects,     \* provider subjects; all requests come from one address
          Capacity, Refill, Cost, \* a bucket in units, units of refill per tick, units of a request
          MinTtl,       \* the least life of an idle bucket
          DailyQuota, DayLength,
          RateRequests, MaxTick, MaxSetBack \* bounds

ASSUME RateAssumption ==
  /\ {Capacity, Refill, Cost, MinTtl, DayLength} \subseteq Nat \ {0}
  /\ {DailyQuota, RateRequests, MaxTick, MaxSetBack} \subseteq Nat
  /\ Cost <= Capacity
  /\ "ip" \notin Subjects   \* keys name their kind

VARIABLES
  policy,   \* the policy of the behaviour
  now,      \* the clock of the API
  setBack,  \* how far that of Redis has been set back
  buckets,  \* the token buckets
  quotas,   \* the counters, by user and date
  callers   \* the requests

rateVars == <<policy, now, setBack, buckets, quotas, callers>>

Policies == {"ai-planner", "course-photo", "authenticated", "public"}
FailClosed == {"ai-planner"}
Metered == <<"user", "ip", "quota">>
Path == CASE policy \in {"ai-planner", "course-photo"} -> Metered
          [] policy = "authenticated" -> <<"user">>
          [] policy = "public" -> <<"ip">>

Requesters == 1..RateRequests
Buckets == Subjects \cup {"ip"}
Days == 0..(MaxTick \div DayLength)
clock == now - setBack
NoKey == [on |-> FALSE, tokens |-> 0, at |-> 0, expires |-> 0]
NoCount == [count |-> 0, expires |-> 0]
Fresh(u, step) == [subject |-> u, step |-> step, day |-> -1,
                   passed |-> {}, late |-> FALSE, answer |-> "none"]
NotCome == Fresh("nobody", 0)
Larger(a, b) == IF a >= b THEN a ELSE b
Smaller(a, b) == IF a <= b THEN a ELSE b
CeilDiv(a, b) == (a + b - 1) \div b

RateInit ==
  /\ policy \in Policies
  /\ now = 0 /\ setBack = 0
  /\ buckets = [k \in Buckets |-> NoKey]
  /\ quotas = [q \in Subjects \X Days |-> NoCount]
  /\ callers = [j \in Requesters |-> NotCome]

-----------------------------------------------------------------------------
(* The two scripts.                                                        *)

\* Deviation: an idle bucket lives for the least time only.
ShortTtl == MinTtl
\* token_bucket: twice the time a bucket needs to fill.
BucketTtl == Larger(MinTtl, CeilDiv(2 * Capacity, Refill))

\* The tokens of a bucket at time t of Redis.
Refilled(b, t) ==
  IF ~b.on THEN Capacity ELSE Smaller(Capacity, b.tokens + Larger(0, t - b.at) * Refill)

RetryAfter(tokens) == CeilDiv(Cost - tokens, Refill)

\* TOKEN_BUCKET_LUA: the bucket is written whether or not it lets the request pass.
Affords(k) == Refilled(buckets[k], clock) >= Cost
Drawn(k) == [on |-> TRUE, at |-> clock, expires |-> clock + BucketTtl,
             tokens |-> Refilled(buckets[k], clock) - (IF Affords(k) THEN Cost ELSE 0)]

\* FIXED_QUOTA_LUA: the counter after the INCR is within the limit.
WithinQuota(u, d) == quotas[<<u, d>>].count + 1 <= DailyQuota
Counted(u, d, ttl) == [count |-> quotas[<<u, d>>].count + 1,
                       expires |-> IF quotas[<<u, d>>].count = 0 THEN clock + ttl ELSE quotas[<<u, d>>].expires]

-----------------------------------------------------------------------------
(* Requests.                                                               *)

Midnight(d) == (d + 1) * DayLength
Waiting(j) == callers[j].step > 0 /\ callers[j].answer = "none"
Stage(j) == Path[callers[j].step]

RequestComes(j) ==
  /\ callers[j] = NotCome /\ \A i \in 1..(j - 1) : callers[i] # NotCome
  /\ \E u \in Subjects : callers' = [callers EXCEPT ![j] = Fresh(u, 1)]
  /\ UNCHANGED <<policy, now, setBack, buckets, quotas>>

\* _failure: 503 or no decision at all.
Failure(r) == IF policy \in FailClosed THEN "503" ELSE "open"

\* apply_rate_limit: the request is refused, or goes on to its next charge or to its handler.
Decided(j, r, decision) ==
  callers' = [callers EXCEPT ![j] =
    CASE decision = "denied" -> [r EXCEPT !.answer = "429"]
      [] decision = "503" -> [r EXCEPT !.answer = "503"]
      [] OTHER -> [r EXCEPT !.passed = IF decision = "allowed" THEN @ \cup {Stage(j)} ELSE @,
                            !.answer = IF r.step = Len(Path) THEN "admitted" ELSE "none",
                            !.step = @ + 1]]

\* The script may run and its answer be lost.
ChargeBucket(j) ==
  LET r == callers[j]   k == IF Stage(j) = "user" THEN r.subject ELSE "ip" IN
  /\ Waiting(j) /\ Stage(j) # "quota"
  /\ \/ /\ buckets' = [buckets EXCEPT ![k] = Drawn(k)]
        /\ \/ Decided(j, r, IF Affords(k) THEN "allowed" ELSE "denied")
           \/ Decided(j, r, Failure(r))
     \/ /\ Decided(j, r, Failure(r))
        /\ UNCHANGED buckets
  /\ UNCHANGED <<policy, now, setBack, quotas>>

\* daily_quota takes the date of the key and its life from the clock of the API.
ReadDate(j) ==
  /\ Waiting(j) /\ Stage(j) = "quota" /\ callers[j].day = -1
  /\ callers' = [callers EXCEPT ![j].day = now]
  /\ UNCHANGED <<policy, now, setBack, buckets, quotas>>

ChargeQuota(j) ==
  LET u == callers[j].subject   read == callers[j].day   d == read \div DayLength
      r == [callers[j] EXCEPT !.late = (now >= Midnight(d))] IN
  /\ Waiting(j) /\ Stage(j) = "quota" /\ read # -1
  /\ \/ /\ quotas' = [quotas EXCEPT ![<<u, d>>] = Counted(u, d, Midnight(d) - read)]
        /\ \/ Decided(j, r, IF WithinQuota(u, d) THEN "allowed" ELSE "denied")
           \/ Decided(j, r, Failure(r))
     \/ /\ Decided(j, r, Failure(r))
        /\ UNCHANGED quotas
  /\ UNCHANGED <<policy, now, setBack, buckets>>

\* Time passes; a key that expires is gone.
TickPasses ==
  /\ now < MaxTick
  /\ now' = now + 1
  /\ buckets' = [k \in Buckets |-> IF buckets[k].on /\ buckets[k].expires <= clock + 1 THEN NoKey ELSE buckets[k]]
  /\ quotas' = [q \in Subjects \X Days |-> IF quotas[q].expires <= clock + 1 THEN NoCount ELSE quotas[q]]
  /\ UNCHANGED <<policy, setBack, callers>>

ClockIsSetBack ==
  /\ setBack < MaxSetBack /\ setBack < now
  /\ setBack' = setBack + 1
  /\ UNCHANGED <<policy, now, buckets, quotas, callers>>

RateNext ==
  \/ \E j \in Requesters : RequestComes(j) \/ ChargeBucket(j) \/ ReadDate(j) \/ ChargeQuota(j)
  \/ TickPasses \/ ClockIsSetBack
RateSpec == RateInit /\ [][RateNext]_rateVars

-----------------------------------------------------------------------------
(* Properties.                                                             *)

\* A bucket never holds more than its capacity or less than nothing, wherever the clock went.
RateTypeOK ==
  /\ policy \in Policies /\ now \in 0..MaxTick /\ setBack \in 0..MaxSetBack
  /\ buckets \in [Buckets -> [on : BOOLEAN, tokens : 0..Capacity, at : Int, expires : Int]]
  /\ \A q \in Subjects \X Days : quotas[q].count \in Nat
  /\ \A j \in Requesters : callers[j].passed \subseteq {"user", "ip", "quota"}

Passed(k) == {j \in Requesters : IF k = "ip" THEN "ip" \in callers[j].passed
                              ELSE "user" \in callers[j].passed /\ callers[j].subject = k}

\* Neither the expiry of an idle bucket nor a clock that was set back lets through more
\* than the bucket held at first and has been refilled with since.
RateHolds == \A k \in Buckets : Cost * Cardinality(Passed(k)) <= Capacity + Refill * now

\* A user passes the quota of a date at most DailyQuota times before its midnight; only a
\* request that read the date before midnight and is counted after it finds the counter gone.
QuotaHolds ==
  \A u \in Subjects, d \in Days :
    Cardinality({j \in Requesters : /\ callers[j].subject = u /\ "quota" \in callers[j].passed
                                 /\ ~callers[j].late /\ callers[j].day \div DayLength = d}) <= DailyQuota

\* No itinerary is paid for without all three charges, whatever fails on the way.
PlannerIsMetered ==
  policy = "ai-planner" =>
    \A j \in Requesters : callers[j].answer = "admitted" => callers[j].passed = {"user", "ip", "quota"}

\* Whoever waits as long as a refusal says finds the tokens there if nobody took them.
RetrySuffices ==
  \A k \in Buckets : LET b == buckets[k] IN
    b.on /\ b.tokens < Cost => Refilled(b, b.at + RetryAfter(b.tokens)) >= Cost

\* What is let through has been metered, and whoever was refused knows for how long.
MetersHold == RateHolds /\ QuotaHolds /\ PlannerIsMetered /\ RetrySuffices

\* "it cannot permit unmetered AI or upload spend" (docs/product/next-features-handoff.md).
UploadsMetered ==
  policy = "course-photo" =>
    \A j \in Requesters : callers[j].answer = "admitted" => callers[j].passed = {"user", "ip", "quota"}
=============================================================================
