------------------------------- MODULE RateLimit -------------------------------
(***************************************************************************)
(* The rate limiter of gateway_api/auth.py: requests with the gateway's    *)
(* key take the number of the current minute, increment a counter of that  *)
(* minute in Redis, give the counter a lifetime when they were the first,  *)
(* and are refused beyond the limit. Every await lets other requests and   *)
(* the clock go on.                                                        *)
(*                                                                         *)
(* Bounds: each of ApiRequests asks once; a minute is Minute ticks and Ttl *)
(* (120 s in the code) is counted in them; MaxDelay ticks between a        *)
(* request's arrival and its answer; the clock stops at End;               *)
(* MaxLimitFaults Redis commands raise, executed or not.                   *)
(***************************************************************************)
EXTENDS Naturals, FiniteSets

CONSTANTS ApiRequests, Limit, Minute, Ttl, MaxDelay, End, MaxLimitFaults

\* Ttl is two minutes; no request takes longer than one.
ASSUME RateLimitAssumption ==
    /\ IsFiniteSet(ApiRequests) /\ Minute + MaxDelay <= Ttl
    /\ Limit \in Nat /\ Minute \in Nat \ {0} /\ Ttl \in Nat \ {0}
    /\ MaxDelay \in Nat /\ End \in Nat /\ MaxLimitFaults \in Nat

Never == End + Ttl + 1
Buckets == 0..(End \div Minute)

VARIABLES
    now,
    count,    \* rate_limit:{key}:{bucket}, 0 when the key does not exist
    expires,  \* when that key goes away
    asked,
    limitFaults

limitVars == <<now, count, expires, asked, limitFaults>>

LimitInit ==
    /\ now = 0
    /\ count = [b \in Buckets |-> 0]
    /\ expires = [b \in Buckets |-> Never]
    /\ asked = [r \in ApiRequests |-> [pc |-> "new", at |-> 0, n |-> 0]]
    /\ limitFaults = 0

BucketOf(t) == t \div Minute
Mine(r) == BucketOf(asked[r].at)
InFlight == {r \in ApiRequests : asked[r].pc \in {"incr", "expire"}}

\* A bug to detect: the request is compared with the limit before it counts.
CountedBefore(n) == IF n - 1 > Limit THEN "refused" ELSE "admitted"

Verdict(n) == IF n > Limit THEN "refused" ELSE "admitted"
LimitFault == limitFaults < MaxLimitFaults /\ limitFaults' = limitFaults + 1

-----------------------------------------------------------------------------
Arrive(r) ==
    /\ asked[r].pc = "new"
    /\ asked' = [asked EXCEPT ![r] = [pc |-> "incr", at |-> now, n |-> 0]]
    /\ UNCHANGED <<now, count, expires, limitFaults>>

IsFirst(n) == n = 1

\* INCR creates the key at 1, and leaves the lifetime of an existing one.
Incr(r) ==
    /\ asked[r].pc = "incr"
    /\ LET n == count[Mine(r)] + 1
       IN \/ /\ count' = [count EXCEPT ![Mine(r)] = n]
             /\ asked' = [asked EXCEPT ![r].n = n, ![r].pc =
                          IF IsFirst(n) THEN "expire" ELSE Verdict(n)]
             /\ UNCHANGED limitFaults
          \/ /\ LimitFault
             /\ count' \in {count, [count EXCEPT ![Mine(r)] = n]}
             /\ asked' = [asked EXCEPT ![r].pc = "error"]
    /\ UNCHANGED <<now, expires>>

Deadline == now + Ttl

SetLifetime(r) ==
    /\ asked[r].pc = "expire"
    /\ \/ /\ expires' = [expires EXCEPT ![Mine(r)] =
                           IF count[Mine(r)] = 0 THEN Never ELSE Deadline]
          /\ asked' = [asked EXCEPT ![r].pc = Verdict(asked[r].n)]
          /\ UNCHANGED limitFaults
       \/ /\ LimitFault
          /\ expires' \in {expires, [expires EXCEPT ![Mine(r)] = Deadline]}
          /\ asked' = [asked EXCEPT ![r].pc = "error"]
    /\ UNCHANGED <<now, count>>

\* The clock of the gateway and of Redis; keys past their lifetime are gone.
ClockTick ==
    /\ now < End
    /\ \A r \in InFlight : now - asked[r].at < MaxDelay
    /\ now' = now + 1
    /\ LET gone == {b \in Buckets : expires[b] <= now'}
       IN /\ count' = [b \in Buckets |-> IF b \in gone THEN 0 ELSE count[b]]
          /\ expires' = [b \in Buckets |-> IF b \in gone THEN Never ELSE expires[b]]
    /\ UNCHANGED <<asked, limitFaults>>

LimitNext == ClockTick \/ \E r \in ApiRequests : Arrive(r) \/ Incr(r) \/ SetLifetime(r)

LimitSpec == LimitInit /\ [][LimitNext]_limitVars

-----------------------------------------------------------------------------
\* Each variable has its type, and no counter has more than Ttl to live.
LimitType ==
    /\ now \in 0..End
    /\ count \in [Buckets -> 0..Cardinality(ApiRequests)]
    /\ expires \in [Buckets -> Nat]
    /\ \A b \in Buckets : expires[b] = Never \/ expires[b] \in now+1..now+Ttl
    /\ asked \in [ApiRequests -> [pc : {"new", "incr", "expire", "admitted", "refused", "error"},
                             at : 0..End, n : 0..Cardinality(ApiRequests)]]
    /\ limitFaults \in 0..MaxLimitFaults

Admitted(from, to) ==
    {r \in ApiRequests : asked[r].pc = "admitted" /\ asked[r].at \in from..to}

\* verify_gateway_api_key: no more than the limit get through with the number
\* of one minute, however late they reach Redis and whichever commands raise.
MinuteCap ==
    \A b \in Buckets : Cardinality(Admitted(b * Minute, (b + 1) * Minute - 1)) <= Limit

\* "2 min TTL": a counter has a lifetime, or a request about to give it one,
\* unless a command has raised.
CountersGoAway ==
    limitFaults = 0 =>
      \A b \in Buckets : count[b] > 0 =>
        \/ expires[b] # Never
        \/ \E r \in ApiRequests : asked[r].pc = "expire" /\ Mine(r) = b

\* A request on its way was made no longer than MaxDelay ago.
AnsweredInTime == \A r \in InFlight : asked[r].at <= now /\ now <= asked[r].at + MaxDelay

\* A request has the number its state asks for.
NumberFits ==
    \A r \in ApiRequests :
      /\ asked[r].pc = "admitted" => asked[r].n \in 1..Limit
      /\ asked[r].pc \in {"new", "incr"} => asked[r].n = 0
      /\ asked[r].pc = "expire" => asked[r].n = 1

\* No counter goes away before its minute can have no more requests, and a
\* number above the counter says that it did.
CountersLast ==
    /\ \A b \in Buckets : expires[b] >= b * Minute + Ttl
    /\ \A r \in ApiRequests :
         asked[r].n > count[Mine(r)] => now >= Mine(r) * Minute + Minute + MaxDelay

\* So every request that was counted has a number of its own in its minute.
NumbersAreDistinct ==
    \A r, q \in ApiRequests :
      asked[r].n > 0 /\ asked[r].n = asked[q].n /\ Mine(r) = Mine(q) => r = q

\* A counter counts requests that have reached Redis.
Past == {r \in ApiRequests : asked[r].pc \notin {"new", "incr"}}
CountsRequests == \A b \in Buckets : count[b] <= Cardinality(Past)

LimitParts == AnsweredInTime /\ NumberFits /\ CountersLast /\ NumbersAreDistinct /\ CountsRequests

\* The counters of the limiter: no more than the limit within the number of a
\* minute, and none is left without a lifetime.
LimitInv == LimitType /\ MinuteCap /\ CountersGoAway /\ LimitParts
=============================================================================
