------------------------------ MODULE RateLimiter ------------------------------
(***************************************************************************)
(* The token buckets behind the request limiters, one store or the other:     *)
(* in memory, where idle clients are swept, or in Redis, where the script      *)
(* computes with the clock of whichever instance calls it and the key expires  *)
(* (internal/middleware/ratelimit.go, ratelimit_redis.go).                    *)
(***************************************************************************)
EXTENDS Integers

CONSTANTS Clients,         \* client ips
          Burst,           \* tokens of a full bucket
          Rate,            \* tokens added per tick
          Ttl,             \* ticks of silence before a bucket is swept or a key expires
          Skew,            \* how far the clock of an instance may lag, in ticks
          MaxTicks,        \* bound: length of a behaviour, in ticks
          MaxLimiterFaults \* bound: Redis errors

\* As configured: 60 tokens at 30 per second, 8 at 0.2 per second, swept after ten
\* minutes; a Redis key lives ten seconds longer than its refill takes.
ASSUME LimiterAssumption ==
    /\ Burst \in Nat \ {0} /\ Rate \in Nat \ {0} /\ Ttl \in Nat /\ Skew \in Nat
    /\ Ttl * Rate >= Burst
    /\ MaxTicks \in Nat /\ MaxLimiterFaults \in Nat

VARIABLES store,     \* which store is configured
          clock,     \* ticks since the start
          bucket,    \* bucket[i]: the tokens it had when last used, and when that was
          admitting, \* memory: the bucket a request of i got from the map and has not used yet
          ideal,     \* ghost: tokens of a bucket of i that nobody ever forgot
          excused,   \* ghost: clients for whom the store failed open, lagged or was too slow
          limiterFaults

limiterVars == <<store, clock, bucket, admitting, ideal, excused, limiterFaults>>

Times == -Skew..MaxTicks
NoBucket == [made |-> FALSE, tokens |-> Burst, at |-> 0, seen |-> 0]
Buckets == [made : BOOLEAN, tokens : 0..Burst, at : Times, seen : Times]
Capped(n) == IF n > Burst THEN Burst ELSE n

LimiterInit ==
    /\ store \in {"memory", "redis"}
    /\ clock = 0
    /\ bucket = [i \in Clients |-> NoBucket]
    /\ admitting = [i \in Clients |-> NoBucket]
    /\ ideal = [i \in Clients |-> Burst]
    /\ excused = {} /\ limiterFaults = 0

\* A bucket's tokens at time t; a clock that went back adds none.
Refilled(b, t) == IF ~b.made THEN Burst
                  ELSE Capped(b.tokens + Rate * (IF t > b.at THEN t - b.at ELSE 0))

\* What is left of the ideal bucket when a request is let through or refused.
Spent(i, allowed) == [ideal EXCEPT ![i] = IF allowed /\ @ > 0 THEN @ - 1 ELSE @]

Tick ==
    /\ clock < MaxTicks /\ clock' = clock + 1
    /\ ideal' = [i \in Clients |-> Capped(ideal[i] + Rate)]
    /\ UNCHANGED <<store, bucket, admitting, excused, limiterFaults>>

-----------------------------------------------------------------------------
(* In memory                                                               *)

\* memoryStore.bucket, under the mutex: find or make it, and note the time.
FindBucket(i) ==
    /\ store = "memory" /\ ~admitting[i].made
    /\ LET b == IF bucket[i].made THEN [bucket[i] EXCEPT !.seen = clock]
                ELSE [made |-> TRUE, tokens |-> Burst, at |-> clock, seen |-> clock]
       IN  bucket' = [bucket EXCEPT ![i] = b] /\ admitting' = [admitting EXCEPT ![i] = b]
    /\ UNCHANGED <<store, clock, ideal, excused, limiterFaults>>

\* So late that the bucket may be swept before what it spends has been refilled.
TooSlow(i) == ~bucket[i].made \/ (clock - admitting[i].seen) * Rate > Ttl * Rate - Burst

\* Allow, after the mutex: on the bucket that was found, swept since or not.
Allow(i) ==
    LET tokens == Refilled(IF bucket[i].made THEN bucket[i] ELSE admitting[i], clock)
        left == IF tokens >= 1 THEN tokens - 1 ELSE tokens IN
    /\ admitting[i].made
    /\ admitting' = [admitting EXCEPT ![i] = NoBucket]
    /\ bucket' = IF bucket[i].made THEN [bucket EXCEPT ![i].tokens = left, ![i].at = clock] ELSE bucket
    /\ excused' = IF TooSlow(i) THEN excused \cup {i} ELSE excused
    /\ ideal' = Spent(i, tokens >= 1)
    /\ UNCHANGED <<store, clock, limiterFaults>>

\* Mutant: every bucket is dropped when the sweep comes round.
Idle_Always(i) == TRUE

\* No request of the client for longer than the ttl.
Idle(i) == clock - bucket[i].seen > Ttl

Sweep ==
    /\ store = "memory"
    /\ \E i \in Clients : bucket[i].made /\ Idle(i)
    /\ bucket' = [i \in Clients |-> IF bucket[i].made /\ Idle(i) THEN NoBucket ELSE bucket[i]]
    /\ UNCHANGED <<store, clock, admitting, ideal, excused, limiterFaults>>

-----------------------------------------------------------------------------
(* In Redis                                                                *)

\* The script, atomic, at the time of the instance that calls it.
RunScript(i, lag) ==
    LET now == clock - lag
        tokens == Refilled(bucket[i], now)
        left == IF tokens >= 1 THEN tokens - 1 ELSE tokens IN
    /\ store = "redis"
    /\ bucket' = [bucket EXCEPT ![i] = [made |-> TRUE, tokens |-> left, at |-> now, seen |-> clock]]
    /\ excused' = IF lag > 0 THEN excused \cup {i} ELSE excused
    /\ ideal' = Spent(i, tokens >= 1)
    /\ UNCHANGED <<store, clock, admitting, limiterFaults>>

\* EXPIRE, counted from the last call.
KeyExpires(i) ==
    /\ store = "redis" /\ bucket[i].made /\ Idle(i)
    /\ bucket' = [bucket EXCEPT ![i] = NoBucket]
    /\ UNCHANGED <<store, clock, admitting, ideal, excused, limiterFaults>>

\* Redis does not answer: the request is let through.
FailsOpen(i) ==
    /\ store = "redis" /\ limiterFaults < MaxLimiterFaults
    /\ limiterFaults' = limiterFaults + 1
    /\ excused' = excused \cup {i}
    /\ UNCHANGED <<store, clock, bucket, admitting, ideal>>

LimiterNext ==
    \/ Tick \/ Sweep
    \/ \E i \in Clients : \/ FindBucket(i) \/ Allow(i) \/ KeyExpires(i) \/ FailsOpen(i)
                          \/ \E lag \in 0..Skew : RunScript(i, lag)

LimiterSpec == LimiterInit /\ [][LimiterNext]_limiterVars

-----------------------------------------------------------------------------
(* Properties                                                              *)

LimiterTypeOK ==
    /\ store \in {"memory", "redis"} /\ clock \in 0..MaxTicks
    /\ bucket \in [Clients -> Buckets] /\ admitting \in [Clients -> Buckets]
    /\ ideal \in [Clients -> 0..Burst] /\ excused \subseteq Clients
    /\ limiterFaults \in 0..MaxLimiterFaults

\* Forgetting an idle client changes nothing: at any time its bucket, or the full one
\* it would get, holds what a bucket never swept or expired would, so that no burst
\* is granted early and nobody is refused a token he has.  The exceptions are the
\* code's: a Redis error, an instance whose clock lags, a request that stalls
\* between bucket() and Allow() for about a ttl.  (bucket, sweep; tokenBucketScript and its EXPIRE.)
ForgettingIsHarmless ==
    \A i \in Clients \ excused : Refilled(bucket[i], clock) = ideal[i]
=============================================================================
