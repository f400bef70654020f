---------------------------- MODULE RateLimiter ----------------------------
(***************************************************************************)
(* The token buckets in front of every route that changes something        *)
(* (ratelimit.go).  A key is a host and a tier.  The mutex makes a request *)
(* one step, and the clock is read under it.  The code counts tokens in    *)
(* floating point; here a token is Window shares, of which Limit flow back *)
(* in a tick, so that all of its arithmetic is exact.                      *)
(***************************************************************************)
EXTENDS Integers, Sequences

CONSTANTS
  Keys,          (* hosts and tiers                                        *)
  Limit,         (* requests per window                                    *)
  Window,        (* its length in ticks                                    *)
  PerSecond,     (* ticks in a second, the unit of Retry-After             *)
  MaxNow         (* bound on time                                          *)

ASSUME LimiterAssumption ==
  /\ Limit \in Nat \ {0} /\ Window \in Nat \ {0} /\ PerSecond \in Nat \ {0}
  /\ MaxNow \in Nat

VARIABLES
  now,
  buckets,       (* a key's [tokens, last], or NoBucket                    *)
  (* history *)
  kept,          (* the buckets, had none been cleaned up                  *)
  granted,       (* the times of the requests let through                  *)
  promised       (* when a refused client was told to come back, -1: never *)

limiterVars == <<now, buckets, kept, granted, promised>>

OneToken == Window
FullBucket == Limit * OneToken
NoBucket == [tokens |-> -1, last |-> 0]
Bucket == [tokens : 0 .. FullBucket, last : Nat]

LimiterTypeOK ==
  /\ now \in Nat
  /\ buckets \in [Keys -> Bucket \cup {NoBucket}]
  /\ kept \in [Keys -> Bucket \cup {NoBucket}]
  /\ granted \in [Keys -> Seq(Nat)]
  /\ promised \in [Keys -> Nat \cup {-1}]

LimiterInit ==
  /\ now = 0
  /\ buckets = [k \in Keys |-> NoBucket]
  /\ kept = [k \in Keys |-> NoBucket]
  /\ granted = [k \in Keys |-> <<>>]
  /\ promised = [k \in Keys |-> -1]

\* The shares that flow back in so many ticks.
Flow(ticks) == Limit * ticks

\* What a key may take now.  Its first request finds a full bucket.
Tokens(b) ==
  LET refilled == b.tokens + Flow(now - b.last)
  IN  IF b = NoBucket \/ refilled > FullBucket THEN FullBucket ELSE refilled

\* Mutant of RetryAfter: seconds that have begun are not counted.
RetryAtOnce(missing) == missing \div Flow(PerSecond)

\* The seconds until missing shares have flowed back, rounded up.
RetryAfter(missing) == (missing + Flow(PerSecond) - 1) \div Flow(PerSecond)

Left(b, used) == [tokens |-> Tokens(b) - used, last |-> now]

\* allow returns true.
Allow(k) ==
  /\ Tokens(buckets[k]) >= OneToken
  /\ buckets' = [buckets EXCEPT ![k] = Left(@, OneToken)]
  /\ kept' = [kept EXCEPT ![k] = Left(@, OneToken)]
  /\ granted' = [granted EXCEPT ![k] = Append(@, now)]
  /\ promised' = [promised EXCEPT ![k] = -1]
  /\ UNCHANGED now

\* allow returns false: the bucket is refilled all the same.
Refuse(k) ==
  /\ Tokens(buckets[k]) < OneToken
  /\ buckets' = [buckets EXCEPT ![k] = Left(@, 0)]
  /\ kept' = [kept EXCEPT ![k] = Left(@, 0)]
  /\ promised' = [promised EXCEPT ![k] =
       IF @ = -1 THEN now + PerSecond * RetryAfter(OneToken - Tokens(buckets[k])) ELSE @]
  /\ UNCHANGED <<now, granted>>

\* cleanup: buckets that nobody has asked for during two windows.
Stale(b) == b # NoBucket /\ now - b.last > 2 * Window
CleanUp ==
  /\ \E k \in Keys : Stale(buckets[k])
  /\ buckets' = [k \in Keys |-> IF Stale(buckets[k]) THEN NoBucket ELSE buckets[k]]
  /\ UNCHANGED <<now, kept, granted, promised>>

ClockTicks ==
  /\ now < MaxNow /\ now' = now + 1
  /\ UNCHANGED <<buckets, kept, granted, promised>>

LimiterNext == (\E k \in Keys : Allow(k) \/ Refuse(k)) \/ CleanUp \/ ClockTicks

LimiterSpec == LimiterInit /\ [][LimiterNext]_limiterVars

-----------------------------------------------------------------------------
\* From one request to a later one a key gets at most a full bucket and what has
\* flowed back in between (ratelimit.go, allow): with the first of them in it, up
\* to 2 * Limit - 1 requests within less than a window, and no more.
BurstBound ==
  \A k \in Keys : \A i, j \in DOMAIN granted[k] :
    i <= j => (j - i + 1) * OneToken <= FullBucket + Flow(granted[k][j] - granted[k][i])

\* A refused client that comes back when Retry-After told it to, and has not been
\* let through before, is let through (allow, retryAfterSec).
WaitingIsEnough ==
  \A k \in Keys : promised[k] # -1 /\ now >= promised[k] => Tokens(buckets[k]) >= OneToken

\* Nobody notices the cleanup: a key whose bucket was deleted has what it would
\* have had (cleanup: "idle long enough to fully refill twice").
CleanupIsUnseen == \A k \in Keys : Tokens(buckets[k]) = Tokens(kept[k])

\* A key gets its limit and no more, and what it is told holds, whatever is cleaned
\* up meanwhile (ratelimit.go).
LimitsHold == BurstBound /\ WaitingIsEnough /\ CleanupIsUnseen
=============================================================================
