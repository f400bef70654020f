--------------------------- MODULE ServingProofs ---------------------------
(***************************************************************************)
(* Proofs about what a running server does besides capturing, for any      *)
(* values of the constants: the rate limiter, the system alerts, the pauses *)
(* and tokens of provider polls, the bridge to Claude Code, the language   *)
(* servers that are asked for quotas, and the digest batcher.  The parts   *)
(* share no state; each has an inductive invariant of its own.             *)
(***************************************************************************)
EXTENDS RateLimiter, SystemAlerts, SharedFiles, LanguageServers, DigestBatcher,
        FiniteSetTheorems, TLAPS

-----------------------------------------------------------------------------
(* The rate limiter (RateLimiter)                                          *)

\* The rate limiter.  Everything rests on one count: what a bucket holds, and what has
\* been taken since some request, came from a full bucket and from the flow.

\* Requests are let through one after another, and not after their bucket was
\* refilled last.
Ordered(k) ==
  /\ buckets[k] # NoBucket => buckets[k].last <= now
  /\ kept[k] # NoBucket => kept[k].last <= now
  /\ \A i \in DOMAIN granted[k] :
       /\ granted[k][i] <= now
       /\ buckets[k] # NoBucket => granted[k][i] <= buckets[k].last

\* What request i and those after it took, and what is left, flowed back since or
\* was in a full bucket before; a bucket that was cleaned up had its fill since.
Taken(k, i) == (Len(granted[k]) - i + 1) * OneToken
Accounted(k) ==
  \A i \in DOMAIN granted[k] :
    IF buckets[k] = NoBucket
      THEN Taken(k, i) <= Flow(now - granted[k][i])
      ELSE buckets[k].tokens + Taken(k, i) <= FullBucket + Flow(buckets[k].last - granted[k][i])

Bounded(k) ==
  \A i, j \in DOMAIN granted[k] :
    i <= j => (j - i + 1) * OneToken <= FullBucket + Flow(granted[k][j] - granted[k][i])

\* By the time promised to a refused client a token has flowed back.
KeepsPromise(k) ==
  promised[k] # -1 /\ buckets[k] # NoBucket =>
    buckets[k].tokens + Flow(promised[k] - buckets[k].last) >= OneToken

\* A bucket differs from the one that is never cleaned up only if that is full again.
Refilled(k) ==
  \/ buckets[k] = kept[k]
  \/ /\ buckets[k] = NoBucket /\ kept[k] # NoBucket
     /\ kept[k].tokens + Flow(now - kept[k].last) >= FullBucket

KeyInv(k) == Ordered(k) /\ Accounted(k) /\ Bounded(k) /\ KeepsPromise(k) /\ Refilled(k)
RInv == LimiterTypeOK /\ \A k \in Keys : KeyInv(k)

-----------------------------------------------------------------------------
\* A token is something, and a full bucket holds one.
LEMMA SizeFacts == FullBucket \in Nat /\ OneToken \in Nat \ {0} /\ OneToken <= FullBucket
BY LimiterAssumption DEF FullBucket, OneToken

\* What flows back adds up, and grows with time.
LEMMA FlowFacts ==
  /\ \A a \in Int : Flow(a) \in Int
  /\ \A a, b \in Int : Flow(a + b) = Flow(a) + Flow(b)
  /\ \A a, b \in Int : a <= b => Flow(a) <= Flow(b)
  /\ Flow(Window) = FullBucket /\ Flow(0) = 0
<1> USE LimiterAssumption
<1>1. \A a \in Int : Flow(a) \in Int
  BY DEF Flow
<1>2. \A a, b \in Int : Flow(a + b) = Flow(a) + Flow(b)
  BY DEF Flow
<1>3. \A a, b \in Int : a <= b => Flow(a) <= Flow(b)
  BY DEF Flow
<1>4. Flow(Window) = FullBucket /\ Flow(0) = 0
  BY DEF Flow, FullBucket, OneToken
<1> QED
  BY <1>1, <1>2, <1>3, <1>4

\* Waiting for as long as RetryAfter says brings back what is missing.
LEMMA RetryBringsBack ==
  ASSUME NEW missing \in Nat
  PROVE  RetryAfter(missing) \in Nat /\ missing <= Flow(PerSecond * RetryAfter(missing))
<1> DEFINE d == Flow(PerSecond)
           q == RetryAfter(missing)
<1>1. d \in Nat \ {0}
  BY LimiterAssumption DEF Flow
<1>2. \A e \in Nat \ {0}, n \in Nat : n \div e \in Nat /\ n < e * (n \div e) + e
  BY SMT
<1>3. q \in Nat /\ missing + d - 1 < d * q + d
  <2> HIDE DEF d
  <2>1. q = (missing + d - 1) \div d
    BY DEF RetryAfter, d
  <2> HIDE DEF q
  <2> QED
    BY <1>1, <1>2, <2>1
<1>4. d * q = Flow(PerSecond * q)
  <2> HIDE DEF q
  <2> QED
    BY <1>3, LimiterAssumption DEF Flow, d
<1>5. missing <= d * q
  <2>1. d * q \in Int
    BY <1>1, <1>3
  <2> HIDE DEF d, q
  <2> QED
    BY <1>1, <1>3, <2>1
<1> QED
  BY <1>3, <1>4, <1>5

\* What a key may take: a full bucket, or what is left and what flowed back.
LEMMA TokensFacts ==
  ASSUME NEW b \in Bucket \cup {NoBucket}, now \in Nat, b # NoBucket => b.last <= now
  PROVE  /\ Tokens(b) \in 0 .. FullBucket
         /\ b = NoBucket => Tokens(b) = FullBucket
         /\ b # NoBucket => /\ Tokens(b) <= b.tokens + Flow(now - b.last)
                            /\ Tokens(b) = FullBucket \/ Tokens(b) = b.tokens + Flow(now - b.last)
                            /\ b.tokens <= Tokens(b)
<1>1. CASE b = NoBucket
  BY <1>1, SizeFacts DEF Tokens
<1>2. CASE b # NoBucket
  <2>1. b.tokens \in 0 .. FullBucket /\ b.last \in Nat /\ now - b.last \in Nat
    BY <1>2 DEF Bucket
  <2> DEFINE f == Flow(now - b.last)
  <2>2. f \in Int /\ f >= 0
    <3> DEFINE x == now - b.last
    <3>1. x \in Int /\ 0 \in Int /\ 0 <= x
      BY <2>1
    <3> HIDE DEF x
    <3>2. Flow(x) \in Int /\ Flow(0) <= Flow(x) /\ Flow(0) = 0
      BY <3>1, FlowFacts
    <3>3. Flow(x) \in Int /\ Flow(x) >= 0
      BY <3>2, Z3
    <3> QED
      BY <3>3 DEF x
  <2>3. Tokens(b) = IF b.tokens + f > FullBucket THEN FullBucket ELSE b.tokens + f
    BY <1>2 DEF Tokens
  <2> HIDE DEF f
  <2>4. FullBucket \in Nat
    BY SizeFacts
  <2> QED
    BY <1>2, <2>1, <2>2, <2>3, <2>4 DEF f
<1> QED
  BY <1>1, <1>2

\* A key that a step leaves alone, at the same time, keeps its invariant.
LEMMA OthersKeep ==
  ASSUME NEW k \in Keys, KeyInv(k), now' = now, buckets'[k] = buckets[k],
         kept'[k] = kept[k], granted'[k] = granted[k], promised'[k] = promised[k]
  PROVE  KeyInv(k)'
BY DEF KeyInv, Ordered, Accounted, Taken, Bounded, KeepsPromise, Refilled

\* The bucket has what it would have had, had it not been cleaned up.
LEMMA SameTokens ==
  ASSUME RInv, NEW k \in Keys
  PROVE  Tokens(buckets[k]) = Tokens(kept[k])
<1>1. /\ kept[k] \in Bucket \cup {NoBucket} /\ now \in Nat
      /\ kept[k] # NoBucket => kept[k].last <= now
  BY DEF RInv, LimiterTypeOK, KeyInv, Ordered
<1>2. CASE buckets[k] = kept[k]
  BY <1>2
<1>3. CASE buckets[k] # kept[k]
  <2> DEFINE f == kept[k].tokens + Flow(now - kept[k].last)
  <2>1. buckets[k] = NoBucket /\ kept[k] # NoBucket /\ f >= FullBucket
    BY <1>3 DEF RInv, KeyInv, Refilled
  <2>2. /\ Tokens(kept[k]) \in 0 .. FullBucket
        /\ Tokens(kept[k]) = FullBucket \/ Tokens(kept[k]) = f
    BY <1>1, <2>1, TokensFacts
  <2>3. Tokens(buckets[k]) = FullBucket
    BY <2>1 DEF Tokens
  <2> HIDE DEF f
  <2> QED
    BY <2>1, <2>2, <2>3, SizeFacts
<1> QED
  BY <1>2, <1>3

\* What may be taken now, and what was taken since a request, was in a full bucket
\* or has flowed back since.
LEMMA TokensAccounted ==
  ASSUME RInv, NEW k \in Keys, NEW i \in DOMAIN granted[k]
  PROVE  /\ Taken(k, i) \in Int /\ now - granted[k][i] \in Int
         /\ Tokens(buckets[k]) + Taken(k, i) <= FullBucket + Flow(now - granted[k][i])
<1> DEFINE b == buckets[k]
           t == granted[k][i]
<1>1. /\ b \in Bucket \cup {NoBucket} /\ now \in Nat
      /\ b # NoBucket => b.last <= now
      /\ granted[k] \in Seq(Nat) /\ t \in Nat
  BY DEF RInv, LimiterTypeOK, KeyInv, Ordered
<1>2. Taken(k, i) \in Int
  <2>1. Len(granted[k]) - i + 1 \in Int
    BY <1>1
  <2> QED
    BY <2>1, SizeFacts DEF Taken
<1>3. Tokens(b) \in 0 .. FullBucket
  BY <1>1, TokensFacts
<1>4. CASE b = NoBucket
  <2>1. Taken(k, i) <= Flow(now - t)
    BY <1>4 DEF RInv, KeyInv, Accounted
  <2>2. Flow(now - t) \in Int
    <3> now - t \in Int
      BY <1>1
    <3> QED
      BY FlowFacts
  <2> HIDE DEF b, t
  <2> QED
    BY <1>1, <1>2, <1>3, <2>1, <2>2, SizeFacts DEF b, t
<1>5. CASE b # NoBucket
  <2>1. b.tokens + Taken(k, i) <= FullBucket + Flow(b.last - t)
    BY <1>5 DEF RInv, KeyInv, Accounted
  <2>2. b.tokens \in Int /\ b.last \in Nat
    BY <1>1, <1>5 DEF Bucket
  <2>3. Tokens(b) <= b.tokens + Flow(now - b.last)
    BY <1>1, <1>5, TokensFacts
  <2> HIDE DEF b, t
  <2>4. (now - b.last) + (b.last - t) = now - t /\ now - b.last \in Int /\ b.last - t \in Int
    BY <1>1, <2>2
  <2>5. Flow(now - t) = Flow(now - b.last) + Flow(b.last - t)
    BY <2>4, FlowFacts
  <2>6. Flow(now - b.last) \in Int /\ Flow(b.last - t) \in Int
    BY <2>4, FlowFacts
  <2> DEFINE T == Tokens(b)
             K == Taken(k, i)
             f == Flow(now - b.last)
             h == Flow(b.last - t)
  <2>7. /\ T \in Int /\ K \in Int /\ f \in Int /\ h \in Int
        /\ b.tokens + K <= FullBucket + h /\ T <= b.tokens + f
    BY <1>2, <1>3, <2>1, <2>3, <2>6, SizeFacts
  <2> HIDE DEF T, K, f, h
  <2>8. T + K <= FullBucket + (f + h)
    BY <2>2, <2>7, SizeFacts
  <2> QED
    BY <1>1, <1>2, <2>5, <2>8 DEF T, K, f, h, b, t
<1> QED
  BY <1>4, <1>5

-----------------------------------------------------------------------------
\* A request that is let through.
LEMMA AllowKeeps == ASSUME RInv, NEW k \in Keys, Allow(k) PROVE RInv'
<1> DEFINE b == buckets[k]
           T == Tokens(b)
           g == granted[k]
<1>1. /\ now \in Nat /\ now' = now /\ g \in Seq(Nat)
      /\ b \in Bucket \cup {NoBucket}
      /\ b # NoBucket => b.last <= now
  BY DEF RInv, LimiterTypeOK, Allow, KeyInv, Ordered
<1>2. T \in 0 .. FullBucket /\ T >= OneToken
  BY <1>1, TokensFacts DEF Allow
<1>3. /\ buckets'[k] = [tokens |-> T - OneToken, last |-> now]
      /\ kept'[k] = [tokens |-> T - OneToken, last |-> now]
      /\ granted'[k] = Append(g, now) /\ promised'[k] = -1
  BY SameTokens DEF Allow, Left, RInv, LimiterTypeOK
<1>4. T - OneToken \in 0 .. FullBucket
  BY <1>2, SizeFacts
<1>5. buckets'[k] \in Bucket /\ buckets'[k] # NoBucket
  BY <1>1, <1>3, <1>4 DEF Bucket, NoBucket
<1>6. LimiterTypeOK'
  BY <1>1, <1>3, <1>5 DEF Allow, RInv, LimiterTypeOK
<1>7. KeyInv(k)'
  <2>1. Len(g) \in Nat /\ DOMAIN g = 1 .. Len(g)
    BY <1>1
  <2>2. /\ Len(granted'[k]) = Len(g) + 1 /\ DOMAIN granted'[k] = 1 .. Len(g) + 1
        /\ granted'[k][Len(g) + 1] = now
        /\ \A i \in DOMAIN g : granted'[k][i] = g[i]
    BY <1>1, <1>3
  <2>3. Ordered(k)'
    BY <1>1, <1>3, <2>1, <2>2 DEF RInv, KeyInv, Ordered
  <2>4. ASSUME NEW i \in DOMAIN g
        PROVE  /\ Flow(now - g[i]) \in Int
               /\ T + (Len(g) - i + 1) * OneToken <= FullBucket + Flow(now - g[i])
    BY <1>1, FlowFacts, TokensAccounted DEF Taken
  <2>5. Flow(now - now) = 0
    BY <1>1, FlowFacts
  <2>6. Accounted(k)'
    <3> SUFFICES ASSUME NEW i \in DOMAIN granted'[k]
                 PROVE  T - OneToken + (Len(g) + 1 - i + 1) * OneToken
                          <= FullBucket + Flow(now - granted'[k][i])
      BY <1>3, <1>5, <2>2 DEF Accounted, Taken
    <3>1. CASE i = Len(g) + 1
      <4>1. (Len(g) + 1 - i + 1) * OneToken = OneToken
        BY <3>1, <2>1, SizeFacts
      <4> QED
        BY <3>1, <4>1, <1>2, <2>2, <2>5, SizeFacts
    <3>2. CASE i # Len(g) + 1
      <4>1. i \in DOMAIN g /\ i \in Int /\ Len(g) \in Int
        BY <3>2, <2>1, <2>2
      <4>2. (Len(g) + 1 - i + 1) * OneToken = (Len(g) - i + 1) * OneToken + OneToken
        BY <4>1, SizeFacts
      <4>3. (Len(g) - i + 1) * OneToken \in Int
        BY <4>1, SizeFacts
      <4> DEFINE K == (Len(g) - i + 1) * OneToken
                 f == Flow(now - g[i])
      <4>4. f \in Int /\ T + K <= FullBucket + f
        BY <4>1, <2>4
      <4>5. granted'[k][i] = g[i]
        BY <4>1, <2>2
      <4> HIDE DEF K, f, T
      <4>6. T - OneToken + (K + OneToken) <= FullBucket + f
        BY <4>3, <4>4, <1>2, SizeFacts DEF K
      <4> QED
        BY <4>2, <4>5, <4>6 DEF K, f
    <3> QED
      BY <3>1, <3>2
  <2>7. Bounded(k)'
    <3> SUFFICES ASSUME NEW i \in DOMAIN granted'[k], NEW j \in DOMAIN granted'[k], i <= j
                 PROVE  (j - i + 1) * OneToken
                          <= FullBucket + Flow(granted'[k][j] - granted'[k][i])
      BY DEF Bounded
    <3>1. CASE j # Len(g) + 1
      <4>1. i \in DOMAIN g /\ j \in DOMAIN g
        BY <3>1, <2>1, <2>2
      <4> QED
        BY <4>1, <2>2 DEF RInv, KeyInv, Bounded
    <3>2. CASE j = Len(g) + 1 /\ i = Len(g) + 1
      <4>1. (j - i + 1) * OneToken = OneToken
        BY <3>2, <2>1, SizeFacts
      <4> QED
        BY <3>2, <4>1, <2>2, <2>5, SizeFacts
    <3>3. CASE j = Len(g) + 1 /\ i # Len(g) + 1
      <4>1. i \in DOMAIN g /\ i \in Int /\ Len(g) \in Int
        BY <3>3, <2>1, <2>2
      <4>2. (j - i + 1) * OneToken = (Len(g) - i + 1) * OneToken + OneToken
        BY <3>3, <4>1, SizeFacts
      <4>3. (Len(g) - i + 1) * OneToken \in Int
        BY <4>1, SizeFacts
      <4> DEFINE K == (Len(g) - i + 1) * OneToken
                 f == Flow(now - g[i])
      <4>4. f \in Int /\ T + K <= FullBucket + f
        BY <4>1, <2>4
      <4>5. granted'[k][i] = g[i] /\ granted'[k][j] = now
        BY <3>3, <4>1, <2>2
      <4> HIDE DEF K, f, T
      <4>6. K + OneToken <= FullBucket + f
        BY <4>3, <4>4, <1>2, SizeFacts DEF K
      <4> QED
        BY <4>2, <4>5, <4>6 DEF K, f
    <3> QED
      BY <3>1, <3>2, <3>3
  <2>8. KeepsPromise(k)'
    BY <1>3 DEF KeepsPromise
  <2>9. Refilled(k)'
    BY <1>3 DEF Refilled
  <2> QED
    BY <2>3, <2>6, <2>7, <2>8, <2>9 DEF KeyInv
<1>8. ASSUME NEW j \in Keys, j # k PROVE KeyInv(j)'
  <2>1. /\ buckets'[j] = buckets[j] /\ kept'[j] = kept[j]
        /\ granted'[j] = granted[j] /\ promised'[j] = promised[j]
    BY <1>8 DEF Allow, RInv, LimiterTypeOK
  <2> QED
    BY <1>1, <2>1, OthersKeep DEF RInv
<1> QED
  BY <1>6, <1>7, <1>8 DEF RInv

\* A request that is refused, and told when to come back.
LEMMA RefuseKeeps == ASSUME RInv, NEW k \in Keys, Refuse(k) PROVE RInv'
<1> DEFINE b == buckets[k]
           T == Tokens(b)
           g == granted[k]
           p == now + PerSecond * RetryAfter(OneToken - T)
<1>1. /\ now \in Nat /\ now' = now /\ g \in Seq(Nat) /\ granted' = granted
      /\ b \in Bucket \cup {NoBucket}
      /\ b # NoBucket => b.last <= now
  BY DEF RInv, LimiterTypeOK, Refuse, KeyInv, Ordered
<1>2. T \in 0 .. FullBucket /\ T < OneToken
  BY <1>1, TokensFacts DEF Refuse
<1>3. b # NoBucket /\ T = b.tokens + Flow(now - b.last)
  BY <1>1, <1>2, TokensFacts, SizeFacts
<1>4. /\ buckets'[k] = [tokens |-> T, last |-> now]
      /\ kept'[k] = [tokens |-> T, last |-> now]
      /\ promised'[k] = IF promised[k] = -1 THEN p ELSE promised[k]
  <2>1. T - 0 = T
    BY <1>2
  <2> QED
    BY <2>1, SameTokens DEF Refuse, Left, RInv, LimiterTypeOK
<1>5. buckets'[k] \in Bucket /\ buckets'[k] # NoBucket
  BY <1>1, <1>2, <1>4 DEF Bucket, NoBucket
<1>6. OneToken - T \in Nat
  BY <1>2, SizeFacts
<1>7. /\ PerSecond * RetryAfter(OneToken - T) \in Nat /\ p \in Nat
      /\ OneToken - T <= Flow(PerSecond * RetryAfter(OneToken - T))
  <2> DEFINE q == RetryAfter(OneToken - T)
  <2>1. q \in Nat /\ OneToken - T <= Flow(PerSecond * q)
    BY <1>6, RetryBringsBack
  <2> HIDE DEF q
  <2>2. PerSecond * q \in Nat
    BY <2>1, LimiterAssumption
  <2> QED
    BY <1>1, <2>1, <2>2 DEF q
<1>8. LimiterTypeOK'
  BY <1>1, <1>4, <1>5, <1>7 DEF Refuse, RInv, LimiterTypeOK
<1>9. KeyInv(k)'
  <2>1. Ordered(k)'
    BY <1>1, <1>4 DEF RInv, KeyInv, Ordered
  <2>2. Accounted(k)'
    BY <1>1, <1>4, <1>5, TokensAccounted DEF Accounted, Taken
  <2>3. Bounded(k)'
    BY <1>1 DEF RInv, KeyInv, Bounded
  <2>4. T + Flow(promised'[k] - now) >= OneToken
    <3>1. CASE promised[k] = -1
      <4>1. p - now = PerSecond * RetryAfter(OneToken - T)
        BY <1>1, <1>7
      <4> DEFINE f == Flow(PerSecond * RetryAfter(OneToken - T))
      <4>2. f \in Int
        BY <1>7, FlowFacts
      <4>3. Flow(promised'[k] - now) = f
        BY <3>1, <1>4, <4>1
      <4> HIDE DEF f, T
      <4>4. T + f >= OneToken
        BY <1>2, <1>7, <4>2, SizeFacts DEF f
      <4> QED
        BY <4>3, <4>4
    <3>2. CASE promised[k] # -1
      <4> DEFINE q == promised[k]
                 f == Flow(now - b.last)
                 h == Flow(q - now)
      <4>1. q \in Nat /\ b.last \in Nat /\ b.tokens \in Nat
        BY <3>2, <1>1, <1>3 DEF RInv, LimiterTypeOK, Bucket
      <4>2. b.tokens + Flow(q - b.last) >= OneToken
        BY <3>2, <1>3 DEF RInv, KeyInv, KeepsPromise
      <4>3. /\ now - b.last \in Int /\ q - now \in Int
            /\ q - b.last = (now - b.last) + (q - now)
        BY <4>1, <1>1
      <4>4. Flow(q - b.last) = f + h /\ f \in Int /\ h \in Int
        BY <4>3, FlowFacts
      <4>5. promised'[k] = q
        BY <3>2, <1>4
      <4> HIDE DEF f, h, q
      <4>6. T + h >= OneToken
        BY <1>3, <4>1, <4>2, <4>4, SizeFacts DEF f
      <4> QED
        BY <4>5, <4>6 DEF h
    <3> QED
      BY <3>1, <3>2
  <2>5. KeepsPromise(k)'
    BY <1>4, <2>4 DEF KeepsPromise
  <2>6. Refilled(k)'
    BY <1>4 DEF Refilled
  <2> QED
    BY <2>1, <2>2, <2>3, <2>5, <2>6 DEF KeyInv
<1>10. ASSUME NEW j \in Keys, j # k PROVE KeyInv(j)'
  <2>1. /\ buckets'[j] = buckets[j] /\ kept'[j] = kept[j]
        /\ granted'[j] = granted[j] /\ promised'[j] = promised[j]
    BY <1>10 DEF Refuse, RInv, LimiterTypeOK
  <2> QED
    BY <1>1, <2>1, OthersKeep DEF RInv
<1> QED
  BY <1>8, <1>9, <1>10 DEF RInv

\* The cleanup: a bucket that goes would have been full.
LEMMA CleanUpKeeps == ASSUME RInv, CleanUp PROVE RInv'
<1>1. /\ now \in Nat /\ now' = now /\ granted' = granted /\ kept' = kept /\ promised' = promised
      /\ \A k \in Keys : buckets'[k] = IF Stale(buckets[k]) THEN NoBucket ELSE buckets[k]
  BY DEF CleanUp, RInv, LimiterTypeOK
<1>2. LimiterTypeOK'
  BY DEF CleanUp, RInv, LimiterTypeOK
<1>3. ASSUME NEW k \in Keys, ~Stale(buckets[k]) PROVE KeyInv(k)'
  BY <1>1, <1>3, OthersKeep DEF RInv
<1>4. ASSUME NEW k \in Keys, Stale(buckets[k]) PROVE KeyInv(k)'
  <2> DEFINE b == buckets[k]
             f == Flow(now - b.last)
  <2>1. b # NoBucket /\ now - b.last > 2 * Window /\ buckets'[k] = NoBucket
    BY <1>1, <1>4 DEF Stale
  <2>2. b.tokens \in Nat /\ b.last \in Nat
    BY <2>1 DEF RInv, LimiterTypeOK, Bucket
  <2>3. Window \in Int /\ now - b.last \in Int /\ Window <= now - b.last
    BY <1>1, <2>1, <2>2, LimiterAssumption
  <2>4. f \in Int /\ FullBucket <= f
    BY <2>3, FlowFacts
  <2>5. Ordered(k)'
    BY <1>1, <2>1 DEF RInv, KeyInv, Ordered
  <2>6. Accounted(k)'
    <3> SUFFICES ASSUME NEW i \in DOMAIN granted[k]
                 PROVE  Taken(k, i) <= Flow(now - granted[k][i])
      BY <1>1, <2>1 DEF Accounted, Taken
    <3> DEFINE t == granted[k][i]
               h == Flow(b.last - t)
               K == Taken(k, i)
    <3>1. t \in Nat /\ K \in Int
      BY TokensAccounted DEF RInv, LimiterTypeOK
    <3>2. b.tokens + K <= FullBucket + h
      BY <2>1 DEF RInv, KeyInv, Accounted
    <3> HIDE DEF b, t
    <3>3. /\ now - b.last \in Int /\ b.last - t \in Int
          /\ now - t = (now - b.last) + (b.last - t)
      BY <1>1, <2>2, <3>1
    <3>4. h \in Int /\ Flow(now - t) = f + h
      BY <3>3, FlowFacts
    <3> HIDE DEF f, h, K
    <3>5. K <= f + h
      BY <2>2, <2>4, <3>1, <3>2, <3>4, SizeFacts
    <3> QED
      BY <3>4, <3>5 DEF K, t
  <2>7. Bounded(k)' /\ KeepsPromise(k)'
    BY <1>1, <2>1 DEF RInv, KeyInv, Bounded, KeepsPromise
  <2>8. Refilled(k)'
    <3>1. kept[k] = b
      BY <2>1 DEF RInv, KeyInv, Refilled
    <3> HIDE DEF f
    <3>2. b.tokens + f >= FullBucket
      BY <2>2, <2>4, SizeFacts
    <3> QED
      BY <1>1, <2>1, <3>1, <3>2 DEF Refilled, f
  <2> QED
    BY <2>5, <2>6, <2>7, <2>8 DEF KeyInv
<1> QED
  BY <1>2, <1>3, <1>4 DEF RInv

\* Time: what flows back only grows.
LEMMA ClockKeeps == ASSUME RInv, ClockTicks PROVE RInv'
<1>1. /\ now \in Nat /\ now' = now + 1
      /\ buckets' = buckets /\ kept' = kept /\ granted' = granted /\ promised' = promised
  BY DEF RInv, LimiterTypeOK, ClockTicks
<1>2. LimiterTypeOK'
  BY <1>1 DEF RInv, LimiterTypeOK
<1>3. ASSUME NEW t \in Nat
      PROVE  Flow(now - t) \in Int /\ Flow(now' - t) \in Int /\ Flow(now - t) <= Flow(now' - t)
  <2>1. now - t \in Int /\ now' - t \in Int /\ now - t <= now' - t
    BY <1>1
  <2> QED
    BY <2>1, FlowFacts
<1>4. ASSUME NEW k \in Keys PROVE KeyInv(k)'
  <2> USE DEF RInv, LimiterTypeOK, KeyInv
  <2>1. Ordered(k)'
    <3>1. buckets[k] # NoBucket => buckets[k].last \in Nat
      BY DEF Bucket
    <3>2. kept[k] # NoBucket => kept[k].last \in Nat
      BY DEF Bucket
    <3>3. \A i \in DOMAIN granted[k] : granted[k][i] \in Nat
      OBVIOUS
    <3> QED
      BY <1>1, <3>1, <3>2, <3>3 DEF Ordered
  <2>2. Accounted(k)'
    <3> SUFFICES ASSUME NEW i \in DOMAIN granted[k], buckets[k] = NoBucket
                 PROVE  Taken(k, i) <= Flow(now' - granted[k][i])
      BY <1>1 DEF Accounted, Taken
    <3> DEFINE f == Flow(now - granted[k][i])
               h == Flow(now' - granted[k][i])
               K == Taken(k, i)
    <3>1. K <= f /\ K \in Int
      BY TokensAccounted DEF Accounted
    <3>2. f \in Int /\ h \in Int /\ f <= h
      <4>1. granted[k][i] \in Nat
        OBVIOUS
      <4> QED
        BY <4>1, <1>3
    <3> HIDE DEF f, h, K
    <3>3. K <= h
      BY <3>1, <3>2
    <3> QED
      BY <3>3 DEF K, h
  <2>3. Bounded(k)' /\ KeepsPromise(k)'
    BY <1>1 DEF Bounded, KeepsPromise
  <2>4. Refilled(k)'
    <3>1. CASE buckets[k] = kept[k]
      BY <3>1, <1>1 DEF Refilled
    <3>2. CASE buckets[k] # kept[k]
      <4> DEFINE n == kept[k].tokens
                 f == Flow(now - kept[k].last)
                 h == Flow(now' - kept[k].last)
      <4>1. buckets[k] = NoBucket /\ kept[k] # NoBucket /\ n + f >= FullBucket
        BY <3>2 DEF Refilled
      <4>2. n \in Nat /\ kept[k].last \in Nat
        BY <4>1 DEF Bucket
      <4>3. f \in Int /\ h \in Int /\ f <= h
        BY <1>3, <4>2
      <4> HIDE DEF f, h, n
      <4>4. n + h >= FullBucket
        BY <4>1, <4>2, <4>3, SizeFacts
      <4> QED
        BY <1>1, <4>1, <4>4 DEF Refilled, n, h
    <3> QED
      BY <3>1, <3>2
  <2> QED
    BY <2>1, <2>2, <2>3, <2>4
<1> QED
  BY <1>2, <1>4 DEF RInv

-----------------------------------------------------------------------------
\* The invariant the theorems follow from.
LEMMA Invariance == LimiterSpec => []RInv
<1>1. LimiterInit => RInv
  BY DEF LimiterInit, RInv, LimiterTypeOK, KeyInv, Ordered, Accounted, Bounded,
         KeepsPromise, Refilled
<1>2. RInv /\ [LimiterNext]_limiterVars => RInv'
  <2> SUFFICES ASSUME RInv, [LimiterNext]_limiterVars PROVE RInv'
    OBVIOUS
  <2>1. ASSUME NEW k \in Keys, Allow(k) PROVE RInv'
    BY <2>1, AllowKeeps
  <2>2. ASSUME NEW k \in Keys, Refuse(k) PROVE RInv'
    BY <2>2, RefuseKeeps
  <2>3. CASE CleanUp
    BY <2>3, CleanUpKeeps
  <2>4. CASE ClockTicks
    BY <2>4, ClockKeeps
  <2>5. CASE UNCHANGED limiterVars
    <3>1. now' = now /\ buckets' = buckets /\ kept' = kept /\ granted' = granted /\ promised' = promised
      BY <2>5 DEF limiterVars
    <3>2. LimiterTypeOK'
      BY <3>1 DEF RInv, LimiterTypeOK
    <3> QED
      BY <3>1, <3>2, OthersKeep DEF RInv
  <2> QED
    BY <2>1, <2>2, <2>3, <2>4, <2>5 DEF LimiterNext
<1> QED
  BY <1>1, <1>2, PTL DEF LimiterSpec

\* Every variable keeps its type: no bucket holds less than nothing or more than
\* it can.
THEOREM LimiterTypes == LimiterSpec => []LimiterTypeOK
<1>1. RInv => LimiterTypeOK
  BY DEF RInv
<1> QED
  BY <1>1, Invariance, PTL

\* However requests, refusals, cleanups and time interleave, a key never gets more
\* than a full bucket and the flow.
THEOREM BurstBoundHolds == LimiterSpec => []BurstBound
<1>1. RInv => BurstBound
  BY DEF RInv, KeyInv, Bounded, BurstBound
<1> QED
  BY <1>1, Invariance, PTL

\* A client that waits for as long as it was told is let through.
THEOREM WaitingIsEnoughHolds == LimiterSpec => []WaitingIsEnough
<1>1. RInv => WaitingIsEnough
  <2> SUFFICES ASSUME RInv, NEW k \in Keys, promised[k] # -1, now >= promised[k]
               PROVE  Tokens(buckets[k]) >= OneToken
    BY DEF WaitingIsEnough
  <2> DEFINE b == buckets[k]
             p == promised[k]
  <2>1. /\ b \in Bucket \cup {NoBucket} /\ now \in Nat /\ p \in Nat
        /\ b # NoBucket => b.last <= now
    BY DEF RInv, LimiterTypeOK, KeyInv, Ordered
  <2>2. CASE b = NoBucket
    BY <2>1, <2>2, TokensFacts, SizeFacts
  <2>3. CASE b # NoBucket
    <3> DEFINE f == Flow(p - b.last)
               h == Flow(now - b.last)
    <3>1. b.tokens + f >= OneToken /\ b.tokens \in Nat /\ b.last \in Nat
      BY <2>3 DEF RInv, KeyInv, KeepsPromise, LimiterTypeOK, Bucket
    <3>2. p - b.last \in Int /\ now - b.last \in Int /\ p - b.last <= now - b.last
      BY <2>1, <3>1
    <3>3. f \in Int /\ h \in Int /\ f <= h
      BY <3>2, FlowFacts
    <3>4. Tokens(b) = FullBucket \/ Tokens(b) = b.tokens + h
      BY <2>1, <2>3, TokensFacts
    <3> HIDE DEF f, h
    <3>5. b.tokens + h >= OneToken /\ FullBucket >= OneToken
      BY <3>1, <3>3, SizeFacts
    <3> QED
      BY <3>4, <3>5
  <2> QED
    BY <2>2, <2>3
<1> QED
  BY <1>1, Invariance, PTL

\* Nobody notices that a bucket was cleaned up.
THEOREM CleanupIsUnseenHolds == LimiterSpec => []CleanupIsUnseen
<1>1. RInv => CleanupIsUnseen
  BY SameTokens DEF CleanupIsUnseen
<1> QED
  BY <1>1, Invariance, PTL

\* The limiter keeps what it promises, for every limit and window.
THEOREM LimitsAlwaysHold == LimiterSpec => []LimitsHold
<1>1. BurstBound /\ WaitingIsEnough /\ CleanupIsUnseen => LimitsHold
  BY DEF LimitsHold
<1> QED
  BY <1>1, BurstBoundHolds, WaitingIsEnoughHolds, CleanupIsUnseenHolds, PTL

-----------------------------------------------------------------------------
(* System alerts (SystemAlerts)                                            *)

\* What makes their properties true is what a goroutine found when nothing else of its
\* type went on meanwhile.

Busy(r) == found[r] # Idle

\* Ids are given once, also those of alerts yet to be stored.
IdsAreUnique ==
  /\ \A a, b \in alerts : a.id = b.id => a = b
  /\ \A r \in Raisers : Busy(r) =>
       raising[r].text # 0 /\ \A a \in alerts : a.id # raising[r].text
  /\ \A r, s \in Raisers : Busy(r) /\ Busy(s) =>
       found[s] # raising[r].text /\ (r # s => raising[r].text # raising[s].text)

\* A goroutine found an alert of the type it raises.
FoundOwnType ==
  \A r \in Raisers, a \in alerts : Busy(r) /\ a.id = found[r] => a.type = raising[r].type

\* One goroutine at a time raises a type without overlap.
Alone ==
  \A r, s \in Raisers :
    Busy(r) /\ Busy(s) /\ raising[r].type = raising[s].type /\ raising[r].type \notin overlap
      => r = s

\* What it found is still so.
FoundIsCurrent ==
  \A r \in Raisers : Busy(r) /\ raising[r].type \notin overlap =>
    IF found[r] = 0 THEN raising[r].type \in unread \/ Active(raising[r].type) = {}
                    ELSE \E a \in Active(raising[r].type) : a.id = found[r]

AInv ==
  /\ AlertsTypeOK /\ IdsAreUnique /\ FoundOwnType /\ Alone /\ FoundIsCurrent
  /\ OneActive /\ RaisedIsShown

-----------------------------------------------------------------------------
\* A goroutine looks for an alert: alone with its type, or the type is set apart.
LEMMA FindKeeps ==
  ASSUME AInv, NEW r \in Raisers, NEW t \in AlertTypes, FindAlert(r, t)
  PROVE  AInv'
<1> USE AlertsAssumption DEF AInv, AlertsTypeOK, FindAlert, Idle, Busy
<1>1. /\ raised' = raised + 1 /\ raised' \in 1 .. MaxRaised /\ alerts' = alerts
      /\ raising' = [raising EXCEPT ![r] = [type |-> t, text |-> raised + 1]]
      /\ newest' = newest
  OBVIOUS
<1>2. \/ /\ found' = [found EXCEPT ![r] = 0]
         /\ \/ Active(t) = {} /\ unread' = unread \ {t}
            \/ unread' = unread \cup {t}
      \/ \E a \in Active(t) : found' = [found EXCEPT ![r] = a.id] /\ unread' = unread
  BY DEF Find
<1>3. \A u : Active(u)' = Active(u)
  BY DEF Active
<1>4. AlertsTypeOK'
  <2>1. alerts \subseteq [id : 1 .. raised + 1, type : AlertTypes, dismissed : BOOLEAN, text : 1 .. raised + 1]
    OBVIOUS
  <2>2. found' \in [Raisers -> 0 .. raised + 1 \cup {MaxRaised + 1}]
    BY <1>2 DEF Active
  <2>3. raising' \in [Raisers -> [type : AlertTypes, text : 0 .. raised + 1]]
    OBVIOUS
  <2>4. unread' \subseteq AlertTypes
    BY <1>2
  <2> QED
    BY <2>1, <2>2, <2>3, <2>4
<1>5. found'[r] # Idle /\ found'[r] \in 0 .. raised
  BY <1>2 DEF Active
<1>6. \A s \in Raisers : s # r => found'[s] = found[s] /\ raising'[s] = raising[s]
  BY <1>2
<1>7. raising'[r] = [type |-> t, text |-> raised + 1]
  OBVIOUS
<1>8. IdsAreUnique'
  <2>1. \A a \in alerts : a.id # raised + 1
    OBVIOUS
  <2>2. \A s \in Raisers : raising[s].text # raised + 1
    OBVIOUS
  <2> QED
    BY <1>1, <1>2, <1>5, <1>6, <1>7, <2>1, <2>2 DEF IdsAreUnique, Active
<1>9. FoundOwnType'
  <2>1. \A a \in alerts : a.id = found'[r] => a.type = t
    BY <1>2 DEF Active, IdsAreUnique
  <2> QED
    BY <1>1, <1>6, <1>7, <2>1 DEF FoundOwnType
<1>10. /\ overlap \subseteq overlap'
       /\ t \notin overlap' => \A s \in Raisers : found[s] # Idle => raising[s].type # t
  BY DEF Raising
<1>11. Alone'
  BY <1>6, <1>7, <1>10 DEF Alone
<1>12. FoundIsCurrent'
  <2> SUFFICES ASSUME NEW s \in Raisers, found'[s] # Idle, NEW u \in AlertTypes,
                      u = raising'[s].type, u \notin overlap'
               PROVE  IF found'[s] = 0 THEN u \in unread' \/ Active(u) = {}
                        ELSE \E a \in Active(u) : a.id = found'[s]
    BY <1>3, <1>4 DEF FoundIsCurrent, Active
  <2>1. CASE s = r
    BY <1>2, <1>7, <2>1 DEF Active
  <2>2. CASE s # r
    <3>1. found[s] # Idle /\ u = raising[s].type /\ u \notin overlap
      BY <1>6, <1>10, <2>2
    <3>2. IF found[s] = 0 THEN u \in unread \/ Active(u) = {}
                           ELSE \E a \in Active(u) : a.id = found[s]
      BY <3>1 DEF FoundIsCurrent
    <3>3. u # t
      BY <1>10, <2>2, <3>1
    <3>4. u \in unread => u \in unread'
      BY <1>2, <3>3
    <3> QED
      BY <1>6, <2>2, <3>2, <3>4
  <2> QED
    BY <2>1, <2>2
<1>13. OneActive' /\ RaisedIsShown'
  <2>1. \A u \in unread \ unread' : Active(u) = {}
    BY <1>2
  <2> QED
    BY <1>1, <1>3, <1>10, <2>1 DEF OneActive, RaisedIsShown
<1> QED
  BY <1>4, <1>8, <1>9, <1>11, <1>12, <1>13

\* It gives up.
LEMMA FailureKeeps ==
  ASSUME AInv, NEW r \in Raisers, StoreAlertFails(r)
  PROVE  AInv'
<1> USE AlertsAssumption DEF AInv, AlertsTypeOK, StoreAlertFails, Idle, Busy
<1>1. \A s \in Raisers : found'[s] # Idle => s # r /\ found'[s] = found[s]
  OBVIOUS
<1>2. \A u : Active(u)' = Active(u)
  BY DEF Active
<1>3. AlertsTypeOK'
  OBVIOUS
<1>4. IdsAreUnique' /\ FoundOwnType' /\ Alone'
  BY <1>1 DEF IdsAreUnique, FoundOwnType, Alone
<1>5. FoundIsCurrent'
  BY <1>1 DEF FoundIsCurrent, Active
<1>6. OneActive' /\ RaisedIsShown'
  BY <1>1, <1>2 DEF OneActive, RaisedIsShown
<1> QED
  BY <1>3, <1>4, <1>5, <1>6

\* An alert is dismissed: whoever raises its type now is set apart.
LEMMA DismissKeeps ==
  ASSUME AInv, NEW d \in alerts, Dismiss(d)
  PROVE  AInv'
<1> USE AlertsAssumption DEF AInv, AlertsTypeOK, Dismiss, Idle, Busy
<1> DEFINE gone == [d EXCEPT !.dismissed = TRUE]
<1>1. /\ gone \in [id : 1 .. raised, type : AlertTypes, dismissed : BOOLEAN, text : 1 .. raised]
      /\ gone.id = d.id /\ gone.type = d.type /\ gone.dismissed
      /\ alerts' = (alerts \ {d}) \cup {gone} /\ found' = found /\ raising' = raising
      /\ overlap \subseteq overlap' /\ raised' = raised /\ unread' = unread
  OBVIOUS
<1> HIDE DEF gone
<1>2. AlertsTypeOK'
  BY <1>1
<1>3. \A u : u # d.type => Active(u)' = Active(u)
  BY <1>1 DEF Active
<1>4. \A u : Active(u)' \subseteq Active(u)
  BY <1>1 DEF Active
<1>5. IdsAreUnique' /\ FoundOwnType'
  BY <1>1 DEF IdsAreUnique, FoundOwnType
<1>6. Alone'
  BY <1>1 DEF Alone
<1>7. FoundIsCurrent'
  <2> SUFFICES ASSUME NEW s \in Raisers, found[s] # Idle, NEW u \in AlertTypes,
                      u = raising[s].type, u \notin overlap'
               PROVE  IF found[s] = 0 THEN u \in unread \/ Active(u)' = {}
                        ELSE \E a \in Active(u)' : a.id = found[s]
    BY <1>1 DEF FoundIsCurrent, Active
  <2>1. u # d.type
    BY DEF Raising
  <2>2. Active(u)' = Active(u)
    BY <1>3, <2>1
  <2>3. IF found[s] = 0 THEN u \in unread \/ Active(u) = {}
                         ELSE \E a \in Active(u) : a.id = found[s]
    BY <1>1 DEF FoundIsCurrent
  <2> QED
    BY <2>2, <2>3
<1>8. OneActive'
  BY <1>1, <1>4 DEF OneActive
<1>9. RaisedIsShown'
  BY <1>1, <1>3 DEF RaisedIsShown
<1> QED
  BY <1>2, <1>5, <1>6, <1>7, <1>8, <1>9

\* Dismissed alerts are deleted.
LEMMA CleanupKeeps ==
  ASSUME AInv, Cleanup
  PROVE  AInv'
<1> USE AlertsAssumption DEF AInv, AlertsTypeOK, Cleanup, Idle, Busy
<1>1. alerts' \subseteq alerts /\ UNCHANGED <<found, raising, raised, overlap, unread, newest>>
  OBVIOUS
<1>2. \A u : Active(u)' = Active(u)
  BY DEF Active
<1>3. AlertsTypeOK'
  BY <1>1
<1>4. IdsAreUnique' /\ FoundOwnType' /\ Alone'
  BY <1>1 DEF IdsAreUnique, FoundOwnType, Alone
<1>5. FoundIsCurrent'
  BY <1>1 DEF FoundIsCurrent, Active
<1>6. OneActive' /\ RaisedIsShown'
  BY <1>1, <1>2 DEF OneActive, RaisedIsShown
<1> QED
  BY <1>3, <1>4, <1>5, <1>6

\* It stores what it raises: a new alert, or the text of the one it found.
LEMMA StoreKeeps ==
  ASSUME AInv, NEW r \in Raisers, StoreAlert(r)
  PROVE  AInv'
<1> USE AlertsAssumption DEF AInv, AlertsTypeOK, Idle, Busy
<1> SUFFICES ASSUME NEW t, NEW n, t = raising[r].type, n = raising[r].text PROVE AInv'
  OBVIOUS
<1> DEFINE own == [id |-> n, type |-> t, dismissed |-> FALSE, text |-> n]
           With(a) == IF a.id = found[r] THEN [a EXCEPT !.text = n] ELSE a
<1>1. /\ found[r] # Idle /\ found' = [found EXCEPT ![r] = Idle]
      /\ raising' = raising /\ raised' = raised /\ overlap' = overlap
      /\ unread' = unread
      /\ newest' = [newest EXCEPT ![t] = n]
      /\ alerts' = IF found[r] = 0 THEN alerts \cup {own} ELSE {With(a) : a \in alerts}
  BY DEF StoreAlert
<1>2. t \in AlertTypes /\ n \in 1 .. raised
  BY <1>1 DEF IdsAreUnique
<1>3. \A s \in Raisers : found'[s] # Idle => s # r /\ found'[s] = found[s]
  BY <1>1
<1>4. \A a \in alerts :
        /\ With(a) \in [id : 1 .. raised, type : AlertTypes, dismissed : BOOLEAN, text : 1 .. raised]
        /\ With(a).id = a.id /\ With(a).type = a.type /\ With(a).dismissed = a.dismissed
        /\ a.id # found[r] => With(a) = a
        /\ a.id = found[r] => With(a).text = n
  BY <1>2
<1>5. own.id = n /\ own.type = t /\ ~own.dismissed /\ own.text = n
  OBVIOUS
<1>6. own \in [id : 1 .. raised, type : AlertTypes, dismissed : BOOLEAN, text : 1 .. raised]
  BY <1>2
<1> HIDE DEF With, own
<1>8. Alone'
  BY <1>1, <1>3 DEF Alone
\* Whoever else is busy raises another type, or one set apart.
<1>9. ASSUME \A u : u # t => Active(u)' = Active(u) PROVE FoundIsCurrent'
  <2> SUFFICES ASSUME NEW s \in Raisers, found'[s] # Idle, NEW u \in AlertTypes,
                      u = raising[s].type, u \notin overlap
               PROVE  IF found[s] = 0 THEN u \in unread \/ Active(u)' = {}
                        ELSE \E a \in Active(u)' : a.id = found[s]
    BY <1>1, <1>3 DEF FoundIsCurrent, Active
  <2>1. s # r /\ found[s] # Idle /\ u # t
    BY <1>1, <1>3 DEF Alone
  <2>2. Active(u)' = Active(u)
    BY <1>9, <2>1
  <2>3. IF found[s] = 0 THEN u \in unread \/ Active(u) = {}
                         ELSE \E a \in Active(u) : a.id = found[s]
    BY <2>1 DEF FoundIsCurrent
  <2> QED
    BY <2>2, <2>3
<1>7. CASE found[r] = 0
  <2> USE <1>7
  <2>1. alerts' = alerts \cup {own}
    BY <1>1
  <2>2. AlertsTypeOK'
    BY <1>1, <1>2, <1>6, <2>1
  <2>3. IdsAreUnique'
    BY <1>1, <1>3, <1>5, <2>1 DEF IdsAreUnique
  <2>4. FoundOwnType'
    <3>1. \A s \in Raisers : found[s] # Idle => found[s] # n
      BY <1>1 DEF IdsAreUnique
    <3> QED
      BY <1>1, <1>3, <1>5, <2>1, <3>1 DEF FoundOwnType
  <2>5. Active(t)' = Active(t) \cup {own} /\ \A u : u # t => Active(u)' = Active(u)
    BY <1>5, <2>1 DEF Active
  <2>6. t \notin overlap \cup unread => Active(t) = {}
    BY <1>1 DEF FoundIsCurrent
  <2>7. OneActive' /\ RaisedIsShown'
    <3>1. OneActive'
      <4> SUFFICES ASSUME NEW u \in AlertTypes \ (overlap \cup unread), NEW a \in Active(u)', NEW b \in Active(u)'
                   PROVE  a = b
        BY <1>1 DEF OneActive
      <4>1. CASE u = t
        BY <2>5, <2>6, <4>1
      <4>2. CASE u # t
        BY <2>5, <4>2 DEF OneActive
      <4> QED
        BY <4>1, <4>2
    <3>2. RaisedIsShown'
      BY <1>1, <1>2, <1>5, <2>5 DEF RaisedIsShown
    <3> QED
      BY <3>1, <3>2
  <2> QED
    BY <1>8, <1>9, <2>2, <2>3, <2>4, <2>5, <2>7
<1>10. CASE found[r] # 0
  <2> USE <1>10
  <2>1. alerts' = {With(a) : a \in alerts}
    BY <1>1
  <2>2. AlertsTypeOK'
    BY <1>1, <1>2, <1>4, <2>1
  <2>3. IdsAreUnique'
    BY <1>1, <1>3, <1>4, <2>1 DEF IdsAreUnique
  <2>4. FoundOwnType'
    BY <1>1, <1>3, <1>4, <2>1 DEF FoundOwnType
  <2>5. \A a \in alerts : a.id = found[r] => a.type = t
    BY <1>1 DEF FoundOwnType
  <2>6. \A u : u # t => Active(u)' = Active(u)
    BY <1>4, <2>1, <2>5 DEF Active
  <2>7. t \notin overlap => \E a \in Active(t) : a.id = found[r]
    BY <1>1 DEF FoundIsCurrent
  <2>8. Active(t)' = {With(a) : a \in Active(t)}
    BY <1>4, <2>1 DEF Active
  <2>9. OneActive'
    <3> SUFFICES ASSUME NEW u \in AlertTypes \ (overlap \cup unread), NEW a \in Active(u)', NEW b \in Active(u)'
                 PROVE  a = b
      BY <1>1 DEF OneActive
    <3>1. CASE u = t
      BY <2>8, <3>1 DEF OneActive
    <3>2. CASE u # t
      BY <2>6, <3>2 DEF OneActive
    <3> QED
      BY <3>1, <3>2
  <2>10. RaisedIsShown'
    <3>1. t \notin overlap => \E a \in Active(t)' : a.text = n
      BY <1>4, <2>7, <2>8 DEF Active
    <3> QED
      BY <1>1, <1>2, <2>6, <3>1 DEF RaisedIsShown
  <2> QED
    BY <1>8, <1>9, <2>2, <2>3, <2>4, <2>6, <2>9, <2>10
<1> QED
  BY <1>7, <1>10

-----------------------------------------------------------------------------
\* The invariant the theorems follow from.
LEMMA AlertsInvariance == AlertsSpec => []AInv
<1>1. AlertsInit => AInv
  BY AlertsAssumption DEF AlertsInit, AInv, AlertsTypeOK, IdsAreUnique, FoundOwnType, Alone,
     FoundIsCurrent, OneActive, RaisedIsShown, Busy, Active, Idle
<1>2. AInv /\ [AlertsNext]_alertVars => AInv'
  <2> SUFFICES ASSUME AInv, [AlertsNext]_alertVars PROVE AInv'
    OBVIOUS
  <2>1. ASSUME NEW r \in Raisers, NEW t \in AlertTypes, FindAlert(r, t) PROVE AInv'
    BY <2>1, FindKeeps
  <2>2. ASSUME NEW r \in Raisers, StoreAlert(r) PROVE AInv'
    BY <2>2, StoreKeeps
  <2>3. ASSUME NEW r \in Raisers, StoreAlertFails(r) PROVE AInv'
    BY <2>3, FailureKeeps
  <2>4. ASSUME NEW a \in alerts, Dismiss(a) PROVE AInv'
    BY <2>4, DismissKeeps
  <2>5. CASE Cleanup
    BY <2>5, CleanupKeeps
  <2>6. CASE UNCHANGED alertVars
    BY <2>6 DEF alertVars, AInv, AlertsTypeOK, IdsAreUnique, FoundOwnType, Alone,
       FoundIsCurrent, OneActive, RaisedIsShown, Busy, Active, Idle
  <2> QED
    BY <2>1, <2>2, <2>3, <2>4, <2>5, <2>6 DEF AlertsNext
<1> QED
  BY <1>1, <1>2, PTL DEF AlertsSpec

\* The table and the goroutines' notes keep their types.
THEOREM AlertsTypes == AlertsSpec => []AlertsTypeOK
<1>1. AInv => AlertsTypeOK
  BY DEF AInv
<1> QED
  BY <1>1, AlertsInvariance, PTL

\* Deduplication works for every type that is not raised twice at once: what was
\* raised last is shown, as the only active alert unless a query failed.
THEOREM AlertsAlwaysHold == AlertsSpec => []AlertsHold
<1>1. AInv => AlertsHold
  BY DEF AInv, AlertsHold
<1> QED
  BY <1>1, AlertsInvariance, PTL

-----------------------------------------------------------------------------
(* Polls of the providers (ProviderPolling)                                *)

\* A caller is at work on the tokens from reading the file until it is done with it,
\* and has got a token from the answer until it has tried to save it.
AtWork(c) == IF c = "agent" THEN poll["codex"] \in {"refresh", "save"} ELSE snap \in {"refresh", "save"}
ToSave(c) == IF c = "agent" THEN poll["codex"] = "save" ELSE snap = "save"
StepsMatch == \A c \in Callers : (Holds(c) <=> AtWork(c)) /\ (received[c] # 0 <=> ToSave(c))

\* One caller at a time, if nothing was disturbed; the last token given is in the
\* file, or with the caller that is about to save it.
OneAtATime == ~raced => ~(Holds("agent") /\ Holds("snap"))
LastIsKnown ==
  ~cut /\ ~raced =>
    \A c \in Callers : /\ Holds(c) /\ received[c] = 0 => presented[c] = live
                       /\ received[c] # 0 => received[c] = live

\* Antigravity's failures beyond three are the polls it was left out of.
PausesAreCounted ==
  /\ fails["antigravity"] <= 5
  /\ skips = IF fails["antigravity"] < 3 THEN 0 ELSE fails["antigravity"] - 3
  /\ poll["antigravity"] \notin {"done", "gate"} => fails["antigravity"] < 3

PollingInv == PollingTypeOK /\ StepsMatch /\ OneAtATime /\ LastIsKnown /\ FileIsUsable /\ PausesAreCounted

\* The two who change the tokens, each the other of the other.
LEMMA TwoCallers ==
  /\ Callers = {"agent", "snap"} /\ Other("agent") = "snap" /\ Other("snap") = "agent"
BY DEF Other, Callers

\* A step that leaves the tokens alone, and those at work on them.
LEMMA TokensKeep ==
  ASSUME PollingInv, UNCHANGED tokens, snap' = snap, PollingTypeOK',
         poll'["codex"] \in {"refresh", "save"} <=> poll["codex"] \in {"refresh", "save"},
         poll'["codex"] = "save" <=> poll["codex"] = "save"
  PROVE  StepsMatch' /\ OneAtATime' /\ LastIsKnown' /\ FileIsUsable'
BY DEF PollingInv, tokens, StepsMatch, AtWork, ToSave, Holds, OneAtATime, LastIsKnown, FileIsUsable

LEMMA BeginsKeeps == ASSUME PollingInv, PollBegins PROVE PollingInv'
<1>1. PollingTypeOK'
  BY DEF PollingInv, PollingTypeOK, PollBegins, tokens, Counted
<1>2. PausesAreCounted'
  BY DEF PollingInv, PausesAreCounted, PollBegins, Counted
<1> QED
  BY <1>1, <1>2, TokensKeep DEF PollingInv, PollBegins, Counted

LEMMA GateKeeps == ASSUME PollingInv, NEW p \in Counted, Gate(p) PROVE PollingInv'
<1>1. PollingTypeOK'
  BY DEF PollingInv, PollingTypeOK, Gate, Paused, tokens, Counted
<1>2. PausesAreCounted'
  BY DEF PollingInv, PollingTypeOK, PausesAreCounted, Gate, Paused, TriedAgain, Counted
<1>3. /\ poll'["codex"] \in {"refresh", "save"} <=> poll["codex"] \in {"refresh", "save"}
      /\ poll'["codex"] = "save" <=> poll["codex"] = "save"
  BY DEF PollingInv, PollingTypeOK, Gate, Counted
<1> QED
  BY <1>1, <1>2, <1>3, TokensKeep DEF PollingInv, Gate

LEMMA NoneKeeps == ASSUME PollingInv, NEW p \in Counted, NoCredentials(p) PROVE PollingInv'
<1>1. PollingTypeOK'
  BY DEF PollingInv, PollingTypeOK, NoCredentials, tokens, Counted
<1>2. PausesAreCounted'
  BY DEF PollingInv, PollingTypeOK, PausesAreCounted, NoCredentials, Counted
<1>3. /\ poll'["codex"] \in {"refresh", "save"} <=> poll["codex"] \in {"refresh", "save"}
      /\ poll'["codex"] = "save" <=> poll["codex"] = "save"
  BY DEF PollingInv, PollingTypeOK, NoCredentials, Counted
<1> QED
  BY <1>1, <1>2, <1>3, TokensKeep DEF PollingInv, NoCredentials

LEMMA FetchKeeps == ASSUME PollingInv, NEW p \in Counted, Fetch(p) PROVE PollingInv'
<1>1. PollingTypeOK'
  BY DEF PollingInv, PollingTypeOK, Fetch, tokens, Counted
<1>2. PausesAreCounted'
  BY DEF PollingInv, PollingTypeOK, PausesAreCounted, Fetch, Counted
<1>3. /\ poll'["codex"] \in {"refresh", "save"} <=> poll["codex"] \in {"refresh", "save"}
      /\ poll'["codex"] = "save" <=> poll["codex"] = "save"
  BY DEF PollingInv, PollingTypeOK, Fetch, Counted
<1> QED
  BY <1>1, <1>2, <1>3, TokensKeep DEF PollingInv, Fetch

LEMMA DetectKeeps == ASSUME PollingInv, Detect PROVE PollingInv'
<1>1. PollingTypeOK'
  BY DEF PollingInv, PollingTypeOK, Detect, Reads, Holds, tokens, Counted, Callers
<1>2. PausesAreCounted'
  BY DEF PollingInv, PollingTypeOK, PausesAreCounted, Detect, Counted
<1>3. CASE age = "new"
  BY <1>1, <1>2, <1>3, TokensKeep DEF PollingInv, PollingTypeOK, Detect, Counted
<1>4. CASE age # "new"
  <2> USE <1>4, TwoCallers DEF PollingInv, PollingTypeOK, Detect, Reads, Counted
  <2>1. StepsMatch'
    BY DEF StepsMatch, Holds, AtWork, ToSave
  <2>2. OneAtATime'
    BY DEF OneAtATime, Holds
  <2>3. LastIsKnown'
    BY DEF LastIsKnown, FileIsUsable, StepsMatch, Holds, AtWork, ToSave
  <2>4. FileIsUsable'
    BY DEF FileIsUsable
  <2> QED
    BY <1>1, <1>2, <2>1, <2>2, <2>3, <2>4
<1> QED
  BY <1>3, <1>4

LEMMA SnapDetectKeeps == ASSUME PollingInv, SnapDetect PROVE PollingInv'
<1> USE TwoCallers DEF PollingInv, PollingTypeOK, SnapDetect, Reads, Counted
<1>1. PollingTypeOK'
  <2>1. live' \in Nat \ {0} /\ file' \in Nat \ {0} /\ misses' \in Nat
    BY DEF StepsMatch, AtWork, ToSave, tokens
  <2>2. presented' \in [Callers -> Nat] /\ received' \in [Callers -> Nat]
    BY DEF tokens
  <2>3. fails' \in [Counted -> Nat] /\ skips' \in Nat
    BY DEF tokens
  <2> QED
    BY <2>1, <2>2, <2>3 DEF tokens
<1>2. PausesAreCounted'
  BY DEF PausesAreCounted
<1>3. StepsMatch'
  BY DEF StepsMatch, Holds, AtWork, ToSave, tokens
<1>4. OneAtATime'
  BY DEF OneAtATime, Holds, tokens
<1>5. LastIsKnown'
  BY DEF LastIsKnown, FileIsUsable, StepsMatch, OneAtATime, Holds, AtWork, ToSave, tokens
<1>6. FileIsUsable'
  BY DEF FileIsUsable, LastIsKnown, StepsMatch, OneAtATime, Holds, AtWork, ToSave, tokens
<1> QED
  BY <1>1, <1>2, <1>3, <1>4, <1>5, <1>6

LEMMA AgentRefreshKeeps == ASSUME PollingInv, AgentRefresh PROVE PollingInv'
<1> USE TwoCallers DEF PollingInv, PollingTypeOK, AgentRefresh, Given, GivenInVain, Forgets, Counted
<1>1. PollingTypeOK'
  <2>1. live' \in Nat \ {0} /\ file' \in Nat \ {0} /\ misses' \in Nat
    BY DEF StepsMatch, AtWork, ToSave, tokens
  <2>2. presented' \in [Callers -> Nat] /\ received' \in [Callers -> Nat]
    BY DEF tokens
  <2>3. fails' \in [Counted -> Nat] /\ skips' \in Nat
    BY DEF tokens
  <2> QED
    BY <2>1, <2>2, <2>3 DEF tokens
<1>2. PausesAreCounted'
  BY DEF PausesAreCounted
<1>3. StepsMatch'
  BY DEF StepsMatch, Holds, AtWork, ToSave, tokens
<1>4. OneAtATime'
  BY DEF OneAtATime, Holds, tokens
<1>5. LastIsKnown'
  BY DEF LastIsKnown, FileIsUsable, StepsMatch, OneAtATime, Holds, AtWork, ToSave, tokens
<1>6. FileIsUsable'
  BY DEF FileIsUsable, LastIsKnown, StepsMatch, OneAtATime, Holds, AtWork, ToSave, tokens
<1> QED
  BY <1>1, <1>2, <1>3, <1>4, <1>5, <1>6

LEMMA SnapRefreshKeeps == ASSUME PollingInv, SnapRefresh PROVE PollingInv'
<1> USE TwoCallers DEF PollingInv, PollingTypeOK, SnapRefresh, Given, GivenInVain, Forgets, Counted
<1>1. PollingTypeOK'
  <2>1. live' \in Nat \ {0} /\ file' \in Nat \ {0} /\ misses' \in Nat
    BY DEF StepsMatch, AtWork, ToSave, tokens
  <2>2. presented' \in [Callers -> Nat] /\ received' \in [Callers -> Nat]
    BY DEF tokens
  <2>3. fails' \in [Counted -> Nat] /\ skips' \in Nat
    BY DEF tokens
  <2> QED
    BY <2>1, <2>2, <2>3 DEF tokens
<1>2. PausesAreCounted'
  BY DEF PausesAreCounted
<1>3. StepsMatch'
  BY DEF StepsMatch, Holds, AtWork, ToSave, tokens
<1>4. OneAtATime'
  BY DEF OneAtATime, Holds, tokens
<1>5. LastIsKnown'
  BY DEF LastIsKnown, FileIsUsable, StepsMatch, OneAtATime, Holds, AtWork, ToSave, tokens
<1>6. FileIsUsable'
  BY DEF FileIsUsable, LastIsKnown, StepsMatch, OneAtATime, Holds, AtWork, ToSave, tokens
<1> QED
  BY <1>1, <1>2, <1>3, <1>4, <1>5, <1>6

LEMMA AgentSaveKeeps == ASSUME PollingInv, AgentSave PROVE PollingInv'
<1> USE TwoCallers DEF PollingInv, PollingTypeOK, AgentSave, Saves, CannotSave, Written, Counted
<1>1. PollingTypeOK'
  <2>1. live' \in Nat \ {0} /\ file' \in Nat \ {0} /\ misses' \in Nat
    BY DEF StepsMatch, AtWork, ToSave, tokens
  <2>2. presented' \in [Callers -> Nat] /\ received' \in [Callers -> Nat]
    BY DEF tokens
  <2>3. fails' \in [Counted -> Nat] /\ skips' \in Nat
    BY DEF tokens
  <2> QED
    BY <2>1, <2>2, <2>3 DEF tokens
<1>2. PausesAreCounted'
  BY DEF PausesAreCounted
<1>3. StepsMatch'
  BY DEF StepsMatch, Holds, AtWork, ToSave, tokens
<1>4. OneAtATime'
  BY DEF OneAtATime, Holds, tokens
<1>5. LastIsKnown'
  BY DEF LastIsKnown, FileIsUsable, StepsMatch, OneAtATime, Holds, AtWork, ToSave, tokens
<1>6. FileIsUsable'
  BY DEF FileIsUsable, LastIsKnown, StepsMatch, OneAtATime, Holds, AtWork, ToSave, tokens
<1> QED
  BY <1>1, <1>2, <1>3, <1>4, <1>5, <1>6

LEMMA SnapSaveKeeps == ASSUME PollingInv, SnapSave PROVE PollingInv'
<1> USE TwoCallers DEF PollingInv, PollingTypeOK, SnapSave, Saves, CannotSave, Written, Counted
<1>1. PollingTypeOK'
  <2>1. live' \in Nat \ {0} /\ file' \in Nat \ {0} /\ misses' \in Nat
    BY DEF StepsMatch, AtWork, ToSave, tokens
  <2>2. presented' \in [Callers -> Nat] /\ received' \in [Callers -> Nat]
    BY DEF tokens
  <2>3. fails' \in [Counted -> Nat] /\ skips' \in Nat
    BY DEF tokens
  <2> QED
    BY <2>1, <2>2, <2>3 DEF tokens
<1>2. PausesAreCounted'
  BY DEF PausesAreCounted
<1>3. StepsMatch'
  BY DEF StepsMatch, Holds, AtWork, ToSave, tokens
<1>4. OneAtATime'
  BY DEF OneAtATime, Holds, tokens
<1>5. LastIsKnown'
  BY DEF LastIsKnown, FileIsUsable, StepsMatch, OneAtATime, Holds, AtWork, ToSave, tokens
<1>6. FileIsUsable'
  BY DEF FileIsUsable, LastIsKnown, StepsMatch, OneAtATime, Holds, AtWork, ToSave, tokens
<1> QED
  BY <1>1, <1>2, <1>3, <1>4, <1>5, <1>6

LEMMA SnapFetchKeeps == ASSUME PollingInv, SnapFetch PROVE PollingInv'
<1> USE TwoCallers DEF PollingInv, PollingTypeOK, SnapFetch, tokens, Counted
<1>1. PollingTypeOK'
  <2>1. live' \in Nat \ {0} /\ file' \in Nat \ {0} /\ misses' \in Nat
    BY DEF StepsMatch, AtWork, ToSave, tokens
  <2>2. presented' \in [Callers -> Nat] /\ received' \in [Callers -> Nat]
    BY DEF tokens
  <2>3. fails' \in [Counted -> Nat] /\ skips' \in Nat
    BY DEF tokens
  <2> QED
    BY <2>1, <2>2, <2>3 DEF tokens
<1>2. PausesAreCounted'
  BY DEF PausesAreCounted
<1>3. StepsMatch'
  BY DEF StepsMatch, Holds, AtWork, ToSave, tokens
<1>4. OneAtATime'
  BY DEF OneAtATime, Holds, tokens
<1>5. LastIsKnown'
  BY DEF LastIsKnown, FileIsUsable, StepsMatch, OneAtATime, Holds, AtWork, ToSave, tokens
<1>6. FileIsUsable'
  BY DEF FileIsUsable, LastIsKnown, StepsMatch, OneAtATime, Holds, AtWork, ToSave, tokens
<1> QED
  BY <1>1, <1>2, <1>3, <1>4, <1>5, <1>6

LEMMA AgesKeeps == ASSUME PollingInv, Ages PROVE PollingInv'
<1> USE TwoCallers DEF PollingInv, PollingTypeOK, Ages, tokens, Counted
<1>1. PollingTypeOK'
  <2>1. live' \in Nat \ {0} /\ file' \in Nat \ {0} /\ misses' \in Nat
    BY DEF StepsMatch, AtWork, ToSave, tokens
  <2>2. presented' \in [Callers -> Nat] /\ received' \in [Callers -> Nat]
    BY DEF tokens
  <2>3. fails' \in [Counted -> Nat] /\ skips' \in Nat
    BY DEF tokens
  <2> QED
    BY <2>1, <2>2, <2>3 DEF tokens
<1>2. PausesAreCounted'
  BY DEF PausesAreCounted
<1>3. StepsMatch'
  BY DEF StepsMatch, Holds, AtWork, ToSave, tokens
<1>4. OneAtATime'
  BY DEF OneAtATime, Holds, tokens
<1>5. LastIsKnown'
  BY DEF LastIsKnown, FileIsUsable, StepsMatch, OneAtATime, Holds, AtWork, ToSave, tokens
<1>6. FileIsUsable'
  BY DEF FileIsUsable, LastIsKnown, StepsMatch, OneAtATime, Holds, AtWork, ToSave, tokens
<1> QED
  BY <1>1, <1>2, <1>3, <1>4, <1>5, <1>6

LEMMA LoginKeeps == ASSUME PollingInv, CodexLogin PROVE PollingInv'
<1> USE TwoCallers DEF PollingInv, PollingTypeOK, CodexLogin, tokens, Counted
<1>1. PollingTypeOK'
  <2>1. live' \in Nat \ {0} /\ file' \in Nat \ {0} /\ misses' \in Nat
    BY DEF StepsMatch, AtWork, ToSave, tokens
  <2>2. presented' \in [Callers -> Nat] /\ received' \in [Callers -> Nat]
    BY DEF tokens
  <2>3. fails' \in [Counted -> Nat] /\ skips' \in Nat
    BY DEF tokens
  <2> QED
    BY <2>1, <2>2, <2>3 DEF tokens
<1>2. PausesAreCounted'
  BY DEF PausesAreCounted
<1>3. StepsMatch'
  BY DEF StepsMatch, Holds, AtWork, ToSave, tokens
<1>4. OneAtATime'
  BY DEF OneAtATime, Holds, tokens
<1>5. LastIsKnown'
  BY DEF LastIsKnown, FileIsUsable, StepsMatch, OneAtATime, Holds, AtWork, ToSave, tokens
<1>6. FileIsUsable'
  BY DEF FileIsUsable, LastIsKnown, StepsMatch, OneAtATime, Holds, AtWork, ToSave, tokens
<1> QED
  BY <1>1, <1>2, <1>3, <1>4, <1>5, <1>6

\* The invariant the theorems follow from.
LEMMA PollingInvariance == PollingSpec => []PollingInv
<1>1. PollingInit => PollingInv
  <2> SUFFICES ASSUME PollingInit PROVE PollingInv
    OBVIOUS
  <2> USE TwoCallers DEF PollingInit, Counted
  <2>1. PollingTypeOK
    <3>1. fails \in [Counted -> Nat] /\ skips \in Nat
      BY Zenon
    <3>2. poll \in [Counted -> {"gate", "detect", "refresh", "save", "fetch", "done"}]
      BY Zenon
    <3>3. presented \in [Callers -> Nat] /\ received \in [Callers -> Nat]
      BY Zenon
    <3>4. file \in Nat \ {0} /\ live \in Nat \ {0} /\ misses \in Nat
      BY SMT
    <3>5. /\ snap \in {"idle", "refresh", "save", "fetch"} /\ age \in {"new", "soon", "expired"}
          /\ cut \in BOOLEAN /\ raced \in BOOLEAN
      BY Zenon
    <3> QED
      BY <3>1, <3>2, <3>3, <3>4, <3>5, Zenon DEF PollingTypeOK
  <2>2. poll["codex"] = "done" /\ \A c \in Callers : presented[c] = 0 /\ received[c] = 0
    OBVIOUS
  <2>3. StepsMatch
    BY <2>2 DEF StepsMatch, AtWork, ToSave, Holds
  <2>4. OneAtATime /\ LastIsKnown /\ FileIsUsable
    BY <2>2 DEF Holds, OneAtATime, LastIsKnown, FileIsUsable
  <2>5. PausesAreCounted
    BY DEF PausesAreCounted
  <2> QED
    BY <2>1, <2>3, <2>4, <2>5 DEF PollingInv
<1>2. PollingInv /\ [PollingNext]_pollVars => PollingInv'
  <2> SUFFICES ASSUME PollingInv, [PollingNext]_pollVars PROVE PollingInv'
    OBVIOUS
  <2>1. ASSUME NEW p \in Counted, Gate(p) \/ NoCredentials(p) \/ Fetch(p) PROVE PollingInv'
    BY <2>1, GateKeeps, NoneKeeps, FetchKeeps
  <2>2. CASE PollBegins \/ Detect \/ AgentRefresh \/ AgentSave
    BY <2>2, BeginsKeeps, DetectKeeps, AgentRefreshKeeps, AgentSaveKeeps
  <2>3. CASE SnapDetect \/ SnapRefresh \/ SnapSave \/ SnapFetch
    BY <2>3, SnapDetectKeeps, SnapRefreshKeeps, SnapSaveKeeps, SnapFetchKeeps
  <2>4. CASE Ages \/ CodexLogin
    BY <2>4, AgesKeeps, LoginKeeps
  <2>5. CASE UNCHANGED pollVars
    BY <2>5 DEF pollVars, PollingInv, PollingTypeOK, StepsMatch, AtWork, ToSave, Holds, OneAtATime,
         LastIsKnown, FileIsUsable, PausesAreCounted
  <2> QED
    BY <2>1, <2>2, <2>3, <2>4, <2>5 DEF PollingNext
<1> QED
  BY <1>1, <1>2, PTL DEF PollingSpec

\* Whatever the agent and a snap do: while no given token was lost and no other program
\* was at the file at once, it holds the token OpenAI accepts, and no program presents one
\* that was used; Antigravity is left out of two polls in a row at most (agent.go, poll;
\* codex.go, RefreshToken).
THEOREM PollingAlwaysHolds == PollingSpec => []PollingHolds
<1>1. PollingInv => PollingHolds
  BY DEF PollingInv, PollingTypeOK, PausesAreCounted, LastIsKnown, PollingHolds, FileIsUsable,
         NeverReused, TriedSoon, Counted
<1> QED
  BY <1>1, PollingInvariance, PTL

-----------------------------------------------------------------------------
(* The bridge to Claude Code (ClaudeBridge)                                *)

\* These settings have what their owner wrote last.
OwnersOwn(s) ==
  /\ s.written = wanted.written /\ s.own = wanted.own /\ s.wellFormed = wanted.wellFormed
  /\ wanted.env # "absent" => s.env = wanted.env
  /\ ~rewritten => s.more = wanted.more
  /\ s.more => wanted.more

\* So have the settings, and all that is about to be written in their place; a
\* variable is set only where there was none.
NothingIsLost ==
  /\ ~clobbered => OwnersOwn(settings) /\ \A c \in BridgeCalls : HasRead(c) => OwnersOwn(bridgeCall[c].copy)
  /\ \A c \in BridgeCalls : bridgeCall[c].step = "setenv" => bridgeCall[c].copy.env = "absent"

\* These steps are taken only where there are settings.
HasSettings(c) == HasRead(c) \/ bridgeCall[c].step = "env"

\* Unless Claude Code is installed nobody has touched its settings.
UntouchedBefore ==
  ~installed => settings.snippet = "none" /\ \A c \in BridgeCalls : ~HasSettings(c)

\* An undisturbed reaction is alone, works for the setting, and goes by what is still
\* in the file.
AloneAtIt(c) == \A d \in BridgeCalls \ {c} : ~Reacts(d)
Follows(c) ==
  LET call == bridgeCall[c] IN
  /\ call.on = setting
  /\ HasRead(c) => call.copy = settings
  /\ call.step \in {"enable", "setup", "inject", "env", "setenv"} => setting
  /\ call.step \in {"disable", "remove", "clean"} => ~setting
  /\ call.step = "enable" => serving = "booting"
  /\ call.step \in {"disable", "remove", "clean", "sync"} => serving = "serving"
  /\ serving = "booting" /\ call.step # "enable" => source = setting
  /\ call.step \in {"env", "setenv"} => settings.snippet # "none"
  /\ call.step = "clean" => settings.snippet # "ours"

\* The settings are as the bridge is set: whenever the snippet is in there is a
\* variable, unless the owner left it so, or an env without room for one.
Fed ==
  settings.snippet # "none" =>
    settings.env # "absent" \/ (wanted.snippet # "none" /\ wanted.env = "absent")
AsSet ==
  /\ ~meddled /\ setting /\ installed => settings.snippet # "none"
  /\ ~meddled /\ ~setting => settings.snippet # "ours"

Quiet == \A c \in BridgeCalls : ~Reacts(c)
Reactions ==
  /\ serving = "down" => Quiet
  /\ ~spoilt =>
       /\ \A c \in BridgeCalls : Reacts(c) => AloneAtIt(c) /\ Follows(c)
       /\ (\A c \in BridgeCalls : bridgeCall[c].step \notin {"env", "setenv"}) => Fed
       /\ Quiet => source = setting
       /\ (\A c \in BridgeCalls : Reacts(c) => bridgeCall[c].step = "sync") => AsSet

\* What is in the data file has been read.
FileIsReading ==
  dataFile.plausible => \E line \in lines : line.plausible /\ Stored(line) = Stored(dataFile)

BridgeInv == BridgeTypeOK /\ NothingIsLost /\ UntouchedBefore /\ Reactions /\ FileIsReading /\ CapturesAreReadings

-----------------------------------------------------------------------------
BridgeCallRec == [step : BridgeSteps, copy : SettingsFile, on : BOOLEAN]

LEMMA RestingFacts ==
  /\ NoCopy \in SettingsFile /\ Resting \in BridgeCallRec
  /\ Resting.step = "idle" /\ Resting.copy = NoCopy /\ NoLine \in Line /\ ~NoLine.plausible
BY DEF NoCopy, SettingsFile, Resting, BridgeCallRec, BridgeSteps, NoLine, Line

Becomes(c, step, copy, on) ==
  bridgeCall'[c].step = step /\ bridgeCall'[c].copy = copy /\ bridgeCall'[c].on = on

\* What a call's step makes of it, and that the other calls stay as they are.
LEMMA ProceedsFacts ==
  ASSUME BridgeTypeOK, NEW c \in BridgeCalls, NEW step \in BridgeSteps, Proceeds(c, step)
  PROVE  /\ bridgeCall' \in [BridgeCalls -> BridgeCallRec]
         /\ Becomes(c, step, NoCopy, bridgeCall[c].on)
         /\ \A d \in BridgeCalls \ {c} : bridgeCall'[d] = bridgeCall[d]
BY RestingFacts DEF BridgeTypeOK, Proceeds, BridgeCallRec, Becomes

LEMMA CopiesFacts ==
  ASSUME BridgeTypeOK, NEW c \in BridgeCalls, NEW step \in BridgeSteps, Copies(c, step)
  PROVE  /\ bridgeCall' \in [BridgeCalls -> BridgeCallRec]
         /\ Becomes(c, step, settings, bridgeCall[c].on)
         /\ \A d \in BridgeCalls \ {c} : bridgeCall'[d] = bridgeCall[d]
BY DEF BridgeTypeOK, Copies, BridgeCallRec, Becomes

LEMMA EndsFacts ==
  ASSUME BridgeTypeOK, NEW c \in BridgeCalls, CallEnds(c)
  PROVE  /\ bridgeCall' \in [BridgeCalls -> BridgeCallRec]
         /\ bridgeCall'[c] = Resting
         /\ \A d \in BridgeCalls \ {c} : bridgeCall'[d] = bridgeCall[d]
BY RestingFacts DEF BridgeTypeOK, CallEnds, BridgeCallRec

LEMMA BeginsFacts ==
  ASSUME BridgeTypeOK, NEW c \in BridgeCalls, NEW step \in BridgeSteps, NEW on \in BOOLEAN,
         Begins(c, step, on)
  PROVE  /\ bridgeCall' \in [BridgeCalls -> BridgeCallRec] /\ begun' \in Nat
         /\ bridgeCall[c].step = "idle"
         /\ Becomes(c, step, bridgeCall[c].copy, on)
         /\ \A d \in BridgeCalls \ {c} : bridgeCall'[d] = bridgeCall[d]
<1>1. bridgeCall \in [BridgeCalls -> BridgeCallRec] /\ bridgeCall[c] \in BridgeCallRec
  BY DEF BridgeTypeOK, BridgeCallRec
<1>2. bridgeCall'[c] = [step |-> step, copy |-> bridgeCall[c].copy, on |-> on]
  BY <1>1 DEF Begins, BridgeCallRec
<1>3. [step |-> step, copy |-> bridgeCall[c].copy, on |-> on] \in BridgeCallRec
  BY <1>1 DEF BridgeCallRec
<1>4. bridgeCall' \in [BridgeCalls -> BridgeCallRec]
  BY <1>1, <1>2, <1>3 DEF Begins
<1> QED
  BY <1>1, <1>2, <1>4 DEF Begins, BridgeTypeOK, Becomes

LEMMA ReturnsFacts ==
  ASSUME BridgeTypeOK, NEW c \in BridgeCalls, BridgeReturns(c)
  PROVE  /\ bridgeCall' \in [BridgeCalls -> BridgeCallRec]
         /\ serving = "booting" => serving' = "serving" /\ bridgeCall'[c] = Resting
         /\ serving # "booting" =>
              /\ serving' = serving
              /\ Becomes(c, "sync", NoCopy, bridgeCall[c].on)
         /\ \A d \in BridgeCalls \ {c} : bridgeCall'[d] = bridgeCall[d]
<1>1. CASE serving = "booting"
  BY <1>1, EndsFacts DEF BridgeReturns
<1>2. CASE serving # "booting"
  <2>1. "sync" \in BridgeSteps
    BY DEF BridgeSteps
  <2> QED
    BY <1>2, <2>1, ProceedsFacts DEF BridgeReturns
<1> QED
  BY <1>1, <1>2

\* A step of one call that leaves the readings alone.
LEMMA CallKeeps ==
  ASSUME BridgeInv, NEW c \in BridgeCalls,
         UNCHANGED <<wanted, clobbered, installed, dataFile, lines, captured>>,
         rewritten' = rewritten \/ rewritten' = TRUE,
         ~clobbered => OwnersOwn(settings)',
         ~installed => settings'.snippet = "none",
         HasSettings(c)' => installed,
         HasRead(c)' => bridgeCall'[c].copy = settings',
         bridgeCall'[c].step = "setenv" => settings'.env = "absent",
         \A d \in BridgeCalls \ {c} : bridgeCall'[d] = bridgeCall[d]
  PROVE  NothingIsLost' /\ UntouchedBefore' /\ FileIsReading' /\ CapturesAreReadings'
<1>1. \A d \in BridgeCalls : d = c \/ bridgeCall'[d] = bridgeCall[d]
  OBVIOUS
<1>2. NothingIsLost'
  BY <1>1 DEF BridgeInv, NothingIsLost, OwnersOwn, HasRead
<1>3. UntouchedBefore'
  BY <1>1 DEF BridgeInv, UntouchedBefore, HasSettings, HasRead
<1>4. FileIsReading' /\ CapturesAreReadings'
  BY DEF BridgeInv, FileIsReading, CapturesAreReadings
<1> QED
  BY <1>2, <1>3, <1>4

\* A step of a call that reacts.
LEMMA ReactionKeeps ==
  ASSUME BridgeInv, NEW c \in BridgeCalls, Reacts(c), serving' # "down",
         \A d \in BridgeCalls \ {c} : bridgeCall'[d] = bridgeCall[d],
         ~spoilt' =>
           /\ ~spoilt
           /\ Reacts(c)' => Follows(c)'
           /\ bridgeCall'[c].step \notin {"env", "setenv"} => Fed'
           /\ ~Reacts(c)' => source' = setting'
           /\ (Reacts(c)' => bridgeCall'[c].step = "sync") => AsSet'
  PROVE  Reactions'
<1> SUFFICES ASSUME ~spoilt'
             PROVE  /\ \A d \in BridgeCalls : Reacts(d)' => AloneAtIt(d)' /\ Follows(d)'
                    /\ (\A d \in BridgeCalls : bridgeCall'[d].step \notin {"env", "setenv"}) => Fed'
                    /\ Quiet' => source' = setting'
                    /\ (\A d \in BridgeCalls : Reacts(d)' => bridgeCall'[d].step = "sync") => AsSet'
  BY DEF Reactions
<1>1. \A d \in BridgeCalls : d = c \/ ~Reacts(d)'
  BY DEF BridgeInv, Reactions, AloneAtIt, Reacts
<1>2. AloneAtIt(c)'
  BY <1>1 DEF AloneAtIt
<1> QED
  BY <1>1, <1>2 DEF Quiet

\* Settings that are written from scratch.
LEMMA NewSettings ==
  ASSUME NEW S, NEW E, S \subseteq {"none", "ours", "edited"}, E \subseteq {"absent", "on", "own", "noMap"},
         NEW s \in [snippet : S, own : BOOLEAN, more : BOOLEAN, env : E, wellFormed : {TRUE}, written : {0}]
  PROVE  s \in SettingsFile /\ s.snippet \in S /\ s.env \in E
<1>1. s.snippet \in S /\ s.snippet \in {"none", "ours", "edited"}
  OBVIOUS
<1>2. s.env \in E /\ s.env \in {"absent", "on", "own", "noMap"}
  OBVIOUS
<1>3. s.wellFormed \in BOOLEAN
  OBVIOUS
<1>4. s.written \in Nat
  OBVIOUS
<1>5. s.own \in BOOLEAN /\ s.more \in BOOLEAN
  OBVIOUS
<1>6. s \in SettingsFile
  BY <1>1, <1>2, <1>3, <1>4, <1>5 DEF SettingsFile
<1> QED
  BY <1>1, <1>2, <1>6

\* What is known while a call reacts.
LEMMA WhileReacting ==
  ASSUME BridgeInv, NEW c \in BridgeCalls, Reacts(c)
  PROVE  /\ serving # "down"
         /\ ~spoilt => /\ Follows(c)
                       /\ bridgeCall[c].step \notin {"env", "setenv"} => Fed
                       /\ bridgeCall[c].step = "sync" => AsSet
<1>1. serving # "down"
  BY DEF BridgeInv, Reactions, Quiet
<1>2. ASSUME ~spoilt PROVE Follows(c) /\ \A d \in BridgeCalls : d = c \/ ~Reacts(d)
  BY <1>2 DEF BridgeInv, Reactions, AloneAtIt
<1>3. ASSUME ~spoilt, bridgeCall[c].step \notin {"env", "setenv"} PROVE Fed
  BY <1>2, <1>3 DEF BridgeInv, Reactions, Reacts
<1>4. ASSUME ~spoilt, bridgeCall[c].step = "sync" PROVE AsSet
  BY <1>2, <1>4 DEF BridgeInv, Reactions
<1> QED
  BY <1>1, <1>2, <1>3, <1>4

-----------------------------------------------------------------------------
LEMMA SourceEnabledKeeps == ASSUME BridgeInv, NEW c \in BridgeCalls, SourceEnabled(c) PROVE BridgeInv'
<1> DEFINE step == bridgeCall[c].step
<1> USE DEF Becomes
<1>1. BridgeTypeOK /\ bridgeCall[c] \in BridgeCallRec /\ Reacts(c) /\ "setup" \in BridgeSteps
  BY DEF BridgeInv, BridgeTypeOK, SourceEnabled, Reacts, BridgeCallRec, BridgeSteps
<1>2. /\ bridgeCall' \in [BridgeCalls -> BridgeCallRec]
      /\ step = "enable" => Becomes(c, "setup", NoCopy, bridgeCall[c].on)
      /\ step = "sync" => bridgeCall'[c] = Resting
      /\ \A d \in BridgeCalls \ {c} : bridgeCall'[d] = bridgeCall[d]
  BY <1>1, ProceedsFacts, EndsFacts DEF SourceEnabled
<1>3. BridgeTypeOK'
  BY <1>1, <1>2 DEF SourceEnabled, BridgeTypeOK, bridgeFiles, claudesOwn, counted, BridgeCallRec
<1>4. bridgeCall'[c].step \in {"setup", "idle"} /\ ~HasRead(c)' /\ ~HasSettings(c)'
  BY <1>2, RestingFacts DEF HasRead, HasSettings, SourceEnabled
<1>5. NothingIsLost' /\ UntouchedBefore' /\ FileIsReading' /\ CapturesAreReadings'
  <2>1. /\ ~clobbered => OwnersOwn(settings)'
        /\ ~installed => settings'.snippet = "none"
    BY DEF SourceEnabled, BridgeInv, NothingIsLost, UntouchedBefore, OwnersOwn, bridgeFiles, claudesOwn
  <2> QED
    BY <1>2, <1>4, <2>1, CallKeeps DEF SourceEnabled, bridgeFiles, claudesOwn, counted
<1>6. Reactions'
  <2>1. serving' # "down"
    BY <1>1, WhileReacting DEF SourceEnabled
  <2>2. ASSUME ~spoilt'
        PROVE  /\ ~spoilt
               /\ Reacts(c)' => Follows(c)'
               /\ bridgeCall'[c].step \notin {"env", "setenv"} => Fed'
               /\ ~Reacts(c)' => source' = setting'
               /\ (Reacts(c)' => bridgeCall'[c].step = "sync") => AsSet'
    <3>1. /\ ~spoilt /\ Follows(c) /\ Fed
          /\ step = "sync" => AsSet
          /\ settings' = settings /\ setting' = setting /\ source' = setting /\ serving' = serving
          /\ installed' = installed /\ meddled' = meddled /\ wanted' = wanted
      BY <1>1, <2>2, WhileReacting DEF SourceEnabled, bridgeFiles, claudesOwn, Follows
    <3>2. step = "enable" \/ step = "sync"
      BY DEF SourceEnabled
    <3> QED
      BY <1>2, <1>4, <3>1, <3>2, RestingFacts DEF Follows, Fed, AsSet, Reacts, HasRead
  <2> QED
    BY <1>1, <1>2, <2>1, <2>2, ReactionKeeps
<1> QED
  BY <1>3, <1>5, <1>6 DEF BridgeInv

LEMMA SetupReadsKeeps == ASSUME BridgeInv, NEW c \in BridgeCalls, SetupReads(c) PROVE BridgeInv'
<1> DEFINE call == bridgeCall[c]
<1> USE DEF Becomes
<1>1. /\ BridgeTypeOK /\ call \in BridgeCallRec /\ Reacts(c)
      /\ "inject" \in BridgeSteps
  BY DEF BridgeInv, BridgeTypeOK, SetupReads, Reacts, BridgeCallRec, BridgeSteps
<1>2. /\ bridgeCall' \in [BridgeCalls -> BridgeCallRec]
      /\ \/ /\ installed /\ settings.wellFormed /\ settings.snippet = "none" /\ serving' = serving
            /\ Becomes(c, "inject", settings, call.on)
         \/ /\ ~(installed /\ settings.wellFormed /\ settings.snippet = "none")
            /\ serving = "booting" => serving' = "serving" /\ bridgeCall'[c] = Resting
            /\ serving # "booting" =>
                 serving' = serving /\ Becomes(c, "sync", NoCopy, call.on)
      /\ \A d \in BridgeCalls \ {c} : bridgeCall'[d] = bridgeCall[d]
  BY <1>1, CopiesFacts, ReturnsFacts DEF SetupReads
<1>3. BridgeTypeOK'
  BY <1>1, <1>2 DEF SetupReads, BridgeTypeOK, bridgeFiles, claudesOwn, bridgeRows, counted, SettingsFile, BridgeCallRec
<1>4. NothingIsLost' /\ UntouchedBefore' /\ FileIsReading' /\ CapturesAreReadings'
  <2>1. /\ ~clobbered => OwnersOwn(settings)'
        /\ ~installed => settings'.snippet = "none"
    BY DEF SetupReads, BridgeInv, NothingIsLost, UntouchedBefore, OwnersOwn, bridgeFiles, claudesOwn
  <2>2. /\ HasSettings(c)' => installed
        /\ HasRead(c)' => bridgeCall'[c].copy = settings'
        /\ bridgeCall'[c].step # "setenv"
    BY <1>2, RestingFacts DEF HasSettings, HasRead, SetupReads, bridgeFiles
  <2> QED
    BY <1>2, <2>1, <2>2, CallKeeps DEF SetupReads, bridgeFiles, claudesOwn, counted
<1>5. Reactions'
  <2>1. serving' # "down"
    BY <1>1, <1>2, WhileReacting DEF SetupReads
  <2>2. ASSUME ~spoilt'
        PROVE  /\ ~spoilt
               /\ Reacts(c)' => Follows(c)'
               /\ bridgeCall'[c].step \notin {"env", "setenv"} => Fed'
               /\ ~Reacts(c)' => source' = setting'
               /\ (Reacts(c)' => bridgeCall'[c].step = "sync") => AsSet'
    <3>1. /\ ~spoilt /\ Follows(c) /\ (call.step \notin {"env", "setenv"} => Fed)
          /\ setting' = setting /\ source' = source /\ installed' = installed /\ meddled' = meddled /\ wanted' = wanted
      BY <1>1, <2>2, WhileReacting DEF SetupReads, claudesOwn, bridgeRows
    <3>2. call.step = "setup" /\ settings.wellFormed /\ settings' = settings
      BY <1>1, <2>2 DEF SetupReads, bridgeFiles, BridgeTypeOK, SettingsFile
    <3>3. Reacts(c)' => Follows(c)'
      BY <1>1, <1>2, <2>1, <3>1, <3>2, RestingFacts DEF Follows, Reacts, HasRead, BridgeTypeOK
    <3>4. bridgeCall'[c].step \notin {"env", "setenv"} => Fed'
      BY <1>1, <1>2, <3>1, <3>2, RestingFacts DEF Follows, Fed
    <3>5. ~Reacts(c)' => source' = setting'
      BY <1>1, <1>2, <2>1, <3>1, <3>2 DEF Follows, Reacts
    <3>6. (Reacts(c)' => bridgeCall'[c].step = "sync") => AsSet'
      BY <1>1, <1>2, <3>1, <3>2 DEF Follows, AsSet, Reacts
    <3> QED
      BY <3>1, <3>3, <3>4, <3>5, <3>6
  <2> QED
    BY <1>1, <1>2, <2>1, <2>2, ReactionKeeps
<1> QED
  BY <1>3, <1>4, <1>5 DEF BridgeInv

LEMMA SetupWritesKeeps == ASSUME BridgeInv, NEW c \in BridgeCalls, SetupWrites(c) PROVE BridgeInv'
<1> DEFINE call == bridgeCall[c]
<1> USE DEF Becomes
<1>1. /\ BridgeTypeOK /\ call \in BridgeCallRec /\ Reacts(c)
      /\ "env" \in BridgeSteps
  BY DEF BridgeInv, BridgeTypeOK, SetupWrites, Reacts, BridgeCallRec, BridgeSteps
<1>2. /\ bridgeCall' \in [BridgeCalls -> BridgeCallRec]
      /\ Becomes(c, "env", NoCopy, call.on)
      /\ \A d \in BridgeCalls \ {c} : bridgeCall'[d] = bridgeCall[d]
  BY <1>1, ProceedsFacts DEF SetupWrites
<1>3. BridgeTypeOK'
  <2>1. settings' \in SettingsFile
    BY <1>1 DEF SetupWrites, Writes, WithStatusLine, BridgeCallRec, SettingsFile
  <2> QED
    BY <1>1, <1>2, <2>1 DEF SetupWrites, Writes, BridgeTypeOK, bridgeRows, counted, BridgeCallRec
<1>4. NothingIsLost' /\ UntouchedBefore' /\ FileIsReading' /\ CapturesAreReadings'
  <2>1. /\ ~clobbered => OwnersOwn(settings)'
        /\ installed /\ HasRead(c)
    BY <1>1 DEF SetupWrites, Writes, WithStatusLine, BridgeInv, NothingIsLost, UntouchedBefore, OwnersOwn, HasSettings, HasRead, claudesOwn,
           BridgeCallRec, SettingsFile
  <2>2. /\ HasSettings(c)' => installed
        /\ ~HasRead(c)' /\ bridgeCall'[c].step # "setenv"
    BY <1>2, <2>1 DEF HasSettings, HasRead
  <2> QED
    BY <1>2, <2>1, <2>2, CallKeeps DEF SetupWrites, Writes, claudesOwn, counted
<1>5. Reactions'
  <2>1. serving' # "down"
    BY <1>1, <1>2, WhileReacting DEF SetupWrites
  <2>2. ASSUME ~spoilt'
        PROVE  /\ ~spoilt
               /\ Reacts(c)' => Follows(c)'
               /\ bridgeCall'[c].step \notin {"env", "setenv"} => Fed'
               /\ ~Reacts(c)' => source' = setting'
               /\ (Reacts(c)' => bridgeCall'[c].step = "sync") => AsSet'
    <3>1. /\ ~spoilt /\ Follows(c) /\ (call.step \notin {"env", "setenv"} => Fed)
          /\ setting' = setting /\ source' = source /\ installed' = installed /\ meddled' = meddled /\ wanted' = wanted
      BY <1>1, <2>2, WhileReacting DEF SetupWrites, claudesOwn, bridgeRows
    <3>2. call.step = "inject" /\ settings'.snippet = "ours" /\ serving' = serving
      BY <1>1, <2>2 DEF SetupWrites, Writes, WithStatusLine, BridgeCallRec, SettingsFile
    <3>3. Reacts(c)' => Follows(c)'
      BY <1>1, <1>2, <2>1, <3>1, <3>2, RestingFacts DEF Follows, Reacts, HasRead, BridgeTypeOK
    <3>4. bridgeCall'[c].step \notin {"env", "setenv"} => Fed'
      BY <1>1, <1>2, <3>1, <3>2, RestingFacts DEF Follows, Fed
    <3>5. ~Reacts(c)' => source' = setting'
      BY <1>1, <1>2, <2>1, <3>1, <3>2 DEF Follows, Reacts
    <3>6. (Reacts(c)' => bridgeCall'[c].step = "sync") => AsSet'
      BY <1>1, <1>2, <3>1, <3>2 DEF Follows, AsSet, Reacts
    <3> QED
      BY <3>1, <3>3, <3>4, <3>5, <3>6
  <2> QED
    BY <1>1, <1>2, <2>1, <2>2, ReactionKeeps
<1> QED
  BY <1>3, <1>4, <1>5 DEF BridgeInv

LEMMA EnvReadsKeeps == ASSUME BridgeInv, NEW c \in BridgeCalls, EnvReads(c) PROVE BridgeInv'
<1> DEFINE call == bridgeCall[c]
<1> USE DEF Becomes
<1>1. /\ BridgeTypeOK /\ call \in BridgeCallRec /\ Reacts(c)
      /\ "setenv" \in BridgeSteps
  BY DEF BridgeInv, BridgeTypeOK, EnvReads, Reacts, BridgeCallRec, BridgeSteps
<1>2. /\ bridgeCall' \in [BridgeCalls -> BridgeCallRec]
      /\ \/ /\ settings.wellFormed /\ settings.env = "absent" /\ serving' = serving
            /\ Becomes(c, "setenv", settings, call.on)
         \/ /\ ~(settings.wellFormed /\ settings.env = "absent")
            /\ serving = "booting" => serving' = "serving" /\ bridgeCall'[c] = Resting
            /\ serving # "booting" =>
                 serving' = serving /\ Becomes(c, "sync", NoCopy, call.on)
      /\ \A d \in BridgeCalls \ {c} : bridgeCall'[d] = bridgeCall[d]
  BY <1>1, CopiesFacts, ReturnsFacts DEF EnvReads
<1>3. BridgeTypeOK'
  BY <1>1, <1>2 DEF EnvReads, BridgeTypeOK, bridgeFiles, claudesOwn, bridgeRows, counted, SettingsFile, BridgeCallRec
<1>4. NothingIsLost' /\ UntouchedBefore' /\ FileIsReading' /\ CapturesAreReadings'
  <2>1. /\ ~clobbered => OwnersOwn(settings)'
        /\ ~installed => settings'.snippet = "none"
    BY DEF EnvReads, BridgeInv, NothingIsLost, UntouchedBefore, OwnersOwn, bridgeFiles, claudesOwn
  <2>2. /\ HasSettings(c)' => installed
        /\ HasRead(c)' => bridgeCall'[c].copy = settings'
        /\ bridgeCall'[c].step = "setenv" => settings'.env = "absent"
    BY <1>2, RestingFacts DEF HasSettings, HasRead, EnvReads, bridgeFiles, BridgeInv, UntouchedBefore
  <2> QED
    BY <1>2, <2>1, <2>2, CallKeeps DEF EnvReads, bridgeFiles, claudesOwn, counted
<1>5. Reactions'
  <2>1. serving' # "down"
    BY <1>1, <1>2, WhileReacting DEF EnvReads
  <2>2. ASSUME ~spoilt'
        PROVE  /\ ~spoilt
               /\ Reacts(c)' => Follows(c)'
               /\ bridgeCall'[c].step \notin {"env", "setenv"} => Fed'
               /\ ~Reacts(c)' => source' = setting'
               /\ (Reacts(c)' => bridgeCall'[c].step = "sync") => AsSet'
    <3>1. /\ ~spoilt /\ Follows(c) /\ (call.step \notin {"env", "setenv"} => Fed)
          /\ setting' = setting /\ source' = source /\ installed' = installed /\ meddled' = meddled /\ wanted' = wanted
      BY <1>1, <2>2, WhileReacting DEF EnvReads, claudesOwn, bridgeRows
    <3>2. call.step = "env" /\ settings.wellFormed /\ settings' = settings
      BY <1>1, <2>2 DEF EnvReads, bridgeFiles, BridgeTypeOK, SettingsFile
    <3>3. Reacts(c)' => Follows(c)'
      BY <1>1, <1>2, <2>1, <3>1, <3>2, RestingFacts DEF Follows, Reacts, HasRead, BridgeTypeOK
    <3>4. bridgeCall'[c].step \notin {"env", "setenv"} => Fed'
      BY <1>1, <1>2, <3>1, <3>2, RestingFacts DEF Follows, Fed
    <3>5. ~Reacts(c)' => source' = setting'
      BY <1>1, <1>2, <2>1, <3>1, <3>2 DEF Follows, Reacts
    <3>6. (Reacts(c)' => bridgeCall'[c].step = "sync") => AsSet'
      BY <1>1, <1>2, <3>1, <3>2 DEF Follows, AsSet, Reacts
    <3> QED
      BY <3>1, <3>3, <3>4, <3>5, <3>6
  <2> QED
    BY <1>1, <1>2, <2>1, <2>2, ReactionKeeps
<1> QED
  BY <1>3, <1>4, <1>5 DEF BridgeInv

LEMMA EnvWritesKeeps == ASSUME BridgeInv, NEW c \in BridgeCalls, EnvWrites(c) PROVE BridgeInv'
<1> DEFINE call == bridgeCall[c]
<1> USE DEF Becomes
<1>1. /\ BridgeTypeOK /\ call \in BridgeCallRec /\ Reacts(c)
      /\ "sync" \in BridgeSteps
  BY DEF BridgeInv, BridgeTypeOK, EnvWrites, Reacts, BridgeCallRec, BridgeSteps
<1>2. /\ bridgeCall' \in [BridgeCalls -> BridgeCallRec]
      /\ serving = "booting" => serving' = "serving" /\ bridgeCall'[c] = Resting
      /\ serving # "booting" =>
           serving' = serving /\ Becomes(c, "sync", NoCopy, call.on)
      /\ \A d \in BridgeCalls \ {c} : bridgeCall'[d] = bridgeCall[d]
  BY <1>1, ReturnsFacts DEF EnvWrites
<1>3. BridgeTypeOK'
  <2>1. settings' \in SettingsFile
    BY <1>1 DEF EnvWrites, Writes, BridgeCallRec, SettingsFile
  <2>2. serving' \in {"down", "booting", "serving"}
    BY <1>1, <1>2 DEF EnvWrites, BridgeTypeOK
  <2> QED
    BY <1>1, <1>2, <2>1, <2>2 DEF EnvWrites, Writes, BridgeTypeOK, claudesOwn, bridgeRows, counted, BridgeCallRec
<1>4. NothingIsLost' /\ UntouchedBefore' /\ FileIsReading' /\ CapturesAreReadings'
  <2>1. /\ ~clobbered => OwnersOwn(settings)'
        /\ installed /\ HasRead(c)
    BY <1>1 DEF EnvWrites, Writes, BridgeInv, NothingIsLost, UntouchedBefore, OwnersOwn, HasSettings, HasRead, claudesOwn,
           BridgeCallRec, SettingsFile
  <2>2. /\ HasSettings(c)' => installed
        /\ ~HasRead(c)' /\ bridgeCall'[c].step # "setenv"
    BY <1>1, <1>2, <2>1, RestingFacts DEF HasSettings, HasRead
  <2> QED
    BY <1>2, <2>1, <2>2, CallKeeps DEF EnvWrites, Writes, claudesOwn, counted
<1>5. Reactions'
  <2>1. serving' # "down"
    BY <1>1, <1>2, WhileReacting DEF EnvWrites
  <2>2. ASSUME ~spoilt'
        PROVE  /\ ~spoilt
               /\ Reacts(c)' => Follows(c)'
               /\ bridgeCall'[c].step \notin {"env", "setenv"} => Fed'
               /\ ~Reacts(c)' => source' = setting'
               /\ (Reacts(c)' => bridgeCall'[c].step = "sync") => AsSet'
    <3>1. /\ ~spoilt /\ Follows(c) /\ (call.step \notin {"env", "setenv"} => Fed)
          /\ setting' = setting /\ source' = source /\ installed' = installed /\ meddled' = meddled /\ wanted' = wanted
      BY <1>1, <2>2, WhileReacting DEF EnvWrites, claudesOwn, bridgeRows
    <3>2. /\ call.step = "setenv" /\ settings'.snippet = settings.snippet /\ settings'.env = "on"
      BY <1>1, <3>1 DEF EnvWrites, Writes, Follows, HasRead, BridgeCallRec, SettingsFile
    <3>3. Reacts(c)' => Follows(c)'
      BY <1>1, <1>2, <2>1, <3>1, <3>2, RestingFacts DEF Follows, Reacts, HasRead, BridgeTypeOK
    <3>4. bridgeCall'[c].step \notin {"env", "setenv"} => Fed'
      BY <1>1, <1>2, <3>1, <3>2, RestingFacts DEF Follows, Fed
    <3>5. ~Reacts(c)' => source' = setting'
      BY <1>1, <1>2, <2>1, <3>1, <3>2 DEF Follows, Reacts
    <3>6. (Reacts(c)' => bridgeCall'[c].step = "sync") => AsSet'
      BY <1>1, <1>2, <3>1, <3>2 DEF Follows, AsSet, Reacts
    <3> QED
      BY <3>1, <3>3, <3>4, <3>5, <3>6
  <2> QED
    BY <1>1, <1>2, <2>1, <2>2, ReactionKeeps
<1> QED
  BY <1>3, <1>4, <1>5 DEF BridgeInv

LEMMA DisableReadsKeeps == ASSUME BridgeInv, NEW c \in BridgeCalls, DisableReads(c) PROVE BridgeInv'
<1> DEFINE call == bridgeCall[c]
<1> USE DEF Becomes
<1>1. /\ BridgeTypeOK /\ call \in BridgeCallRec /\ Reacts(c)
      /\ "remove" \in BridgeSteps /\ "sync" \in BridgeSteps
  BY DEF BridgeInv, BridgeTypeOK, DisableReads, Reacts, BridgeCallRec, BridgeSteps
<1>2. /\ bridgeCall' \in [BridgeCalls -> BridgeCallRec]
      /\ \/ /\ settings.wellFormed /\ settings.snippet # "none"
            /\ Becomes(c, "remove", settings, call.on)
         \/ /\ ~(settings.wellFormed /\ settings.snippet # "none")
            /\ Becomes(c, "sync", NoCopy, call.on)
      /\ \A d \in BridgeCalls \ {c} : bridgeCall'[d] = bridgeCall[d]
  BY <1>1, CopiesFacts, ProceedsFacts DEF DisableReads
<1>3. BridgeTypeOK'
  BY <1>1, <1>2 DEF DisableReads, BridgeTypeOK, bridgeFiles, claudesOwn, bridgeRows, counted, SettingsFile, BridgeCallRec
<1>4. NothingIsLost' /\ UntouchedBefore' /\ FileIsReading' /\ CapturesAreReadings'
  <2>1. /\ ~clobbered => OwnersOwn(settings)'
        /\ ~installed => settings'.snippet = "none"
    BY DEF DisableReads, BridgeInv, NothingIsLost, UntouchedBefore, OwnersOwn, bridgeFiles, claudesOwn
  <2>2. /\ HasSettings(c)' => installed
        /\ HasRead(c)' => bridgeCall'[c].copy = settings'
        /\ bridgeCall'[c].step # "setenv"
    BY <1>2 DEF HasSettings, HasRead, DisableReads, bridgeFiles, BridgeInv, UntouchedBefore
  <2> QED
    BY <1>2, <2>1, <2>2, CallKeeps DEF DisableReads, bridgeFiles, claudesOwn, counted
<1>5. Reactions'
  <2>1. serving' # "down"
    BY <1>1, <1>2, WhileReacting DEF DisableReads
  <2>2. ASSUME ~spoilt'
        PROVE  /\ ~spoilt
               /\ Reacts(c)' => Follows(c)'
               /\ bridgeCall'[c].step \notin {"env", "setenv"} => Fed'
               /\ ~Reacts(c)' => source' = setting'
               /\ (Reacts(c)' => bridgeCall'[c].step = "sync") => AsSet'
    <3>1. /\ ~spoilt /\ Follows(c) /\ (call.step \notin {"env", "setenv"} => Fed)
          /\ setting' = setting /\ source' = source /\ installed' = installed /\ meddled' = meddled /\ wanted' = wanted
      BY <1>1, <2>2, WhileReacting DEF DisableReads, claudesOwn, bridgeRows
    <3>2. call.step = "disable" /\ settings.wellFormed /\ settings' = settings /\ serving' = serving
      BY <1>1, <2>2 DEF DisableReads, bridgeFiles, BridgeTypeOK, SettingsFile
    <3> QED
      BY <1>1, <1>2, <2>1, <3>1, <3>2, RestingFacts DEF Follows, Fed, AsSet, Reacts, HasRead, BridgeTypeOK
  <2> QED
    BY <1>1, <1>2, <2>1, <2>2, ReactionKeeps
<1> QED
  BY <1>3, <1>4, <1>5 DEF BridgeInv

LEMMA DisableWritesKeeps == ASSUME BridgeInv, NEW c \in BridgeCalls, DisableWrites(c) PROVE BridgeInv'
<1> DEFINE call == bridgeCall[c]
<1> USE DEF Becomes
<1>1. /\ BridgeTypeOK /\ call \in BridgeCallRec /\ Reacts(c)
      /\ "clean" \in BridgeSteps
  BY DEF BridgeInv, BridgeTypeOK, DisableWrites, Reacts, BridgeCallRec, BridgeSteps
<1>2. /\ bridgeCall' \in [BridgeCalls -> BridgeCallRec]
      /\ Becomes(c, "clean", NoCopy, call.on)
      /\ \A d \in BridgeCalls \ {c} : bridgeCall'[d] = bridgeCall[d]
  BY <1>1, ProceedsFacts DEF DisableWrites
<1>3. BridgeTypeOK'
  <2>1. settings' \in SettingsFile
    BY <1>1 DEF DisableWrites, Writes, Without, WithStatusLine, BridgeCallRec, SettingsFile
  <2>2. serving' \in {"down", "booting", "serving"}
    BY <1>1, <1>2 DEF DisableWrites, BridgeTypeOK
  <2> QED
    BY <1>1, <1>2, <2>1, <2>2 DEF DisableWrites, Writes, BridgeTypeOK, claudesOwn, bridgeRows, counted, BridgeCallRec
<1>4. NothingIsLost' /\ UntouchedBefore' /\ FileIsReading' /\ CapturesAreReadings'
  <2>1. /\ ~clobbered => OwnersOwn(settings)'
        /\ installed /\ HasRead(c)
    BY <1>1 DEF DisableWrites, Writes, Without, WithStatusLine, BridgeInv, NothingIsLost, UntouchedBefore, OwnersOwn, HasSettings, HasRead,
           claudesOwn, BridgeCallRec, SettingsFile
  <2>2. /\ HasSettings(c)' => installed
        /\ ~HasRead(c)' /\ bridgeCall'[c].step # "setenv"
    BY <1>2, <2>1 DEF HasSettings, HasRead
  <2> QED
    BY <1>2, <2>1, <2>2, CallKeeps DEF DisableWrites, Writes, claudesOwn, counted
<1>5. Reactions'
  <2>1. serving' # "down"
    BY <1>1, <1>2, WhileReacting DEF DisableWrites
  <2>2. ASSUME ~spoilt'
        PROVE  /\ ~spoilt
               /\ Reacts(c)' => Follows(c)'
               /\ bridgeCall'[c].step \notin {"env", "setenv"} => Fed'
               /\ ~Reacts(c)' => source' = setting'
               /\ (Reacts(c)' => bridgeCall'[c].step = "sync") => AsSet'
    <3>1. /\ ~spoilt /\ Follows(c) /\ (call.step \notin {"env", "setenv"} => Fed)
          /\ setting' = setting /\ source' = source /\ installed' = installed /\ meddled' = meddled /\ wanted' = wanted
      BY <1>1, <2>2, WhileReacting DEF DisableWrites, claudesOwn, bridgeRows
    <3>2. /\ call.step = "remove" /\ settings'.snippet # "ours" /\ settings'.env = settings.env
          /\ settings.snippet = "none" => settings'.snippet = "none"
          /\ serving' = serving
      BY <1>1, <3>1 DEF DisableWrites, Writes, Without, WithStatusLine, Follows, HasRead, BridgeCallRec, SettingsFile
    <3> QED
      BY <1>1, <1>2, <2>1, <3>1, <3>2, RestingFacts DEF Follows, Fed, AsSet, Reacts, HasRead, BridgeTypeOK
  <2> QED
    BY <1>1, <1>2, <2>1, <2>2, ReactionKeeps
<1> QED
  BY <1>3, <1>4, <1>5 DEF BridgeInv

LEMMA DisableCleansKeeps == ASSUME BridgeInv, NEW c \in BridgeCalls, DisableCleans(c) PROVE BridgeInv'
<1> DEFINE call == bridgeCall[c]
<1> USE DEF Becomes
<1>1. /\ BridgeTypeOK /\ call \in BridgeCallRec /\ Reacts(c)
      /\ "sync" \in BridgeSteps
  BY DEF BridgeInv, BridgeTypeOK, DisableCleans, Reacts, BridgeCallRec, BridgeSteps
<1>2. /\ bridgeCall' \in [BridgeCalls -> BridgeCallRec]
      /\ Becomes(c, "sync", NoCopy, call.on)
      /\ \A d \in BridgeCalls \ {c} : bridgeCall'[d] = bridgeCall[d]
  BY <1>1, ProceedsFacts DEF DisableCleans
<1>3. BridgeTypeOK'
  BY <1>1, <1>2, RestingFacts DEF DisableCleans, BridgeTypeOK, claudesOwn, bridgeRows, counted, BridgeCallRec
<1>4. NothingIsLost' /\ UntouchedBefore' /\ FileIsReading' /\ CapturesAreReadings'
  <2>1. \A d \in BridgeCalls : d = c \/ bridgeCall'[d] = bridgeCall[d]
    BY <1>2
  <2>2. NothingIsLost' /\ UntouchedBefore'
    BY <1>2, <2>1 DEF DisableCleans, BridgeInv, NothingIsLost, UntouchedBefore, OwnersOwn, HasSettings, HasRead, claudesOwn
  <2>3. FileIsReading' /\ CapturesAreReadings'
    BY RestingFacts DEF DisableCleans, BridgeInv, FileIsReading, CapturesAreReadings, claudesOwn, counted
  <2> QED
    BY <2>2, <2>3
<1>5. Reactions'
  <2>1. serving' # "down"
    BY <1>1, <1>2, WhileReacting DEF DisableCleans
  <2>2. ASSUME ~spoilt'
        PROVE  /\ ~spoilt
               /\ Reacts(c)' => Follows(c)'
               /\ bridgeCall'[c].step \notin {"env", "setenv"} => Fed'
               /\ ~Reacts(c)' => source' = setting'
               /\ (Reacts(c)' => bridgeCall'[c].step = "sync") => AsSet'
    <3>1. /\ ~spoilt /\ Follows(c) /\ (call.step \notin {"env", "setenv"} => Fed)
          /\ setting' = setting /\ source' = source /\ installed' = installed /\ meddled' = meddled /\ wanted' = wanted
      BY <1>1, <2>2, WhileReacting DEF DisableCleans, claudesOwn, bridgeRows
    <3>2. call.step = "clean" /\ settings' = settings /\ serving' = serving
      BY <1>1 DEF DisableCleans
    <3> QED
      BY <1>1, <1>2, <2>1, <3>1, <3>2, RestingFacts DEF Follows, Fed, AsSet, Reacts, HasRead, BridgeTypeOK
  <2> QED
    BY <1>1, <1>2, <2>1, <2>2, ReactionKeeps
<1> QED
  BY <1>3, <1>4, <1>5 DEF BridgeInv

\* A failing write takes the call on, and is remembered.
LEMMA WriteFailsKeeps == ASSUME BridgeInv, NEW c \in BridgeCalls, BridgeWriteFails(c) PROVE BridgeInv'
<1> DEFINE call == bridgeCall[c]
<1> USE DEF Becomes
<1>1. /\ BridgeTypeOK /\ call \in BridgeCallRec /\ Reacts(c) /\ "setup" \in BridgeSteps
      /\ spoilt' = TRUE
  BY DEF BridgeInv, BridgeTypeOK, BridgeWriteFails, HasRead, Reacts, BridgeCallRec, BridgeSteps
<1>2. /\ bridgeCall' \in [BridgeCalls -> BridgeCallRec]
      /\ bridgeCall'[c].step \in {"sync", "setup", "idle"}
      /\ \A d \in BridgeCalls \ {c} : bridgeCall'[d] = bridgeCall[d]
      /\ serving' \in {"booting", "serving"}
  <2>1. serving \in {"booting", "serving"}
    BY <1>1, WhileReacting DEF BridgeTypeOK
  <2>2. CASE HasRead(c) /\ BridgeReturns(c)
    BY <1>1, <2>1, <2>2, ReturnsFacts, RestingFacts
  <2>3. CASE call.step = "enable" /\ Proceeds(c, "setup") /\ UNCHANGED serving
    BY <1>1, <2>1, <2>3, ProceedsFacts
  <2>4. CASE call.step = "sync" /\ CallEnds(c) /\ UNCHANGED serving
    BY <1>1, <2>1, <2>4, EndsFacts, RestingFacts
  <2> QED
    BY <2>2, <2>3, <2>4 DEF BridgeWriteFails
<1>3. BridgeTypeOK'
  BY <1>1, <1>2 DEF BridgeWriteFails, BridgeTypeOK, bridgeFiles, claudesOwn, bridgeRows, BridgeCallRec
<1>4. NothingIsLost' /\ UntouchedBefore' /\ FileIsReading' /\ CapturesAreReadings'
  <2>1. /\ ~clobbered => OwnersOwn(settings)'
        /\ ~installed => settings'.snippet = "none"
    BY DEF BridgeWriteFails, BridgeInv, NothingIsLost, UntouchedBefore, OwnersOwn, bridgeFiles, claudesOwn
  <2>2. ~HasSettings(c)' /\ ~HasRead(c)' /\ bridgeCall'[c].step # "setenv"
    BY <1>2 DEF HasSettings, HasRead
  <2> QED
    BY <1>2, <2>1, <2>2, CallKeeps DEF BridgeWriteFails, bridgeFiles, claudesOwn
<1>5. Reactions'
  BY <1>1, <1>2 DEF Reactions
<1> QED
  BY <1>3, <1>4, <1>5 DEF BridgeInv

-----------------------------------------------------------------------------
\* The setting is changed: another reaction begins.
LEMMA PutKeeps == ASSUME BridgeInv, NEW c \in BridgeCalls, NEW on \in BOOLEAN, PutBridge(c, on) PROVE BridgeInv'
<1> DEFINE step == IF on THEN "setup" ELSE "disable"
<1> USE DEF Becomes
<1>1. /\ BridgeTypeOK /\ bridgeCall[c] \in BridgeCallRec /\ step \in BridgeSteps
      /\ Begins(c, step, on)
  BY DEF BridgeInv, BridgeTypeOK, PutBridge, BridgeCallRec, BridgeSteps
<1>2. /\ bridgeCall' \in [BridgeCalls -> BridgeCallRec] /\ begun' \in Nat
      /\ bridgeCall[c].step = "idle" /\ bridgeCall'[c].step = step /\ bridgeCall'[c].on = on
      /\ \A d \in BridgeCalls \ {c} : bridgeCall'[d] = bridgeCall[d]
  <2> HIDE DEF step
  <2> QED
    BY <1>1, BeginsFacts
<1>3. BridgeTypeOK'
  BY <1>1, <1>2 DEF PutBridge, BridgeTypeOK, bridgeFiles, claudesOwn, BridgeCallRec
<1>4. NothingIsLost' /\ UntouchedBefore' /\ FileIsReading' /\ CapturesAreReadings'
  <2>1. /\ ~clobbered => OwnersOwn(settings)'
        /\ ~installed => settings'.snippet = "none"
    BY DEF PutBridge, BridgeInv, NothingIsLost, UntouchedBefore, OwnersOwn, bridgeFiles, claudesOwn
  <2>2. ~HasSettings(c)' /\ ~HasRead(c)' /\ bridgeCall'[c].step # "setenv"
    BY <1>2 DEF HasSettings, HasRead
  <2> QED
    BY <1>2, <2>1, <2>2, CallKeeps DEF PutBridge, bridgeFiles, claudesOwn
<1>5. Reactions'
  <2> SUFFICES ASSUME ~spoilt' PROVE Reactions'
    BY DEF PutBridge, Reactions
  <2>1. /\ serving = "serving" /\ serving' = serving /\ setting' = on /\ settings' = settings
        /\ ~spoilt /\ Quiet /\ wanted' = wanted
    BY DEF PutBridge, bridgeFiles, claudesOwn, BridgeInv, BridgeTypeOK, Quiet
  <2>2. Fed
    BY <2>1 DEF Quiet, Reacts, BridgeInv, Reactions
  <2>3. Reacts(c)' /\ \A d \in BridgeCalls : d = c \/ ~Reacts(d)'
    BY <1>2, <2>1 DEF Quiet, Reacts
  <2>4. AloneAtIt(c)' /\ Follows(c)'
    BY <1>2, <2>1, <2>3 DEF AloneAtIt, Follows, HasRead
  <2>5. Fed'
    BY <2>1, <2>2 DEF Fed
  <2> QED
    BY <1>2, <2>1, <2>3, <2>4, <2>5 DEF Reactions, Quiet
<1> QED
  BY <1>3, <1>4, <1>5 DEF BridgeInv

\* The server starts, and sets the bridge up where Claude Code is.
LEMMA BootKeeps == ASSUME BridgeInv, NEW c \in BridgeCalls, BootBridge(c) PROVE BridgeInv'
<1> USE DEF Becomes
<1>1. /\ BridgeTypeOK /\ bridgeCall[c] \in BridgeCallRec /\ "setup" \in BridgeSteps /\ "enable" \in BridgeSteps
      /\ serving = "down" /\ Quiet /\ settings' = settings /\ source' = source /\ installed' = installed
      /\ meddled' = FALSE /\ wanted' = wanted
  BY DEF BridgeInv, BridgeTypeOK, BootBridge, BridgeCallRec, BridgeSteps, Reactions, bridgeFiles, claudesOwn
<1>2. ~spoilt => Fed /\ source = setting /\ AsSet
  BY <1>1 DEF BridgeInv, Reactions, Quiet, Reacts
<1>3. CASE ~installed
  <2>1. serving' = "serving" /\ bridgeCall' = bridgeCall /\ setting' = setting /\ spoilt' = spoilt
        /\ faults' = faults /\ begun' = begun + 1
    BY <1>3 DEF BootBridge
  <2>2. BridgeTypeOK'
    <3>1. begun' \in Nat
      BY <1>1, <2>1 DEF BridgeTypeOK
    <3>2. /\ dataFile' = dataFile /\ wanted' = wanted /\ lines' = lines /\ clobbered' = clobbered
          /\ rewritten' = rewritten
      BY DEF BootBridge, bridgeFiles, claudesOwn
    <3> QED
      BY <1>1, <2>1, <3>1, <3>2 DEF BridgeTypeOK
  <2>3. NothingIsLost' /\ UntouchedBefore' /\ FileIsReading' /\ CapturesAreReadings'
    BY <2>1 DEF BootBridge, bridgeFiles, claudesOwn, BridgeInv, NothingIsLost, UntouchedBefore, OwnersOwn,
           HasRead, HasSettings, FileIsReading, CapturesAreReadings
  <2>4. AsSet'
    BY <1>1, <1>3, <2>1 DEF AsSet, BridgeInv, UntouchedBefore
  <2>5. Reactions'
    BY <1>1, <1>2, <2>1, <2>4 DEF Reactions, Quiet, Reacts, Fed
  <2> QED
    BY <2>2, <2>3, <2>5 DEF BridgeInv
<1>4. CASE installed
  <2>1. /\ serving' = "booting" /\ setting' \in BOOLEAN /\ faults' \in Nat /\ spoilt' \in BOOLEAN
        /\ ~spoilt' => ~spoilt /\ setting' = TRUE
        /\ \/ Begins(c, "setup", TRUE) /\ (~spoilt' => setting = TRUE)
           \/ Begins(c, "enable", TRUE)
    <3>0. serving' = "booting"
      BY <1>4 DEF BootBridge
    <3>1. CASE setting' = TRUE /\ Begins(c, IF setting THEN "setup" ELSE "enable", TRUE)
               /\ UNCHANGED <<faults, spoilt>>
      <4>1. CASE setting
        BY <1>1, <3>0, <3>1, <4>1 DEF BridgeTypeOK
      <4>2. CASE ~setting
        BY <1>1, <3>0, <3>1, <4>2 DEF BridgeTypeOK
      <4> QED
        BY <4>1, <4>2
    <3>2. CASE /\ ~setting /\ faults < MaxBridgeFaults /\ faults' = faults + 1
               /\ Begins(c, "setup", TRUE)
               /\ spoilt' = TRUE /\ UNCHANGED setting
      <4>1. setting' \in BOOLEAN /\ faults' \in Nat /\ spoilt' \in BOOLEAN
        BY <1>1, <3>2 DEF BridgeTypeOK
      <4>2. Begins(c, "setup", TRUE) /\ spoilt' = TRUE
        BY <3>2
      <4> QED
        BY <3>0, <4>1, <4>2
    <3> QED
      BY <1>4, <3>1, <3>2 DEF BootBridge
  <2>2. /\ bridgeCall' \in [BridgeCalls -> BridgeCallRec] /\ begun' \in Nat
        /\ bridgeCall[c].step = "idle" /\ bridgeCall'[c].step \in {"setup", "enable"}
        /\ ~spoilt' /\ bridgeCall'[c].step = "setup" => setting = TRUE
        /\ bridgeCall'[c].on = TRUE
        /\ \A d \in BridgeCalls \ {c} : bridgeCall'[d] = bridgeCall[d]
    BY <1>1, <2>1, BeginsFacts
  <2>3. BridgeTypeOK'
    BY <1>1, <2>1, <2>2 DEF BootBridge, BridgeTypeOK, bridgeFiles, claudesOwn, BridgeCallRec
  <2>4. NothingIsLost' /\ UntouchedBefore' /\ FileIsReading' /\ CapturesAreReadings'
    <3>1. /\ ~clobbered => OwnersOwn(settings)'
          /\ ~installed => settings'.snippet = "none"
      BY DEF BootBridge, BridgeInv, NothingIsLost, UntouchedBefore, OwnersOwn, bridgeFiles, claudesOwn
    <3>2. ~HasSettings(c)' /\ ~HasRead(c)' /\ bridgeCall'[c].step # "setenv"
      BY <2>2 DEF HasSettings, HasRead
    <3> QED
      BY <2>2, <3>1, <3>2, CallKeeps DEF BootBridge, bridgeFiles, claudesOwn
  <2>5. Reactions'
    <3> SUFFICES ASSUME ~spoilt' PROVE Reactions'
      BY <2>1 DEF Reactions
    <3>1. Reacts(c)' /\ \A d \in BridgeCalls : d = c \/ ~Reacts(d)'
      BY <1>1, <2>2 DEF Quiet, Reacts
    <3>2. AloneAtIt(c)' /\ Follows(c)'
      BY <1>1, <1>2, <2>1, <2>2, <3>1 DEF AloneAtIt, Follows, HasRead
    <3>3. Fed'
      BY <1>1, <1>2, <2>1 DEF Fed
    <3> QED
      BY <2>1, <2>2, <3>1, <3>2, <3>3 DEF Reactions, Quiet
  <2> QED
    BY <2>3, <2>4, <2>5 DEF BridgeInv
<1> QED
  BY <1>3, <1>4, <1>1 DEF BridgeTypeOK

\* The server ends: a reaction that was not over is remembered as cut short.
LEMMA EndKeeps == ASSUME BridgeInv, ServerEnds PROVE BridgeInv'
<1>1. BridgeTypeOK'
  BY RestingFacts DEF BridgeInv, ServerEnds, BridgeTypeOK, bridgeFiles, claudesOwn, bridgeRows, BridgeCallRec
<1>2. \A c \in BridgeCalls : bridgeCall'[c].step = "idle" /\ ~Reacts(c)'
  BY RestingFacts DEF ServerEnds, Reacts
<1>3. NothingIsLost' /\ UntouchedBefore' /\ FileIsReading' /\ CapturesAreReadings'
  BY <1>2 DEF ServerEnds, bridgeFiles, claudesOwn, BridgeInv, NothingIsLost, UntouchedBefore, OwnersOwn,
         HasRead, HasSettings, FileIsReading, CapturesAreReadings
<1>4. Reactions'
  <2> SUFFICES ASSUME ~spoilt' PROVE Reactions'
    BY <1>2 DEF Reactions, Quiet
  <2>1. ~spoilt /\ Quiet
    BY DEF ServerEnds, Quiet, BridgeInv, BridgeTypeOK
  <2>2. Fed /\ source = setting /\ AsSet
    BY <2>1 DEF BridgeInv, Reactions, Quiet, Reacts
  <2>3. Fed' /\ source' = setting' /\ AsSet'
    BY <2>2 DEF ServerEnds, bridgeFiles, bridgeRows, claudesOwn, Fed, AsSet
  <2> QED
    BY <1>2, <2>3 DEF Reactions, Quiet
<1> QED
  BY <1>1, <1>3, <1>4 DEF BridgeInv

-----------------------------------------------------------------------------
\* A step that leaves the reactions alone, and the settings.
LEMMA ReactionsStay ==
  ASSUME BridgeInv, UNCHANGED <<settings, bridgeRows, serving, installed, wanted, meddled, spoilt>>,
         \A c \in BridgeCalls : bridgeCall'[c] = bridgeCall[c] \/ (~Reacts(c) /\ ~Reacts(c)')
  PROVE  Reactions'
<1>1. \A c \in BridgeCalls :
        /\ Reacts(c)' <=> Reacts(c)
        /\ Reacts(c) => bridgeCall'[c] = bridgeCall[c]
        /\ bridgeCall'[c].step \notin {"env", "setenv"} <=> bridgeCall[c].step \notin {"env", "setenv"}
  BY DEF Reacts
<1>2. \A c \in BridgeCalls : Reacts(c) /\ AloneAtIt(c) /\ Follows(c) => AloneAtIt(c)' /\ Follows(c)'
  BY <1>1 DEF AloneAtIt, Follows, HasRead, bridgeRows
<1>3. Fed' <=> Fed
  BY DEF Fed
<1>4. AsSet' <=> AsSet
  BY DEF AsSet, bridgeRows
<1>5. Quiet' <=> Quiet
  BY <1>1 DEF Quiet
<1>6. (\A c \in BridgeCalls : Reacts(c)' => bridgeCall'[c].step = "sync")
        <=> \A c \in BridgeCalls : Reacts(c) => bridgeCall[c].step = "sync"
  BY <1>1
<1>7. serving' = serving /\ spoilt' = spoilt /\ source' = source /\ setting' = setting
  BY DEF bridgeRows
<1> QED
  BY <1>1, <1>2, <1>3, <1>4, <1>5, <1>6, <1>7 DEF BridgeInv, Reactions

LEMMA LooksKeeps == ASSUME BridgeInv, NEW c \in BridgeCalls, SnapLooks(c) PROVE BridgeInv'
<1> USE DEF Becomes
<1>1. BridgeTypeOK /\ "fresh" \in BridgeSteps /\ Begins(c, "fresh", FALSE)
  BY DEF BridgeInv, SnapLooks, BridgeSteps
<1>2. /\ bridgeCall' \in [BridgeCalls -> BridgeCallRec] /\ begun' \in Nat
      /\ bridgeCall[c].step = "idle" /\ bridgeCall'[c].step = "fresh"
      /\ \A d \in BridgeCalls \ {c} : bridgeCall'[d] = bridgeCall[d]
  BY <1>1, BeginsFacts
<1>3. BridgeTypeOK'
  BY <1>1, <1>2 DEF SnapLooks, BridgeTypeOK, bridgeFiles, claudesOwn, bridgeRows, BridgeCallRec
<1>4. NothingIsLost' /\ UntouchedBefore' /\ FileIsReading' /\ CapturesAreReadings'
  <2>1. /\ ~clobbered => OwnersOwn(settings)'
        /\ ~installed => settings'.snippet = "none"
    BY DEF SnapLooks, BridgeInv, NothingIsLost, UntouchedBefore, OwnersOwn, bridgeFiles, claudesOwn
  <2>2. ~HasSettings(c)' /\ ~HasRead(c)' /\ bridgeCall'[c].step # "setenv"
    BY <1>2 DEF HasSettings, HasRead
  <2> QED
    BY <1>2, <2>1, <2>2, CallKeeps DEF SnapLooks, bridgeFiles, claudesOwn
<1>5. Reactions'
  <2>1. ~Reacts(c) /\ ~Reacts(c)'
    BY <1>2 DEF Reacts
  <2> QED
    BY <1>2, <2>1, ReactionsStay DEF SnapLooks, bridgeFiles, claudesOwn, bridgeRows
<1> QED
  BY <1>3, <1>4, <1>5 DEF BridgeInv

\* What is captured is what the file holds, when that is a reading.
LEMMA ReadsKeeps == ASSUME BridgeInv, NEW c \in BridgeCalls, SnapReads(c) PROVE BridgeInv'
<1>1. BridgeTypeOK /\ CallEnds(c) /\ bridgeCall[c].step = "fresh"
  BY DEF BridgeInv, SnapReads
<1>2. /\ bridgeCall' \in [BridgeCalls -> BridgeCallRec] /\ bridgeCall'[c].step = "idle"
      /\ \A d \in BridgeCalls \ {c} : bridgeCall'[d] = bridgeCall[d]
  BY <1>1, EndsFacts, RestingFacts
<1>3. BridgeTypeOK'
  BY <1>1, <1>2 DEF SnapReads, BridgeTypeOK, bridgeFiles, claudesOwn, bridgeRows, BridgeCallRec
<1>4. NothingIsLost' /\ UntouchedBefore'
  <2>1. \A d \in BridgeCalls : d = c \/ bridgeCall'[d] = bridgeCall[d]
    BY <1>2
  <2> QED
    BY <1>2, <2>1 DEF SnapReads, bridgeFiles, claudesOwn, BridgeInv, NothingIsLost, UntouchedBefore, OwnersOwn,
           HasRead, HasSettings
<1>5. FileIsReading'
  BY DEF SnapReads, bridgeFiles, claudesOwn, BridgeInv, FileIsReading
<1>6. CapturesAreReadings'
  BY DEF SnapReads, bridgeFiles, claudesOwn, BridgeInv, FileIsReading, CapturesAreReadings, IsValid
<1>7. Reactions'
  <2>1. ~Reacts(c) /\ ~Reacts(c)'
    BY <1>1, <1>2 DEF Reacts
  <2> QED
    BY <1>2, <2>1, ReactionsStay DEF SnapReads, bridgeFiles, claudesOwn, bridgeRows
<1> QED
  BY <1>3, <1>4, <1>5, <1>6, <1>7 DEF BridgeInv

\* A step that leaves the calls and the settings alone.
LEMMA SettingsStay ==
  ASSUME BridgeInv, UNCHANGED <<settings, bridgeRows, serving, bridgeCall, installed, wanted, rewritten,
                                clobbered, meddled, spoilt>>
  PROVE  NothingIsLost' /\ UntouchedBefore' /\ Reactions'
<1>1. NothingIsLost' /\ UntouchedBefore'
  BY DEF BridgeInv, NothingIsLost, UntouchedBefore, OwnersOwn, HasRead, HasSettings
<1> QED
  BY <1>1, ReactionsStay DEF bridgeRows

LEMMA StatusLineKeeps ==
  ASSUME BridgeInv, NEW five \in BOOLEAN, NEW seven \in BOOLEAN, NEW plausible \in BOOLEAN,
         StatusLineRuns(five, seven, plausible)
  PROVE  BridgeInv'
<1> DEFINE line == [n |-> Cardinality(lines) + 1, five |-> five, seven |-> seven,
                    plausible |-> plausible, fresh |-> TRUE]
<1>1. BridgeTypeOK /\ dataFile' = line /\ lines' = lines \cup {line}
  BY DEF BridgeInv, StatusLineRuns
<1>2. Cardinality(lines) \in Nat /\ IsFiniteSet(lines')
  BY <1>1, FS_CardinalityType, FS_AddElement DEF BridgeTypeOK
<1>3. line \in Line
  BY <1>2 DEF Line
<1> HIDE DEF line
<1>4. BridgeTypeOK'
  BY <1>1, <1>2, <1>3 DEF StatusLineRuns, BridgeTypeOK, theServer, bridgeRows, counted
<1>5. NothingIsLost' /\ UntouchedBefore' /\ Reactions'
  BY SettingsStay DEF StatusLineRuns, theServer
<1>6. FileIsReading' /\ CapturesAreReadings'
  BY <1>1 DEF BridgeInv, FileIsReading, CapturesAreReadings, StatusLineRuns, theServer, counted
<1> QED
  BY <1>4, <1>5, <1>6 DEF BridgeInv

LEMMA DataAgesKeeps == ASSUME BridgeInv, DataAges PROVE BridgeInv'
<1>1. BridgeTypeOK /\ dataFile \in Line
  BY DEF BridgeInv, BridgeTypeOK
<1>2. /\ dataFile' \in Line /\ dataFile'.plausible = dataFile.plausible
      /\ dataFile'.n = dataFile.n /\ dataFile'.five = dataFile.five /\ dataFile'.seven = dataFile.seven
  BY <1>1 DEF DataAges, Line
<1>3. BridgeTypeOK'
  BY <1>1, <1>2 DEF DataAges, BridgeTypeOK, theServer, bridgeRows, counted, claudesOwn
<1>4. NothingIsLost' /\ UntouchedBefore' /\ Reactions'
  BY SettingsStay DEF DataAges, theServer, claudesOwn
<1>5. FileIsReading' /\ CapturesAreReadings'
  BY <1>2 DEF BridgeInv, FileIsReading, CapturesAreReadings, DataAges, theServer, counted, claudesOwn, Stored
<1> QED
  BY <1>3, <1>4, <1>5 DEF BridgeInv

LEMMA InstalledKeeps == ASSUME BridgeInv, ClaudeInstalled PROVE BridgeInv'
<1>1. BridgeTypeOK'
  BY DEF BridgeInv, ClaudeInstalled, BridgeTypeOK, theServer, bridgeRows, counted, bridgeFiles
<1>2. NothingIsLost' /\ UntouchedBefore' /\ FileIsReading' /\ CapturesAreReadings'
  BY DEF ClaudeInstalled, theServer, counted, bridgeFiles, BridgeInv, NothingIsLost, UntouchedBefore, OwnersOwn,
         HasRead, FileIsReading, CapturesAreReadings
<1>3. Reactions'
  BY DEF ClaudeInstalled, theServer, bridgeRows, bridgeFiles, BridgeInv, Reactions, Quiet, Reacts, AloneAtIt, Follows,
         HasRead, Fed, AsSet
<1> QED
  BY <1>1, <1>2, <1>3 DEF BridgeInv

\* What the owner writes is what he wants; a call that was about to write is
\* remembered as clobbering, one that reacts as spoilt.
LEMMA OwnerKeeps == ASSUME BridgeInv, OwnerWrites PROVE BridgeInv'
<1> DEFINE base == [settings EXCEPT !.wellFormed = TRUE]
<1>1. PICK s \in Edited(base) : settings' = [s EXCEPT !.written = wanted.written + 1]
  BY DEF OwnerWrites
<1>2. /\ BridgeTypeOK /\ settings \in SettingsFile /\ base \in SettingsFile /\ wanted.written + 1 \in Nat
      /\ base.snippet = settings.snippet /\ base.env = settings.env
  <2>1. BridgeTypeOK /\ settings \in SettingsFile /\ wanted \in SettingsFile
    BY DEF BridgeInv, BridgeTypeOK
  <2>2. base \in SettingsFile
    BY <2>1 DEF SettingsFile
  <2>3. base.snippet = settings.snippet /\ base.env = settings.env
    BY <2>1 DEF SettingsFile
  <2>4. wanted.written + 1 \in Nat
    BY <2>1 DEF SettingsFile
  <2> QED
    BY <2>1, <2>2, <2>3, <2>4
<1>3. /\ s \in SettingsFile /\ s.env \in {settings.env, "absent", "own", "noMap"}
      /\ s.snippet \in {settings.snippet, "none"} \/ (settings.snippet = "ours" /\ s.snippet = "edited")
  <2> HIDE DEF base
  <2>1. CASE s \in [snippet : {base.snippet, "none"}, own : BOOLEAN, more : BOOLEAN, env : {base.env},
                    wellFormed : {TRUE}, written : {0}]
    <3> DEFINE S == {base.snippet, "none"}
               E == {base.env}
    <3>1. S \subseteq {"none", "ours", "edited"} /\ E \subseteq {"absent", "on", "own", "noMap"}
      <4>1. base.snippet \in {"none", "ours", "edited"} /\ base.env \in {"absent", "on", "own", "noMap"}
        BY <1>2 DEF SettingsFile
      <4> QED
        BY <4>1
    <3>2. s \in [snippet : S, own : BOOLEAN, more : BOOLEAN, env : E, wellFormed : {TRUE}, written : {0}]
      BY <2>1
    <3>3. s \in SettingsFile /\ s.snippet \in S /\ s.env \in E
      <4> HIDE DEF S, E
      <4> QED
        BY <3>1, <3>2, NewSettings
    <3> QED
      BY <1>2, <3>3
  <2>2. CASE s = [base EXCEPT !.snippet = IF @ = "ours" THEN "edited" ELSE @]
    BY <1>2, <2>2 DEF SettingsFile
  <2>3. CASE s \in {[base EXCEPT !.env = e] : e \in {"absent", "own", "noMap"}}
    BY <1>2, <2>3 DEF SettingsFile
  <2>4. CASE s = [base EXCEPT !.wellFormed = FALSE]
    BY <1>2, <2>4 DEF SettingsFile
  <2> QED
    BY <2>1, <2>2, <2>3, <2>4 DEF Edited
<1>4. settings' \in SettingsFile /\ settings'.env = s.env /\ settings'.snippet = s.snippet
  BY <1>1, <1>2, <1>3 DEF SettingsFile
<1>5. wanted' = settings' /\ wanted' \in SettingsFile /\ OwnersOwn(settings)'
  BY <1>4 DEF OwnerWrites, OwnersOwn
<1>6. BridgeTypeOK'
  BY <1>2, <1>4, <1>5 DEF OwnerWrites, BridgeTypeOK, theServer, bridgeRows, counted
<1>7. NothingIsLost' /\ UntouchedBefore'
  BY <1>5 DEF OwnerWrites, theServer, BridgeInv, NothingIsLost, UntouchedBefore, HasRead
<1>8. FileIsReading' /\ CapturesAreReadings'
  BY DEF OwnerWrites, theServer, counted, BridgeInv, FileIsReading, CapturesAreReadings
<1>9. Reactions'
  <2>1. serving' = serving /\ bridgeCall' = bridgeCall
    BY DEF OwnerWrites, theServer
  <2> SUFFICES ASSUME ~spoilt' PROVE Reactions'
    BY <2>1 DEF BridgeInv, Reactions, Quiet, Reacts
  <2>2. ~spoilt /\ Quiet /\ meddled' = TRUE /\ source' = source /\ setting' = setting
    BY DEF OwnerWrites, Quiet, theServer, bridgeRows
  <2>3. Quiet' /\ Fed
    BY <2>1, <2>2 DEF BridgeInv, Reactions, Quiet, Reacts
  <2>4. Fed' /\ AsSet'
    BY <1>4, <1>5, <2>2 DEF Fed, AsSet
  <2>5. source = setting
    BY <2>2 DEF BridgeInv, Reactions
  <2> QED
    BY <2>2, <2>3, <2>4, <2>5 DEF Reactions, Quiet
<1> QED
  BY <1>6, <1>7, <1>8, <1>9 DEF BridgeInv

-----------------------------------------------------------------------------
\* The invariant the theorems follow from.
LEMMA BridgeInvariance == BridgeSpec => []BridgeInv
<1>1. BridgeInit => BridgeInv
  <2> SUFFICES ASSUME BridgeInit PROVE BridgeInv
    OBVIOUS
  <2>1. \A c \in BridgeCalls : bridgeCall[c] = Resting
    BY DEF BridgeInit
  <2>2. /\ settings \in SettingsFile /\ settings.snippet = "none"
        /\ wanted \in SettingsFile /\ OwnersOwn(settings)
    <3>1. settings \in SettingsFile /\ settings.snippet = "none"
      <4>1. settings \in SettingsFile /\ settings.snippet \in {"none"}
        <5> DEFINE S == {"none"}
                   E == {"absent", "noMap"}
        <5>1. S \subseteq {"none", "ours", "edited"} /\ E \subseteq {"absent", "on", "own", "noMap"}
          OBVIOUS
        <5>2. settings \in [snippet : S, own : BOOLEAN, more : BOOLEAN, env : E, wellFormed : {TRUE},
                            written : {0}]
          BY DEF BridgeInit, BridgeNew
        <5>3. settings \in SettingsFile /\ settings.snippet \in S
          <6> HIDE DEF S, E
          <6> QED
            BY <5>1, <5>2, NewSettings
        <5> QED
          BY <5>3
      <4> QED
        BY <4>1
    <3>2. wanted = settings
      BY DEF BridgeInit
    <3> QED
      BY <3>1, <3>2 DEF OwnersOwn
  <2>3. IsFiniteSet(lines) /\ lines = {} /\ captured = {}
    BY FS_EmptySet DEF BridgeInit, BridgeNew
  <2>4. BridgeTypeOK
    BY <2>2, <2>3, RestingFacts DEF BridgeInit, BridgeNew, BridgeTypeOK, BridgeCallRec
  <2>5. NothingIsLost /\ UntouchedBefore
    BY <2>1, <2>2, RestingFacts DEF NothingIsLost, UntouchedBefore, HasRead, HasSettings
  <2>6. Reactions
    BY <2>1, <2>2, RestingFacts DEF BridgeInit, BridgeNew, Reactions, Quiet, Reacts, Fed, AsSet
  <2>7. FileIsReading /\ CapturesAreReadings
    BY <2>3, RestingFacts DEF BridgeInit, BridgeNew, FileIsReading, CapturesAreReadings
  <2> QED
    BY <2>4, <2>5, <2>6, <2>7 DEF BridgeInv
<1>2. BridgeInv /\ [BridgeNext]_bridgeVars => BridgeInv'
  <2> SUFFICES ASSUME BridgeInv, [BridgeNext]_bridgeVars PROVE BridgeInv'
    OBVIOUS
  <2>1. ASSUME NEW c \in BridgeCalls, BootBridge(c) \/ SourceEnabled(c) \/ SetupReads(c) \/ SetupWrites(c)
                 \/ EnvReads(c) \/ EnvWrites(c)
        PROVE  BridgeInv'
    BY <2>1, BootKeeps, SourceEnabledKeeps, SetupReadsKeeps, SetupWritesKeeps, EnvReadsKeeps, EnvWritesKeeps
  <2>2. ASSUME NEW c \in BridgeCalls, NEW on \in BOOLEAN, PutBridge(c, on) PROVE BridgeInv'
    BY <2>2, PutKeeps
  <2>3. ASSUME NEW c \in BridgeCalls, DisableReads(c) \/ DisableWrites(c) \/ DisableCleans(c)
                 \/ BridgeWriteFails(c) \/ SnapLooks(c) \/ SnapReads(c)
        PROVE  BridgeInv'
    BY <2>3, DisableReadsKeeps, DisableWritesKeeps, DisableCleansKeeps, WriteFailsKeeps, LooksKeeps, ReadsKeeps
  <2>4. ASSUME NEW five \in BOOLEAN, NEW seven \in BOOLEAN, NEW plausible \in {TRUE, ~(five /\ seven)},
               StatusLineRuns(five, seven, plausible)
        PROVE  BridgeInv'
    <3>1. plausible \in BOOLEAN
      OBVIOUS
    <3> QED
      BY <2>4, <3>1, StatusLineKeeps
  <2>5. CASE ServerEnds \/ DataAges \/ ClaudeInstalled \/ OwnerWrites
    BY <2>5, EndKeeps, DataAgesKeeps, InstalledKeeps, OwnerKeeps
  <2>6. CASE UNCHANGED bridgeVars
    <3>1. BridgeTypeOK'
      BY <2>6 DEF bridgeVars, BridgeInv, BridgeTypeOK
    <3>2. FileIsReading' /\ CapturesAreReadings'
      BY <2>6 DEF bridgeVars, BridgeInv, FileIsReading, CapturesAreReadings
    <3>3. NothingIsLost' /\ UntouchedBefore' /\ Reactions'
      BY <2>6, SettingsStay DEF bridgeVars, bridgeRows
    <3> QED
      BY <3>1, <3>2, <3>3 DEF BridgeInv
  <2> QED
    BY <2>1, <2>2, <2>3, <2>4, <2>5, <2>6 DEF BridgeNext
<1> QED
  BY <1>1, <1>2, PTL DEF BridgeSpec

\* Whatever calls, boots, edits of the owner, failing writes and deaths come together: but
\* for a write between a call's read and its write the settings keep what their owner
\* wrote, what its status line held besides a command until a call rewrites that; once
\* reactions are over the bridge is as it was set, fed where there is room for the
\* variable and its owner has not left it out; what is captured is what a
\* plausible reading said (bridge.go; handlers_config.go, onConfigChanged).
THEOREM BridgeAlwaysHolds == BridgeSpec => []BridgeHolds
<1>1. BridgeInv => BridgeHolds
  <2> SUFFICES ASSUME BridgeInv PROVE BridgeHolds
    OBVIOUS
  <2>1. OwnersSettingsStay
    BY DEF BridgeInv, NothingIsLost, OwnersOwn, OwnersSettingsStay
  <2>2. BridgeIsAsSet
    <3>1. IsFed(settings) \/ settings.env \in {"absent", "noMap"}
      BY DEF BridgeInv, BridgeTypeOK, SettingsFile, IsFed
    <3> QED
      BY <3>1 DEF BridgeInv, Reactions, Quiet, Reacts, Fed, AsSet, BridgeIsAsSet
  <2> QED
    BY <2>1, <2>2 DEF BridgeInv, BridgeHolds
<1> QED
  BY <1>1, BridgeInvariance, PTL

\* What is shared with a provider's own program, Codex or Claude Code, is left to it but
\* for what both parts above name.
THEOREM SharedFilesAlwaysHold == PollingSpec /\ BridgeSpec => []SharedFilesHold
<1>1. PollingHolds /\ BridgeHolds => SharedFilesHold
  BY DEF SharedFilesHold
<1> QED
  BY <1>1, PollingAlwaysHolds, BridgeAlwaysHolds, PTL

-----------------------------------------------------------------------------
(* The language servers (LanguageServers)                                  *)

HubOf(i) == [ide |-> i, hub |-> TRUE]
Running(i) == {p \in answering : p.ide = i}
Accounts(c) == {r.account : r \in results[c]}

\* A handler that is not calling has nothing; one that has been alone is alone.
IdleIsClean == \A c \in SnapCalls : stage[c] = "idle" => results[c] = {} /\ touched[c] = {}
OneIsAlone == \A c \in Calling \ together : Calling = {c}

\* How far a call that is alone has come with an IDE nothing happened to: all that runs
\* is found, all that is found is asked, hubs first, and who has answered is shown.
IDEIsCurrent(c, i) ==
  /\ stage[c] = "probe" => Running(i) \subseteq left[c] \cup active[c]
  /\ stage[c] = "sort" => Running(i) \subseteq conns
  /\ stage[c] = "ask" =>
       /\ \A p \in Running(i) : login[p] # SignedOut =>
            p \in left[c] \/ \E q \in active[c] : q.ide = i
       /\ (\E q \in active[c] : q.ide = i) => Shown(i) \subseteq Accounts(c)
  /\ stage[c] = "done" => Shown(i) \subseteq Accounts(c)
  /\ \A r \in results[c] : r.ide = i => r.account \in Shown(i)
CallIsCurrent(c) ==
  /\ stage[c] = "detect" => conns = {}
  /\ stage[c] \in {"detect", "probe", "sort"} => results[c] = {}
  /\ \A i \in IDEs \ touched[c] : IDEIsCurrent(c, i)

LSInv ==
  /\ LSTypeOK /\ IdleIsClean /\ OneIsAlone
  /\ \A c \in Calling \ together : CallIsCurrent(c)

-----------------------------------------------------------------------------
LEMMA HubIsServer == \A i \in IDEs : HubOf(i) \in Servers /\ HubOf(i).ide = i /\ HubOf(i).hub
BY DEF HubOf, Servers

LEMMA ServerIs == \A p \in Servers : /\ p.ide \in IDEs /\ p.hub \in BOOLEAN
                                     /\ p = [ide |-> p.ide, hub |-> p.hub]
                                     /\ p.hub => p = HubOf(p.ide)
                                     /\ ~p.hub => p = [ide |-> p.ide, hub |-> FALSE]
BY DEF Servers, HubOf

\* What an IDE shows, said of its processes.
LEMMA ShownIs ==
  ASSUME NEW i \in IDEs
  PROVE  Shown(i) = {login[p] : p \in {q \in Servers :
                       /\ q.ide = i /\ q \in answering /\ login[q] # SignedOut
                       /\ q.hub \/ ~(HubOf(i) \in answering /\ login[HubOf(i)] # SignedOut)}}
<1> DEFINE own == [ide |-> i, hub |-> FALSE]
           Tells(p) == p \in answering /\ login[p] # SignedOut
<1>1. HubOf(i) # own
  BY DEF HubOf
<1>2. {q \in {HubOf(i), own} \cap Servers : Tells(q) /\ (q = own => ~Tells(HubOf(i)))}
      = {q \in Servers : /\ q.ide = i /\ q \in answering /\ login[q] # SignedOut
                         /\ q.hub \/ ~(HubOf(i) \in answering /\ login[HubOf(i)] # SignedOut)}
  <2>1. \A q \in Servers : q.ide = i <=> q \in {HubOf(i), own}
    BY ServerIs DEF HubOf
  <2>2. \A q \in Servers : q.ide = i => (q.hub <=> q # own)
    BY ServerIs DEF HubOf
  <2> QED
    BY <2>1, <2>2
<1> QED
  BY <1>2 DEF Shown, HubOf

LEMMA ShownKeeps ==
  ASSUME NEW i \in IDEs,
         \A p \in Servers : p.ide = i => (p \in answering' <=> p \in answering) /\ login'[p] = login[p]
  PROVE  Shown(i)' = Shown(i)
<1> DEFINE hub == [ide |-> i, hub |-> TRUE]
           own == [ide |-> i, hub |-> FALSE]
           Tells(p) == p \in answering /\ login[p] # SignedOut
           NowTells(p) == p \in answering' /\ login'[p] # SignedOut
           S == {q \in {hub, own} \cap Servers : Tells(q) /\ (q = own => ~Tells(hub))}
           T == {q \in {hub, own} \cap Servers : NowTells(q) /\ (q = own => ~NowTells(hub))}
<1>1. hub \in Servers /\ \A q \in {hub, own} : q.ide = i
  BY HubIsServer DEF HubOf
<1>2. \A q \in {hub, own} \cap Servers : (q \in answering' <=> q \in answering) /\ login'[q] = login[q]
  BY <1>1
<1>3. Shown(i) = {login[p] : p \in S}
  BY DEF Shown
<1>4. Shown(i)' = {login'[p] : p \in T}
  BY DEF Shown
<1> HIDE DEF hub, own
<1>5. S = T
  BY <1>1, <1>2
<1>6. S \subseteq {hub, own} \cap Servers
  OBVIOUS
<1> HIDE DEF S, T
<1> QED
  BY <1>2, <1>3, <1>4, <1>5, <1>6

\* Something happens to an IDE: the calls under way no longer vouch for it.
LEMMA WorldKeeps ==
  ASSUME LSInv, NEW i \in IDEs, LSTypeOK', Happens(i), UNCHANGED client,
         \A p \in Servers : p.ide # i => (p \in answering' <=> p \in answering) /\ login'[p] = login[p]
  PROVE  LSInv'
<1>1. UNCHANGED <<conns, stage, left, active, results, together>> /\ Calling' = Calling
  BY DEF client, Calling
<1>2. /\ touched' \in [SnapCalls -> SUBSET IDEs]
      /\ \A c \in SnapCalls : touched'[c] = IF c \in Calling THEN touched[c] \cup {i} ELSE {}
  BY DEF Happens, LSTypeOK
<1>3. IdleIsClean' /\ OneIsAlone'
  BY <1>1, <1>2 DEF LSInv, IdleIsClean, OneIsAlone, Calling
<1>4. ASSUME NEW c \in Calling \ together PROVE CallIsCurrent(c)'
  <2>1. CallIsCurrent(c) /\ c \in SnapCalls
    BY <1>4 DEF LSInv, Calling
  <2>2. ASSUME NEW j \in IDEs \ touched'[c] PROVE IDEIsCurrent(c, j)'
    <3>1. j \in IDEs \ touched[c] /\ j # i
      BY <1>2, <1>4, <2>1, <2>2
    <3>2. Shown(j)' = Shown(j)
      BY <3>1, ShownKeeps
    <3>3. Running(j)' = Running(j) /\ \A p \in Running(j) : login'[p] = login[p]
      BY <3>1 DEF Running, LSInv, LSTypeOK
    <3>4. IDEIsCurrent(c, j) /\ Accounts(c)' = Accounts(c)
      BY <1>1, <2>1, <3>1 DEF CallIsCurrent, Accounts
    <3> QED
      BY <1>1, <3>2, <3>3, <3>4 DEF IDEIsCurrent
  <2> QED
    BY <1>1, <2>1, <2>2 DEF CallIsCurrent
<1> QED
  BY <1>1, <1>3, <1>4 DEF LSInv

LEMMA HappensTyped ==
  ASSUME LSInv, NEW i \in IDEs, Happens(i)
  PROVE  changes' \in Nat /\ touched' \in [SnapCalls -> SUBSET IDEs]
BY DEF LSInv, LSTypeOK, Happens

LEMMA SwitchKeeps ==
  ASSUME LSInv, NEW i \in IDEs, SwitchAccount(i) PROVE LSInv'
<1>1. PICK a \in Logins \cup {SignedOut} : login' = [login EXCEPT ![HubOf(i)] = a]
  BY DEF SwitchAccount, HubOf
<1>2. Happens(i) /\ UNCHANGED <<answering, client>>
  BY DEF SwitchAccount
<1>3. login' \in [Servers -> Logins \cup {SignedOut}]
  BY <1>1 DEF LSInv, LSTypeOK
<1>4. LSTypeOK'
  BY <1>2, <1>3, HappensTyped DEF LSInv, LSTypeOK, client
<1>5. \A p \in Servers : p.ide # i => login'[p] = login[p]
  BY <1>1, HubIsServer DEF LSInv, LSTypeOK
<1> QED
  BY <1>2, <1>4, <1>5, WorldKeeps

LEMMA StopKeeps ==
  ASSUME LSInv, NEW p \in Servers, ServerStops(p) PROVE LSInv'
<1>1. Happens(p.ide) /\ answering' = answering \ {p} /\ UNCHANGED <<login, client>> /\ p.ide \in IDEs
  BY ServerIs DEF ServerStops
<1>2. LSTypeOK'
  BY <1>1, HappensTyped DEF LSInv, LSTypeOK, client
<1> QED
  BY <1>1, <1>2, WorldKeeps

LEMMA ServerStartKeeps ==
  ASSUME LSInv, NEW p \in Servers, ServerStarts(p) PROVE LSInv'
<1>1. /\ Happens(p.ide) /\ answering' = answering \cup {p} /\ UNCHANGED client /\ p.ide \in IDEs
      /\ login' = [login EXCEPT ![p] = login[HubOf(p.ide)]]
  BY ServerIs DEF ServerStarts, HubOf
<1>2. login' \in [Servers -> Logins \cup {SignedOut}]
  BY <1>1, HubIsServer DEF LSInv, LSTypeOK
<1>3. LSTypeOK'
  BY <1>1, <1>2, HappensTyped DEF LSInv, LSTypeOK, client
<1>4. \A q \in Servers : q.ide # p.ide => login'[q] = login[q] /\ (q \in answering' <=> q \in answering)
  BY <1>1 DEF LSInv, LSTypeOK
<1> QED
  BY <1>1, <1>3, <1>4, WorldKeeps

LEMMA TTLKeeps == ASSUME LSInv, TTLPasses PROVE LSInv'
<1>1. /\ fresh' = FALSE
      /\ UNCHANGED <<answering, login, conns, stage, left, active, results, changes, touched, together>>
  BY DEF TTLPasses, world
<1>2. LSTypeOK'
  BY <1>1 DEF LSInv, LSTypeOK
<1>3. \A i : Shown(i)' = Shown(i) /\ Running(i)' = Running(i)
  BY <1>1 DEF Shown, Running
<1>4. \A c : Accounts(c)' = Accounts(c)
  BY <1>1 DEF Accounts
<1>5. Calling' = Calling /\ IdleIsClean' /\ OneIsAlone'
  BY <1>1 DEF LSInv, Calling, IdleIsClean, OneIsAlone
<1>6. \A c \in SnapCalls : CallIsCurrent(c) => CallIsCurrent(c)'
  BY <1>1, <1>3, <1>4 DEF CallIsCurrent, IDEIsCurrent
<1> QED
  BY <1>1, <1>2, <1>5, <1>6 DEF LSInv, Calling

\* A handler's own step: only its own call, if it is alone, has to be looked at.
LEMMA OwnStepKeeps ==
  ASSUME LSInv, NEW c \in Calling, LSTypeOK', UNCHANGED <<answering, login, touched, together>>,
         stage'[c] # "idle", \A d \in SnapCalls \ {c} : stage'[d] = stage[d] /\ results'[d] = results[d],
         c \notin together => CallIsCurrent(c)'
  PROVE  LSInv'
<1>1. Calling' = Calling /\ c \in SnapCalls
  BY DEF Calling
<1>2. IdleIsClean'
  BY <1>1 DEF LSInv, IdleIsClean
<1>3. OneIsAlone'
  BY <1>1 DEF LSInv, OneIsAlone
<1>4. \A d \in Calling \ together : d = c
  BY DEF LSInv, OneIsAlone
<1> QED
  BY <1>1, <1>2, <1>3, <1>4 DEF LSInv

LEMMA SnapBeginsKeeps ==
  ASSUME LSInv, NEW c \in SnapCalls, BeginSnap(c) PROVE LSInv'
<1>1. /\ stage[c] = "idle" /\ conns' = {} /\ stage' = [stage EXCEPT ![c] = "detect"]
      /\ together' = IF Calling = {} THEN {} ELSE together \cup Calling \cup {c}
      /\ UNCHANGED <<answering, login, fresh, left, active, results, changes, touched>>
  BY DEF BeginSnap, world
<1>2. stage'[c] = "detect" /\ \A d \in SnapCalls \ {c} : stage'[d] = stage[d]
  BY <1>1 DEF LSInv, LSTypeOK
<1>3. Calling' = Calling \cup {c}
  BY <1>2 DEF Calling
<1>4. LSTypeOK'
  <2>1. stage' \in [SnapCalls -> {"idle", "detect", "probe", "sort", "ask", "done"}]
    BY <1>1 DEF LSInv, LSTypeOK
  <2>2. together' \subseteq SnapCalls
    BY <1>1 DEF LSInv, LSTypeOK, Calling
  <2> QED
    BY <1>1, <2>1, <2>2 DEF LSInv, LSTypeOK
<1>5. IdleIsClean'
  BY <1>1, <1>2 DEF LSInv, IdleIsClean
<1>6. ASSUME NEW d \in Calling' \ together' PROVE Calling' = {c} /\ d = c
  BY <1>1, <1>3, <1>6
<1>7. CallIsCurrent(c)'
  <2>1. results'[c] = {}
    BY <1>1 DEF LSInv, IdleIsClean
  <2> QED
    BY <1>1, <1>2, <2>1 DEF CallIsCurrent, IDEIsCurrent
<1> QED
  BY <1>4, <1>5, <1>6, <1>7 DEF LSInv, OneIsAlone

LEMMA SnapEndsKeeps ==
  ASSUME LSInv, NEW c \in SnapCalls, EndSnap(c) PROVE LSInv'
<1>1. /\ stage[c] = "done" /\ stage' = [stage EXCEPT ![c] = "idle"] /\ active' = [active EXCEPT ![c] = {}]
      /\ results' = [results EXCEPT ![c] = {}] /\ touched' = [touched EXCEPT ![c] = {}]
      /\ together' = together \ {c}
      /\ UNCHANGED <<answering, login, conns, fresh, left, changes>>
  BY DEF EndSnap, world
<1>2. LSTypeOK'
  BY <1>1 DEF LSInv, LSTypeOK
<1>3. /\ stage'[c] = "idle" /\ results'[c] = {} /\ touched'[c] = {}
      /\ \A d \in SnapCalls \ {c} : stage'[d] = stage[d] /\ results'[d] = results[d] /\ touched'[d] = touched[d]
  BY <1>1 DEF LSInv, LSTypeOK
<1>4. Calling' = Calling \ {c} /\ c \in Calling
  BY <1>1, <1>3 DEF Calling
<1>5. IdleIsClean'
  BY <1>3 DEF LSInv, IdleIsClean
<1>6. Calling' \ together' = {}
  BY <1>1, <1>4 DEF LSInv, OneIsAlone
<1> QED
  BY <1>2, <1>5, <1>6 DEF LSInv, OneIsAlone

LEMMA FindServersKeeps ==
  ASSUME LSInv, NEW c \in SnapCalls, FindServers(c) PROVE LSInv'
<1>1. /\ stage[c] = "detect" /\ c \in Calling
      /\ UNCHANGED <<answering, login, fresh, results, changes, touched, together>>
  BY DEF FindServers, world, Calling
<1>2. CASE conns # {} /\ fresh
  <2>1. stage' = [stage EXCEPT ![c] = "sort"] /\ UNCHANGED <<conns, left, active>>
    BY <1>2 DEF FindServers
  <2>2. LSTypeOK' /\ stage'[c] = "sort" /\ \A d \in SnapCalls \ {c} : stage'[d] = stage[d]
    BY <1>1, <2>1 DEF LSInv, LSTypeOK
  <2>3. c \in together
    BY <1>1, <1>2 DEF LSInv, CallIsCurrent
  <2> QED
    BY <1>1, <2>2, <2>3, OwnStepKeeps
<1>3. CASE ~(conns # {} /\ fresh)
  <2>1. /\ conns' = {} /\ left' = [left EXCEPT ![c] = answering] /\ active' = [active EXCEPT ![c] = {}]
        /\ stage' = [stage EXCEPT ![c] = "probe"]
    BY <1>3 DEF FindServers
  <2>2. /\ LSTypeOK' /\ stage'[c] = "probe" /\ \A d \in SnapCalls \ {c} : stage'[d] = stage[d]
        /\ left'[c] = answering
    BY <1>1, <2>1 DEF LSInv, LSTypeOK
  <2>3. ASSUME c \notin together PROVE CallIsCurrent(c)'
    <3>1. results'[c] = {}
      BY <1>1, <2>3 DEF LSInv, CallIsCurrent
    <3>2. \A i : Running(i)' \subseteq left'[c]
      BY <1>1, <2>2 DEF Running
    <3> QED
      BY <2>2, <3>1, <3>2 DEF CallIsCurrent, IDEIsCurrent
  <2> QED
    BY <1>1, <2>2, <2>3, OwnStepKeeps
<1> QED
  BY <1>2, <1>3

LEMMA ProbeKeeps ==
  ASSUME LSInv, NEW c \in SnapCalls, NEW p \in Servers, Probe(c, p) PROVE LSInv'
<1>1. /\ stage[c] = "probe" /\ c \in Calling /\ p \in left[c] /\ left' = [left EXCEPT ![c] = left[c] \ {p}]
      /\ active' = [active EXCEPT ![c] = IF p \in answering THEN active[c] \cup {p} ELSE active[c]]
      /\ UNCHANGED <<answering, login, conns, fresh, stage, results, changes, touched, together>>
  BY DEF Probe, world, Calling
<1>2. /\ LSTypeOK' /\ left'[c] = left[c] \ {p}
      /\ active'[c] = IF p \in answering THEN active[c] \cup {p} ELSE active[c]
  BY <1>1 DEF LSInv, LSTypeOK
<1>3. ASSUME c \notin together PROVE CallIsCurrent(c)'
  <2>1. CallIsCurrent(c)
    BY <1>1, <1>3 DEF LSInv
  <2>2. ASSUME NEW i \in IDEs \ touched'[c] PROVE Running(i)' \subseteq left'[c] \cup active'[c]
    BY <1>1, <1>2, <2>1, <2>2 DEF CallIsCurrent, IDEIsCurrent, Running
  <2> QED
    BY <1>1, <2>1, <2>2 DEF CallIsCurrent, IDEIsCurrent
<1> QED
  BY <1>1, <1>2, <1>3, OwnStepKeeps

LEMMA DetectServersKeeps ==
  ASSUME LSInv, NEW c \in SnapCalls, EndDetect(c) PROVE LSInv'
<1>1. /\ stage[c] = "probe" /\ c \in Calling /\ left[c] = {}
      /\ UNCHANGED <<answering, login, left, active, results, changes, touched, together>>
  BY DEF EndDetect, world, Calling
<1>2. c \notin together => /\ results[c] = {}
                           /\ \A i \in IDEs \ touched[c] : Running(i) \subseteq active[c]
  BY <1>1 DEF LSInv, CallIsCurrent, IDEIsCurrent
<1>3. CASE active[c] = {}
  <2>1. stage' = [stage EXCEPT ![c] = "done"] /\ UNCHANGED <<conns, fresh>>
    BY <1>3 DEF EndDetect
  <2>2. LSTypeOK' /\ stage'[c] = "done" /\ \A d \in SnapCalls \ {c} : stage'[d] = stage[d]
    BY <1>1, <2>1 DEF LSInv, LSTypeOK
  <2>3. ASSUME c \notin together PROVE CallIsCurrent(c)'
    <3>1. ASSUME NEW i \in IDEs \ touched'[c] PROVE Shown(i)' = {}
      <4>1. \A q \in answering : q.ide # i
        BY <1>1, <1>2, <1>3, <2>3, <3>1 DEF Running
      <4>2. Shown(i) = {}
        BY <3>1, <4>1, ShownIs
      <4> QED
        BY <1>1, <3>1, <4>2, ShownKeeps
    <3> QED
      BY <1>1, <1>2, <2>2, <2>3, <3>1 DEF CallIsCurrent, IDEIsCurrent
  <2> QED
    BY <1>1, <2>2, <2>3, OwnStepKeeps
<1>4. CASE active[c] # {}
  <2>1. conns' = active[c] /\ fresh' = TRUE /\ stage' = [stage EXCEPT ![c] = "sort"]
    BY <1>4 DEF EndDetect
  <2>2. LSTypeOK' /\ stage'[c] = "sort" /\ \A d \in SnapCalls \ {c} : stage'[d] = stage[d]
    BY <1>1, <2>1 DEF LSInv, LSTypeOK
  <2>3. ASSUME c \notin together PROVE CallIsCurrent(c)'
    BY <1>1, <1>2, <2>1, <2>2, <2>3 DEF CallIsCurrent, IDEIsCurrent, Running
  <2> QED
    BY <1>1, <2>2, <2>3, OwnStepKeeps
<1> QED
  BY <1>3, <1>4

LEMMA SortKeeps ==
  ASSUME LSInv, NEW c \in SnapCalls, SortConns(c) PROVE LSInv'
<1>1. /\ stage[c] = "sort" /\ c \in Calling
      /\ active' = [active EXCEPT ![c] = {}] /\ stage' = [stage EXCEPT ![c] = "ask"]
      /\ UNCHANGED <<answering, login, conns, fresh, results, changes, touched, together>>
  BY DEF SortConns, world, Calling
<1>2. PICK same \in SUBSET conns :
        /\ (\A d \in Calling \ {c} : stage[d] # "sort") => same = conns
        /\ left' = [left EXCEPT ![c] = same]
  BY DEF SortConns
<1>3. /\ LSTypeOK' /\ stage'[c] = "ask" /\ (\A d \in SnapCalls \ {c} : stage'[d] = stage[d])
      /\ left'[c] = same /\ active'[c] = {}
  BY <1>1, <1>2 DEF LSInv, LSTypeOK
<1>4. ASSUME c \notin together PROVE CallIsCurrent(c)'
  <2>1. same = conns /\ CallIsCurrent(c)
    BY <1>1, <1>2, <1>4 DEF LSInv, OneIsAlone
  <2>2. ASSUME NEW i \in IDEs \ touched'[c] PROVE Running(i)' \subseteq left'[c]
    BY <1>1, <1>3, <2>1, <2>2 DEF CallIsCurrent, IDEIsCurrent, Running
  <2>3. results'[c] = {}
    BY <1>1, <2>1 DEF CallIsCurrent
  <2> QED
    BY <1>3, <2>2, <2>3 DEF CallIsCurrent, IDEIsCurrent
<1> QED
  BY <1>1, <1>3, <1>4, OwnStepKeeps

\* The process that is next up tells what its IDE shows.
LEMMA NextTells ==
  ASSUME LSInv, NEW c \in Calling \ together, stage[c] = "ask", NEW p \in NextUp(left[c]),
         p \in answering, login[p] # SignedOut, ~Answered(c, p), p.ide \notin touched[c]
  PROVE  Shown(p.ide) = {login[p]}
<1>1. p \in left[c] /\ p \in Servers /\ p.ide \in IDEs /\ c \in SnapCalls
  <2>1. p \in left[c] /\ c \in SnapCalls
    BY DEF NextUp, Calling
  <2>2. p \in Servers
    BY <2>1 DEF LSInv, LSTypeOK
  <2> QED
    BY <2>1, <2>2, ServerIs
<1>2. IDEIsCurrent(c, p.ide)
  BY <1>1 DEF LSInv, CallIsCurrent
<1>3. CASE p.hub
  <2>1. p = HubOf(p.ide)
    BY <1>1, <1>3, ServerIs
  <2>2. \A q \in Servers : q.ide = p.ide /\ q.hub => q = p
    BY <2>1, ServerIs
  <2> QED
    BY <1>1, <1>3, <2>1, <2>2, ShownIs
<1>4. CASE ~p.hub
  <2>1. HubOf(p.ide) \notin left[c]
    BY <1>1, <1>4, HubIsServer DEF NextUp
  <2>2. ~(HubOf(p.ide) \in answering /\ login[HubOf(p.ide)] # SignedOut)
    BY <1>1, <1>2, <2>1, HubIsServer DEF IDEIsCurrent, Running, Answered
  <2>3. \A q \in Servers : q.ide = p.ide /\ ~q.hub => q = p
    BY <1>1, <1>4, ServerIs
  <2>4. \A q \in Servers : q.ide = p.ide /\ q.hub => q = HubOf(p.ide)
    BY ServerIs
  <2> QED
    BY <1>1, <2>2, <2>3, <2>4, ShownIs
<1> QED
  BY <1>1, <1>3, <1>4, ServerIs

LEMMA AskKeeps ==
  ASSUME LSInv, NEW c \in SnapCalls, NEW p \in Servers, Ask(c, p) PROVE LSInv'
<1>1. /\ stage[c] = "ask" /\ c \in Calling /\ p \in NextUp(left[c]) /\ p \in left[c]
      /\ left' = [left EXCEPT ![c] = left[c] \ {p}]
      /\ UNCHANGED <<answering, login, conns, fresh, stage, changes, touched, together>>
  BY DEF Ask, world, Calling, NextUp
<1>2. left' \in [SnapCalls -> SUBSET Servers] /\ left'[c] = left[c] \ {p}
  BY <1>1 DEF LSInv, LSTypeOK
<1>3. \A i \in IDEs : Shown(i)' = Shown(i) /\ Running(i)' = Running(i)
  BY <1>1, ShownKeeps DEF Running
<1>4. CASE Answered(c, p) \/ p \notin answering \/ login[p] = SignedOut
  <2>1. UNCHANGED <<active, results>>
    BY <1>4 DEF Ask
  <2>2. LSTypeOK'
    BY <1>1, <1>2, <2>1 DEF LSInv, LSTypeOK
  <2>3. ASSUME c \notin together PROVE CallIsCurrent(c)'
    <3>1. CallIsCurrent(c)
      BY <1>1, <2>3 DEF LSInv
    <3>2. ASSUME NEW i \in IDEs \ touched'[c] PROVE IDEIsCurrent(c, i)'
      <4>1. IDEIsCurrent(c, i)
        BY <1>1, <3>1, <3>2 DEF CallIsCurrent
      <4>2. ASSUME NEW q \in Running(i), login[q] # SignedOut
            PROVE  q \in left'[c] \/ \E f \in active[c] : f.ide = i
        BY <1>1, <1>2, <1>4, <4>1, <4>2 DEF IDEIsCurrent, Answered, Running
      <4>3. Accounts(c)' = Accounts(c)
        BY <2>1 DEF Accounts
      <4> QED
        BY <1>1, <1>3, <2>1, <3>2, <4>1, <4>2, <4>3 DEF IDEIsCurrent
    <3> QED
      BY <1>1, <2>1, <3>1, <3>2 DEF CallIsCurrent
  <2> QED
    BY <1>1, <2>1, <2>2, <2>3, OwnStepKeeps
<1>5. CASE ~(Answered(c, p) \/ p \notin answering \/ login[p] = SignedOut)
  <2> DEFINE new == [ide |-> p.ide, hub |-> p.hub, account |-> login[p]]
  <2>1. /\ active' = [active EXCEPT ![c] = active[c] \cup {p}]
        /\ results' = [results EXCEPT ![c] =
             IF \E r \in results[c] : r.account = login[p] THEN results[c] ELSE results[c] \cup {new}]
    BY <1>5 DEF Ask
  <2>2. new \in [ide : IDEs, hub : BOOLEAN, account : Logins] /\ new.ide = p.ide /\ new.account = login[p]
    BY <1>5, ServerIs DEF LSInv, LSTypeOK
  <2> HIDE DEF new
  <2>3. PICK rs : /\ results' = [results EXCEPT ![c] = rs]
                  /\ rs \in {results[c], results[c] \cup {new}}
                  /\ login[p] \in {r.account : r \in rs}
    <3>1. CASE \E r \in results[c] : r.account = login[p]
      BY <2>1, <3>1
    <3>2. CASE ~\E r \in results[c] : r.account = login[p]
      <4>1. results' = [results EXCEPT ![c] = results[c] \cup {new}]
        BY <2>1, <3>2
      <4>2. login[p] \in {r.account : r \in results[c] \cup {new}}
        BY <2>2
      <4> QED
        BY <4>1, <4>2
    <3> QED
      BY <3>1, <3>2
  <2>4. results' \in [SnapCalls -> SUBSET [ide : IDEs, hub : BOOLEAN, account : Logins]]
    BY <2>2, <2>3 DEF LSInv, LSTypeOK
  <2>5. LSTypeOK' /\ active'[c] = active[c] \cup {p} /\ results'[c] = rs
        /\ \A d \in SnapCalls \ {c} : results'[d] = results[d]
    BY <1>1, <1>2, <2>1, <2>3, <2>4 DEF LSInv, LSTypeOK
  <2>6. ASSUME c \notin together PROVE CallIsCurrent(c)'
    <3>1. CallIsCurrent(c)
      BY <1>1, <2>6 DEF LSInv
    <3>2. p.ide \notin touched[c] => Shown(p.ide) = {login[p]}
      BY <1>1, <1>5, <2>6, NextTells
    <3>3. Accounts(c) \subseteq Accounts(c)' /\ login[p] \in Accounts(c)'
      BY <2>3, <2>5 DEF Accounts
    <3>4. ASSUME NEW i \in IDEs \ touched'[c] PROVE IDEIsCurrent(c, i)'
      <4>1. IDEIsCurrent(c, i) /\ i \in IDEs /\ i \notin touched[c]
        BY <1>1, <3>1, <3>4 DEF CallIsCurrent
      <4>2. ASSUME NEW q \in Running(i), login[q] # SignedOut
            PROVE  q \in left'[c] \/ \E f \in active'[c] : f.ide = i
        BY <1>1, <1>2, <2>5, <4>1, <4>2 DEF IDEIsCurrent, Running
      <4>3. ASSUME NEW f \in active'[c], f.ide = i PROVE Shown(i) \subseteq Accounts(c)'
        <5>1. CASE f = p
          BY <3>2, <3>3, <4>1, <4>3, <5>1
        <5>2. CASE f \in active[c]
          BY <1>1, <3>3, <4>1, <4>3, <5>2 DEF IDEIsCurrent
        <5> QED
          BY <2>5, <4>3, <5>1, <5>2
      <4>4. ASSUME NEW r \in results'[c], r.ide = i PROVE r.account \in Shown(i)
        <5>1. CASE r \in results[c]
          BY <4>1, <4>4, <5>1 DEF IDEIsCurrent
        <5>2. CASE r = new
          BY <2>2, <3>2, <4>1, <4>4, <5>2
        <5> QED
          BY <2>3, <2>5, <4>4, <5>1, <5>2
      <4>5. stage'[c] = "ask" /\ Shown(i)' = Shown(i) /\ Running(i)' = Running(i) /\ login' = login
        BY <1>1, <1>3, <4>1
      <4> QED
        BY <4>2, <4>3, <4>4, <4>5 DEF IDEIsCurrent
    <3> QED
      BY <1>1, <3>4 DEF CallIsCurrent
  <2> QED
    BY <1>1, <2>5, <2>6, OwnStepKeeps
<1> QED
  BY <1>4, <1>5

LEMMA LostKeeps ==
  ASSUME LSInv, NEW c \in SnapCalls, NEW p \in Servers, RequestLost(c, p) PROVE LSInv'
<1>1. /\ stage[c] \in {"probe", "ask"} /\ c \in Calling /\ Happens(p.ide) /\ p.ide \in IDEs
      /\ left' = [left EXCEPT ![c] = left[c] \ {p}]
      /\ UNCHANGED <<answering, login, conns, fresh, stage, active, results, together>>
  BY ServerIs DEF RequestLost, world, Calling
<1>2. LSTypeOK' /\ left'[c] = left[c] \ {p}
  BY <1>1, HappensTyped DEF LSInv, LSTypeOK
<1>3. \A d \in SnapCalls : touched'[d] = IF d \in Calling THEN touched[d] \cup {p.ide} ELSE {}
  BY <1>1 DEF Happens
<1>4. \A i \in IDEs : Shown(i)' = Shown(i) /\ Running(i)' = Running(i)
  BY <1>1, ShownKeeps DEF Running
<1>5. Calling' = Calling /\ IdleIsClean' /\ OneIsAlone'
  BY <1>1, <1>3 DEF LSInv, Calling, IdleIsClean, OneIsAlone
<1>6. ASSUME NEW d \in Calling \ together PROVE CallIsCurrent(d)'
  <2>1. d = c /\ CallIsCurrent(c)
    BY <1>1, <1>6 DEF LSInv, OneIsAlone
  <2>2. ASSUME NEW i \in IDEs \ touched'[c] PROVE IDEIsCurrent(c, i)'
    <3>1. i \in IDEs \ touched[c] /\ i # p.ide
      BY <1>1, <1>3, <2>2
    <3>2. IDEIsCurrent(c, i) /\ Accounts(c)' = Accounts(c)
      BY <1>1, <2>1, <3>1 DEF CallIsCurrent, Accounts
    <3>3. \A q \in Running(i) : q \in left[c] => q \in left'[c]
      BY <1>2, <3>1 DEF Running
    <3> QED
      BY <1>1, <1>4, <3>1, <3>2, <3>3 DEF IDEIsCurrent
  <2> QED
    BY <1>1, <2>1, <2>2 DEF CallIsCurrent
<1> QED
  BY <1>1, <1>2, <1>5, <1>6 DEF LSInv

LEMMA FetchEndsKeeps ==
  ASSUME LSInv, NEW c \in SnapCalls, EndFetch(c) PROVE LSInv'
<1>1. /\ stage[c] = "ask" /\ c \in Calling /\ left[c] = {} /\ conns' = active[c]
      /\ stage' = [stage EXCEPT ![c] = "done"]
      /\ UNCHANGED <<answering, login, fresh, left, active, results, changes, touched, together>>
  BY DEF EndFetch, world, Calling
<1>2. LSTypeOK' /\ stage'[c] = "done" /\ \A d \in SnapCalls \ {c} : stage'[d] = stage[d]
  BY <1>1 DEF LSInv, LSTypeOK
<1>3. ASSUME c \notin together PROVE CallIsCurrent(c)'
  <2>1. ASSUME NEW i \in IDEs \ touched'[c] PROVE IDEIsCurrent(c, i)'
    <3>1. IDEIsCurrent(c, i) /\ i \in IDEs
      BY <1>1, <1>3, <2>1 DEF LSInv, CallIsCurrent
    <3>2. Shown(i) \subseteq Accounts(c)
      <4> SUFFICES ASSUME Shown(i) # {} PROVE Shown(i) \subseteq Accounts(c)
        OBVIOUS
      <4>1. PICK q \in Servers : q.ide = i /\ q \in answering /\ login[q] # SignedOut
        BY <3>1, ShownIs
      <4>2. q \in Running(i)
        BY <4>1 DEF Running
      <4> QED
        BY <1>1, <3>1, <4>1, <4>2 DEF IDEIsCurrent
    <3>3. Shown(i)' = Shown(i) /\ Accounts(c)' = Accounts(c)
      BY <1>1, <3>1, ShownKeeps DEF Accounts
    <3> QED
      BY <1>1, <1>2, <3>1, <3>2, <3>3 DEF IDEIsCurrent
  <2> QED
    BY <1>2, <2>1 DEF CallIsCurrent
<1> QED
  BY <1>1, <1>2, <1>3, OwnStepKeeps

LEMMA ServersStart == LSInit => LSInv
<1> SUFFICES ASSUME LSInit PROVE LSInv
  OBVIOUS
<1>1. PICK own \in [IDEs -> Logins] : login = [p \in Servers |-> own[p.ide]]
  BY DEF LSInit
<1>2. login \in [Servers -> Logins \cup {SignedOut}]
  BY <1>1, ServerIs
<1>3. LSTypeOK
  <2>1. stage \in [SnapCalls -> {"idle", "detect", "probe", "sort", "ask", "done"}]
    BY DEF LSInit, LSAtRest
  <2> QED
    BY <1>2, <2>1 DEF LSInit, LSAtRest, LSTypeOK
<1>4. Calling = {}
  BY DEF LSInit, LSAtRest, Calling
<1> QED
  BY <1>3, <1>4 DEF LSInit, LSAtRest, LSInv, IdleIsClean, OneIsAlone

LEMMA ServersStep == LSInv /\ [LSNext]_lsVars => LSInv'
<1> SUFFICES ASSUME LSInv, [LSNext]_lsVars PROVE LSInv'
  OBVIOUS
<1>1. CASE UNCHANGED lsVars
  <2>1. UNCHANGED <<answering, login, conns, fresh, stage, left, active, results, changes, touched, together>>
    BY <1>1 DEF lsVars
  <2>2. \A i : Shown(i)' = Shown(i) /\ Running(i)' = Running(i)
    BY <2>1 DEF Shown, Running
  <2>3. \A c : Accounts(c)' = Accounts(c)
    BY <2>1 DEF Accounts
  <2>4. Calling' = Calling /\ LSTypeOK' /\ IdleIsClean' /\ OneIsAlone'
    BY <2>1 DEF LSInv, Calling, LSTypeOK, IdleIsClean, OneIsAlone
  <2>5. \A c \in SnapCalls : CallIsCurrent(c) => CallIsCurrent(c)'
    BY <2>1, <2>2, <2>3 DEF CallIsCurrent, IDEIsCurrent
  <2> QED
    BY <2>1, <2>4, <2>5 DEF LSInv, Calling
<1>2. CASE LSNext
  BY <1>2, SwitchKeeps, StopKeeps, ServerStartKeeps, ProbeKeeps, AskKeeps, LostKeeps, TTLKeeps,
     SnapBeginsKeeps, FindServersKeeps, DetectServersKeeps, SortKeeps, FetchEndsKeeps, SnapEndsKeeps DEF LSNext
<1> QED
  BY <1>1, <1>2

\* However accounts are switched, processes end and start and requests are lost while a
\* snap runs: unless another snap overlaps it, it returns what every IDE shows that
\* nothing happened to, and no account such an IDE's workspace process has kept
\* (client.go, FetchQuotas).
THEOREM AccountsAreAlwaysCurrent == LSSpec => []AccountsAreCurrent
<1>1. LSSpec => []LSInv
  BY ServersStart, ServersStep, PTL DEF LSSpec
<1>2. LSInv => AccountsAreCurrent
  BY DEF LSInv, AccountsAreCurrent, CallIsCurrent, IDEIsCurrent, Calling, Accounts
<1> QED
  BY <1>1, <1>2, PTL

-----------------------------------------------------------------------------
(* The digest batcher (DigestBatcher): every batch size, any alerts and any *)
(* timers; and each step of it is a step of AlertOutbox or none at all.     *)

\* What is remembered of a pending batch is finite, so that counting works.
PendingIsFinite == IsFiniteSet(pending)

\* An alert is in one place: pending or in one of the batches in flight.
OnePlace ==
  /\ pending \cap UNION inFlight = {}
  /\ \A A, B \in inFlight : A # B => A \cap B = {}

BInv == PendingIsFinite /\ BatchBound

-----------------------------------------------------------------------------
\* Every variable keeps its type: the batch, its timers and what has become
\* of earlier batches.
THEOREM TypeCorrect == Spec => []TypeOK
<1> USE BatcherAssumption
<1>1. Init => TypeOK
  BY DEF Init, TypeOK
<1>2. TypeOK /\ [Next]_vars => TypeOK'
  <2> SUFFICES ASSUME TypeOK, [Next]_vars PROVE TypeOK'
    OBVIOUS
  <2> USE DEF TypeOK
  <2>1. ASSUME NEW on \in BOOLEAN, SetEnabled(on) PROVE TypeOK'
    BY <2>1 DEF SetEnabled, FlushBatch
  <2>2. ASSUME NEW a \in Alerts, Decline(a) PROVE TypeOK'
    BY <2>2 DEF Decline
  <2>3. ASSUME NEW a \in Alerts, Add(a) PROVE TypeOK'
    BY <2>3 DEF Add, FlushBatch
  <2>4. ASSUME NEW t \in Timers, TimerFires(t) PROVE TypeOK'
    BY <2>4 DEF TimerFires
  <2>5. ASSUME NEW t \in Timers, TimerFlushes(t) PROVE TypeOK'
    BY <2>5 DEF TimerFlushes, FlushBatch
  <2>6. ASSUME NEW batch \in inFlight, FlushDone(batch) PROVE TypeOK'
    BY <2>6 DEF FlushDone
  <2>7. CASE UNCHANGED vars
    BY <2>7 DEF vars
  <2> QED
    BY <2>1, <2>2, <2>3, <2>4, <2>5, <2>6, <2>7 DEF Next
<1> QED
  BY <1>1, <1>2, PTL DEF Spec

-----------------------------------------------------------------------------
\* While alerts are pending, digest mode is on and their timer will flush
\* them.  It is inductive: whoever forgets the timer takes the batch.
THEOREM NothingStrandedHolds == Spec => []NothingStranded
<1> USE BatcherAssumption
<1>1. Init => NothingStranded
  BY DEF Init, NothingStranded
<1>2. TypeOK /\ NothingStranded /\ [Next]_vars => NothingStranded'
  <2> SUFFICES ASSUME TypeOK, NothingStranded, [Next]_vars
               PROVE  NothingStranded'
    OBVIOUS
  <2> USE DEF TypeOK, NothingStranded
  <2>1. ASSUME NEW on \in BOOLEAN, SetEnabled(on) PROVE NothingStranded'
    BY <2>1 DEF SetEnabled, FlushBatch
  <2>2. ASSUME NEW a \in Alerts, Decline(a) PROVE NothingStranded'
    BY <2>2 DEF Decline
  <2>3. ASSUME NEW a \in Alerts, Add(a) PROVE NothingStranded'
    BY <2>3 DEF Add, FlushBatch
  <2>4. ASSUME NEW t \in Timers, TimerFires(t) PROVE NothingStranded'
    BY <2>4 DEF TimerFires
  <2>5. ASSUME NEW t \in Timers, TimerFlushes(t) PROVE NothingStranded'
    BY <2>5 DEF TimerFlushes, FlushBatch
  <2>6. ASSUME NEW batch \in inFlight, FlushDone(batch)
        PROVE  NothingStranded'
    BY <2>6 DEF FlushDone
  <2>7. CASE UNCHANGED vars
    BY <2>7 DEF vars
  <2> QED
    BY <2>1, <2>2, <2>3, <2>4, <2>5, <2>6, <2>7 DEF Next
<1> QED
  BY <1>1, <1>2, TypeCorrect, PTL DEF Spec

-----------------------------------------------------------------------------
\* A non-empty batch below the limit may be handed over.
LEMMA FlushKeepsBound ==
  ASSUME BInv, NEW batch, FlushBatch(batch),
         Cardinality(batch) \in 1..MaxBatch
  PROVE  BInv'
<1>1. pending' = {} /\ inFlight' = inFlight \cup {batch}
  BY DEF FlushBatch
<1>2. IsFiniteSet(pending') /\ Cardinality(pending') = 0
  BY <1>1, FS_EmptySet
<1> QED
  BY <1>1, <1>2, BatcherAssumption DEF BInv, PendingIsFinite, BatchBound

\* The pending batch, if there is one, may be handed over.
LEMMA PendingCount ==
  ASSUME BInv, pending # {}
  PROVE  Cardinality(pending) \in 1..MaxBatch
<1>1. Cardinality(pending) \in Nat /\ Cardinality(pending) # 0
  BY FS_CardinalityType, FS_EmptySet DEF BInv, PendingIsFinite
<1> QED
  BY <1>1, BatcherAssumption DEF BInv, BatchBound

\* No batch is larger than MaxBatch and none is empty.  A batch stays finite
\* and below the limit because the alert that fills it also empties it.
THEOREM BatchBoundHolds == Spec => []BatchBound
<1> USE BatcherAssumption
<1>1. Init => BInv
  BY FS_EmptySet DEF Init, BInv, PendingIsFinite, BatchBound
<1>2. BInv /\ [Next]_vars => BInv'
  <2> SUFFICES ASSUME BInv, [Next]_vars PROVE BInv'
    OBVIOUS
  <2>1. CASE UNCHANGED <<pending, inFlight>>
    BY <2>1 DEF BInv, PendingIsFinite, BatchBound
  <2>2. CASE pending # {} /\ FlushBatch(pending)
    BY <2>2, PendingCount, FlushKeepsBound
  <2>3. ASSUME NEW on \in BOOLEAN, SetEnabled(on) PROVE BInv'
    BY <2>1, <2>2, <2>3 DEF SetEnabled
  <2>4. ASSUME NEW a \in Alerts, Decline(a) PROVE BInv'
    BY <2>1, <2>4 DEF Decline
  <2>5. ASSUME NEW a \in Alerts, Add(a) PROVE BInv'
    <3> DEFINE batch == pending \cup {a}
    <3>1. a \notin pending
      BY <2>5 DEF Add, Raised
    <3>2. /\ IsFiniteSet(batch)
          /\ Cardinality(batch) = Cardinality(pending) + 1
          /\ Cardinality(pending) \in Nat
      BY <3>1, FS_AddElement, FS_CardinalityType DEF BInv, PendingIsFinite
    <3>3. Cardinality(batch) \in 1..MaxBatch
      BY <3>2 DEF BInv, BatchBound
    <3>4. CASE FlushBatch(batch)
      BY <3>3, <3>4, FlushKeepsBound
    <3>5. CASE ~IsFull(batch) /\ pending' = batch /\ UNCHANGED inFlight
      BY <3>2, <3>5 DEF BInv, PendingIsFinite, BatchBound, IsFull
    <3> QED
      BY <2>5, <3>4, <3>5 DEF Add
  <2>6. ASSUME NEW t \in Timers, TimerFires(t) PROVE BInv'
    BY <2>1, <2>6 DEF TimerFires
  <2>7. ASSUME NEW t \in Timers, TimerFlushes(t) PROVE BInv'
    BY <2>1, <2>2, <2>7 DEF TimerFlushes
  <2>8. ASSUME NEW batch \in inFlight, FlushDone(batch) PROVE BInv'
    BY <2>8 DEF FlushDone, BInv, PendingIsFinite, BatchBound
  <2>9. CASE UNCHANGED vars
    BY <2>1, <2>9 DEF vars
  <2> QED
    BY <2>3, <2>4, <2>5, <2>6, <2>7, <2>8, <2>9 DEF Next
<1>3. BInv => BatchBound
  BY DEF BInv
<1> QED
  BY <1>1, <1>2, <1>3, PTL DEF Spec

-----------------------------------------------------------------------------
\* No alert is in two batches, even when a late timer, the switch and a full
\* batch take what is pending one after the other.
THEOREM OnePlaceHolds == Spec => []OnePlace
<1>1. Init => OnePlace
  BY DEF Init, OnePlace
<1>2. OnePlace /\ [Next]_vars => OnePlace'
  <2> SUFFICES ASSUME OnePlace, [Next]_vars PROVE OnePlace'
    OBVIOUS
  <2> USE DEF OnePlace
  <2>1. ASSUME NEW on \in BOOLEAN, SetEnabled(on) PROVE OnePlace'
    BY <2>1 DEF SetEnabled, FlushBatch
  <2>2. ASSUME NEW a \in Alerts, Decline(a) PROVE OnePlace'
    BY <2>2 DEF Decline
  <2>3. ASSUME NEW a \in Alerts, Add(a) PROVE OnePlace'
    <3>1. a \notin pending /\ a \notin UNION inFlight
      BY <2>3 DEF Add, Raised
    <3>2. CASE FlushBatch(pending \cup {a})
      <4>1. pending' = {} /\ inFlight' = inFlight \cup {pending \cup {a}}
        BY <3>2 DEF FlushBatch
      <4>2. \A A \in inFlight : A \cap (pending \cup {a}) = {}
        BY <3>1
      <4> QED
        BY <4>1, <4>2
    <3>3. CASE pending' = pending \cup {a} /\ UNCHANGED inFlight
      BY <3>1, <3>3
    <3> QED
      BY <2>3, <3>2, <3>3 DEF Add
  <2>4. ASSUME NEW t \in Timers, TimerFires(t) PROVE OnePlace'
    BY <2>4 DEF TimerFires
  <2>5. ASSUME NEW t \in Timers, TimerFlushes(t) PROVE OnePlace'
    BY <2>5 DEF TimerFlushes, FlushBatch
  <2>6. ASSUME NEW batch \in inFlight, FlushDone(batch) PROVE OnePlace'
    BY <2>6 DEF FlushDone
  <2>7. CASE UNCHANGED vars
    BY <2>7 DEF vars
  <2> QED
    BY <2>1, <2>2, <2>3, <2>4, <2>5, <2>6, <2>7 DEF Next
<1> QED
  BY <1>1, <1>2, PTL DEF Spec

-----------------------------------------------------------------------------
\* The safety half of KeepsOutboxPromise: Add accepts an alert, the end of a
\* delivery is the Deliver of its batch, everything else changes nothing.
THEOREM StepsAreOutboxSteps ==
  Spec => /\ Outbox!OutboxInit
          /\ [][Outbox!OutboxNext]_(Outbox!outboxVars)
<1> DEFINE waiting == pending \cup UNION inFlight
<1>1. Init => Outbox!OutboxInit
  BY DEF Init, Outbox!OutboxInit
<1>2. TypeOK /\ BatchBound /\ OnePlace /\ [Next]_vars
        => [Outbox!OutboxNext]_(Outbox!outboxVars)
  <2> SUFFICES ASSUME TypeOK, BatchBound, OnePlace, [Next]_vars
               PROVE  \/ Outbox!OutboxNext
                      \/ waiting' = waiting /\ delivered' = delivered
    BY DEF Outbox!outboxVars
  <2>1. CASE FlushBatch(pending) /\ UNCHANGED delivered
    BY <2>1 DEF FlushBatch
  <2>2. CASE UNCHANGED <<pending, inFlight, delivered>>
    BY <2>2
  <2>3. ASSUME NEW a \in Alerts, Add(a) PROVE Outbox!OutboxNext
    <3>1. a \notin Raised
      BY <2>3 DEF Add
    <3>2. waiting' = waiting \cup {a} /\ delivered' = delivered
      BY <2>3 DEF Add, FlushBatch
    <3>3. Outbox!Accept(a)
      BY <3>1, <3>2 DEF Outbox!Accept, Raised
    <3> QED
      BY <3>3 DEF Outbox!OutboxNext
  <2>4. ASSUME NEW batch \in inFlight, FlushDone(batch)
        PROVE  Outbox!OutboxNext
    <3>1. batch # {} /\ Cardinality(batch) <= MaxBatch
      BY FS_EmptySet DEF BatchBound
    <3>2. waiting' = waiting \ batch
      BY <2>4 DEF FlushDone, OnePlace
    <3>3. Outbox!Deliver(batch)
      <4>1. delivered' = delivered \cup batch
        BY <2>4 DEF FlushDone
      <4>2. Outbox!Cardinality(batch) = Cardinality(batch)
        BY Zenon DEF Outbox!Cardinality, Cardinality
      <4> QED
        BY <3>1, <3>2, <4>1, <4>2 DEF Outbox!Deliver
    <3>4. batch \in SUBSET waiting
      OBVIOUS
    <3> QED
      BY <3>3, <3>4 DEF Outbox!OutboxNext
  <2>5. CASE \E on \in BOOLEAN : SetEnabled(on)
    BY <2>1, <2>2, <2>5 DEF SetEnabled
  <2>6. CASE \E t \in Timers : TimerFires(t) \/ TimerFlushes(t)
    BY <2>1, <2>2, <2>6 DEF TimerFires, TimerFlushes
  <2>7. CASE \E a \in Alerts : Decline(a)
    BY <2>2, <2>7 DEF Decline
  <2>8. CASE UNCHANGED vars
    BY <2>2, <2>8 DEF vars
  <2> QED
    BY <2>3, <2>4, <2>5, <2>6, <2>7, <2>8 DEF Next
<1> QED
  BY <1>1, <1>2, TypeCorrect, BatchBoundHolds, OnePlaceHolds, PTL DEF Spec
=============================================================================
