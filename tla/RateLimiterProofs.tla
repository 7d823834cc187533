-------------------------- MODULE RateLimiterProofs --------------------------
(***************************************************************************)
(* What the limiter operators of peer_config.rs do to the level of a       *)
(* limiter, for every u64 bound.                                           *)
(***************************************************************************)
EXTENDS RateLimiter, TLAPS

\* The saturating arithmetic of refill is invisible: a capacity is a u64, so
\* the bucket is full before any intermediate can saturate.
LEMMA RefillFacts ==
    ASSUME NEW l \in Limiter, NEW extra \in U64, NEW t \in Nat,
           l.last_refill_time <= t
    PROVE  /\ refill(l, extra, t) \in Limiter
           /\ refill(l, extra, t).capacity = l.capacity
           /\ refill(l, extra, t).refill_per_second = l.refill_per_second
           /\ refill(l, extra, t).last_refill_time = t
           /\ refill(l, extra, t).tokens =
                MinOf(l.capacity,
                      l.tokens + extra + (t - l.last_refill_time) * l.refill_per_second)
<1>1. /\ l.capacity \in U64 /\ l.tokens \in U64
      /\ l.refill_per_second \in U64 /\ l.last_refill_time \in Nat
  BY DEF Limiter
<1> DEFINE owed == (t - l.last_refill_time) * l.refill_per_second
           new_tokens == IF t > l.last_refill_time
                         THEN saturating_add(extra, saturating_mul(t - l.last_refill_time,
                                                                   l.refill_per_second))
                         ELSE extra
           level == MinOf(l.capacity, saturating_add(l.tokens, new_tokens))
<1>2. refill(l, extra, t) = [l EXCEPT !.tokens = level, !.last_refill_time = t]
  BY DEF refill
<1>3. owed \in Nat
  <2>1. t - l.last_refill_time \in Nat /\ l.refill_per_second \in Nat
    BY <1>1, U64Assumption DEF U64
  <2> QED
    BY <2>1
<1>4. t = l.last_refill_time => owed = 0
  BY <1>1, U64Assumption DEF U64
<1>5. saturating_mul(t - l.last_refill_time, l.refill_per_second) = MinOf(U64Max, owed)
  BY DEF saturating_mul
<1> HIDE DEF owed
<1>6. new_tokens = MinOf(U64Max, extra + owed)
  BY <1>1, <1>3, <1>4, <1>5, U64Assumption DEF saturating_add, MinOf, U64
<1> HIDE DEF new_tokens
<1>7. level = MinOf(l.capacity, l.tokens + extra + owed) /\ level \in U64
  BY <1>1, <1>3, <1>6, U64Assumption DEF saturating_add, MinOf, U64
<1> HIDE DEF level
<1>8. refill(l, extra, t) \in Limiter
  BY <1>1, <1>2, <1>7 DEF Limiter
<1> QED
  BY <1>1, <1>2, <1>7, <1>8 DEF Limiter, owed

\* Right after it is brought up to date, a limiter's level is its tokens.
LEMMA LevelWhenFresh ==
    ASSUME NEW l \in Limiter, l.tokens <= l.capacity
    PROVE  Level(l, l.last_refill_time) = l.tokens
<1>1. /\ l.capacity \in Nat /\ l.tokens \in Nat /\ l.refill_per_second \in Nat
      /\ l.last_refill_time \in Nat
  BY U64Assumption DEF Limiter, U64
<1>2. (l.last_refill_time - l.last_refill_time) * l.refill_per_second = 0
  BY <1>1
<1> QED
  BY <1>1, <1>2 DEF Level, MinOf

\* What Level becomes right after a refill with extra tokens.
LEMMA RefillLevel ==
    ASSUME NEW l \in Limiter, NEW extra \in U64, NEW t \in Nat,
           l.last_refill_time <= t
    PROVE  /\ Level(l, t) \in 0..l.capacity
           /\ refill(l, extra, t).tokens = MinOf(l.capacity, Level(l, t) + extra)
           /\ Level(refill(l, extra, t), t) = MinOf(l.capacity, Level(l, t) + extra)
<1> DEFINE owed == (t - l.last_refill_time) * l.refill_per_second
<1>1. /\ l.capacity \in Nat /\ l.tokens \in Nat /\ extra \in Nat
      /\ l.refill_per_second \in Nat /\ t - l.last_refill_time \in Nat
  BY U64Assumption DEF Limiter, U64
<1>2. owed \in Nat
  BY <1>1
<1>3. refill(l, extra, t).tokens = MinOf(l.capacity, l.tokens + extra + owed)
  BY RefillFacts
<1>4. Level(l, t) = MinOf(l.capacity, l.tokens + owed)
  BY DEF Level
<1> HIDE DEF owed
<1>5. Level(l, t) \in 0..l.capacity
  BY <1>1, <1>2, <1>4 DEF MinOf
<1>6. refill(l, extra, t).tokens = MinOf(l.capacity, Level(l, t) + extra)
  BY <1>1, <1>2, <1>3, <1>4 DEF MinOf
<1>7. refill(l, extra, t).tokens \in 0..l.capacity
  BY <1>1, <1>5, <1>6 DEF MinOf
<1>8. Level(refill(l, extra, t), t) = refill(l, extra, t).tokens
  BY RefillFacts, <1>7, LevelWhenFresh
<1> QED
  BY <1>5, <1>6, <1>8

\* One more second owes one more refill_per_second.
LEMMA TickLevel ==
    ASSUME NEW l \in Limiter, NEW t \in Nat, l.last_refill_time <= t
    PROVE  Level(l, t + 1) = MinOf(l.capacity, Level(l, t) + l.refill_per_second)
<1> DEFINE owed == (t - l.last_refill_time) * l.refill_per_second
<1>1. /\ l.capacity \in Nat /\ l.tokens \in Nat /\ l.refill_per_second \in Nat
      /\ l.last_refill_time \in Nat /\ t - l.last_refill_time \in Nat
  BY U64Assumption DEF Limiter, U64
<1>2. owed \in Nat
  BY <1>1
<1>3. ((t + 1) - l.last_refill_time) * l.refill_per_second = owed + l.refill_per_second
  <2>1. ASSUME NEW d \in Nat, NEW q \in Nat
        PROVE  (d + 1) * q = d * q + q
    OBVIOUS
  <2>2. (t + 1) - l.last_refill_time = (t - l.last_refill_time) + 1
    BY <1>1
  <2> QED
    BY <1>1, <2>1, <2>2
<1>4. Level(l, t) = MinOf(l.capacity, l.tokens + owed)
  BY DEF Level
<1>5. Level(l, t + 1) = MinOf(l.capacity, l.tokens + (owed + l.refill_per_second))
  BY <1>3 DEF Level
<1> HIDE DEF owed
<1> QED
  BY <1>1, <1>2, <1>4, <1>5 DEF MinOf

\* try_consume takes exactly amount from the level.
LEMMA ConsumeFacts ==
    ASSUME NEW l, NEW t \in Nat, LimiterOK(l, t), NEW amount \in U64,
           can_consume(l, amount, t)
    PROVE  LET c == try_consume(l, amount, t)
           IN  /\ LimiterOK(c, t)
               /\ c.capacity = l.capacity
               /\ c.refill_per_second = l.refill_per_second
               /\ amount <= Level(l, t)
               /\ Level(l, t) \in 0..l.capacity
               /\ Level(c, t) = Level(l, t) - amount
<1> DEFINE r == refill(l, 0, t)
           c == try_consume(l, amount, t)
<1>1. 0 \in U64
  BY U64Assumption DEF U64
<1>2. /\ r \in Limiter /\ r.capacity = l.capacity
      /\ r.refill_per_second = l.refill_per_second /\ r.last_refill_time = t
  BY <1>1, RefillFacts DEF LimiterOK
<1>3. /\ Level(l, t) \in 0..l.capacity
      /\ r.tokens = MinOf(l.capacity, Level(l, t) + 0)
  BY <1>1, RefillLevel DEF LimiterOK
<1>4. l.capacity \in Nat /\ l.capacity <= U64Max /\ amount \in Nat
  BY U64Assumption DEF LimiterOK, Limiter, U64
<1>5. r.tokens = Level(l, t)
  BY <1>3, <1>4 DEF MinOf
<1>6. amount <= r.tokens
  BY DEF can_consume
<1>7. c = [r EXCEPT !.tokens = r.tokens - amount]
  BY DEF try_consume
<1> HIDE DEF r
<1>8. r.tokens - amount \in U64
  BY <1>3, <1>4, <1>5, <1>6, U64Assumption DEF U64
<1>9. /\ c \in Limiter /\ c.tokens = Level(l, t) - amount /\ c.capacity = l.capacity
      /\ c.refill_per_second = l.refill_per_second /\ c.last_refill_time = t
  BY <1>2, <1>5, <1>7, <1>8 DEF Limiter
<1> HIDE DEF c
<1>10. c.tokens <= c.capacity
  BY <1>3, <1>4, <1>9
<1>11. Level(c, t) = c.tokens
  BY <1>9, <1>10, LevelWhenFresh
<1>12. LimiterOK(c, t)
  BY <1>9, <1>10 DEF LimiterOK
<1> QED
  BY <1>3, <1>5, <1>6, <1>9, <1>11, <1>12 DEF c

\* set_capacity fills the bucket, set_rate keeps the level it had reached.
LEMMA SetFacts ==
    ASSUME NEW l, NEW t \in Nat, LimiterOK(l, t), NEW x \in U64
    PROVE  /\ LimiterOK(set_capacity(l, x, t), t)
           /\ set_capacity(l, x, t).capacity = x
           /\ set_capacity(l, x, t).refill_per_second = l.refill_per_second
           /\ Level(set_capacity(l, x, t), t) = x
           /\ LimiterOK(set_rate(l, x, t), t)
           /\ set_rate(l, x, t).capacity = l.capacity
           /\ set_rate(l, x, t).refill_per_second = x
           /\ Level(set_rate(l, x, t), t) = Level(l, t)
<1> DEFINE k == set_capacity(l, x, t)
           r == refill(l, 0, t)
           s == set_rate(l, x, t)
<1>1. 0 \in U64 /\ x \in Nat
  BY U64Assumption DEF U64
<1>2. k = [l EXCEPT !.capacity = x, !.tokens = x, !.last_refill_time = t]
  BY DEF set_capacity
<1>3. /\ k \in Limiter /\ k.capacity = x /\ k.tokens = x
      /\ k.last_refill_time = t /\ k.refill_per_second = l.refill_per_second
  BY <1>2 DEF LimiterOK, Limiter
<1>4. LimiterOK(k, t) /\ Level(k, t) = x
  BY <1>1, <1>3, LevelWhenFresh DEF LimiterOK
<1>5. r \in Limiter /\ r.capacity = l.capacity /\ r.last_refill_time = t
  BY <1>1, RefillFacts DEF LimiterOK
<1>6. /\ Level(l, t) \in 0..l.capacity
      /\ r.tokens = MinOf(l.capacity, Level(l, t) + 0)
  BY <1>1, RefillLevel DEF LimiterOK
<1>7. l.capacity \in Nat
  BY U64Assumption DEF LimiterOK, Limiter, U64
<1>8. r.tokens = Level(l, t) /\ r.tokens <= l.capacity
  BY <1>6, <1>7 DEF MinOf
<1>9. s = [r EXCEPT !.refill_per_second = x]
  BY DEF set_rate
<1>10. /\ s \in Limiter /\ s.capacity = l.capacity /\ s.tokens = r.tokens
       /\ s.last_refill_time = t /\ s.refill_per_second = x
  <2> HIDE DEF r
  <2> QED
    BY <1>5, <1>9 DEF Limiter
<1>11. LimiterOK(s, t) /\ Level(s, t) = Level(l, t)
  BY <1>8, <1>10, LevelWhenFresh DEF LimiterOK
<1> QED
  BY <1>3, <1>4, <1>10, <1>11

\* update_rate_limiter: a given capacity fills the bucket, a given rate leaves
\* the level alone, a first configuration starts from the empty bucket.
LEMMA UpdateFacts ==
    ASSUME NEW lim, NEW t \in Nat, lim = None \/ LimiterOK(lim, t),
           NEW params, params # None,
           params.capacity \in U64 \cup {None},
           params.refill_per_second \in U64 \cup {None}
    PROVE  LET u  == update_rate_limiter(lim, params, t)
               l0 == IF lim = None THEN DefaultLimiter ELSE lim
           IN  /\ LimiterOK(u, t)
               /\ LimiterOK(l0, t)
               /\ u.capacity = IF params.capacity = None THEN l0.capacity
                                                         ELSE params.capacity
               /\ u.refill_per_second = IF params.refill_per_second = None
                                        THEN l0.refill_per_second
                                        ELSE params.refill_per_second
               /\ Level(u, t) = IF params.capacity = None THEN Level(l0, t)
                                                          ELSE params.capacity
<1> DEFINE l0 == IF lim = None THEN DefaultLimiter ELSE lim
           l1 == IF params.capacity = None THEN l0
                 ELSE set_capacity(l0, params.capacity, t)
           u  == update_rate_limiter(lim, params, t)
<1>1. /\ params.capacity # None => params.capacity \in U64
      /\ params.refill_per_second # None => params.refill_per_second \in U64
  OBVIOUS
<1>2. LimiterOK(l0, t)
  BY U64Assumption DEF LimiterOK, DefaultLimiter, Limiter, U64
<1> HIDE DEF l0
<1>3. /\ LimiterOK(l1, t)
      /\ l1.capacity = IF params.capacity = None THEN l0.capacity ELSE params.capacity
      /\ l1.refill_per_second = l0.refill_per_second
      /\ Level(l1, t) = IF params.capacity = None THEN Level(l0, t) ELSE params.capacity
  BY <1>1, <1>2, SetFacts
<1> HIDE DEF l1
<1>4. u = IF params.refill_per_second = None THEN l1
          ELSE set_rate(l1, params.refill_per_second, t)
  BY DEF update_rate_limiter, l0, l1
<1> HIDE DEF u
<1>5. /\ LimiterOK(u, t)
      /\ u.capacity = l1.capacity
      /\ u.refill_per_second = IF params.refill_per_second = None
                               THEN l0.refill_per_second ELSE params.refill_per_second
      /\ Level(u, t) = Level(l1, t)
  BY <1>1, <1>3, <1>4, SetFacts
<1> QED
  BY <1>2, <1>3, <1>5 DEF u, l0

\* The empty bucket has nothing to give.
LEMMA DefaultLevel ==
    ASSUME NEW t \in Nat
    PROVE  Level(DefaultLimiter, t) = 0
<1>1. (t - 0) * 0 = 0
  OBVIOUS
<1> QED
  BY <1>1 DEF Level, DefaultLimiter, MinOf

=============================================================================
