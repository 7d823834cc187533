-------------------------- MODULE PeerLimiterProofs --------------------------
(***************************************************************************)
(* Proofs about one rate limiter, for every u64 bound, set of amounts and  *)
(* set of limits: type correctness, the throughput bound and the           *)
(* refinement of the eager TokenBucket.                                    *)
(***************************************************************************)
EXTENDS PeerLimiter, RateLimiterProofs

-----------------------------------------------------------------------------
(* The invariant.                                                          *)

\* Inv is preserved by every step.
LEMMA InvStep ==
    Inv /\ [Next]_vars => Inv'
<1> SUFFICES ASSUME Inv, [Next]_vars PROVE Inv'
  OBVIOUS
<1> USE DEF Inv
<1>1. /\ limiter # None => LimiterOK(limiter, now)
      /\ now \in Nat /\ used \in Nat /\ budget \in Nat
  BY DEF TypeOK, LimiterOK
<1>2. SUFFICES /\ now' \in Nat /\ used' \in Nat /\ budget' \in Nat
               /\ limiter' # None => /\ LimiterOK(limiter', now')
                                     /\ used' + Level(limiter', now') <= budget'
  BY DEF TypeOK, LimiterOK
<1>l. limiter # None => /\ Level(limiter, now) \in 0..limiter.capacity
                        /\ limiter.capacity \in Nat
                        /\ limiter.refill_per_second \in Nat
                        /\ used + Level(limiter, now) <= budget
  <2>1. 0 \in U64
    BY U64Assumption DEF U64
  <2> QED
    BY <1>1, <2>1, U64Assumption, RefillLevel DEF LimiterOK, Limiter, U64
<1>3. ASSUME NEW params \in Params, Configure(params)
      PROVE  <1>2!1
  <2>1. CASE params = None
    BY <1>1, <1>3, <2>1 DEF Configure, update_rate_limiter
  <2>2. CASE params # None
    <3> DEFINE l0 == IF limiter = None THEN DefaultLimiter ELSE limiter
    <3>0. /\ params.capacity \in U64 \cup {None}
          /\ params.refill_per_second \in U64 \cup {None}
      BY <2>2, LimitsAssumption DEF Params
    <3>1. /\ LimiterOK(limiter', now)
          /\ Level(limiter', now) = IF params.capacity = None THEN Level(l0, now)
                                                              ELSE params.capacity
      BY <1>1, <1>3, <2>2, <3>0, UpdateFacts DEF Configure
    <3>2. params.capacity # None => params.capacity \in Nat
      BY <2>2, LimitsAssumption, U64Assumption DEF Params, U64
    <3>3. CASE params.capacity # None
      <4>1. /\ used' = 0 /\ budget' = params.capacity
            \/ /\ limiter # None
               /\ used' = used /\ budget' = budget + params.capacity
        BY <1>3, <2>2, <3>3 DEF Configure
      <4>2. limiter # None => used <= budget
        BY <1>1, <1>l
      <4> QED
        BY <1>1, <1>3, <2>2, <3>1, <3>2, <3>3, <4>1, <4>2 DEF Configure
    <3>4. CASE params.capacity = None /\ limiter # None
      <4>1. used' = used /\ budget' = budget
        BY <1>1, <1>3, <2>2, <3>4 DEF Configure
      <4> QED
        BY <1>1, <1>l, <1>3, <3>1, <3>4, <4>1 DEF Configure
    <3>5. CASE params.capacity = None /\ limiter = None
      <4>1. Level(limiter', now) = 0
        BY <1>1, <3>1, <3>5, DefaultLevel
      <4> QED
        BY <1>1, <1>3, <2>2, <3>1, <3>5, <4>1 DEF Configure
    <3> QED
      BY <3>3, <3>4, <3>5
  <2> QED
    BY <2>1, <2>2
<1>4. ASSUME NEW amount \in Amounts, Consume(amount)
      PROVE  <1>2!1
  <2>1. amount \in U64 /\ amount \in Nat
    BY AmountsAssumption, U64Assumption DEF U64
  <2>2. limiter' = try_consume(limiter, amount, now) /\ can_consume(limiter, amount, now)
    BY <1>4 DEF Consume, consumed, limit_allows
  <2>3. LimiterOK(limiter', now) /\ Level(limiter', now) = Level(limiter, now) - amount
    BY <1>1, <1>4, <2>1, <2>2, ConsumeFacts DEF Consume
  <2> QED
    BY <1>1, <1>l, <1>4, <2>1, <2>3 DEF Consume
<1>5. ASSUME NEW amount \in Amounts, GiveBack(amount)
      PROVE  <1>2!1
  <2>1. amount \in U64 /\ amount \in Nat
    BY AmountsAssumption, U64Assumption DEF U64
  <2>2. limiter # None /\ limiter' = refill(limiter, amount, now)
    BY <1>5 DEF GiveBack, refilled
  <2>3. /\ limiter' \in Limiter /\ limiter'.last_refill_time = now
        /\ limiter'.capacity = limiter.capacity
    BY <1>1, <2>1, <2>2, RefillFacts DEF LimiterOK
  <2>4. /\ limiter'.tokens = MinOf(limiter.capacity, Level(limiter, now) + amount)
        /\ Level(limiter', now) = MinOf(limiter.capacity, Level(limiter, now) + amount)
    BY <1>1, <2>1, <2>2, RefillLevel DEF LimiterOK
  <2>5. limiter'.tokens <= limiter.capacity
        /\ Level(limiter', now) <= Level(limiter, now) + amount
        /\ Level(limiter', now) \in Nat
    BY <1>l, <2>1, <2>2, <2>4 DEF MinOf
  <2>6. LimiterOK(limiter', now)
    BY <1>1, <2>3, <2>5 DEF LimiterOK
  <2> QED
    BY <1>1, <1>l, <1>5, <2>1, <2>2, <2>5, <2>6 DEF GiveBack
<1>6. ASSUME Tick
      PROVE  <1>2!1
  <2>1. CASE limiter = None
    BY <1>1, <1>6, <2>1 DEF Tick
  <2>2. CASE limiter # None
    <3>1. Level(limiter, now + 1)
            = MinOf(limiter.capacity, Level(limiter, now) + limiter.refill_per_second)
      BY <1>1, <2>2, TickLevel DEF LimiterOK
    <3>2. /\ Level(limiter, now + 1) <= Level(limiter, now) + limiter.refill_per_second
          /\ Level(limiter, now + 1) \in Nat
      BY <1>l, <2>2, <3>1 DEF MinOf
    <3>3. LimiterOK(limiter, now + 1)
      BY <1>1, <2>2 DEF LimiterOK, Limiter
    <3> QED
      BY <1>1, <1>l, <1>6, <2>2, <3>2, <3>3 DEF Tick
  <2> QED
    BY <2>1, <2>2
<1>7. ASSUME Observe
      PROVE  <1>2!1
  BY <1>1, <1>l, <1>7 DEF Observe
<1>8. ASSUME UNCHANGED vars
      PROVE  <1>2!1
  BY <1>1, <1>l, <1>8 DEF vars
<1> QED
  BY <1>3, <1>4, <1>5, <1>6, <1>7, <1>8 DEF Next

\* Types, and the invariant behind the throughput bound, hold always.
THEOREM LimiterInv == Spec => []Inv
<1>1. Init => Inv
  BY DEF Init, Inv, TypeOK
<1> QED
  BY <1>1, InvStep, PTL DEF Spec

\* The fields of the limiter stay u64s and its clock a time, whatever the
\* order of transfers and reconfigurations.
THEOREM LimiterTypeOK == Spec => []TypeOK
<1>1. Inv => TypeOK
  BY DEF Inv
<1> QED
  BY <1>1, LimiterInv, PTL

\* No window moves more than one capacity plus the refill of its seconds plus
\* what came back plus the capacities set inside it (try_consume, refill,
\* set_rate, set_capacity).
THEOREM LimiterThroughput == Spec => []ThroughputBound
<1>1. Inv => ThroughputBound
  <2> SUFFICES ASSUME Inv, limiter # None PROVE used <= budget
    BY DEF ThroughputBound
  <2>1. limiter \in Limiter /\ limiter.last_refill_time <= now /\ 0 \in U64
    BY U64Assumption DEF Inv, TypeOK, U64
  <2>2. Level(limiter, now) \in Nat
    BY <2>1, RefillLevel, U64Assumption DEF Inv, TypeOK, Limiter, U64
  <2> QED
    BY <2>2 DEF Inv, TypeOK
<1> QED
  BY <1>1, LimiterInv, PTL

-----------------------------------------------------------------------------
(* Refinement.                                                             *)

\* A step of the lazy limiter is a step, or a stutter, of the eager bucket.
LEMMA BucketStep ==
    Inv /\ Inv' /\ [Next]_vars => [Abs!Next]_bucket
<1> SUFFICES ASSUME Inv, Inv', [Next]_vars PROVE [Abs!Next]_bucket
  OBVIOUS
<1>1. /\ limiter # None => LimiterOK(limiter, now)
      /\ limiter' # None => LimiterOK(limiter', now')
      /\ now \in Nat
  BY DEF Inv, TypeOK, LimiterOK
<1>2. ASSUME NEW l, NEW t \in Nat, LimiterOK(l, t)
      PROVE  [capacity |-> l.capacity, level |-> Level(l, t),
              rate |-> l.refill_per_second] # None
  <2>1. 0 \in U64
    BY U64Assumption DEF U64
  <2>2. Level(l, t) \in Nat
    BY <1>2, <2>1, RefillLevel, U64Assumption DEF LimiterOK, Limiter, U64
  <2> QED
    BY <1>2, <2>2, NoneAssumption DEF LimiterOK, Limiter
<1>3. ASSUME NEW params \in Params, Configure(params)
      PROVE  Abs!Next
  <2>1. CASE params = None
    <3>1. bucket' = None
      BY <1>3, <2>1 DEF Configure, update_rate_limiter, bucket
    <3> QED
      BY <3>1 DEF Abs!Next, Abs!Reconfigure, Abs!Remove
  <2>2. CASE params # None
    <3> DEFINE l0 == IF limiter = None THEN DefaultLimiter ELSE limiter
    <3>0. /\ params.capacity \in U64 \cup {None}
          /\ params.refill_per_second \in U64 \cup {None}
      BY <2>2, LimitsAssumption DEF Params
    <3>1. /\ LimiterOK(limiter', now)
          /\ limiter'.capacity = IF params.capacity = None THEN l0.capacity
                                                           ELSE params.capacity
          /\ limiter'.refill_per_second = IF params.refill_per_second = None
                                          THEN l0.refill_per_second
                                          ELSE params.refill_per_second
          /\ Level(limiter', now) = IF params.capacity = None THEN Level(l0, now)
                                                              ELSE params.capacity
      BY <1>1, <1>3, <2>2, <3>0, UpdateFacts DEF Configure
    <3>2. /\ params.capacity \in Limits \cup {None}
          /\ params.refill_per_second \in Limits \cup {None}
      BY <2>2 DEF Params
    <3>3. limiter' # None /\ now' = now
      BY <1>3, <3>1, NoneAssumption DEF Configure, LimiterOK
    <3>4. bucket' = [capacity |-> limiter'.capacity, level |-> Level(limiter', now),
                     rate |-> limiter'.refill_per_second]
      BY <3>3 DEF bucket
    <3> DEFINE b0 == IF bucket = None THEN Abs!Empty ELSE bucket
    <3>5. b0 = [capacity |-> l0.capacity, level |-> Level(l0, now),
                rate |-> l0.refill_per_second]
      <4>1. CASE limiter = None
        BY <1>1, <4>1, DefaultLevel DEF bucket, Abs!Empty, DefaultLimiter
      <4>2. CASE limiter # None
        BY <1>1, <1>2, <4>2 DEF bucket
      <4> QED
        BY <4>1, <4>2
    <3> HIDE DEF l0
    <3>6. Abs!Configure(params.capacity, params.refill_per_second)
      <4> DEFINE b1 == IF params.capacity = None THEN b0
                       ELSE [b0 EXCEPT !.capacity = params.capacity,
                                       !.level = params.capacity]
      <4> HIDE DEF b0
      <4>1. b1 = [capacity |-> limiter'.capacity, level |-> Level(limiter', now),
                  rate |-> l0.refill_per_second]
        BY <3>1, <3>5
      <4>2. bucket' = IF params.refill_per_second = None THEN b1
                      ELSE [b1 EXCEPT !.rate = params.refill_per_second]
        <5> HIDE DEF b1
        <5> QED
          BY <3>1, <3>4, <4>1
      <4> QED
        BY <4>2 DEF Abs!Configure, b0
    <3> QED
      BY <3>2, <3>6 DEF Abs!Next, Abs!Reconfigure
  <2> QED
    BY <2>1, <2>2
<1>4. ASSUME NEW amount \in Amounts, Consume(amount)
      PROVE  Abs!Next
  <2>1. amount \in U64 /\ amount \in Nat
    BY AmountsAssumption, U64Assumption DEF U64
  <2>2. /\ limiter # None /\ now' = now
        /\ limiter' = try_consume(limiter, amount, now)
        /\ can_consume(limiter, amount, now)
    BY <1>4 DEF Consume, consumed, limit_allows
  <2>3. /\ LimiterOK(limiter', now) /\ Level(limiter', now) = Level(limiter, now) - amount
        /\ limiter'.capacity = limiter.capacity
        /\ limiter'.refill_per_second = limiter.refill_per_second
        /\ amount <= Level(limiter, now)
    BY <1>1, <2>1, <2>2, ConsumeFacts
  <2>4. limiter' # None
    BY <2>3, NoneAssumption DEF LimiterOK
  <2>5. bucket # None /\ bucket.level = Level(limiter, now)
    BY <1>1, <1>2, <2>2 DEF bucket
  <2>6. bucket' = [bucket EXCEPT !.level = bucket.level - amount]
    BY <2>2, <2>3, <2>4 DEF bucket
  <2>7. Abs!Consume(amount)
    BY <2>1, <2>3, <2>5, <2>6 DEF Abs!Consume, Abs!SetLevel
  <2> QED
    BY <2>7 DEF Abs!Next
<1>5. ASSUME NEW amount \in Amounts, GiveBack(amount)
      PROVE  Abs!Next
  <2>1. amount \in U64 /\ amount \in Nat
    BY AmountsAssumption, U64Assumption DEF U64
  <2>2. limiter # None /\ now' = now /\ limiter' = refill(limiter, amount, now)
    BY <1>5 DEF GiveBack, refilled
  <2>3. /\ limiter' \in Limiter
        /\ limiter'.capacity = limiter.capacity
        /\ limiter'.refill_per_second = limiter.refill_per_second
    BY <1>1, <2>1, <2>2, RefillFacts DEF LimiterOK
  <2>4. Level(limiter', now) = MinOf(limiter.capacity, Level(limiter, now) + amount)
    BY <1>1, <2>1, <2>2, RefillLevel DEF LimiterOK
  <2>5. bucket # None /\ limiter' # None
    BY <1>1, <1>2, <2>2, <2>3, NoneAssumption DEF bucket
  <2>6. bucket' = [bucket EXCEPT !.level =
                     Abs!MinLevel(bucket.capacity, bucket.level + amount)]
    BY <2>2, <2>3, <2>4, <2>5 DEF bucket, MinOf, Abs!MinLevel
  <2>7. Abs!GiveBack(amount)
    BY <2>5, <2>6 DEF Abs!GiveBack, Abs!SetLevel
  <2> QED
    BY <2>7 DEF Abs!Next
<1>6. ASSUME Tick
      PROVE  [Abs!Next]_bucket
  <2>1. CASE limiter = None
    BY <1>6, <2>1 DEF Tick, bucket
  <2>2. CASE limiter # None
    <3>1. Level(limiter, now + 1)
            = MinOf(limiter.capacity, Level(limiter, now) + limiter.refill_per_second)
      BY <1>1, <2>2, TickLevel DEF LimiterOK
    <3>2. bucket # None /\ limiter' = limiter /\ now' = now + 1
      BY <1>1, <1>2, <1>6, <2>2 DEF bucket, Tick
    <3>3. bucket' = [bucket EXCEPT !.level =
                       Abs!MinLevel(bucket.capacity, bucket.level + bucket.rate)]
      BY <2>2, <3>1, <3>2 DEF bucket, MinOf, Abs!MinLevel
    <3>4. Abs!Tick
      BY <3>2, <3>3 DEF Abs!Tick, Abs!SetLevel
    <3> QED
      BY <3>4 DEF Abs!Next
  <2> QED
    BY <2>1, <2>2
<1>7. ASSUME Observe \/ UNCHANGED vars
      PROVE  UNCHANGED bucket
  BY <1>7 DEF Observe, vars, bucket
<1> QED
  BY <1>3, <1>4, <1>5, <1>6, <1>7 DEF Next

\* The limiter of peer_config.rs, brought up to date only when it is touched,
\* implements a bucket that is refilled every second.
THEOREM LimiterRefinesTokenBucket == Spec => ImplementsTokenBucket
<1>1. Init => Abs!Init
  BY DEF Init, Abs!Init, bucket
<1> QED
  BY <1>1, BucketStep, LimiterInv, PTL DEF Spec, ImplementsTokenBucket, Abs!Spec

=============================================================================
