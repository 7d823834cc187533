----------------------------- MODULE RateLimiter -----------------------------
(***************************************************************************)
(* The token bucket a peer of the Solana OFT keeps per direction           *)
(* (state/peer_config.rs).  Tokens are added lazily: a limiter is brought  *)
(* up to date only when it is used or reconfigured.  The operators return  *)
(* the updated limiter; now is Clock::get()?.unix_timestamp.               *)
(***************************************************************************)
EXTENDS OFTAmounts

Limiter == [capacity : U64, tokens : U64,
            refill_per_second : U64, last_refill_time : Nat]

\* RateLimiter::default(), what unwrap_or_default creates.
DefaultLimiter == [capacity |-> 0, tokens |-> 0,
                   refill_per_second |-> 0, last_refill_time |-> 0]

\* RateLimitParams: each of the two fields may be left out.
RateLimitParams == [refill_per_second : U64 \cup {None}, capacity : U64 \cup {None}]

saturating_add(a, b) == MinOf(U64Max, a + b)

saturating_mul(a, b) == MinOf(U64Max, a * b)

\* Mutant: the elapsed time is credited again by the next refill.
refill_unstamped(l, extra_tokens, now) ==
    LET owed == IF now > l.last_refill_time
                THEN saturating_mul(now - l.last_refill_time, l.refill_per_second) ELSE 0
    IN  [l EXCEPT !.tokens = MinOf(l.capacity,
                                   saturating_add(l.tokens, saturating_add(extra_tokens, owed)))]

refill(l, extra_tokens, now) ==
    LET new_tokens ==
            IF now > l.last_refill_time
            THEN saturating_add(extra_tokens,
                     saturating_mul(now - l.last_refill_time, l.refill_per_second))
            ELSE extra_tokens
    IN  [l EXCEPT !.tokens = MinOf(l.capacity, saturating_add(l.tokens, new_tokens)),
                  !.last_refill_time = now]

\* Mutant: the new rate applies to the time before it was set.
set_rate_retroactive(l, refill_per_second, now) ==
    [l EXCEPT !.refill_per_second = refill_per_second]

set_rate(l, refill_per_second, now) ==
    [refill(l, 0, now) EXCEPT !.refill_per_second = refill_per_second]

\* Mutant: the tokens of the old capacity are kept.
set_capacity_keeping_tokens(l, capacity, now) ==
    [l EXCEPT !.capacity = capacity, !.last_refill_time = now]

set_capacity(l, capacity, now) ==
    [l EXCEPT !.capacity = capacity, !.tokens = capacity, !.last_refill_time = now]

\* Mutant: the limit is not enforced.
can_consume_always(l, amount, now) == TRUE

\* Mutant: the refill that is owed is not counted.
can_consume_stale(l, amount, now) == l.tokens >= amount

\* checked_sub after the lazy refill: Err(RateLimitExceeded) otherwise.
can_consume(l, amount, now) == refill(l, 0, now).tokens >= amount

try_consume(l, amount, now) ==
    LET r == refill(l, 0, now)
    IN  [r EXCEPT !.tokens = r.tokens - amount]

\* set_peer_config.rs: capacity is applied first, then the rate; None removes
\* the limiter and a first Some starts from the default one.
update_rate_limiter(limiter, params, now) ==
    IF params = None THEN None
    ELSE LET l0 == IF limiter = None THEN DefaultLimiter ELSE limiter
             l1 == IF params.capacity = None THEN l0
                   ELSE set_capacity(l0, params.capacity, now)
         IN  IF params.refill_per_second = None THEN l1
             ELSE set_rate(l1, params.refill_per_second, now)

\* What may be consumed at time t:
\* the stored tokens and the refill still owed.
Level(l, t) == MinOf(l.capacity,
                     l.tokens + (t - l.last_refill_time) * l.refill_per_second)

\* A limiter that a run of the program can hold at time t.
LimiterOK(l, t) ==
    /\ l \in Limiter
    /\ l.last_refill_time <= t
    /\ l.tokens <= l.capacity

-----------------------------------------------------------------------------
(* How send and lz_receive use an Option<RateLimiter>: no limiter, no limit. *)

limit_allows(limiter, amount, now) ==
    limiter # None => can_consume(limiter, amount, now)

consumed(limiter, amount, now) ==
    IF limiter = None THEN None ELSE try_consume(limiter, amount, now)

refilled(limiter, amount, now) ==
    IF limiter = None THEN None ELSE refill(limiter, amount, now)

=============================================================================
