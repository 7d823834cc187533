----------------------------- MODULE PeerLimiter -----------------------------
(***************************************************************************)
(* One direction's rate limiter of one peer of the Solana OFT, driven by   *)
(* everything that touches it: transfers in its direction (try_consume),   *)
(* transfers in the other direction (refill), set_peer_config and time.    *)
(* Outbound and inbound are mirror images: send consumes the outbound      *)
(* limiter and refills the inbound one, lz_receive does the opposite.      *)
(***************************************************************************)
EXTENDS RateLimiter

CONSTANTS
    Amounts,   \* amount_received_ld of the transfers
    Limits,    \* capacities and refill rates an admin may configure
    MaxTime,   \* bound on the clock
    MaxHistory \* bound on the two history counters

ASSUME AmountsAssumption == Amounts \subseteq U64
ASSUME LimitsAssumption == Limits \subseteq U64
ASSUME MaxTimeAssumption == MaxTime \in Nat
ASSUME MaxHistoryAssumption == MaxHistory \in Nat
ASSUME NoneAssumption ==
    /\ None \notin Limiter
    /\ None \notin [capacity : U64, level : Nat, rate : U64]

VARIABLES
    limiter,   \* Option<RateLimiter>
    now,       \* Clock's unix_timestamp, in seconds
    used,      \* history: tokens consumed in the observed window
    budget     \* history: what the window may consume

vars == <<limiter, now, used, budget>>

Params == {None} \cup [refill_per_second : Limits \cup {None},
                       capacity : Limits \cup {None}]

Init ==
    /\ limiter = None
    /\ now = 0
    /\ used = 0
    /\ budget = 0

\* set_peer_config with OutboundRateLimit(params) or InboundRateLimit(params).
\* A new capacity starts full and is granted to the window; a window ends where
\* the limiter is removed, and begins where it is created.
Configure(params) ==
    LET granted == IF params = None \/ params.capacity = None THEN 0 ELSE params.capacity
    IN  /\ limiter' = update_rate_limiter(limiter, params, now)
        /\ \/ /\ params = None \/ limiter = None
              /\ used' = 0 /\ budget' = granted
           \/ /\ params # None /\ limiter # None
              /\ budget + granted <= MaxHistory
              /\ budget' = budget + granted
              /\ UNCHANGED used
        /\ UNCHANGED now

\* A transfer in the limited direction.
Consume(amount) ==
    /\ limiter # None
    /\ limit_allows(limiter, amount, now)
    /\ used + amount <= MaxHistory
    /\ limiter' = consumed(limiter, amount, now)
    /\ used' = used + amount
    /\ UNCHANGED <<now, budget>>

\* A transfer in the other direction.
GiveBack(amount) ==
    /\ limiter # None
    /\ budget + amount <= MaxHistory
    /\ limiter' = refilled(limiter, amount, now)
    /\ budget' = budget + amount
    /\ UNCHANGED <<now, used>>

Tick ==
    /\ now < MaxTime
    /\ now' = now + 1
    /\ budget' = IF limiter = None THEN budget
                 ELSE budget + limiter.refill_per_second
    /\ budget' <= MaxHistory
    /\ UNCHANGED <<limiter, used>>

\* History only: an observer starts a window here and grants it one capacity.
Observe ==
    /\ limiter # None
    /\ used' = 0
    /\ budget' = limiter.capacity
    /\ UNCHANGED <<limiter, now>>

Next ==
    \/ \E params \in Params : Configure(params)
    \/ \E amount \in Amounts : Consume(amount) \/ GiveBack(amount)
    \/ Tick
    \/ Observe

Spec == Init /\ [][Next]_vars

-----------------------------------------------------------------------------
\* Types of the limiter and of the history.
TypeOK ==
    /\ limiter = None \/ limiter \in Limiter
    /\ now \in Nat
    /\ used \in Nat
    /\ budget \in Nat

\* In any window of a limiter's life, however it is cut, the limited direction
\* moves at most one capacity, plus the refill of each second at the rate of that
\* second, plus what came back in the other direction, plus the new capacity for
\* every time one is set inside it: set_capacity starts full.  Guards
\* try_consume, refill and the order of effects in set_rate and set_capacity.
ThroughputBound == limiter # None => used <= budget

\* The inductive form: nothing is granted twice, not even lazily.
Inv ==
    /\ TypeOK
    /\ limiter # None => /\ limiter.last_refill_time <= now
                         /\ limiter.tokens <= limiter.capacity
                         /\ used + Level(limiter, now) <= budget

bucket ==
    IF limiter = None THEN None
    ELSE [capacity |-> limiter.capacity, level |-> Level(limiter, now),
          rate |-> limiter.refill_per_second]

Abs == INSTANCE TokenBucket WITH bucket <- bucket

\* The lazy limiter is a token bucket that is refilled every second: no
\* sequence of uses, reconfigurations and idle time tells them apart.
ImplementsTokenBucket == Abs!Spec

=============================================================================
