----------------------------- MODULE TokenBucket -----------------------------
(***************************************************************************)
(* What a rate limiter promises: a bucket that gains its rate every second *)
(* up to its capacity.  Nothing here is lazy: level is what may be         *)
(* consumed right now.  No bucket (None) means no limit.                   *)
(***************************************************************************)
EXTENDS Integers

CONSTANTS
    Amounts,   \* amounts consumed and given back
    Limits,    \* capacities and rates that may be configured
    None       \* no bucket

VARIABLE bucket

MinLevel(a, b) == IF a <= b THEN a ELSE b

Empty == [capacity |-> 0, level |-> 0, rate |-> 0]

Init == bucket = None

\* Where there is no bucket, time and traffic leave it so.
SetLevel(level) ==
    bucket' = IF bucket = None THEN None ELSE [bucket EXCEPT !.level = level]

\* A second passes.
Tick == SetLevel(MinLevel(bucket.capacity, bucket.level + bucket.rate))

Consume(a) ==
    /\ bucket # None => bucket.level >= a
    /\ SetLevel(bucket.level - a)

\* Traffic in the other direction gives tokens back, never above capacity.
GiveBack(a) == SetLevel(MinLevel(bucket.capacity, bucket.level + a))

\* A new capacity starts full; a new rate keeps the level reached so far.
Configure(capacity, rate) ==
    LET b0 == IF bucket = None THEN Empty ELSE bucket
        b1 == IF capacity = None THEN b0
              ELSE [b0 EXCEPT !.capacity = capacity, !.level = capacity]
    IN  bucket' = IF rate = None THEN b1 ELSE [b1 EXCEPT !.rate = rate]

Remove == bucket' = None

Reconfigure ==
    \/ \E capacity, rate \in Limits \cup {None} : Configure(capacity, rate)
    \/ Remove

Next ==
    \/ Tick
    \/ \E a \in Amounts : Consume(a) \/ GiveBack(a)
    \/ Reconfigure

Spec == Init /\ [][Next]_bucket

=============================================================================
