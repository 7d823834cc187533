--------------------------- MODULE OFTAmountsProofs ---------------------------
(***************************************************************************)
(* What the amount arithmetic of the OFT program guarantees for every u64  *)
(* width, fee scale, decimal rate and fee configuration; and sums over     *)
(* finite sets, which balances and packets in flight are added up with.    *)
(***************************************************************************)
EXTENDS OFTAmounts, FiniteSetsExt, FiniteSetTheorems, WellFoundedInduction, TLAPS

-----------------------------------------------------------------------------
(* Integer division.                                                       *)

\* Euclid's division: quotient and remainder of naturals.
LEMMA DivMod ==
    ASSUME NEW a \in Nat, NEW b \in Nat \ {0}
    PROVE  /\ a \div b \in Nat
           /\ a % b \in 0..(b - 1)
           /\ a = b * (a \div b) + (a % b)
OBVIOUS

\* Dividing an exact multiple gives the factor back.
LEMMA MulDiv ==
    ASSUME NEW a \in Nat, NEW b \in Nat \ {0}
    PROVE  (b * a) \div b = a
OBVIOUS

\* ceil_div rounds up: it is the least k with d * k >= n.
LEMMA CeilFacts ==
    ASSUME NEW n \in Nat, NEW d \in Nat \ {0}
    PROVE  /\ ceil_div(n, d) \in Nat
           /\ d * ceil_div(n, d) >= n
           /\ d * ceil_div(n, d) < n + d
<1>1. n + d - 1 \in Nat
  OBVIOUS
<1> DEFINE m == n + d - 1
<1>2. /\ m \div d \in Nat
      /\ m % d \in 0..(d - 1)
      /\ m = d * (m \div d) + (m % d)
  BY <1>1, DivMod
<1> QED
  BY <1>2 DEF ceil_div

LEMMA CeilAtMost ==
    ASSUME NEW n \in Nat, NEW d \in Nat \ {0}, NEW k \in Nat, n <= d * k
    PROVE  ceil_div(n, d) <= k
<1> DEFINE c == ceil_div(n, d)
<1>1. c \in Nat /\ d * c < n + d
  BY CeilFacts
<1> HIDE DEF c
<1>2. d * c < d * (k + 1)
  BY <1>1
<1>3. c < k + 1
  BY <1>1, <1>2
<1> QED
  BY <1>1, <1>3 DEF c

LEMMA CeilAtLeast ==
    ASSUME NEW n \in Nat, NEW d \in Nat \ {0}, NEW k \in Int, n > d * (k - 1)
    PROVE  ceil_div(n, d) >= k
<1> DEFINE c == ceil_div(n, d)
<1>1. c \in Nat /\ d * c >= n
  BY CeilFacts
<1> HIDE DEF c
<1>2. d * c > d * (k - 1)
  BY <1>1
<1>3. c > k - 1
  BY <1>1, <1>2
<1> QED
  BY <1>1, <1>3 DEF c

-----------------------------------------------------------------------------
(* Dust.                                                                   *)

\* remove_dust rounds down to a multiple of the rate.
LEMMA DustFacts ==
    ASSUME NEW rate \in Nat \ {0}, NEW amount \in Nat
    PROVE  /\ remove_dust(rate, amount) \in 0..amount
           /\ \E k \in Nat : remove_dust(rate, amount) = rate * k
<1>1. remove_dust(rate, amount) = rate * (amount \div rate)
  BY DivMod DEF remove_dust
<1>2. amount \div rate \in Nat /\ amount % rate \in 0..(rate - 1)
  BY DivMod
<1>3. remove_dust(rate, amount) \in 0..amount
  <2>1. rate * (amount \div rate) >= 0
    BY <1>2
  <2> QED
    BY <2>1, <1>1, <1>2 DEF remove_dust
<1> QED
  BY <1>1, <1>2, <1>3

\* A multiple of the rate survives the trip through shared decimals.
LEMMA SharedDecimalsExact ==
    ASSUME NEW rate \in Nat \ {0}, NEW k \in Nat
    PROVE  sd2ld(rate, ld2sd(rate, rate * k)) = rate * k
BY MulDiv DEF sd2ld, ld2sd

-----------------------------------------------------------------------------
(* The Token-2022 transfer fee.                                            *)

LEMMA TransferFeeBounds ==
    ASSUME NEW tfee \in TransferFee, NEW amount \in Nat
    PROVE  transfer_fee(tfee, amount) \in 0..amount
<1> DEFINE n == amount * tfee.bps
<1>1. tfee.bps \in 0..OneInBps /\ tfee.max \in Nat /\ OneInBps \in Nat \ {0}
  BY BpsAssumption, U64Assumption DEF TransferFee, U64
<1>2. n \in Nat /\ n <= OneInBps * amount
  BY <1>1
<1> HIDE DEF n
<1>3. ceil_div(n, OneInBps) \in Nat /\ ceil_div(n, OneInBps) <= amount
  <2>1. ceil_div(n, OneInBps) \in Nat
    BY <1>1, <1>2, CeilFacts
  <2>2. ceil_div(n, OneInBps) <= amount
    BY <1>1, <1>2, CeilAtMost
  <2> QED
    BY <2>1, <2>2
<1>4. transfer_fee(tfee, amount) = MinOf(ceil_div(n, OneInBps), tfee.max)
  BY DEF transfer_fee, n
<1> QED
  BY <1>1, <1>3, <1>4 DEF MinOf

\* Rounding the pre-fee amount up costs the sender exactly the fee: what
\* calculate_pre_fee_amount asks for is what makes post_fee_amount arrive.
THEOREM PreFeeIsExact ==
    ASSUME NEW tfee \in TransferFee, NEW x \in Nat
    PROVE  /\ calculate_pre_fee_amount(tfee, x) \in Nat
           /\ get_post_fee_amount_ld(tfee, calculate_pre_fee_amount(tfee, x)) = x
<1> DEFINE b == tfee.bps
           M == tfee.max
           O == OneInBps
           pre == calculate_pre_fee_amount(tfee, x)
<1>t. b \in 0..O /\ M \in Nat /\ O \in Nat \ {0}
  BY BpsAssumption, U64Assumption DEF TransferFee, U64
<1>1. ASSUME NEW a \in Nat
      PROVE  get_post_fee_amount_ld(tfee, a) = a - MinOf(ceil_div(a * b, O), M)
  BY DEF get_post_fee_amount_ld, transfer_fee
<1>2. CASE b = 0 \/ x = 0
  <2>1. pre = x
    BY <1>2 DEF calculate_pre_fee_amount
  <2>2. x * b = 0
    BY <1>2, <1>t
  <2>3. ceil_div(0, O) = 0
    BY <1>t, CeilAtMost, CeilFacts
  <2> QED
    BY <2>1, <2>2, <2>3, <1>1, <1>t DEF MinOf
<1>3. CASE b = O /\ x # 0
  <2>1. pre = M + x
    BY <1>3, <1>t DEF calculate_pre_fee_amount
  <2>2. (M + x) * b = O * (M + x)
    BY <1>3, <1>t
  <2>n. O * (M + x) \in Nat /\ O * (M + x) > O * (M - 1)
    BY <1>t, <1>3
  <2>3. ceil_div(O * (M + x), O) >= M
    BY <2>n, <1>t, CeilAtLeast
  <2>4. ceil_div(O * (M + x), O) \in Nat
    BY <2>n, <1>t, CeilFacts
  <2>5. get_post_fee_amount_ld(tfee, M + x)
            = (M + x) - MinOf(ceil_div((M + x) * b, O), M)
    BY <1>1, <1>t
  <2>6. MinOf(ceil_div((M + x) * b, O), M) = M
    BY <2>2, <2>3, <2>4, <1>t DEF MinOf
  <2>7. get_post_fee_amount_ld(tfee, M + x) = x
    BY <2>5, <2>6, <1>t
  <2> QED
    BY <2>1, <2>7, <1>t
<1>4. CASE b # 0 /\ b # O /\ x # 0
  <2> DEFINE D == O - b
             N == x * O
             raw == ceil_div(N, D)
  <2>d. D \in Nat \ {0} /\ N \in Nat /\ b \in Nat \ {0}
    BY <1>t, <1>4
  <2>1. raw \in Nat /\ D * raw >= N /\ D * raw < N + D
    BY <2>d, CeilFacts
  <2>p. pre = IF raw - x >= M THEN x + M ELSE raw
    BY <1>4, <1>t DEF calculate_pre_fee_amount
  <2> HIDE DEF raw, pre
  <2>2. pre \in Nat /\ pre <= raw /\ pre >= x
    <3>1. raw >= x
      <4>1. D * raw >= D * x
        BY <2>1, <2>d, <1>t
      <4> QED
        BY <4>1, <2>1, <2>d
    <3> QED
      BY <3>1, <2>p, <2>1, <1>t
  \* pre - 1 would not be enough, so the fee on pre is at least pre - x.
  <2>3. pre * b \in Nat /\ pre * b > O * (pre - x - 1)
    <3>1. D * pre <= D * raw
      BY <2>2, <2>1, <2>d
    <3>2. D * pre < N + D
      BY <3>1, <2>1, <2>2, <2>d
    <3>3. O * pre - pre * b < x * O + O - b
      BY <3>2, <2>2, <2>d, <1>t
    <3>4. pre * b > O * pre - x * O - O
      BY <3>3, <2>2, <2>d, <1>t
    <3> QED
      BY <3>4, <2>2, <2>d, <1>t
  <2>4. ceil_div(pre * b, O) >= pre - x
    BY <2>3, <2>2, <1>t, CeilAtLeast
  <2>5. ceil_div(pre * b, O) \in Nat
    BY <2>3, <1>t, CeilFacts
  <2>6. MinOf(ceil_div(pre * b, O), M) = pre - x
    <3>1. CASE raw - x >= M
      BY <3>1, <2>p, <2>4, <2>5, <1>t DEF MinOf
    <3>2. CASE ~(raw - x >= M)
      <4>1. pre = raw /\ pre - x < M
        BY <3>2, <2>p, <2>1, <1>t
      <4>2. pre * b <= O * (pre - x)
        <5>1. O * pre - pre * b >= x * O
          BY <4>1, <2>1, <2>d, <1>t
        <5> QED
          BY <5>1, <2>2, <1>t
      <4>3. ceil_div(pre * b, O) <= pre - x
        BY <4>2, <2>3, <2>2, <1>t, CeilAtMost
      <4> QED
        BY <4>1, <4>3, <2>4, <2>5, <2>2, <1>t DEF MinOf
    <3> QED
      BY <3>1, <3>2
  <2> QED
    BY <2>6, <2>2, <1>1 DEF pre
<1> QED
  BY <1>2, <1>3, <1>4

\* The pre-fee amount is the least one that works: an amount a that already
\* delivers y or more is never exceeded.
LEMMA PreFeeIsLeast ==
    ASSUME NEW tfee \in TransferFee, NEW a \in Nat, NEW y \in Nat,
           y <= get_post_fee_amount_ld(tfee, a)
    PROVE  calculate_pre_fee_amount(tfee, y) <= a
<1> DEFINE b == tfee.bps
           M == tfee.max
           O == OneInBps
           c == ceil_div(a * b, O)
           pre == calculate_pre_fee_amount(tfee, y)
<1>t. b \in 0..O /\ M \in Nat /\ O \in Nat \ {0}
  BY BpsAssumption, U64Assumption DEF TransferFee, U64
<1>1. y <= a - MinOf(c, M)
  BY DEF get_post_fee_amount_ld, transfer_fee
<1>2. a * b \in Nat
  BY <1>t
<1>3. c \in Nat /\ O * c >= a * b
  BY <1>2, <1>t, CeilFacts
<1> HIDE DEF c
<1>4. CASE b = 0 \/ y = 0
  BY <1>4, <1>1, <1>3, <1>t DEF calculate_pre_fee_amount, MinOf
<1>5. CASE b = O /\ y # 0
  <2>1. pre = M + y
    BY <1>5, <1>t DEF calculate_pre_fee_amount
  <2>2. O * c >= O * a
    BY <1>5, <1>3, <1>t
  <2>3. c >= a
    BY <2>2, <1>3, <1>t
  <2> QED
    BY <2>1, <2>3, <1>1, <1>3, <1>5, <1>t DEF MinOf
<1>6. CASE b # 0 /\ b # O /\ y # 0
  <2> DEFINE D == O - b
             N == y * O
             raw == ceil_div(N, D)
  <2>d. D \in Nat \ {0} /\ N \in Nat
    BY <1>t, <1>6
  <2>1. raw \in Nat
    BY <2>d, CeilFacts
  <2>p. pre = IF raw - y >= M THEN y + M ELSE raw
    BY <1>6, <1>t DEF calculate_pre_fee_amount
  <2>2. CASE M <= c
    <3>1. y + M <= a
      BY <2>2, <1>1, <1>3, <1>t DEF MinOf
    <3> HIDE DEF raw
    <3> QED
      BY <3>1, <2>p, <2>1, <1>t
  <2>3. CASE ~(M <= c)
    <3>1. c <= a - y
      BY <2>3, <1>1, <1>3, <1>t DEF MinOf
    <3>2. O * c <= O * (a - y)
      BY <3>1, <1>3, <1>t
    <3>3. N <= D * a
      BY <3>2, <1>3, <1>t
    <3>4. raw <= a
      BY <3>3, <2>d, CeilAtMost
    <3> HIDE DEF raw
    <3> QED
      BY <3>4, <2>p, <2>1, <1>t
  <2> QED
    BY <2>2, <2>3, <1>3, <1>t
<1> QED
  BY <1>4, <1>5, <1>6

-----------------------------------------------------------------------------
(* The cross-chain fee.                                                    *)

\* The fees an administrator can configure: set_oft_config and
\* set_peer_config reject fee_bps >= MAX_FEE_BASIS_POINTS.
LEMMA CrossChainFeeBelowAmount ==
    ASSUME NEW amount \in Nat, NEW default_fee_bps \in 0..(OneInBps - 1),
           NEW fee_bps \in (0..(OneInBps - 1)) \cup {None}
    PROVE  /\ calculate_fee(amount, default_fee_bps, fee_bps) \in 0..amount
           /\ amount > 0 => calculate_fee(amount, default_fee_bps, fee_bps) < amount
<1> DEFINE bps == IF fee_bps = None THEN default_fee_bps ELSE fee_bps
           n == amount * bps
           q == n \div OneInBps
<1>1. OneInBps \in Nat \ {0} /\ bps \in 0..(OneInBps - 1)
  BY BpsAssumption
<1>2. calculate_fee(amount, default_fee_bps, fee_bps) = q
  BY DEF calculate_fee
<1> HIDE DEF bps
<1>3. n \in Nat /\ n <= OneInBps * amount /\ (amount > 0 => n < OneInBps * amount)
  BY <1>1
<1> HIDE DEF n
<1>4. q \in Nat /\ OneInBps * q <= n
  BY <1>1, <1>3, DivMod
<1> HIDE DEF q
<1>5. q <= amount /\ (amount > 0 => q < amount)
  BY <1>1, <1>3, <1>4
<1> QED
  BY <1>2, <1>4, <1>5

-----------------------------------------------------------------------------
(* compute_fee_and_adjust_amount, for both kinds of OFT.                   *)

\* Whatever the configuration: the sender is never debited more than asked;
\* the escrow (Adapter) or the burn plus the fee (Native) accounts for every
\* unit that leaves the sender; the promised amount and the fee have an exact
\* SD form; and a transfer that debits anything promises something.
THEOREM ComputeFacts ==
    ASSUME NEW amount \in Nat, NEW cfg, NEW tfee \in TransferFee,
           cfg.oft_type \in {"Native", "Adapter"},
           cfg.ld2sd_rate \in Nat \ {0},
           cfg.default_fee_bps \in 0..(OneInBps - 1),
           NEW fee_bps \in (0..(OneInBps - 1)) \cup {None}
    PROVE  LET amt == compute_fee_and_adjust_amount(amount, cfg, tfee, fee_bps)
           IN  /\ amt.sent \in 0..amount
               /\ amt.received \in Nat
               /\ amt.fee \in Nat
               /\ cfg.oft_type = "Adapter" =>
                    get_post_fee_amount_ld(tfee, amt.sent) = amt.received + amt.fee
               /\ cfg.oft_type = "Native" => amt.sent = amt.received + amt.fee
               /\ sd2ld(cfg.ld2sd_rate, ld2sd(cfg.ld2sd_rate, amt.received))
                    = amt.received
               /\ sd2ld(cfg.ld2sd_rate, ld2sd(cfg.ld2sd_rate, amt.fee)) = amt.fee
               /\ amt.sent > 0 => amt.received > 0
<1> DEFINE rate    == cfg.ld2sd_rate
           adapter == cfg.oft_type = "Adapter"
           arrives == IF adapter THEN get_post_fee_amount_ld(tfee, amount) ELSE amount
           clean   == remove_dust(rate, arrives)
           raw     == calculate_fee(clean, cfg.default_fee_bps, fee_bps)
           fee     == remove_dust(rate, raw)
           sent    == IF adapter THEN calculate_pre_fee_amount(tfee, clean) ELSE clean
           amt     == compute_fee_and_adjust_amount(amount, cfg, tfee, fee_bps)
<1>1. amt = [sent |-> sent, received |-> clean - fee, fee |-> fee]
  BY DEF compute_fee_and_adjust_amount
<1>2. arrives \in 0..amount
  BY TransferFeeBounds DEF get_post_fee_amount_ld
<1>r. rate \in Nat \ {0} /\ (adapter \/ cfg.oft_type = "Native")
  OBVIOUS
<1> HIDE DEF rate
<1>3. clean \in 0..arrives /\ \E k \in Nat : clean = rate * k
  <2>1. arrives \in Nat
    BY <1>2
  <2> HIDE DEF arrives
  <2> QED
    BY <2>1, <1>r, DustFacts
<1>4. raw \in 0..clean /\ (clean > 0 => raw < clean)
  <2>1. clean \in Nat
    BY <1>2, <1>3
  <2> HIDE DEF clean
  <2> QED
    BY <2>1, CrossChainFeeBelowAmount
<1>5. fee \in 0..raw /\ \E k \in Nat : fee = rate * k
  <2>1. raw \in Nat
    BY <1>2, <1>3, <1>4
  <2> HIDE DEF raw
  <2> QED
    BY <2>1, <1>r, DustFacts
<1>6. PICK kc \in Nat : clean = rate * kc
  BY <1>3
<1>7. PICK kf \in Nat : fee = rate * kf
  BY <1>5
<1>8. /\ adapter => sent \in Nat /\ sent <= amount
      /\ adapter => get_post_fee_amount_ld(tfee, sent) = clean
      /\ adapter /\ clean = 0 => sent = 0
      /\ ~adapter => sent = clean
  <2>1. CASE adapter
    <3>1. clean \in Nat /\ clean <= get_post_fee_amount_ld(tfee, amount)
      BY <2>1, <1>2, <1>3
    <3>2. sent = calculate_pre_fee_amount(tfee, clean)
      BY <2>1
    <3> HIDE DEF clean, sent
    <3>3. sent \in Nat /\ get_post_fee_amount_ld(tfee, sent) = clean
      BY <3>1, <3>2, PreFeeIsExact
    <3>4. sent <= amount
      BY <3>1, <3>2, PreFeeIsLeast
    <3>5. clean = 0 => sent = 0
      BY <3>2 DEF calculate_pre_fee_amount
    <3> QED
      BY <2>1, <3>3, <3>4, <3>5
  <2>2. CASE ~adapter
    BY <2>2
  <2> QED
    BY <2>1, <2>2
<1> HIDE DEF adapter, arrives, clean, raw, fee, sent
<1>9. clean \in Nat /\ fee \in Nat /\ fee <= clean /\ (clean > 0 => fee < clean)
  BY <1>2, <1>3, <1>4, <1>5
<1>10. sent \in 0..amount /\ (sent > 0 => clean > 0)
  BY <1>2, <1>3, <1>8, <1>9
<1>11. kf <= kc
  BY <1>6, <1>7, <1>9, <1>r
<1>12. clean - fee = rate * (kc - kf) /\ kc - kf \in Nat
  BY <1>6, <1>7, <1>11, <1>r
<1>13. /\ sd2ld(rate, ld2sd(rate, clean - fee)) = clean - fee
       /\ sd2ld(rate, ld2sd(rate, fee)) = fee
  BY <1>7, <1>12, <1>r, SharedDecimalsExact
<1>14. /\ amt.sent = sent /\ amt.received = clean - fee /\ amt.fee = fee
  BY <1>1
<1> HIDE DEF amt
<1>15. /\ amt.sent \in 0..amount
       /\ amt.received \in Nat
       /\ amt.fee \in Nat
       /\ adapter => get_post_fee_amount_ld(tfee, amt.sent) = amt.received + amt.fee
       /\ ~adapter => amt.sent = amt.received + amt.fee
       /\ sd2ld(rate, ld2sd(rate, amt.received)) = amt.received
       /\ sd2ld(rate, ld2sd(rate, amt.fee)) = amt.fee
       /\ amt.sent > 0 => amt.received > 0
  BY <1>8, <1>9, <1>10, <1>13, <1>14
<1> QED
  BY <1>15 DEF amt, adapter, rate

-----------------------------------------------------------------------------
(* Sums of amounts over finite sets, as MapThenSumSet computes them: the   *)
(* order in which elements are chosen does not matter.  Induction is        *)
(* stated with sets, from the well-foundedness of < on Nat.                *)

\* A set that has 0 and the successor of each of its members has every natural.
LEMMA SetInduction ==
    ASSUME NEW S, 0 \in S, \A n \in Nat : n \in S => n + 1 \in S
    PROVE  Nat \subseteq S
<1> DEFINE R == OpToRel(<, Nat)
           T == Nat \ S
<1>1. SUFFICES ASSUME T # {} PROVE FALSE
  OBVIOUS
<1>2. IsWellFoundedOn(R, Nat)
  BY NatLessThanWellFounded, Zenon
<1>3. \A x, y \in Nat : y < x => <<y, x>> \in R
  BY DEF OpToRel
<1> HIDE DEF R
<1>4. PICK x \in T : \A y \in T : ~ (<<y, x>> \in R)
  BY <1>1, <1>2, WFMin
<1>5. x \in Nat /\ x # 0
  OBVIOUS
<1>6. x - 1 \in Nat /\ x - 1 < x
  BY <1>5
<1>7. x - 1 \in S
  BY <1>3, <1>4, <1>5, <1>6
<1> QED
  BY <1>4, <1>5, <1>6, <1>7

-----------------------------------------------------------------------------
(* The function that MapThenSumSet folds with.                             *)

Total(b, S) == MapThenSumSet(LAMBDA a : b[a], S)

First(s) == CHOOSE x \in s : TRUE

Folded(b, g, s) == IF s = {} THEN 0 ELSE b[First(s)] + g[s \ {First(s)}]

FoldsOn(b, D, g) == g = [s \in D |-> Folded(b, g, s)]

Ints(b, S) == \A x \in S : b[x] \in Int

Agree(b, d, S) == \A x \in S : b[x] = d[x]

UpTo(S, n) == {s \in SUBSET S : Cardinality(s) <= n}

LEMMA UpToFacts ==
    ASSUME NEW S, IsFiniteSet(S)
    PROVE  /\ UpTo(S, Cardinality(S)) = SUBSET S
           /\ \A s \in SUBSET S : IsFiniteSet(s) /\ Cardinality(s) \in Nat
           /\ \A s \in SUBSET S : s # {} => First(s) \in s
           /\ \A s \in SUBSET S : \A x \in s :
                /\ s \ {x} \in SUBSET S
                /\ Cardinality(s \ {x}) = Cardinality(s) - 1
           /\ \A s \in SUBSET S : Cardinality(s) = 0 <=> s = {}
<1>1. ASSUME NEW s \in SUBSET S
      PROVE  IsFiniteSet(s) /\ Cardinality(s) \in Nat /\ Cardinality(s) <= Cardinality(S)
  BY FS_Subset, FS_CardinalityType
<1>2. UpTo(S, Cardinality(S)) = SUBSET S
  BY <1>1 DEF UpTo
<1>3. ASSUME NEW s \in SUBSET S, s # {} PROVE First(s) \in s
  BY <1>3 DEF First
<1>4. ASSUME NEW s \in SUBSET S, NEW x \in s
      PROVE  s \ {x} \in SUBSET S /\ Cardinality(s \ {x}) = Cardinality(s) - 1
  BY <1>1, FS_RemoveElement
<1>5. ASSUME NEW s \in SUBSET S PROVE Cardinality(s) = 0 <=> s = {}
  BY <1>1, FS_EmptySet
<1> QED
  BY <1>1, <1>2, <1>3, <1>4, <1>5

\* The fold is well defined.
LEMMA FoldExists ==
    ASSUME NEW b, NEW S, IsFiniteSet(S)
    PROVE  \E g : FoldsOn(b, SUBSET S, g)
<1> DEFINE K == {n \in Nat : \E g : FoldsOn(b, UpTo(S, n), g)}
<1>1. 0 \in K
  <2> DEFINE g == [s \in UpTo(S, 0) |-> 0]
  <2>1. \A s \in UpTo(S, 0) : s = {}
    BY UpToFacts DEF UpTo
  <2>2. FoldsOn(b, UpTo(S, 0), g)
    BY <2>1 DEF FoldsOn, Folded
  <2> QED
    BY <2>2
<1>2. ASSUME NEW n \in Nat, n \in K PROVE n + 1 \in K
  <2>1. PICK g : FoldsOn(b, UpTo(S, n), g)
    BY <1>2
  <2> DEFINE h == [s \in UpTo(S, n + 1) |-> Folded(b, g, s)]
  <2>2. \A s \in UpTo(S, n) : s \in UpTo(S, n + 1) /\ g[s] = h[s]
    <3>1. \A s \in UpTo(S, n) : s \in UpTo(S, n + 1)
      BY UpToFacts DEF UpTo
    <3>2. \A s \in UpTo(S, n) : g[s] = Folded(b, g, s)
      BY <2>1 DEF FoldsOn
    <3> QED
      BY <3>1, <3>2
  <2>3. ASSUME NEW s \in UpTo(S, n + 1) PROVE Folded(b, g, s) = Folded(b, h, s)
    <3>1. CASE s = {}
      BY <3>1 DEF Folded
    <3>2. CASE s # {}
      <4>1. s \ {First(s)} \in UpTo(S, n)
        BY <3>2, UpToFacts DEF UpTo
      <4>2. g[s \ {First(s)}] = h[s \ {First(s)}]
        BY <2>2, <4>1
      <4> HIDE DEF h
      <4> QED
        BY <4>2 DEF Folded
    <3> QED
      BY <3>1, <3>2
  <2>4. h = [s \in UpTo(S, n + 1) |-> Folded(b, h, s)]
    BY <2>3
  <2>5. FoldsOn(b, UpTo(S, n + 1), h)
    BY <2>4 DEF FoldsOn
  <2> QED
    BY <2>5
<1>3. Nat \subseteq K
  <2> HIDE DEF K
  <2> QED
    BY <1>1, <1>2, SetInduction
<1>4. Cardinality(S) \in K
  BY <1>3, FS_CardinalityType
<1>5. PICK g : FoldsOn(b, UpTo(S, Cardinality(S)), g)
  BY <1>4
<1>6. UpTo(S, Cardinality(S)) = SUBSET S
  BY UpToFacts
<1> QED
  BY <1>5, <1>6

LEMMA FoldValue ==
    ASSUME NEW b, NEW S, NEW g, FoldsOn(b, SUBSET S, g), NEW s \in SUBSET S
    PROVE  g[s] = IF s = {} THEN 0 ELSE b[First(s)] + g[s \ {First(s)}]
BY DEF FoldsOn, Folded

LEMMA FoldIsTotal ==
    ASSUME NEW b, NEW S, IsFiniteSet(S)
    PROVE  \E g : FoldsOn(b, SUBSET S, g) /\ Total(b, S) = g[S]
<1> DEFINE c == CHOOSE g : FoldsOn(b, SUBSET S, g)
<1>1. FoldsOn(b, SUBSET S, c)
  BY FoldExists
<1>2. Total(b, S) = c[S]
  BY DEF Total, MapThenSumSet, MapThenFoldSet, FoldsOn, Folded, First
<1> QED
  BY <1>1, <1>2

\* A sum of numbers is a number, and any element may be taken out first.
LEMMA FoldFacts ==
    ASSUME NEW S, IsFiniteSet(S), NEW b, Ints(b, S),
           NEW g, FoldsOn(b, SUBSET S, g), NEW u \in SUBSET S
    PROVE  g[u] \in Int /\ \A x \in u : g[u] = b[x] + g[u \ {x}]
<1> USE DEF Ints
<1> DEFINE Good(s) == g[s] \in Int /\ \A x \in s : g[s] = b[x] + g[s \ {x}]
           K == {n \in Nat : \A s \in UpTo(S, n) : Good(s)}
<1>1. 0 \in K
  <2>1. ASSUME NEW s \in UpTo(S, 0) PROVE Good(s)
    <3>1. s = {} /\ s \in SUBSET S
      BY UpToFacts DEF UpTo
    <3>2. g[s] = 0
      BY <3>1 DEF FoldsOn, Folded
    <3> QED
      BY <3>1, <3>2
  <2> QED
    BY <2>1
<1>2. ASSUME NEW n \in Nat, n \in K PROVE n + 1 \in K
  <2>1. ASSUME NEW s \in UpTo(S, n + 1) PROVE Good(s)
    <3> DEFINE c == First(s)
    <3>1. s \in SUBSET S /\ Cardinality(s) \in Nat /\ Cardinality(s) <= n + 1
      BY UpToFacts DEF UpTo
    <3>2. \A t \in UpTo(S, n) : Good(t)
      BY <1>2
    <3>3. CASE s = {}
      <4>1. g[s] = 0
        BY <3>1, <3>3 DEF FoldsOn, Folded
      <4> QED
        BY <3>3, <4>1
    <3>4. CASE s # {}
      <4>1. c \in s /\ g[s] = b[c] + g[s \ {c}]
        BY <3>1, <3>4, UpToFacts, FoldValue
      <4>2. \A x \in s : s \ {x} \in UpTo(S, n)
        BY <3>1, UpToFacts DEF UpTo
      <4> HIDE DEF c
      <4>3. g[s] \in Int
        BY <3>1, <3>2, <4>1, <4>2
      <4>4. ASSUME NEW x \in s PROVE g[s] = b[x] + g[s \ {x}]
        <5>1. CASE x = c
          BY <4>1, <5>1
        <5>2. CASE x # c
          <6> DEFINE r == (s \ {c}) \ {x}
          <6>1. g[s \ {c}] = b[x] + g[r]
            BY <3>2, <4>1, <4>2, <5>2
          <6>2. g[s \ {x}] = b[c] + g[(s \ {x}) \ {c}]
            BY <3>2, <4>1, <4>2, <5>2
          <6>3. r = (s \ {x}) \ {c}
            OBVIOUS
          <6>4. r \in UpTo(S, n)
            <7>1. /\ s \ {c} \in SUBSET S /\ Cardinality(s \ {c}) = Cardinality(s) - 1
                  /\ x \in s \ {c}
              BY <3>1, <4>1, <5>2, UpToFacts
            <7>2. r \in SUBSET S /\ Cardinality(r) = Cardinality(s \ {c}) - 1
              BY <7>1, UpToFacts
            <7> HIDE DEF r
            <7> QED
              BY <3>1, <7>1, <7>2 DEF UpTo
          <6>5. g[r] \in Int /\ b[x] \in Int /\ b[c] \in Int
            BY <3>1, <3>2, <4>1, <6>4
          <6> HIDE DEF r
          <6> QED
            BY <4>1, <6>1, <6>2, <6>3, <6>5
        <5> QED
          BY <5>1, <5>2
      <4> QED
        BY <4>3, <4>4
    <3> QED
      BY <3>3, <3>4
  <2> QED
    BY <2>1
<1>3. Nat \subseteq K
  <2> HIDE DEF K
  <2> QED
    BY <1>1, <1>2, SetInduction
<1>4. Cardinality(S) \in K
  BY <1>3, FS_CardinalityType
<1>5. \A s \in UpTo(S, Cardinality(S)) : Good(s)
  BY <1>4
<1>6. UpTo(S, Cardinality(S)) = SUBSET S
  BY UpToFacts
<1> QED
  BY <1>5, <1>6

\* Two folds over the same values agree.
TwoFolds(S, T, b, d, g, h) ==
    /\ IsFiniteSet(S) /\ T \subseteq S /\ Agree(b, d, T)
    /\ FoldsOn(b, SUBSET S, g) /\ FoldsOn(d, SUBSET T, h)

LEMMA FoldUnique ==
    ASSUME NEW S, NEW T, NEW b, NEW d, NEW g, NEW h, TwoFolds(S, T, b, d, g, h)
    PROVE  g[T] = h[T]
<1> USE DEF Agree
<1>a. IsFiniteSet(S) /\ T \subseteq S /\ Agree(b, d, T)
  BY DEF TwoFolds
<1>b. FoldsOn(b, SUBSET S, g) /\ FoldsOn(d, SUBSET T, h)
  BY DEF TwoFolds
<1> USE <1>a, <1>b
<1> DEFINE K == {n \in Nat : \A s \in UpTo(T, n) : g[s] = h[s]}
<1>0. IsFiniteSet(T)
  BY FS_Subset
<1>1. 0 \in K
  <2>1. ASSUME NEW s \in UpTo(T, 0) PROVE g[s] = h[s]
    <3>1. s = {} /\ s \in SUBSET T /\ s \in SUBSET S
      BY <1>0, UpToFacts DEF UpTo
    <3> QED
      BY <3>1, FoldValue
  <2> QED
    BY <2>1
<1>2. ASSUME NEW n \in Nat, n \in K PROVE n + 1 \in K
  <2>1. ASSUME NEW s \in UpTo(T, n + 1) PROVE g[s] = h[s]
    <3>1. /\ s \in SUBSET S /\ s \in SUBSET T
          /\ Cardinality(s) \in Nat /\ Cardinality(s) <= n + 1
      BY <1>0, UpToFacts DEF UpTo
    <3>2. CASE s = {}
      <4>1. g[s] = 0 /\ h[s] = 0
        BY <3>1, <3>2 DEF FoldsOn, Folded
      <4> QED
        BY <4>1
    <3>3. CASE s # {}
      <4>1. /\ First(s) \in s
            /\ s \ {First(s)} \in UpTo(T, n)
        BY <1>0, <3>1, <3>3, UpToFacts DEF UpTo
      <4>2. g[s \ {First(s)}] = h[s \ {First(s)}]
        BY <1>2, <4>1
      <4>3. b[First(s)] = d[First(s)]
        BY <3>1, <4>1
      <4>4. g[s] = b[First(s)] + g[s \ {First(s)}]
        BY <3>1, <3>3 DEF FoldsOn, Folded
      <4>5. h[s] = d[First(s)] + h[s \ {First(s)}]
        BY <3>1, <3>3 DEF FoldsOn, Folded
      <4> QED
        BY <4>2, <4>3, <4>4, <4>5
    <3> QED
      BY <3>2, <3>3
  <2> QED
    BY <2>1
<1>3. Nat \subseteq K
  <2> HIDE DEF K
  <2> QED
    BY <1>1, <1>2, SetInduction
<1>4. Cardinality(T) \in K
  BY <1>0, <1>3, FS_CardinalityType
<1>5. UpTo(T, Cardinality(T)) = SUBSET T
  BY <1>0, UpToFacts
<1> QED
  BY <1>4, <1>5

-----------------------------------------------------------------------------
(* What the other modules use.                                             *)

LEMMA TotalIsInt ==
    ASSUME NEW S, IsFiniteSet(S), NEW b, Ints(b, S)
    PROVE  Total(b, S) \in Int
<1>1. PICK g : FoldsOn(b, SUBSET S, g) /\ Total(b, S) = g[S]
  BY FoldIsTotal
<1>2. FoldsOn(b, SUBSET S, g) /\ S \in SUBSET S
  BY <1>1
<1>3. g[S] \in Int
  BY <1>2, FoldFacts, Zenon
<1> QED
  BY <1>1, <1>3

LEMMA TotalSame ==
    ASSUME NEW S, IsFiniteSet(S), NEW b, NEW d, Agree(b, d, S)
    PROVE  Total(b, S) = Total(d, S)
<1>1. PICK g : FoldsOn(b, SUBSET S, g) /\ Total(b, S) = g[S]
  BY FoldIsTotal
<1>2. PICK h : FoldsOn(d, SUBSET S, h) /\ Total(d, S) = h[S]
  BY FoldIsTotal
<1>3. FoldsOn(b, SUBSET S, g)
  BY <1>1
<1>4. FoldsOn(d, SUBSET S, h)
  BY <1>2
<1>5. TwoFolds(S, S, b, d, g, h)
  BY <1>3, <1>4 DEF TwoFolds
<1>6. g[S] = h[S]
  BY <1>5, FoldUnique
<1> QED
  BY <1>1, <1>2, <1>6

LEMMA TotalRemove ==
    ASSUME NEW S, IsFiniteSet(S), NEW b, Ints(b, S), NEW y \in S
    PROVE  Total(b, S) = b[y] + Total(b, S \ {y})
<1> DEFINE T == S \ {y}
<1>1. PICK g : FoldsOn(b, SUBSET S, g) /\ Total(b, S) = g[S]
  BY FoldIsTotal
<1>2. IsFiniteSet(T)
  BY FS_RemoveElement
<1>3. PICK h : FoldsOn(b, SUBSET T, h) /\ Total(b, T) = h[T]
  BY <1>2, FoldIsTotal
<1>4. FoldsOn(b, SUBSET S, g)
  BY <1>1
<1>5. FoldsOn(b, SUBSET T, h)
  BY <1>3
<1>6. g[S] = b[y] + g[T]
  <2>1. \A x \in S : g[S] = b[x] + g[S \ {x}]
    <3>1. S \in SUBSET S
      OBVIOUS
    <3> QED
      BY <1>4, <3>1, FoldFacts
  <2> QED
    BY <2>1
<1>7. T \subseteq S /\ Agree(b, b, T)
  BY DEF Agree
<1> HIDE DEF T
<1>8. g[T] = h[T]
  <2>1. TwoFolds(S, T, b, b, g, h)
    BY <1>4, <1>5, <1>7 DEF TwoFolds
  <2> QED
    BY <2>1, FoldUnique
<1> QED
  BY <1>1, <1>3, <1>6, <1>8 DEF T

LEMMA TotalEmpty ==
    ASSUME NEW b
    PROVE  Total(b, {}) = 0
<1>1. IsFiniteSet({})
  BY FS_EmptySet
<1>2. PICK g : FoldsOn(b, SUBSET {}, g) /\ Total(b, {}) = g[{}]
  BY <1>1, FoldIsTotal
<1>3. g[{}] = 0
  BY <1>2 DEF FoldsOn, Folded
<1> QED
  BY <1>2, <1>3

\* Numbers that are not negative have such a sum.
LEMMA TotalIsNat ==
    ASSUME NEW S, IsFiniteSet(S), NEW b, \A x \in S : b[x] \in Nat
    PROVE  Total(b, S) \in Nat
<1> DEFINE K == {n \in Nat : \A s \in UpTo(S, n) : Total(b, s) \in Nat}
<1>1. 0 \in K
  <2>1. \A s \in UpTo(S, 0) : s = {}
    BY UpToFacts DEF UpTo
  <2> QED
    BY <2>1, TotalEmpty
<1>2. ASSUME NEW n \in Nat, n \in K PROVE n + 1 \in K
  <2>1. ASSUME NEW s \in UpTo(S, n + 1) PROVE Total(b, s) \in Nat
    <3>1. /\ s \in SUBSET S /\ IsFiniteSet(s)
          /\ Cardinality(s) \in Nat /\ Cardinality(s) <= n + 1
      BY UpToFacts DEF UpTo
    <3>2. CASE s = {}
      BY <3>2, TotalEmpty
    <3>3. CASE s # {}
      <4>1. PICK y \in s : TRUE
        BY <3>3
      <4>2. Ints(b, s) /\ b[y] \in Nat
        BY <3>1 DEF Ints
      <4>3. Total(b, s) = b[y] + Total(b, s \ {y})
        BY <3>1, <4>2, TotalRemove
      <4>4. s \ {y} \in UpTo(S, n)
        BY <3>1, UpToFacts DEF UpTo
      <4>5. Total(b, s \ {y}) \in Nat
        BY <1>2, <4>4
      <4> QED
        BY <4>2, <4>3, <4>5
    <3> QED
      BY <3>2, <3>3
  <2> QED
    BY <2>1
<1>3. Nat \subseteq K
  <2> HIDE DEF K
  <2> QED
    BY <1>1, <1>2, SetInduction
<1>4. Cardinality(S) \in K
  BY <1>3, FS_CardinalityType
<1>5. UpTo(S, Cardinality(S)) = SUBSET S
  BY UpToFacts
<1> QED
  BY <1>4, <1>5

\* No part of a sum of natural numbers is larger than it, two parts included.
LEMMA TotalBounds ==
    ASSUME NEW S, IsFiniteSet(S), NEW b, \A x \in S : b[x] \in Nat,
           NEW x \in S, NEW y \in S, x # y
    PROVE  b[x] + b[y] <= Total(b, S)
<1>1. Ints(b, S) /\ Ints(b, S \ {x})
  BY DEF Ints
<1>2. IsFiniteSet(S \ {x}) /\ IsFiniteSet((S \ {x}) \ {y})
  BY FS_RemoveElement
<1>3. Total(b, S) = b[x] + Total(b, S \ {x})
  BY <1>1, TotalRemove
<1>4. y \in S \ {x}
  OBVIOUS
<1>5. Total(b, S \ {x}) = b[y] + Total(b, (S \ {x}) \ {y})
  BY <1>1, <1>2, <1>4, TotalRemove
<1>6. Total(b, (S \ {x}) \ {y}) \in Nat
  <2>1. \A z \in (S \ {x}) \ {y} : b[z] \in Nat
    OBVIOUS
  <2> QED
    BY <1>2, <2>1, TotalIsNat
<1> QED
  BY <1>3, <1>5, <1>6

\* One value changes.
LEMMA TotalUpdate ==
    ASSUME NEW S, IsFiniteSet(S), NEW b, Ints(b, S), NEW d, Ints(d, S),
           NEW y \in S, \A x \in S \ {y} : b[x] = d[x]
    PROVE  Total(d, S) = Total(b, S) + (d[y] - b[y])
<1>1. Total(b, S) = b[y] + Total(b, S \ {y})
  BY TotalRemove
<1>2. Total(d, S) = d[y] + Total(d, S \ {y})
  BY TotalRemove
<1>3. IsFiniteSet(S \ {y}) /\ Agree(b, d, S \ {y})
  BY FS_RemoveElement DEF Agree
<1>4. Total(b, S \ {y}) = Total(d, S \ {y})
  BY <1>3, TotalSame
<1>5. Ints(b, S \ {y})
  BY DEF Ints
<1>6. Total(b, S \ {y}) \in Int /\ b[y] \in Int /\ d[y] \in Int
  BY <1>3, <1>5, TotalIsInt DEF Ints
<1> QED
  BY <1>1, <1>2, <1>4, <1>6

\* Two values change.
LEMMA TotalMove ==
    ASSUME NEW S, IsFiniteSet(S), NEW b, Ints(b, S), NEW d, Ints(d, S),
           NEW x \in S, NEW y \in S, x # y, \A z \in S \ {x, y} : b[z] = d[z]
    PROVE  Total(d, S) = Total(b, S) + (d[x] - b[x]) + (d[y] - b[y])
<1> DEFINE c == [z \in S |-> IF z = x THEN d[x] ELSE b[z]]
<1>1. c[x] = d[x] /\ \A z \in S \ {x} : c[z] = b[z]
  OBVIOUS
<1>2. Ints(c, S)
  BY DEF Ints
<1> HIDE DEF c
<1>3. \A z \in S \ {x} : b[z] = c[z]
  BY <1>1
<1>4. Total(c, S) = Total(b, S) + (c[x] - b[x])
  BY <1>2, <1>3, TotalUpdate
<1>5. \A z \in S \ {y} : c[z] = d[z]
  BY <1>1
<1>6. Total(d, S) = Total(c, S) + (d[y] - c[y])
  BY <1>2, <1>5, TotalUpdate
<1> QED
  BY <1>1, <1>4, <1>6

-----------------------------------------------------------------------------
(* Sums of a field of records.                                             *)

Worth(S) == MapThenSumSet(LAMBDA packet : packet.value, S)

LEMMA WorthIsTotal ==
    ASSUME NEW S, IsFiniteSet(S), NEW T, T \subseteq S
    PROVE  Worth(T) = Total([p \in S |-> p.value], T)
<1> DEFINE b == [p \in S |-> p.value]
           V(g) == g = [s \in SUBSET T |->
                          IF s = {} THEN 0 ELSE First(s).value + g[s \ {First(s)}]]
           c == CHOOSE g : V(g)
<1>0. IsFiniteSet(T)
  BY FS_Subset
<1>1. ASSUME NEW g PROVE V(g) <=> FoldsOn(b, SUBSET T, g)
  <2>1. ASSUME NEW s \in SUBSET T, s # {} PROVE First(s).value = b[First(s)]
    BY <1>0, <2>1, UpToFacts
  <2> HIDE DEF b
  <2>2. [s \in SUBSET T |-> IF s = {} THEN 0 ELSE First(s).value + g[s \ {First(s)}]]
          = [s \in SUBSET T |-> Folded(b, g, s)]
    BY <2>1 DEF Folded
  <2> QED
    BY <2>2 DEF FoldsOn
<1>2. \E g : V(g)
  BY <1>0, <1>1, FoldExists
<1>3. V(c)
  BY <1>2
<1>4. Worth(T) = c[T]
  BY DEF Worth, MapThenSumSet, MapThenFoldSet, First
<1> HIDE DEF b, V, c
<1>5. FoldsOn(b, SUBSET T, c)
  BY <1>1, <1>3
<1>6. PICK h : FoldsOn(b, SUBSET T, h) /\ Total(b, T) = h[T]
  BY <1>0, FoldIsTotal
<1>7. TwoFolds(T, T, b, b, c, h)
  BY <1>0, <1>5, <1>6 DEF TwoFolds, Agree
<1> QED
  BY <1>4, <1>6, <1>7, FoldUnique DEF b

LEMMA WorthIsInt ==
    ASSUME NEW S, IsFiniteSet(S), \A p \in S : p.value \in Int
    PROVE  Worth(S) \in Int
<1> DEFINE b == [p \in S |-> p.value]
<1>1. Ints(b, S) /\ S \subseteq S
  BY DEF Ints
<1>2. Worth(S) = Total(b, S)
  BY <1>1, WorthIsTotal
<1> HIDE DEF b
<1> QED
  BY <1>1, <1>2, TotalIsInt

\* An element more, or less.
LEMMA WorthAdd ==
    ASSUME NEW S, IsFiniteSet(S), \A p \in S : p.value \in Int,
           NEW new, new \notin S, new.value \in Int
    PROVE  Worth(S \cup {new}) = Worth(S) + new.value
<1> DEFINE T == S \cup {new}
           b == [p \in T |-> p.value]
<1>1. IsFiniteSet(T) /\ S \subseteq T /\ T \subseteq T
  BY FS_AddElement
<1>2. Ints(b, T) /\ Ints(b, S) /\ new \in T /\ b[new] = new.value
  BY DEF Ints
<1>3. T \ {new} = S
  OBVIOUS
<1>4. Worth(T) = Total(b, T) /\ Worth(S) = Total(b, S)
  BY <1>1, WorthIsTotal
<1> HIDE DEF T, b
<1>5. Total(b, T) = b[new] + Total(b, T \ {new})
  BY <1>1, <1>2, TotalRemove
<1>6. Total(b, S) \in Int
  BY <1>2, TotalIsInt
<1>7. Total(b, T) = b[new] + Total(b, S)
  BY <1>3, <1>5, Zenon
<1>8. Worth(T) = Worth(S) + new.value
  BY <1>2, <1>4, <1>6, <1>7
<1> QED
  BY <1>8 DEF T

LEMMA WorthRemove ==
    ASSUME NEW S, IsFiniteSet(S), \A p \in S : p.value \in Int, NEW old \in S
    PROVE  Worth(S \ {old}) = Worth(S) - old.value
<1> DEFINE b == [p \in S |-> p.value]
           T == S \ {old}
<1>1. Ints(b, S) /\ Ints(b, T) /\ b[old] = old.value /\ b[old] \in Int
  BY DEF Ints
<1>2. IsFiniteSet(T) /\ T \subseteq S /\ S \subseteq S
  BY FS_RemoveElement
<1>3. Worth(S) = Total(b, S) /\ Worth(T) = Total(b, T)
  BY <1>2, WorthIsTotal
<1> HIDE DEF b
<1>4. Total(b, S) = b[old] + Total(b, T)
  BY <1>1, TotalRemove
<1>5. Total(b, T) \in Int
  BY <1>1, <1>2, TotalIsInt
<1> QED
  BY <1>1, <1>3, <1>4, <1>5

LEMMA WorthEmpty == Worth({}) = 0
<1>1. IsFiniteSet({}) /\ {} \subseteq {}
  BY FS_EmptySet
<1>2. Worth({}) = Total([p \in {} |-> p.value], {})
  BY <1>1, WorthIsTotal
<1> QED
  BY <1>2, TotalEmpty

=============================================================================
