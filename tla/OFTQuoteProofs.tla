--------------------------- MODULE OFTQuoteProofs ---------------------------
(***************************************************************************)
(* Proofs about quote_oft, for every rate, fee, transfer fee and amount:   *)
(* a quote adds up, can be acted on, debits the least amount that will do, *)
(* and more never delivers less.                                           *)
(***************************************************************************)
EXTENDS OFTQuote, OFTAmountsProofs

-----------------------------------------------------------------------------
(* Rounding keeps the order of amounts.                                    *)

LEMMA DustMonotonic ==
    ASSUME NEW rate \in Nat \ {0}, NEW a \in Nat, NEW b \in Nat, a <= b
    PROVE  remove_dust(rate, a) <= remove_dust(rate, b)
<1> DEFINE p == a \div rate
           q == b \div rate
<1>1. /\ p \in Nat /\ a % rate \in 0..(rate - 1) /\ a = rate * p + (a % rate)
      /\ q \in Nat /\ b % rate \in 0..(rate - 1) /\ b = rate * q + (b % rate)
  BY DivMod
<1> DEFINE r == a % rate
           s == b % rate
<1>2. remove_dust(rate, a) = rate * p /\ remove_dust(rate, b) = rate * q
  BY <1>1 DEF remove_dust
<1> HIDE DEF p, q, r, s
<1>3. p <= q
  <2> SUFFICES ASSUME p >= q + 1 PROVE FALSE
    BY <1>1
  <2>1. rate * p >= rate * (q + 1)
    BY <1>1
  <2>2. rate * (q + 1) = rate * q + rate
    BY <1>1
  <2>3. rate * p \in Nat /\ rate * q \in Nat
    BY <1>1
  <2> QED
    BY <1>1, <2>1, <2>2, <2>3 DEF r, s
<1>4. rate * p <= rate * q
  BY <1>1, <1>3
<1> QED
  BY <1>2, <1>4

\* Removing dust from an amount without dust changes nothing.
LEMMA DustFree ==
    ASSUME NEW rate \in Nat \ {0}, NEW k \in Nat
    PROVE  remove_dust(rate, rate * k) = rate * k
<1> DEFINE a == rate * k
<1>1. a \in Nat /\ a \div rate = k
  BY MulDiv
<1>2. a = rate * (a \div rate) + (a % rate) /\ a % rate \in 0..(rate - 1)
  BY <1>1, DivMod
<1>3. a % rate = 0
  <2> DEFINE r == a % rate
  <2>1. a = rate * k + r /\ r \in 0..(rate - 1)
    BY <1>1, <1>2
  <2> HIDE DEF r
  <2>2. r = 0
    BY <2>1
  <2> QED
    BY <2>2 DEF r
<1> QED
  BY <1>1, <1>3 DEF remove_dust

\* What arrives of a transfer does not fall when more is transferred.
LEMMA PostFeeMonotonic ==
    ASSUME NEW fee \in TransferFee, NEW a \in Nat, NEW b \in Nat, a <= b
    PROVE  get_post_fee_amount_ld(fee, a) <= get_post_fee_amount_ld(fee, b)
<1> DEFINE bps == fee.bps
           M == fee.max
           O == OneInBps
           c == ceil_div(a * bps, O)
           e == ceil_div(b * bps, O)
           d == b - a
<1>1. bps \in 0..O /\ M \in Nat /\ O \in Nat \ {0} /\ d \in Nat
  BY BpsAssumption, U64Assumption DEF TransferFee, U64
<1>2. /\ get_post_fee_amount_ld(fee, a) = a - MinOf(c, M)
      /\ get_post_fee_amount_ld(fee, b) = b - MinOf(e, M)
  BY DEF get_post_fee_amount_ld, transfer_fee
<1> HIDE DEF bps, M, O, d
<1>3. a * bps \in Nat /\ b * bps \in Nat
  BY <1>1
<1>4. c \in Nat /\ O * c >= a * bps /\ e \in Nat
  BY <1>1, <1>3, CeilFacts
<1>5. e <= c + d
  <2>1. b * bps = a * bps + d * bps
    BY <1>1 DEF d
  <2>2. d * bps <= O * d /\ d * bps \in Nat /\ O * d \in Nat
    BY <1>1
  <2>3. O * (c + d) = O * c + O * d
    BY <1>1, <1>4
  <2>4. O * c \in Nat /\ c + d \in Nat
    BY <1>1, <1>4
  <2>5. b * bps <= O * (c + d)
    BY <1>3, <1>4, <2>1, <2>2, <2>3, <2>4
  <2> QED
    BY <1>1, <1>3, <2>4, <2>5, CeilAtMost
<1> HIDE DEF c, e
<1>6. MinOf(e, M) <= MinOf(c, M) + d
  BY <1>1, <1>4, <1>5 DEF MinOf
<1>7. MinOf(e, M) \in Nat /\ MinOf(c, M) \in Nat
  BY <1>1, <1>4 DEF MinOf
<1> QED
  BY <1>2, <1>6, <1>7 DEF d

\* What is left of a clean amount after the cross-chain fee.
Net(rate, bps, clean) == clean - remove_dust(rate, (clean * bps) \div OneInBps)

\* The fee of an amount grows no faster than the amount, dust removed or not.
LEMMA NetMonotonic ==
    ASSUME NEW rate \in Nat \ {0}, NEW bps \in 0..OneInBps, NEW k \in Nat, NEW m \in Nat,
           k <= m
    PROVE  Net(rate, bps, rate * k) <= Net(rate, bps, rate * m)
<1> DEFINE O == OneInBps
           n1 == (rate * k) * bps
           n2 == (rate * m) * bps
           F == n1 \div O
           G == n2 \div O
           p == F \div rate
           q == G \div rate
           d == m - k
<1>1. O \in Nat \ {0} /\ bps \in Nat /\ bps <= O /\ d \in Nat
  BY BpsAssumption
<1>2. rate * k \in Nat /\ rate * m \in Nat /\ n1 \in Nat /\ n2 \in Nat
  BY <1>1
<1> HIDE DEF n1, n2
<1>3. /\ F \in Nat /\ n1 % O \in 0..(O - 1) /\ n1 = O * F + (n1 % O)
      /\ G \in Nat /\ n2 % O \in 0..(O - 1) /\ n2 = O * G + (n2 % O)
  BY <1>1, <1>2, DivMod
<1>4. n1 < O * F + O /\ O * G <= n2
  BY <1>1, <1>3
<1>n. Net(rate, bps, rate * k) = rate * k - remove_dust(rate, F)
      /\ Net(rate, bps, rate * m) = rate * m - remove_dust(rate, G)
  BY DEF Net, n1, n2
<1> HIDE DEF F, G
<1>5. /\ p \in Nat /\ F % rate \in 0..(rate - 1) /\ F = rate * p + (F % rate)
      /\ q \in Nat /\ G % rate \in 0..(rate - 1) /\ G = rate * q + (G % rate)
  BY <1>3, DivMod
<1>6. F < rate * p + rate /\ rate * q <= G
  BY <1>3, <1>5
<1>7. remove_dust(rate, F) = rate * p /\ remove_dust(rate, G) = rate * q
  BY <1>3, <1>5 DEF remove_dust
<1> HIDE DEF p, q, d, O
<1>8. q <= p + d
  <2> SUFFICES ASSUME q >= p + d + 1 PROVE FALSE
    BY <1>1, <1>5
  <2>1. rate * q >= rate * (p + d + 1)
    BY <1>1, <1>5
  <2>2. rate * (p + d + 1) = rate * p + rate * d + rate
    BY <1>1, <1>5
  <2> DEFINE x == rate * d
  <2>3. x \in Nat /\ rate * p \in Nat /\ rate * q \in Nat
    BY <1>1, <1>5
  <2>4. G >= F + x + 1
    BY <1>3, <1>6, <2>1, <2>2, <2>3
  <2>5. n2 = n1 + x * bps
    <3>1. rate * m = rate * k + x
      BY <1>1 DEF d
    <3> HIDE DEF x
    <3>2. (rate * k + x) * bps = (rate * k) * bps + x * bps
      BY <1>1, <1>2, <2>3
    <3> QED
      BY <3>1, <3>2 DEF n1, n2
  <2> HIDE DEF x
  <2>6. O * G >= O * (F + x + 1)
    BY <1>1, <1>3, <2>3, <2>4
  <2>7. O * (F + x + 1) = O * F + O * x + O
    BY <1>1, <1>3, <2>3
  <2>8. x * bps <= O * x /\ x * bps \in Nat /\ O * x \in Nat /\ O * F \in Nat /\ O * G \in Nat
    BY <1>1, <1>3, <2>3
  <2> QED
    BY <1>1, <1>2, <1>4, <2>5, <2>6, <2>7, <2>8
<1>9. rate * k - rate * p <= rate * m - rate * q
  <2>1. rate * q <= rate * (p + d)
    BY <1>1, <1>5, <1>8
  <2>2. rate * (p + d) = rate * p + (rate * m - rate * k)
    BY <1>1, <1>5 DEF d
  <2>3. rate * p \in Nat /\ rate * q \in Nat
    BY <1>5
  <2> QED
    BY <1>2, <2>1, <2>2, <2>3
<1> QED
  BY <1>n, <1>7, <1>9

-----------------------------------------------------------------------------
(* What a quote computes.                                                  *)

Configuration ==
    /\ store \in [oft_type : {"Native", "Adapter"}, ld2sd_rate : Rates,
                  default_fee_bps : Bps, paused : BOOLEAN]
    /\ fee_bps \in Bps \cup {None}
    /\ tfee \in TransferFees

Arrives(x) == IF store.oft_type = "Adapter" THEN get_post_fee_amount_ld(tfee, x) ELSE x

Clean(x) == remove_dust(store.ld2sd_rate, Arrives(x))

FinalBps == IF fee_bps = None THEN store.default_fee_bps ELSE fee_bps

LEMMA ConfigFacts ==
    ASSUME Configuration
    PROVE  /\ store.oft_type \in {"Native", "Adapter"}
           /\ store.ld2sd_rate \in Nat \ {0}
           /\ store.default_fee_bps \in 0..(OneInBps - 1)
           /\ fee_bps \in (0..(OneInBps - 1)) \cup {None}
           /\ tfee \in TransferFee
           /\ FinalBps \in 0..OneInBps
           /\ OneInBps \in Nat \ {0}
<1>1. OneInBps \in Nat \ {0} /\ Rates \subseteq Nat \ {0} /\ TransferFees \subseteq TransferFee
  BY QuoteAssumption, BpsAssumption
<1>2. /\ store.oft_type \in {"Native", "Adapter"}
      /\ store.ld2sd_rate \in Rates
      /\ store.default_fee_bps \in Bps
      /\ fee_bps \in Bps \cup {None}
      /\ tfee \in TransferFees
  BY DEF Configuration
<1>3. FinalBps \in Bps
  BY <1>2 DEF FinalBps
<1>4. Bps = 0..(OneInBps - 1) /\ Bps \subseteq 0..OneInBps
  BY <1>1 DEF Bps
<1> QED
  BY <1>1, <1>2, <1>3, <1>4

\* Debit, delivery and fee in terms of the clean amount.
LEMMA ComputedFacts ==
    ASSUME Configuration, NEW x \in Nat
    PROVE  /\ Arrives(x) \in 0..x
           /\ Clean(x) \in 0..Arrives(x)
           /\ \E k \in Nat : Clean(x) = store.ld2sd_rate * k
           /\ Computed(x).received = Net(store.ld2sd_rate, FinalBps, Clean(x))
           /\ Computed(x).received + Computed(x).fee = Clean(x)
           /\ Computed(x).received \in Nat /\ Computed(x).fee \in Nat
           /\ Computed(x).sent = IF store.oft_type = "Adapter"
                                 THEN calculate_pre_fee_amount(tfee, Clean(x)) ELSE Clean(x)
           /\ Computed(x).sent \in 0..x
           /\ store.oft_type = "Adapter" =>
                get_post_fee_amount_ld(tfee, Computed(x).sent) = Clean(x)
<1> DEFINE rate == store.ld2sd_rate
           fee == remove_dust(rate, (Clean(x) * FinalBps) \div OneInBps)
<1>1. /\ store.oft_type \in {"Native", "Adapter"}
      /\ store.ld2sd_rate \in Nat \ {0}
      /\ store.default_fee_bps \in 0..(OneInBps - 1)
      /\ fee_bps \in (0..(OneInBps - 1)) \cup {None}
      /\ tfee \in TransferFee
  BY ConfigFacts
<1>2. Arrives(x) \in 0..x
  BY <1>1, TransferFeeBounds DEF Arrives, get_post_fee_amount_ld
<1>3. Clean(x) \in 0..Arrives(x) /\ \E k \in Nat : Clean(x) = rate * k
  <2>1. Arrives(x) \in Nat
    BY <1>2
  <2> QED
    BY <1>1, <2>1, DustFacts DEF Clean
<1>4. Computed(x) = [sent |-> IF store.oft_type = "Adapter"
                              THEN calculate_pre_fee_amount(tfee, Clean(x)) ELSE Clean(x),
                     received |-> Clean(x) - fee, fee |-> fee]
  BY DEF Computed, compute_fee_and_adjust_amount, calculate_fee, Clean, Arrives, FinalBps
<1>5. /\ Computed(x).sent \in 0..x
      /\ Computed(x).received \in Nat /\ Computed(x).fee \in Nat
  BY <1>1, ComputeFacts DEF Computed
<1>6. store.oft_type = "Adapter" =>
        get_post_fee_amount_ld(tfee, Computed(x).sent)
          = Computed(x).received + Computed(x).fee
  BY <1>1, ComputeFacts DEF Computed
<1>7. /\ Computed(x).received = Net(rate, FinalBps, Clean(x))
      /\ Computed(x).received = Clean(x) - fee /\ Computed(x).fee = fee
      /\ Computed(x).sent = IF store.oft_type = "Adapter"
                            THEN calculate_pre_fee_amount(tfee, Clean(x)) ELSE Clean(x)
  BY <1>4 DEF Net
<1> HIDE DEF fee
<1>8. Clean(x) \in Nat
  BY <1>2, <1>3
<1>9. Computed(x).received + Computed(x).fee = Clean(x)
  BY <1>5, <1>7, <1>8
<1> QED
  BY <1>2, <1>3, <1>5, <1>6, <1>7, <1>9

-----------------------------------------------------------------------------
(* The invariant: an answer is what the present configuration computes.    *)

Answer(x) == [amount_ld |-> x, sent |-> Computed(x).sent, received |-> Computed(x).received,
              details |-> oft_fee_details(Computed(x))]

QuoteInv ==
    /\ Configuration
    /\ answer # None => \E x \in Nat : answer = Answer(x)

\* The answer kept is one that quote_oft computes from the configuration.
LEMMA QuoteIsComputed == Spec => []QuoteInv
<1>1. Init => QuoteInv
  BY DEF Init, QuoteInv, Configuration
<1>2. QuoteInv /\ [Next]_vars => QuoteInv'
  <2> SUFFICES ASSUME QuoteInv, [Next]_vars PROVE QuoteInv'
    OBVIOUS
  <2>1. UNCHANGED <<store, fee_bps, tfee>>
    BY DEF Next, QuoteOFT, vars
  <2>2. Configuration'
    BY <2>1 DEF QuoteInv, Configuration
  <2>3. \A x : Answer(x)' = Answer(x)
    BY <2>1 DEF Answer, Computed
  <2>4. CASE UNCHANGED vars
    <3>1. answer' = answer
      BY <2>4 DEF vars
    <3> QED
      BY <2>2, <2>3, <3>1 DEF QuoteInv
  <2>5. ASSUME NEW x \in 0..MaxAmount, NEW m \in MinAmounts, QuoteOFT(x, m)
        PROVE  QuoteInv'
    <3>1. x \in Nat
      BY QuoteAssumption, U64Assumption DEF U64
    <3>2. answer' = Answer(x)
      BY <2>5 DEF QuoteOFT, Answer
    <3> QED
      BY <2>2, <2>3, <3>1, <3>2 DEF QuoteInv
  <2> QED
    BY <2>4, <2>5 DEF Next
<1> QED
  BY <1>1, <1>2, PTL DEF Spec

LEMMA TwoItems ==
    ASSUME NEW a \in Int, NEW b \in Int
    PROVE  /\ Len(<<a>> \o <<b>>) = 2
           /\ (<<a>> \o <<b>>)[1] = a /\ (<<a>> \o <<b>>)[2] = b
<1>1. <<a>> \in Seq(Int) /\ <<b>> \in Seq(Int)
  OBVIOUS
<1> QED
  BY <1>1

LEMMA OneItem ==
    ASSUME NEW a \in Int
    PROVE  /\ Len(<<a>> \o <<>>) = 1 /\ (<<a>> \o <<>>)[1] = a
           /\ Len(<<>> \o <<a>>) = 1 /\ (<<>> \o <<a>>)[1] = a
           /\ Len(<<>> \o <<>>) = 0
<1> DEFINE e == << >>
<1>1. <<a>> \in Seq(Int) /\ e \in Seq(Int) /\ Len(e) = 0
  OBVIOUS
<1> HIDE DEF e
<1>2. /\ Len(<<a>> \o e) = 1 /\ (<<a>> \o e)[1] = a
      /\ Len(e \o <<a>>) = 1 /\ (e \o <<a>>)[1] = a
      /\ Len(e \o e) = 0
  BY <1>1
<1> QED
  BY <1>2 DEF e

\* The fees a quote lists are exactly the difference between the debit and the
\* delivery (quote_oft, oft_fee_details).
THEOREM QuotesAddUp == Spec => []QuoteAddsUp
<1>1. QuoteInv => QuoteAddsUp
  <2> SUFFICES ASSUME QuoteInv, answer # None
               PROVE  LET fee(i) == IF i <= Len(answer.details) THEN answer.details[i] ELSE 0
                      IN  answer.sent = answer.received + fee(1) + fee(2)
    BY DEF QuoteAddsUp
  <2>1. PICK x \in Nat : answer = Answer(x)
    BY DEF QuoteInv
  <2> DEFINE amt == Computed(x)
             listed == (IF amt.received + amt.fee < amt.sent
                        THEN <<amt.sent - amt.fee - amt.received>> ELSE <<>>)
                       \o (IF amt.fee > 0 THEN <<amt.fee>> ELSE <<>>)
  <2>2. /\ answer.sent = amt.sent /\ answer.received = amt.received
        /\ answer.details = listed
    BY <2>1 DEF Answer, oft_fee_details
  <2>3. /\ amt.sent \in Nat /\ amt.received \in Nat /\ amt.fee \in Nat
        /\ amt.received + amt.fee <= amt.sent
    <3>1. /\ amt.sent \in 0..x /\ amt.received \in Nat /\ amt.fee \in Nat
          /\ amt.received + amt.fee = Clean(x)
          /\ amt.sent = IF store.oft_type = "Adapter"
                        THEN calculate_pre_fee_amount(tfee, Clean(x)) ELSE Clean(x)
          /\ store.oft_type = "Adapter" => get_post_fee_amount_ld(tfee, amt.sent) = Clean(x)
          /\ tfee \in TransferFee
      BY ComputedFacts, ConfigFacts DEF QuoteInv
    <3> HIDE DEF amt
    <3>2. amt.sent \in Nat
      BY <3>1
    <3>3. get_post_fee_amount_ld(tfee, amt.sent) <= amt.sent
      BY <3>1, <3>2, TransferFeeBounds DEF get_post_fee_amount_ld
    <3> QED
      BY <3>1, <3>2, <3>3
  <2> HIDE DEF amt
  <2> DEFINE taken == amt.sent - amt.fee - amt.received
  <2>4. taken \in Int
    BY <2>3
  <2>5. /\ Len(<<taken>> \o << >>) = 1 /\ (<<taken>> \o << >>)[1] = taken
        /\ Len(<< >> \o <<amt.fee>>) = 1 /\ (<< >> \o <<amt.fee>>)[1] = amt.fee
        /\ Len(<< >> \o << >>) = 0
    <3> HIDE DEF taken
    <3>1. amt.fee \in Int
      BY <2>3
    <3> QED
      BY <2>4, <3>1, OneItem, Zenon
  <2>6. CASE amt.received + amt.fee < amt.sent /\ amt.fee > 0
    <3>1. listed = <<taken>> \o <<amt.fee>>
      BY <2>6
    <3>2. Len(listed) = 2 /\ listed[1] = amt.sent - amt.fee - amt.received /\ listed[2] = amt.fee
      BY <2>3, <3>1, TwoItems
    <3> HIDE DEF listed
    <3> QED
      BY <2>2, <2>3, <3>2
  <2>7. CASE amt.received + amt.fee < amt.sent /\ ~(amt.fee > 0)
    <3>1. listed = <<taken>> \o << >>
      BY <2>7
    <3>2. Len(listed) = 1 /\ listed[1] = taken
      BY <2>5, <3>1, Zenon
    <3> HIDE DEF listed
    <3> QED
      BY <2>2, <2>3, <2>7, <3>2
  <2>8. CASE ~(amt.received + amt.fee < amt.sent) /\ amt.fee > 0
    <3>1. listed = << >> \o <<amt.fee>>
      BY <2>8
    <3>2. Len(listed) = 1 /\ listed[1] = amt.fee
      BY <2>5, <3>1, Zenon
    <3> HIDE DEF listed
    <3> QED
      BY <2>2, <2>3, <2>8, <3>2
  <2>9. CASE ~(amt.received + amt.fee < amt.sent) /\ ~(amt.fee > 0)
    <3>1. listed = << >> \o << >>
      BY <2>9
    <3>2. Len(listed) = 0
      BY <2>5, <3>1, Zenon
    <3> HIDE DEF listed
    <3> QED
      BY <2>2, <2>3, <2>9, <3>2
  <2> QED
    BY <2>6, <2>7, <2>8, <2>9
<1> QED
  BY <1>1, QuoteIsComputed, PTL

\* Asking again with the quoted debit gives the same debit and delivery: the
\* transfer fee and the dust are taken off only once (quote_oft then send).
THEOREM QuotesAreFixpoints == Spec => []QuoteIsFixpoint
<1>1. QuoteInv => QuoteIsFixpoint
  <2> SUFFICES ASSUME QuoteInv, answer # None
               PROVE  /\ Computed(answer.sent).sent = answer.sent
                      /\ Computed(answer.sent).received = answer.received
    BY DEF QuoteIsFixpoint
  <2>1. PICK x \in Nat : answer = Answer(x)
    BY DEF QuoteInv
  <2> DEFINE y == Computed(x).sent
  <2>2. answer.sent = y /\ answer.received = Computed(x).received
    BY <2>1 DEF Answer
  <2>3. /\ y \in 0..x
        /\ store.oft_type = "Adapter" => get_post_fee_amount_ld(tfee, y) = Clean(x)
        /\ store.oft_type # "Adapter" => y = Clean(x)
        /\ y = IF store.oft_type = "Adapter"
               THEN calculate_pre_fee_amount(tfee, Clean(x)) ELSE Clean(x)
        /\ Computed(x).received = Net(store.ld2sd_rate, FinalBps, Clean(x))
    BY ComputedFacts DEF QuoteInv
  <2> HIDE DEF y
  <2>4. y \in Nat
    BY <2>3
  <2>5. Arrives(y) = Clean(x)
    BY <2>3 DEF Arrives
  <2>6. Clean(y) = Clean(x)
    <3>1. PICK k \in Nat : Clean(x) = store.ld2sd_rate * k
      BY ComputedFacts DEF QuoteInv
    <3>2. store.ld2sd_rate \in Nat \ {0}
      BY ConfigFacts DEF QuoteInv
    <3> QED
      BY <2>5, <3>1, <3>2, DustFree DEF Clean
  <2>7. /\ Computed(y).received = Net(store.ld2sd_rate, FinalBps, Clean(y))
        /\ Computed(y).sent = IF store.oft_type = "Adapter"
                              THEN calculate_pre_fee_amount(tfee, Clean(y)) ELSE Clean(y)
    BY <2>4, ComputedFacts DEF QuoteInv
  <2> QED
    BY <2>2, <2>3, <2>6, <2>7
<1> QED
  BY <1>1, QuoteIsComputed, PTL

\* No smaller debit would bring in what the quote promises and the fee
\* (calculate_pre_fee_amount).
THEOREM DebitsAreLeast == Spec => []DebitIsLeast
<1>1. QuoteInv => DebitIsLeast
  <2> SUFFICES ASSUME QuoteInv, answer # None, store.oft_type = "Adapter"
               PROVE  LET goal == answer.received + Computed(answer.amount_ld).fee
                      IN  /\ get_post_fee_amount_ld(tfee, answer.sent) = goal
                          /\ \A y \in 0..(answer.sent - 1) :
                               get_post_fee_amount_ld(tfee, y) < goal
    BY DEF DebitIsLeast
  <2>1. PICK x \in Nat : answer = Answer(x)
    BY DEF QuoteInv
  <2> DEFINE sent == Computed(x).sent
  <2>2. /\ answer.sent = sent /\ answer.received = Computed(x).received
        /\ answer.amount_ld = x
    BY <2>1 DEF Answer
  <2>3. /\ Computed(x).received + Computed(x).fee = Clean(x)
        /\ Computed(x).received \in Nat /\ Computed(x).fee \in Nat
        /\ sent \in 0..x /\ sent = calculate_pre_fee_amount(tfee, Clean(x))
        /\ get_post_fee_amount_ld(tfee, sent) = Clean(x)
        /\ tfee \in TransferFee
    BY ComputedFacts, ConfigFacts DEF QuoteInv
  <2> HIDE DEF sent
  <2>4. Clean(x) \in Nat
    BY <2>3
  <2>5. ASSUME NEW y \in 0..(sent - 1)
        PROVE  get_post_fee_amount_ld(tfee, y) < Clean(x)
    <3>1. y \in Nat /\ y < sent /\ sent \in Nat
      BY <2>3
    <3>2. get_post_fee_amount_ld(tfee, y) \in Nat
      BY <2>3, <3>1, TransferFeeBounds DEF get_post_fee_amount_ld
    <3>3. ~(Clean(x) <= get_post_fee_amount_ld(tfee, y))
      <4> SUFFICES ASSUME Clean(x) <= get_post_fee_amount_ld(tfee, y) PROVE FALSE
        OBVIOUS
      <4>1. sent <= y
        BY <2>3, <2>4, <3>1, PreFeeIsLeast
      <4> QED
        BY <3>1, <4>1
    <3> QED
      BY <2>4, <3>2, <3>3
  <2> QED
    BY <2>2, <2>3, <2>5
<1> QED
  BY <1>1, QuoteIsComputed, PTL

\* Offering more never delivers less, through both fees and both roundings
\* (compute_fee_and_adjust_amount).
THEOREM QuotesAreMonotonic == Spec => []MoreGivesMore
<1>1. QuoteInv => MoreGivesMore
  <2> SUFFICES ASSUME QuoteInv, answer # None, NEW y \in 0..answer.amount_ld
               PROVE  Computed(y).received <= answer.received
    BY DEF MoreGivesMore
  <2>1. PICK x \in Nat : answer = Answer(x)
    BY DEF QuoteInv
  <2>2. y \in Nat /\ y <= x /\ answer.received = Computed(x).received
    BY <2>1 DEF Answer
  <2>3. /\ tfee \in TransferFee /\ store.ld2sd_rate \in Nat \ {0} /\ FinalBps \in 0..OneInBps
        /\ Configuration
    BY ConfigFacts DEF QuoteInv
  <2>4. Arrives(y) <= Arrives(x) /\ Arrives(y) \in Nat /\ Arrives(x) \in Nat
    <3>1. Arrives(y) \in 0..y /\ Arrives(x) \in 0..x
      BY <2>2, <2>3, ComputedFacts
    <3>2. Arrives(y) <= Arrives(x)
      BY <2>2, <2>3, PostFeeMonotonic DEF Arrives
    <3> QED
      BY <2>2, <3>1, <3>2
  <2>5. Clean(y) <= Clean(x)
    BY <2>3, <2>4, DustMonotonic DEF Clean
  <2>6. PICK k \in Nat : Clean(y) = store.ld2sd_rate * k
    BY <2>2, <2>3, ComputedFacts
  <2>7. PICK m \in Nat : Clean(x) = store.ld2sd_rate * m
    BY <2>2, <2>3, ComputedFacts
  <2>8. k <= m
    <3> DEFINE rate == store.ld2sd_rate
    <3>1. rate * k <= rate * m /\ rate \in Nat \ {0}
      BY <2>3, <2>5, <2>6, <2>7
    <3> HIDE DEF rate
    <3> QED
      BY <3>1
  <2>9. Net(store.ld2sd_rate, FinalBps, Clean(y)) <= Net(store.ld2sd_rate, FinalBps, Clean(x))
    BY <2>3, <2>6, <2>7, <2>8, NetMonotonic
  <2> QED
    BY <2>2, <2>3, <2>9, ComputedFacts
<1> QED
  BY <1>1, QuoteIsComputed, PTL

=============================================================================
