------------------------------- MODULE OFTQuote -------------------------------
(***************************************************************************)
(* quote_oft (instructions/quote_oft.rs): what a caller is told a transfer *)
(* will debit, deliver and cost.  The instruction writes no account; its   *)
(* last answer is kept here so that the arithmetic of OFTAmounts can be    *)
(* compared with reference definitions over every configuration.           *)
(***************************************************************************)
EXTENDS OFTAmounts, Sequences

CONSTANTS
    Rates,         \* ld2sd_rates
    TransferFees,  \* transfer fees of the mint
    MaxAmount,     \* largest amount_ld a caller names
    MinAmounts     \* min_amount_ld of callers

ASSUME QuoteAssumption ==
    /\ Rates \subseteq Nat \ {0}
    /\ TransferFees \subseteq TransferFee
    /\ MaxAmount \in U64 /\ MinAmounts \subseteq U64

VARIABLES
    store,     \* the fields of OFTStore that a quote reads
    fee_bps,   \* the peer's fee, None for the default one
    tfee,      \* the mint's transfer fee in this epoch
    answer     \* the last QuoteOFTResult and its request, None before

vars == <<store, fee_bps, tfee, answer>>

Bps == 0..(OneInBps - 1)

Init ==
    /\ store \in [oft_type : {"Native", "Adapter"}, ld2sd_rate : Rates,
                  default_fee_bps : Bps, paused : BOOLEAN]
    /\ fee_bps \in Bps \cup {None}
    /\ tfee \in TransferFees
    /\ answer = None

Computed(amount_ld) == compute_fee_and_adjust_amount(amount_ld, store, tfee, fee_bps)

\* Mutant: the cross-chain fee is listed only when there is no transfer fee.
oft_fee_details_one(amt) ==
    IF amt.received + amt.fee < amt.sent
    THEN <<amt.sent - amt.fee - amt.received>>
    ELSE IF amt.fee > 0 THEN <<amt.fee>> ELSE <<>>

\* The Token-2022 fee first, then the cross-chain fee, each only if charged.
oft_fee_details(amt) ==
    (IF amt.received + amt.fee < amt.sent
     THEN <<amt.sent - amt.fee - amt.received>> ELSE <<>>)
    \o (IF amt.fee > 0 THEN <<amt.fee>> ELSE <<>>)

QuoteOFT(amount_ld, min_amount_ld) ==
    LET amt == Computed(amount_ld)
    IN  /\ ~store.paused
        /\ FitsU64(amt.sent)
        /\ amt.received >= min_amount_ld
        /\ answer' = [amount_ld |-> amount_ld, sent |-> amt.sent, received |-> amt.received,
                      details |-> oft_fee_details(amt)]
        /\ UNCHANGED <<store, fee_bps, tfee>>

Next ==
    \E amount_ld \in 0..MaxAmount, min_amount_ld \in MinAmounts :
        QuoteOFT(amount_ld, min_amount_ld)

Spec == Init /\ [][Next]_vars

-----------------------------------------------------------------------------
\* The fees listed in a quote are what the debit and the delivery differ by.
QuoteAddsUp ==
    answer # None =>
      LET fee(i) == IF i <= Len(answer.details) THEN answer.details[i] ELSE 0
      IN  answer.sent = answer.received + fee(1) + fee(2)

\* A quote can be acted on: asking again with the quoted debit returns the same
\* debit and the same delivery, so re-quoting never ratchets an amount down.
QuoteIsFixpoint ==
    answer # None =>
      LET again == Computed(answer.sent)
      IN  again.sent = answer.sent /\ again.received = answer.received

\* Reference for calculate_pre_fee_amount: the debit is the least amount whose
\* transfer brings in what the quote promises plus the cross-chain fee.
DebitIsLeast ==
    answer # None /\ store.oft_type = "Adapter" =>
      LET goal == answer.received + Computed(answer.amount_ld).fee
      IN  /\ get_post_fee_amount_ld(tfee, answer.sent) = goal
          /\ \A x \in 0..(answer.sent - 1) : get_post_fee_amount_ld(tfee, x) < goal

\* Offering more never delivers less, whatever rounding does at each stage.
MoreGivesMore ==
    answer # None =>
      \A x \in 0..answer.amount_ld : Computed(x).received <= answer.received

=============================================================================
