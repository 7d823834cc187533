------------------------------ MODULE OFTAmounts ------------------------------
(***************************************************************************)
(* The amount arithmetic of the Solana OFT program: local decimals (LD)    *)
(* against shared decimals (SD), dust removal, the cross-chain fee and the *)
(* Token-2022 transfer fee (state/oft.rs, instructions/quote_send.rs).     *)
(*                                                                         *)
(* The program is built with overflow-checks = true, so a u64 result that  *)
(* does not fit aborts the instruction; the operators return the exact     *)
(* integer and callers guard it with FitsU64.                              *)
(***************************************************************************)
EXTENDS Integers

CONSTANTS
    U64Max,      \* u64::MAX
    OneInBps,    \* ONE_IN_BASIS_POINTS, 10_000 in the code
    None         \* Rust's None, for every Option the program stores

ASSUME U64Assumption == U64Max \in Nat \ {0}
ASSUME BpsAssumption == OneInBps \in Nat \ {0} /\ OneInBps <= U64Max

U64 == 0..U64Max

FitsU64(n) == n <= U64Max

MinOf(a, b) == IF a <= b THEN a ELSE b

(***************************************************************************)
(* A Token-2022 TransferFee: basis points and a cap.  A mint without the   *)
(* TransferFeeConfig extension behaves exactly as one with bps = 0.        *)
(***************************************************************************)
TransferFee == [bps : 0..OneInBps, max : U64]

NoTransferFee == [bps |-> 0, max |-> 0]

-----------------------------------------------------------------------------
(* state/oft.rs: conversions between LD and SD.  rate is ld2sd_rate.       *)

ld2sd(rate, amount_ld) == amount_ld \div rate

\* Mutant: the amount of a packet is taken to be in local decimals already.
sd2ld_unscaled(rate, amount_sd) == amount_sd

sd2ld(rate, amount_sd) == amount_sd * rate

remove_dust(rate, amount_ld) == amount_ld - (amount_ld % rate)

-----------------------------------------------------------------------------
(* instructions/quote_send.rs                                              *)

\* The u128 intermediates never overflow: u64 * 10_000 + 10_000 < 2^128.
ceil_div(numerator, denominator) == (numerator + denominator - 1) \div denominator

\* Mutant: the division comes before the multiplication.
calculate_fee_divided_first(pre_fee_amount, default_fee_bps, fee_bps) ==
    (pre_fee_amount \div OneInBps) * (IF fee_bps = None THEN default_fee_bps ELSE fee_bps)

\* The cross-chain fee; a peer's own fee_bps replaces the default.
calculate_fee(pre_fee_amount, default_fee_bps, fee_bps) ==
    LET final_fee_bps == IF fee_bps = None THEN default_fee_bps ELSE fee_bps
    IN  (pre_fee_amount * final_fee_bps) \div OneInBps

\* External (spl-token-2022): what a transfer of amount withholds.
transfer_fee(fee, amount) ==
    MinOf(ceil_div(amount * fee.bps, OneInBps), fee.max)

get_post_fee_amount_ld(fee, amount) == amount - transfer_fee(fee, amount)

\* Mutants: the maximum fee is forgotten; the fee of the net amount is added to it.
calculate_pre_fee_amount_uncapped(fee, post_fee_amount) ==
    IF fee.bps = 0 \/ post_fee_amount = 0 THEN post_fee_amount
    ELSE IF fee.bps = OneInBps THEN fee.max + post_fee_amount
    ELSE ceil_div(post_fee_amount * OneInBps, OneInBps - fee.bps)

calculate_pre_fee_amount_of_net(fee, post_fee_amount) ==
    post_fee_amount + transfer_fee(fee, post_fee_amount)

\* The amount to transfer so that post_fee_amount arrives.
calculate_pre_fee_amount(fee, post_fee_amount) ==
    LET raw == ceil_div(post_fee_amount * OneInBps, OneInBps - fee.bps)
    IN  IF fee.bps = 0 \/ post_fee_amount = 0 THEN post_fee_amount
        ELSE IF fee.bps = OneInBps             THEN fee.max + post_fee_amount
        ELSE IF raw - post_fee_amount >= fee.max THEN post_fee_amount + fee.max
        ELSE raw

\* Mutant: the fee keeps its dust, which no packet can carry.
compute_fee_with_dust(amount_ld, cfg, tfee, fee_bps) ==
    LET adapter == cfg.oft_type = "Adapter"
        clean   == remove_dust(cfg.ld2sd_rate,
                       IF adapter THEN get_post_fee_amount_ld(tfee, amount_ld)
                                  ELSE amount_ld)
        fee     == calculate_fee(clean, cfg.default_fee_bps, fee_bps)
    IN  [ sent     |-> IF adapter THEN calculate_pre_fee_amount(tfee, clean) ELSE clean,
          received |-> clean - fee,
          fee      |-> fee ]

(***************************************************************************)
(* What a transfer of amount_ld debits (sent), promises to the other chain *)
(* (received) and charges (fee).  cfg is the OFT store: its oft_type,      *)
(* ld2sd_rate and default_fee_bps.                                         *)
(***************************************************************************)
compute_fee_and_adjust_amount(amount_ld, cfg, tfee, fee_bps) ==
    LET adapter == cfg.oft_type = "Adapter"
        arrives == IF adapter THEN get_post_fee_amount_ld(tfee, amount_ld)
                              ELSE amount_ld
        clean   == remove_dust(cfg.ld2sd_rate, arrives)
        fee     == remove_dust(cfg.ld2sd_rate,
                       calculate_fee(clean, cfg.default_fee_bps, fee_bps))
    IN  [ sent     |-> IF adapter THEN calculate_pre_fee_amount(tfee, clean)
                                  ELSE clean,
          received |-> clean - fee,
          fee      |-> fee ]

=============================================================================
