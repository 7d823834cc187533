----------------------------- MODULE OFTMessages -----------------------------
(***************************************************************************)
(* What travels: the message quote_send prices, the message send hands to  *)
(* the endpoint, what lz_receive reads of it and what a composer reads of  *)
(* the message lz_receive queues.  Configuration may change in between.    *)
(* Balances and limits are SolanaOFT's; here are the bytes and options.    *)
(***************************************************************************)
EXTENDS OFTAmounts, OFTOptions, Sequences

CONSTANTS
    ByteBase,      \* 256 in the code
    Store,         \* oft_type, ld2sd_rate and default_fee_bps of the OFT store
    Configs,       \* states of the peer, the pause flag and the mint's fee
    Recipients, Signers,   \* 32-byte addresses
    Payloads,      \* compose_msg: None or bytes, no bytes among them
    Extras,        \* options that callers pass
    Amounts, MinAmounts, Nonces, SrcEids

Pubkey == Signers \cup Recipients

Msg == INSTANCE MsgCodec

Compose == INSTANCE ComposeMsgCodec

ASSUME ByteBaseAssumption == ByteBase \in Nat \ {0, 1}
ASSUME PowerAssumption ==
    ByteBase^0 = 1 /\ \A n \in 0..7 : ByteBase^(n + 1) = ByteBase * ByteBase^n
ASSUME WidthAssumption ==
    /\ U64Max = ByteBase^8 - 1 /\ Amounts \cup Nonces \subseteq U64
    /\ SrcEids \subseteq 0..(ByteBase^4 - 1)
ASSUME PubkeyAssumption == Pubkey \subseteq [1..32 -> Msg!Byte]
ASSUME PayloadAssumption ==
    None \notin Seq(Msg!Byte) /\ Payloads \subseteq Seq(Msg!Byte) \cup {None}
ASSUME StoreAssumption ==
    /\ Store.oft_type \in {"Native", "Adapter"} /\ Store.ld2sd_rate \in Nat \ {0}
    /\ Store.default_fee_bps \in 0..(OneInBps - 1)
ASSUME ConfigAssumption ==
    \A c \in Configs : c.fee \in TransferFee /\ c.fee_bps \in (0..(OneInBps - 1)) \cup {None}

VARIABLES
    config,     \* what both instructions read
    quoted,     \* what quote_send last asked the endpoint to price
    sent,       \* what send last gave to the endpoint
    received,   \* what lz_receive last read of a message
    composed    \* what it queued for the composer

vars == <<config, quoted, sent, received, composed>>

Params == [to : Recipients, amount_ld : Amounts, min_amount_ld : MinAmounts,
           compose_msg : Payloads, options : Extras]

Init ==
    /\ config \in Configs
    /\ quoted = None /\ sent = None /\ received = None /\ composed = None

\* Pubkey::default().
DefaultKey == [i \in 1..32 |-> 0]

Computed(params) ==
    compute_fee_and_adjust_amount(params.amount_ld, Store, config.fee, config.fee_bps)

\* The checks quote_send and send share.
Accepted(params) ==
    /\ ~config.paused
    /\ FitsU64(Computed(params).sent)
    /\ Computed(params).received >= params.min_amount_ld
    /\ CanCombine(get_enforced_options(config, params.compose_msg # None), params.options)

CombinedOptions(params) ==
    combine_options(get_enforced_options(config, params.compose_msg # None), params.options)

\* Mutant: the price is asked for a message without its composed part.
quoted_message_plain(params) ==
    Msg!encode(params.to, Computed(params).received, DefaultKey, None)

\* The priced message has the amount in local decimals and no sender: only its
\* length has to be right.
quoted_message(params) ==
    Msg!encode(params.to, Computed(params).received, DefaultKey, params.compose_msg)

QuoteSend(params) ==
    /\ Accepted(params)
    /\ quoted' = [params |-> params, config |-> config, receiver |-> config.peer_address,
                  message |-> quoted_message(params), options |-> CombinedOptions(params)]
    /\ UNCHANGED <<config, sent, received, composed>>

Send(params, signer) ==
    /\ Accepted(params)
    /\ sent' = [params |-> params, config |-> config, signer |-> signer,
                receiver |-> config.peer_address,
                amount_received_ld |-> Computed(params).received,
                message |-> Msg!encode(params.to,
                                ld2sd(Store.ld2sd_rate, Computed(params).received),
                                signer, params.compose_msg),
                options |-> CombinedOptions(params)]
    /\ UNCHANGED <<config, quoted, received, composed>>

\* lz_receive of a message of the same layout, which both OFTs share.
LzReceive(nonce, src_eid) ==
    LET amount_ld == sd2ld(Store.ld2sd_rate, Msg!amount_sd(sent.message))
        amount_received_ld == IF Store.oft_type = "Adapter"
                              THEN get_post_fee_amount_ld(config.fee, amount_ld) ELSE amount_ld
        message == Msg!compose_msg(sent.message)
    IN  /\ sent # None
        /\ ~config.paused
        /\ FitsU64(amount_ld)
        /\ received' = [of |-> sent, to |-> Msg!send_to(sent.message), nonce |-> nonce,
                        src_eid |-> src_eid, amount_ld |-> amount_ld,
                        amount_received_ld |-> amount_received_ld]
        /\ composed' = IF message = None THEN None
                       ELSE Compose!encode(nonce, src_eid, amount_received_ld, message)
        /\ UNCHANGED <<config, quoted, sent>>

Reconfigure ==
    /\ config' \in Configs \ {config}
    /\ UNCHANGED <<quoted, sent, received, composed>>

Next ==
    \/ \E params \in Params : QuoteSend(params) \/ \E signer \in Signers : Send(params, signer)
    \/ \E nonce \in Nonces, src_eid \in SrcEids : LzReceive(nonce, src_eid)
    \/ Reconfigure

Spec == Init /\ [][Next]_vars

-----------------------------------------------------------------------------
\* A transfer that was quoted and is sent under the same configuration is what
\* the quote priced: a message of the same length to the same receiver with the
\* same options, although quote_send encodes another amount and no sender.
QuotePricesSend ==
    (/\ quoted # None /\ sent # None
     /\ quoted.params = sent.params /\ quoted.config = sent.config)
      => /\ Len(quoted.message) = Len(sent.message)
         /\ quoted.receiver = sent.receiver
         /\ quoted.options = sent.options

\* What lz_receive pays, and to whom, is what send promised; a composer runs for
\* exactly the messages that were sent with a compose_msg, an empty one included,
\* and reads the nonce, source and credited amount of the packet, the signer of
\* the send and the caller's bytes, although two codecs cut the same bytes at
\* offsets kept by hand.
ReadAsWritten ==
    received # None =>
      /\ received.to = received.of.params.to
      /\ received.amount_ld = received.of.amount_received_ld
      /\ (composed # None) = (received.of.params.compose_msg # None)
      /\ composed # None =>
           /\ Compose!nonce(composed) = received.nonce
           /\ Compose!src_eid(composed) = received.src_eid
           /\ Compose!amount_ld(composed) = received.amount_received_ld
           /\ Compose!compose_from(composed) = received.of.signer
           /\ Compose!compose_msg(composed) = received.of.params.compose_msg


\* The receiver and options of a quote or a send are those its configuration gives.
PricedAs(asked) ==
    /\ asked.receiver = asked.config.peer_address
    /\ asked.options =
         combine_options(get_enforced_options(asked.config, asked.params.compose_msg # None),
                         asked.params.options)

\* The inductive invariant: what was quoted and what was sent are the encodings
\* that the parameters and the configuration of that moment give, and a sent amount
\* has no dust left to lose (quote_send, send, and what lz_receive made of it).
MessagesInv ==
    /\ config \in Configs
    /\ quoted # None =>
         /\ quoted.params \in Params /\ quoted.config \in Configs
         /\ PricedAs(quoted)
         /\ quoted.message =
              Msg!encode(quoted.params.to,
                  compute_fee_and_adjust_amount(quoted.params.amount_ld, Store,
                      quoted.config.fee, quoted.config.fee_bps).received,
                  DefaultKey, quoted.params.compose_msg)
    /\ sent # None =>
         /\ sent.params \in Params /\ sent.signer \in Signers
         /\ PricedAs(sent)
         /\ sent.amount_received_ld \in U64
         /\ sd2ld(Store.ld2sd_rate, ld2sd(Store.ld2sd_rate, sent.amount_received_ld))
              = sent.amount_received_ld
         /\ sent.message =
              Msg!encode(sent.params.to, ld2sd(Store.ld2sd_rate, sent.amount_received_ld),
                  sent.signer, sent.params.compose_msg)
    /\ ReadAsWritten

=============================================================================
