------------------------------ MODULE SolanaOFT ------------------------------
(***************************************************************************)
(* The OFT program on Solana (solana-oft-deployment/programs/oft).         *)
(*                                                                         *)
(* One action per instruction.  Solana runs an instruction atomically and  *)
(* rolls back everything, its CPIs included, when it returns an error or   *)
(* panics: a failing check is a guard, and a failing instruction is no     *)
(* step.  What surrounds the program is modelled from how it is used: the  *)
(* token program (balances, supply, transfer fee), the LayerZero endpoint  *)
(* (a packet is verified, then cleared exactly once) and the executor,     *)
(* which asks lz_receive_types for the accounts of a packet in one step    *)
(* and executes lz_receive with them in a later one.                       *)
(***************************************************************************)
EXTENDS RateLimiter, OFTOptions, Sequences

CONSTANTS
    Keys,              \* public keys that sign administrative instructions
    Users,             \* owners of token accounts
    Escrow,            \* oft_store.token_escrow
    Eids,              \* remote endpoint ids
    Addrs, ZeroAddr,   \* 32-byte remote addresses; [0; 32]
    OFTTypes,          \* oft_types that init_oft is called with
    Base,              \* 10 in the code: ld2sd_rate is a power of it
    Decimals,          \* token_mint.decimals
    SharedDecimals,    \* shared_decimals that init_oft is called with
    Start, Supply,     \* the users' balances and the supply before init_oft
    Authorities,       \* possible mint authorities
    OftAuthorities,    \* those the oft_store can sign for (itself, 1-of-n multisigs)
    Amounts, SDs,      \* amounts in LD that users name, in SD that packets carry
    Composes,          \* whether messages are composed
    FeeBps,            \* u16 fees that an admin may try to set
    Limits,            \* capacities and rates that an admin may set
    ExtraOptions,      \* options that callers and admins pass
    TransferFees,      \* Token-2022 transfer fees of the mint, over the epochs
    MaxSends, MaxInbound, MaxConfigs, MaxTime   \* bounds of the model

Accounts == Users \cup {Escrow}

\* The OFTStore account; token_mint, token_escrow and endpoint_program are fixed.
Store == [oft_type : {"Native", "Adapter"}, ld2sd_rate : Nat \ {0}, tvl_ld : U64,
          admin : Keys, default_fee_bps : 0..(OneInBps - 1), paused : BOOLEAN,
          pauser : Keys \cup {None}, unpauser : Keys \cup {None}]

\* The PeerConfig account of an eid.
Peer == [peer_address : Addrs \cup {ZeroAddr}, send : Options, send_and_call : Options,
         outbound : Limiter \cup {None}, inbound : Limiter \cup {None},
         fee_bps : (0..(OneInBps - 1)) \cup {None}]

ASSUME AccountsAssumption == Escrow \notin Users
ASSUME PowerAssumption == Decimals \in Nat /\ \A n \in 0..Decimals : Base^n \in Nat \ {0}
ASSUME InputAssumption ==
    /\ OFTTypes \subseteq {"Native", "Adapter"}
    /\ SharedDecimals \subseteq Nat
    /\ Start \in [Users -> U64] /\ Supply \in U64
    /\ Amounts \subseteq U64 /\ SDs \subseteq U64 /\ Limits \subseteq U64
    /\ FeeBps \subseteq Nat /\ Composes \subseteq BOOLEAN
    /\ TransferFees \subseteq TransferFee
    /\ ExtraOptions \subseteq Options
    /\ MaxSends \in Nat /\ MaxInbound \in Nat /\ MaxConfigs \in Nat /\ MaxTime \in Nat
ASSUME NoneStoreAssumption ==
    /\ None \notin Store /\ None \notin Peer /\ None \notin Limiter
    /\ None \notin [capacity : U64, level : Nat, rate : U64]

VARIABLES
    store,     \* OFTStore, None before init_oft
    peers,     \* PeerConfig of every eid, None before its first set_peer_config
    delegate,  \* the OApp's delegate in the endpoint's registry
    mint,      \* token_mint: supply, authority and this epoch's transfer fee
    bal,       \* token balances
    inbox,     \* packets verified at the endpoint and not yet cleared
    nonce,     \* nonces given to verified packets so far
    plan,      \* the executor's last answer from lz_receive_types
    outbox,    \* packets given to the endpoint
    composed,  \* messages queued with send_compose
    now,       \* Clock's unix_timestamp
    configs,   \* administrative and outside steps taken
    book       \* history: SD sent and received, fees and withheld amounts in LD

vars == <<store, peers, delegate, mint, bal, inbox, nonce, plan, outbox,
          composed, now, configs, book>>

Init ==
    /\ store = None
    /\ peers = [eid \in Eids |-> None]
    /\ delegate = None
    /\ mint \in [supply : {Supply}, authority : Authorities \cup {None}, fee : TransferFees]
    /\ bal = [a \in Accounts |-> IF a = Escrow THEN 0 ELSE Start[a]]
    /\ inbox = {} /\ nonce = 0 /\ plan = None
    /\ outbox = <<>> /\ composed = {}
    /\ now = 0 /\ configs = 0
    /\ book = [sent |-> 0, received |-> 0, fees |-> 0, withheld |-> 0]

-----------------------------------------------------------------------------
(* External: what the program asks of the token program.                   *)

\* transfer_checked: b after from pays amount and to gets it less the fee.
\* A transfer of an account to itself changes nothing.
Transferred(b, from, to, amount) ==
    IF from = to THEN b
    ELSE [b EXCEPT ![from] = b[from] - amount,
                   ![to] = b[to] + get_post_fee_amount_ld(mint.fee, amount)]

Withheld(amount) == transfer_fee(mint.fee, amount)

-----------------------------------------------------------------------------
(* init_oft                                                                *)

\* The endpoint's CPI: the OApp's registry account is created, with a delegate.
register_oapp(key) ==
    /\ delegate = None
    /\ delegate' = key

InitOFT(oft_type, admin, shared_decimals) ==
    /\ store = None
    /\ Decimals >= shared_decimals
    /\ FitsU64(Base^(Decimals - shared_decimals))
    /\ store' = [oft_type |-> oft_type,
                 ld2sd_rate |-> Base^(Decimals - shared_decimals),
                 tvl_ld |-> 0, admin |-> admin, default_fee_bps |-> 0,
                 paused |-> FALSE, pauser |-> None, unpauser |-> None]
    /\ register_oapp(admin)
    /\ UNCHANGED <<peers, mint, bal, inbox, nonce, plan, outbox, composed, now,
                   configs, book>>

-----------------------------------------------------------------------------
(* set_oft_config, set_pause                                               *)

\* Mutant: a fee of 100% is accepted.
valid_fee_inclusive(fee_bps) == fee_bps <= OneInBps

valid_fee(fee_bps) == fee_bps < OneInBps

HasOneAdmin(signer) == store # None /\ signer = store.admin

\* Administrative and outside steps are bounded by MaxConfigs.
Counted ==
    /\ configs < MaxConfigs
    /\ configs' = configs + 1

Configured ==
    /\ Counted
    /\ UNCHANGED <<bal, inbox, nonce, plan, outbox, composed, now, book>>

SetOFTConfig(signer) ==
    /\ HasOneAdmin(signer)
    /\ Configured
    /\ \/ \E admin \in Keys : store' = [store EXCEPT !.admin = admin] /\ UNCHANGED delegate
       \/ \E key \in Keys : delegate' = key /\ UNCHANGED store
       \/ \E fee_bps \in FeeBps :
            /\ valid_fee(fee_bps)
            /\ store' = [store EXCEPT !.default_fee_bps = fee_bps]
            /\ UNCHANGED delegate
       \/ \E paused \in BOOLEAN :
            store' = [store EXCEPT !.paused = paused] /\ UNCHANGED delegate
       \/ \E pauser \in Keys \cup {None} :
            store' = [store EXCEPT !.pauser = pauser] /\ UNCHANGED delegate
       \/ \E unpauser \in Keys \cup {None} :
            store' = [store EXCEPT !.unpauser = unpauser] /\ UNCHANGED delegate
    /\ UNCHANGED <<peers, mint>>

is_valid_signer(signer, paused) ==
    signer = (IF paused THEN store.pauser ELSE store.unpauser)

SetPause(signer, paused) ==
    /\ store # None
    /\ is_valid_signer(signer, paused)
    /\ Configured
    /\ store' = [store EXCEPT !.paused = paused]
    /\ UNCHANGED <<peers, delegate, mint>>

-----------------------------------------------------------------------------
(* set_peer_config                                                         *)

\* What init_if_needed creates: a zeroed PeerConfig.
DefaultPeer == [peer_address |-> ZeroAddr, send |-> NoOptions, send_and_call |-> NoOptions,
                outbound |-> None, inbound |-> None, fee_bps |-> None]

RateParams == {None} \cup [refill_per_second : Limits \cup {None},
                           capacity : Limits \cup {None}]

SetPeerConfig(signer, eid) ==
    LET peer == IF peers[eid] = None THEN DefaultPeer ELSE peers[eid]
        Set(p) == peers' = [peers EXCEPT ![eid] = p]
    IN  /\ HasOneAdmin(signer)
        /\ Configured
        /\ \/ \E addr \in Addrs : Set([peer EXCEPT !.peer_address = addr])
           \/ \E fee_bps \in FeeBps \cup {None} :
                /\ fee_bps # None => valid_fee(fee_bps)
                /\ Set([peer EXCEPT !.fee_bps = fee_bps])
           \/ \E send, send_and_call \in ExtraOptions :
                /\ assert_type_3(send)
                /\ assert_type_3(send_and_call)
                /\ Set([peer EXCEPT !.send = send, !.send_and_call = send_and_call])
           \/ \E params \in RateParams :
                Set([peer EXCEPT !.outbound = update_rate_limiter(peer.outbound, params, now)])
           \/ \E params \in RateParams :
                Set([peer EXCEPT !.inbound = update_rate_limiter(peer.inbound, params, now)])
        /\ UNCHANGED <<store, delegate, mint>>

-----------------------------------------------------------------------------
(* send                                                                    *)

Send(user, eid, amount_ld, min_amount_ld, compose, extra) ==
    LET peer == peers[eid]
        amt  == compute_fee_and_adjust_amount(amount_ld, store, mint.fee, peer.fee_bps)
        enforced == get_enforced_options(peer, compose)
    IN
    /\ store # None /\ peer # None
    /\ Len(outbox) < MaxSends
    /\ ~store.paused
    /\ FitsU64(amt.sent)
    /\ amt.received >= min_amount_ld
    /\ limit_allows(peer.outbound, amt.received, now)
    /\ peers' = [peers EXCEPT ![eid] =
                   [peer EXCEPT !.outbound = consumed(peer.outbound, amt.received, now),
                                !.inbound = refilled(peer.inbound, amt.received, now)]]
    /\ bal[user] >= amt.sent
    /\ \/ /\ store.oft_type = "Adapter"
          /\ FitsU64(store.tvl_ld + amt.received)
          /\ store' = [store EXCEPT !.tvl_ld = store.tvl_ld + amt.received]
          /\ bal' = Transferred(bal, user, Escrow, amt.sent)
          /\ book' = [book EXCEPT !.fees = @ + amt.fee,
                                  !.withheld = @ + Withheld(amt.sent),
                                  !.sent = @ + ld2sd(store.ld2sd_rate, amt.received)]
          /\ UNCHANGED mint
       \/ /\ store.oft_type = "Native"
          /\ mint.supply >= amt.sent - amt.fee
          /\ mint' = [mint EXCEPT !.supply = mint.supply - (amt.sent - amt.fee)]
          /\ bal' = Transferred([bal EXCEPT ![user] = bal[user] - (amt.sent - amt.fee)],
                                user, Escrow, amt.fee)
          /\ book' = [book EXCEPT !.fees = @ + get_post_fee_amount_ld(mint.fee, amt.fee),
                                  !.withheld = @ + Withheld(amt.fee),
                                  !.sent = @ + ld2sd(store.ld2sd_rate, amt.received)]
          /\ UNCHANGED store
    /\ FitsU64(bal'[Escrow])
    /\ CanCombine(enforced, extra)
    /\ outbox' = Append(outbox,
                   [dst_eid |-> eid, receiver |-> peer.peer_address,
                    amount_sd |-> ld2sd(store.ld2sd_rate, amt.received),
                    compose |-> compose, options |-> combine_options(enforced, extra)])
    /\ UNCHANGED <<delegate, inbox, nonce, plan, composed, now, configs>>

-----------------------------------------------------------------------------
(* lz_receive_types and lz_receive                                         *)

Fits(packet) == FitsU64(sd2ld(store.ld2sd_rate, packet.amount_sd))

\* Mutant: the accounts are derived from the amount before the transfer fee.
expected_received_gross(packet) == sd2ld(store.ld2sd_rate, packet.amount_sd)

\* The amount lz_receive_types expects to be composed with.
expected_received_ld(packet) ==
    LET amount_ld == sd2ld(store.ld2sd_rate, packet.amount_sd)
    IN  IF store.oft_type = "Native" THEN amount_ld
        ELSE get_post_fee_amount_ld(mint.fee, amount_ld)

\* lz_receive_types: of the accounts it returns, the two that depend on state.
\* A missing mint authority is passed as the program id, Anchor's None; the
\* compose accounts are derived from the composed message, its amount included.
lz_receive_types(packet) ==
    [packet |-> packet, mint_authority |-> mint.authority,
     compose_ld |-> IF packet.compose THEN expected_received_ld(packet) ELSE None]

LzReceiveTypes(packet) ==
    /\ store # None
    /\ packet.compose => Fits(packet)
    /\ plan' = lz_receive_types(packet)
    /\ UNCHANGED <<store, peers, delegate, mint, bal, inbox, nonce, outbox, composed,
                   now, configs, book>>

\* The amount lz_receive composes with: what the token account received.
amount_composed_ld(packet) ==
    LET amount_ld == sd2ld(store.ld2sd_rate, packet.amount_sd)
    IN  IF store.oft_type = "Adapter" THEN get_post_fee_amount_ld(mint.fee, amount_ld)
        ELSE amount_ld

\* The account constraints of lz_receive and of the CPIs it makes.
AccountsMatch(accounts, packet) ==
    /\ accounts.packet = packet
    /\ accounts.mint_authority # None => accounts.mint_authority = mint.authority
    /\ store.oft_type = "Native" => accounts.mint_authority \in OftAuthorities
    /\ packet.compose => accounts.compose_ld = amount_composed_ld(packet)

\* Mutant: the sender of a packet is not compared with the peer.
trusted_any(peer, packet) == TRUE

trusted(peer, packet) == peer.peer_address = packet.sender

\* Mutant: the packet is not cleared, so that it can be executed again.
cleared_not(packet) == inbox

\* endpoint_cpi::clear consumes the packet.
cleared(packet) == inbox \ {packet}

LzReceive(packet) ==
    LET peer == peers[packet.src_eid]
        amount_ld == sd2ld(store.ld2sd_rate, packet.amount_sd)
    IN
    /\ store # None /\ peer # None
    /\ trusted(peer, packet)
    /\ plan # None /\ AccountsMatch(plan, packet)
    /\ ~store.paused
    /\ Fits(packet)
    /\ limit_allows(peer.inbound, amount_ld, now)
    /\ peers' = [peers EXCEPT ![packet.src_eid] =
                   [peer EXCEPT !.inbound = consumed(peer.inbound, amount_ld, now),
                                !.outbound = refilled(peer.outbound, amount_ld, now)]]
    /\ \/ /\ store.oft_type = "Adapter"
          /\ store.tvl_ld >= amount_ld
          /\ bal[Escrow] >= amount_ld
          /\ store' = [store EXCEPT !.tvl_ld = store.tvl_ld - amount_ld]
          /\ bal' = Transferred(bal, Escrow, packet.to, amount_ld)
          /\ book' = [book EXCEPT !.withheld = @ + Withheld(amount_ld),
                                  !.received = @ + packet.amount_sd]
          /\ UNCHANGED mint
       \/ /\ store.oft_type = "Native"
          /\ FitsU64(mint.supply + amount_ld)
          /\ mint' = [mint EXCEPT !.supply = mint.supply + amount_ld]
          /\ bal' = [bal EXCEPT ![packet.to] = bal[packet.to] + amount_ld]
          /\ book' = [book EXCEPT !.received = @ + packet.amount_sd]
          /\ UNCHANGED store
    /\ FitsU64(bal'[packet.to])
    /\ inbox' = cleared(packet)
    /\ composed' = IF packet.compose
                   THEN composed \cup {[to |-> packet.to, nonce |-> packet.nonce,
                                        src_eid |-> packet.src_eid,
                                        amount_ld |-> amount_composed_ld(packet)]}
                   ELSE composed
    /\ UNCHANGED <<delegate, nonce, plan, outbox, now, configs>>

-----------------------------------------------------------------------------
(* withdraw_fee                                                            *)

\* Mutant: what is locked can be withdrawn as if it were fees.
withdrawable_all == bal[Escrow]

withdrawable_ld == bal[Escrow] - store.tvl_ld

WithdrawFee(signer, dest, fee_ld) ==
    /\ HasOneAdmin(signer)
    /\ Counted
    /\ withdrawable_ld >= fee_ld
    /\ bal' = Transferred(bal, Escrow, dest, fee_ld)
    /\ FitsU64(bal'[dest])
    /\ book' = IF dest = Escrow THEN book
               ELSE [book EXCEPT !.fees = @ - fee_ld, !.withheld = @ + Withheld(fee_ld)]
    /\ UNCHANGED <<store, peers, delegate, mint, inbox, nonce, plan, outbox, composed,
                   now>>

-----------------------------------------------------------------------------
(* External: the world around the program.                                 *)

\* The endpoint has verified a packet.  Its content is the remote chain's.
Verify(src_eid, sender, to, amount_sd, compose) ==
    /\ nonce < MaxInbound
    /\ nonce' = nonce + 1
    /\ inbox' = inbox \cup {[nonce |-> nonce + 1, src_eid |-> src_eid, sender |-> sender,
                             to |-> to, amount_sd |-> amount_sd, compose |-> compose]}
    /\ UNCHANGED <<store, peers, delegate, mint, bal, plan, outbox, composed, now,
                   configs, book>>

\* A token transfer straight to the escrow, bypassing the program.
Donate(user, amount) ==
    /\ store # None
    /\ Counted
    /\ bal[user] >= amount
    /\ bal' = Transferred(bal, user, Escrow, amount)
    /\ FitsU64(bal'[Escrow])
    /\ book' = [book EXCEPT !.fees = @ + get_post_fee_amount_ld(mint.fee, amount),
                            !.withheld = @ + Withheld(amount)]
    /\ UNCHANGED <<store, peers, delegate, mint, inbox, nonce, plan, outbox, composed,
                   now>>

\* The mint's owners change its authority, or an epoch brings a new fee.
ChangeMint ==
    /\ Configured
    /\ \/ \E authority \in Authorities \cup {None} :
            mint' = [mint EXCEPT !.authority = authority]
       \/ \E fee \in TransferFees : mint' = [mint EXCEPT !.fee = fee]
    /\ UNCHANGED <<store, peers, delegate>>

Tick ==
    /\ now < MaxTime
    /\ now' = now + 1
    /\ UNCHANGED <<store, peers, delegate, mint, bal, inbox, nonce, plan, outbox,
                   composed, configs, book>>

\* Everything but the arrival of packets.
LocalNext ==
    \/ \E oft_type \in OFTTypes, admin \in Keys, shared_decimals \in SharedDecimals :
         InitOFT(oft_type, admin, shared_decimals)
    \/ \E signer \in Keys : SetOFTConfig(signer)
    \/ \E signer \in Keys, paused \in BOOLEAN : SetPause(signer, paused)
    \/ \E signer \in Keys, eid \in Eids : SetPeerConfig(signer, eid)
    \/ \E user \in Users, eid \in Eids, amount_ld, min_amount_ld \in Amounts,
          compose \in Composes, extra \in ExtraOptions :
         Send(user, eid, amount_ld, min_amount_ld, compose, extra)
    \/ \E packet \in inbox : LzReceiveTypes(packet) \/ LzReceive(packet)
    \/ \E signer \in Keys, dest \in Accounts, fee_ld \in Amounts :
         WithdrawFee(signer, dest, fee_ld)
    \/ \E user \in Users, amount \in Amounts : Donate(user, amount)
    \/ ChangeMint
    \/ Tick

Next ==
    \/ LocalNext
    \/ \E src_eid \in Eids, sender \in Addrs, to \in Users, amount_sd \in SDs,
          compose \in Composes :
         Verify(src_eid, sender, to, amount_sd, compose)

Spec == Init /\ [][Next]_vars

-----------------------------------------------------------------------------
(* Properties.                                                             *)

InPacket == [nonce : Nat, src_eid : Eids, sender : Addrs, to : Users,
             amount_sd : U64, compose : BOOLEAN]

OutPacket == [dst_eid : Eids, receiver : Addrs \cup {ZeroAddr}, amount_sd : Nat,
              compose : BOOLEAN, options : Options]

Book == [sent : Nat, received : Nat, fees : Int, withheld : Nat]

\* Types: every u64 of the program stays a u64, every fee a proper fraction.
TypeOK ==
    /\ store \in Store \cup {None}
    /\ peers \in [Eids -> Peer \cup {None}]
    /\ delegate \in Keys \cup {None}
    /\ mint \in [supply : U64, authority : Authorities \cup {None}, fee : TransferFee]
    /\ bal \in [Accounts -> U64]
    /\ inbox \in SUBSET InPacket
    /\ nonce \in Nat
    /\ plan \in {None} \cup [packet : InPacket, mint_authority : Authorities \cup {None},
                            compose_ld : Nat \cup {None}]
    /\ outbox \in Seq(OutPacket)
    /\ composed \in SUBSET [to : Users, nonce : Nat, src_eid : Eids, amount_ld : Nat]
    /\ now \in Nat
    /\ configs \in Nat
    /\ book \in Book

\* The escrow can always pay out everything that is locked, whatever is
\* withdrawn as fees and whatever the transfer fee does (withdraw_fee, send,
\* lz_receive).
EscrowSolvent == store # None => bal[Escrow] >= store.tvl_ld

\* "this account is used to hold TVL and fees" (state/oft.rs): the escrow holds
\* exactly the two, to the last unit, so all fees can be withdrawn and no
\* rounding of the transfer fee leaks into either.
EscrowAccounting ==
    /\ store = None => bal[Escrow] = 0 /\ book.fees = 0
    /\ store # None => bal[Escrow] = store.tvl_ld + book.fees
    /\ book.fees >= 0

\* What is locked (Adapter) or burned (Native) here is exactly what packets
\* promised the other chains, less what packets brought back; an Adapter never
\* touches the supply and a Native OFT locks nothing.
ValueConserved ==
    LET rate == store.ld2sd_rate
    IN  IF store = None
        THEN book.sent = 0 /\ book.received = 0 /\ mint.supply = Supply
        ELSE IF store.oft_type = "Adapter"
        THEN /\ store.tvl_ld + rate * book.received = rate * book.sent
             /\ mint.supply = Supply
        ELSE /\ store.tvl_ld = 0
             /\ mint.supply + rate * book.sent = Supply + rate * book.received

\* A sender pays exactly what the packet promises, the cross-chain fee that
\* reaches the escrow and what the mint withholds; dust stays with the sender,
\* and nobody pays for a packet that promises nothing (send).
SendIsExact ==
    [][ outbox' # outbox =>
          LET packet == outbox'[Len(outbox')]
          IN  \E user \in Users :
                /\ bal[user] - bal'[user]
                     = packet.amount_sd * store.ld2sd_rate
                       + (book'.fees - book.fees) + (book'.withheld - book.withheld)
                /\ bal[user] # bal'[user] => packet.amount_sd > 0
                /\ \A other \in Users \ {user} : bal'[other] = bal[other] ]_vars

\* A packet leaves the inbox only when its recipient is credited its whole
\* value less what the mint withholds, by a trusted sender and unpaused; the
\* composed message carries exactly the credited amount (lz_receive).
ReceiveIsExact ==
    [][ ~(inbox \subseteq inbox') =>
          \E packet \in inbox :
            LET credited == bal'[packet.to] - bal[packet.to]
            IN  /\ inbox' = inbox \ {packet}
                /\ credited + (book'.withheld - book.withheld)
                     = packet.amount_sd * store.ld2sd_rate
                /\ packet.sender = peers[packet.src_eid].peer_address
                /\ ~store.paused
                /\ packet.compose =>
                     \E m \in composed' \ composed : m.to = packet.to /\ m.amount_ld = credited
                /\ \A other \in Users \ {packet.to} : bal'[other] = bal[other] ]_vars

\* A nonce names one packet for good: no two packets share one, and what was
\* composed came from a packet that can no longer be executed (clear,
\* send_compose).
NoncesOK ==
    /\ \A p \in inbox : p.nonce <= nonce
    /\ \A p, q \in inbox : p.nonce = q.nonce => p = q
    /\ \A m \in composed : m.nonce <= nonce /\ \A p \in inbox : p.nonce # m.nonce

\* Every packet carries the options its peer enforces for its kind of message,
\* as they are when it is sent, whatever the caller passes (combine_options).
EnforcedOptionsCarried ==
    [][ outbox' # outbox =>
          LET packet == outbox'[Len(outbox')]
              peer   == peers[packet.dst_eid]
          IN  IF packet.compose THEN peer.send_and_call.opts \subseteq packet.options.opts
                                ELSE peer.send.opts \subseteq packet.options.opts ]_vars

\* What a limiter offers now, as an eager bucket; None while there is no limit.
BucketOf(l) == IF l = None THEN None
               ELSE [capacity |-> l.capacity, level |-> Level(l, now),
                     rate |-> l.refill_per_second]

outbound(eid) == IF peers[eid] = None THEN None ELSE BucketOf(peers[eid].outbound)

inbound(eid) == IF peers[eid] = None THEN None ELSE BucketOf(peers[eid].inbound)

Outbound(eid) == INSTANCE TokenBucket WITH bucket <- outbound(eid)

Inbound(eid) == INSTANCE TokenBucket WITH bucket <- inbound(eid)

\* Part of the inductive invariant: limiters are never ahead of the clock and
\* never hold more than their capacity.
LimitersOK ==
    \A eid \in Eids : peers[eid] # None =>
      \A l \in {peers[eid].outbound, peers[eid].inbound} : l # None => LimiterOK(l, now)

\* The inductive invariant behind the theorems of SolanaOFTProofs.
IInv == TypeOK /\ EscrowAccounting /\ ValueConserved /\ LimitersOK

Value(packet) == packet.amount_sd * store.ld2sd_rate

SendsTo(eid) == outbox' # outbox /\ outbox'[Len(outbox')].dst_eid = eid

ReceivesFrom(eid) == \E packet \in inbox \ inbox' : packet.src_eid = eid

\* What a step does to the two buckets of a peer, told from what it did to the
\* packets, the clock and the count of administrative steps.
BucketsFollow(eid) ==
    CASE SendsTo(eid) ->
           LET value == Value(outbox'[Len(outbox')])
           IN  Outbound(eid)!Consume(value) /\ Inbound(eid)!GiveBack(value)
      [] ReceivesFrom(eid) ->
           \E packet \in inbox \ inbox' :
             /\ Inbound(eid)!Consume(Value(packet))
             /\ Outbound(eid)!GiveBack(Value(packet))
      [] now' # now -> Outbound(eid)!Tick /\ Inbound(eid)!Tick
      [] configs' # configs ->
           \/ Outbound(eid)!Reconfigure /\ UNCHANGED inbound(eid)
           \/ Inbound(eid)!Reconfigure /\ UNCHANGED outbound(eid)
           \/ UNCHANGED <<outbound(eid), inbound(eid)>>
      [] OTHER -> UNCHANGED <<outbound(eid), inbound(eid)>>

\* The limiters of every peer follow its traffic, the clock and the admin like
\* two eager buckets: a send takes the packet's value from the outbound one and
\* gives it back to the inbound one, a receipt does the opposite, a second adds
\* the rate once, and nothing else moves a level (send, lz_receive,
\* set_peer_config, refill).
LimitsAreBuckets == [][ \A eid \in Eids : BucketsFollow(eid) ]_vars

=============================================================================
