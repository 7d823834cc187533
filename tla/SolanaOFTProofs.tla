--------------------------- MODULE SolanaOFTProofs ---------------------------
(***************************************************************************)
(* Proofs about the Solana OFT program, for every value of the constants:  *)
(* IInv is inductive, hence types, the accounting of the escrow and the    *)
(* conservation of value hold in every reachable state; sends and receipts *)
(* are exact, nonces are used once, enforced options are carried, and the  *)
(* limiters of every peer move as token buckets do.                        *)
(***************************************************************************)
EXTENDS SolanaOFT, OFTAmountsProofs, RateLimiterProofs

-----------------------------------------------------------------------------
(* Steps that leave tokens alone.                                          *)

\* The accounting survives any step that keeps the balances, the books, the
\* supply and the store's immutable fields and tvl_ld.
LEMMA LedgerKept ==
    ASSUME EscrowAccounting, ValueConserved,
           UNCHANGED <<bal, book>>, mint'.supply = mint.supply,
           \/ store' = store
           \/ /\ store # None /\ store' # None
              /\ store'.oft_type = store.oft_type
              /\ store'.ld2sd_rate = store.ld2sd_rate
              /\ store'.tvl_ld = store.tvl_ld
    PROVE  EscrowAccounting' /\ ValueConserved'
<1>1. EscrowAccounting'
  BY DEF EscrowAccounting
<1>2. ValueConserved'
  BY DEF ValueConserved
<1> QED
  BY <1>1, <1>2

\* What set_oft_config and set_pause write stays a store.
LEMMA StoreUpdate ==
    ASSUME NEW s \in Store
    PROVE  /\ \A k \in Keys : [s EXCEPT !.admin = k] \in Store
           /\ \A f \in 0..(OneInBps - 1) : [s EXCEPT !.default_fee_bps = f] \in Store
           /\ \A p \in BOOLEAN : [s EXCEPT !.paused = p] \in Store
           /\ \A k \in Keys \cup {None} : /\ [s EXCEPT !.pauser = k] \in Store
                                          /\ [s EXCEPT !.unpauser = k] \in Store
           /\ \A t \in U64 : [s EXCEPT !.tvl_ld = t] \in Store
BY DEF Store

\* A valid fee is a proper fraction.
LEMMA ValidFee ==
    ASSUME NEW f \in FeeBps, valid_fee(f)
    PROVE  f \in 0..(OneInBps - 1)
BY InputAssumption, BpsAssumption DEF valid_fee

LEMMA InitOFTStep ==
    ASSUME IInv, NEW oft_type \in OFTTypes, NEW admin \in Keys,
           NEW shared_decimals \in SharedDecimals,
           InitOFT(oft_type, admin, shared_decimals)
    PROVE  IInv'
<1> DEFINE rate == Base^(Decimals - shared_decimals)
<1>1. rate \in Nat \ {0}
  <2>1. Decimals - shared_decimals \in 0..Decimals
    BY InputAssumption, PowerAssumption DEF InitOFT, register_oapp
  <2> QED
    BY <2>1, PowerAssumption
<1> HIDE DEF rate
<1>2. /\ store = None
      /\ store' = [oft_type |-> oft_type, ld2sd_rate |-> rate,
                   tvl_ld |-> 0, admin |-> admin, default_fee_bps |-> 0,
                   paused |-> FALSE, pauser |-> None, unpauser |-> None]
      /\ delegate' = admin
      /\ UNCHANGED <<peers, mint, bal, inbox, nonce, plan, outbox, composed, now,
                     configs, book>>
  BY DEF InitOFT, register_oapp, rate
<1>3. store' \in Store
  <2>1. 0 \in U64 /\ 0 \in 0..(OneInBps - 1) /\ oft_type \in {"Native", "Adapter"}
    BY U64Assumption, BpsAssumption, InputAssumption DEF U64
  <2> QED
    BY <1>1, <1>2, <2>1 DEF Store
<1>4. TypeOK'
  BY <1>2, <1>3 DEF IInv, TypeOK
<1>5. LimitersOK'
  BY <1>2 DEF IInv, LimitersOK
<1>6. /\ bal[Escrow] = 0 /\ book.fees = 0 /\ book.sent = 0 /\ book.received = 0
      /\ mint.supply = Supply
  BY <1>2 DEF IInv, EscrowAccounting, ValueConserved
<1>7. store'.tvl_ld = 0 /\ store'.ld2sd_rate = rate /\ store'.oft_type = oft_type
  BY <1>2
<1>8. EscrowAccounting'
  BY <1>2, <1>6, <1>7 DEF EscrowAccounting
<1>9. ValueConserved'
  <2>1. rate * 0 = 0 /\ Supply \in Nat
    BY <1>1, InputAssumption, U64Assumption DEF U64
  <2> QED
    BY <1>2, <1>6, <1>7, <2>1 DEF ValueConserved
<1> QED
  BY <1>4, <1>5, <1>8, <1>9 DEF IInv

\* The common part of the administrative steps that write only the store.
LEMMA StoreStep ==
    ASSUME IInv, Configured, store # None, store' \in Store, store' # None,
           store'.oft_type = store.oft_type, store'.ld2sd_rate = store.ld2sd_rate,
           store'.tvl_ld = store.tvl_ld, delegate' \in Keys \cup {None},
           UNCHANGED <<peers, mint>>
    PROVE  IInv'
<1>1. configs' \in Nat /\ UNCHANGED <<bal, inbox, nonce, plan, outbox, composed, now, book>>
  BY DEF Configured, Counted, IInv, TypeOK
<1>2. TypeOK'
  BY <1>1 DEF IInv, TypeOK
<1>3. LimitersOK'
  BY <1>1 DEF IInv, LimitersOK
<1>4. EscrowAccounting' /\ ValueConserved'
  BY <1>1, LedgerKept DEF IInv
<1> QED
  BY <1>2, <1>3, <1>4 DEF IInv

LEMMA SetOFTConfigStep ==
    ASSUME IInv, NEW signer \in Keys, SetOFTConfig(signer)
    PROVE  /\ IInv' /\ store' # None
           /\ store'.oft_type = store.oft_type
           /\ store'.ld2sd_rate = store.ld2sd_rate
           /\ store'.tvl_ld = store.tvl_ld
<1>1. store \in Store /\ store # None /\ Configured /\ UNCHANGED <<peers, mint>>
  BY DEF SetOFTConfig, HasOneAdmin, IInv, TypeOK
<1>d. delegate \in Keys \cup {None}
  BY DEF IInv, TypeOK
<1>2. /\ store' \in Store
      /\ store'.oft_type = store.oft_type
      /\ store'.ld2sd_rate = store.ld2sd_rate
      /\ store'.tvl_ld = store.tvl_ld
      /\ delegate' \in Keys \cup {None}
  <2>1. ASSUME NEW key \in Keys, store' = [store EXCEPT !.admin = key] /\ UNCHANGED delegate
        PROVE  <1>2!1 /\ <1>2!2 /\ <1>2!3 /\ <1>2!4 /\ <1>2!5
    BY <1>1, <1>d, <2>1, StoreUpdate DEF Store
  <2>2. ASSUME NEW key \in Keys, delegate' = key /\ UNCHANGED store
        PROVE  <1>2!1 /\ <1>2!2 /\ <1>2!3 /\ <1>2!4 /\ <1>2!5
    BY <1>1, <1>d, <2>2
  <2>3. ASSUME NEW fee_bps \in FeeBps, valid_fee(fee_bps),
               store' = [store EXCEPT !.default_fee_bps = fee_bps] /\ UNCHANGED delegate
        PROVE  <1>2!1 /\ <1>2!2 /\ <1>2!3 /\ <1>2!4 /\ <1>2!5
    <3>1. fee_bps \in 0..(OneInBps - 1)
      BY <2>3, ValidFee
    <3> QED
      BY <1>1, <1>d, <2>3, <3>1, StoreUpdate DEF Store
  <2>4. ASSUME NEW paused \in BOOLEAN,
               store' = [store EXCEPT !.paused = paused] /\ UNCHANGED delegate
        PROVE  <1>2!1 /\ <1>2!2 /\ <1>2!3 /\ <1>2!4 /\ <1>2!5
    BY <1>1, <1>d, <2>4, StoreUpdate DEF Store
  <2>5. ASSUME NEW key \in Keys \cup {None}, UNCHANGED delegate,
               \/ store' = [store EXCEPT !.pauser = key]
               \/ store' = [store EXCEPT !.unpauser = key]
        PROVE  <1>2!1 /\ <1>2!2 /\ <1>2!3 /\ <1>2!4 /\ <1>2!5
    BY <1>1, <1>d, <2>5, StoreUpdate DEF Store
  <2> QED
    BY <2>1, <2>2, <2>3, <2>4, <2>5 DEF SetOFTConfig
<1>3. store' # None
  BY <1>2, NoneStoreAssumption
<1> QED
  BY <1>1, <1>2, <1>3, StoreStep

LEMMA SetPauseStep ==
    ASSUME IInv, NEW signer \in Keys, NEW paused \in BOOLEAN, SetPause(signer, paused)
    PROVE  /\ IInv' /\ store' # None
           /\ store'.oft_type = store.oft_type
           /\ store'.ld2sd_rate = store.ld2sd_rate
           /\ store'.tvl_ld = store.tvl_ld
<1>1. /\ store \in Store /\ store # None /\ Configured
      /\ store' = [store EXCEPT !.paused = paused]
      /\ UNCHANGED <<peers, delegate, mint>>
  BY DEF SetPause, IInv, TypeOK
<1>2. /\ store' \in Store
      /\ store'.oft_type = store.oft_type
      /\ store'.ld2sd_rate = store.ld2sd_rate
      /\ store'.tvl_ld = store.tvl_ld
  BY <1>1, StoreUpdate DEF Store
<1>3. store' # None /\ delegate' \in Keys \cup {None}
  BY <1>1, <1>2, NoneStoreAssumption DEF IInv, TypeOK
<1> QED
  BY <1>1, <1>2, <1>3, StoreStep

-----------------------------------------------------------------------------
(* Peers.                                                                  *)

\* An option of a limiter, as a peer may hold it at time t.
LimitOK(l, t) == l = None \/ LimiterOK(l, t)

PeerOK(p, t) == p \in Peer /\ LimitOK(p.outbound, t) /\ LimitOK(p.inbound, t)

LEMMA PeerIsOK ==
    ASSUME IInv, NEW eid \in Eids, peers[eid] # None
    PROVE  PeerOK(peers[eid], now)
BY DEF IInv, TypeOK, LimitersOK, PeerOK, LimitOK

LEMMA DefaultPeerIsOK ==
    ASSUME NEW t \in Nat
    PROVE  PeerOK(DefaultPeer, t)
BY DEF PeerOK, LimitOK, Peer, DefaultPeer, NoOptions, Options

\* Writing one good peer keeps all of them good.
LEMMA PeersKept ==
    ASSUME IInv, NEW eid \in Eids, NEW p, PeerOK(p, now),
           peers' = [peers EXCEPT ![eid] = p], now' = now
    PROVE  peers' \in [Eids -> Peer \cup {None}] /\ LimitersOK'
<1>1. p \in Peer
  BY DEF PeerOK
<1>2. peers' \in [Eids -> Peer \cup {None}]
  BY <1>1 DEF IInv, TypeOK
<1>3. ASSUME NEW e \in Eids, peers'[e] # None,
             NEW l \in {peers'[e].outbound, peers'[e].inbound}, l # None
      PROVE  LimiterOK(l, now')
  <2>1. CASE e = eid
    <3>1. peers'[e] = p
      BY <2>1 DEF IInv, TypeOK
    <3> QED
      BY <1>3, <3>1 DEF PeerOK, LimitOK
  <2>2. CASE e # eid
    <3>1. peers'[e] = peers[e]
      BY <2>2 DEF IInv, TypeOK
    <3> QED
      BY <1>3, <3>1 DEF IInv, LimitersOK
  <2> QED
    BY <2>1, <2>2
<1> QED
  BY <1>2, <1>3 DEF LimitersOK

\* A limiter that was reconfigured, used or given back to is still good.
LEMMA LimitStep ==
    ASSUME NEW l, NEW t \in Nat, LimitOK(l, t), NEW amount \in U64
    PROVE  /\ limit_allows(l, amount, t) => LimitOK(consumed(l, amount, t), t)
           /\ LimitOK(refilled(l, amount, t), t)
           /\ \A params \in RateParams : LimitOK(update_rate_limiter(l, params, t), t)
<1>1. limit_allows(l, amount, t) => LimitOK(consumed(l, amount, t), t)
  BY ConsumeFacts DEF limit_allows, consumed, LimitOK
<1>2. LimitOK(refilled(l, amount, t), t)
  <2>1. CASE l = None
    BY <2>1 DEF refilled, LimitOK
  <2>2. CASE l # None
    <3>1. l \in Limiter /\ l.last_refill_time <= t
      BY <2>2 DEF LimitOK, LimiterOK
    <3>2. /\ refill(l, amount, t) \in Limiter
          /\ refill(l, amount, t).capacity = l.capacity
          /\ refill(l, amount, t).last_refill_time = t
      BY <3>1, RefillFacts
    <3>3. /\ Level(l, t) \in 0..l.capacity
          /\ refill(l, amount, t).tokens = MinOf(l.capacity, Level(l, t) + amount)
      BY <3>1, RefillLevel
    <3>4. l.capacity \in Nat /\ amount \in Nat
      BY <3>1, U64Assumption DEF Limiter, U64
    <3>5. refill(l, amount, t).tokens <= l.capacity
      BY <3>3, <3>4 DEF MinOf
    <3> QED
      BY <2>2, <3>2, <3>5 DEF refilled, LimitOK, LimiterOK
  <2> QED
    BY <2>1, <2>2
<1>3. ASSUME NEW params \in RateParams
      PROVE  LimitOK(update_rate_limiter(l, params, t), t)
  <2>1. CASE params = None
    BY <2>1 DEF update_rate_limiter, LimitOK
  <2>2. CASE params # None
    <3>1. /\ params.capacity \in U64 \cup {None}
          /\ params.refill_per_second \in U64 \cup {None}
      BY <2>2, InputAssumption DEF RateParams
    <3> QED
      BY <2>2, <3>1, UpdateFacts DEF LimitOK
  <2> QED
    BY <2>1, <2>2
<1> QED
  BY <1>1, <1>2, <1>3

\* Whatever set_peer_config sets, the peer it writes is good.
LEMMA ConfiguredPeer ==
    ASSUME IInv, NEW signer \in Keys, NEW eid \in Eids, SetPeerConfig(signer, eid)
    PROVE  \E p : PeerOK(p, now) /\ peers' = [peers EXCEPT ![eid] = p]
<1> DEFINE peer == IF peers[eid] = None THEN DefaultPeer ELSE peers[eid]
           Good == \E p : PeerOK(p, now) /\ peers' = [peers EXCEPT ![eid] = p]
<1>1. now \in Nat /\ 0 \in U64
  BY U64Assumption DEF IInv, TypeOK, U64
<1>2. PeerOK(peer, now)
  BY <1>1, PeerIsOK, DefaultPeerIsOK
<1>4. /\ \/ \E addr \in Addrs : peers' = [peers EXCEPT ![eid] = [peer EXCEPT !.peer_address = addr]]
         \/ \E fee_bps \in FeeBps \cup {None} :
              /\ fee_bps # None => valid_fee(fee_bps)
              /\ peers' = [peers EXCEPT ![eid] = [peer EXCEPT !.fee_bps = fee_bps]]
         \/ \E send, send_and_call \in ExtraOptions :
              peers' = [peers EXCEPT ![eid] =
                          [peer EXCEPT !.send = send, !.send_and_call = send_and_call]]
         \/ \E params \in RateParams :
              peers' = [peers EXCEPT ![eid] =
                [peer EXCEPT !.outbound = update_rate_limiter(peer.outbound, params, now)]]
         \/ \E params \in RateParams :
              peers' = [peers EXCEPT ![eid] =
                [peer EXCEPT !.inbound = update_rate_limiter(peer.inbound, params, now)]]
  BY DEF SetPeerConfig
<1> HIDE DEF peer
<1>5. Good
  <2>1. ASSUME NEW addr \in Addrs,
               peers' = [peers EXCEPT ![eid] = [peer EXCEPT !.peer_address = addr]]
        PROVE  Good
    <3>1. PeerOK([peer EXCEPT !.peer_address = addr], now)
      BY <1>2 DEF PeerOK, Peer
    <3> QED
      BY <2>1, <3>1
  <2>2. ASSUME NEW fee_bps \in FeeBps \cup {None}, fee_bps # None => valid_fee(fee_bps),
               peers' = [peers EXCEPT ![eid] = [peer EXCEPT !.fee_bps = fee_bps]]
        PROVE  Good
    <3>1. fee_bps \in (0..(OneInBps - 1)) \cup {None}
      BY <2>2, ValidFee
    <3>2. PeerOK([peer EXCEPT !.fee_bps = fee_bps], now)
      BY <1>2, <3>1 DEF PeerOK, Peer
    <3> QED
      BY <2>2, <3>2
  <2>3. ASSUME NEW send \in ExtraOptions, NEW send_and_call \in ExtraOptions,
               peers' = [peers EXCEPT ![eid] =
                           [peer EXCEPT !.send = send, !.send_and_call = send_and_call]]
        PROVE  Good
    <3>1. send \in Options /\ send_and_call \in Options
      BY InputAssumption
    <3>2. PeerOK([peer EXCEPT !.send = send, !.send_and_call = send_and_call], now)
      BY <1>2, <3>1 DEF PeerOK, Peer
    <3> QED
      BY <2>3, <3>2
  <2>4. ASSUME NEW params \in RateParams,
               peers' = [peers EXCEPT ![eid] =
                 [peer EXCEPT !.outbound = update_rate_limiter(peer.outbound, params, now)]]
        PROVE  Good
    <3> DEFINE l == update_rate_limiter(peer.outbound, params, now)
    <3>1. LimitOK(l, now)
      BY <1>1, <1>2, LimitStep DEF PeerOK
    <3> HIDE DEF l
    <3>2. PeerOK([peer EXCEPT !.outbound = l], now)
      BY <1>2, <3>1 DEF PeerOK, Peer, LimitOK, LimiterOK
    <3> QED
      BY <2>4, <3>2 DEF l
  <2>5. ASSUME NEW params \in RateParams,
               peers' = [peers EXCEPT ![eid] =
                 [peer EXCEPT !.inbound = update_rate_limiter(peer.inbound, params, now)]]
        PROVE  Good
    <3> DEFINE l == update_rate_limiter(peer.inbound, params, now)
    <3>1. LimitOK(l, now)
      BY <1>1, <1>2, LimitStep DEF PeerOK
    <3> HIDE DEF l
    <3>2. PeerOK([peer EXCEPT !.inbound = l], now)
      BY <1>2, <3>1 DEF PeerOK, Peer, LimitOK, LimiterOK
    <3> QED
      BY <2>5, <3>2 DEF l
  <2> HIDE DEF Good
  <2> QED
    BY <1>4, <2>1, <2>2, <2>3, <2>4, <2>5
<1> QED
  BY <1>5

LEMMA SetPeerConfigStep ==
    ASSUME IInv, NEW signer \in Keys, NEW eid \in Eids, SetPeerConfig(signer, eid)
    PROVE  IInv'
<1>1. Configured /\ UNCHANGED <<store, delegate, mint>>
  BY DEF SetPeerConfig
<1>2. configs' \in Nat /\ UNCHANGED <<bal, inbox, nonce, plan, outbox, composed, now, book>>
  BY <1>1 DEF Configured, Counted, IInv, TypeOK
<1>3. peers' \in [Eids -> Peer \cup {None}] /\ LimitersOK'
  BY <1>2, ConfiguredPeer, PeersKept
<1>4. TypeOK'
  BY <1>1, <1>2, <1>3 DEF IInv, TypeOK
<1>5. EscrowAccounting' /\ ValueConserved'
  BY <1>1, <1>2, LedgerKept DEF IInv
<1> QED
  BY <1>3, <1>4, <1>5 DEF IInv

-----------------------------------------------------------------------------
(* Token movements.                                                        *)

\* transfer_checked between two accounts.
LEMMA TransferFacts ==
    ASSUME TypeOK, NEW b \in [Accounts -> U64], NEW from \in Accounts, NEW to \in Accounts,
           from # to, NEW amount \in Nat, amount <= b[from]
    PROVE  LET t == Transferred(b, from, to, amount)
           IN  /\ DOMAIN t = Accounts
               /\ t[from] = b[from] - amount
               /\ t[to] = b[to] + get_post_fee_amount_ld(mint.fee, amount)
               /\ \A a \in Accounts \ {from, to} : t[a] = b[a]
               /\ get_post_fee_amount_ld(mint.fee, amount) \in 0..amount
               /\ Withheld(amount) \in Nat
               /\ get_post_fee_amount_ld(mint.fee, amount) + Withheld(amount) = amount
               /\ FitsU64(t[to]) => t \in [Accounts -> U64]
<1> DEFINE post == get_post_fee_amount_ld(mint.fee, amount)
           t == Transferred(b, from, to, amount)
<1>1. transfer_fee(mint.fee, amount) \in 0..amount
  BY TransferFeeBounds DEF TypeOK
<1>2. post \in 0..amount /\ Withheld(amount) \in Nat /\ post + Withheld(amount) = amount
  BY <1>1 DEF get_post_fee_amount_ld, Withheld
<1>3. t = [b EXCEPT ![from] = b[from] - amount, ![to] = b[to] + post]
  BY DEF Transferred
<1> HIDE DEF post, t
<1>4. /\ DOMAIN t = Accounts
      /\ t[from] = b[from] - amount
      /\ t[to] = b[to] + post
      /\ \A a \in Accounts \ {from, to} : t[a] = b[a]
  BY <1>3
<1>5. b[from] - amount \in U64 /\ b[to] + post \in Nat
  BY <1>2, U64Assumption DEF U64
<1>6. FitsU64(t[to]) => b[to] + post \in U64
  BY <1>4, <1>5, U64Assumption DEF FitsU64, U64
<1>7. FitsU64(t[to]) => t \in [Accounts -> U64]
  BY <1>3, <1>5, <1>6
<1> QED
  BY <1>2, <1>4, <1>7 DEF post, t

LEMMA VerifyStep ==
    ASSUME IInv, NEW src_eid \in Eids, NEW sender \in Addrs, NEW to \in Users,
           NEW amount_sd \in U64, NEW compose \in BOOLEAN,
           Verify(src_eid, sender, to, amount_sd, compose)
    PROVE  IInv'
<1>1. UNCHANGED <<store, peers, delegate, mint, bal, plan, outbox, composed, now,
                  configs, book>>
  BY DEF Verify
<1>2. nonce' \in Nat /\ inbox' \in SUBSET InPacket
  <2>1. amount_sd \in U64 /\ nonce + 1 \in Nat
    BY DEF IInv, TypeOK
  <2>2. [nonce |-> nonce + 1, src_eid |-> src_eid, sender |-> sender,
         to |-> to, amount_sd |-> amount_sd, compose |-> compose] \in InPacket
    BY <2>1 DEF InPacket
  <2> QED
    BY <2>1, <2>2 DEF Verify, IInv, TypeOK
<1>3. TypeOK'
  BY <1>1, <1>2 DEF IInv, TypeOK
<1>4. LimitersOK'
  BY <1>1 DEF IInv, LimitersOK
<1>5. EscrowAccounting' /\ ValueConserved'
  BY <1>1, LedgerKept DEF IInv
<1> QED
  BY <1>3, <1>4, <1>5 DEF IInv

LEMMA ChangeMintStep ==
    ASSUME IInv, ChangeMint
    PROVE  IInv'
<1>1. /\ UNCHANGED <<store, peers, delegate>> /\ configs' \in Nat
      /\ UNCHANGED <<bal, inbox, nonce, plan, outbox, composed, now, book>>
  BY DEF ChangeMint, Configured, Counted, IInv, TypeOK
<1>2. /\ mint'.supply = mint.supply
      /\ mint' \in [supply : U64, authority : Authorities \cup {None}, fee : TransferFee]
  BY InputAssumption DEF ChangeMint, IInv, TypeOK
<1>3. TypeOK'
  BY <1>1, <1>2 DEF IInv, TypeOK
<1>4. LimitersOK'
  BY <1>1 DEF IInv, LimitersOK
<1>5. EscrowAccounting' /\ ValueConserved'
  BY <1>1, <1>2, LedgerKept DEF IInv
<1> QED
  BY <1>3, <1>4, <1>5 DEF IInv

LEMMA TickStep ==
    ASSUME IInv, Tick
    PROVE  IInv'
<1>1. /\ now' = now + 1 /\ now \in Nat
      /\ UNCHANGED <<store, peers, delegate, mint, bal, inbox, nonce, plan, outbox,
                     composed, configs, book>>
  BY DEF Tick, IInv, TypeOK
<1>2. TypeOK'
  BY <1>1 DEF IInv, TypeOK
<1>3. LimitersOK'
  BY <1>1 DEF IInv, LimitersOK, LimiterOK, Limiter
<1>4. EscrowAccounting' /\ ValueConserved'
  BY <1>1, LedgerKept DEF IInv
<1> QED
  BY <1>2, <1>3, <1>4 DEF IInv

\* Both amounts a packet may be composed with are amounts.
LEMMA ComposedAmounts ==
    ASSUME TypeOK, store \in Store, NEW packet \in InPacket
    PROVE  /\ sd2ld(store.ld2sd_rate, packet.amount_sd) \in Nat
           /\ expected_received_ld(packet) \in Nat
           /\ amount_composed_ld(packet) \in Nat
<1> DEFINE amount_ld == sd2ld(store.ld2sd_rate, packet.amount_sd)
<1>1. store.ld2sd_rate \in Nat /\ packet.amount_sd \in Nat
  BY U64Assumption DEF Store, InPacket, U64
<1>2. amount_ld \in Nat
  BY <1>1 DEF sd2ld
<1> HIDE DEF amount_ld
<1>3. get_post_fee_amount_ld(mint.fee, amount_ld) \in Nat
  <2>1. mint.fee \in TransferFee
    BY DEF TypeOK
  <2>2. transfer_fee(mint.fee, amount_ld) \in 0..amount_ld
    BY <1>2, <2>1, TransferFeeBounds
  <2> QED
    BY <1>2, <2>2 DEF get_post_fee_amount_ld
<1> QED
  BY <1>2, <1>3 DEF amount_ld, expected_received_ld, amount_composed_ld

LEMMA LzReceiveTypesStep ==
    ASSUME IInv, NEW packet \in inbox, LzReceiveTypes(packet)
    PROVE  IInv'
<1>1. UNCHANGED <<store, peers, delegate, mint, bal, inbox, nonce, outbox, composed,
                  now, configs, book>>
  BY DEF LzReceiveTypes
<1>2. packet \in InPacket /\ store \in Store
  BY DEF LzReceiveTypes, IInv, TypeOK
<1>3. expected_received_ld(packet) \in Nat
  BY <1>2, ComposedAmounts DEF IInv
<1>4. plan' \in [packet : InPacket, mint_authority : Authorities \cup {None},
                 compose_ld : Nat \cup {None}]
  BY <1>2, <1>3 DEF LzReceiveTypes, lz_receive_types, IInv, TypeOK
<1>5. TypeOK'
  BY <1>1, <1>4 DEF IInv, TypeOK
<1>6. LimitersOK'
  BY <1>1 DEF IInv, LimitersOK
<1>7. EscrowAccounting' /\ ValueConserved'
  BY <1>1, LedgerKept DEF IInv
<1> QED
  BY <1>5, <1>6, <1>7 DEF IInv

LEMMA WithdrawFeeStep ==
    ASSUME IInv, NEW signer \in Keys, NEW dest \in Accounts, NEW fee_ld \in Amounts,
           WithdrawFee(signer, dest, fee_ld)
    PROVE  IInv'
<1>1. /\ UNCHANGED <<store, peers, delegate, mint, inbox, nonce, plan, outbox, composed,
                     now>>
      /\ configs' \in Nat
      /\ store \in Store /\ store # None /\ fee_ld \in Nat /\ Escrow \in Accounts
  BY InputAssumption, U64Assumption
     DEF WithdrawFee, HasOneAdmin, Counted, IInv, TypeOK, U64, Accounts
<1>2. LimitersOK'
  BY <1>1 DEF IInv, LimitersOK
<1>3. CASE dest = Escrow
  <2>1. bal' = bal /\ book' = book
    BY <1>3 DEF WithdrawFee, Transferred
  <2>2. TypeOK'
    BY <1>1, <2>1 DEF IInv, TypeOK
  <2>3. EscrowAccounting' /\ ValueConserved'
    BY <1>1, <2>1, LedgerKept DEF IInv
  <2> QED
    BY <1>2, <2>2, <2>3 DEF IInv
<1>4. CASE dest # Escrow
  <2>1. /\ store.tvl_ld \in Nat /\ bal[Escrow] \in Nat /\ book.fees \in Int
        /\ bal[Escrow] = store.tvl_ld + book.fees
    BY <1>1, U64Assumption DEF IInv, EscrowAccounting, TypeOK, Store, U64, Book
  <2>2. fee_ld <= book.fees /\ fee_ld <= bal[Escrow]
    BY <1>1, <2>1 DEF WithdrawFee, withdrawable_ld
  <2>3. /\ bal' = Transferred(bal, Escrow, dest, fee_ld) /\ FitsU64(bal'[dest])
        /\ book' = [book EXCEPT !.fees = book.fees - fee_ld,
                                !.withheld = book.withheld + Withheld(fee_ld)]
    BY <1>4 DEF WithdrawFee
  <2>4. /\ bal' \in [Accounts -> U64] /\ bal'[Escrow] = bal[Escrow] - fee_ld
        /\ Withheld(fee_ld) \in Nat
    BY <1>1, <1>4, <2>2, <2>3, TransferFacts DEF IInv, TypeOK
  <2>5. /\ book' \in Book
        /\ book'.fees = book.fees - fee_ld
        /\ book'.sent = book.sent /\ book'.received = book.received
    <3>1. book \in Book
      BY DEF IInv, TypeOK
    <3>2. book.fees - fee_ld \in Int /\ book.withheld + Withheld(fee_ld) \in Nat
      BY <1>1, <2>4, <3>1 DEF Book
    <3> DEFINE f == book.fees - fee_ld
               w == book.withheld + Withheld(fee_ld)
    <3>3. book' = [book EXCEPT !.fees = f, !.withheld = w] /\ f \in Int /\ w \in Nat
      BY <2>3, <3>2
    <3> HIDE DEF f, w
    <3>4. book' \in Book /\ book'.fees = f /\ book'.sent = book.sent
          /\ book'.received = book.received
      BY <3>1, <3>3 DEF Book
    <3> QED
      BY <3>4 DEF f
  <2>6. TypeOK'
    BY <1>1, <2>4, <2>5 DEF IInv, TypeOK
  <2>7. EscrowAccounting'
    BY <1>1, <2>1, <2>2, <2>4, <2>5 DEF EscrowAccounting
  <2>8. ValueConserved'
    BY <1>1, <2>5 DEF IInv, ValueConserved
  <2> QED
    BY <1>2, <2>6, <2>7, <2>8 DEF IInv
<1> QED
  BY <1>3, <1>4

LEMMA DonateStep ==
    ASSUME IInv, NEW user \in Users, NEW amount \in Amounts, Donate(user, amount)
    PROVE  IInv'
<1> DEFINE post == get_post_fee_amount_ld(mint.fee, amount)
<1>1. /\ UNCHANGED <<store, peers, delegate, mint, inbox, nonce, plan, outbox, composed,
                     now>>
      /\ configs' \in Nat
      /\ store \in Store /\ store # None /\ amount \in Nat
      /\ Escrow \in Accounts /\ user \in Accounts /\ user # Escrow
  <2>1. amount \in Nat
    BY InputAssumption, U64Assumption DEF U64
  <2>2. Escrow \in Accounts /\ user \in Accounts /\ user # Escrow
    BY AccountsAssumption DEF Accounts
  <2> QED
    BY <2>1, <2>2 DEF Donate, Counted, IInv, TypeOK
<1>2. LimitersOK'
  BY <1>1 DEF IInv, LimitersOK
<1>3. /\ bal' = Transferred(bal, user, Escrow, amount) /\ FitsU64(bal'[Escrow])
      /\ amount <= bal[user]
      /\ book' = [book EXCEPT !.fees = book.fees + post,
                              !.withheld = book.withheld + Withheld(amount)]
  <2>1. bal[user] \in Nat /\ bal[user] >= amount
    BY <1>1, U64Assumption DEF Donate, IInv, TypeOK, U64
  <2> QED
    BY <1>1, <2>1 DEF Donate
<1>4. /\ bal' \in [Accounts -> U64] /\ bal'[Escrow] = bal[Escrow] + post
      /\ Withheld(amount) \in Nat /\ post \in Nat
  BY <1>1, <1>3, TransferFacts DEF IInv, TypeOK
<1> HIDE DEF post
<1>5. /\ book' \in Book
      /\ book'.fees = book.fees + post
      /\ book'.sent = book.sent /\ book'.received = book.received
  <2>1. book \in Book
    BY DEF IInv, TypeOK
  <2>2. book.fees + post \in Int /\ book.withheld + Withheld(amount) \in Nat
    BY <1>4, <2>1 DEF Book
  <2> DEFINE f == book.fees + post
             w == book.withheld + Withheld(amount)
  <2>3. book' = [book EXCEPT !.fees = f, !.withheld = w] /\ f \in Int /\ w \in Nat
    BY <1>3, <2>2
  <2> HIDE DEF f, w
  <2>4. book' \in Book /\ book'.fees = f /\ book'.sent = book.sent
        /\ book'.received = book.received
    BY <2>1, <2>3 DEF Book
  <2> QED
    BY <2>4 DEF f
<1>6. TypeOK'
  BY <1>1, <1>4, <1>5 DEF IInv, TypeOK
<1>7. /\ store.tvl_ld \in Nat /\ bal[Escrow] \in Nat /\ book.fees \in Int
      /\ bal[Escrow] = store.tvl_ld + book.fees /\ book.fees >= 0
  BY <1>1, U64Assumption DEF IInv, EscrowAccounting, TypeOK, Store, U64, Book
<1>8. EscrowAccounting'
  BY <1>1, <1>4, <1>5, <1>7 DEF EscrowAccounting
<1>9. ValueConserved'
  BY <1>1, <1>5 DEF IInv, ValueConserved
<1> QED
  BY <1>2, <1>6, <1>8, <1>9 DEF IInv

-----------------------------------------------------------------------------
(* send                                                                    *)

\* What both kinds of send have in common.
LEMMA SendFacts ==
    ASSUME IInv, NEW user \in Users, NEW eid \in Eids,
           NEW amount_ld \in Amounts, NEW min_amount_ld \in Amounts,
           NEW compose \in BOOLEAN, NEW extra \in ExtraOptions,
           Send(user, eid, amount_ld, min_amount_ld, compose, extra)
    PROVE  LET amt == compute_fee_and_adjust_amount(amount_ld, store, mint.fee,
                                                    peers[eid].fee_bps)
               sd  == ld2sd(store.ld2sd_rate, amt.received)
           IN  /\ store \in Store /\ store # None
               /\ amt.sent \in U64 /\ amt.received \in U64 /\ amt.fee \in U64
               /\ amt.sent <= bal[user]
               /\ store.oft_type = "Adapter" =>
                    get_post_fee_amount_ld(mint.fee, amt.sent) = amt.received + amt.fee
               /\ store.oft_type = "Native" => amt.sent = amt.received + amt.fee
               /\ sd \in Nat /\ store.ld2sd_rate * sd = amt.received
               /\ amt.sent > 0 => amt.received > 0
<1> DEFINE amt == compute_fee_and_adjust_amount(amount_ld, store, mint.fee, peers[eid].fee_bps)
           sd == ld2sd(store.ld2sd_rate, amt.received)
<1>1. /\ store \in Store /\ store # None /\ peers[eid] # None
      /\ amt.sent <= bal[user] /\ bal[user] \in Nat /\ FitsU64(amt.sent)
  <2>1. bal[user] \in Nat /\ store # None /\ peers[eid] # None
    BY U64Assumption DEF Send, IInv, TypeOK, Accounts, U64
  <2>2. bal[user] >= amt.sent /\ FitsU64(amt.sent)
    BY DEF Send
  <2>3. amt.sent <= bal[user]
    BY <2>2
  <2> QED
    BY <2>1, <2>2, <2>3 DEF IInv, TypeOK
<1>2. PeerOK(peers[eid], now)
  BY <1>1, PeerIsOK
<1>3. peers[eid].fee_bps \in (0..(OneInBps - 1)) \cup {None}
  BY <1>2 DEF PeerOK, Peer
<1>4. amount_ld \in Nat /\ amount_ld <= U64Max /\ mint.fee \in TransferFee
  BY InputAssumption, U64Assumption DEF IInv, TypeOK, U64
<1>5. /\ store.oft_type \in {"Native", "Adapter"}
      /\ store.ld2sd_rate \in Nat \ {0}
      /\ store.default_fee_bps \in 0..(OneInBps - 1)
  BY <1>1 DEF Store
<1>6. /\ amt.sent \in 0..amount_ld
      /\ amt.received \in Nat
      /\ amt.fee \in Nat
      /\ store.oft_type = "Adapter" =>
           get_post_fee_amount_ld(mint.fee, amt.sent) = amt.received + amt.fee
      /\ store.oft_type = "Native" => amt.sent = amt.received + amt.fee
      /\ sd2ld(store.ld2sd_rate, sd) = amt.received
      /\ sd2ld(store.ld2sd_rate, ld2sd(store.ld2sd_rate, amt.fee)) = amt.fee
      /\ amt.sent > 0 => amt.received > 0
  BY <1>3, <1>4, <1>5, ComputeFacts
<1> HIDE DEF amt
<1>7. transfer_fee(mint.fee, amt.sent) \in 0..amt.sent
  BY <1>4, <1>6, TransferFeeBounds
<1>8. amt.received + amt.fee <= amt.sent
  BY <1>5, <1>6, <1>7 DEF get_post_fee_amount_ld
<1>9. amt.sent \in U64 /\ amt.received \in U64 /\ amt.fee \in U64
  BY <1>4, <1>6, <1>8, U64Assumption DEF U64
<1>10. sd \in Nat
  BY <1>5, <1>6, DivMod DEF ld2sd
<1> HIDE DEF sd
<1>11. store.ld2sd_rate * sd = amt.received
  BY <1>5, <1>6, <1>10 DEF sd2ld
<1> QED
  BY <1>1, <1>6, <1>9, <1>10, <1>11 DEF amt, sd

\* The packet of a send is well-formed and its peer's limiters stay good.
LEMMA SendPacketFacts ==
    ASSUME IInv, NEW user \in Users, NEW eid \in Eids,
           NEW amount_ld \in Amounts, NEW min_amount_ld \in Amounts,
           NEW compose \in BOOLEAN, NEW extra \in ExtraOptions,
           Send(user, eid, amount_ld, min_amount_ld, compose, extra)
    PROVE  /\ peers' \in [Eids -> Peer \cup {None}] /\ LimitersOK'
           /\ outbox' \in Seq(OutPacket)
<1> DEFINE peer == peers[eid]
           amt == compute_fee_and_adjust_amount(amount_ld, store, mint.fee, peer.fee_bps)
           sd == ld2sd(store.ld2sd_rate, amt.received)
           enforced == get_enforced_options(peer, compose)
           out == consumed(peer.outbound, amt.received, now)
           in == refilled(peer.inbound, amt.received, now)
           new == [peer EXCEPT !.outbound = out, !.inbound = in]
           packet == [dst_eid |-> eid, receiver |-> peer.peer_address, amount_sd |-> sd,
                      compose |-> compose, options |-> combine_options(enforced, extra)]
<1>1. /\ peer # None
      /\ limit_allows(peer.outbound, amt.received, now)
      /\ peers' = [peers EXCEPT ![eid] = new]
      /\ outbox' = Append(outbox, packet)
      /\ now' = now
  BY DEF Send
<1>2. amt.received \in U64 /\ sd \in Nat
  BY SendFacts
<1> HIDE DEF amt, sd
<1>3. PeerOK(peer, now) /\ now \in Nat
  BY <1>1, PeerIsOK DEF IInv, TypeOK
<1> HIDE DEF peer
<1>4. LimitOK(out, now) /\ LimitOK(in, now)
  BY <1>1, <1>2, <1>3, LimitStep DEF PeerOK
<1> HIDE DEF out, in
<1>5. PeerOK(new, now)
  BY <1>3, <1>4 DEF PeerOK, Peer, LimitOK, LimiterOK
<1> HIDE DEF new
<1>6. peers' \in [Eids -> Peer \cup {None}] /\ LimitersOK'
  BY <1>1, <1>5, PeersKept
<1>7. enforced \in Options /\ extra \in Options
  BY <1>3, InputAssumption DEF get_enforced_options, PeerOK, Peer
<1>8. combine_options(enforced, extra) \in Options
  <2> HIDE DEF enforced
  <2> QED
    BY <1>7 DEF combine_options, Options
<1> HIDE DEF enforced
<1>9. packet \in OutPacket
  <2>1. peer.peer_address \in Addrs \cup {ZeroAddr}
    BY <1>3 DEF PeerOK, Peer
  <2> QED
    BY <1>2, <1>8, <2>1 DEF OutPacket
<1> HIDE DEF packet
<1>10. outbox \in Seq(OutPacket)
  BY DEF IInv, TypeOK
<1>11. outbox' \in Seq(OutPacket)
  BY <1>1, <1>9, <1>10
<1> QED
  BY <1>6, <1>11

\* What a send does to tokens and books, for both types.
LEMMA SendLedger ==
    ASSUME IInv, NEW user \in Users, NEW eid \in Eids,
           NEW amount_ld \in Amounts, NEW min_amount_ld \in Amounts,
           NEW compose \in BOOLEAN, NEW extra \in ExtraOptions,
           Send(user, eid, amount_ld, min_amount_ld, compose, extra)
    PROVE  LET amt == compute_fee_and_adjust_amount(amount_ld, store, mint.fee,
                                                    peers[eid].fee_bps)
               sd  == ld2sd(store.ld2sd_rate, amt.received)
           IN  /\ bal' \in [Accounts -> U64]
               /\ bal'[user] = bal[user] - amt.sent
               /\ \A a \in Users \ {user} : bal'[a] = bal[a]
               /\ book' \in Book
               /\ book'.sent = book.sent + sd /\ book'.received = book.received
               /\ book'.fees >= book.fees
               /\ store' \in Store
               /\ store'.ld2sd_rate = store.ld2sd_rate /\ store'.oft_type = store.oft_type
               /\ mint' \in [supply : U64, authority : Authorities \cup {None},
                             fee : TransferFee]
               /\ amt.sent = amt.received + (book'.fees - book.fees)
                                          + (book'.withheld - book.withheld)
               /\ store.oft_type = "Adapter" =>
                    /\ bal'[Escrow] = bal[Escrow] + amt.received + amt.fee
                    /\ book'.fees = book.fees + amt.fee
                    /\ store'.tvl_ld = store.tvl_ld + amt.received
                    /\ mint'.supply = mint.supply
               /\ store.oft_type = "Native" =>
                    /\ bal'[Escrow] = bal[Escrow] + (book'.fees - book.fees)
                    /\ store'.tvl_ld = store.tvl_ld
                    /\ mint'.supply = mint.supply - amt.received
<1> DEFINE amt == compute_fee_and_adjust_amount(amount_ld, store, mint.fee, peers[eid].fee_bps)
           sd == ld2sd(store.ld2sd_rate, amt.received)
           MintT == [supply : U64, authority : Authorities \cup {None}, fee : TransferFee]
<1>0. SUFFICES /\ bal' \in [Accounts -> U64]
               /\ bal'[user] = bal[user] - amt.sent
               /\ \A a \in Users \ {user} : bal'[a] = bal[a]
               /\ book' \in Book
               /\ book'.sent = book.sent + sd /\ book'.received = book.received
               /\ book'.fees >= book.fees
               /\ store' \in Store
               /\ store'.ld2sd_rate = store.ld2sd_rate /\ store'.oft_type = store.oft_type
               /\ mint' \in MintT
               /\ amt.sent = amt.received + (book'.fees - book.fees)
                                          + (book'.withheld - book.withheld)
               /\ store.oft_type = "Adapter" =>
                    /\ bal'[Escrow] = bal[Escrow] + amt.received + amt.fee
                    /\ book'.fees = book.fees + amt.fee
                    /\ store'.tvl_ld = store.tvl_ld + amt.received
                    /\ mint'.supply = mint.supply
               /\ store.oft_type = "Native" =>
                    /\ bal'[Escrow] = bal[Escrow] + (book'.fees - book.fees)
                    /\ store'.tvl_ld = store.tvl_ld
                    /\ mint'.supply = mint.supply - amt.received
  OBVIOUS
<1>1. /\ store \in Store /\ store # None
      /\ amt.sent \in U64 /\ amt.received \in U64 /\ amt.fee \in U64
      /\ amt.sent <= bal[user]
      /\ store.oft_type = "Adapter" =>
           get_post_fee_amount_ld(mint.fee, amt.sent) = amt.received + amt.fee
      /\ store.oft_type = "Native" => amt.sent = amt.received + amt.fee
      /\ sd \in Nat
  BY SendFacts
<1>2. /\ user \in Accounts /\ Escrow \in Accounts /\ user # Escrow
      /\ \A a \in Users \ {user} : a \in Accounts \ {user, Escrow}
  BY AccountsAssumption DEF Accounts
<1>3. /\ bal \in [Accounts -> U64] /\ TypeOK /\ book \in Book /\ mint \in MintT
  BY DEF IInv, TypeOK
<1>4. FitsU64(bal'[Escrow])
  BY DEF Send
<1>a. CASE store.oft_type = "Adapter"
  <2>1. /\ FitsU64(store.tvl_ld + amt.received)
        /\ store' = [store EXCEPT !.tvl_ld = store.tvl_ld + amt.received]
        /\ bal' = Transferred(bal, user, Escrow, amt.sent)
        /\ book' = [book EXCEPT !.fees = book.fees + amt.fee,
                                !.withheld = book.withheld + Withheld(amt.sent),
                                !.sent = book.sent + sd]
        /\ mint' = mint
    BY <1>a DEF Send
  <2> HIDE DEF amt, sd, MintT
  <2>2. amt.sent \in Nat /\ amt.received \in Nat /\ amt.fee \in Nat
    BY <1>1, U64Assumption DEF U64
  <2>3. /\ bal'[user] = bal[user] - amt.sent
        /\ bal'[Escrow] = bal[Escrow] + get_post_fee_amount_ld(mint.fee, amt.sent)
        /\ \A a \in Accounts \ {user, Escrow} : bal'[a] = bal[a]
        /\ Withheld(amt.sent) \in Nat
        /\ get_post_fee_amount_ld(mint.fee, amt.sent) + Withheld(amt.sent) = amt.sent
        /\ bal' \in [Accounts -> U64]
    BY <1>1, <1>2, <1>3, <1>4, <2>1, <2>2, TransferFacts
  <2>4. book.fees + amt.fee \in Int /\ book.withheld + Withheld(amt.sent) \in Nat
        /\ book.sent + sd \in Nat /\ book.fees \in Int /\ book.withheld \in Nat
    BY <1>1, <1>3, <2>2, <2>3 DEF Book
  <2>5. /\ book' \in Book /\ book'.fees = book.fees + amt.fee
        /\ book'.withheld = book.withheld + Withheld(amt.sent)
        /\ book'.sent = book.sent + sd /\ book'.received = book.received
    <3> DEFINE f == book.fees + amt.fee
               w == book.withheld + Withheld(amt.sent)
               n == book.sent + sd
    <3>1. book' = [book EXCEPT !.fees = f, !.withheld = w, !.sent = n]
      BY <2>1
    <3>2. f \in Int /\ w \in Nat /\ n \in Nat
      BY <2>4
    <3> HIDE DEF f, w, n
    <3>3. /\ book' \in Book /\ book'.fees = f /\ book'.withheld = w
          /\ book'.sent = n /\ book'.received = book.received
      BY <1>3, <3>1, <3>2 DEF Book
    <3> QED
      BY <3>3 DEF f, w, n
  <2>6. /\ store' \in Store /\ store'.tvl_ld = store.tvl_ld + amt.received
        /\ store'.ld2sd_rate = store.ld2sd_rate /\ store'.oft_type = store.oft_type
    <3>1. store.tvl_ld + amt.received \in U64
      BY <1>1, <2>1, <2>2, U64Assumption DEF Store, U64, FitsU64
    <3> QED
      BY <1>1, <2>1, <3>1 DEF Store
  <2>7. bal'[Escrow] = bal[Escrow] + amt.received + amt.fee
    <3>1. bal[Escrow] \in Nat
      BY <1>2, <1>3, U64Assumption DEF U64
    <3> QED
      BY <1>1, <1>a, <2>2, <2>3, <3>1
  <2>8. amt.sent = amt.received + (book'.fees - book.fees)
                                + (book'.withheld - book.withheld)
    BY <1>1, <1>a, <2>2, <2>3, <2>4, <2>5
  <2> QED
    BY <1>2, <1>3, <1>a, <2>1, <2>2, <2>3, <2>4, <2>5, <2>6, <2>7, <2>8
<1>b. CASE store.oft_type = "Native"
  <2> DEFINE post == get_post_fee_amount_ld(mint.fee, amt.fee)
             b == [bal EXCEPT ![user] = bal[user] - (amt.sent - amt.fee)]
  <2>1. /\ mint.supply >= amt.sent - amt.fee
        /\ mint' = [mint EXCEPT !.supply = mint.supply - (amt.sent - amt.fee)]
        /\ bal' = Transferred(b, user, Escrow, amt.fee)
        /\ book' = [book EXCEPT !.fees = book.fees + post,
                                !.withheld = book.withheld + Withheld(amt.fee),
                                !.sent = book.sent + sd]
        /\ store' = store
    BY <1>b DEF Send
  <2> HIDE DEF amt, sd
  <2>2. /\ amt.sent \in Nat /\ amt.received \in Nat /\ amt.fee \in Nat
        /\ amt.sent = amt.received + amt.fee /\ amt.sent - amt.fee = amt.received
        /\ bal[user] \in Nat /\ bal[Escrow] \in Nat /\ bal[user] <= U64Max
    BY <1>1, <1>2, <1>3, <1>b, U64Assumption DEF U64
  <2>3. /\ b \in [Accounts -> U64] /\ b[user] = bal[user] - amt.received
        /\ amt.fee <= b[user]
        /\ \A a \in Accounts \ {user} : b[a] = bal[a]
    <3>1. bal[user] - (amt.sent - amt.fee) \in U64
      BY <1>1, <2>2, U64Assumption DEF U64
    <3>2. b \in [Accounts -> U64] /\ b[user] = bal[user] - (amt.sent - amt.fee)
      BY <1>2, <1>3, <3>1
    <3> QED
      BY <1>1, <1>3, <2>2, <3>2
  <2> HIDE DEF b
  <2>4. /\ bal'[user] = b[user] - amt.fee
        /\ bal'[Escrow] = b[Escrow] + post
        /\ \A a \in Accounts \ {user, Escrow} : bal'[a] = b[a]
        /\ post \in Nat
        /\ Withheld(amt.fee) \in Nat
        /\ post + Withheld(amt.fee) = amt.fee
        /\ bal' \in [Accounts -> U64]
    BY <1>2, <1>3, <1>4, <2>1, <2>2, <2>3, TransferFacts
  <2> HIDE DEF post
  <2>5. book.fees + post \in Int /\ book.withheld + Withheld(amt.fee) \in Nat
        /\ book.sent + sd \in Nat /\ book.fees \in Int /\ book.withheld \in Nat
    BY <1>1, <1>3, <2>4 DEF Book
  <2>6. /\ book' \in Book /\ book'.fees = book.fees + post
        /\ book'.withheld = book.withheld + Withheld(amt.fee)
        /\ book'.sent = book.sent + sd /\ book'.received = book.received
    <3> DEFINE f == book.fees + post
               w == book.withheld + Withheld(amt.fee)
               n == book.sent + sd
    <3>1. book' = [book EXCEPT !.fees = f, !.withheld = w, !.sent = n]
      BY <2>1
    <3>2. f \in Int /\ w \in Nat /\ n \in Nat
      BY <2>5
    <3> HIDE DEF f, w, n
    <3>3. /\ book' \in Book /\ book'.fees = f /\ book'.withheld = w
          /\ book'.sent = n /\ book'.received = book.received
      BY <1>3, <3>1, <3>2 DEF Book
    <3> QED
      BY <3>3 DEF f, w, n
  <2>7. mint' \in MintT /\ mint'.supply = mint.supply - amt.received
    <3>1. mint.supply \in U64
      BY <1>3
    <3>2. mint.supply - (amt.sent - amt.fee) \in U64
      BY <2>1, <2>2, <3>1, U64Assumption DEF U64
    <3> QED
      BY <1>3, <2>1, <2>2, <3>2
  <2>8. amt.sent = amt.received + (book'.fees - book.fees)
                                + (book'.withheld - book.withheld)
    BY <2>2, <2>4, <2>5, <2>6
  <2>9. bal'[user] = bal[user] - amt.sent /\ bal'[Escrow] = bal[Escrow] + (book'.fees - book.fees)
    BY <1>2, <2>2, <2>3, <2>4, <2>5, <2>6
  <2>10. \A a \in Users \ {user} : bal'[a] = bal[a]
    BY <1>2, <2>3, <2>4
  <2> HIDE DEF MintT
  <2> QED
    BY <1>1, <1>b, <2>1, <2>4, <2>5, <2>6, <2>7, <2>8, <2>9, <2>10
<1>5. store.oft_type \in {"Native", "Adapter"}
  BY <1>1 DEF Store
<1> QED
  BY <1>a, <1>b, <1>5

LEMMA SendStep ==
    ASSUME IInv, NEW user \in Users, NEW eid \in Eids,
           NEW amount_ld \in Amounts, NEW min_amount_ld \in Amounts,
           NEW compose \in BOOLEAN, NEW extra \in ExtraOptions,
           Send(user, eid, amount_ld, min_amount_ld, compose, extra)
    PROVE  IInv'
<1> DEFINE amt == compute_fee_and_adjust_amount(amount_ld, store, mint.fee, peers[eid].fee_bps)
           sd == ld2sd(store.ld2sd_rate, amt.received)
           rate == store.ld2sd_rate
<1>1. /\ store \in Store /\ store # None
      /\ amt.received \in U64 /\ amt.fee \in U64
      /\ sd \in Nat /\ rate * sd = amt.received
  BY SendFacts
<1>2. /\ bal' \in [Accounts -> U64]
      /\ book' \in Book
      /\ book'.sent = book.sent + sd /\ book'.received = book.received
      /\ book'.fees >= book.fees
      /\ store' \in Store
      /\ store'.ld2sd_rate = rate /\ store'.oft_type = store.oft_type
      /\ mint' \in [supply : U64, authority : Authorities \cup {None}, fee : TransferFee]
      /\ store.oft_type = "Adapter" =>
           /\ bal'[Escrow] = bal[Escrow] + amt.received + amt.fee
           /\ book'.fees = book.fees + amt.fee
           /\ store'.tvl_ld = store.tvl_ld + amt.received
           /\ mint'.supply = mint.supply
      /\ store.oft_type = "Native" =>
           /\ bal'[Escrow] = bal[Escrow] + (book'.fees - book.fees)
           /\ store'.tvl_ld = store.tvl_ld
           /\ mint'.supply = mint.supply - amt.received
  BY SendLedger
<1> HIDE DEF amt, sd
<1>3. UNCHANGED <<delegate, inbox, nonce, plan, composed, now, configs>>
  BY DEF Send
<1>4. /\ peers' \in [Eids -> Peer \cup {None}] /\ LimitersOK'
      /\ outbox' \in Seq(OutPacket)
  BY SendPacketFacts
<1>5. TypeOK'
  BY <1>2, <1>3, <1>4 DEF IInv, TypeOK
<1>6. store' # None /\ rate \in Nat /\ store.oft_type \in {"Native", "Adapter"}
  BY <1>1, <1>2, NoneStoreAssumption DEF Store
<1>7. /\ amt.received \in Nat /\ amt.fee \in Nat /\ store.tvl_ld \in Nat
      /\ mint.supply \in Nat
      /\ bal[Escrow] \in Nat /\ book.fees \in Int /\ book'.fees \in Int
      /\ book.sent \in Nat /\ book.received \in Nat
      /\ bal[Escrow] = store.tvl_ld + book.fees /\ book.fees >= 0
  <2>1. book \in Book /\ bal \in [Accounts -> U64] /\ Escrow \in Accounts
        /\ mint.supply \in U64
    BY DEF IInv, TypeOK, Accounts
  <2>2. amt.received \in Nat /\ amt.fee \in Nat /\ store.tvl_ld \in Nat
    BY <1>1, U64Assumption DEF Store, U64
  <2>3. mint.supply \in Nat /\ bal[Escrow] \in Nat
    BY <2>1, U64Assumption DEF U64
  <2>4. book.fees \in Int /\ book'.fees \in Int /\ book.sent \in Nat /\ book.received \in Nat
    BY <1>2, <2>1 DEF Book
  <2>5. bal[Escrow] = store.tvl_ld + book.fees /\ book.fees >= 0
    BY <1>1 DEF IInv, EscrowAccounting
  <2> QED
    BY <2>2, <2>3, <2>4, <2>5
<1>8. EscrowAccounting'
  BY <1>1, <1>2, <1>6, <1>7 DEF EscrowAccounting
<1>9. ValueConserved'
  <2>1. /\ rate * book'.sent = rate * book.sent + amt.received
        /\ rate * book.sent \in Nat /\ rate * book.received \in Nat
    BY <1>1, <1>2, <1>6, <1>7
  <2>2. CASE store.oft_type = "Adapter"
    <3>1. store.tvl_ld + rate * book.received = rate * book.sent /\ mint.supply = Supply
      BY <1>1, <2>2 DEF IInv, ValueConserved
    <3>2. store'.tvl_ld + rate * book'.received = rate * book'.sent
      BY <1>2, <1>7, <2>1, <2>2, <3>1
    <3> QED
      BY <1>2, <1>6, <2>2, <3>1, <3>2 DEF ValueConserved
  <2>3. CASE store.oft_type = "Native"
    <3>1. /\ mint.supply + rate * book.sent = Supply + rate * book.received
          /\ store.tvl_ld = 0
      BY <1>1, <2>3 DEF IInv, ValueConserved
    <3>2. mint'.supply + rate * book'.sent = Supply + rate * book'.received
      BY <1>2, <1>7, <2>1, <2>3, <3>1
    <3> QED
      BY <1>2, <1>6, <2>3, <3>1, <3>2 DEF ValueConserved
  <2> QED
    BY <1>6, <2>2, <2>3
<1> QED
  BY <1>4, <1>5, <1>8, <1>9 DEF IInv

-----------------------------------------------------------------------------
(* lz_receive                                                              *)

\* What a receipt does to tokens and books, for both types.
LEMMA ReceiveLedger ==
    ASSUME IInv, NEW packet \in inbox, LzReceive(packet)
    PROVE  LET amount_ld == sd2ld(store.ld2sd_rate, packet.amount_sd)
           IN  /\ packet \in InPacket /\ store \in Store /\ store # None
               /\ amount_ld \in U64
               /\ bal' \in [Accounts -> U64]
               /\ book' \in Book
               /\ book'.sent = book.sent /\ book'.fees = book.fees
               /\ book'.received = book.received + packet.amount_sd
               /\ store' \in Store
               /\ store'.ld2sd_rate = store.ld2sd_rate /\ store'.oft_type = store.oft_type
               /\ mint' \in [supply : U64, authority : Authorities \cup {None},
                             fee : TransferFee]
               /\ store.oft_type = "Adapter" =>
                    /\ bal'[Escrow] = bal[Escrow] - amount_ld
                    /\ store'.tvl_ld = store.tvl_ld - amount_ld
                    /\ mint'.supply = mint.supply
               /\ store.oft_type = "Native" =>
                    /\ bal'[Escrow] = bal[Escrow]
                    /\ store'.tvl_ld = store.tvl_ld
                    /\ mint'.supply = mint.supply + amount_ld
<1> DEFINE amount_ld == sd2ld(store.ld2sd_rate, packet.amount_sd)
           MintT == [supply : U64, authority : Authorities \cup {None}, fee : TransferFee]
<1>0. SUFFICES /\ packet \in InPacket /\ store \in Store /\ store # None
               /\ amount_ld \in U64
               /\ bal' \in [Accounts -> U64]
               /\ book' \in Book
               /\ book'.sent = book.sent /\ book'.fees = book.fees
               /\ book'.received = book.received + packet.amount_sd
               /\ store' \in Store
               /\ store'.ld2sd_rate = store.ld2sd_rate /\ store'.oft_type = store.oft_type
               /\ mint' \in MintT
               /\ store.oft_type = "Adapter" =>
                    /\ bal'[Escrow] = bal[Escrow] - amount_ld
                    /\ store'.tvl_ld = store.tvl_ld - amount_ld
                    /\ mint'.supply = mint.supply
               /\ store.oft_type = "Native" =>
                    /\ bal'[Escrow] = bal[Escrow]
                    /\ store'.tvl_ld = store.tvl_ld
                    /\ mint'.supply = mint.supply + amount_ld
  OBVIOUS
<1>1. /\ packet \in InPacket /\ store \in Store /\ store # None
      /\ TypeOK /\ bal \in [Accounts -> U64] /\ book \in Book /\ mint \in MintT
  BY DEF LzReceive, IInv, TypeOK
<1>2. amount_ld \in U64
  <2>1. amount_ld \in Nat
    BY <1>1, ComposedAmounts
  <2>2. FitsU64(amount_ld)
    BY DEF LzReceive, Fits
  <2> QED
    BY <2>1, <2>2, U64Assumption DEF FitsU64, U64
<1>3. /\ packet.to \in Accounts /\ Escrow \in Accounts /\ packet.to # Escrow
      /\ packet.amount_sd \in Nat
  BY <1>1, AccountsAssumption, U64Assumption DEF InPacket, Accounts, U64
<1>4. FitsU64(bal'[packet.to])
  BY DEF LzReceive
<1>a. CASE store.oft_type = "Adapter"
  <2>1. /\ store.tvl_ld >= amount_ld /\ bal[Escrow] >= amount_ld
        /\ store' = [store EXCEPT !.tvl_ld = store.tvl_ld - amount_ld]
        /\ bal' = Transferred(bal, Escrow, packet.to, amount_ld)
        /\ book' = [book EXCEPT !.withheld = book.withheld + Withheld(amount_ld),
                                !.received = book.received + packet.amount_sd]
        /\ mint' = mint
    BY <1>a DEF LzReceive
  <2> HIDE DEF amount_ld, MintT
  <2>2. amount_ld \in Nat /\ amount_ld <= bal[Escrow]
    <3>1. bal[Escrow] \in Nat /\ amount_ld \in Nat
      BY <1>1, <1>2, <1>3, U64Assumption DEF U64
    <3> QED
      BY <2>1, <3>1
  <2>3. /\ bal'[Escrow] = bal[Escrow] - amount_ld
        /\ Withheld(amount_ld) \in Nat
        /\ bal' \in [Accounts -> U64]
    BY <1>1, <1>3, <1>4, <2>1, <2>2, TransferFacts
  <2>4. /\ book' \in Book
        /\ book'.sent = book.sent /\ book'.fees = book.fees
        /\ book'.received = book.received + packet.amount_sd
    <3> DEFINE w == book.withheld + Withheld(amount_ld)
               n == book.received + packet.amount_sd
    <3>1. book' = [book EXCEPT !.withheld = w, !.received = n]
      BY <2>1
    <3>2. w \in Nat /\ n \in Nat
      BY <1>1, <1>3, <2>3 DEF Book
    <3> HIDE DEF w, n
    <3>3. /\ book' \in Book /\ book'.sent = book.sent /\ book'.fees = book.fees
          /\ book'.received = n
      BY <1>1, <3>1, <3>2 DEF Book
    <3> QED
      BY <3>3 DEF n
  <2>5. /\ store' \in Store /\ store'.tvl_ld = store.tvl_ld - amount_ld
        /\ store'.ld2sd_rate = store.ld2sd_rate /\ store'.oft_type = store.oft_type
    <3>1. store.tvl_ld - amount_ld \in U64
      BY <1>1, <2>1, <2>2, U64Assumption DEF Store, U64
    <3> QED
      BY <1>1, <2>1, <3>1 DEF Store
  <2> QED
    BY <1>1, <1>2, <1>a, <2>1, <2>3, <2>4, <2>5
<1>b. CASE store.oft_type = "Native"
  <2>1. /\ FitsU64(mint.supply + amount_ld)
        /\ mint' = [mint EXCEPT !.supply = mint.supply + amount_ld]
        /\ bal' = [bal EXCEPT ![packet.to] = bal[packet.to] + amount_ld]
        /\ book' = [book EXCEPT !.received = book.received + packet.amount_sd]
        /\ store' = store
    BY <1>b DEF LzReceive
  <2> HIDE DEF amount_ld
  <2>2. amount_ld \in Nat /\ mint.supply \in Nat /\ bal[packet.to] \in Nat
    BY <1>1, <1>2, <1>3, U64Assumption DEF U64
  <2>3. mint' \in MintT /\ mint'.supply = mint.supply + amount_ld
    <3>1. mint.supply + amount_ld \in U64
      BY <2>1, <2>2, U64Assumption DEF FitsU64, U64
    <3> QED
      BY <1>1, <2>1, <3>1
  <2>4. bal' \in [Accounts -> U64] /\ bal'[Escrow] = bal[Escrow]
    <3>1. bal'[packet.to] = bal[packet.to] + amount_ld
      BY <1>1, <1>3, <2>1
    <3>2. bal[packet.to] + amount_ld \in U64
      BY <1>4, <2>2, <3>1, U64Assumption DEF FitsU64, U64
    <3> QED
      BY <1>1, <1>3, <2>1, <3>2
  <2>5. /\ book' \in Book
        /\ book'.sent = book.sent /\ book'.fees = book.fees
        /\ book'.received = book.received + packet.amount_sd
    BY <1>1, <1>3, <2>1 DEF Book
  <2> HIDE DEF MintT
  <2> QED
    BY <1>1, <1>2, <1>b, <2>1, <2>3, <2>4, <2>5
<1>5. store.oft_type \in {"Native", "Adapter"}
  BY <1>1 DEF Store
<1> QED
  BY <1>a, <1>b, <1>5

\* The peer's limiters stay good, and what is queued is well-formed.
LEMMA ReceiveQueues ==
    ASSUME IInv, NEW packet \in inbox, LzReceive(packet)
    PROVE  /\ peers' \in [Eids -> Peer \cup {None}] /\ LimitersOK'
           /\ inbox' \in SUBSET InPacket
           /\ composed' \in SUBSET [to : Users, nonce : Nat, src_eid : Eids, amount_ld : Nat]
<1> DEFINE eid == packet.src_eid
           peer == peers[eid]
           amount_ld == sd2ld(store.ld2sd_rate, packet.amount_sd)
           in == consumed(peer.inbound, amount_ld, now)
           out == refilled(peer.outbound, amount_ld, now)
           new == [peer EXCEPT !.inbound = in, !.outbound = out]
<1>1. /\ peer # None
      /\ limit_allows(peer.inbound, amount_ld, now)
      /\ peers' = [peers EXCEPT ![eid] = new]
      /\ now' = now
      /\ inbox' = inbox \ {packet}
  BY DEF LzReceive, cleared
<1>2. packet \in InPacket /\ eid \in Eids /\ store \in Store /\ amount_ld \in U64
  <2>1. packet \in InPacket /\ store \in Store /\ amount_ld \in U64
    BY ReceiveLedger
  <2> QED
    BY <2>1 DEF InPacket
<1>3. composed' \in SUBSET [to : Users, nonce : Nat, src_eid : Eids, amount_ld : Nat]
  <2> DEFINE m == [to |-> packet.to, nonce |-> packet.nonce, src_eid |-> packet.src_eid,
                   amount_ld |-> amount_composed_ld(packet)]
  <2>1. amount_composed_ld(packet) \in Nat
    BY <1>2, ComposedAmounts DEF IInv
  <2>2. m \in [to : Users, nonce : Nat, src_eid : Eids, amount_ld : Nat]
    BY <1>2, <2>1 DEF InPacket
  <2>3. composed' = composed \/ composed' = composed \cup {m}
    BY DEF LzReceive
  <2> HIDE DEF m
  <2> QED
    BY <2>2, <2>3 DEF IInv, TypeOK
<1> HIDE DEF amount_ld, eid
<1>4. PeerOK(peer, now) /\ now \in Nat
  BY <1>1, <1>2, PeerIsOK DEF IInv, TypeOK
<1> HIDE DEF peer
<1>5. LimitOK(out, now) /\ LimitOK(in, now)
  BY <1>1, <1>2, <1>4, LimitStep DEF PeerOK
<1> HIDE DEF out, in
<1>6. PeerOK(new, now)
  BY <1>4, <1>5 DEF PeerOK, Peer, LimitOK, LimiterOK
<1> HIDE DEF new
<1>7. peers' \in [Eids -> Peer \cup {None}] /\ LimitersOK'
  BY <1>1, <1>2, <1>6, PeersKept
<1>8. inbox' \in SUBSET InPacket
  BY <1>1 DEF IInv, TypeOK
<1> QED
  BY <1>3, <1>7, <1>8

LEMMA LzReceiveStep ==
    ASSUME IInv, NEW packet \in inbox, LzReceive(packet)
    PROVE  IInv'
<1> DEFINE amount_ld == sd2ld(store.ld2sd_rate, packet.amount_sd)
           rate == store.ld2sd_rate
<1>1. /\ packet \in InPacket /\ store \in Store /\ store # None
      /\ amount_ld \in U64
      /\ bal' \in [Accounts -> U64]
      /\ book' \in Book
      /\ book'.sent = book.sent /\ book'.fees = book.fees
      /\ book'.received = book.received + packet.amount_sd
      /\ store' \in Store
      /\ store'.ld2sd_rate = rate /\ store'.oft_type = store.oft_type
      /\ mint' \in [supply : U64, authority : Authorities \cup {None}, fee : TransferFee]
      /\ store.oft_type = "Adapter" =>
           /\ bal'[Escrow] = bal[Escrow] - amount_ld
           /\ store'.tvl_ld = store.tvl_ld - amount_ld
           /\ mint'.supply = mint.supply
      /\ store.oft_type = "Native" =>
           /\ bal'[Escrow] = bal[Escrow]
           /\ store'.tvl_ld = store.tvl_ld
           /\ mint'.supply = mint.supply + amount_ld
  BY ReceiveLedger
<1>2. /\ peers' \in [Eids -> Peer \cup {None}] /\ LimitersOK'
      /\ inbox' \in SUBSET InPacket
      /\ composed' \in SUBSET [to : Users, nonce : Nat, src_eid : Eids, amount_ld : Nat]
  BY ReceiveQueues
<1>3. UNCHANGED <<delegate, nonce, plan, outbox, now, configs>>
  BY DEF LzReceive
<1>4. TypeOK'
  BY <1>1, <1>2, <1>3 DEF IInv, TypeOK
<1>5. /\ store' # None /\ rate \in Nat /\ store.oft_type \in {"Native", "Adapter"}
      /\ packet.amount_sd \in Nat
  BY <1>1, NoneStoreAssumption, U64Assumption DEF Store, InPacket, U64
<1>6. amount_ld = rate * packet.amount_sd
  BY <1>5 DEF sd2ld
<1> HIDE DEF amount_ld
<1>7. /\ amount_ld \in Nat /\ store.tvl_ld \in Nat /\ mint.supply \in Nat
      /\ bal[Escrow] \in Nat /\ book.fees \in Int
      /\ book.sent \in Nat /\ book.received \in Nat
      /\ bal[Escrow] = store.tvl_ld + book.fees /\ book.fees >= 0
  <2>1. book \in Book /\ bal \in [Accounts -> U64] /\ Escrow \in Accounts
        /\ mint.supply \in U64
    BY DEF IInv, TypeOK, Accounts
  <2>2. amount_ld \in Nat /\ store.tvl_ld \in Nat
    BY <1>1, U64Assumption DEF Store, U64
  <2>3. mint.supply \in Nat /\ bal[Escrow] \in Nat
    BY <2>1, U64Assumption DEF U64
  <2>4. book.fees \in Int /\ book.sent \in Nat /\ book.received \in Nat
    BY <2>1 DEF Book
  <2>5. bal[Escrow] = store.tvl_ld + book.fees /\ book.fees >= 0
    BY <1>1 DEF IInv, EscrowAccounting
  <2> QED
    BY <2>2, <2>3, <2>4, <2>5
<1>8. EscrowAccounting'
  BY <1>1, <1>5, <1>7 DEF EscrowAccounting
<1>9. ValueConserved'
  <2>1. /\ rate * book'.received = rate * book.received + amount_ld
        /\ rate * book.sent \in Nat /\ rate * book.received \in Nat
    BY <1>1, <1>5, <1>6, <1>7
  <2>2. CASE store.oft_type = "Adapter"
    <3>1. store.tvl_ld + rate * book.received = rate * book.sent /\ mint.supply = Supply
      BY <1>1, <2>2 DEF IInv, ValueConserved
    <3>2. store'.tvl_ld + rate * book'.received = rate * book'.sent
      BY <1>1, <1>7, <2>1, <2>2, <3>1
    <3> QED
      BY <1>1, <1>5, <2>2, <3>1, <3>2 DEF ValueConserved
  <2>3. CASE store.oft_type = "Native"
    <3>1. /\ mint.supply + rate * book.sent = Supply + rate * book.received
          /\ store.tvl_ld = 0
      BY <1>1, <2>3 DEF IInv, ValueConserved
    <3>2. Supply \in Nat
      BY InputAssumption, U64Assumption DEF U64
    <3>3. mint'.supply + rate * book'.sent = Supply + rate * book'.received
      BY <1>1, <1>7, <2>1, <2>3, <3>1, <3>2
    <3> QED
      BY <1>1, <1>5, <2>3, <3>1, <3>3 DEF ValueConserved
  <2> QED
    BY <1>5, <2>2, <2>3
<1> QED
  BY <1>2, <1>4, <1>8, <1>9 DEF IInv

-----------------------------------------------------------------------------
(* The theorems.                                                           *)

LEMMA InitInv == Init => IInv
<1> SUFFICES ASSUME Init PROVE IInv
  OBVIOUS
<1>1. TypeOK
  <2>1. mint \in [supply : U64, authority : Authorities \cup {None}, fee : TransferFee]
    BY InputAssumption DEF Init
  <2>2. bal \in [Accounts -> U64]
    <3>1. 0 \in U64
      BY U64Assumption DEF U64
    <3> QED
      BY <3>1, InputAssumption DEF Init, Accounts
  <2>3. book \in Book
    BY DEF Init, Book
  <2>4. outbox \in Seq(OutPacket)
    BY DEF Init
  <2> QED
    BY <2>1, <2>2, <2>3, <2>4 DEF Init, TypeOK
<1>2. EscrowAccounting
  BY DEF Init, EscrowAccounting, Accounts
<1>3. ValueConserved
  BY DEF Init, ValueConserved
<1>4. LimitersOK
  BY DEF Init, LimitersOK
<1> QED
  BY <1>1, <1>2, <1>3, <1>4 DEF IInv

LEMMA NextInv == IInv /\ [Next]_vars => IInv'
<1> SUFFICES ASSUME IInv, [Next]_vars PROVE IInv'
  OBVIOUS
<1>1. CASE UNCHANGED vars
  BY <1>1 DEF vars, IInv, TypeOK, EscrowAccounting, ValueConserved, LimitersOK
<1>c. Composes \subseteq BOOLEAN /\ SDs \subseteq U64
  BY InputAssumption
<1>2. CASE Next
  BY <1>2, <1>c, InitOFTStep, SetOFTConfigStep, SetPauseStep, SetPeerConfigStep, SendStep,
     LzReceiveTypesStep, LzReceiveStep, WithdrawFeeStep, VerifyStep, DonateStep,
     ChangeMintStep, TickStep DEF Next, LocalNext
<1> QED
  BY <1>1, <1>2

\* The inductive invariant holds in every reachable state.
THEOREM SolanaInv == Spec => []IInv
BY InitInv, NextInv, PTL DEF Spec

\* Every u64 of the program stays a u64 and every configured fee a proper
\* fraction, whatever is sent, received, configured or donated.
THEOREM SolanaTypeOK == Spec => []TypeOK
<1>1. IInv => TypeOK
  BY DEF IInv
<1> QED
  BY <1>1, SolanaInv, PTL

\* The escrow holds exactly TVL plus fees (send, lz_receive, withdraw_fee).
THEOREM EscrowHoldsTvlAndFees == Spec => []EscrowAccounting
<1>1. IInv => EscrowAccounting
  BY DEF IInv
<1> QED
  BY <1>1, SolanaInv, PTL

\* What is locked can always be paid out: withdraw_fee never reaches the TVL.
THEOREM EscrowIsSolvent == Spec => []EscrowSolvent
<1>1. IInv => EscrowSolvent
  <2> SUFFICES ASSUME IInv, store # None PROVE bal[Escrow] >= store.tvl_ld
    BY DEF EscrowSolvent
  <2>1. store \in Store /\ book \in Book
    BY DEF IInv, TypeOK
  <2>2. store.tvl_ld \in Nat /\ book.fees \in Int
    BY <2>1, U64Assumption DEF Store, Book, U64
  <2> QED
    BY <2>2 DEF IInv, EscrowAccounting
<1> QED
  BY <1>1, SolanaInv, PTL

\* Locked or burned value is exactly what packets promised less what came back.
THEOREM ValueIsConserved == Spec => []ValueConserved
<1>1. IInv => ValueConserved
  BY DEF IInv
<1> QED
  BY <1>1, SolanaInv, PTL

\* The part of SendIsExact that a step of send owes.
LEMMA SendStepIsExact ==
    ASSUME IInv, NEW user \in Users, NEW eid \in Eids,
           NEW amount_ld \in Amounts, NEW min_amount_ld \in Amounts,
           NEW compose \in BOOLEAN, NEW extra \in ExtraOptions,
           Send(user, eid, amount_ld, min_amount_ld, compose, extra)
    PROVE  LET packet == outbox'[Len(outbox')]
           IN  /\ bal[user] - bal'[user]
                    = packet.amount_sd * store.ld2sd_rate
                      + (book'.fees - book.fees) + (book'.withheld - book.withheld)
               /\ bal[user] # bal'[user] => packet.amount_sd > 0
               /\ \A other \in Users \ {user} : bal'[other] = bal[other]
<1> DEFINE peer == peers[eid]
           amt == compute_fee_and_adjust_amount(amount_ld, store, mint.fee, peer.fee_bps)
           sd == ld2sd(store.ld2sd_rate, amt.received)
           enforced == get_enforced_options(peer, compose)
           packet == [dst_eid |-> eid, receiver |-> peer.peer_address, amount_sd |-> sd,
                      compose |-> compose, options |-> combine_options(enforced, extra)]
<1>1. /\ store \in Store
      /\ amt.sent \in U64 /\ amt.received \in U64
      /\ sd \in Nat /\ store.ld2sd_rate * sd = amt.received
      /\ amt.sent > 0 => amt.received > 0
  BY SendFacts
<1>2. /\ bal'[user] = bal[user] - amt.sent
      /\ \A a \in Users \ {user} : bal'[a] = bal[a]
      /\ book' \in Book
      /\ amt.sent = amt.received + (book'.fees - book.fees)
                                 + (book'.withheld - book.withheld)
  BY SendLedger
<1>3. outbox' = Append(outbox, packet)
  BY DEF Send
<1>4. packet.amount_sd = sd
  OBVIOUS
<1> HIDE DEF amt, sd, packet
<1>5. outbox' \in Seq(OutPacket) /\ outbox \in Seq(OutPacket)
  BY SendPacketFacts DEF IInv, TypeOK
<1>6. outbox'[Len(outbox')] = packet
  BY <1>3, <1>5
<1>7. /\ store.ld2sd_rate \in Nat /\ amt.sent \in Nat /\ amt.received \in Nat
      /\ book \in Book
  BY <1>1, U64Assumption DEF Store, U64, IInv, TypeOK
<1>8. bal[user] \in Nat
  BY U64Assumption DEF IInv, TypeOK, Accounts, U64
<1>9. /\ book.fees \in Int /\ book'.fees \in Int
      /\ book.withheld \in Nat /\ book'.withheld \in Nat
  BY <1>2, <1>7 DEF Book
<1>10. sd * store.ld2sd_rate = amt.received
  BY <1>1, <1>7
<1>11. bal[user] - bal'[user] = amt.sent
  BY <1>2, <1>7, <1>8
<1>12. bal[user] # bal'[user] => sd > 0
  <2> SUFFICES ASSUME bal[user] # bal'[user], sd = 0 PROVE FALSE
    BY <1>1
  <2>1. amt.received = 0
    BY <1>7, <1>10
  <2> QED
    BY <1>1, <1>2, <1>7, <1>8, <2>1
<1> QED
  BY <1>2, <1>4, <1>6, <1>7, <1>9, <1>10, <1>11, <1>12

\* Every send debits exactly what it promises, its fee and what is withheld,
\* and never debits for an empty promise (send, compute_fee_and_adjust_amount).
THEOREM SendsAreExact == Spec => SendIsExact
<1> DEFINE packet == outbox'[Len(outbox')]
           Exact == \E user \in Users :
                      /\ bal[user] - bal'[user]
                           = packet.amount_sd * store.ld2sd_rate
                             + (book'.fees - book.fees) + (book'.withheld - book.withheld)
                      /\ bal[user] # bal'[user] => packet.amount_sd > 0
                      /\ \A other \in Users \ {user} : bal'[other] = bal[other]
<1>1. IInv /\ [Next]_vars => [outbox' # outbox => Exact]_vars
  <2> SUFFICES ASSUME IInv, Next, outbox' # outbox PROVE Exact
    OBVIOUS
  <2>c. Composes \subseteq BOOLEAN
    BY InputAssumption
  <2>1. PICK user \in Users, eid \in Eids, amount_ld \in Amounts, min_amount_ld \in Amounts,
             compose \in Composes, extra \in ExtraOptions :
             Send(user, eid, amount_ld, min_amount_ld, compose, extra)
    BY DEF Next, LocalNext, InitOFT, SetOFTConfig, SetPause, SetPeerConfig, Configured, LzReceiveTypes,
           LzReceive, WithdrawFee, Verify, Donate, ChangeMint, Tick
  <2> QED
    BY <2>1, <2>c, SendStepIsExact
<1>2. Spec => [][outbox' # outbox => Exact]_vars
  <2> HIDE DEF Exact
  <2> QED
    BY <1>1, SolanaInv, PTL DEF Spec
<1> QED
  BY <1>2 DEF SendIsExact

-----------------------------------------------------------------------------
(* Options.                                                                *)

\* Combining keeps every option that is enforced.
LEMMA CombineKeepsEnforced ==
    ASSUME NEW enforced \in Options, NEW extra \in Options
    PROVE  enforced.opts \subseteq combine_options(enforced, extra).opts
BY DEF combine_options, NoOptions, Options

\* Whatever options a caller passes, and however often they were changed before,
\* a packet carries those its peer enforces when it is sent (combine_options).
THEOREM EnforcedOptionsAreCarried == Spec => EnforcedOptionsCarried
<1> DEFINE packet == outbox'[Len(outbox')]
           peer == peers[packet.dst_eid]
           Carried == IF packet.compose
                      THEN peer.send_and_call.opts \subseteq packet.options.opts
                      ELSE peer.send.opts \subseteq packet.options.opts
<1>1. IInv /\ [Next]_vars => [outbox' # outbox => Carried]_vars
  <2> SUFFICES ASSUME IInv, Next, outbox' # outbox PROVE Carried
    OBVIOUS
  <2>1. PICK user \in Users, eid \in Eids, amount_ld \in Amounts, min_amount_ld \in Amounts,
             compose \in Composes, extra \in ExtraOptions :
             Send(user, eid, amount_ld, min_amount_ld, compose, extra)
    BY DEF Next, LocalNext, InitOFT, SetOFTConfig, SetPause, SetPeerConfig, Configured,
           LzReceiveTypes, LzReceive, WithdrawFee, Verify, Donate, ChangeMint, Tick
  <2>2. compose \in BOOLEAN
    BY InputAssumption
  <2> DEFINE enforced == get_enforced_options(peers[eid], compose)
             options == combine_options(enforced, extra)
             amt == compute_fee_and_adjust_amount(amount_ld, store, mint.fee,
                                                  peers[eid].fee_bps)
             sent == [dst_eid |-> eid, receiver |-> peers[eid].peer_address,
                      amount_sd |-> ld2sd(store.ld2sd_rate, amt.received),
                      compose |-> compose, options |-> options]
  <2>3. outbox' = Append(outbox, sent) /\ peers[eid] # None
    BY <2>1 DEF Send
  <2>4. sent.dst_eid = eid /\ sent.compose = compose /\ sent.options = options
    OBVIOUS
  <2> HIDE DEF sent
  <2>5. outbox \in Seq(OutPacket) /\ outbox' \in Seq(OutPacket)
    BY <2>1, <2>2, SendPacketFacts DEF IInv, TypeOK
  <2>6. packet = sent
    BY <2>3, <2>5
  <2>7. PeerOK(peers[eid], now)
    BY <2>3, PeerIsOK
  <2>8. extra \in Options /\ enforced \in Options
    BY <2>2, <2>7, InputAssumption DEF get_enforced_options, PeerOK, Peer
  <2>9. enforced.opts \subseteq options.opts
    BY <2>8, CombineKeepsEnforced
  <2> HIDE DEF options, packet
  <2> QED
    BY <2>2, <2>4, <2>6, <2>9 DEF get_enforced_options
<1>2. Spec => [][outbox' # outbox => Carried]_vars
  <2> HIDE DEF Carried
  <2> QED
    BY <1>1, SolanaInv, PTL DEF Spec
<1> QED
  BY <1>2 DEF EnforcedOptionsCarried

-----------------------------------------------------------------------------
(* Rate limits.                                                            *)

\* The eager bucket of an optional limiter at time t.
EagerBucket(l, t) ==
    IF l = None THEN None
    ELSE [capacity |-> l.capacity, level |-> Level(l, t), rate |-> l.refill_per_second]

ConfiguredBucket(b, capacity, rate) ==
    LET b0 == IF b = None THEN [capacity |-> 0, level |-> 0, rate |-> 0] ELSE b
        b1 == IF capacity = None THEN b0
              ELSE [b0 EXCEPT !.capacity = capacity, !.level = capacity]
    IN  IF rate = None THEN b1 ELSE [b1 EXCEPT !.rate = rate]

\* The steps of TokenBucket, from b to c.
Levelled(b, c, level) == c = IF b = None THEN None ELSE [b EXCEPT !.level = level]

Taken(b, c, a) == (b # None => b.level >= a) /\ Levelled(b, c, b.level - a)

Given(b, c, a) == Levelled(b, c, MinOf(b.capacity, b.level + a))

Ticked(b, c) == Levelled(b, c, MinOf(b.capacity, b.level + b.rate))

Reconfigured(b, c) ==
    \/ c = None
    \/ \E capacity, rate \in Limits \cup {None} : c = ConfiguredBucket(b, capacity, rate)

LEMMA BucketIsSome ==
    ASSUME NEW l, NEW t \in Nat, LimiterOK(l, t)
    PROVE  /\ l # None
           /\ Level(l, t) \in 0..l.capacity /\ l.capacity \in Nat
           /\ EagerBucket(l, t) = [capacity |-> l.capacity, level |-> Level(l, t),
                                   rate |-> l.refill_per_second]
           /\ EagerBucket(l, t) # None
<1>1. l # None /\ l \in Limiter /\ 0 \in U64 /\ l.last_refill_time <= t
  BY NoneStoreAssumption, U64Assumption DEF LimiterOK, U64
<1>2. Level(l, t) \in 0..l.capacity
  BY <1>1, RefillLevel
<1>3. l.capacity \in U64 /\ l.refill_per_second \in U64 /\ l.capacity \in Nat
  BY <1>1, U64Assumption DEF Limiter, U64
<1>4. Level(l, t) \in Nat
  BY <1>2, <1>3
<1>5. EagerBucket(l, t) = [capacity |-> l.capacity, level |-> Level(l, t),
                           rate |-> l.refill_per_second]
  BY <1>1 DEF EagerBucket
<1> QED
  BY <1>1, <1>2, <1>3, <1>4, <1>5, NoneStoreAssumption

LEMMA ConsumedBucket ==
    ASSUME NEW l, NEW t \in Nat, LimitOK(l, t), NEW amount \in U64,
           limit_allows(l, amount, t)
    PROVE  Taken(EagerBucket(l, t), EagerBucket(consumed(l, amount, t), t), amount)
<1>1. CASE l = None
  BY <1>1 DEF consumed, EagerBucket, Taken, Levelled
<1>2. CASE l # None
  <2> DEFINE c == try_consume(l, amount, t)
             b == EagerBucket(l, t)
  <2>1. LimiterOK(l, t) /\ can_consume(l, amount, t) /\ consumed(l, amount, t) = c
    BY <1>2 DEF LimitOK, limit_allows, consumed
  <2>2. /\ LimiterOK(c, t) /\ c.capacity = l.capacity
        /\ c.refill_per_second = l.refill_per_second
        /\ amount <= Level(l, t) /\ Level(c, t) = Level(l, t) - amount
    BY <2>1, ConsumeFacts
  <2> HIDE DEF c
  <2>3. /\ b = [capacity |-> l.capacity, level |-> Level(l, t),
                rate |-> l.refill_per_second]
        /\ b # None
    BY <2>1, BucketIsSome
  <2>4. EagerBucket(c, t) = [capacity |-> l.capacity, level |-> Level(l, t) - amount,
                             rate |-> l.refill_per_second]
    BY <2>2, BucketIsSome
  <2>5. b.level >= amount
    BY <2>1, <2>2, <2>3, BucketIsSome, U64Assumption DEF U64
  <2> HIDE DEF b
  <2>6. EagerBucket(c, t) = [b EXCEPT !.level = b.level - amount]
    BY <2>3, <2>4
  <2> QED
    BY <2>1, <2>3, <2>5, <2>6 DEF Taken, Levelled, b
<1> QED
  BY <1>1, <1>2

LEMMA RefilledBucket ==
    ASSUME NEW l, NEW t \in Nat, LimitOK(l, t), NEW amount \in U64
    PROVE  Given(EagerBucket(l, t), EagerBucket(refilled(l, amount, t), t), amount)
<1>1. CASE l = None
  BY <1>1 DEF refilled, EagerBucket, Given, Levelled
<1>2. CASE l # None
  <2> DEFINE r == refill(l, amount, t)
             b == EagerBucket(l, t)
  <2>1. /\ LimiterOK(l, t) /\ l \in Limiter /\ l.last_refill_time <= t
        /\ refilled(l, amount, t) = r
    BY <1>2 DEF LimitOK, LimiterOK, refilled
  <2>2. r \in Limiter /\ r.capacity = l.capacity /\ r.refill_per_second = l.refill_per_second
    BY <2>1, RefillFacts
  <2>3. Level(r, t) = MinOf(l.capacity, Level(l, t) + amount)
    BY <2>1, RefillLevel
  <2> HIDE DEF r
  <2>4. /\ b = [capacity |-> l.capacity, level |-> Level(l, t),
                rate |-> l.refill_per_second]
        /\ b # None
    BY <2>1, BucketIsSome
  <2>5. EagerBucket(r, t) = [capacity |-> l.capacity,
                             level |-> MinOf(l.capacity, Level(l, t) + amount),
                             rate |-> l.refill_per_second]
    BY <2>2, <2>3, NoneStoreAssumption DEF EagerBucket
  <2> HIDE DEF b
  <2>6. EagerBucket(r, t) = [b EXCEPT !.level = MinOf(b.capacity, b.level + amount)]
    BY <2>4, <2>5
  <2> QED
    BY <2>1, <2>4, <2>6 DEF Given, Levelled, b
<1> QED
  BY <1>1, <1>2

LEMMA TickedBucket ==
    ASSUME NEW l, NEW t \in Nat, LimitOK(l, t)
    PROVE  Ticked(EagerBucket(l, t), EagerBucket(l, t + 1))
<1>1. CASE l = None
  BY <1>1 DEF EagerBucket, Ticked, Levelled
<1>2. CASE l # None
  <2> DEFINE b == EagerBucket(l, t)
  <2>1. LimiterOK(l, t) /\ l \in Limiter /\ l.last_refill_time <= t
    BY <1>2 DEF LimitOK, LimiterOK
  <2>2. Level(l, t + 1) = MinOf(l.capacity, Level(l, t) + l.refill_per_second)
    BY <2>1, TickLevel
  <2>3. /\ b = [capacity |-> l.capacity, level |-> Level(l, t),
                rate |-> l.refill_per_second]
        /\ b # None
    BY <2>1, BucketIsSome
  <2>4. EagerBucket(l, t + 1) = [capacity |-> l.capacity,
                                 level |-> MinOf(l.capacity, Level(l, t) + l.refill_per_second),
                                 rate |-> l.refill_per_second]
    BY <1>2, <2>2 DEF EagerBucket
  <2> HIDE DEF b
  <2>5. EagerBucket(l, t + 1) = [b EXCEPT !.level = MinOf(b.capacity, b.level + b.rate)]
    BY <2>3, <2>4
  <2> QED
    BY <2>3, <2>5 DEF Ticked, Levelled, b
<1> QED
  BY <1>1, <1>2

LEMMA UpdatedBucket ==
    ASSUME NEW l, NEW t \in Nat, LimitOK(l, t), NEW params \in RateParams
    PROVE  Reconfigured(EagerBucket(l, t), EagerBucket(update_rate_limiter(l, params, t), t))
<1>1. CASE params = None
  BY <1>1 DEF update_rate_limiter, EagerBucket, Reconfigured
<1>2. CASE params # None
  <2> DEFINE u == update_rate_limiter(l, params, t)
             l0 == IF l = None THEN DefaultLimiter ELSE l
             b == EagerBucket(l, t)
             b0 == IF b = None THEN [capacity |-> 0, level |-> 0, rate |-> 0] ELSE b
             b1 == IF params.capacity = None THEN b0
                   ELSE [b0 EXCEPT !.capacity = params.capacity, !.level = params.capacity]
  <2>1. /\ params.capacity \in Limits \cup {None}
        /\ params.refill_per_second \in Limits \cup {None}
    BY <1>2 DEF RateParams
  <2>2. /\ params.capacity \in U64 \cup {None}
        /\ params.refill_per_second \in U64 \cup {None}
    BY <2>1, InputAssumption
  <2>3. /\ LimiterOK(u, t)
        /\ u.capacity = IF params.capacity = None THEN l0.capacity ELSE params.capacity
        /\ u.refill_per_second = IF params.refill_per_second = None
                                 THEN l0.refill_per_second ELSE params.refill_per_second
        /\ Level(u, t) = IF params.capacity = None THEN Level(l0, t) ELSE params.capacity
    BY <1>2, <2>2, UpdateFacts DEF LimitOK
  <2> HIDE DEF u
  <2>4. EagerBucket(u, t) = [capacity |-> u.capacity, level |-> Level(u, t),
                             rate |-> u.refill_per_second]
    BY <2>3, BucketIsSome
  <2>5. b0 = [capacity |-> l0.capacity, level |-> Level(l0, t), rate |-> l0.refill_per_second]
    <3>1. CASE l = None
      BY <3>1, DefaultLevel DEF EagerBucket, DefaultLimiter
    <3>2. CASE l # None
      <4>1. LimiterOK(l, t)
        BY <3>2 DEF LimitOK
      <4> QED
        BY <3>2, <4>1, BucketIsSome
    <3> QED
      BY <3>1, <3>2
  <2> HIDE DEF l0, b0
  <2>6. b1 = [capacity |-> u.capacity, level |-> Level(u, t), rate |-> l0.refill_per_second]
    BY <2>3, <2>5
  <2> HIDE DEF b1
  <2>7. EagerBucket(u, t) = IF params.refill_per_second = None THEN b1
                            ELSE [b1 EXCEPT !.rate = params.refill_per_second]
    BY <2>3, <2>4, <2>6
  <2>8. EagerBucket(u, t) = ConfiguredBucket(b, params.capacity, params.refill_per_second)
    BY <2>7 DEF ConfiguredBucket, b0, b1
  <2> HIDE DEF b
  <2>9. Reconfigured(b, EagerBucket(u, t))
    BY <2>1, <2>8 DEF Reconfigured
  <2> QED
    BY <2>9 DEF b, u
<1> QED
  BY <1>1, <1>2

\* The two limiters a peer has, None while there is no peer.
OutLimit(eid) == IF peers[eid] = None THEN None ELSE peers[eid].outbound

InLimit(eid) == IF peers[eid] = None THEN None ELSE peers[eid].inbound

LEMMA BucketsOfLimits ==
    ASSUME NEW eid \in Eids
    PROVE  /\ outbound(eid) = EagerBucket(OutLimit(eid), now)
           /\ inbound(eid) = EagerBucket(InLimit(eid), now)
           /\ outbound(eid)' = EagerBucket(OutLimit(eid)', now')
           /\ inbound(eid)' = EagerBucket(InLimit(eid)', now')
BY DEF outbound, inbound, BucketOf, EagerBucket, OutLimit, InLimit

\* The relations are the actions of TokenBucket, in each direction.
LEMMA OutboundSteps ==
    ASSUME NEW eid \in Eids, NEW a
    PROVE  /\ Taken(outbound(eid), outbound(eid)', a) => Outbound(eid)!Consume(a)
           /\ Given(outbound(eid), outbound(eid)', a) => Outbound(eid)!GiveBack(a)
           /\ Ticked(outbound(eid), outbound(eid)') => Outbound(eid)!Tick
           /\ Reconfigured(outbound(eid), outbound(eid)') => Outbound(eid)!Reconfigure
<1>1. Taken(outbound(eid), outbound(eid)', a) => Outbound(eid)!Consume(a)
  BY DEF Taken, Levelled, Outbound!Consume, Outbound!SetLevel
<1>2. Given(outbound(eid), outbound(eid)', a) => Outbound(eid)!GiveBack(a)
  BY DEF Given, Levelled, MinOf, Outbound!GiveBack, Outbound!SetLevel, Outbound!MinLevel
<1>3. Ticked(outbound(eid), outbound(eid)') => Outbound(eid)!Tick
  BY DEF Ticked, Levelled, MinOf, Outbound!Tick, Outbound!SetLevel, Outbound!MinLevel
<1>4. ASSUME NEW capacity, NEW rate,
             outbound(eid)' = ConfiguredBucket(outbound(eid), capacity, rate)
      PROVE  Outbound(eid)!Configure(capacity, rate)
  BY <1>4 DEF Outbound!Configure, Outbound!Empty, ConfiguredBucket
<1>5. Reconfigured(outbound(eid), outbound(eid)') => Outbound(eid)!Reconfigure
  BY <1>4 DEF Reconfigured, Outbound!Reconfigure, Outbound!Remove
<1> QED
  BY <1>1, <1>2, <1>3, <1>5

LEMMA InboundSteps ==
    ASSUME NEW eid \in Eids, NEW a
    PROVE  /\ Taken(inbound(eid), inbound(eid)', a) => Inbound(eid)!Consume(a)
           /\ Given(inbound(eid), inbound(eid)', a) => Inbound(eid)!GiveBack(a)
           /\ Ticked(inbound(eid), inbound(eid)') => Inbound(eid)!Tick
           /\ Reconfigured(inbound(eid), inbound(eid)') => Inbound(eid)!Reconfigure
<1>1. Taken(inbound(eid), inbound(eid)', a) => Inbound(eid)!Consume(a)
  BY DEF Taken, Levelled, Inbound!Consume, Inbound!SetLevel
<1>2. Given(inbound(eid), inbound(eid)', a) => Inbound(eid)!GiveBack(a)
  BY DEF Given, Levelled, MinOf, Inbound!GiveBack, Inbound!SetLevel, Inbound!MinLevel
<1>3. Ticked(inbound(eid), inbound(eid)') => Inbound(eid)!Tick
  BY DEF Ticked, Levelled, MinOf, Inbound!Tick, Inbound!SetLevel, Inbound!MinLevel
<1>4. ASSUME NEW capacity, NEW rate,
             inbound(eid)' = ConfiguredBucket(inbound(eid), capacity, rate)
      PROVE  Inbound(eid)!Configure(capacity, rate)
  BY <1>4 DEF Inbound!Configure, Inbound!Empty, ConfiguredBucket
<1>5. Reconfigured(inbound(eid), inbound(eid)') => Inbound(eid)!Reconfigure
  BY <1>4 DEF Reconfigured, Inbound!Reconfigure, Inbound!Remove
<1> QED
  BY <1>1, <1>2, <1>3, <1>5

LEMMA LimitsAreOK ==
    ASSUME IInv, NEW eid \in Eids
    PROVE  LimitOK(OutLimit(eid), now) /\ LimitOK(InLimit(eid), now)
<1>1. CASE peers[eid] = None
  BY <1>1 DEF LimitOK, OutLimit, InLimit
<1>2. CASE peers[eid] # None
  BY <1>2, PeerIsOK DEF PeerOK, OutLimit, InLimit
<1> QED
  BY <1>1, <1>2

\* A peer that is not written keeps its buckets, and that is enough for it
\* unless a packet of its own or the clock moved.
LEMMA BucketsKept ==
    ASSUME NEW eid \in Eids, peers'[eid] = peers[eid], now' = now
    PROVE  /\ outbound(eid)' = outbound(eid) /\ inbound(eid)' = inbound(eid)
           /\ ~SendsTo(eid) /\ ~ReceivesFrom(eid) => BucketsFollow(eid)
<1>1. outbound(eid)' = outbound(eid) /\ inbound(eid)' = inbound(eid)
  BY DEF outbound, inbound, BucketOf
<1>2. ASSUME ~SendsTo(eid), ~ReceivesFrom(eid)
      PROVE  BucketsFollow(eid)
  BY <1>1, <1>2 DEF BucketsFollow
<1> QED
  BY <1>1, <1>2

\* A peer is written: its buckets are those of its new limiters.
LEMMA BucketsWritten ==
    ASSUME IInv, NEW eid \in Eids, NEW p, p # None, now' = now,
           peers' = [peers EXCEPT ![eid] = p]
    PROVE  /\ outbound(eid)' = EagerBucket(p.outbound, now)
           /\ inbound(eid)' = EagerBucket(p.inbound, now)
           /\ \A e \in Eids \ {eid} : peers'[e] = peers[e]
<1>1. peers'[eid] = p /\ \A e \in Eids \ {eid} : peers'[e] = peers[e]
  BY DEF IInv, TypeOK
<1>2. OutLimit(eid)' = p.outbound /\ InLimit(eid)' = p.inbound
  BY <1>1 DEF OutLimit, InLimit
<1> QED
  BY <1>1, <1>2, BucketsOfLimits

LEMMA SendBuckets ==
    ASSUME IInv, NEW user \in Users, NEW eid \in Eids,
           NEW amount_ld \in Amounts, NEW min_amount_ld \in Amounts,
           NEW compose \in BOOLEAN, NEW extra \in ExtraOptions,
           Send(user, eid, amount_ld, min_amount_ld, compose, extra),
           NEW e \in Eids
    PROVE  BucketsFollow(e)
<1> DEFINE peer == peers[eid]
           amt == compute_fee_and_adjust_amount(amount_ld, store, mint.fee, peer.fee_bps)
           sd == ld2sd(store.ld2sd_rate, amt.received)
           enforced == get_enforced_options(peer, compose)
           packet == [dst_eid |-> eid, receiver |-> peer.peer_address, amount_sd |-> sd,
                      compose |-> compose, options |-> combine_options(enforced, extra)]
           out == consumed(peer.outbound, amt.received, now)
           in == refilled(peer.inbound, amt.received, now)
           new == [peer EXCEPT !.outbound = out, !.inbound = in]
           last == outbox'[Len(outbox')]
<1>1. /\ peer # None
      /\ limit_allows(peer.outbound, amt.received, now)
      /\ peers' = [peers EXCEPT ![eid] = new]
      /\ now' = now /\ inbox' = inbox
      /\ outbox' = Append(outbox, packet)
  BY DEF Send
<1>2. /\ store \in Store /\ amt.received \in U64
      /\ sd \in Nat /\ store.ld2sd_rate * sd = amt.received
  BY SendFacts
<1>3. packet.amount_sd = sd /\ packet.dst_eid = eid
  OBVIOUS
<1> HIDE DEF amt, sd, packet
<1>4. PeerOK(peer, now) /\ now \in Nat
  BY <1>1, PeerIsOK DEF IInv, TypeOK
<1>5. outbound(eid) = EagerBucket(peer.outbound, now)
      /\ inbound(eid) = EagerBucket(peer.inbound, now)
  BY <1>1, BucketsOfLimits DEF OutLimit, InLimit
<1> HIDE DEF peer
<1>6. Taken(EagerBucket(peer.outbound, now), EagerBucket(out, now), amt.received)
  BY <1>1, <1>2, <1>4, ConsumedBucket DEF PeerOK
<1>7. Given(EagerBucket(peer.inbound, now), EagerBucket(in, now), amt.received)
  BY <1>2, <1>4, RefilledBucket DEF PeerOK
<1> HIDE DEF out, in
<1>l. LimitOK(out, now) /\ LimitOK(in, now)
  BY <1>1, <1>2, <1>4, LimitStep DEF PeerOK, out, in
<1>8. new.outbound = out /\ new.inbound = in /\ new \in Peer
  BY <1>4, <1>l DEF PeerOK, Peer, LimitOK, LimiterOK
<1>9. new # None
  BY <1>8, NoneStoreAssumption
<1> HIDE DEF new
<1>10. /\ outbound(eid)' = EagerBucket(out, now) /\ inbound(eid)' = EagerBucket(in, now)
       /\ \A x \in Eids \ {eid} : peers'[x] = peers[x]
  BY <1>1, <1>8, <1>9, BucketsWritten
<1>11. outbox \in Seq(OutPacket) /\ outbox' \in Seq(OutPacket)
  BY SendPacketFacts DEF IInv, TypeOK
<1>12. last = packet /\ outbox' # outbox
  BY <1>1, <1>11
<1>13. Value(last) = amt.received
  BY <1>2, <1>3, <1>12 DEF Value, Store
<1> HIDE DEF last
<1>14. CASE e = eid
  <2>1. SendsTo(e)
    BY <1>3, <1>12, <1>14 DEF SendsTo, last
  <2>2. Outbound(e)!Consume(Value(last))
    BY <1>5, <1>6, <1>10, <1>13, <1>14, OutboundSteps
  <2>3. Inbound(e)!GiveBack(Value(last))
    BY <1>5, <1>7, <1>10, <1>13, <1>14, InboundSteps
  <2>4. ~ReceivesFrom(e)
    BY <1>1 DEF ReceivesFrom
  <2>5. configs' = configs
    BY DEF Send
  <2> QED
    BY <1>1, <2>1, <2>2, <2>3, <2>4, <2>5 DEF BucketsFollow, last
<1>15. CASE e # eid
  <2>1. ~SendsTo(e) /\ ~ReceivesFrom(e)
    BY <1>1, <1>3, <1>12, <1>15 DEF SendsTo, ReceivesFrom, last
  <2> QED
    BY <1>1, <1>10, <1>15, <2>1, BucketsKept
<1> QED
  BY <1>14, <1>15

LEMMA ReceiveBuckets ==
    ASSUME IInv, NEW packet \in inbox, LzReceive(packet), NEW e \in Eids
    PROVE  BucketsFollow(e)
<1> DEFINE eid == packet.src_eid
           peer == peers[eid]
           amount_ld == sd2ld(store.ld2sd_rate, packet.amount_sd)
           in == consumed(peer.inbound, amount_ld, now)
           out == refilled(peer.outbound, amount_ld, now)
           new == [peer EXCEPT !.inbound = in, !.outbound = out]
<1>1. /\ peer # None
      /\ limit_allows(peer.inbound, amount_ld, now)
      /\ peers' = [peers EXCEPT ![eid] = new]
      /\ now' = now /\ configs' = configs /\ outbox' = outbox
      /\ inbox' = inbox \ {packet}
  BY DEF LzReceive, cleared
<1>2. packet \in InPacket /\ eid \in Eids /\ amount_ld \in U64
  <2>1. packet \in InPacket /\ amount_ld \in U64
    BY ReceiveLedger
  <2> QED
    BY <2>1 DEF InPacket
<1>3. Value(packet) = amount_ld
  BY DEF Value, sd2ld
<1>4. inbox \ inbox' = {packet}
  BY <1>1
<1> HIDE DEF amount_ld
<1>5. PeerOK(peer, now) /\ now \in Nat
  BY <1>1, <1>2, PeerIsOK DEF IInv, TypeOK
<1>6. outbound(eid) = EagerBucket(peer.outbound, now)
      /\ inbound(eid) = EagerBucket(peer.inbound, now)
  BY <1>1, <1>2, BucketsOfLimits DEF OutLimit, InLimit
<1> HIDE DEF peer
<1>7. Taken(EagerBucket(peer.inbound, now), EagerBucket(in, now), amount_ld)
  BY <1>1, <1>2, <1>5, ConsumedBucket DEF PeerOK
<1>8. Given(EagerBucket(peer.outbound, now), EagerBucket(out, now), amount_ld)
  BY <1>2, <1>5, RefilledBucket DEF PeerOK
<1> HIDE DEF out, in
<1>l. LimitOK(out, now) /\ LimitOK(in, now)
  BY <1>1, <1>2, <1>5, LimitStep DEF PeerOK, out, in
<1>9. new.outbound = out /\ new.inbound = in /\ new # None
  <2>1. new.outbound = out /\ new.inbound = in /\ new \in Peer
    BY <1>5, <1>l DEF PeerOK, Peer, LimitOK, LimiterOK
  <2> QED
    BY <2>1, NoneStoreAssumption
<1> HIDE DEF new
<1>10. /\ outbound(eid)' = EagerBucket(out, now) /\ inbound(eid)' = EagerBucket(in, now)
       /\ \A x \in Eids \ {eid} : peers'[x] = peers[x]
  BY <1>1, <1>2, <1>9, BucketsWritten
<1>11. ~SendsTo(e)
  BY <1>1 DEF SendsTo
<1>12. CASE e = eid
  <2>1. ReceivesFrom(e)
    BY <1>4, <1>12 DEF ReceivesFrom
  <2>2. Inbound(e)!Consume(Value(packet))
    BY <1>2, <1>3, <1>6, <1>7, <1>10, <1>12, InboundSteps
  <2>3. Outbound(e)!GiveBack(Value(packet))
    BY <1>2, <1>3, <1>6, <1>8, <1>10, <1>12, OutboundSteps
  <2> QED
    BY <1>1, <1>4, <1>11, <2>1, <2>2, <2>3 DEF BucketsFollow
<1>13. CASE e # eid
  <2>1. ~ReceivesFrom(e)
    BY <1>4, <1>13 DEF ReceivesFrom
  <2> QED
    BY <1>1, <1>10, <1>11, <1>13, <2>1, BucketsKept
<1> QED
  BY <1>12, <1>13

LEMMA ConfigBuckets ==
    ASSUME IInv, NEW signer \in Keys, NEW eid \in Eids, SetPeerConfig(signer, eid),
           NEW e \in Eids
    PROVE  BucketsFollow(e)
<1> DEFINE peer == IF peers[eid] = None THEN DefaultPeer ELSE peers[eid]
           out == peer.outbound
           in == peer.inbound
<1>1. now \in Nat /\ now' = now
  BY DEF IInv, TypeOK, SetPeerConfig, Configured
<1>2. PeerOK(peer, now)
  BY <1>1, PeerIsOK, DefaultPeerIsOK
<1>3. OutLimit(eid) = out /\ InLimit(eid) = in
  BY DEF OutLimit, InLimit, DefaultPeer
<1>4. PICK p : /\ peers' = [peers EXCEPT ![eid] = p]
               /\ \/ \E addr \in Addrs : p = [peer EXCEPT !.peer_address = addr]
                  \/ \E fee_bps \in FeeBps \cup {None} : p = [peer EXCEPT !.fee_bps = fee_bps]
                  \/ \E send, send_and_call \in ExtraOptions :
                       p = [peer EXCEPT !.send = send, !.send_and_call = send_and_call]
                  \/ \E params \in RateParams :
                       p = [peer EXCEPT !.outbound = update_rate_limiter(out, params, now)]
                  \/ \E params \in RateParams :
                       p = [peer EXCEPT !.inbound = update_rate_limiter(in, params, now)]
  BY DEF SetPeerConfig
<1> HIDE DEF peer
<1>5. \/ p.outbound = out /\ p.inbound = in
      \/ \E params \in RateParams :
           p.outbound = update_rate_limiter(out, params, now) /\ p.inbound = in
      \/ \E params \in RateParams :
           p.outbound = out /\ p.inbound = update_rate_limiter(in, params, now)
  <2>1. peer \in Peer
    BY <1>2 DEF PeerOK
  <2>2. ASSUME NEW params \in RateParams,
               p = [peer EXCEPT !.outbound = update_rate_limiter(out, params, now)]
        PROVE  p.outbound = update_rate_limiter(out, params, now) /\ p.inbound = in
    <3> DEFINE l == update_rate_limiter(out, params, now)
    <3> HIDE DEF l
    <3>1. p = [peer EXCEPT !.outbound = l]
      BY <2>2 DEF l
    <3>2. p.outbound = l /\ p.inbound = in
      BY <2>1, <3>1 DEF Peer
    <3> QED
      BY <3>2 DEF l
  <2>3. ASSUME NEW params \in RateParams,
               p = [peer EXCEPT !.inbound = update_rate_limiter(in, params, now)]
        PROVE  p.outbound = out /\ p.inbound = update_rate_limiter(in, params, now)
    <3> DEFINE l == update_rate_limiter(in, params, now)
    <3> HIDE DEF l
    <3>1. p = [peer EXCEPT !.inbound = l]
      BY <2>3 DEF l
    <3>2. p.inbound = l /\ p.outbound = out
      BY <2>1, <3>1 DEF Peer
    <3> QED
      BY <3>2 DEF l
  <2>4. ASSUME \/ \E addr \in Addrs : p = [peer EXCEPT !.peer_address = addr]
               \/ \E fee_bps \in FeeBps \cup {None} : p = [peer EXCEPT !.fee_bps = fee_bps]
               \/ \E send, send_and_call \in ExtraOptions :
                    p = [peer EXCEPT !.send = send, !.send_and_call = send_and_call]
        PROVE  p.outbound = out /\ p.inbound = in
    BY <2>1, <2>4 DEF Peer
  <2> QED
    BY <1>4, <2>2, <2>3, <2>4
<1> HIDE DEF out, in
<1>6. LimitOK(out, now) /\ LimitOK(in, now)
  BY <1>2 DEF PeerOK, out, in
<1>p. p # None
  <2>1. PICK q : PeerOK(q, now) /\ peers' = [peers EXCEPT ![eid] = q]
    BY ConfiguredPeer
  <2>2. p \in Peer
    BY <1>4, <2>1 DEF IInv, TypeOK, PeerOK
  <2> QED
    BY <2>2, NoneStoreAssumption
<1>7. \/ /\ EagerBucket(p.outbound, now) = EagerBucket(out, now)
         /\ EagerBucket(p.inbound, now) = EagerBucket(in, now)
      \/ /\ Reconfigured(EagerBucket(out, now), EagerBucket(p.outbound, now))
         /\ EagerBucket(p.inbound, now) = EagerBucket(in, now)
      \/ /\ Reconfigured(EagerBucket(in, now), EagerBucket(p.inbound, now))
         /\ EagerBucket(p.outbound, now) = EagerBucket(out, now)
  <2>1. ASSUME NEW params \in RateParams
        PROVE  /\ Reconfigured(EagerBucket(out, now),
                               EagerBucket(update_rate_limiter(out, params, now), now))
               /\ Reconfigured(EagerBucket(in, now),
                               EagerBucket(update_rate_limiter(in, params, now), now))
    BY <1>1, <1>6, UpdatedBucket
  <2> QED
    BY <1>5, <2>1
<1>8. /\ ~SendsTo(e) /\ ~ReceivesFrom(e) /\ configs' # configs
  <2>1. outbox' = outbox /\ inbox' = inbox /\ configs' = configs + 1 /\ configs \in Nat
    BY DEF SetPeerConfig, Configured, Counted, IInv, TypeOK
  <2> QED
    BY <2>1 DEF SendsTo, ReceivesFrom
<1>9. /\ outbound(eid)' = EagerBucket(p.outbound, now)
      /\ inbound(eid)' = EagerBucket(p.inbound, now)
      /\ \A x \in Eids \ {eid} : peers'[x] = peers[x]
  BY <1>1, <1>4, <1>p, BucketsWritten
<1>10. CASE e = eid
  <2>1. outbound(e) = EagerBucket(out, now) /\ inbound(e) = EagerBucket(in, now)
    BY <1>3, <1>10, BucketsOfLimits
  <2>2. \/ Outbound(e)!Reconfigure /\ UNCHANGED inbound(e)
        \/ Inbound(e)!Reconfigure /\ UNCHANGED outbound(e)
        \/ UNCHANGED <<outbound(e), inbound(e)>>
    BY <1>7, <1>9, <1>10, <2>1, OutboundSteps, InboundSteps
  <2> QED
    BY <1>1, <1>8, <2>2 DEF BucketsFollow
<1>11. CASE e # eid
  BY <1>1, <1>8, <1>9, <1>11, BucketsKept
<1> QED
  BY <1>10, <1>11

LEMMA TickBuckets ==
    ASSUME IInv, Tick, NEW e \in Eids
    PROVE  BucketsFollow(e)
<1>1. /\ now' = now + 1 /\ peers' = peers /\ now \in Nat
      /\ outbox' = outbox /\ inbox' = inbox
  BY DEF Tick, IInv, TypeOK
<1>2. OutLimit(e)' = OutLimit(e) /\ InLimit(e)' = InLimit(e)
  BY <1>1 DEF OutLimit, InLimit
<1>3. LimitOK(OutLimit(e), now) /\ LimitOK(InLimit(e), now)
  BY LimitsAreOK
<1>4. Ticked(outbound(e), outbound(e)') /\ Ticked(inbound(e), inbound(e)')
  BY <1>1, <1>2, <1>3, TickedBucket, BucketsOfLimits
<1>5. ~SendsTo(e) /\ ~ReceivesFrom(e) /\ now' # now /\ configs' = configs
  BY <1>1 DEF SendsTo, ReceivesFrom, Tick
<1>6. Outbound(e)!Tick /\ Inbound(e)!Tick
  BY <1>4, OutboundSteps, InboundSteps
<1> QED
  BY <1>5, <1>6 DEF BucketsFollow

\* Each limiter of each peer, refilled only when it is touched, follows the
\* peer's traffic, the clock and the admin exactly as a bucket that is refilled
\* every second: a send charges its packet's value to the outbound one and gives
\* it back to the inbound one, a receipt does the opposite, and no step touches
\* the limiters of another peer (send, lz_receive, set_peer_config).
THEOREM PeerLimitsAreBuckets == Spec => LimitsAreBuckets
<1> DEFINE Follow == \A eid \in Eids : BucketsFollow(eid)
<1>1. IInv /\ [Next]_vars => [Follow]_vars
  <2> SUFFICES ASSUME IInv, Next, NEW e \in Eids
               PROVE  BucketsFollow(e)
    OBVIOUS
  <2>1. Composes \subseteq BOOLEAN
    BY InputAssumption
  <2>2. ASSUME peers' = peers, now' = now, outbox' = outbox, inbox \subseteq inbox'
        PROVE  BucketsFollow(e)
    <3>1. ~SendsTo(e) /\ ~ReceivesFrom(e)
      BY <2>2 DEF SendsTo, ReceivesFrom
    <3> QED
      BY <2>2, <3>1, BucketsKept
  <2>3. \/ peers' = peers /\ now' = now /\ outbox' = outbox /\ inbox \subseteq inbox'
        \/ \E signer \in Keys, eid \in Eids : SetPeerConfig(signer, eid)
        \/ \E user \in Users, eid \in Eids, amount_ld, min_amount_ld \in Amounts,
              compose \in Composes, extra \in ExtraOptions :
             Send(user, eid, amount_ld, min_amount_ld, compose, extra)
        \/ \E packet \in inbox : LzReceive(packet)
        \/ Tick
    BY DEF Next, LocalNext, InitOFT, SetOFTConfig, SetPause, Configured,
           LzReceiveTypes, WithdrawFee, Verify, Donate, ChangeMint
  <2> QED
    BY <2>1, <2>2, <2>3, ConfigBuckets, SendBuckets, ReceiveBuckets, TickBuckets
<1>2. LimitsAreBuckets <=> [][Follow]_vars
  BY DEF LimitsAreBuckets
<1> HIDE DEF Follow
<1> QED
  BY <1>1, <1>2, SolanaInv, PTL DEF Spec

-----------------------------------------------------------------------------
(* Receipts.                                                               *)

\* lz_receive consumes the packet, and at most adds a message with its nonce.
LEMMA ReceiveClears ==
    ASSUME IInv, NEW packet \in inbox, LzReceive(packet)
    PROVE  LET m == [to |-> packet.to, nonce |-> packet.nonce, src_eid |-> packet.src_eid,
                     amount_ld |-> amount_composed_ld(packet)]
           IN  /\ inbox' = inbox \ {packet} /\ nonce' = nonce
               /\ composed' = IF packet.compose THEN composed \cup {m} ELSE composed
BY DEF LzReceive, cleared

\* Only lz_receive and the endpoint touch the packets that have arrived.
LEMMA ArrivedKept ==
    ASSUME Next
    PROVE  \/ UNCHANGED <<inbox, nonce, composed>>
           \/ \E packet \in inbox : LzReceive(packet)
           \/ \E src_eid \in Eids, sender \in Addrs, to \in Users, amount_sd \in SDs,
                 compose \in Composes : Verify(src_eid, sender, to, amount_sd, compose)
<1>1. ASSUME NEW user, NEW eid, NEW amount_ld, NEW min_amount_ld, NEW compose, NEW extra,
             Send(user, eid, amount_ld, min_amount_ld, compose, extra)
      PROVE  UNCHANGED <<inbox, nonce, composed>>
  BY <1>1 DEF Send
<1>2. ASSUME NEW signer, NEW eid, NEW paused,
             \/ SetOFTConfig(signer)
             \/ SetPause(signer, paused)
             \/ SetPeerConfig(signer, eid)
             \/ ChangeMint
      PROVE  UNCHANGED <<inbox, nonce, composed>>
  BY <1>2 DEF SetOFTConfig, SetPause, SetPeerConfig, ChangeMint, Configured
<1>3. ASSUME NEW x, NEW y, NEW z,
             \/ InitOFT(x, y, z)
             \/ LzReceiveTypes(x)
             \/ WithdrawFee(x, y, z)
             \/ Donate(x, y)
             \/ Tick
      PROVE  UNCHANGED <<inbox, nonce, composed>>
  BY <1>3 DEF InitOFT, LzReceiveTypes, WithdrawFee, Donate, Tick
<1> QED
  BY <1>1, <1>2, <1>3 DEF Next, LocalNext

LEMMA NoncesStep ==
    IInv /\ NoncesOK /\ [Next]_vars => NoncesOK'
<1> SUFFICES ASSUME IInv, NoncesOK, [Next]_vars PROVE NoncesOK'
  OBVIOUS
<1>1. ASSUME UNCHANGED <<inbox, nonce, composed>> PROVE NoncesOK'
  BY <1>1 DEF NoncesOK
<1>2. ASSUME NEW packet \in inbox, LzReceive(packet) PROVE NoncesOK'
  <2> DEFINE m == [to |-> packet.to, nonce |-> packet.nonce, src_eid |-> packet.src_eid,
                   amount_ld |-> amount_composed_ld(packet)]
  <2>1. /\ inbox' = inbox \ {packet} /\ nonce' = nonce
        /\ composed' = IF packet.compose THEN composed \cup {m} ELSE composed
    BY <1>2, ReceiveClears
  <2>2. m.nonce = packet.nonce
    OBVIOUS
  <2> HIDE DEF m
  <2>3. m.nonce <= nonce /\ \A p \in inbox' : p.nonce # m.nonce
    BY <2>1, <2>2 DEF NoncesOK
  <2> QED
    BY <2>1, <2>3 DEF NoncesOK
<1>3. ASSUME NEW src_eid \in Eids, NEW sender \in Addrs, NEW to \in Users,
             NEW amount_sd \in SDs, NEW compose \in Composes,
             Verify(src_eid, sender, to, amount_sd, compose)
      PROVE  NoncesOK'
  <2> DEFINE new == [nonce |-> nonce + 1, src_eid |-> src_eid, sender |-> sender,
                     to |-> to, amount_sd |-> amount_sd, compose |-> compose]
  <2>1. inbox' = inbox \cup {new} /\ nonce' = nonce + 1 /\ composed' = composed
    BY <1>3 DEF Verify
  <2>2. new.nonce = nonce + 1
    OBVIOUS
  <2> HIDE DEF new
  <2>3. /\ nonce \in Nat
        /\ \A p \in inbox : p.nonce \in Nat
        /\ \A m \in composed : m.nonce \in Nat
    BY DEF IInv, TypeOK, InPacket
  <2>4. /\ \A p \in inbox : p.nonce <= nonce + 1 /\ p.nonce # nonce + 1
        /\ \A m \in composed : m.nonce <= nonce + 1 /\ m.nonce # nonce + 1
    BY <2>3 DEF NoncesOK
  <2>5. \A p \in inbox' : p.nonce <= nonce'
    BY <2>1, <2>2, <2>3, <2>4
  <2>6. \A p, q \in inbox' : p.nonce = q.nonce => p = q
    BY <2>1, <2>2, <2>4 DEF NoncesOK
  <2>7. \A m \in composed' : m.nonce <= nonce' /\ \A p \in inbox' : p.nonce # m.nonce
    <3> SUFFICES ASSUME NEW m \in composed
                 PROVE  m.nonce <= nonce + 1 /\ \A p \in inbox' : p.nonce # m.nonce
      BY <2>1
    <3>1. \A p \in inbox : p.nonce # m.nonce
      BY DEF NoncesOK
    <3> QED
      BY <2>1, <2>2, <2>4, <3>1
  <2> QED
    BY <2>5, <2>6, <2>7 DEF NoncesOK
<1>4. CASE UNCHANGED vars
  BY <1>1, <1>4 DEF vars
<1>5. CASE Next
  BY <1>1, <1>2, <1>3, <1>5, ArrivedKept
<1> QED
  BY <1>4, <1>5

\* A nonce names one packet for good: what was composed is never executed again
\* (the clear and send_compose calls of lz_receive).
THEOREM NoncesAreOnce == Spec => []NoncesOK
<1>1. Init => NoncesOK
  BY DEF Init, NoncesOK
<1> QED
  BY <1>1, NoncesStep, SolanaInv, PTL DEF Spec

\* What a receipt pays, and to whom.
LEMMA ReceivePays ==
    ASSUME IInv, NEW packet \in inbox, LzReceive(packet)
    PROVE  /\ bal'[packet.to] - bal[packet.to] = amount_composed_ld(packet)
           /\ bal'[packet.to] - bal[packet.to] + (book'.withheld - book.withheld)
                = packet.amount_sd * store.ld2sd_rate
           /\ \A other \in Users \ {packet.to} : bal'[other] = bal[other]
<1> DEFINE amount_ld == sd2ld(store.ld2sd_rate, packet.amount_sd)
           post == get_post_fee_amount_ld(mint.fee, amount_ld)
<1>1. /\ packet \in InPacket /\ store \in Store /\ amount_ld \in U64
      /\ bal \in [Accounts -> U64] /\ book \in Book /\ TypeOK
  BY ReceiveLedger DEF IInv, TypeOK
<1>2. /\ packet.to \in Accounts /\ Escrow \in Accounts /\ packet.to # Escrow
      /\ Users \subseteq Accounts \ {Escrow}
  BY <1>1, AccountsAssumption DEF InPacket, Accounts
<1>3. amount_ld = packet.amount_sd * store.ld2sd_rate
  <2>1. packet.amount_sd \in Nat /\ store.ld2sd_rate \in Nat
    BY <1>1, U64Assumption DEF InPacket, Store, U64
  <2> QED
    BY <2>1 DEF sd2ld
<1>4. amount_composed_ld(packet) = IF store.oft_type = "Adapter" THEN post ELSE amount_ld
  BY DEF amount_composed_ld
<1> HIDE DEF amount_ld
<1>5. /\ amount_ld \in Nat /\ bal[packet.to] \in Nat /\ bal[Escrow] \in Nat
      /\ book.withheld \in Nat
  BY <1>1, <1>2, U64Assumption DEF U64, Book
<1>a. CASE store.oft_type = "Adapter"
  <2>1. /\ bal[Escrow] >= amount_ld
        /\ bal' = Transferred(bal, Escrow, packet.to, amount_ld)
        /\ book' = [book EXCEPT !.withheld = book.withheld + Withheld(amount_ld),
                                !.received = book.received + packet.amount_sd]
    BY <1>a DEF LzReceive, amount_ld
  <2>2. amount_ld <= bal[Escrow]
    BY <1>5, <2>1
  <2>3. /\ bal'[packet.to] = bal[packet.to] + post
        /\ \A a \in Accounts \ {Escrow, packet.to} : bal'[a] = bal[a]
        /\ post \in 0..amount_ld /\ Withheld(amount_ld) \in Nat
        /\ post + Withheld(amount_ld) = amount_ld
    BY <1>1, <1>2, <1>5, <2>1, <2>2, TransferFacts
  <2>4. book'.withheld = book.withheld + Withheld(amount_ld)
    BY <1>1, <2>1 DEF Book
  <2>5. \A other \in Users \ {packet.to} : bal'[other] = bal[other]
    BY <1>2, <2>3
  <2> HIDE DEF post
  <2>6. /\ bal'[packet.to] - bal[packet.to] = post
        /\ bal'[packet.to] - bal[packet.to] + (book'.withheld - book.withheld) = amount_ld
    BY <1>5, <2>3, <2>4
  <2> QED
    BY <1>3, <1>4, <1>a, <2>5, <2>6
<1>b. CASE store.oft_type = "Native"
  <2>1. /\ bal' = [bal EXCEPT ![packet.to] = bal[packet.to] + amount_ld]
        /\ book' = [book EXCEPT !.received = book.received + packet.amount_sd]
    BY <1>b DEF LzReceive, amount_ld
  <2>2. /\ bal'[packet.to] = bal[packet.to] + amount_ld
        /\ \A other \in Users \ {packet.to} : bal'[other] = bal[other]
    BY <1>1, <1>2, <2>1
  <2>3. book'.withheld = book.withheld
    BY <1>1, <2>1 DEF Book
  <2>4. /\ bal'[packet.to] - bal[packet.to] = amount_ld
        /\ bal'[packet.to] - bal[packet.to] + (book'.withheld - book.withheld) = amount_ld
    BY <1>5, <2>2, <2>3
  <2> QED
    BY <1>3, <1>4, <1>b, <2>2, <2>4
<1> QED
  BY <1>1, <1>a, <1>b DEF Store

\* Every packet that leaves the inbox is paid in full, once, from a trusted
\* sender and while unpaused, and its composed message says what was paid
\* (lz_receive).
THEOREM ReceiptsAreExact == Spec => ReceiveIsExact
<1> DEFINE credited(packet) == bal'[packet.to] - bal[packet.to]
           Exact == \E packet \in inbox :
                      /\ inbox' = inbox \ {packet}
                      /\ credited(packet) + (book'.withheld - book.withheld)
                           = packet.amount_sd * store.ld2sd_rate
                      /\ packet.sender = peers[packet.src_eid].peer_address
                      /\ ~store.paused
                      /\ packet.compose =>
                           \E m \in composed' \ composed :
                             m.to = packet.to /\ m.amount_ld = credited(packet)
                      /\ \A other \in Users \ {packet.to} : bal'[other] = bal[other]
<1>1. IInv /\ NoncesOK /\ [Next]_vars => [~(inbox \subseteq inbox') => Exact]_vars
  <2> SUFFICES ASSUME IInv, NoncesOK, Next, ~(inbox \subseteq inbox') PROVE Exact
    OBVIOUS
  <2>1. PICK packet \in inbox : LzReceive(packet)
    BY ArrivedKept DEF Verify
  <2> DEFINE m == [to |-> packet.to, nonce |-> packet.nonce, src_eid |-> packet.src_eid,
                   amount_ld |-> amount_composed_ld(packet)]
  <2>2. /\ inbox' = inbox \ {packet}
        /\ composed' = IF packet.compose THEN composed \cup {m} ELSE composed
    BY <2>1, ReceiveClears
  <2>3. /\ credited(packet) = amount_composed_ld(packet)
        /\ credited(packet) + (book'.withheld - book.withheld)
             = packet.amount_sd * store.ld2sd_rate
        /\ \A other \in Users \ {packet.to} : bal'[other] = bal[other]
    BY <2>1, ReceivePays
  <2>4. packet.sender = peers[packet.src_eid].peer_address /\ ~store.paused
    BY <2>1 DEF LzReceive, trusted
  <2>5. /\ m.to = packet.to /\ m.nonce = packet.nonce
        /\ m.amount_ld = amount_composed_ld(packet)
    OBVIOUS
  <2> HIDE DEF m, credited
  <2>6. m \notin composed
    BY <2>5 DEF NoncesOK
  <2>7. packet.compose =>
          \E n \in composed' \ composed : n.to = packet.to /\ n.amount_ld = credited(packet)
    BY <2>2, <2>3, <2>5, <2>6
  <2> QED
    BY <2>2, <2>3, <2>4, <2>7
<1>2. ReceiveIsExact <=> [][~(inbox \subseteq inbox') => Exact]_vars
  BY DEF ReceiveIsExact
<1> HIDE DEF Exact
<1> QED
  BY <1>1, <1>2, SolanaInv, NoncesAreOnce, PTL DEF Spec

=============================================================================
