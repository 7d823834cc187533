--------------------------- MODULE SolanaDelivery ---------------------------
(***************************************************************************)
(* Delivery of packets on Solana as a liveness property.  Limiters depend  *)
(* on the time since their last refill only, so the clock stands at        *)
(* MaxTime and limiters grow older instead; MaxTime is the age at which    *)
(* all are full.  Traffic has no end: what was dealt with is forgotten, so *)
(* MaxInbound bounds the packets that wait at once, not those that come.   *)
(***************************************************************************)
EXTENDS SolanaOFT, FiniteSetsExt

FullLimiter(capacity, rate) ==
    [capacity |-> capacity, tokens |-> capacity, refill_per_second |-> rate,
     last_refill_time |-> MaxTime]

NoBook == [sent |-> 0, received |-> 0, fees |-> 0, withheld |-> 0]

\* Nothing recorded, as before the first transfer.
NoHistory == outbox = <<>> /\ composed = {} /\ book = NoBook

\* After init_oft and set_peer_config: address and inbound limit.
DeliveryInit ==
    /\ \E oft_type \in OFTTypes, admin \in Keys, shared_decimals \in SharedDecimals :
         /\ Decimals >= shared_decimals
         /\ store = [oft_type |-> oft_type,
                     ld2sd_rate |-> Base^(Decimals - shared_decimals),
                     tvl_ld |-> 0, admin |-> admin, default_fee_bps |-> 0,
                     paused |-> FALSE, pauser |-> None, unpauser |-> None]
         /\ delegate = admin
    /\ \E addr \in Addrs, capacity, rate \in Limits :
         peers = [eid \in Eids |-> [DefaultPeer EXCEPT !.peer_address = addr,
                                                       !.inbound = FullLimiter(capacity, rate)]]
    /\ mint \in [supply : {Supply}, authority : Authorities \cup {None}, fee : TransferFees]
    /\ bal = [a \in Accounts |-> IF a = Escrow THEN 0 ELSE Start[a]]
    /\ inbox = {} /\ nonce = 0 /\ plan = None
    /\ now = MaxTime /\ configs = 0
    /\ NoHistory

aged(limiter) ==
    IF limiter = None \/ limiter.last_refill_time = 0 THEN limiter
    ELSE [limiter EXCEPT !.last_refill_time = @ - 1]

\* A second passes.
Age ==
    /\ peers' = [eid \in Eids |->
                   IF peers[eid] = None THEN None
                   ELSE [peers[eid] EXCEPT !.outbound = aged(@), !.inbound = aged(@)]]
    /\ UNCHANGED <<store, delegate, mint, bal, inbox, nonce, plan, outbox, composed,
                   now, configs, book>>

\* Model only: before anything else happens, what the last step left in the
\* histories is forgotten, and with it the nonces above those that wait.
Forget ==
    /\ ~NoHistory
    /\ outbox' = <<>> /\ composed' = {} /\ book' = NoBook
    /\ nonce' = Max({0} \cup {packet.nonce : packet \in inbox})
    /\ plan' = IF plan # None /\ plan.packet \in inbox THEN plan ELSE None
    /\ UNCHANGED <<store, peers, delegate, mint, bal, inbox, now, configs>>

DeliveryNext ==
    \/ NoHistory /\ (Next \/ Age)
    \/ Forget

Ask(n) == \E packet \in inbox : packet.nonce = n /\ LzReceiveTypes(packet)

Execute(n) == \E packet \in inbox : packet.nonce = n /\ LzReceive(packet)

\* Time passes; for every packet the executor keeps asking for its accounts, and
\* does not always let another answer come between asking and executing.
Fairness ==
    /\ WF_vars(Age) /\ WF_vars(Forget)
    /\ \A n \in 1..MaxInbound : WF_vars(Ask(n)) /\ SF_vars(Execute(n))

DeliverySpec == DeliveryInit /\ [][DeliveryNext]_vars /\ Fairness

-----------------------------------------------------------------------------
\* Nothing but time stands between a packet and its payment.
Receivable(packet) ==
    LET peer      == peers[packet.src_eid]
        amount_ld == sd2ld(store.ld2sd_rate, packet.amount_sd)
    IN  /\ ~store.paused
        /\ peer # None /\ peer.peer_address = packet.sender
        /\ FitsU64(amount_ld) /\ FitsU64(bal[packet.to] + amount_ld)
        /\ \/ store.oft_type = "Adapter" /\ store.tvl_ld >= amount_ld
           \/ /\ store.oft_type = "Native"
              /\ mint.authority \in OftAuthorities /\ FitsU64(mint.supply + amount_ld)
        /\ peer.inbound # None => peer.inbound.capacity >= amount_ld
                                  /\ peer.inbound.refill_per_second > 0

Waiting(n) == \E packet \in inbox : packet.nonce = n

\* The limiter of its source does not hold enough for packet n.
Drained(n) ==
    \E packet \in inbox :
      /\ packet.nonce = n
      /\ ~limit_allows(peers[packet.src_eid].inbound,
                       sd2ld(store.ld2sd_rate, packet.amount_sd), now)

\* Other packets are paid for ever, and take what packet n waits for.
Overtaken(n) ==
    /\ []<>Drained(n)
    /\ []<><<\E m \in (1..MaxInbound) \ {n} : Execute(m)>>_vars

\* If from some time on the configuration admits every waiting packet (unpaused,
\* the right peer, a capacity it fits in, enough locked or a mint the program may
\* use), every packet is paid, unless other packets that keep coming empty the
\* limiter before it for ever: lz_receive has no queue, so that smaller packets
\* can starve one close to the capacity.  No drained limiter, stale answer of
\* lz_receive_types or end of the other traffic keeps it (lz_receive, refill).
EveryPacketIsPaid ==
    <>[](\A packet \in inbox : Receivable(packet))
      => \A n \in 1..MaxInbound : (Waiting(n) ~> ~Waiting(n)) \/ Overtaken(n)

=============================================================================
