------------------------------- MODULE Bridge -------------------------------
(***************************************************************************)
(* A Solana OFT and an EVM wrapper that are each other's peers, with       *)
(* LayerZero between them.  Each side runs its own module; a packet put in *)
(* one side's outbox is verified at most once at the other, in any order,  *)
(* or never.  The clocks of the two chains are independent.                *)
(***************************************************************************)
EXTENDS SolanaOFT, FiniteSetsExt

CONSTANTS
    EvmEid, SolEid,      \* the two endpoint ids
    EvmAddr, SolAddr,    \* the two OApps' addresses
    EvmOwner, EvmUsers, EvmStart, EvmSupply, EvmRate, EvmAmounts,
    EvmLimits, EvmWindows, EvmOffset, EvmU32Max

\* Token programs keep the balances within the supply.
ASSUME BridgeAssumption ==
    /\ EvmEid \in Eids /\ EvmAddr \in Addrs
    /\ EvmRate \in Nat \ {0} /\ EvmSupply \in Nat
    /\ EvmStart \in [EvmUsers -> Nat] /\ EvmAmounts \subseteq Nat
    /\ IsFiniteSet(Users)
    /\ MapThenSumSet(LAMBDA user : Start[user], Users) <= Supply

VARIABLES
    e_upgradeable, e_owner, e_delegate, e_peers, e_rateLimits, e_token, e_inbox, e_nonce,
    e_outbox, e_now, e_configs, e_policy, e_watch, e_book,   \* of EvmOFT
    toEvm, toSol   \* indices into the outboxes, in the order of verification

Evm == INSTANCE EvmOFT WITH
    Wrappers <- {TRUE}, Keys <- {EvmOwner}, Users <- EvmUsers,
    Eids <- {SolEid}, ConfigEids <- {SolEid}, Offset <- EvmOffset, U32Max <- EvmU32Max,
    Addrs <- {SolAddr}, Rate <- EvmRate, Start <- EvmStart, Supply <- EvmSupply,
    Amounts <- EvmAmounts, Limits <- EvmLimits, Windows <- EvmWindows,
    upgradeable <- e_upgradeable, owner <- e_owner, delegate <- e_delegate, peers <- e_peers, rateLimits <- e_rateLimits,
    token <- e_token, inbox <- e_inbox, nonce <- e_nonce, outbox <- e_outbox, now <- e_now,
    configs <- e_configs, policy <- e_policy, watch <- e_watch, book <- e_book

evmVars == <<e_upgradeable, e_owner, e_delegate, e_peers, e_rateLimits, e_token, e_inbox, e_nonce,
             e_outbox, e_now, e_configs, e_policy, e_watch, e_book>>

relayVars == <<toEvm, toSol>>

bridgeVars == <<vars, evmVars, relayVars>>

-----------------------------------------------------------------------------
(* Both sides after deployment and configuration: init_oft and             *)
(* set_peer_config here, which may have created the peer without its       *)
(* address; initialize, setPeer, setOutboundRateLimits and                 *)
(* setInboundRateLimits there.                                             *)

SolanaConfigured ==
    /\ \E oft_type \in OFTTypes, admin \in Keys, shared_decimals \in SharedDecimals :
         /\ Decimals >= shared_decimals
         /\ store = [oft_type |-> oft_type,
                     ld2sd_rate |-> Base^(Decimals - shared_decimals),
                     tvl_ld |-> 0, admin |-> admin, default_fee_bps |-> 0,
                     paused |-> FALSE, pauser |-> None, unpauser |-> None]
         /\ delegate = admin
    /\ \E addr \in {EvmAddr, ZeroAddr} :
         peers = [eid \in Eids |-> [DefaultPeer EXCEPT !.peer_address = addr]]
    /\ mint \in [supply : {Supply}, authority : Authorities \cup {None}, fee : TransferFees]
    /\ bal = [a \in Accounts |-> IF a = Escrow THEN 0 ELSE Start[a]]
    /\ inbox = {} /\ nonce = 0 /\ plan = None
    /\ outbox = <<>> /\ composed = {}
    /\ now = 0 /\ configs = 0
    /\ book = [sent |-> 0, received |-> 0, fees |-> 0, withheld |-> 0]

EvmConfigured ==
    /\ e_upgradeable = TRUE
    /\ e_owner = EvmOwner /\ e_delegate = EvmOwner
    /\ e_peers = [eid \in {SolEid} |-> SolAddr]
    /\ \E config \in Evm!RateLimitConfig :
         /\ e_policy = [dir \in Evm!Directions |-> [eid \in {SolEid} |-> config]]
         /\ e_rateLimits =
              [slot \in Evm!Slots |->
                 IF slot \in {SolEid, SolEid + EvmOffset}
                 THEN [amountInFlight |-> 0, lastUpdated |-> 0,
                       limit |-> config.limit, window |-> config.window]
                 ELSE Evm!NoLimit]
    /\ e_token = [supply |-> EvmSupply, bal |-> EvmStart, frozen |-> {}, granted |-> TRUE]
    /\ e_inbox = {} /\ e_nonce = 0 /\ e_outbox = <<>>
    /\ e_now = 0 /\ e_configs = 0
    /\ e_watch = None /\ e_book = [sent |-> 0, received |-> 0]

BridgeInit == SolanaConfigured /\ EvmConfigured /\ toEvm = <<>> /\ toSol = <<>>

-----------------------------------------------------------------------------
(* External: LayerZero verifies a packet at the endpoint of its receiver.  *)

Relayed(order) == {order[k] : k \in DOMAIN order}

RelayToEvm(i) ==
    /\ i \notin Relayed(toEvm)
    /\ outbox[i].dst_eid = EvmEid /\ outbox[i].receiver = EvmAddr
    /\ \E to \in EvmUsers :
         Evm!Verify(SolEid, SolAddr, to, outbox[i].amount_sd, outbox[i].compose)
    /\ toEvm' = Append(toEvm, i)
    /\ UNCHANGED <<vars, toSol>>

RelayToSol(i) ==
    /\ i \notin Relayed(toSol)
    /\ e_outbox[i].dst_eid = SolEid /\ e_outbox[i].receiver = SolAddr
    /\ \E to \in Users :
         Verify(EvmEid, EvmAddr, to, e_outbox[i].amount_sd, e_outbox[i].compose)
    /\ toSol' = Append(toSol, i)
    /\ UNCHANGED <<evmVars, toEvm>>

BridgeNext ==
    \/ LocalNext /\ UNCHANGED <<evmVars, relayVars>>
    \/ Evm!LocalNext /\ UNCHANGED <<vars, relayVars>>
    \/ \E i \in DOMAIN outbox : RelayToEvm(i)
    \/ \E i \in DOMAIN e_outbox : RelayToSol(i)

BridgeSpec == BridgeInit /\ [][BridgeNext]_bridgeVars

-----------------------------------------------------------------------------
(* The abstract ledger.                                                    *)

\* Value outside the lock on Solana, and on the EVM chain.
SolHeld ==
    ld2sd(store.ld2sd_rate,
          IF store.oft_type = "Adapter" THEN Supply - store.tvl_ld ELSE mint.supply)

EvmHeld == e_token.supply \div EvmRate

\* Packet i of an outbox has arrived when it was verified and is gone from the
\* other side's inbox.
Arrived(i, order, box) ==
    \E k \in DOMAIN order : order[k] = i /\ \A packet \in box : packet.nonce # k

InFlight(from, to, sent, order, box) ==
    {[id |-> <<from, i>>, to |-> to, value |-> sent[i].amount_sd] :
        i \in {j \in DOMAIN sent : ~Arrived(j, order, box)}}

flight == InFlight("sol", "evm", outbox, toEvm, e_inbox)
            \cup InFlight("evm", "sol", e_outbox, toSol, inbox)

departed == ({"sol"} \X DOMAIN outbox) \cup ({"evm"} \X DOMAIN e_outbox)

Ledger == INSTANCE BridgeLedger WITH
    Chains <- {"sol", "evm"}, Ids <- {"sol", "evm"} \X (1..MaxSends),
    held <- [sol |-> SolHeld, evm |-> EvmHeld]

\* Across both programs, their fees, dust, limits, pauses, refusals and retries,
\* the bridge is the abstract ledger: value enters a packet when and only when it
\* leaves a chain, and every packet is paid at most once, in full, on its chain.
ImplementsLedger == Ledger!Spec

\* With an Adapter on Solana and no other issuer on the EVM chain, the escrow
\* locks to the unit what the EVM chain and the packets in flight are worth: no
\* packet to Solana can find too little locked (lz_receive: tvl_ld -= amount).
PacketsAreBacked ==
    store.oft_type = "Adapter" /\ EvmSupply = 0 =>
      store.tvl_ld = store.ld2sd_rate
                       * (EvmHeld + MapThenSumSet(LAMBDA packet : packet.value, flight))

-----------------------------------------------------------------------------
(* The inductive invariant behind the two.                                 *)

EvmTypeOK ==
    /\ e_peers \in [{SolEid} -> {SolAddr, None}]
    /\ e_token \in [supply : Nat, bal : [EvmUsers -> Nat], frozen : SUBSET EvmUsers,
                    granted : BOOLEAN]
    /\ e_inbox \in SUBSET [nonce : Nat, src_eid : {SolEid}, sender : {SolAddr}, to : EvmUsers,
                           amount_sd : Nat, compose : BOOLEAN]
    /\ e_outbox \in Seq([dst_eid : {SolEid}, receiver : {SolAddr, None}, amount_sd : U64,
                         compose : BOOLEAN])

\* The packets that wait in a box are packets of the other side, each relayed
\* once, under the nonce that names it.
RelayOK(sent, order, box, last) ==
    /\ order \in Seq(DOMAIN sent) /\ last = Len(order)
    /\ \A k, l \in DOMAIN order : order[k] = order[l] => k = l
    /\ \A packet \in box : /\ packet.nonce \in DOMAIN order
                           /\ packet.amount_sd = sent[order[packet.nonce]].amount_sd
    /\ \A p, q \in box : p.nonce = q.nonce => p = q

\* Every token on Solana is in an account, or was withheld from a transfer.
TokensCovered ==
    MapThenSumSet(LAMBDA account : bal[account], Accounts) + book.withheld <= mint.supply

\* PacketsAreBacked, whatever the EVM chain began with.
LockedIsOwed ==
    store.oft_type = "Adapter" =>
      store.tvl_ld = store.ld2sd_rate
                       * (EvmHeld - EvmSupply \div EvmRate
                            + MapThenSumSet(LAMBDA packet : packet.value, flight))

\* The inductive invariant of the pair: both programs' own invariants, packets
\* on the wires as they were sent, and locked value equal to what is owed, while
\* either side sends, receives, is paused, limited or reconfigured (send,
\* lz_receive, _debit, _credit).
BridgeInv ==
    /\ IInv /\ store # None
    /\ EvmTypeOK
    /\ RelayOK(outbox, toEvm, e_inbox, e_nonce)
    /\ RelayOK(e_outbox, toSol, inbox, nonce)
    /\ TokensCovered
    /\ LockedIsOwed

=============================================================================
