---------------------------- MODULE EvmDelivery -----------------------------
(***************************************************************************)
(* Delivery of packets on the EVM chain as a liveness property.  As in     *)
(* SolanaDelivery the clock stands at MaxTime, no shorter than any window, *)
(* the rate limits grow older instead, and traffic has no end: MaxInbound  *)
(* bounds the packets that wait at once.                                   *)
(***************************************************************************)
EXTENDS EvmOFT, FiniteSetsExt

CONSTANT Issued   \* value issued on all chains together, in LD

ASSUME IssuedAssumption == Issued \in Nat

ASSUME HorizonAssumption == \A window \in Windows : window <= MaxTime

\* Nothing recorded, as before the first transfer.
NoHistory == outbox = <<>> /\ book = [sent |-> 0, received |-> 0]

\* After initialize and setPeer; limits are still to be set.
EvmDeliveryInit ==
    /\ upgradeable \in Wrappers
    /\ owner \in Keys /\ delegate = owner
    /\ \E addr \in Addrs : peers = [eid \in Eids |-> addr]
    /\ rateLimits = [slot \in Slots |-> NoLimit]
    /\ token = [supply |-> Supply, bal |-> Start, frozen |-> {}, granted |-> TRUE]
    /\ inbox = {} /\ nonce = 0
    /\ now = MaxTime /\ configs = 0
    /\ policy = [dir \in Directions |-> [eid \in Eids |-> [limit |-> 0, window |-> 0]]]
    /\ watch = None
    /\ NoHistory

\* A second passes.
EvmAge ==
    /\ rateLimits' = [slot \in Slots |->
                        [rateLimits[slot] EXCEPT !.lastUpdated = IF @ = 0 THEN 0 ELSE @ - 1]]
    /\ UNCHANGED <<upgradeable, owner, delegate, peers, token, inbox, nonce, outbox, now, configs,
                   policy, watch, book>>

\* The other chains hold what is issued and neither here nor under way, and
\* can send no more.
Arrive(src_eid, sender, to, amount_sd, compose) ==
    /\ token.supply + Rate * (amount_sd + MapThenSumSet(LAMBDA p : p.amount_sd, inbox)) <= Issued
    /\ Verify(src_eid, sender, to, amount_sd, compose)

\* Model only: before anything else happens, what the last step left in the
\* histories is forgotten, and with it the nonces above those that wait.
EvmForget ==
    /\ ~NoHistory
    /\ outbox' = <<>> /\ book' = [sent |-> 0, received |-> 0]
    /\ nonce' = Max({0} \cup {packet.nonce : packet \in inbox})
    /\ UNCHANGED <<upgradeable, owner, delegate, peers, rateLimits, token, inbox, now, configs,
                   policy, watch>>

EvmDeliveryNext ==
    \/ /\ NoHistory
       /\ \/ LocalNext
          \/ \E src_eid \in Eids, sender \in Addrs, to \in Users, amount_sd \in SDs,
                compose \in Composes :
               Arrive(src_eid, sender, to, amount_sd, compose)
          \/ EvmAge
    \/ EvmForget

Execute(n) == \E packet \in inbox : packet.nonce = n /\ LzReceive(packet)

\* Time passes, and the executor retries every packet that can be executed.
EvmFairness ==
    /\ WF_vars(EvmAge) /\ WF_vars(EvmForget)
    /\ \A n \in 1..MaxInbound : WF_vars(Execute(n))

EvmDeliverySpec == EvmDeliveryInit /\ [][EvmDeliveryNext]_vars /\ EvmFairness

-----------------------------------------------------------------------------
\* Nothing but time stands between a packet and its payment; the owner's policy
\* for the source admits it.
EvmReceivable(packet) ==
    /\ peers[packet.src_eid] = packet.sender
    /\ CanMint(packet.to)
    /\ upgradeable => packet.amount_sd * Rate <= policy["in"][packet.src_eid].limit

Waiting(n) == \E packet \in inbox : packet.nonce = n

\* The inbound limit of its source does not admit packet n now.
Drained(n) ==
    \E packet \in inbox :
      /\ packet.nonce = n
      /\ upgradeable /\ packet.amount_sd * Rate > getAmountCanBeReceived(packet.src_eid)

\* Other packets are minted for ever, and take what packet n waits for.
Overtaken(n) ==
    /\ []<>Drained(n)
    /\ []<><<\E m \in (1..MaxInbound) \ {n} : Execute(m)>>_vars

\* If from some time on the owner's inbound limit is no smaller than any waiting
\* packet, the peer is right and the token consents, every packet is paid, unless
\* other packets that keep coming use up the limit before it for ever: _credit
\* has no queue, so that smaller packets can starve one close to the limit.  A
\* window used up, a lowered limit or a refusal in between only delays it
\* (lzReceive, _credit).
EveryPacketIsMinted ==
    <>[](\A packet \in inbox : EvmReceivable(packet))
      => \A n \in 1..MaxInbound : (Waiting(n) ~> ~Waiting(n)) \/ Overtaken(n)

=============================================================================
