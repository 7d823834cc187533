------------------------------- MODULE EvmOFT -------------------------------
(***************************************************************************)
(* The EVM side of the bridge: OFTWrapperUpgradeable (both directions      *)
(* limited) and OFTWrapper (outbound only).  One action per transaction; a *)
(* transaction that reverts is no step.  LayerZero's OFTCore, OApp and     *)
(* RateLimiter, OpenZeppelin's Ownable and the Paxos token are external    *)
(* and modelled from how the wrappers use them.                            *)
(***************************************************************************)
EXTENDS Integers, Sequences

CONSTANTS
    None,           \* the zero address; no peer
    Wrappers,       \* TRUE: OFTWrapperUpgradeable, FALSE: OFTWrapper
    Keys,           \* accounts that deploy and administer
    Users,          \* token holders
    Eids,           \* endpoint ids of the remote chains
    ConfigEids,     \* endpoint ids that the owner configures limits for
    Offset,         \* INBOUND_EID_OFFSET
    U32Max,         \* 2^32 - 1 in the code
    U64Max,         \* 2^64 - 1 in the code
    Addrs,          \* addresses of remote peers
    Rate,           \* decimalConversionRate
    Start, Supply,  \* balances and supply of the token at deployment
    Amounts, SDs,   \* amounts in LD that users name, in SD that packets carry
    Composes,       \* whether messages are composed
    Limits, Windows,\* limits (LD) and windows (seconds) the owner may set
    MaxSends, MaxInbound, MaxConfigs, MaxTime   \* bounds of the model

Directions == {"out", "in"}

Slots == 0..U32Max

RateLimitConfig == [limit : Limits, window : Windows]

\* An array of configurations, at most one per eid.
Batches == UNION {[D -> RateLimitConfig] : D \in SUBSET ConfigEids}

ASSUME EvmInputAssumption ==
    /\ U32Max \in Nat /\ U64Max \in Nat /\ Offset \in Nat \ {0} /\ Rate \in Nat \ {0}
    /\ Eids \subseteq Slots /\ ConfigEids \subseteq Slots
    /\ Limits \subseteq Nat /\ Windows \subseteq Nat
    /\ Amounts \subseteq Nat /\ SDs \subseteq 0..U64Max
    /\ Start \in [Users -> Nat] /\ Supply \in Nat
    /\ Wrappers \subseteq BOOLEAN /\ Composes \subseteq BOOLEAN
    /\ None \notin Keys /\ None \notin Addrs
    /\ MaxSends \in Nat /\ MaxInbound \in Nat /\ MaxConfigs \in Nat /\ MaxTime \in Nat

VARIABLES
    upgradeable, \* which contract is deployed
    owner,       \* None before initialize or the constructor
    delegate,    \* the OApp's delegate at the endpoint
    peers,       \* the trusted address of every eid, None when there is none
    rateLimits,  \* RateLimiter's mapping, both directions in one
    token,       \* supply, balances, frozen holders, the wrapper's permission
    inbox,       \* packets verified at the endpoint and not yet cleared
    nonce,       \* nonces given to verified packets so far
    outbox,      \* packets given to the endpoint
    now,         \* block.timestamp
    configs,     \* administrative and outside steps taken
    policy,      \* history: what the owner last set for a direction and an eid
    watch,       \* history: what moved in one direction since an observer looks
    book         \* history: SD sent and received

vars == <<upgradeable, owner, delegate, peers, rateLimits, token, inbox, nonce, outbox, now,
          configs, policy, watch, book>>

NoLimit == [amountInFlight |-> 0, lastUpdated |-> 0, limit |-> 0, window |-> 0]

Init ==
    /\ upgradeable \in Wrappers
    /\ owner = None
    /\ delegate = None
    /\ peers = [eid \in Eids |-> None]
    /\ rateLimits = [slot \in Slots |-> NoLimit]
    /\ token = [supply |-> Supply, bal |-> Start, frozen |-> {}, granted |-> TRUE]
    /\ inbox = {} /\ nonce = 0 /\ outbox = <<>>
    /\ now = 0 /\ configs = 0
    /\ policy = [dir \in Directions |-> [eid \in Eids |-> [limit |-> 0, window |-> 0]]]
    /\ watch = None
    /\ book = [sent |-> 0, received |-> 0]

-----------------------------------------------------------------------------
(* External: RateLimiter.                                                  *)

inFlightAt(rl, t) ==
    LET dt    == t - rl.lastUpdated
        decay == (rl.limit * dt) \div rl.window
    IN  IF dt >= rl.window \/ rl.amountInFlight <= decay THEN 0
        ELSE rl.amountInFlight - decay

amountCanBeSent(rl, t) ==
    IF rl.limit <= inFlightAt(rl, t) THEN 0 ELSE rl.limit - inFlightAt(rl, t)

\* Mutant: the amount is checked and not recorded.
outflow_unrecorded(rl, amount, t) ==
    [rl EXCEPT !.amountInFlight = inFlightAt(rl, t), !.lastUpdated = t]

outflow(rl, amount, t) ==
    [rl EXCEPT !.amountInFlight = inFlightAt(rl, t) + amount, !.lastUpdated = t]

\* The old limit is settled first; what is in flight is kept.
reconfigured(rl, config, t) ==
    [outflow(rl, 0, t) EXCEPT !.limit = config.limit, !.window = config.window]

\* _setRateLimits, for configurations by slot.
setRateLimits(cfgs) ==
    rateLimits' = [slot \in Slots |->
                     IF slot \in DOMAIN cfgs THEN reconfigured(rateLimits[slot], cfgs[slot], now)
                     ELSE rateLimits[slot]]

-----------------------------------------------------------------------------
(* Limits, their slots, and the history kept of them.                      *)

\* Mutant: the offset is forgotten.
inboundSlot_shared(srcEid) == srcEid

inboundSlot(srcEid) == srcEid + Offset

slotOf(dir, eid) == IF dir = "in" THEN inboundSlot(eid) ELSE eid

getAmountCanBeReceived(srcEid) == amountCanBeSent(rateLimits[inboundSlot(srcEid)], now)

Watching(dir, eid) == watch # None /\ watch.dir = dir /\ watch.eid = eid

Begun(dir, eid) == [dir |-> dir, eid |-> eid, used |-> 0, since |-> now]

\* The history of a batch: a new policy, and a new start for its observer.
PolicySet(dir, cfgs) ==
    /\ policy' = [policy EXCEPT ![dir] =
                    [eid \in Eids |-> IF eid \in DOMAIN cfgs THEN cfgs[eid] ELSE policy[dir][eid]]]
    /\ watch' = IF \E eid \in DOMAIN cfgs : Watching(dir, eid)
                THEN Begun(dir, watch.eid) ELSE watch

Moved(dir, eid, amount) ==
    watch' = IF Watching(dir, eid) THEN [watch EXCEPT !.used = @ + amount] ELSE watch

-----------------------------------------------------------------------------
(* Deployment and administration.                                          *)

Counted == configs < MaxConfigs /\ configs' = configs + 1

\* OFTWrapper's constructor: the deployer owns it, with limits from the start.
Construct(sender, _delegate, cfgs) ==
    /\ ~upgradeable /\ owner = None
    /\ _delegate # None
    /\ owner' = sender /\ delegate' = _delegate
    /\ setRateLimits(cfgs)
    /\ PolicySet("out", cfgs)
    /\ UNCHANGED <<upgradeable, peers, token, inbox, nonce, outbox, now, configs, book>>

\* OFTWrapperUpgradeable.initialize, once per proxy; nothing is limited yet,
\* that is, nothing may pass.
Initialize(_delegate, _owner) ==
    /\ upgradeable /\ owner = None
    /\ _delegate # None /\ _owner # None
    /\ owner' = _owner /\ delegate' = _delegate
    /\ UNCHANGED <<upgradeable, peers, rateLimits, token, inbox, nonce, outbox, now, configs,
                   policy, watch, book>>

\* setOutboundRateLimits; setRateLimits of OFTWrapper.
SetOutboundRateLimits(sender, cfgs) ==
    /\ sender = owner
    /\ Counted
    /\ setRateLimits(cfgs)
    /\ PolicySet("out", cfgs)
    /\ UNCHANGED <<upgradeable, owner, delegate, peers, token, inbox, nonce, outbox, now, book>>

\* The sum of eid and offset is checked: one that overflows reverts the batch.
SetInboundRateLimits(sender, cfgs) ==
    /\ upgradeable /\ sender = owner
    /\ Counted
    /\ \A eid \in DOMAIN cfgs : inboundSlot(eid) \in Slots
    /\ setRateLimits([slot \in {inboundSlot(eid) : eid \in DOMAIN cfgs} |->
                        cfgs[CHOOSE eid \in DOMAIN cfgs : inboundSlot(eid) = slot]])
    /\ PolicySet("in", cfgs)
    /\ UNCHANGED <<upgradeable, owner, delegate, peers, token, inbox, nonce, outbox, now, book>>

\* External: OAppCore.setPeer and Ownable.transferOwnership.
SetPeer(sender, eid, peer) ==
    /\ sender = owner
    /\ Counted
    /\ peers' = [peers EXCEPT ![eid] = peer]
    /\ UNCHANGED <<upgradeable, owner, delegate, rateLimits, token, inbox, nonce, outbox, now,
                   policy, watch, book>>

TransferOwnership(sender, newOwner) ==
    /\ sender = owner
    /\ newOwner # owner
    /\ Counted
    /\ owner' = newOwner
    /\ UNCHANGED <<upgradeable, delegate, peers, rateLimits, token, inbox, nonce, outbox, now,
                   policy, watch, book>>

-----------------------------------------------------------------------------
(* Transfers.                                                              *)

\* External: OFTCore's removeDust and toSD.
removeDust(amountLD) == (amountLD \div Rate) * Rate

\* Mutant: the amount the user named is debited, dust and all.
amountSentLD_dusty(amountLD) == amountLD

amountSentLD(amountLD) == removeDust(amountLD)

\* Mutant: the balance is not looked at.
CanBurn_unchecked(amount, from) == token.granted /\ from \notin token.frozen

\* External: decreaseSupplyFromAddress and increaseSupplyToAddress; both the
\* balance and the supply are decreased with checked subtraction.
CanBurn(amount, from) ==
    /\ token.granted /\ from \notin token.frozen
    /\ token.bal[from] >= amount /\ token.supply >= amount

CanMint(to) == token.granted /\ to \notin token.frozen

\* OFTCore.send with the wrapper's _debit: dust stays with the sender, the
\* limit of the destination is charged, the rest is burned.
Send(from, dstEid, amountLD, minAmountLD, compose) ==
    LET sent == amountSentLD(amountLD)
    IN  /\ Len(outbox) < MaxSends
        /\ peers[dstEid] # None
        /\ sent >= minAmountLD
        /\ sent <= amountCanBeSent(rateLimits[dstEid], now)
        /\ rateLimits' = [rateLimits EXCEPT ![dstEid] = outflow(@, sent, now)]
        /\ CanBurn(sent, from)
        /\ token' = [token EXCEPT !.bal[from] = @ - sent, !.supply = @ - sent]
        /\ sent \div Rate <= U64Max
        /\ outbox' = Append(outbox, [dst_eid |-> dstEid, receiver |-> peers[dstEid],
                                     amount_sd |-> sent \div Rate, compose |-> compose])
        /\ Moved("out", dstEid, sent)
        /\ book' = [book EXCEPT !.sent = @ + sent \div Rate]
        /\ UNCHANGED <<upgradeable, owner, delegate, peers, inbox, nonce, now, configs, policy>>

\* Mutant: a credit is charged to no limit.
chargesInbound_never == FALSE

\* _credit of OFTWrapperUpgradeable charges the inbound limit of the source.
chargesInbound == upgradeable

\* Mutant: a credit is charged to the limit of the other direction.
creditSlot_outbound(srcEid) == srcEid

creditSlot(srcEid) == inboundSlot(srcEid)

\* The endpoint's lzReceive with the wrapper's _credit: a revert anywhere leaves
\* the packet for another attempt.
LzReceive(packet) ==
    LET amountLD == packet.amount_sd * Rate
        slot     == creditSlot(packet.src_eid)
    IN  /\ peers[packet.src_eid] = packet.sender
        /\ \/ /\ chargesInbound
              /\ slot \in Slots
              /\ amountLD <= amountCanBeSent(rateLimits[slot], now)
              /\ rateLimits' = [rateLimits EXCEPT ![slot] = outflow(@, amountLD, now)]
           \/ ~chargesInbound /\ UNCHANGED rateLimits
        /\ Moved("in", packet.src_eid, amountLD)
        /\ CanMint(packet.to)
        /\ token' = [token EXCEPT !.bal[packet.to] = @ + amountLD, !.supply = @ + amountLD]
        /\ inbox' = inbox \ {packet}
        /\ book' = [book EXCEPT !.received = @ + packet.amount_sd]
        /\ UNCHANGED <<upgradeable, owner, delegate, peers, nonce, outbox, now, configs, policy>>

-----------------------------------------------------------------------------
(* External: the world around the wrapper.                                 *)

Verify(src_eid, sender, to, amount_sd, compose) ==
    /\ nonce < MaxInbound
    /\ nonce' = nonce + 1
    /\ inbox' = inbox \cup {[nonce |-> nonce + 1, src_eid |-> src_eid, sender |-> sender,
                             to |-> to, amount_sd |-> amount_sd, compose |-> compose]}
    /\ UNCHANGED <<upgradeable, owner, delegate, peers, rateLimits, token, outbox, now, configs,
                   policy, watch, book>>

\* The token freezes and releases holders, and revokes and grants permission.
ChangeToken ==
    /\ Counted
    /\ \/ \E user \in Users : token' = [token EXCEPT !.frozen =
                                          IF user \in @ THEN @ \ {user} ELSE @ \cup {user}]
       \/ token' = [token EXCEPT !.granted = ~@]
    /\ UNCHANGED <<upgradeable, owner, delegate, peers, rateLimits, inbox, nonce, outbox, now,
                   policy, watch, book>>

Tick ==
    /\ now < MaxTime
    /\ now' = now + 1
    /\ UNCHANGED <<upgradeable, owner, delegate, peers, rateLimits, token, inbox, nonce, outbox,
                   configs, policy, watch, book>>

\* History only: an observer starts to add up what moves.
Observe(dir, eid) ==
    /\ watch' = Begun(dir, eid)
    /\ UNCHANGED <<upgradeable, owner, delegate, peers, rateLimits, token, inbox, nonce, outbox,
                   now, configs, policy, book>>

\* Everything but the arrival of packets and the observer.
LocalNext ==
    \/ \E sender \in Keys, _delegate \in Keys \cup {None}, cfgs \in Batches :
         Construct(sender, _delegate, cfgs)
    \/ \E _delegate, _owner \in Keys \cup {None} : Initialize(_delegate, _owner)
    \/ \E sender \in Keys, cfgs \in Batches :
         SetOutboundRateLimits(sender, cfgs) \/ SetInboundRateLimits(sender, cfgs)
    \/ \E sender \in Keys, eid \in Eids, peer \in Addrs \cup {None} : SetPeer(sender, eid, peer)
    \/ \E sender, newOwner \in Keys : TransferOwnership(sender, newOwner)
    \/ \E from \in Users, dstEid \in Eids, amountLD, minAmountLD \in Amounts, compose \in Composes :
         Send(from, dstEid, amountLD, minAmountLD, compose)
    \/ \E packet \in inbox : LzReceive(packet)
    \/ ChangeToken
    \/ Tick

Next ==
    \/ LocalNext
    \/ \E src_eid \in Eids, sender \in Addrs, to \in Users, amount_sd \in SDs,
          compose \in Composes :
         Verify(src_eid, sender, to, amount_sd, compose)
    \/ \E dir \in Directions, eid \in Eids : Observe(dir, eid)

Spec == Init /\ [][Next]_vars

-----------------------------------------------------------------------------
(* Properties.                                                             *)

\* Types: no slot is ahead of the clock, balances are never negative, every
\* amount on the wire is a u64.
TypeOK ==
    /\ upgradeable \in BOOLEAN
    /\ owner \in Keys \cup {None} /\ delegate \in Keys \cup {None}
    /\ peers \in [Eids -> Addrs \cup {None}]
    /\ rateLimits \in [Slots -> [amountInFlight : Nat, lastUpdated : 0..now,
                                 limit : Nat, window : Nat]]
    /\ token \in [supply : Nat, bal : [Users -> Nat], frozen : SUBSET Users, granted : BOOLEAN]
    /\ inbox \in SUBSET [nonce : 1..nonce, src_eid : Eids, sender : Addrs, to : Users,
                         amount_sd : 0..U64Max, compose : BOOLEAN]
    /\ nonce \in Nat
    /\ outbox \in Seq([dst_eid : Eids, receiver : Addrs, amount_sd : 0..U64Max,
                       compose : BOOLEAN])
    /\ now \in Nat /\ configs \in Nat
    /\ policy \in [Directions -> [Eids -> [limit : Nat, window : Nat]]]
    /\ watch \in {None} \cup [dir : Directions, eid : Eids, used : Nat, since : 0..now]
    /\ book \in [sent : Nat, received : Nat]

LimitedDirections == IF upgradeable THEN Directions ELSE {"out"}

\* However sends, receipts, idle time and reconfiguration interleave, and
\* wherever an observer starts to look, a direction of an eid moves no more than
\* the limit its own setter gave it, plus what that limit frees in the time
\* that passed (_debit, _credit and the two setters over one mapping).
PolicyBoundsFlow ==
    watch # None /\ watch.dir \in LimitedDirections =>
      LET p == policy[watch.dir][watch.eid]
      IN  watch.used * p.window <= p.limit * (p.window + now - watch.since)

\* The slots of the two directions do not meet, for the eids that are used:
\* LayerZero's are far below INBOUND_EID_OFFSET.  A hypothesis of the theorems
\* about limits (nothing in the code enforces it).
NoCollision == \A eid, other \in Eids \cup ConfigEids : eid # inboundSlot(other)

\* A slot holds the limit and the window that the setter of its direction gave.
SlotsFollowPolicy ==
    \A dir \in Directions, eid \in Eids :
      slotOf(dir, eid) \in Slots =>
        /\ rateLimits[slotOf(dir, eid)].limit = policy[dir][eid].limit
        /\ rateLimits[slotOf(dir, eid)].window = policy[dir][eid].window

\* What moved since the observer looks is still in flight in the slot, or was
\* freed before the slot was last brought up to date.
WatchedIsInSlot ==
    LET rl == rateLimits[slotOf(watch.dir, watch.eid)]
    IN  watch # None /\ watch.dir \in LimitedDirections /\ watch.used > 0 =>
          /\ slotOf(watch.dir, watch.eid) \in Slots
          /\ watch.since <= rl.lastUpdated
          /\ rl.amountInFlight <= rl.limit
          /\ watch.used * rl.window
               <= rl.limit * (rl.lastUpdated - watch.since) + rl.amountInFlight * rl.window

\* The inductive invariant behind PolicyBoundsFlow: nothing is freed twice,
\* however lazily a slot is brought up to date (outflow, inFlightAt).
FlowInv == SlotsFollowPolicy /\ WatchedIsInSlot

available(dir, eid) == amountCanBeSent(rateLimits[slotOf(dir, eid)], now)

\* A packet of this eid is sent, or received.
Traffic(dir, eid) ==
    IF dir = "out" THEN outbox' # outbox /\ outbox'[Len(outbox')].dst_eid = eid
    ELSE \E packet \in inbox \ inbox' : packet.src_eid = eid

\* "differentiated by an offset added to inbound endpoint IDs to ensure they
\* never collide" (OFTWrapperUpgradeable.sol): while the clock stands, what a
\* direction of an eid may still move changes only through its own traffic or
\* its own setter, never through the other direction or another eid.
DirectionsIndependent ==
    [][ \A dir \in LimitedDirections, eid \in Eids :
          (/\ now' = now
           /\ policy'[dir][eid] = policy[dir][eid]
           /\ ~Traffic(dir, eid))
            => available(dir, eid)' = available(dir, eid) ]_vars

\* The token's supply follows the packets exactly: what was burned is what
\* packets promise, dust stays with its owner (_debit, _credit).
SupplyFollowsPackets ==
    token.supply + Rate * book.sent = Supply + Rate * book.received

\* A packet leaves the inbox only when its recipient gets its whole value, newly
\* minted, from the peer of the moment and with the token's consent.  The inbound
\* limit of its source admits the value and is charged with it to the unit (a
\* window of 0 seconds keeps nothing); OFTWrapper has none and touches none
\* (lzReceive, _credit).
CreditIsExact ==
    [][ ~(inbox \subseteq inbox') =>
          \E packet \in inbox :
            LET value == Rate * packet.amount_sd
                eid   == packet.src_eid
            IN  /\ inbox' = inbox \ {packet}
                /\ token' = [token EXCEPT !.bal[packet.to] = @ + value, !.supply = @ + value]
                /\ packet.sender = peers[eid]
                /\ token.granted /\ packet.to \notin token.frozen
                /\ IF upgradeable
                   THEN /\ value <= getAmountCanBeReceived(eid)
                        /\ rateLimits[inboundSlot(eid)].window > 0 =>
                             getAmountCanBeReceived(eid)' = getAmountCanBeReceived(eid) - value
                   ELSE UNCHANGED rateLimits ]_vars

=============================================================================
