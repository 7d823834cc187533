---------------------------- MODULE EvmOFTProofs ----------------------------
(***************************************************************************)
(* Proofs about the EVM wrappers, for every value of the constants: types, *)
(* the supply against the packets, the exactness of a credit, and, when    *)
(* the slots of the two directions do not meet, the bound on what a        *)
(* direction moves and the independence of the directions.                 *)
(***************************************************************************)
EXTENDS EvmOFT, TLAPS

-----------------------------------------------------------------------------
(* Arithmetic.                                                             *)

LEMMA DivMod ==
    ASSUME NEW a \in Nat, NEW b \in Nat \ {0}
    PROVE  /\ a \div b \in Nat
           /\ b * (a \div b) <= a
OBVIOUS

LEMMA MulDiv ==
    ASSUME NEW a \in Nat, NEW b \in Nat \ {0}
    PROVE  (a * b) \div b = a
OBVIOUS

\* What is debited is a multiple of the conversion rate: no dust is burned.
LEMMA SentFacts ==
    ASSUME NEW amountLD \in Nat
    PROVE  LET sent == amountSentLD(amountLD)
           IN  /\ sent \in Nat /\ sent \div Rate \in Nat
               /\ Rate * (sent \div Rate) = sent
<1> DEFINE q == amountLD \div Rate
<1>1. Rate \in Nat \ {0} /\ q \in Nat
  BY EvmInputAssumption, DivMod
<1>2. amountSentLD(amountLD) = q * Rate
  BY DEF amountSentLD, removeDust
<1> HIDE DEF q
<1>3. (q * Rate) \div Rate = q /\ q * Rate \in Nat /\ Rate * q = q * Rate
  BY <1>1, MulDiv
<1> QED
  BY <1>1, <1>2, <1>3

-----------------------------------------------------------------------------
(* RateLimiter's slots.                                                    *)

RateLimit(t) == [amountInFlight : Nat, lastUpdated : 0..t, limit : Nat, window : Nat]

\* What is in flight only decays, and never by more than the limit frees: at
\* full windows all of it is gone, between them the truncated share.
LEMMA InFlightFacts ==
    ASSUME NEW t \in Nat, NEW rl \in RateLimit(t)
    PROVE  /\ inFlightAt(rl, t) \in 0..rl.amountInFlight
           /\ rl.amountInFlight <= rl.limit =>
                rl.amountInFlight * rl.window
                  <= rl.limit * (t - rl.lastUpdated) + inFlightAt(rl, t) * rl.window
<1> DEFINE a == rl.amountInFlight
           L == rl.limit
           w == rl.window
           dt == t - rl.lastUpdated
           decay == (L * dt) \div w
           f == inFlightAt(rl, t)
<1>1. a \in Nat /\ L \in Nat /\ w \in Nat /\ dt \in Nat
  BY DEF RateLimit
<1>2. f = IF dt >= w \/ a <= decay THEN 0 ELSE a - decay
  BY DEF inFlightAt
<1>3. w # 0 => decay \in Nat /\ w * decay <= L * dt
  <2>1. L * dt \in Nat
    BY <1>1
  <2> QED
    BY <1>1, <2>1, DivMod
<1>4. L * dt \in Nat
  BY <1>1
<1> SUFFICES f \in 0..a /\ (a <= L => a * w <= L * dt + f * w)
  BY DEF a, L, w, dt, f
<1> HIDE DEF a, L, w, dt, decay, f
<1>5. CASE dt >= w
  <2>1. f = 0
    BY <1>2, <1>5
  <2>2. ASSUME a <= L PROVE a * w <= L * dt
    <3>1. a * w <= L * w
      BY <1>1, <2>2
    <3>2. L * w <= L * dt
      BY <1>1, <1>5
    <3>3. a * w \in Nat /\ L * w \in Nat
      BY <1>1
    <3> QED
      BY <3>1, <3>2, <3>3, <1>4
  <2>3. f * w = 0
    BY <2>1, <1>1
  <2> QED
    BY <2>1, <2>2, <2>3, <1>1, <1>4
<1>6. CASE ~(dt >= w) /\ a <= decay
  <2>1. f = 0 /\ w # 0
    BY <1>1, <1>2, <1>6
  <2>2. a * w <= w * decay
    BY <1>1, <1>3, <1>6, <2>1
  <2>3. f * w = 0 /\ a * w \in Nat /\ w * decay \in Nat
    BY <2>1, <1>1, <1>3
  <2> QED
    BY <1>1, <1>3, <1>4, <2>1, <2>2, <2>3
<1>7. CASE ~(dt >= w) /\ ~(a <= decay)
  <2>1. w # 0
    BY <1>1, <1>7
  <2>2. f = a - decay /\ decay \in Nat /\ decay < a
    BY <1>1, <1>2, <1>3, <1>7, <2>1
  <2>3. a * w = f * w + w * decay
    BY <1>1, <2>2
  <2> QED
    BY <1>1, <1>3, <1>4, <2>1, <2>2, <2>3
<1> QED
  BY <1>5, <1>6, <1>7

\* Charging an amount that is available.
LEMMA OutflowFacts ==
    ASSUME NEW t \in Nat, NEW rl \in RateLimit(t), NEW amount \in Nat
    PROVE  LET after == outflow(rl, amount, t)
           IN  /\ after \in RateLimit(t)
               /\ after.limit = rl.limit /\ after.window = rl.window
               /\ after.lastUpdated = t
               /\ after.amountInFlight = inFlightAt(rl, t) + amount
<1> DEFINE g == inFlightAt(rl, t) + amount
           after == outflow(rl, amount, t)
<1>1. g \in Nat
  BY InFlightFacts DEF RateLimit
<1>2. after = [rl EXCEPT !.amountInFlight = g, !.lastUpdated = t]
  BY DEF outflow
<1> SUFFICES /\ after \in RateLimit(t)
             /\ after.limit = rl.limit /\ after.window = rl.window
             /\ after.lastUpdated = t /\ after.amountInFlight = g
  OBVIOUS
<1> HIDE DEF g, after
<1>3. after = [amountInFlight |-> g, lastUpdated |-> t, limit |-> rl.limit,
               window |-> rl.window]
  BY <1>2 DEF RateLimit
<1>4. rl.limit \in Nat /\ rl.window \in Nat /\ t \in 0..t
  BY DEF RateLimit
<1> QED
  BY <1>1, <1>3, <1>4 DEF RateLimit

\* A slot that is configured again.
LEMMA ReconfiguredFacts ==
    ASSUME NEW t \in Nat, NEW rl \in RateLimit(t), NEW config \in [limit : Nat, window : Nat]
    PROVE  LET after == reconfigured(rl, config, t)
           IN  /\ after \in RateLimit(t)
               /\ after.limit = config.limit /\ after.window = config.window
<1>1. outflow(rl, 0, t) \in RateLimit(t)
  BY OutflowFacts
<1> QED
  BY <1>1 DEF reconfigured, RateLimit

-----------------------------------------------------------------------------
(* Types and the supply.                                                   *)

\* The inductive invariant of the books; TypeOK needs nothing but itself.
IInv == TypeOK /\ SupplyFollowsPackets

Watch(t) == {None} \cup [dir : Directions, eid : Eids, used : Nat, since : 0..t]

\* A batch holds well-formed configurations of eids the owner configures.
LEMMA BatchFacts ==
    ASSUME NEW cfgs \in Batches
    PROVE  /\ DOMAIN cfgs \subseteq ConfigEids
           /\ \A eid \in DOMAIN cfgs : cfgs[eid] \in [limit : Nat, window : Nat]
<1>1. PICK D \in SUBSET ConfigEids : cfgs \in [D -> RateLimitConfig]
  BY DEF Batches
<1>2. \A config \in RateLimitConfig : config \in [limit : Nat, window : Nat]
  BY EvmInputAssumption DEF RateLimitConfig
<1> QED
  BY <1>1, <1>2

\* _setRateLimits leaves well-formed slots.
LEMMA SlotsConfigured ==
    ASSUME TypeOK, now' = now, NEW cfgs,
           \A slot \in DOMAIN cfgs : cfgs[slot] \in [limit : Nat, window : Nat],
           setRateLimits(cfgs)
    PROVE  rateLimits' \in [Slots -> RateLimit(now')]
<1>1. rateLimits \in [Slots -> RateLimit(now)] /\ now \in Nat
  BY DEF TypeOK, RateLimit
<1>2. ASSUME NEW slot \in Slots
      PROVE  (IF slot \in DOMAIN cfgs THEN reconfigured(rateLimits[slot], cfgs[slot], now)
              ELSE rateLimits[slot]) \in RateLimit(now)
  BY <1>1, ReconfiguredFacts
<1> QED
  BY <1>2 DEF setRateLimits

\* The history of a batch stays well-formed.
LEMMA PolicyConfigured ==
    ASSUME TypeOK, now' = now, NEW dir \in Directions, NEW cfgs \in Batches,
           PolicySet(dir, cfgs)
    PROVE  /\ policy' \in [Directions -> [Eids -> [limit : Nat, window : Nat]]]
           /\ watch' \in Watch(now')
<1>1. \A eid \in DOMAIN cfgs : cfgs[eid] \in [limit : Nat, window : Nat]
  BY BatchFacts
<1>2. policy' \in [Directions -> [Eids -> [limit : Nat, window : Nat]]]
  BY <1>1 DEF PolicySet, TypeOK
<1>3. watch' \in Watch(now')
  BY DEF PolicySet, TypeOK, Watch, Watching, Begun
<1> QED
  BY <1>2, <1>3

\* A batch of inbound configurations, by slot.
InboundBatch(cfgs) ==
    [slot \in {inboundSlot(eid) : eid \in DOMAIN cfgs} |->
       cfgs[CHOOSE eid \in DOMAIN cfgs : inboundSlot(eid) = slot]]

\* Every inbound slot gets the configuration of its own eid.
LEMMA InboundBatchFacts ==
    ASSUME NEW cfgs \in Batches
    PROVE  /\ \A slot \in DOMAIN InboundBatch(cfgs) :
                InboundBatch(cfgs)[slot] \in [limit : Nat, window : Nat]
           /\ \A eid \in DOMAIN cfgs :
                /\ inboundSlot(eid) \in DOMAIN InboundBatch(cfgs)
                /\ InboundBatch(cfgs)[inboundSlot(eid)] = cfgs[eid]
<1>1. /\ DOMAIN cfgs \subseteq ConfigEids
      /\ \A eid \in DOMAIN cfgs : cfgs[eid] \in [limit : Nat, window : Nat]
  BY BatchFacts
<1>2. ASSUME NEW a \in DOMAIN cfgs, NEW b \in DOMAIN cfgs, inboundSlot(a) = inboundSlot(b)
      PROVE  a = b
  <2>1. a \in Slots /\ b \in Slots /\ Offset \in Nat /\ U32Max \in Nat
    BY <1>1, EvmInputAssumption
  <2>2. a \in Nat /\ b \in Nat
    BY <2>1 DEF Slots
  <2> QED
    BY <1>2, <2>1, <2>2 DEF inboundSlot
<1>3. ASSUME NEW eid \in DOMAIN cfgs
      PROVE  (CHOOSE e \in DOMAIN cfgs : inboundSlot(e) = inboundSlot(eid)) = eid
  BY <1>2
<1> QED
  BY <1>1, <1>3 DEF InboundBatch

\* The watch counts what moves.
LEMMA MovedFacts ==
    ASSUME TypeOK, now' = now, NEW dir \in Directions, NEW eid \in Eids, NEW amount \in Nat,
           Moved(dir, eid, amount)
    PROVE  watch' \in Watch(now')
<1>1. CASE Watching(dir, eid)
  <2>1. watch \in [dir : Directions, eid : Eids, used : Nat, since : 0..now]
    BY <1>1 DEF TypeOK, Watching
  <2>2. watch' = [watch EXCEPT !.used = watch.used + amount] /\ watch.used + amount \in Nat
    BY <1>1, <2>1 DEF Moved
  <2>3. watch' \in [dir : Directions, eid : Eids, used : Nat, since : 0..now]
    BY <2>1, <2>2
  <2> QED
    BY <2>3 DEF Watch
<1>2. CASE ~Watching(dir, eid)
  BY <1>2 DEF Moved, TypeOK, Watch
<1> QED
  BY <1>1, <1>2

\* Deployment and the two setters.
LEMMA LimitsStep ==
    ASSUME TypeOK, NEW cfgs \in Batches, NEW dir \in Directions, PolicySet(dir, cfgs),
           \/ dir = "out" /\ setRateLimits(cfgs)
           \/ dir = "in" /\ setRateLimits(InboundBatch(cfgs)),
           owner' \in Keys \cup {None}, delegate' \in Keys \cup {None}, configs' \in Nat,
           UNCHANGED <<upgradeable, peers, token, inbox, nonce, outbox, now, book>>
    PROVE  TypeOK'
<1>1. /\ policy' \in [Directions -> [Eids -> [limit : Nat, window : Nat]]]
      /\ watch' \in Watch(now')
  BY PolicyConfigured
<1>2. rateLimits' \in [Slots -> RateLimit(now')]
  BY BatchFacts, InboundBatchFacts, SlotsConfigured
<1> QED
  BY <1>1, <1>2 DEF TypeOK, RateLimit, Watch

LEMMA SendStep ==
    ASSUME IInv, NEW from \in Users, NEW dstEid \in Eids, NEW amountLD \in Amounts,
           NEW minAmountLD \in Amounts, NEW compose \in BOOLEAN,
           Send(from, dstEid, amountLD, minAmountLD, compose)
    PROVE  IInv'
<1> DEFINE sent == amountSentLD(amountLD)
           sd == sent \div Rate
           packet == [dst_eid |-> dstEid, receiver |-> peers[dstEid], amount_sd |-> sd,
                      compose |-> compose]
           rl == outflow(rateLimits[dstEid], sent, now)
<1>1. sent \in Nat /\ sd \in Nat /\ Rate * sd = sent
  <2>1. amountLD \in Nat
    BY EvmInputAssumption
  <2> QED
    BY <2>1, SentFacts
<1>2. /\ peers[dstEid] # None
      /\ rateLimits' = [rateLimits EXCEPT ![dstEid] = rl]
      /\ token.bal[from] >= sent /\ token.supply >= sent
      /\ token' = [token EXCEPT !.bal[from] = @ - sent, !.supply = @ - sent]
      /\ sd <= U64Max
      /\ outbox' = Append(outbox, packet)
      /\ Moved("out", dstEid, sent)
      /\ book' = [book EXCEPT !.sent = @ + sd]
      /\ UNCHANGED <<upgradeable, owner, delegate, peers, inbox, nonce, now, configs, policy>>
  BY DEF Send, CanBurn
<1>3. dstEid \in Slots /\ Rate \in Nat \ {0} /\ U64Max \in Nat
  BY EvmInputAssumption
<1>4. rateLimits' \in [Slots -> RateLimit(now')]
  <2>1. rateLimits \in [Slots -> RateLimit(now)] /\ now \in Nat
    BY DEF IInv, TypeOK, RateLimit
  <2>2. rl \in RateLimit(now)
    BY <1>1, <1>3, <2>1, OutflowFacts
  <2> HIDE DEF rl
  <2> QED
    BY <1>2, <1>3, <2>1, <2>2
<1>5. watch' \in Watch(now')
  BY <1>1, <1>2, MovedFacts DEF IInv, Directions
<1> HIDE DEF sent, sd, rl
<1>6. outbox' \in Seq([dst_eid : Eids, receiver : Addrs, amount_sd : 0..U64Max,
                       compose : BOOLEAN])
  <2>1. packet \in [dst_eid : Eids, receiver : Addrs, amount_sd : 0..U64Max, compose : BOOLEAN]
    BY <1>1, <1>2, <1>3 DEF IInv, TypeOK
  <2> HIDE DEF packet
  <2> QED
    BY <1>2, <2>1 DEF IInv, TypeOK
<1>7. /\ token' \in [supply : Nat, bal : [Users -> Nat], frozen : SUBSET Users,
                     granted : BOOLEAN]
      /\ token'.supply = token.supply - sent
  <2>1. token \in [supply : Nat, bal : [Users -> Nat], frozen : SUBSET Users, granted : BOOLEAN]
    BY DEF IInv, TypeOK
  <2> DEFINE b == [token.bal EXCEPT ![from] = @ - sent]
             n == token.supply - sent
  <2>2. n \in Nat /\ b \in [Users -> Nat]
    BY <1>1, <1>2, <2>1
  <2>3. token' = [token EXCEPT !.bal = b, !.supply = n]
    BY <1>2, <2>1
  <2> HIDE DEF b
  <2> QED
    BY <2>1, <2>2, <2>3
<1>8. /\ book' \in [sent : Nat, received : Nat]
      /\ book'.sent = book.sent + sd /\ book'.received = book.received
  <2>1. book \in [sent : Nat, received : Nat]
    BY DEF IInv, TypeOK
  <2> QED
    BY <1>1, <1>2, <2>1
<1>9. TypeOK'
  BY <1>2, <1>4, <1>5, <1>6, <1>7, <1>8 DEF IInv, TypeOK, RateLimit, Watch
<1>10. SupplyFollowsPackets'
  <2>1. /\ token.supply \in Nat /\ book.sent \in Nat /\ book.received \in Nat
        /\ Supply \in Nat
    BY EvmInputAssumption DEF IInv, TypeOK
  <2>2. Rate * (book.sent + sd) = Rate * book.sent + sent
    BY <1>1, <1>3, <2>1
  <2>3. Rate * book.sent \in Nat /\ Rate * book.received \in Nat
    BY <1>3, <2>1
  <2>4. token.supply + Rate * book.sent = Supply + Rate * book.received
    BY DEF IInv, SupplyFollowsPackets
  <2>5. (token.supply - sent) + (Rate * book.sent + sent) = Supply + Rate * book.received
    BY <1>1, <2>1, <2>3, <2>4
  <2> QED
    BY <1>7, <1>8, <2>2, <2>5 DEF SupplyFollowsPackets
<1> QED
  BY <1>9, <1>10 DEF IInv

\* What a packet in the inbox is.
LEMMA PacketFacts ==
    ASSUME TypeOK, NEW packet \in inbox
    PROVE  /\ packet.src_eid \in Eids /\ packet.to \in Users
           /\ packet.amount_sd \in Nat
           /\ packet.amount_sd * Rate \in Nat
           /\ Rate * packet.amount_sd = packet.amount_sd * Rate
<1>1. /\ packet \in [nonce : 1..nonce, src_eid : Eids, sender : Addrs, to : Users,
                     amount_sd : 0..U64Max, compose : BOOLEAN]
      /\ U64Max \in Nat /\ Rate \in Nat
  BY EvmInputAssumption DEF TypeOK
<1>2. packet.amount_sd \in Nat
  BY <1>1
<1> QED
  BY <1>1, <1>2

LEMMA LzReceiveStep ==
    ASSUME IInv, NEW packet \in inbox, LzReceive(packet)
    PROVE  /\ IInv'
           /\ token'.bal = [token.bal EXCEPT ![packet.to] = @ + packet.amount_sd * Rate]
<1> DEFINE amountLD == packet.amount_sd * Rate
           slot == creditSlot(packet.src_eid)
           rl == outflow(rateLimits[slot], amountLD, now)
<1>1. /\ packet.src_eid \in Eids /\ packet.to \in Users
      /\ packet.amount_sd \in Nat /\ amountLD \in Nat
      /\ Rate * packet.amount_sd = amountLD
  BY PacketFacts DEF IInv
<1>2. /\ \/ slot \in Slots /\ rateLimits' = [rateLimits EXCEPT ![slot] = rl]
         \/ rateLimits' = rateLimits
      /\ Moved("in", packet.src_eid, amountLD)
      /\ token' = [token EXCEPT !.bal[packet.to] = @ + amountLD, !.supply = @ + amountLD]
      /\ inbox' = inbox \ {packet}
      /\ book' = [book EXCEPT !.received = @ + packet.amount_sd]
      /\ UNCHANGED <<upgradeable, owner, delegate, peers, nonce, outbox, now, configs, policy>>
  BY DEF LzReceive
<1>3. Rate \in Nat \ {0}
  BY EvmInputAssumption
<1>4. rateLimits' \in [Slots -> RateLimit(now')]
  <2>1. rateLimits \in [Slots -> RateLimit(now)] /\ now \in Nat
    BY DEF IInv, TypeOK, RateLimit
  <2>2. slot \in Slots => rl \in RateLimit(now)
    BY <1>1, <2>1, OutflowFacts
  <2> HIDE DEF rl, slot
  <2> QED
    BY <1>2, <2>1, <2>2
<1>5. watch' \in Watch(now')
  BY <1>1, <1>2, MovedFacts DEF IInv, Directions
<1> HIDE DEF amountLD, rl, slot
<1>6. /\ token' \in [supply : Nat, bal : [Users -> Nat], frozen : SUBSET Users,
                     granted : BOOLEAN]
      /\ token'.supply = token.supply + amountLD
      /\ token'.bal = [token.bal EXCEPT ![packet.to] = @ + amountLD]
  <2>1. token \in [supply : Nat, bal : [Users -> Nat], frozen : SUBSET Users, granted : BOOLEAN]
    BY DEF IInv, TypeOK
  <2> DEFINE b == [token.bal EXCEPT ![packet.to] = @ + amountLD]
             n == token.supply + amountLD
  <2>2. n \in Nat /\ b \in [Users -> Nat]
    BY <1>1, <2>1
  <2>3. token' = [token EXCEPT !.bal = b, !.supply = n]
    BY <1>2, <2>1
  <2> HIDE DEF b
  <2>4. token'.bal = b
    BY <2>1, <2>2, <2>3
  <2>5. /\ token' \in [supply : Nat, bal : [Users -> Nat], frozen : SUBSET Users,
                       granted : BOOLEAN]
        /\ token'.supply = token.supply + amountLD
    BY <2>1, <2>2, <2>3
  <2> QED
    BY <2>4, <2>5 DEF b
<1>7. /\ book' \in [sent : Nat, received : Nat]
      /\ book'.received = book.received + packet.amount_sd /\ book'.sent = book.sent
  <2>1. book \in [sent : Nat, received : Nat]
    BY DEF IInv, TypeOK
  <2> QED
    BY <1>1, <1>2, <2>1
<1>8. TypeOK'
  BY <1>2, <1>4, <1>5, <1>6, <1>7 DEF IInv, TypeOK, RateLimit, Watch
<1>9. SupplyFollowsPackets'
  <2>1. /\ token.supply \in Nat /\ book.sent \in Nat /\ book.received \in Nat
        /\ Supply \in Nat
    BY EvmInputAssumption DEF IInv, TypeOK
  <2>2. Rate * (book.received + packet.amount_sd) = Rate * book.received + amountLD
    BY <1>1, <1>3, <2>1
  <2>3. Rate * book.sent \in Nat /\ Rate * book.received \in Nat
    BY <1>3, <2>1
  <2>4. token.supply + Rate * book.sent = Supply + Rate * book.received
    BY DEF IInv, SupplyFollowsPackets
  <2>5. (token.supply + amountLD) + Rate * book.sent = Supply + (Rate * book.received + amountLD)
    BY <1>1, <2>1, <2>3, <2>4
  <2> QED
    BY <1>6, <1>7, <2>2, <2>5 DEF SupplyFollowsPackets
<1> QED
  BY <1>6, <1>8, <1>9 DEF IInv, amountLD

\* Steps that touch neither the supply nor the books keep the equation.
LEMMA SupplyKept ==
    ASSUME SupplyFollowsPackets, token'.supply = token.supply, book' = book
    PROVE  SupplyFollowsPackets'
BY DEF SupplyFollowsPackets

LEMMA VerifyStep ==
    ASSUME IInv, NEW src_eid \in Eids, NEW sender \in Addrs, NEW to \in Users,
           NEW amount_sd \in 0..U64Max, NEW compose \in BOOLEAN,
           Verify(src_eid, sender, to, amount_sd, compose)
    PROVE  IInv'
<1> DEFINE Packets(n) == [nonce : 1..n, src_eid : Eids, sender : Addrs, to : Users,
                          amount_sd : 0..U64Max, compose : BOOLEAN]
           packet == [nonce |-> nonce + 1, src_eid |-> src_eid, sender |-> sender,
                      to |-> to, amount_sd |-> amount_sd, compose |-> compose]
<1>1. nonce \in Nat /\ nonce' = nonce + 1 /\ inbox' = inbox \cup {packet}
  BY DEF Verify, IInv, TypeOK
<1>2. packet \in Packets(nonce')
  BY <1>1
<1>3. inbox \subseteq Packets(nonce')
  <2>1. 1..nonce \subseteq 1..nonce'
    BY <1>1
  <2> QED
    BY <2>1 DEF IInv, TypeOK
<1>4. UNCHANGED <<upgradeable, owner, delegate, peers, rateLimits, token, outbox, now, configs,
                  policy, watch, book>>
  BY DEF Verify
<1>5. inbox' \in SUBSET Packets(nonce') /\ nonce' \in Nat
  BY <1>1, <1>2, <1>3
<1>6. TypeOK'
  BY <1>4, <1>5 DEF IInv, TypeOK
<1> QED
  BY <1>4, <1>6, SupplyKept DEF IInv

LEMMA TickStep ==
    ASSUME IInv, Tick
    PROVE  IInv'
<1>1. /\ now' = now + 1 /\ now \in Nat
      /\ UNCHANGED <<upgradeable, owner, delegate, peers, rateLimits, token, inbox, nonce,
                     outbox, configs, policy, watch, book>>
  BY DEF Tick, IInv, TypeOK
<1>2. 0..now \subseteq 0..now'
  BY <1>1
<1>3. rateLimits' \in [Slots -> RateLimit(now')]
  BY <1>1, <1>2 DEF IInv, TypeOK, RateLimit
<1>4. watch' \in Watch(now')
  BY <1>1, <1>2 DEF IInv, TypeOK, Watch
<1>5. TypeOK'
  BY <1>1, <1>3, <1>4 DEF IInv, TypeOK, RateLimit, Watch
<1> QED
  BY <1>1, <1>5, SupplyKept DEF IInv

\* Deployment, administration and the observer.
LEMMA AdminStep ==
    ASSUME IInv,
           \/ \E sender \in Keys, _delegate \in Keys \cup {None}, cfgs \in Batches :
                Construct(sender, _delegate, cfgs)
           \/ \E _delegate, _owner \in Keys \cup {None} : Initialize(_delegate, _owner)
           \/ \E sender \in Keys, cfgs \in Batches :
                SetOutboundRateLimits(sender, cfgs) \/ SetInboundRateLimits(sender, cfgs)
           \/ \E sender \in Keys, eid \in Eids, peer \in Addrs \cup {None} :
                SetPeer(sender, eid, peer)
           \/ \E sender, newOwner \in Keys : TransferOwnership(sender, newOwner)
           \/ ChangeToken
           \/ \E dir \in Directions, eid \in Eids : Observe(dir, eid)
    PROVE  IInv'
<1> USE DEF IInv
<1>0. "out" \in Directions /\ "in" \in Directions
  BY DEF Directions
<1>1. ASSUME NEW sender \in Keys, NEW _delegate \in Keys \cup {None}, NEW cfgs \in Batches,
             Construct(sender, _delegate, cfgs)
      PROVE  IInv'
  <2>1. TypeOK'
    BY <1>0, <1>1, LimitsStep DEF Construct, TypeOK
  <2> QED
    BY <1>1, <2>1, SupplyKept DEF Construct
<1>2. ASSUME NEW _delegate \in Keys \cup {None}, NEW _owner \in Keys \cup {None},
             Initialize(_delegate, _owner)
      PROVE  IInv'
  BY <1>2, SupplyKept DEF Initialize, TypeOK
<1>3. ASSUME NEW sender \in Keys, NEW cfgs \in Batches, SetOutboundRateLimits(sender, cfgs)
      PROVE  IInv'
  <2>1. owner' \in Keys \cup {None} /\ delegate' \in Keys \cup {None} /\ configs' \in Nat
    BY <1>3 DEF SetOutboundRateLimits, Counted, TypeOK
  <2>2. TypeOK'
    BY <1>0, <1>3, <2>1, LimitsStep DEF SetOutboundRateLimits
  <2> QED
    BY <1>3, <2>2, SupplyKept DEF SetOutboundRateLimits
<1>4. ASSUME NEW sender \in Keys, NEW cfgs \in Batches, SetInboundRateLimits(sender, cfgs)
      PROVE  IInv'
  <2>1. owner' \in Keys \cup {None} /\ delegate' \in Keys \cup {None} /\ configs' \in Nat
    BY <1>4 DEF SetInboundRateLimits, Counted, TypeOK
  <2>2. setRateLimits(InboundBatch(cfgs)) /\ PolicySet("in", cfgs)
    BY <1>4 DEF SetInboundRateLimits, InboundBatch
  <2>3. TypeOK'
    BY <1>0, <1>4, <2>1, <2>2, LimitsStep DEF SetInboundRateLimits
  <2> QED
    BY <1>4, <2>3, SupplyKept DEF SetInboundRateLimits
<1>5. ASSUME NEW sender \in Keys, NEW eid \in Eids, NEW peer \in Addrs \cup {None},
             SetPeer(sender, eid, peer)
      PROVE  IInv'
  BY <1>5, SupplyKept DEF SetPeer, Counted, TypeOK
<1>6. ASSUME NEW sender \in Keys, NEW newOwner \in Keys, TransferOwnership(sender, newOwner)
      PROVE  IInv'
  BY <1>6, SupplyKept DEF TransferOwnership, Counted, TypeOK
<1>7. CASE ChangeToken
  <2>1. /\ token' \in [supply : Nat, bal : [Users -> Nat], frozen : SUBSET Users,
                       granted : BOOLEAN]
        /\ token'.supply = token.supply
    <3>1. token \in [supply : Nat, bal : [Users -> Nat], frozen : SUBSET Users,
                     granted : BOOLEAN]
      BY DEF TypeOK
    <3>2. ASSUME NEW user \in Users,
                 token' = [token EXCEPT !.frozen = IF user \in @ THEN @ \ {user} ELSE @ \cup {user}]
          PROVE  <2>1
      <4> DEFINE frozen == IF user \in token.frozen THEN token.frozen \ {user}
                           ELSE token.frozen \cup {user}
      <4>1. token' = [token EXCEPT !.frozen = frozen] /\ frozen \in SUBSET Users
        BY <3>1, <3>2
      <4> HIDE DEF frozen
      <4> QED
        BY <3>1, <4>1
    <3>3. ASSUME token' = [token EXCEPT !.granted = ~@]
          PROVE  <2>1
      <4> DEFINE granted == ~token.granted
      <4>1. token' = [token EXCEPT !.granted = granted] /\ granted \in BOOLEAN
        BY <3>1, <3>3
      <4> HIDE DEF granted
      <4> QED
        BY <3>1, <4>1
    <3> QED
      BY <1>7, <3>2, <3>3 DEF ChangeToken
  <2>2. configs' \in Nat
    BY <1>7 DEF ChangeToken, Counted, TypeOK
  <2>3. TypeOK'
    BY <1>7, <2>1, <2>2 DEF ChangeToken, TypeOK
  <2> QED
    BY <1>7, <2>1, <2>3, SupplyKept DEF ChangeToken
<1>8. ASSUME NEW dir \in Directions, NEW eid \in Eids, Observe(dir, eid)
      PROVE  IInv'
  BY <1>8, SupplyKept DEF Observe, Begun, TypeOK
<1> QED
  BY <1>1, <1>2, <1>3, <1>4, <1>5, <1>6, <1>7, <1>8

LEMMA InitInv == Init => IInv
<1> SUFFICES ASSUME Init PROVE IInv
  OBVIOUS
<1>1. TypeOK
  BY EvmInputAssumption DEF Init, TypeOK, NoLimit
<1>2. SupplyFollowsPackets
  BY EvmInputAssumption DEF Init, SupplyFollowsPackets
<1> QED
  BY <1>1, <1>2 DEF IInv

LEMMA NextInv == IInv /\ [Next]_vars => IInv'
<1> SUFFICES ASSUME IInv, [Next]_vars PROVE IInv'
  OBVIOUS
<1>1. CASE UNCHANGED vars
  BY <1>1 DEF vars, IInv, TypeOK, SupplyFollowsPackets
<1>2. Composes \subseteq BOOLEAN /\ SDs \subseteq 0..U64Max
  BY EvmInputAssumption
<1>3. CASE Next
  BY <1>2, <1>3, AdminStep, SendStep, LzReceiveStep, VerifyStep, TickStep DEF Next, LocalNext
<1> QED
  BY <1>1, <1>3

\* Balances and the supply never go below zero, no slot is ahead of the clock,
\* every amount on the wire is a u64 (_debit, _credit, the setters).
THEOREM EvmTypeOK == Spec => []TypeOK
<1>1. IInv => TypeOK
  BY DEF IInv
<1> QED
  BY <1>1, InitInv, NextInv, PTL DEF Spec

\* The supply is what it was, less what packets carried away, plus what they
\* brought: dust is never burned (_debit, _credit).
THEOREM EvmSupplyFollowsPackets == Spec => []SupplyFollowsPackets
<1>1. IInv => SupplyFollowsPackets
  BY DEF IInv
<1> QED
  BY <1>1, InitInv, NextInv, PTL DEF Spec

-----------------------------------------------------------------------------
(* The flow of a direction, when the slots of the directions do not meet.  *)

LEMMA EidFacts ==
    /\ Offset \in Nat \ {0}
    /\ \A eid \in Eids \cup ConfigEids : eid \in Nat /\ eid \in Slots
BY EvmInputAssumption DEF Slots

\* No two directions or eids share a slot.
LEMMA SlotsApart ==
    ASSUME NoCollision, NEW dir \in Directions, NEW eid \in Eids \cup ConfigEids,
           NEW dir2 \in Directions, NEW eid2 \in Eids \cup ConfigEids,
           slotOf(dir, eid) = slotOf(dir2, eid2)
    PROVE  dir = dir2 /\ eid = eid2
<1>1. CASE dir = "in" /\ dir2 = "in"
  BY <1>1, EidFacts DEF slotOf, inboundSlot
<1>2. CASE dir = "out" /\ dir2 = "out"
  BY <1>2 DEF slotOf
<1>3. CASE dir # dir2
  BY <1>3 DEF slotOf, NoCollision, Directions
<1> QED
  BY <1>1, <1>2, <1>3 DEF Directions

\* A batch configures the slots of its own direction and eids, and no other.
LEMMA BatchSlots ==
    ASSUME NoCollision, TypeOK, NEW cfgs \in Batches, NEW dir \in Directions,
           PolicySet(dir, cfgs),
           \/ dir = "out" /\ setRateLimits(cfgs)
           \/ dir = "in" /\ setRateLimits(InboundBatch(cfgs)),
           NEW d \in Directions, NEW eid \in Eids, slotOf(d, eid) \in Slots
    PROVE  IF d = dir /\ eid \in DOMAIN cfgs
           THEN /\ policy'[d][eid] = cfgs[eid]
                /\ cfgs[eid] \in [limit : Nat, window : Nat]
                /\ rateLimits'[slotOf(d, eid)] =
                     reconfigured(rateLimits[slotOf(d, eid)], cfgs[eid], now)
                /\ rateLimits'[slotOf(d, eid)].limit = cfgs[eid].limit
                /\ rateLimits'[slotOf(d, eid)].window = cfgs[eid].window
           ELSE /\ policy'[d][eid] = policy[d][eid]
                /\ rateLimits'[slotOf(d, eid)] = rateLimits[slotOf(d, eid)]
<1> DEFINE slot == slotOf(d, eid)
<1>1. policy'[d][eid] = IF d = dir /\ eid \in DOMAIN cfgs THEN cfgs[eid] ELSE policy[d][eid]
  BY DEF PolicySet, TypeOK
<1>2. /\ DOMAIN cfgs \subseteq ConfigEids
      /\ \A e \in DOMAIN cfgs : cfgs[e] \in [limit : Nat, window : Nat]
  BY BatchFacts
<1>3. PICK b : /\ setRateLimits(b)
               /\ DOMAIN b = {slotOf(dir, e) : e \in DOMAIN cfgs}
               /\ \A e \in DOMAIN cfgs : b[slotOf(dir, e)] = cfgs[e]
  <2>1. CASE dir = "out" /\ setRateLimits(cfgs)
    <3>1. \A e : slotOf(dir, e) = e
      BY <2>1 DEF slotOf
    <3> QED
      BY <2>1, <3>1
  <2>2. CASE dir = "in" /\ setRateLimits(InboundBatch(cfgs))
    <3>1. \A e : slotOf(dir, e) = inboundSlot(e)
      BY <2>2 DEF slotOf
    <3>2. DOMAIN InboundBatch(cfgs) = {inboundSlot(e) : e \in DOMAIN cfgs}
      BY DEF InboundBatch
    <3>3. \A e \in DOMAIN cfgs : InboundBatch(cfgs)[inboundSlot(e)] = cfgs[e]
      BY InboundBatchFacts
    <3>4. {slotOf(dir, e) : e \in DOMAIN cfgs} = {inboundSlot(e) : e \in DOMAIN cfgs}
      BY <3>1
    <3>5. DOMAIN InboundBatch(cfgs) = {slotOf(dir, e) : e \in DOMAIN cfgs}
      BY <3>2, <3>4
    <3>6. \A e \in DOMAIN cfgs : InboundBatch(cfgs)[slotOf(dir, e)] = cfgs[e]
      BY <3>1, <3>3
    <3>7. setRateLimits(InboundBatch(cfgs))
      BY <2>2
    <3> QED
      BY <3>5, <3>6, <3>7, Zenon
  <2> QED
    BY <2>1, <2>2
<1>4. slot \in DOMAIN b <=> d = dir /\ eid \in DOMAIN cfgs
  BY <1>2, <1>3, SlotsApart
<1>5. rateLimits'[slot] = IF slot \in DOMAIN b
                          THEN reconfigured(rateLimits[slot], b[slot], now)
                          ELSE rateLimits[slot]
  BY <1>3 DEF setRateLimits
<1>6. rateLimits[slot] \in RateLimit(now) /\ now \in Nat
  BY DEF TypeOK, RateLimit
<1>7. CASE d = dir /\ eid \in DOMAIN cfgs
  <2>1. b[slot] = cfgs[eid] /\ cfgs[eid] \in [limit : Nat, window : Nat]
    BY <1>2, <1>3, <1>7
  <2>2. /\ reconfigured(rateLimits[slot], cfgs[eid], now).limit = cfgs[eid].limit
        /\ reconfigured(rateLimits[slot], cfgs[eid], now).window = cfgs[eid].window
    BY <1>6, <2>1, ReconfiguredFacts
  <2> QED
    BY <1>1, <1>4, <1>5, <1>7, <2>1, <2>2
<1>8. CASE ~(d = dir /\ eid \in DOMAIN cfgs)
  BY <1>1, <1>4, <1>5, <1>8
<1> QED
  BY <1>7, <1>8

\* What was freed before and what is freed now add up.
LEMMA FlowArithmetic ==
    ASSUME NEW used \in Nat, NEW w \in Nat, NEW L \in Nat, NEW a \in Nat, NEW f \in Nat,
           NEW amount \in Nat, NEW since \in Nat, NEW u \in Nat, NEW t \in Nat,
           since <= u, u <= t,
           used * w <= L * (u - since) + a * w,
           a * w <= L * (t - u) + f * w
    PROVE  (used + amount) * w <= L * (t - since) + (f + amount) * w
<1>1. L * (t - since) = L * (t - u) + L * (u - since)
  OBVIOUS
<1>2. (used + amount) * w = used * w + amount * w /\ (f + amount) * w = f * w + amount * w
  OBVIOUS
<1>3. /\ used * w \in Nat /\ amount * w \in Nat /\ f * w \in Nat /\ a * w \in Nat
      /\ L * (t - u) \in Nat /\ L * (u - since) \in Nat
  OBVIOUS
<1> QED
  BY <1>1, <1>2, <1>3

\* Traffic that is charged to its slot keeps the invariant of the flow.
LEMMA ChargedFlow ==
    ASSUME NoCollision, TypeOK, FlowInv, NEW dir \in Directions, NEW eid \in Eids,
           NEW amount \in Nat, slotOf(dir, eid) \in Slots,
           amount <= amountCanBeSent(rateLimits[slotOf(dir, eid)], now),
           rateLimits' = [rateLimits EXCEPT ![slotOf(dir, eid)] =
                            outflow(rateLimits[slotOf(dir, eid)], amount, now)],
           Moved(dir, eid, amount), UNCHANGED <<upgradeable, policy, now>>
    PROVE  FlowInv'
<1> DEFINE slot == slotOf(dir, eid)
           rl == rateLimits[slot]
           f == inFlightAt(rl, now)
           after == outflow(rl, amount, now)
<1>1. rl \in RateLimit(now) /\ now \in Nat
  BY DEF TypeOK, RateLimit
<1>2. /\ f \in 0..rl.amountInFlight
      /\ rl.amountInFlight <= rl.limit =>
           rl.amountInFlight * rl.window <= rl.limit * (now - rl.lastUpdated) + f * rl.window
  BY <1>1, InFlightFacts
<1>3. /\ after.limit = rl.limit /\ after.window = rl.window
      /\ after.lastUpdated = now /\ after.amountInFlight = f + amount
  BY <1>1, OutflowFacts
<1>4. /\ rl.amountInFlight \in Nat /\ rl.limit \in Nat /\ rl.window \in Nat
      /\ rl.lastUpdated \in Nat /\ rl.lastUpdated <= now
  BY <1>1 DEF RateLimit
<1>5. amount > 0 => f + amount <= rl.limit
  BY <1>2, <1>4 DEF amountCanBeSent
<1>6. /\ rateLimits'[slot] = after
      /\ \A s \in Slots \ {slot} : rateLimits'[s] = rateLimits[s]
  BY DEF TypeOK
<1> HIDE DEF f, after, rl
<1>7. SlotsFollowPolicy'
  <2> SUFFICES ASSUME NEW d \in Directions, NEW e \in Eids, slotOf(d, e) \in Slots
               PROVE  /\ rateLimits'[slotOf(d, e)].limit = policy[d][e].limit
                      /\ rateLimits'[slotOf(d, e)].window = policy[d][e].window
    BY DEF SlotsFollowPolicy, slotOf, inboundSlot
  <2>1. /\ rateLimits[slotOf(d, e)].limit = policy[d][e].limit
        /\ rateLimits[slotOf(d, e)].window = policy[d][e].window
    BY DEF FlowInv, SlotsFollowPolicy
  <2> QED
    BY <1>3, <1>6, <2>1 DEF rl
<1>8. WatchedIsInSlot'
  <2> SUFFICES ASSUME watch' # None, watch'.dir \in LimitedDirections, watch'.used > 0
               PROVE  LET s == slotOf(watch'.dir, watch'.eid)
                          r == rateLimits'[s]
                      IN  /\ s \in Slots
                          /\ watch'.since <= r.lastUpdated
                          /\ r.amountInFlight <= r.limit
                          /\ watch'.used * r.window
                               <= r.limit * (r.lastUpdated - watch'.since)
                                  + r.amountInFlight * r.window
    BY DEF WatchedIsInSlot, LimitedDirections, slotOf, inboundSlot
  <2>1. CASE Watching(dir, eid)
    <3>1. /\ watch \in [dir : Directions, eid : Eids, used : Nat, since : 0..now]
          /\ watch # None /\ watch.dir = dir /\ watch.eid = eid
      BY <2>1 DEF Watching, TypeOK
    <3>2. watch' = [watch EXCEPT !.used = watch.used + amount]
      BY <2>1 DEF Moved
    <3>3. /\ watch'.dir = dir /\ watch'.eid = eid /\ watch'.since = watch.since
          /\ watch'.used = watch.used + amount
      BY <3>1, <3>2
    <3>4. watch.used \in Nat /\ watch.since \in Nat /\ watch.since <= now
      BY <1>1, <3>1
    <3>5. watch.used > 0 => /\ watch.since <= rl.lastUpdated
                            /\ rl.amountInFlight <= rl.limit
                            /\ watch.used * rl.window
                                 <= rl.limit * (rl.lastUpdated - watch.since)
                                    + rl.amountInFlight * rl.window
      BY <3>1, <3>3 DEF FlowInv, WatchedIsInSlot, rl
    <3>6. f \in Nat /\ f <= rl.amountInFlight
      BY <1>2, <1>4
    <3>7. f + amount <= rl.limit
      <4>1. CASE amount > 0
        BY <1>5, <4>1
      <4>2. CASE amount = 0
        <5>1. watch.used > 0
          BY <3>3, <3>4, <4>2
        <5> QED
          BY <1>4, <3>5, <3>6, <4>2, <5>1
      <4> QED
        BY <4>1, <4>2
    <3>8. (watch.used + amount) * rl.window
            <= rl.limit * (now - watch.since) + (f + amount) * rl.window
      <4>1. CASE watch.used > 0
        BY <1>1, <1>2, <1>4, <3>4, <3>5, <3>6, <4>1, FlowArithmetic
      <4>2. CASE watch.used = 0
        <5>1. /\ (watch.used + amount) * rl.window = amount * rl.window
              /\ (f + amount) * rl.window = f * rl.window + amount * rl.window
          BY <1>4, <3>6, <4>2
        <5>2. /\ rl.limit * (now - watch.since) \in Nat /\ f * rl.window \in Nat
              /\ amount * rl.window \in Nat
          BY <1>1, <1>4, <3>4, <3>6
        <5> QED
          BY <5>1, <5>2
      <4> QED
        BY <3>4, <4>1, <4>2
    <3> QED
      BY <1>3, <1>6, <3>3, <3>4, <3>7, <3>8
  <2>2. CASE ~Watching(dir, eid)
    <3>1. watch' = watch
      BY <2>2 DEF Moved
    <3>2. watch \in [dir : Directions, eid : Eids, used : Nat, since : 0..now]
      BY <3>1 DEF TypeOK
    <3>3. slotOf(watch.dir, watch.eid) \in Slots
      BY <3>1 DEF FlowInv, WatchedIsInSlot
    <3>4. slotOf(watch.dir, watch.eid) # slot
      BY <2>2, <3>1, <3>2, SlotsApart DEF Watching
    <3>5. rateLimits'[slotOf(watch.dir, watch.eid)] = rateLimits[slotOf(watch.dir, watch.eid)]
      BY <1>6, <3>3, <3>4
    <3> QED
      BY <3>1, <3>5 DEF FlowInv, WatchedIsInSlot
  <2> QED
    BY <2>1, <2>2
<1> QED
  BY <1>7, <1>8 DEF FlowInv

\* A batch keeps the invariant of the flow: its own observer starts again.
LEMMA BatchFlow ==
    ASSUME NoCollision, TypeOK, FlowInv, NEW cfgs \in Batches, NEW dir \in Directions,
           PolicySet(dir, cfgs),
           \/ dir = "out" /\ setRateLimits(cfgs)
           \/ dir = "in" /\ setRateLimits(InboundBatch(cfgs)),
           UNCHANGED <<upgradeable, now>>
    PROVE  FlowInv'
<1>1. SlotsFollowPolicy'
  <2> SUFFICES ASSUME NEW d \in Directions, NEW e \in Eids, slotOf(d, e) \in Slots
               PROVE  /\ rateLimits'[slotOf(d, e)].limit = policy'[d][e].limit
                      /\ rateLimits'[slotOf(d, e)].window = policy'[d][e].window
    BY DEF SlotsFollowPolicy, slotOf, inboundSlot
  <2>1. /\ rateLimits[slotOf(d, e)].limit = policy[d][e].limit
        /\ rateLimits[slotOf(d, e)].window = policy[d][e].window
    BY DEF FlowInv, SlotsFollowPolicy
  <2> QED
    BY <2>1, BatchSlots
<1>2. WatchedIsInSlot'
  <2> SUFFICES ASSUME watch' # None, watch'.dir \in LimitedDirections, watch'.used > 0
               PROVE  LET s == slotOf(watch'.dir, watch'.eid)
                          r == rateLimits'[s]
                      IN  /\ s \in Slots
                          /\ watch'.since <= r.lastUpdated
                          /\ r.amountInFlight <= r.limit
                          /\ watch'.used * r.window
                               <= r.limit * (r.lastUpdated - watch'.since)
                                  + r.amountInFlight * r.window
    BY DEF WatchedIsInSlot, LimitedDirections, slotOf, inboundSlot
  <2>1. /\ watch' = watch
        /\ \A e \in DOMAIN cfgs : ~Watching(dir, e)
    BY DEF PolicySet, Begun
  <2>2. watch \in [dir : Directions, eid : Eids, used : Nat, since : 0..now]
    BY <2>1 DEF TypeOK
  <2>3. slotOf(watch.dir, watch.eid) \in Slots
    BY <2>1 DEF FlowInv, WatchedIsInSlot
  <2>4. ~(watch.dir = dir /\ watch.eid \in DOMAIN cfgs)
    BY <2>1 DEF Watching
  <2>5. rateLimits'[slotOf(watch.dir, watch.eid)] = rateLimits[slotOf(watch.dir, watch.eid)]
    BY <2>2, <2>3, <2>4, BatchSlots
  <2> QED
    BY <2>1, <2>5 DEF FlowInv, WatchedIsInSlot
<1> QED
  BY <1>1, <1>2 DEF FlowInv

\* Steps that leave the slots, the policies and the watch alone.
LEMMA FlowKept ==
    ASSUME FlowInv, UNCHANGED <<upgradeable, rateLimits, policy>>,
           watch' = watch \/ (watch' # None => watch'.used = 0)
                          \/ watch'.dir \notin LimitedDirections
    PROVE  FlowInv'
<1>1. SlotsFollowPolicy'
  BY DEF FlowInv, SlotsFollowPolicy, slotOf, inboundSlot
<1>2. WatchedIsInSlot'
  BY DEF FlowInv, WatchedIsInSlot, LimitedDirections, slotOf, inboundSlot
<1> QED
  BY <1>1, <1>2 DEF FlowInv

LEMMA FlowStep ==
    ASSUME NoCollision, IInv, FlowInv, [Next]_vars
    PROVE  FlowInv'
<1>t. TypeOK /\ "out" \in Directions /\ "in" \in Directions
  BY DEF IInv, Directions
<1>1. ASSUME NEW sender \in Keys, NEW _delegate \in Keys \cup {None}, NEW cfgs \in Batches,
             Construct(sender, _delegate, cfgs)
      PROVE  FlowInv'
  BY <1>t, <1>1, BatchFlow DEF Construct
<1>2. ASSUME NEW sender \in Keys, NEW cfgs \in Batches, SetOutboundRateLimits(sender, cfgs)
      PROVE  FlowInv'
  BY <1>t, <1>2, BatchFlow DEF SetOutboundRateLimits
<1>3. ASSUME NEW sender \in Keys, NEW cfgs \in Batches, SetInboundRateLimits(sender, cfgs)
      PROVE  FlowInv'
  <2>1. setRateLimits(InboundBatch(cfgs)) /\ PolicySet("in", cfgs)
    BY <1>3 DEF SetInboundRateLimits, InboundBatch
  <2> QED
    BY <1>t, <1>3, <2>1, BatchFlow DEF SetInboundRateLimits
<1>4. ASSUME NEW from \in Users, NEW dstEid \in Eids, NEW amountLD \in Amounts,
             NEW minAmountLD \in Amounts, NEW compose \in Composes,
             Send(from, dstEid, amountLD, minAmountLD, compose)
      PROVE  FlowInv'
  <2>1. amountSentLD(amountLD) \in Nat
    BY EvmInputAssumption, SentFacts
  <2>2. slotOf("out", dstEid) = dstEid /\ dstEid \in Slots
    BY EidFacts DEF slotOf
  <2> HIDE DEF amountSentLD
  <2> QED
    BY <1>t, <1>4, <2>1, <2>2, ChargedFlow DEF Send
<1>5. ASSUME NEW packet \in inbox, LzReceive(packet)
      PROVE  FlowInv'
  <2> DEFINE eid == packet.src_eid
             amountLD == packet.amount_sd * Rate
  <2>1. eid \in Eids /\ amountLD \in Nat
    BY <1>t, PacketFacts
  <2>2. creditSlot(eid) = slotOf("in", eid)
    BY DEF creditSlot, slotOf
  <2>3. Moved("in", eid, amountLD) /\ UNCHANGED <<upgradeable, policy, now>>
    BY <1>5 DEF LzReceive
  <2>4. CASE chargesInbound
    <3>1. /\ slotOf("in", eid) \in Slots
          /\ amountLD <= amountCanBeSent(rateLimits[slotOf("in", eid)], now)
          /\ rateLimits' = [rateLimits EXCEPT ![slotOf("in", eid)] =
                               outflow(rateLimits[slotOf("in", eid)], amountLD, now)]
      BY <1>5, <2>2, <2>4 DEF LzReceive
    <3> HIDE DEF amountLD, eid
    <3> QED
      BY <1>t, <2>1, <2>3, <3>1, ChargedFlow
  <2>5. CASE ~chargesInbound
    <3>1. rateLimits' = rateLimits /\ ~upgradeable
      BY <1>5, <2>5 DEF LzReceive, chargesInbound
    <3>2. watch' = watch \/ watch'.dir = "in"
      <4>1. Watching("in", eid) => watch \in [dir : Directions, eid : Eids, used : Nat, since : 0..now]
        BY <1>t DEF TypeOK, Watching
      <4> QED
        BY <2>3, <4>1 DEF Moved, Watching
    <3>3. "in" \notin LimitedDirections
      BY <3>1 DEF LimitedDirections
    <3> QED
      BY <2>3, <3>1, <3>2, <3>3, FlowKept
  <2> QED
    BY <2>4, <2>5
<1>6. ASSUME NEW dir \in Directions, NEW eid \in Eids, Observe(dir, eid)
      PROVE  FlowInv'
  BY <1>6, FlowKept DEF Observe, Begun
<1>7. CASE \/ \E _delegate, _owner \in Keys \cup {None} : Initialize(_delegate, _owner)
           \/ \E sender \in Keys, eid \in Eids, peer \in Addrs \cup {None} :
                SetPeer(sender, eid, peer)
           \/ \E sender, newOwner \in Keys : TransferOwnership(sender, newOwner)
           \/ ChangeToken
           \/ Tick
           \/ \E src_eid \in Eids, sender \in Addrs, to \in Users, amount_sd \in SDs,
                 compose \in Composes :
                Verify(src_eid, sender, to, amount_sd, compose)
           \/ UNCHANGED vars
  <2>1. UNCHANGED <<upgradeable, rateLimits, policy, watch>>
    BY <1>7 DEF Initialize, SetPeer, TransferOwnership, ChangeToken, Tick, Verify, vars
  <2> QED
    BY <2>1, FlowKept
<1> QED
  BY <1>1, <1>2, <1>3, <1>4, <1>5, <1>6, <1>7 DEF Next, LocalNext

\* When the slots do not meet, every slot follows the policy of its own
\* direction and everything that moved is accounted for in it.
THEOREM EvmFlowInv ==
    ASSUME NoCollision
    PROVE  Spec => []FlowInv
<1>1. Init => FlowInv
  <2> SUFFICES ASSUME Init PROVE FlowInv
    OBVIOUS
  <2>1. SlotsFollowPolicy
    BY DEF Init, SlotsFollowPolicy, NoLimit
  <2>2. WatchedIsInSlot
    BY DEF Init, WatchedIsInSlot
  <2> QED
    BY <2>1, <2>2 DEF FlowInv
<1>2. IInv /\ FlowInv /\ [Next]_vars => FlowInv'
  BY FlowStep
<1> QED
  BY <1>1, <1>2, InitInv, NextInv, PTL DEF Spec

\* When the slots do not meet, a limited direction of an eid never moves more
\* than its limit plus what the limit frees in the time that passed, however
\* sends, receipts, idle time and the two setters interleave.
THEOREM EvmFlowBounded ==
    ASSUME NoCollision
    PROVE  Spec => []PolicyBoundsFlow
<1>1. IInv /\ FlowInv => PolicyBoundsFlow
  <2> SUFFICES ASSUME IInv, FlowInv, watch # None, watch.dir \in LimitedDirections
               PROVE  LET p == policy[watch.dir][watch.eid]
                      IN  watch.used * p.window <= p.limit * (p.window + now - watch.since)
    BY DEF PolicyBoundsFlow
  <2> DEFINE p == policy[watch.dir][watch.eid]
             s == slotOf(watch.dir, watch.eid)
             rl == rateLimits[s]
             L == p.limit
             w == p.window
  <2>1. /\ watch \in [dir : Directions, eid : Eids, used : Nat, since : 0..now]
        /\ now \in Nat
    BY DEF IInv, TypeOK
  <2>2. /\ L \in Nat /\ w \in Nat /\ watch.used \in Nat /\ watch.since \in Nat
        /\ watch.since <= now
    BY <2>1 DEF IInv, TypeOK
  <2>3. L * (w + now - watch.since) = L * w + L * (now - watch.since)
    BY <2>1, <2>2
  <2>4. L * w \in Nat /\ L * (now - watch.since) \in Nat
    BY <2>1, <2>2
  <2>5. CASE watch.used = 0
    <3>1. watch.used * w = 0
      BY <2>2, <2>5
    <3> QED
      BY <2>3, <2>4, <3>1
  <2>6. CASE watch.used # 0
    <3>1. watch.used > 0
      BY <2>2, <2>6
    <3>2. /\ s \in Slots
          /\ watch.since <= rl.lastUpdated
          /\ rl.amountInFlight <= rl.limit
          /\ watch.used * rl.window
               <= rl.limit * (rl.lastUpdated - watch.since) + rl.amountInFlight * rl.window
      BY <3>1 DEF FlowInv, WatchedIsInSlot
    <3>3. rl.limit = L /\ rl.window = w
      BY <2>1, <3>2 DEF FlowInv, SlotsFollowPolicy
    <3>4. rl.amountInFlight \in Nat /\ rl.lastUpdated \in Nat /\ rl.lastUpdated <= now
      BY <3>2, <2>1 DEF IInv, TypeOK
    <3> DEFINE a == rl.amountInFlight
               u == rl.lastUpdated
               since == watch.since
               used == watch.used
    <3>5. used * w <= L * (u - since) + a * w
      BY <3>2, <3>3
    <3> HIDE DEF L, w, a, u, since, used, rl, s
    <3>6. a * w <= L * w /\ L * (u - since) <= L * (now - since)
      BY <2>1, <2>2, <3>2, <3>3, <3>4 DEF a, u, since
    <3>7. a * w \in Nat /\ L * (u - since) \in Nat /\ used * w \in Nat
      BY <2>1, <2>2, <3>2, <3>4 DEF a, u, since, used
    <3>8. used * w <= L * w + L * (now - since)
      BY <2>4, <3>5, <3>6, <3>7 DEF since
    <3> QED
      BY <2>3, <3>8 DEF used, since, L, w
  <2> QED
    BY <2>5, <2>6
<1> QED
  BY <1>1, EvmFlowInv, InitInv, NextInv, PTL DEF Spec

-----------------------------------------------------------------------------
(* What a step may not do.                                                 *)

\* Configuring a slot again with what it had changes nothing that is available:
\* the settlement frees what the passage of time already had.
LEMMA SettledAvailable ==
    ASSUME NEW t \in Nat, NEW rl \in RateLimit(t), NEW config \in [limit : Nat, window : Nat],
           config.limit = rl.limit, config.window = rl.window
    PROVE  amountCanBeSent(reconfigured(rl, config, t), t) = amountCanBeSent(rl, t)
<1> DEFINE f == inFlightAt(rl, t)
           settled == outflow(rl, 0, t)
           after == reconfigured(rl, config, t)
           L == rl.limit
           w == rl.window
<1>1. f \in Nat /\ L \in Nat /\ w \in Nat
  BY InFlightFacts DEF RateLimit
<1>2. /\ settled \in RateLimit(t) /\ settled.lastUpdated = t /\ settled.amountInFlight = f + 0
  BY OutflowFacts
<1>3. after = [settled EXCEPT !.limit = config.limit, !.window = config.window]
  BY DEF reconfigured
<1> HIDE DEF settled, after, f
<1>4. /\ after.limit = L /\ after.window = w
      /\ after.lastUpdated = t /\ after.amountInFlight = f
  BY <1>1, <1>2, <1>3 DEF RateLimit
<1>5. w = 0 => f = 0
  BY DEF inFlightAt, f, RateLimit
<1>6. w # 0 => (L * (t - t)) \div w = 0
  <2>1. L * (t - t) = 0
    BY <1>1
  <2>2. w # 0 => 0 \div w = 0
    BY <1>1
  <2> QED
    BY <2>1, <2>2
<1>7. inFlightAt(after, t) = f
  <2>1. CASE w = 0
    BY <1>1, <1>4, <1>5, <2>1 DEF inFlightAt
  <2>2. CASE w # 0
    <3>1. ~(t - t >= w)
      BY <1>1, <2>2
    <3> DEFINE decay == (L * (t - t)) \div w
    <3>2. inFlightAt(after, t) = IF t - t >= w \/ f <= decay THEN 0 ELSE f - decay
      BY <1>4 DEF inFlightAt
    <3>3. decay = 0
      BY <1>6, <2>2
    <3> HIDE DEF decay
    <3> QED
      BY <1>1, <3>1, <3>2, <3>3
  <2> QED
    BY <2>1, <2>2
<1> QED
  BY <1>4, <1>7 DEF amountCanBeSent, f, after

\* A batch of one direction leaves available what its setter did not change.
LEMMA BatchIndependent ==
    ASSUME NoCollision, TypeOK, FlowInv, NEW cfgs \in Batches, NEW dir \in Directions,
           PolicySet(dir, cfgs),
           \/ dir = "out" /\ setRateLimits(cfgs)
           \/ dir = "in" /\ setRateLimits(InboundBatch(cfgs)),
           now' = now, NEW d \in Directions, NEW eid \in Eids, slotOf(d, eid) \in Slots,
           policy'[d][eid] = policy[d][eid]
    PROVE  available(d, eid)' = available(d, eid)
<1> DEFINE slot == slotOf(d, eid)
           rl == rateLimits[slot]
<1>1. rl \in RateLimit(now) /\ now \in Nat
  BY DEF TypeOK, RateLimit
<1>2. available(d, eid)' = amountCanBeSent(rateLimits'[slot], now)
  BY DEF available, slotOf, inboundSlot
<1>3. available(d, eid) = amountCanBeSent(rl, now)
  BY DEF available
<1>4. CASE d = dir /\ eid \in DOMAIN cfgs
  <2>1. /\ policy'[d][eid] = cfgs[eid]
        /\ cfgs[eid] \in [limit : Nat, window : Nat]
        /\ rateLimits'[slot] = reconfigured(rl, cfgs[eid], now)
    BY <1>4, BatchSlots
  <2>2. cfgs[eid].limit = rl.limit /\ cfgs[eid].window = rl.window
    BY <2>1 DEF FlowInv, SlotsFollowPolicy
  <2>3. amountCanBeSent(reconfigured(rl, cfgs[eid], now), now) = amountCanBeSent(rl, now)
    BY <1>1, <2>1, <2>2, SettledAvailable
  <2> QED
    BY <1>2, <1>3, <2>1, <2>3
<1>5. CASE ~(d = dir /\ eid \in DOMAIN cfgs)
  <2>1. rateLimits'[slot] = rl
    BY <1>5, BatchSlots
  <2> QED
    BY <1>2, <1>3, <2>1
<1> QED
  BY <1>4, <1>5

\* Traffic charged to another slot leaves a slot alone.
LEMMA TrafficIndependent ==
    ASSUME NoCollision, TypeOK, NEW dir \in Directions, NEW eid \in Eids, NEW rl,
           rateLimits' = [rateLimits EXCEPT ![slotOf(dir, eid)] = rl], now' = now,
           NEW d \in Directions, NEW e \in Eids, slotOf(d, e) \in Slots,
           ~(d = dir /\ e = eid)
    PROVE  available(d, e)' = available(d, e)
<1>1. slotOf(d, e) # slotOf(dir, eid)
  BY SlotsApart
<1>2. rateLimits'[slotOf(d, e)] = rateLimits[slotOf(d, e)]
  BY <1>1 DEF TypeOK
<1> QED
  BY <1>2 DEF available, slotOf, inboundSlot

\* When the slots do not meet and every inbound slot is a u32, neither the other
\* direction nor another eid changes what a direction of an eid may still move.
THEOREM EvmDirectionsIndependent ==
    ASSUME NoCollision, \A eid \in Eids : inboundSlot(eid) \in Slots
    PROVE  Spec => DirectionsIndependent
<1> DEFINE Independent ==
             \A dir \in LimitedDirections, eid \in Eids :
               (/\ now' = now
                /\ policy'[dir][eid] = policy[dir][eid]
                /\ ~Traffic(dir, eid))
                 => available(dir, eid)' = available(dir, eid)
<1>1. IInv /\ FlowInv /\ [Next]_vars => [Independent]_vars
  <2> SUFFICES ASSUME IInv, FlowInv, Next, NEW d \in LimitedDirections, NEW e \in Eids,
                      now' = now, policy'[d][e] = policy[d][e], ~Traffic(d, e)
               PROVE  available(d, e)' = available(d, e)
    OBVIOUS
  <2>t. TypeOK /\ "out" \in Directions /\ "in" \in Directions
    BY DEF IInv, Directions
  <2>d. d \in Directions
    BY DEF LimitedDirections, Directions
  <2>s. slotOf(d, e) \in Slots
    BY EidFacts DEF slotOf
  <2>1. ASSUME NEW sender \in Keys, NEW _delegate \in Keys \cup {None}, NEW cfgs \in Batches,
               Construct(sender, _delegate, cfgs)
        PROVE  available(d, e)' = available(d, e)
    BY <2>t, <2>d, <2>s, <2>1, BatchIndependent DEF Construct
  <2>2. ASSUME NEW sender \in Keys, NEW cfgs \in Batches, SetOutboundRateLimits(sender, cfgs)
        PROVE  available(d, e)' = available(d, e)
    BY <2>t, <2>d, <2>s, <2>2, BatchIndependent DEF SetOutboundRateLimits
  <2>3. ASSUME NEW sender \in Keys, NEW cfgs \in Batches, SetInboundRateLimits(sender, cfgs)
        PROVE  available(d, e)' = available(d, e)
    <3>1. setRateLimits(InboundBatch(cfgs)) /\ PolicySet("in", cfgs)
      BY <2>3 DEF SetInboundRateLimits, InboundBatch
    <3> QED
      BY <2>t, <2>d, <2>s, <3>1, BatchIndependent
  <2>4. ASSUME NEW from \in Users, NEW dstEid \in Eids, NEW amountLD \in Amounts,
               NEW minAmountLD \in Amounts, NEW compose \in Composes,
               Send(from, dstEid, amountLD, minAmountLD, compose)
        PROVE  available(d, e)' = available(d, e)
    <3> DEFINE packet == [dst_eid |-> dstEid, receiver |-> peers[dstEid],
                          amount_sd |-> amountSentLD(amountLD) \div Rate, compose |-> compose]
    <3>1. outbox' = Append(outbox, packet)
      BY <2>4 DEF Send
    <3>2. packet.dst_eid = dstEid
      OBVIOUS
    <3> HIDE DEF packet
    <3> DEFINE Packets == [dst_eid : Eids, receiver : Addrs, amount_sd : 0..U64Max,
                           compose : BOOLEAN]
    <3>p. outbox \in Seq(Packets) /\ outbox' \in Seq(Packets)
      <4>1. IInv'
        BY NextInv
      <4> QED
        BY <4>1 DEF IInv, TypeOK
    <3> HIDE DEF Packets
    <3>3. /\ Len(outbox') = Len(outbox) + 1 /\ outbox'[Len(outbox')] = packet
          /\ Len(outbox) \in Nat
      BY <3>p, <3>1
    <3>4. Traffic("out", dstEid)
      BY <3>2, <3>3 DEF Traffic
    <3>5. ~(d = "out" /\ e = dstEid)
      BY <3>4
    <3>6. slotOf("out", dstEid) = dstEid
      BY DEF slotOf
    <3>7. rateLimits' = [rateLimits EXCEPT ![slotOf("out", dstEid)] =
                           outflow(rateLimits[dstEid], amountSentLD(amountLD), now)]
      BY <2>4, <3>6 DEF Send
    <3> QED
      BY <2>t, <2>d, <2>s, <3>5, <3>7, TrafficIndependent
  <2>5. ASSUME NEW packet \in inbox, LzReceive(packet)
        PROVE  available(d, e)' = available(d, e)
    <3>1. packet.src_eid \in Eids
      BY <2>t, PacketFacts
    <3>2. inbox' = inbox \ {packet}
      BY <2>5 DEF LzReceive
    <3>3. Traffic("in", packet.src_eid)
      BY <3>2 DEF Traffic
    <3>4. ~(d = "in" /\ e = packet.src_eid)
      BY <3>3
    <3>5. CASE rateLimits' = rateLimits
      BY <3>5 DEF available, slotOf, inboundSlot
    <3>6. CASE rateLimits' # rateLimits
      <4>1. PICK rl : rateLimits' = [rateLimits EXCEPT ![slotOf("in", packet.src_eid)] = rl]
        <5>1. slotOf("in", packet.src_eid) = creditSlot(packet.src_eid)
          BY DEF slotOf, creditSlot
        <5> QED
          BY <2>5, <3>6, <5>1 DEF LzReceive
      <4> QED
        BY <2>t, <2>d, <2>s, <3>1, <3>4, <4>1, TrafficIndependent
    <3> QED
      BY <3>5, <3>6
  <2>6. CASE rateLimits' = rateLimits
    BY <2>6 DEF available, slotOf, inboundSlot
  <2>7. CASE \/ \E _delegate, _owner \in Keys \cup {None} : Initialize(_delegate, _owner)
             \/ \E sender \in Keys, eid \in Eids, peer \in Addrs \cup {None} :
                  SetPeer(sender, eid, peer)
             \/ \E sender, newOwner \in Keys : TransferOwnership(sender, newOwner)
             \/ ChangeToken
             \/ Tick
             \/ \E src_eid \in Eids, sender \in Addrs, to \in Users, amount_sd \in SDs,
                   compose \in Composes :
                  Verify(src_eid, sender, to, amount_sd, compose)
             \/ \E dir \in Directions, eid \in Eids : Observe(dir, eid)
    BY <2>6, <2>7 DEF Initialize, SetPeer, TransferOwnership, ChangeToken, Tick, Verify, Observe
  <2> QED
    BY <2>1, <2>2, <2>3, <2>4, <2>5, <2>7 DEF Next, LocalNext
<1>2. DirectionsIndependent <=> [][Independent]_vars
  BY DEF DirectionsIndependent
<1> HIDE DEF Independent
<1> QED
  BY <1>1, <1>2, EvmFlowInv, InitInv, NextInv, PTL DEF Spec

\* A slot that keeps what it is charged, charged with an amount it admits.
LEMMA ChargedAvailable ==
    ASSUME NEW t \in Nat, NEW rl \in RateLimit(t), NEW amount \in Nat,
           rl.window > 0, amount <= amountCanBeSent(rl, t)
    PROVE  amountCanBeSent(outflow(rl, amount, t), t) = amountCanBeSent(rl, t) - amount
<1> DEFINE f == inFlightAt(rl, t)
           after == outflow(rl, amount, t)
           L == rl.limit
           w == rl.window
           decay == (L * (t - t)) \div w
<1>1. f \in Nat /\ L \in Nat /\ w \in Nat /\ w > 0
  BY InFlightFacts DEF RateLimit
<1>2. /\ after.limit = L /\ after.window = w
      /\ after.lastUpdated = t /\ after.amountInFlight = f + amount
  BY OutflowFacts
<1>3. /\ amountCanBeSent(rl, t) = IF L <= f THEN 0 ELSE L - f
      /\ amountCanBeSent(after, t) =
           IF L <= inFlightAt(after, t) THEN 0 ELSE L - inFlightAt(after, t)
  BY <1>2 DEF amountCanBeSent
<1> HIDE DEF f, after, L, w
<1>4. decay = 0
  <2>1. L * (t - t) = 0
    BY <1>1
  <2>2. 0 \div w = 0
    BY <1>1
  <2> QED
    BY <2>1, <2>2
<1> DEFINE g == f + amount
<1>g. g \in Nat /\ g = f + amount /\ after.amountInFlight = g
  BY <1>1, <1>2
<1> HIDE DEF g
<1>5. inFlightAt(after, t) = IF t - t >= w \/ g <= decay THEN 0 ELSE g - decay
  BY <1>2, <1>g DEF inFlightAt
<1> HIDE DEF decay
<1>6. inFlightAt(after, t) = f + amount
  BY <1>1, <1>4, <1>5, <1>g
<1> QED
  BY <1>1, <1>3, <1>6 DEF after

\* A packet leaves the inbox only with its whole value minted to its recipient,
\* from the peer of the moment and with the token's consent; the inbound limit
\* of its source admits the value and loses exactly that much, and OFTWrapper
\* touches no limit (lzReceive, _credit).
THEOREM EvmCreditIsExact == Spec => CreditIsExact
<1> DEFINE Charged(value, eid) ==
             IF upgradeable
             THEN /\ value <= getAmountCanBeReceived(eid)
                  /\ rateLimits[inboundSlot(eid)].window > 0 =>
                       getAmountCanBeReceived(eid)' = getAmountCanBeReceived(eid) - value
             ELSE UNCHANGED rateLimits
           Credited(packet) ==
             LET value == Rate * packet.amount_sd
                 eid   == packet.src_eid
             IN  /\ inbox' = inbox \ {packet}
                 /\ token' = [token EXCEPT !.bal[packet.to] = @ + value, !.supply = @ + value]
                 /\ packet.sender = peers[eid]
                 /\ token.granted /\ packet.to \notin token.frozen
                 /\ Charged(value, eid)
           Exact == ~(inbox \subseteq inbox') => \E packet \in inbox : Credited(packet)
<1>1. IInv /\ [Next]_vars => [Exact]_vars
  <2> SUFFICES ASSUME IInv, Next, ~(inbox \subseteq inbox')
               PROVE  \E packet \in inbox : Credited(packet)
    OBVIOUS
  <2>1. PICK packet \in inbox : LzReceive(packet)
    BY DEF Next, LocalNext, Construct, Initialize, SetOutboundRateLimits, SetInboundRateLimits,
           SetPeer, TransferOwnership, Send, ChangeToken, Tick, Verify, Observe
  <2> DEFINE value == packet.amount_sd * Rate
             eid == packet.src_eid
             slot == inboundSlot(eid)
             rl == outflow(rateLimits[slot], value, now)
  <2>2. Rate * packet.amount_sd = value /\ value \in Nat
    BY <2>1, PacketFacts DEF IInv
  <2>3. /\ inbox' = inbox \ {packet}
        /\ token' = [token EXCEPT !.bal[packet.to] = @ + value, !.supply = @ + value]
        /\ packet.sender = peers[eid]
        /\ token.granted /\ packet.to \notin token.frozen
        /\ now' = now
    BY <2>1 DEF LzReceive, CanMint
  <2>4. /\ upgradeable => /\ slot \in Slots
                          /\ value <= amountCanBeSent(rateLimits[slot], now)
                          /\ rateLimits' = [rateLimits EXCEPT ![slot] = rl]
        /\ ~upgradeable => rateLimits' = rateLimits
    BY <2>1 DEF LzReceive, chargesInbound, creditSlot
  <2>5. Charged(value, eid)
    <3>1. CASE ~upgradeable
      BY <2>4, <3>1
    <3>2. CASE upgradeable
      <4>1. rateLimits \in [Slots -> RateLimit(now)] /\ now \in Nat
        BY DEF IInv, TypeOK, RateLimit
      <4>2. rateLimits[slot] \in RateLimit(now) /\ rateLimits'[slot] = rl
        BY <2>4, <3>2, <4>1
      <4>3. rateLimits[slot].window > 0 =>
              amountCanBeSent(rl, now) = amountCanBeSent(rateLimits[slot], now) - value
        BY <2>2, <2>4, <3>2, <4>1, <4>2, ChargedAvailable
      <4>4. /\ getAmountCanBeReceived(eid) = amountCanBeSent(rateLimits[slot], now)
            /\ getAmountCanBeReceived(eid)' = amountCanBeSent(rateLimits'[slot], now')
        BY DEF getAmountCanBeReceived, inboundSlot, amountCanBeSent, inFlightAt
      <4> HIDE DEF rl, slot, value
      <4>5. rateLimits[slot].window > 0 =>
              getAmountCanBeReceived(eid)' = getAmountCanBeReceived(eid) - value
        BY <2>3, <4>2, <4>3, <4>4
      <4> QED
        BY <2>4, <3>2, <4>4, <4>5 DEF slot
    <3> QED
      BY <3>1, <3>2
  <2> HIDE DEF Charged
  <2>6. Credited(packet)
    BY <2>2, <2>3, <2>5
  <2> QED
    BY <2>6
<1>2. CreditIsExact <=> [][Exact]_vars
  BY DEF CreditIsExact
<1> HIDE DEF Exact
<1> QED
  BY <1>1, <1>2, InitInv, NextInv, PTL DEF Spec

=============================================================================
