---------------------------- MODULE BridgeProofs ----------------------------
(***************************************************************************)
(* Proofs about the two sides together, for every value of the constants:  *)
(* BridgeInv is inductive, hence the bridge implements BridgeLedger and    *)
(* what is locked on Solana is what packets and the EVM chain are owed.    *)
(***************************************************************************)
EXTENDS Bridge, SolanaOFTProofs

-----------------------------------------------------------------------------
(* The wires: packets sent, relayed and waiting, in one direction.         *)

Waiting(sent, order, box) == {j \in DOMAIN sent : ~Arrived(j, order, box)}

Message(from, to, sent, i) == [id |-> <<from, i>>, to |-> to, value |-> sent[i].amount_sd]

LEMMA InFlightIs ==
    ASSUME NEW from, NEW to, NEW sent, NEW order, NEW box
    PROVE  InFlight(from, to, sent, order, box)
             = {Message(from, to, sent, i) : i \in Waiting(sent, order, box)}
BY DEF InFlight, Waiting, Message

\* A packet is put in the outbox: it is in flight, the others are as before.
LEMMA WireSend ==
    ASSUME NEW P, NEW sent \in Seq(P), NEW x \in P, NEW order, NEW box, NEW last,
           RelayOK(sent, order, box, last), NEW from, NEW to
    PROVE  LET new == Append(sent, x)
               n   == Len(sent) + 1
           IN  /\ RelayOK(new, order, box, last)
               /\ DOMAIN new = DOMAIN sent \cup {n} /\ n \notin DOMAIN sent
               /\ InFlight(from, to, new, order, box)
                    = InFlight(from, to, sent, order, box)
                        \cup {[id |-> <<from, n>>, to |-> to, value |-> x.amount_sd]}
<1> DEFINE new == Append(sent, x)
           n == Len(sent) + 1
<1>1. /\ new \in Seq(P) /\ Len(sent) \in Nat /\ Len(new) = n
      /\ DOMAIN sent = 1..Len(sent) /\ DOMAIN new = 1..n
      /\ new[n] = x /\ \A i \in DOMAIN sent : new[i] = sent[i]
  OBVIOUS
<1>2. DOMAIN new = DOMAIN sent \cup {n} /\ n \notin DOMAIN sent
  BY <1>1
<1>3. order \in Seq(DOMAIN sent) /\ \A k \in DOMAIN order : order[k] \in DOMAIN sent
  BY DEF RelayOK
<1> HIDE DEF new, n
<1>4. RelayOK(new, order, box, last)
  <2>1. order \in Seq(DOMAIN new)
    BY <1>2, <1>3
  <2> QED
    BY <1>1, <1>3, <2>1 DEF RelayOK
<1>5. Waiting(new, order, box) = Waiting(sent, order, box) \cup {n}
  BY <1>2, <1>3 DEF Waiting, Arrived
<1>6. \A i \in Waiting(sent, order, box) : Message(from, to, new, i) = Message(from, to, sent, i)
  BY <1>1 DEF Waiting, Message
<1>7. Message(from, to, new, n) = [id |-> <<from, n>>, to |-> to, value |-> x.amount_sd]
  BY <1>1 DEF Message
<1>8. InFlight(from, to, new, order, box)
        = InFlight(from, to, sent, order, box) \cup {Message(from, to, new, n)}
  BY <1>5, <1>6, InFlightIs
<1> QED
  BY <1>2, <1>4, <1>7, <1>8 DEF new, n

\* A packet is verified: it stays in flight.
LEMMA WireVerify ==
    ASSUME NEW sent, NEW order, NEW box, NEW last,
           RelayOK(sent, order, box, last),
           NEW i \in DOMAIN sent, i \notin Relayed(order),
           NEW x, x.nonce = last + 1, x.amount_sd = sent[i].amount_sd,
           NEW from, NEW to
    PROVE  /\ RelayOK(sent, Append(order, i), box \cup {x}, last + 1)
           /\ InFlight(from, to, sent, Append(order, i), box \cup {x})
                = InFlight(from, to, sent, order, box)
<1> DEFINE new == Append(order, i)
           all == box \cup {x}
<1>1. /\ order \in Seq(DOMAIN sent) /\ last = Len(order)
      /\ \A k, l \in DOMAIN order : order[k] = order[l] => k = l
      /\ \A packet \in box : /\ packet.nonce \in DOMAIN order
                             /\ packet.amount_sd = sent[order[packet.nonce]].amount_sd
      /\ \A p, q \in box : p.nonce = q.nonce => p = q
  BY DEF RelayOK
<1>2. /\ new \in Seq(DOMAIN sent) /\ last \in Nat /\ Len(new) = last + 1
      /\ DOMAIN order = 1..last /\ DOMAIN new = 1..(last + 1)
      /\ new[last + 1] = i /\ \A k \in DOMAIN order : new[k] = order[k]
  BY <1>1
<1>3. DOMAIN new = DOMAIN order \cup {last + 1} /\ last + 1 \notin DOMAIN order
  BY <1>2
<1>4. \A k \in DOMAIN order : order[k] # i
  BY DEF Relayed
<1> HIDE DEF new
<1>5. \A k, l \in DOMAIN new : new[k] = new[l] => k = l
  BY <1>1, <1>2, <1>3, <1>4
<1>6. \A packet \in all : /\ packet.nonce \in DOMAIN new
                          /\ packet.amount_sd = sent[new[packet.nonce]].amount_sd
  BY <1>1, <1>2, <1>3
<1>7. \A p, q \in all : p.nonce = q.nonce => p = q
  BY <1>1, <1>3
<1>8. RelayOK(sent, new, all, last + 1)
  BY <1>2, <1>5, <1>6, <1>7 DEF RelayOK
<1>9. ASSUME NEW j \in DOMAIN sent
      PROVE  Arrived(j, new, all) <=> Arrived(j, order, box)
  <2>1. ASSUME NEW k \in DOMAIN new, new[k] = j, \A packet \in all : packet.nonce # k
        PROVE  Arrived(j, order, box)
    BY <1>2, <1>3, <2>1 DEF Arrived
  <2>2. ASSUME NEW k \in DOMAIN order, order[k] = j, \A packet \in box : packet.nonce # k
        PROVE  Arrived(j, new, all)
    BY <1>2, <1>3, <2>2 DEF Arrived
  <2> QED
    BY <2>1, <2>2 DEF Arrived
<1>10. Waiting(sent, new, all) = Waiting(sent, order, box)
  BY <1>9 DEF Waiting
<1>11. InFlight(from, to, sent, new, all) = InFlight(from, to, sent, order, box)
  BY <1>10, InFlightIs, Zenon
<1> QED
  BY <1>8, <1>11 DEF new

\* A packet is executed: it was in flight and is no more, nothing else changes.
LEMMA WireReceive ==
    ASSUME NEW sent, NEW order, NEW box, NEW last,
           RelayOK(sent, order, box, last), NEW x \in box, NEW from, NEW to
    PROVE  LET old == [id |-> <<from, order[x.nonce]>>, to |-> to, value |-> x.amount_sd]
           IN  /\ RelayOK(sent, order, box \ {x}, last)
               /\ old \in InFlight(from, to, sent, order, box)
               /\ InFlight(from, to, sent, order, box \ {x})
                    = InFlight(from, to, sent, order, box) \ {old}
<1> DEFINE n == x.nonce
           rest == box \ {x}
           old == [id |-> <<from, order[x.nonce]>>, to |-> to, value |-> x.amount_sd]
<1>1. /\ order \in Seq(DOMAIN sent)
      /\ \A k, l \in DOMAIN order : order[k] = order[l] => k = l
      /\ n \in DOMAIN order /\ x.amount_sd = sent[order[n]].amount_sd
      /\ \A p \in box : p.nonce = n => p = x
  BY DEF RelayOK
<1>2. order[n] \in DOMAIN sent
  BY <1>1
<1>3. RelayOK(sent, order, rest, last)
  BY DEF RelayOK
<1>4. ~Arrived(order[n], order, box) /\ Arrived(order[n], order, rest)
  BY <1>1 DEF Arrived
<1>5. ASSUME NEW j, j # order[n] PROVE Arrived(j, order, rest) <=> Arrived(j, order, box)
  BY <1>1, <1>5 DEF Arrived
<1>6. /\ order[n] \in Waiting(sent, order, box)
      /\ Waiting(sent, order, rest) = Waiting(sent, order, box) \ {order[n]}
  BY <1>2, <1>4, <1>5 DEF Waiting
<1>7. old = Message(from, to, sent, order[n])
  BY <1>1 DEF Message
<1> HIDE DEF old, n, rest
<1>8. \A i, j : Message(from, to, sent, i) = Message(from, to, sent, j) => i = j
  BY DEF Message
<1>9. /\ old \in InFlight(from, to, sent, order, box)
      /\ InFlight(from, to, sent, order, rest) = InFlight(from, to, sent, order, box) \ {old}
  BY <1>6, <1>7, <1>8, InFlightIs
<1> QED
  BY <1>3, <1>9 DEF old, rest

\* What is in flight on a wire is finite, and has a value.
LEMMA WireFinite ==
    ASSUME NEW P, NEW sent \in Seq(P), \A x \in P : x.amount_sd \in Nat,
           NEW order, NEW box, NEW from, NEW to
    PROVE  /\ IsFiniteSet(InFlight(from, to, sent, order, box))
           /\ \A p \in InFlight(from, to, sent, order, box) :
                p.value \in Nat /\ p.to = to /\ \E i \in DOMAIN sent : p.id = <<from, i>>
<1> DEFINE W == Waiting(sent, order, box)
<1>1. IsFiniteSet(1..Len(sent)) /\ W \subseteq 1..Len(sent)
  BY FS_Interval DEF Waiting
<1>2. IsFiniteSet(W)
  BY <1>1, FS_Subset
<1> HIDE DEF W
<1>3. IsFiniteSet({Message(from, to, sent, i) : i \in W})
  <2> DEFINE f == [i \in W |-> Message(from, to, sent, i)]
  <2>1. {Message(from, to, sent, i) : i \in W} = {f[i] : i \in W}
    OBVIOUS
  <2>2. f \in Surjection(W, {f[i] : i \in W})
    BY DEF Surjection
  <2>3. IsFiniteSet({f[i] : i \in W})
    <3> HIDE DEF f
    <3> QED
      BY <1>2, <2>2, FS_Surjection
  <2> QED
    BY <2>1, <2>3, Zenon
<1>4. \A i \in W : i \in DOMAIN sent /\ sent[i].amount_sd \in Nat
  BY DEF W, Waiting
<1>5. \A i \in W : /\ Message(from, to, sent, i).value \in Nat
                   /\ Message(from, to, sent, i).to = to
                   /\ Message(from, to, sent, i).id = <<from, i>>
  BY <1>4 DEF Message
<1>6. InFlight(from, to, sent, order, box) = {Message(from, to, sent, i) : i \in W}
  BY InFlightIs DEF W
<1> QED
  BY <1>3, <1>4, <1>5, <1>6

-----------------------------------------------------------------------------
(* The EVM side.                                                           *)

\* Moving a whole number of units moves the quotient by it.
LEMMA DivShift ==
    ASSUME NEW r \in Nat \ {0}, NEW a \in Nat, NEW v \in Nat
    PROVE  /\ (a + v * r) \div r = a \div r + v
           /\ v * r <= a => v <= a \div r /\ (a - v * r) \div r = a \div r - v
<1> DEFINE q == a \div r
           m == a % r
<1>1. q \in Nat /\ m \in 0..(r - 1) /\ a = r * q + m
  BY DivMod
<1>2. ASSUME NEW b \in Nat, NEW k \in Int, b = r * k + m PROVE b \div r = k
  <2> DEFINE j == b \div r
             l == b % r
  <2>1. j \in Nat /\ l \in 0..(r - 1) /\ b = r * j + l
    BY DivMod
  <2> HIDE DEF j, l, q, m
  <2>2. r * (j - k) = m - l
    BY <1>1, <1>2, <2>1
  <2>3. ~(j - k >= 1) /\ ~(j - k <= -1)
    <3>1. ASSUME j - k >= 1 PROVE FALSE
      <4>1. r * (j - k) >= r
        BY <2>1, <3>1
      <4> QED
        BY <1>1, <2>1, <2>2, <4>1
    <3>2. ASSUME j - k <= -1 PROVE FALSE
      <4>1. r * (j - k) <= -r
        BY <2>1, <3>2
      <4> QED
        BY <1>1, <2>1, <2>2, <4>1
    <3> QED
      BY <3>1, <3>2
  <2> QED
    BY <2>1, <2>3 DEF j
<1> HIDE DEF q, m
<1>3. a + v * r = r * (q + v) + m
  BY <1>1
<1>4. (a + v * r) \div r = q + v
  BY <1>1, <1>2, <1>3
<1>5. ASSUME v * r <= a PROVE v <= q /\ (a - v * r) \div r = q - v
  <2>1. a - v * r = r * (q - v) + m /\ a - v * r \in Nat /\ q - v \in Int
    BY <1>1, <1>5
  <2>2. (a - v * r) \div r = q - v
    BY <1>2, <2>1
  <2>3. (a - v * r) \div r \in Nat
    BY <2>1, DivMod
  <2> QED
    BY <1>1, <2>2, <2>3
<1> QED
  BY <1>4, <1>5 DEF q

EvmToken == [supply : Nat, bal : [EvmUsers -> Nat], frozen : SUBSET EvmUsers, granted : BOOLEAN]

EvmPacket == [dst_eid : {SolEid}, receiver : {SolAddr, None}, amount_sd : U64, compose : BOOLEAN]

EvmArrival == [nonce : Nat, src_eid : {SolEid}, sender : {SolAddr}, to : EvmUsers,
               amount_sd : Nat, compose : BOOLEAN]

LEMMA EvmTypes ==
    EvmTypeOK <=> /\ e_peers \in [{SolEid} -> {SolAddr, None}] /\ e_token \in EvmToken
                  /\ e_inbox \in SUBSET EvmArrival /\ e_outbox \in Seq(EvmPacket)
BY DEF EvmTypeOK, EvmToken, EvmArrival, EvmPacket

\* A send burns a whole number of units, within the supply, into one packet.
LEMMA EvmSends ==
    ASSUME EvmTypeOK, NEW user \in EvmUsers, NEW amountLD \in EvmAmounts,
           NEW minAmountLD, NEW compose \in BOOLEAN,
           Evm!Send(user, SolEid, amountLD, minAmountLD, compose)
    PROVE  \E x \in EvmPacket :
             /\ Len(e_outbox) < MaxSends
             /\ e_outbox' = Append(e_outbox, x)
             /\ UNCHANGED <<e_inbox, e_nonce, e_peers>>
             /\ e_token' \in EvmToken
             /\ x.amount_sd * EvmRate <= e_token.supply
             /\ e_token'.supply = e_token.supply - x.amount_sd * EvmRate
<1> DEFINE v == amountLD \div EvmRate
           s == Evm!amountSentLD(amountLD)
           x == [dst_eid |-> SolEid, receiver |-> e_peers[SolEid],
                 amount_sd |-> s \div EvmRate, compose |-> compose]
<1>1. /\ Len(e_outbox) < MaxSends
      /\ e_outbox' = Append(e_outbox, x)
      /\ UNCHANGED <<e_inbox, e_nonce, e_peers>>
      /\ Evm!CanBurn(s, user)
      /\ e_token' = [e_token EXCEPT !.bal[user] = @ - s, !.supply = @ - s]
      /\ s \div EvmRate <= U64Max
  BY DEF Evm!Send
<1>2. amountLD \in Nat /\ EvmRate \in Nat \ {0} /\ U64Max \in Nat
  BY BridgeAssumption, U64Assumption
<1>3. s = v * EvmRate /\ v \in Nat
  BY <1>2, DivMod DEF Evm!amountSentLD, Evm!removeDust
<1>4. s \div EvmRate = v /\ s \in Nat
  <2> HIDE DEF v, s
  <2>1. s = EvmRate * v
    BY <1>2, <1>3
  <2> QED
    BY <1>2, <1>3, <2>1, MulDiv
<1> HIDE DEF v, s
<1>5. v \in U64
  BY <1>1, <1>2, <1>3, <1>4 DEF U64
<1>6. x \in EvmPacket /\ x.amount_sd = v
  BY <1>4, <1>5 DEF EvmPacket, EvmTypeOK
<1>7. e_token \in EvmToken /\ s <= e_token.bal[user] /\ s <= e_token.supply
  <2>1. e_token \in EvmToken
    BY EvmTypes
  <2>2. e_token.bal[user] >= s /\ e_token.supply >= s
    BY <1>1 DEF Evm!CanBurn
  <2>3. e_token.bal[user] \in Nat /\ e_token.supply \in Nat
    BY <2>1 DEF EvmToken
  <2> QED
    BY <1>4, <2>1, <2>2, <2>3
<1>8. e_token' \in EvmToken /\ e_token'.supply = e_token.supply - s
  <2>1. e_token.bal[user] - s \in Nat /\ e_token.supply - s \in Nat
    BY <1>4, <1>7 DEF EvmToken
  <2> DEFINE nb == e_token.bal[user] - s
             ns == e_token.supply - s
  <2>2. e_token' = [e_token EXCEPT !.bal[user] = nb, !.supply = ns]
    BY <1>1
  <2>3. nb \in Nat /\ ns \in Nat
    BY <2>1
  <2> HIDE DEF nb, ns
  <2>4. e_token' \in EvmToken /\ e_token'.supply = ns
    BY <1>7, <2>2, <2>3 DEF EvmToken
  <2> QED
    BY <2>4 DEF ns
<1> HIDE DEF x
<1>9. /\ x.amount_sd * EvmRate <= e_token.supply
      /\ e_token'.supply = e_token.supply - x.amount_sd * EvmRate
  BY <1>3, <1>6, <1>7, <1>8
<1> QED
  BY <1>1, <1>6, <1>8, <1>9

\* A receipt mints the packet's value.
LEMMA EvmReceives ==
    ASSUME EvmTypeOK, NEW packet \in e_inbox, Evm!LzReceive(packet)
    PROVE  /\ e_inbox' = e_inbox \ {packet}
           /\ UNCHANGED <<e_outbox, e_nonce, e_peers>>
           /\ e_token' \in EvmToken
           /\ packet.amount_sd \in Nat
           /\ e_token'.supply = e_token.supply + packet.amount_sd * EvmRate
<1> DEFINE s == packet.amount_sd * EvmRate
<1>1. /\ e_inbox' = e_inbox \ {packet}
      /\ UNCHANGED <<e_outbox, e_nonce, e_peers>>
      /\ e_token' = [e_token EXCEPT !.bal[packet.to] = @ + s, !.supply = @ + s]
  BY DEF Evm!LzReceive
<1>2. packet.amount_sd \in Nat /\ packet.to \in EvmUsers /\ e_token \in EvmToken
  BY EvmTypes DEF EvmArrival
<1>3. s \in Nat
  BY <1>2, BridgeAssumption
<1> DEFINE nb == e_token.bal[packet.to] + s
           ns == e_token.supply + s
<1>4. e_token' = [e_token EXCEPT !.bal[packet.to] = nb, !.supply = ns]
  BY <1>1
<1> HIDE DEF s
<1>5. nb \in Nat /\ ns \in Nat
  BY <1>2, <1>3 DEF EvmToken
<1> HIDE DEF nb, ns
<1>6. e_token' \in EvmToken /\ e_token'.supply = ns
  BY <1>2, <1>4, <1>5 DEF EvmToken
<1> QED
  BY <1>1, <1>2, <1>6 DEF ns, s

\* Nothing else touches the packets, or the supply.
LEMMA EvmOther ==
    ASSUME EvmTypeOK, Evm!LocalNext
    PROVE  \/ /\ UNCHANGED <<e_inbox, e_nonce, e_outbox>>
              /\ e_peers' \in [{SolEid} -> {SolAddr, None}]
              /\ e_token' \in EvmToken /\ e_token'.supply = e_token.supply
           \/ \E user \in EvmUsers, amountLD, minAmountLD \in EvmAmounts, compose \in BOOLEAN :
                Evm!Send(user, SolEid, amountLD, minAmountLD, compose)
           \/ \E packet \in e_inbox : Evm!LzReceive(packet)
<1> DEFINE Kept == /\ UNCHANGED <<e_inbox, e_nonce, e_outbox>>
                   /\ e_peers' \in [{SolEid} -> {SolAddr, None}]
                   /\ e_token' \in EvmToken /\ e_token'.supply = e_token.supply
<1>0. e_token \in EvmToken /\ e_peers \in [{SolEid} -> {SolAddr, None}]
  BY EvmTypes
<1>1. ASSUME NEW x, NEW y, NEW cfgs,
             \/ Evm!Construct(x, y, cfgs)
             \/ Evm!Initialize(x, y)
             \/ Evm!SetOutboundRateLimits(x, cfgs)
             \/ Evm!SetInboundRateLimits(x, cfgs)
             \/ Evm!TransferOwnership(x, y)
             \/ Evm!Tick
      PROVE  Kept
  BY <1>0, <1>1 DEF Evm!Construct, Evm!Initialize, Evm!SetOutboundRateLimits,
     Evm!SetInboundRateLimits, Evm!TransferOwnership, Evm!Tick
<1>2. ASSUME NEW sender, NEW eid \in {SolEid}, NEW peer \in {SolAddr} \cup {None},
             Evm!SetPeer(sender, eid, peer)
      PROVE  Kept
  BY <1>0, <1>2 DEF Evm!SetPeer
<1>3. ASSUME Evm!ChangeToken PROVE Kept
  <2>1. UNCHANGED <<e_inbox, e_nonce, e_outbox, e_peers>>
    BY <1>3 DEF Evm!ChangeToken
  <2>2. \/ \E frozen \in SUBSET EvmUsers : e_token' = [e_token EXCEPT !.frozen = frozen]
        \/ e_token' = [e_token EXCEPT !.granted = ~e_token.granted]
    <3>1. ASSUME NEW user \in EvmUsers,
                 e_token' = [e_token EXCEPT !.frozen = IF user \in @ THEN @ \ {user} ELSE @ \cup {user}]
          PROVE  \E frozen \in SUBSET EvmUsers : e_token' = [e_token EXCEPT !.frozen = frozen]
      <4> DEFINE F == e_token.frozen
                 G == IF user \in F THEN F \ {user} ELSE F \cup {user}
      <4>1. G \in SUBSET EvmUsers
        BY <1>0 DEF EvmToken
      <4>2. e_token' = [e_token EXCEPT !.frozen = G]
        BY <3>1
      <4> QED
        BY <4>1, <4>2
    <3> QED
      BY <1>3, <3>1 DEF Evm!ChangeToken
  <2>3. e_token' \in EvmToken /\ e_token'.supply = e_token.supply
    BY <1>0, <2>2 DEF EvmToken
  <2> QED
    BY <1>0, <2>1, <2>3
<1>4. Composes \subseteq BOOLEAN
  BY InputAssumption
<1> HIDE DEF Kept
<1>5. \/ Kept
      \/ \E user \in EvmUsers, amountLD, minAmountLD \in EvmAmounts, compose \in BOOLEAN :
           Evm!Send(user, SolEid, amountLD, minAmountLD, compose)
      \/ \E packet \in e_inbox : Evm!LzReceive(packet)
  BY <1>1, <1>2, <1>3, <1>4 DEF Evm!LocalNext
<1> QED
  BY <1>5 DEF Kept

-----------------------------------------------------------------------------
(* The Solana side.                                                        *)

LEMMA AccountsFinite == IsFiniteSet(Accounts)
BY BridgeAssumption, FS_AddElement DEF Accounts

LEMMA CoveredIs ==
    /\ TokensCovered <=> Total(bal, Accounts) + book.withheld <= mint.supply
    /\ TokensCovered' <=> Total(bal', Accounts) + book'.withheld <= mint'.supply
<1>1. TokensCovered <=> Total(bal, Accounts) + book.withheld <= mint.supply
  BY DEF TokensCovered, Total, MapThenSumSet, MapThenFoldSet
<1>2. TokensCovered' <=> Total(bal', Accounts) + book'.withheld <= mint'.supply
  BY DEF TokensCovered, Total, MapThenSumSet, MapThenFoldSet
<1> QED
  BY <1>1, <1>2

\* A movement between two accounts that accounts for what is withheld, minted
\* and burned.
LEMMA CoveredMove ==
    ASSUME IInv, IInv', TokensCovered,
           NEW x \in Accounts, NEW y \in Accounts, x # y,
           \A a \in Accounts \ {x, y} : bal'[a] = bal[a],
           (bal'[x] - bal[x]) + (bal'[y] - bal[y]) + (book'.withheld - book.withheld)
             = mint'.supply - mint.supply
    PROVE  TokensCovered'
<1>1. /\ \A a \in Accounts : bal[a] \in Nat /\ bal'[a] \in Nat
      /\ mint.supply \in Nat /\ mint'.supply \in Nat
      /\ book.withheld \in Nat /\ book'.withheld \in Nat
  BY U64Assumption DEF IInv, TypeOK, U64, Book
<1>2. Ints(bal, Accounts) /\ Ints(bal', Accounts)
  BY <1>1 DEF Ints
<1>3. Total(bal', Accounts) = Total(bal, Accounts) + (bal'[x] - bal[x]) + (bal'[y] - bal[y])
  BY <1>2, AccountsFinite, TotalMove
<1>4. Total(bal, Accounts) \in Int /\ Total(bal', Accounts) \in Int
  BY <1>2, AccountsFinite, TotalIsInt
<1>5. Total(bal, Accounts) + book.withheld <= mint.supply
  BY CoveredIs
<1>6. Total(bal', Accounts) + book'.withheld <= mint'.supply
  BY <1>1, <1>3, <1>4, <1>5
<1> QED
  BY <1>6, CoveredIs

\* Covered balances: nobody can pay what is not outside the lock.
LEMMA LockLeaves ==
    ASSUME IInv, store # None, TokensCovered, NEW user \in Users
    PROVE  bal[user] + store.tvl_ld <= mint.supply
<1>1. /\ \A a \in Accounts : bal[a] \in Nat
      /\ mint.supply \in Nat /\ book.withheld \in Nat /\ store.tvl_ld \in Nat
      /\ book.fees \in Int
  BY U64Assumption DEF IInv, TypeOK, U64, Book, Store
<1>2. user \in Accounts /\ Escrow \in Accounts /\ user # Escrow
  BY AccountsAssumption DEF Accounts
<1>3. bal[user] + bal[Escrow] <= Total(bal, Accounts)
  BY <1>1, <1>2, AccountsFinite, TotalBounds
<1>4. Total(bal, Accounts) \in Nat
  BY <1>1, AccountsFinite, TotalIsNat
<1>5. Total(bal, Accounts) + book.withheld <= mint.supply
  BY CoveredIs
<1>6. store.tvl_ld <= bal[Escrow]
  BY <1>1, <1>2 DEF IInv, EscrowAccounting
<1> QED
  BY <1>1, <1>2, <1>3, <1>4, <1>5, <1>6

\* The type and the rate are fixed once the OFT is initialised.
SameOFT ==
    /\ store # None /\ store' # None
    /\ store'.oft_type = store.oft_type /\ store'.ld2sd_rate = store.ld2sd_rate

\* A send locks or burns what its packet says, of what is not locked yet.
LEMMA SolSends ==
    ASSUME IInv, IInv', TokensCovered, NEW user \in Users, NEW eid \in Eids,
           NEW amount_ld \in Amounts, NEW min_amount_ld \in Amounts,
           NEW compose \in BOOLEAN, NEW extra \in ExtraOptions,
           Send(user, eid, amount_ld, min_amount_ld, compose, extra)
    PROVE  /\ TokensCovered' /\ SameOFT /\ UNCHANGED <<inbox, nonce>>
           /\ \E x \in OutPacket :
                /\ Len(outbox) < MaxSends
                /\ outbox' = Append(outbox, x)
                /\ store.oft_type = "Adapter" =>
                     /\ x.amount_sd * store.ld2sd_rate <= Supply - store.tvl_ld
                     /\ store'.tvl_ld = store.tvl_ld + x.amount_sd * store.ld2sd_rate
                /\ store.oft_type = "Native" =>
                     /\ x.amount_sd * store.ld2sd_rate <= mint.supply
                     /\ mint'.supply = mint.supply - x.amount_sd * store.ld2sd_rate
<1> DEFINE amt == compute_fee_and_adjust_amount(amount_ld, store, mint.fee, peers[eid].fee_bps)
           sd == ld2sd(store.ld2sd_rate, amt.received)
           x == [dst_eid |-> eid, receiver |-> peers[eid].peer_address, amount_sd |-> sd,
                 compose |-> compose,
                 options |-> combine_options(get_enforced_options(peers[eid], compose), extra)]
<1>1. /\ Len(outbox) < MaxSends
      /\ outbox' = Append(outbox, x)
      /\ UNCHANGED <<inbox, nonce>>
  BY DEF Send
<1>2. /\ store \in Store /\ store # None
      /\ amt.sent \in U64 /\ amt.received \in U64 /\ amt.fee \in U64
      /\ amt.sent <= bal[user]
      /\ store.oft_type = "Adapter" =>
           get_post_fee_amount_ld(mint.fee, amt.sent) = amt.received + amt.fee
      /\ store.oft_type = "Native" => amt.sent = amt.received + amt.fee
      /\ sd \in Nat /\ store.ld2sd_rate * sd = amt.received
  BY SendFacts
<1>3. /\ bal'[user] = bal[user] - amt.sent
      /\ \A a \in Users \ {user} : bal'[a] = bal[a]
      /\ store' \in Store
      /\ store'.ld2sd_rate = store.ld2sd_rate /\ store'.oft_type = store.oft_type
      /\ amt.sent = amt.received + (book'.fees - book.fees) + (book'.withheld - book.withheld)
      /\ book'.fees >= book.fees
      /\ store.oft_type = "Adapter" =>
           /\ bal'[Escrow] = bal[Escrow] + amt.received + amt.fee
           /\ book'.fees = book.fees + amt.fee
           /\ store'.tvl_ld = store.tvl_ld + amt.received
           /\ mint'.supply = mint.supply
      /\ store.oft_type = "Native" =>
           /\ bal'[Escrow] = bal[Escrow] + (book'.fees - book.fees)
           /\ mint'.supply = mint.supply - amt.received
  BY SendLedger
<1> HIDE DEF amt, sd
<1>4. x.amount_sd = sd
  OBVIOUS
<1> HIDE DEF x
<1>5. /\ amt.sent \in Nat /\ amt.received \in Nat /\ amt.fee \in Nat
      /\ store.oft_type \in {"Native", "Adapter"} /\ store.ld2sd_rate \in Nat
      /\ store.tvl_ld \in Nat
  BY <1>2, U64Assumption DEF U64, Store
<1>6. /\ \A a \in Accounts : bal[a] \in Nat /\ bal'[a] \in Nat
      /\ mint.supply \in Nat /\ mint'.supply \in Nat
      /\ book.withheld \in Nat /\ book'.withheld \in Nat
      /\ book.fees \in Int /\ book'.fees \in Int
  BY U64Assumption DEF IInv, TypeOK, U64, Book
<1>7. /\ user \in Accounts /\ Escrow \in Accounts /\ user # Escrow
      /\ \A a \in Accounts \ {user, Escrow} : a \in Users \ {user}
  BY AccountsAssumption DEF Accounts
<1>8. \A a \in Accounts \ {user, Escrow} : bal'[a] = bal[a]
  BY <1>3, <1>7
<1>9. (bal'[user] - bal[user]) + (bal'[Escrow] - bal[Escrow]) + (book'.withheld - book.withheld)
        = mint'.supply - mint.supply
  BY <1>3, <1>5, <1>6, <1>7
<1>10. TokensCovered'
  BY <1>7, <1>8, <1>9, CoveredMove
<1>11. SameOFT
  BY <1>2, <1>3, NoneStoreAssumption DEF SameOFT
<1>12. amt.received <= amt.sent
  <2>1. transfer_fee(mint.fee, amt.sent) \in 0..amt.sent
    BY <1>5, TransferFeeBounds DEF IInv, TypeOK
  <2> QED
    BY <1>2, <1>5, <2>1 DEF get_post_fee_amount_ld
<1>13. bal[user] + store.tvl_ld <= mint.supply
  BY <1>2, LockLeaves
<1>14. x.amount_sd * store.ld2sd_rate = amt.received
  BY <1>2, <1>4, <1>5
<1>15. store.oft_type = "Adapter" => mint.supply = Supply
  BY <1>2 DEF IInv, ValueConserved
<1>16. x \in OutPacket
  <2>1. outbox' \in Seq(OutPacket) /\ outbox \in Seq(OutPacket)
    BY DEF IInv, TypeOK
  <2>2. outbox'[Len(outbox')] = x /\ Len(outbox') \in DOMAIN outbox'
    BY <1>1, <2>1
  <2> QED
    BY <2>1, <2>2
<1>17. amt.received <= mint.supply - store.tvl_ld /\ amt.received <= mint.supply
  BY <1>2, <1>5, <1>6, <1>7, <1>12, <1>13
<1> QED
  BY <1>1, <1>3, <1>10, <1>11, <1>14, <1>15, <1>16, <1>17

\* A receipt releases or mints what its packet says.
LEMMA SolReceives ==
    ASSUME IInv, IInv', TokensCovered, NEW packet \in inbox, LzReceive(packet)
    PROVE  /\ TokensCovered' /\ SameOFT /\ UNCHANGED <<outbox, nonce>>
           /\ inbox' = inbox \ {packet} /\ packet.amount_sd \in Nat
           /\ store.oft_type = "Adapter" =>
                /\ packet.amount_sd * store.ld2sd_rate <= store.tvl_ld
                /\ store'.tvl_ld = store.tvl_ld - packet.amount_sd * store.ld2sd_rate
           /\ store.oft_type = "Native" =>
                mint'.supply = mint.supply + packet.amount_sd * store.ld2sd_rate
<1> DEFINE amount_ld == sd2ld(store.ld2sd_rate, packet.amount_sd)
<1>1. /\ packet \in InPacket /\ store \in Store /\ store # None
      /\ amount_ld \in U64
      /\ store' \in Store
      /\ store'.ld2sd_rate = store.ld2sd_rate /\ store'.oft_type = store.oft_type
      /\ store.oft_type = "Adapter" =>
           /\ bal'[Escrow] = bal[Escrow] - amount_ld
           /\ store'.tvl_ld = store.tvl_ld - amount_ld
           /\ mint'.supply = mint.supply
      /\ store.oft_type = "Native" =>
           /\ bal'[Escrow] = bal[Escrow]
           /\ mint'.supply = mint.supply + amount_ld
  BY ReceiveLedger
<1>2. /\ bal'[packet.to] - bal[packet.to] + (book'.withheld - book.withheld)
           = packet.amount_sd * store.ld2sd_rate
      /\ \A other \in Users \ {packet.to} : bal'[other] = bal[other]
  BY ReceivePays
<1>3. inbox' = inbox \ {packet} /\ UNCHANGED <<outbox, nonce>>
  BY DEF LzReceive, cleared
<1>4. amount_ld = packet.amount_sd * store.ld2sd_rate
  BY DEF sd2ld
<1> HIDE DEF amount_ld
<1>5. /\ amount_ld \in Nat /\ packet.amount_sd \in Nat
      /\ store.oft_type \in {"Native", "Adapter"}
      /\ store.tvl_ld \in Nat /\ store'.tvl_ld \in Nat
  BY <1>1, U64Assumption DEF U64, Store, InPacket
<1>6. /\ \A a \in Accounts : bal[a] \in Nat /\ bal'[a] \in Nat
      /\ mint.supply \in Nat /\ mint'.supply \in Nat
      /\ book.withheld \in Nat /\ book'.withheld \in Nat
  BY U64Assumption DEF IInv, TypeOK, U64, Book
<1>7. /\ packet.to \in Accounts /\ Escrow \in Accounts /\ packet.to # Escrow
      /\ \A a \in Accounts \ {packet.to, Escrow} : a \in Users \ {packet.to}
  BY <1>1, AccountsAssumption DEF Accounts, InPacket
<1>8. \A a \in Accounts \ {packet.to, Escrow} : bal'[a] = bal[a]
  BY <1>2, <1>7
<1>9. (bal'[packet.to] - bal[packet.to]) + (bal'[Escrow] - bal[Escrow])
        + (book'.withheld - book.withheld) = mint'.supply - mint.supply
  BY <1>1, <1>2, <1>4, <1>5, <1>6, <1>7
<1>10. TokensCovered'
  BY <1>7, <1>8, <1>9, CoveredMove
<1>11. SameOFT
  BY <1>1, NoneStoreAssumption DEF SameOFT
<1>12. store.oft_type = "Adapter" => amount_ld <= store.tvl_ld
  BY <1>1, <1>5
<1> QED
  BY <1>1, <1>3, <1>4, <1>5, <1>10, <1>11, <1>12

\* A transfer that the program or a user makes, fee withheld.
LEMMA TransferCovered ==
    ASSUME IInv, IInv', TokensCovered, NEW from \in Accounts, NEW to \in Accounts, from # to,
           NEW amount \in Nat, amount <= bal[from],
           bal' = Transferred(bal, from, to, amount), mint' = mint,
           book'.withheld = book.withheld + Withheld(amount)
    PROVE  TokensCovered'
<1> DEFINE post == get_post_fee_amount_ld(mint.fee, amount)
<1>1. bal \in [Accounts -> U64] /\ TypeOK
  BY DEF IInv, TypeOK
<1>2. /\ bal'[from] = bal[from] - amount
      /\ bal'[to] = bal[to] + post
      /\ \A a \in Accounts \ {from, to} : bal'[a] = bal[a]
      /\ post \in 0..amount /\ Withheld(amount) \in Nat
      /\ post + Withheld(amount) = amount
  BY <1>1, TransferFacts
<1> HIDE DEF post
<1>3. bal[from] \in Nat /\ bal[to] \in Nat /\ mint.supply \in Nat /\ book.withheld \in Nat
  BY U64Assumption DEF IInv, TypeOK, U64, Book
<1>4. (bal'[from] - bal[from]) + (bal'[to] - bal[to]) + (book'.withheld - book.withheld)
        = mint'.supply - mint.supply
  BY <1>2, <1>3
<1> QED
  BY <1>2, <1>4, CoveredMove

LEMMA WithdrawCovered ==
    ASSUME IInv, IInv', TokensCovered,
           NEW signer \in Keys, NEW dest \in Accounts, NEW fee_ld \in Amounts,
           WithdrawFee(signer, dest, fee_ld)
    PROVE  TokensCovered'
<1>1. /\ store # None /\ store \in Store /\ mint' = mint /\ fee_ld \in Nat
      /\ Escrow \in Accounts
  BY InputAssumption, U64Assumption DEF WithdrawFee, HasOneAdmin, IInv, TypeOK, U64, Accounts
<1>2. CASE dest = Escrow
  <2>1. bal' = bal /\ book' = book
    BY <1>2 DEF WithdrawFee, Transferred
  <2> QED
    BY <1>1, <2>1, CoveredIs
<1>3. CASE dest # Escrow
  <2>1. /\ bal' = Transferred(bal, Escrow, dest, fee_ld)
        /\ book' = [book EXCEPT !.fees = book.fees - fee_ld,
                                !.withheld = book.withheld + Withheld(fee_ld)]
        /\ bal[Escrow] - store.tvl_ld >= fee_ld
    BY <1>3 DEF WithdrawFee, withdrawable_ld
  <2>2. store.tvl_ld \in Nat /\ bal[Escrow] \in Nat
    BY <1>1, U64Assumption DEF IInv, TypeOK, Store, U64
  <2>3. fee_ld <= bal[Escrow]
    BY <1>1, <2>1, <2>2
  <2>4. book'.withheld = book.withheld + Withheld(fee_ld)
    BY <2>1 DEF IInv, TypeOK, Book
  <2> QED
    BY <1>1, <1>3, <2>1, <2>3, <2>4, TransferCovered
<1> QED
  BY <1>2, <1>3

LEMMA DonateCovered ==
    ASSUME IInv, IInv', TokensCovered, NEW user \in Users, NEW amount \in Amounts,
           Donate(user, amount)
    PROVE  TokensCovered'
<1>1. mint' = mint /\ amount \in Nat
  BY InputAssumption, U64Assumption DEF Donate, U64
<1>2. Escrow \in Accounts /\ user \in Accounts /\ user # Escrow
  BY AccountsAssumption DEF Accounts
<1>3. /\ bal' = Transferred(bal, user, Escrow, amount)
      /\ book' = [book EXCEPT !.fees = book.fees + get_post_fee_amount_ld(mint.fee, amount),
                              !.withheld = book.withheld + Withheld(amount)]
      /\ bal[user] >= amount
  BY DEF Donate
<1>4. amount <= bal[user]
  BY <1>1, <1>2, <1>3, U64Assumption DEF IInv, TypeOK, U64
<1>5. book'.withheld = book.withheld + Withheld(amount)
  BY <1>3 DEF IInv, TypeOK, Book
<1> QED
  BY <1>1, <1>2, <1>3, <1>4, <1>5, TransferCovered

\* What is left of the program changes neither packets nor what is locked.
LEMMA SolOther ==
    ASSUME IInv, IInv', TokensCovered, store # None, LocalNext
    PROVE  \/ /\ TokensCovered' /\ SameOFT /\ UNCHANGED <<inbox, nonce, outbox>>
              /\ store'.tvl_ld = store.tvl_ld /\ mint'.supply = mint.supply
           \/ \E user \in Users, eid \in Eids, amount_ld, min_amount_ld \in Amounts,
                 compose \in BOOLEAN, extra \in ExtraOptions :
                Send(user, eid, amount_ld, min_amount_ld, compose, extra)
           \/ \E packet \in inbox : LzReceive(packet)
<1> DEFINE Kept == /\ TokensCovered' /\ SameOFT /\ UNCHANGED <<inbox, nonce, outbox>>
                   /\ store'.tvl_ld = store.tvl_ld /\ mint'.supply = mint.supply
<1>0. /\ store \in Store /\ None \notin Store
      /\ mint \in [supply : U64, authority : Authorities \cup {None}, fee : TransferFee]
  BY NoneStoreAssumption DEF IInv, TypeOK
<1>1. ASSUME UNCHANGED <<bal, book>>, mint'.supply = mint.supply PROVE TokensCovered'
  BY <1>1, CoveredIs
<1>2. ASSUME NEW signer \in Keys, NEW paused \in BOOLEAN,
             SetOFTConfig(signer) \/ SetPause(signer, paused)
      PROVE  Kept
  <2>1. UNCHANGED <<mint, bal, inbox, nonce, outbox, book>>
    BY <1>2 DEF SetOFTConfig, SetPause, Configured
  <2>2. /\ store' # None /\ store'.tvl_ld = store.tvl_ld
        /\ store'.oft_type = store.oft_type /\ store'.ld2sd_rate = store.ld2sd_rate
    BY <1>2, SetOFTConfigStep, SetPauseStep
  <2> QED
    BY <1>1, <2>1, <2>2 DEF SameOFT
<1>3. ASSUME NEW x, NEW y, SetPeerConfig(x, y) \/ LzReceiveTypes(x) \/ Tick PROVE Kept
  <2>1. UNCHANGED <<store, mint, bal, inbox, nonce, outbox, book>>
    BY <1>3 DEF SetPeerConfig, LzReceiveTypes, Tick, Configured
  <2> QED
    BY <1>1, <2>1 DEF SameOFT
<1>4. ASSUME ChangeMint PROVE Kept
  <2>1. UNCHANGED <<store, bal, inbox, nonce, outbox, book>>
    BY <1>4 DEF ChangeMint, Configured
  <2>2. mint'.supply = mint.supply
    BY <1>0, <1>4 DEF ChangeMint
  <2> QED
    BY <1>1, <2>1, <2>2 DEF SameOFT
<1>5. ASSUME NEW signer \in Keys, NEW dest \in Accounts, NEW fee_ld \in Amounts,
             WithdrawFee(signer, dest, fee_ld)
      PROVE  Kept
  <2>1. UNCHANGED <<store, mint, inbox, nonce, outbox>>
    BY <1>5 DEF WithdrawFee
  <2> QED
    BY <1>5, <2>1, WithdrawCovered DEF SameOFT
<1>6. ASSUME NEW user \in Users, NEW amount \in Amounts, Donate(user, amount) PROVE Kept
  <2>1. UNCHANGED <<store, mint, inbox, nonce, outbox>>
    BY <1>6 DEF Donate
  <2> QED
    BY <1>6, <2>1, DonateCovered DEF SameOFT
<1>7. ASSUME NEW x, NEW y, NEW z, InitOFT(x, y, z) PROVE FALSE
  BY <1>7 DEF InitOFT
<1>8. Composes \subseteq BOOLEAN
  BY InputAssumption
<1> HIDE DEF Kept
<1>9. \/ Kept
      \/ \E user \in Users, eid \in Eids, amount_ld, min_amount_ld \in Amounts,
            compose \in BOOLEAN, extra \in ExtraOptions :
           Send(user, eid, amount_ld, min_amount_ld, compose, extra)
      \/ \E packet \in inbox : LzReceive(packet)
  BY <1>2, <1>3, <1>4, <1>5, <1>6, <1>7, <1>8 DEF LocalNext
<1> QED
  BY <1>9 DEF Kept

-----------------------------------------------------------------------------
(* The ledger.                                                             *)

heldNow == [sol |-> SolHeld, evm |-> EvmHeld]

\* Value leaves a chain into a packet.
Departs(id, from, to, v) ==
    /\ from \in {"sol", "evm"} /\ to \in {"sol", "evm"} /\ from # to
    /\ id \in {"sol", "evm"} \X (1..MaxSends) /\ id \notin departed
    /\ v \in Nat /\ v <= heldNow[from] /\ heldNow[from] \in Int
    /\ flight' = flight \cup {[id |-> id, to |-> to, value |-> v]}
    /\ departed' = departed \cup {id}
    /\ heldNow' = [heldNow EXCEPT ![from] = heldNow[from] - v]

LEMMA LedgerDepart ==
    ASSUME NEW id, NEW from, NEW to, NEW v, Departs(id, from, to, v)
    PROVE  Ledger!Next
<1>1. v \in 0..heldNow[from]
  BY DEF Departs
<1>2. Ledger!Depart(id, from, to, v)
  BY DEF Departs, Ledger!Depart, heldNow
<1>3. /\ to \in {"sol", "evm"} \ {from} /\ from \in {"sol", "evm"}
      /\ id \in ({"sol", "evm"} \X (1..MaxSends)) \ departed
  BY DEF Departs
<1> QED
  BY <1>1, <1>2, <1>3 DEF Ledger!Next, heldNow

\* A packet becomes value.
LEMMA LedgerArrive ==
    ASSUME NEW packet \in flight,
           flight' = flight \ {packet}, departed' = departed,
           heldNow' = [heldNow EXCEPT ![packet.to] = heldNow[packet.to] + packet.value]
    PROVE  Ledger!Next
<1>1. Ledger!Arrive(packet)
  BY DEF Ledger!Arrive, heldNow
<1> QED
  BY <1>1 DEF Ledger!Next

ledgerVars == <<heldNow, flight, departed>>

\* What the value on one chain becomes.
LEMMA HeldMoves ==
    /\ heldNow["sol"] = SolHeld /\ heldNow["evm"] = EvmHeld
    /\ \A w : SolHeld' = w /\ EvmHeld' = EvmHeld => heldNow' = [heldNow EXCEPT !["sol"] = w]
    /\ \A w : EvmHeld' = w /\ SolHeld' = SolHeld => heldNow' = [heldNow EXCEPT !["evm"] = w]
<1>1. /\ DOMAIN heldNow = {"sol", "evm"} /\ DOMAIN heldNow' = {"sol", "evm"}
      /\ heldNow["sol"] = SolHeld /\ heldNow["evm"] = EvmHeld
      /\ heldNow'["sol"] = SolHeld' /\ heldNow'["evm"] = EvmHeld'
      /\ heldNow = [x \in DOMAIN heldNow |-> heldNow[x]]
      /\ heldNow' = [x \in DOMAIN heldNow' |-> heldNow'[x]]
  BY DEF heldNow
<1>2. ASSUME NEW w, SolHeld' = w, EvmHeld' = EvmHeld
      PROVE  heldNow' = [heldNow EXCEPT !["sol"] = w]
  BY <1>1, <1>2
<1>3. ASSUME NEW w, EvmHeld' = w, SolHeld' = SolHeld
      PROVE  heldNow' = [heldNow EXCEPT !["evm"] = w]
  BY <1>1, <1>3
<1> QED
  BY <1>1, <1>2, <1>3

\* Both wires.
fromSol == InFlight("sol", "evm", outbox, toEvm, e_inbox)

fromEvm == InFlight("evm", "sol", e_outbox, toSol, inbox)

LEMMA FlightFacts ==
    ASSUME BridgeInv
    PROVE  /\ flight = fromSol \cup fromEvm
           /\ IsFiniteSet(flight) /\ \A p \in flight : p.value \in Nat /\ p.id \in departed
           /\ \A p \in fromSol : p.id[1] = "sol" /\ p.to = "evm"
           /\ \A p \in fromEvm : p.id[1] = "evm" /\ p.to = "sol"
<1>1. outbox \in Seq(OutPacket) /\ \A x \in OutPacket : x.amount_sd \in Nat
  BY DEF BridgeInv, IInv, TypeOK, OutPacket
<1>2. e_outbox \in Seq(EvmPacket) /\ \A x \in EvmPacket : x.amount_sd \in Nat
  <2>1. e_outbox \in Seq(EvmPacket)
    BY EvmTypes DEF BridgeInv
  <2> QED
    BY <2>1, U64Assumption DEF EvmPacket, U64
<1>3. /\ IsFiniteSet(fromSol)
      /\ \A p \in fromSol : p.value \in Nat /\ p.to = "evm"
                            /\ \E i \in DOMAIN outbox : p.id = <<"sol", i>>
  BY <1>1, WireFinite DEF fromSol
<1>4. /\ IsFiniteSet(fromEvm)
      /\ \A p \in fromEvm : p.value \in Nat /\ p.to = "sol"
                            /\ \E i \in DOMAIN e_outbox : p.id = <<"evm", i>>
  BY <1>2, WireFinite DEF fromEvm
<1>5. flight = fromSol \cup fromEvm
  BY DEF flight, fromSol, fromEvm
<1>6. IsFiniteSet(flight)
  BY <1>3, <1>4, <1>5, FS_Union
<1> HIDE DEF fromSol, fromEvm, flight
<1>7. \A p \in fromSol : p.id \in departed /\ p.id[1] = "sol"
  BY <1>3 DEF departed
<1>8. \A p \in fromEvm : p.id \in departed /\ p.id[1] = "evm"
  BY <1>4 DEF departed
<1> QED
  BY <1>3, <1>4, <1>5, <1>6, <1>7, <1>8

LEMMA LockedIs ==
    /\ LockedIsOwed <=>
         (store.oft_type = "Adapter" =>
            store.tvl_ld = store.ld2sd_rate
                             * (EvmHeld - EvmSupply \div EvmRate + Worth(flight)))
    /\ LockedIsOwed' <=>
         (store'.oft_type = "Adapter" =>
            store'.tvl_ld = store'.ld2sd_rate
                              * (EvmHeld' - EvmSupply \div EvmRate + Worth(flight')))
<1>1. LockedIsOwed <=>
         (store.oft_type = "Adapter" =>
            store.tvl_ld = store.ld2sd_rate
                             * (EvmHeld - EvmSupply \div EvmRate + Worth(flight)))
  BY DEF LockedIsOwed, Worth, MapThenSumSet, MapThenFoldSet
<1>2. LockedIsOwed' <=>
         (store'.oft_type = "Adapter" =>
            store'.tvl_ld = store'.ld2sd_rate
                              * (EvmHeld' - EvmSupply \div EvmRate + Worth(flight')))
  BY DEF LockedIsOwed, Worth, MapThenSumSet, MapThenFoldSet
<1> QED
  BY <1>1, <1>2

-----------------------------------------------------------------------------
(* One step of the bridge is a step of the ledger, or none.                *)

LedgerStep == Ledger!Next \/ ledgerVars' = ledgerVars

LEMMA EvmHeldFacts ==
    ASSUME BridgeInv
    PROVE  EvmHeld \in Nat /\ EvmSupply \div EvmRate \in Nat /\ Worth(flight) \in Int
<1>1. e_token.supply \in Nat
  BY DEF BridgeInv, EvmTypeOK
<1>2. EvmHeld \in Nat /\ EvmSupply \div EvmRate \in Nat
  BY <1>1, BridgeAssumption, DivMod DEF EvmHeld
<1>3. IsFiniteSet(flight) /\ \A p \in flight : p.value \in Int
  BY FlightFacts
<1> QED
  BY <1>2, <1>3, WorthIsInt

\* The lock moves with what is owed.
LEMMA LockedMoves ==
    ASSUME BridgeInv, SameOFT, NEW d \in Int,
           EvmHeld' + Worth(flight') = EvmHeld + Worth(flight) + d,
           EvmHeld' \in Int, Worth(flight') \in Int,
           store.oft_type = "Adapter" => store'.tvl_ld = store.tvl_ld + d * store.ld2sd_rate
    PROVE  LockedIsOwed'
<1> DEFINE start == EvmSupply \div EvmRate
           r == store.ld2sd_rate
           owed == EvmHeld - start + Worth(flight)
           next == EvmHeld' - start + Worth(flight')
<1>1. EvmHeld \in Nat /\ start \in Nat /\ Worth(flight) \in Int
  BY EvmHeldFacts
<1>2. r \in Nat
  BY DEF BridgeInv, IInv, TypeOK, Store
<1>3. next = owed + d /\ owed \in Int
  <2> HIDE DEF start
  <2> QED
    BY <1>1
<1>4. store.oft_type = "Adapter" => store.tvl_ld = r * owed
  BY LockedIs DEF BridgeInv
<1> HIDE DEF r, owed, next, start
<1>5. r * next = r * owed + d * r
  BY <1>2, <1>3
<1>6. store.oft_type = "Adapter" => store'.tvl_ld = r * next
  BY <1>4, <1>5 DEF r
<1> QED
  BY <1>6, LockedIs DEF SameOFT, r, next, start

\* A packet joins what is in flight, or leaves it.
LEMMA FlightGrows ==
    ASSUME BridgeInv, NEW new, new.id \notin departed, new.value \in Nat,
           flight' = flight \cup {new}
    PROVE  Worth(flight') = Worth(flight) + new.value
<1>1. IsFiniteSet(flight) /\ \A p \in flight : p.value \in Int /\ p.id \in departed
  BY FlightFacts
<1>2. new \notin flight /\ new.value \in Int
  BY <1>1
<1>3. Worth(flight \cup {new}) = Worth(flight) + new.value
  BY <1>1, <1>2, WorthAdd
<1> QED
  BY <1>3, Zenon

LEMMA FlightShrinks ==
    ASSUME BridgeInv, NEW old \in flight, flight' = flight \ {old}
    PROVE  Worth(flight') = Worth(flight) - old.value /\ old.value \in Nat
<1>1. IsFiniteSet(flight) /\ \A p \in flight : p.value \in Int
  BY FlightFacts
<1>2. Worth(flight \ {old}) = Worth(flight) - old.value
  BY <1>1, WorthRemove
<1>3. old.value \in Nat
  BY FlightFacts
<1> QED
  BY <1>2, <1>3, Zenon

\* What is not locked, or exists, on Solana.
LEMMA SolHeldFacts ==
    ASSUME BridgeInv, SameOFT, NEW v \in Nat
    PROVE  /\ /\ store.oft_type = "Adapter" =>
                   /\ v * store.ld2sd_rate <= Supply - store.tvl_ld
                   /\ store'.tvl_ld = store.tvl_ld + v * store.ld2sd_rate
              /\ store.oft_type = "Native" =>
                   /\ v * store.ld2sd_rate <= mint.supply
                   /\ mint'.supply = mint.supply - v * store.ld2sd_rate
              => SolHeld' = SolHeld - v /\ v <= SolHeld /\ SolHeld \in Nat
           /\ /\ store.oft_type = "Adapter" =>
                   /\ store.tvl_ld <= Supply
                   /\ store'.tvl_ld = store.tvl_ld - v * store.ld2sd_rate
              /\ store.oft_type = "Native" =>
                   mint'.supply = mint.supply + v * store.ld2sd_rate
              => SolHeld' = SolHeld + v
<1> DEFINE r == store.ld2sd_rate
           a == IF store.oft_type = "Adapter" THEN Supply - store.tvl_ld ELSE mint.supply
           b == IF store.oft_type = "Adapter" THEN Supply - store'.tvl_ld ELSE mint'.supply
           w == v * r
<1>1. SolHeld = a \div r /\ SolHeld' = b \div r
  BY DEF SolHeld, ld2sd, SameOFT
<1>2. /\ r \in Nat \ {0} /\ store.oft_type \in {"Native", "Adapter"}
      /\ store.tvl_ld \in Nat /\ mint.supply \in Nat /\ Supply \in Nat
  BY InputAssumption, U64Assumption DEF BridgeInv, IInv, TypeOK, Store, U64
<1>3. w \in Nat
  BY <1>2
<1>4. /\ a \in Nat => (a + w) \div r = a \div r + v
      /\ a \in Nat /\ w <= a => v <= a \div r /\ (a - w) \div r = a \div r - v
  <2> HIDE DEF a, r
  <2> QED
    BY <1>2, DivShift
<1>5. a \in Nat => a \div r \in Nat
  <2> HIDE DEF a, r
  <2> QED
    BY <1>2, DivMod
<1>6. ASSUME /\ store.oft_type = "Adapter" =>
                   /\ w <= Supply - store.tvl_ld
                   /\ store'.tvl_ld = store.tvl_ld + w
             /\ store.oft_type = "Native" => w <= mint.supply /\ mint'.supply = mint.supply - w
      PROVE  a \in Nat /\ w <= a /\ b = a - w
  <2> HIDE DEF w
  <2> QED
    BY <1>2, <1>3, <1>6
<1>7. ASSUME /\ store.oft_type = "Adapter" =>
                   store.tvl_ld <= Supply /\ store'.tvl_ld = store.tvl_ld - w
             /\ store.oft_type = "Native" => mint'.supply = mint.supply + w
      PROVE  a \in Nat /\ b = a + w
  <2> HIDE DEF w
  <2> QED
    BY <1>2, <1>3, <1>7
<1> HIDE DEF a, b
<1> QED
  BY <1>1, <1>4, <1>5, <1>6, <1>7

LEMMA TvlInSupply ==
    ASSUME BridgeInv
    PROVE  store.oft_type = "Adapter" => store.tvl_ld <= Supply
<1>1. /\ \A a \in Accounts : bal[a] \in Nat
      /\ mint.supply \in Nat /\ book.withheld \in Nat /\ store.tvl_ld \in Nat
      /\ book.fees \in Int /\ Escrow \in Accounts
  BY U64Assumption DEF BridgeInv, IInv, TypeOK, U64, Book, Store, Accounts
<1>2. Ints(bal, Accounts) /\ Ints(bal, Accounts \ {Escrow})
  BY <1>1 DEF Ints
<1>3. Total(bal, Accounts) = bal[Escrow] + Total(bal, Accounts \ {Escrow})
  BY <1>1, <1>2, AccountsFinite, TotalRemove
<1>4. Total(bal, Accounts \ {Escrow}) \in Nat
  <2>1. IsFiniteSet(Accounts \ {Escrow}) /\ \A a \in Accounts \ {Escrow} : bal[a] \in Nat
    BY <1>1, AccountsFinite, FS_RemoveElement
  <2> QED
    BY <2>1, TotalIsNat
<1>5. Total(bal, Accounts) + book.withheld <= mint.supply
  BY CoveredIs DEF BridgeInv
<1>6. store.tvl_ld <= bal[Escrow]
  BY <1>1 DEF BridgeInv, IInv, EscrowAccounting
<1>7. store.oft_type = "Adapter" => mint.supply = Supply
  BY DEF BridgeInv, IInv, ValueConserved
<1> QED
  BY <1>1, <1>3, <1>4, <1>5, <1>6, <1>7

LEMMA SolSendCase ==
    ASSUME BridgeInv, IInv', NEW user \in Users, NEW eid \in Eids,
           NEW amount_ld \in Amounts, NEW min_amount_ld \in Amounts,
           NEW compose \in BOOLEAN, NEW extra \in ExtraOptions,
           Send(user, eid, amount_ld, min_amount_ld, compose, extra),
           UNCHANGED <<evmVars, relayVars>>
    PROVE  BridgeInv' /\ LedgerStep
<1>1. UNCHANGED <<e_peers, e_token, e_inbox, e_outbox, e_nonce, toEvm, toSol>>
  BY DEF evmVars, relayVars
<1>2. IInv /\ TokensCovered /\ outbox \in Seq(OutPacket)
  BY DEF BridgeInv, IInv, TypeOK
<1>3. TokensCovered' /\ SameOFT /\ UNCHANGED <<inbox, nonce>>
  BY <1>2, SolSends
<1>4. PICK x \in OutPacket :
        /\ Len(outbox) < MaxSends
        /\ outbox' = Append(outbox, x)
        /\ store.oft_type = "Adapter" =>
             /\ x.amount_sd * store.ld2sd_rate <= Supply - store.tvl_ld
             /\ store'.tvl_ld = store.tvl_ld + x.amount_sd * store.ld2sd_rate
        /\ store.oft_type = "Native" =>
             /\ x.amount_sd * store.ld2sd_rate <= mint.supply
             /\ mint'.supply = mint.supply - x.amount_sd * store.ld2sd_rate
  BY <1>2, SolSends
<1> DEFINE n == Len(outbox) + 1
           v == x.amount_sd
           id == <<"sol", n>>
           new == [id |-> id, to |-> "evm", value |-> v]
<1>5. v \in Nat /\ n \in 1..MaxSends
  BY <1>2, <1>4, InputAssumption DEF OutPacket
<1>6. RelayOK(outbox, toEvm, e_inbox, e_nonce)
  BY DEF BridgeInv
<1>7. /\ RelayOK(outbox', toEvm, e_inbox, e_nonce)
      /\ DOMAIN outbox' = DOMAIN outbox \cup {n} /\ n \notin DOMAIN outbox
      /\ InFlight("sol", "evm", outbox', toEvm, e_inbox)
           = InFlight("sol", "evm", outbox, toEvm, e_inbox) \cup {new}
  BY <1>2, <1>4, <1>6, WireSend
<1> HIDE DEF v, n
<1>8. flight' = flight \cup {new}
  BY <1>1, <1>3, <1>7 DEF flight
<1>9. departed' = departed \cup {id} /\ id \notin departed
  BY <1>1, <1>7 DEF departed
<1>10. id \in {"sol", "evm"} \X (1..MaxSends)
  BY <1>5
<1>11. SolHeld' = SolHeld - v /\ v <= SolHeld /\ SolHeld \in Nat
  BY <1>3, <1>4, <1>5, SolHeldFacts DEF v
<1>12. EvmHeld' = EvmHeld
  BY <1>1 DEF EvmHeld
<1>13. new.id = id /\ new.value = v
  OBVIOUS
<1>14. Worth(flight') = Worth(flight) + v
  <2> HIDE DEF new
  <2> QED
    BY <1>5, <1>8, <1>9, <1>13, FlightGrows
<1>15. LockedIsOwed'
  BY <1>3, <1>4, <1>5, <1>12, <1>14, EvmHeldFacts, LockedMoves DEF v
<1>16. EvmTypeOK'
  BY <1>1 DEF EvmTypeOK, BridgeInv
<1>17. RelayOK(e_outbox, toSol, inbox, nonce)'
  BY <1>1, <1>3 DEF BridgeInv, RelayOK
<1>18. BridgeInv'
  BY <1>1, <1>3, <1>7, <1>15, <1>16, <1>17 DEF BridgeInv, SameOFT
<1>19. /\ heldNow["sol"] = SolHeld
       /\ heldNow' = [heldNow EXCEPT !["sol"] = heldNow["sol"] - v]
  BY <1>11, <1>12, HeldMoves
<1>20. Departs(id, "sol", "evm", v)
  BY <1>5, <1>8, <1>9, <1>10, <1>11, <1>19 DEF Departs
<1>21. Ledger!Next
  BY <1>20, LedgerDepart
<1> QED
  BY <1>18, <1>21 DEF LedgerStep

LEMMA SolReceiveCase ==
    ASSUME BridgeInv, IInv', NEW packet \in inbox, LzReceive(packet),
           UNCHANGED <<evmVars, relayVars>>
    PROVE  BridgeInv' /\ LedgerStep
<1>1. UNCHANGED <<e_peers, e_token, e_inbox, e_outbox, e_nonce, toEvm, toSol>>
  BY DEF evmVars, relayVars
<1>2. IInv /\ TokensCovered
  BY DEF BridgeInv
<1> DEFINE v == packet.amount_sd
           old == [id |-> <<"evm", toSol[packet.nonce]>>, to |-> "sol", value |-> v]
<1>3. /\ TokensCovered' /\ SameOFT /\ UNCHANGED <<outbox, nonce>>
      /\ inbox' = inbox \ {packet} /\ v \in Nat
      /\ store.oft_type = "Adapter" =>
           store'.tvl_ld = store.tvl_ld - v * store.ld2sd_rate
      /\ store.oft_type = "Native" =>
           mint'.supply = mint.supply + v * store.ld2sd_rate
  BY <1>2, SolReceives
<1>4. RelayOK(e_outbox, toSol, inbox, nonce)
  BY DEF BridgeInv
<1>5. /\ RelayOK(e_outbox, toSol, inbox \ {packet}, nonce)
      /\ old \in InFlight("evm", "sol", e_outbox, toSol, inbox)
      /\ InFlight("evm", "sol", e_outbox, toSol, inbox \ {packet})
           = InFlight("evm", "sol", e_outbox, toSol, inbox) \ {old}
  BY <1>4, WireReceive
<1>6. old.to = "sol" /\ old.value = v /\ old.id[1] = "evm"
  OBVIOUS
<1> HIDE DEF v, old
<1>7. fromEvm' = fromEvm \ {old} /\ fromSol' = fromSol /\ old \in fromEvm
  BY <1>1, <1>3, <1>5 DEF fromEvm, fromSol
<1>8. old \notin fromSol
  BY <1>6, FlightFacts
<1>9. flight' = fromSol' \cup fromEvm' /\ flight = fromSol \cup fromEvm
  BY DEF flight, fromSol, fromEvm
<1>10. old \in flight /\ flight' = flight \ {old}
  BY <1>7, <1>8, <1>9
<1>11. departed' = departed
  BY <1>1, <1>3 DEF departed
<1>12. SolHeld' = SolHeld + v
  BY <1>3, TvlInSupply, SolHeldFacts
<1>13. EvmHeld' = EvmHeld
  BY <1>1 DEF EvmHeld
<1>14. Worth(flight') = Worth(flight) - v
  BY <1>6, <1>10, FlightShrinks
<1>15. LockedIsOwed'
  <2>1. EvmHeld \in Nat /\ Worth(flight) \in Int
    BY EvmHeldFacts
  <2>2. store.oft_type = "Adapter" => store'.tvl_ld = store.tvl_ld + (-v) * store.ld2sd_rate
    BY <1>3, U64Assumption DEF BridgeInv, IInv, TypeOK, Store, U64
  <2>3. EvmHeld' + Worth(flight') = EvmHeld + Worth(flight) + (-v) /\ -v \in Int
    BY <1>3, <1>13, <1>14, <2>1
  <2>4. EvmHeld' \in Int /\ Worth(flight') \in Int
    BY <1>3, <1>13, <1>14, <2>1
  <2> QED
    BY <1>3, <2>2, <2>3, <2>4, LockedMoves
<1>16. EvmTypeOK'
  BY <1>1 DEF EvmTypeOK, BridgeInv
<1>17. RelayOK(outbox, toEvm, e_inbox, e_nonce)'
  BY <1>1, <1>3 DEF BridgeInv, RelayOK
<1>18. RelayOK(e_outbox, toSol, inbox, nonce)'
  BY <1>1, <1>3, <1>5
<1>19. BridgeInv'
  BY <1>3, <1>15, <1>16, <1>17, <1>18 DEF BridgeInv, SameOFT
<1>20. /\ heldNow["sol"] = SolHeld
       /\ heldNow' = [heldNow EXCEPT !["sol"] = heldNow["sol"] + v]
  BY <1>12, <1>13, HeldMoves
<1>21. heldNow' = [heldNow EXCEPT ![old.to] = heldNow[old.to] + old.value]
  BY <1>6, <1>20, Zenon
<1>22. Ledger!Next
  BY <1>10, <1>11, <1>21, LedgerArrive
<1> QED
  BY <1>19, <1>22 DEF LedgerStep

\* Nothing happens to Solana: its part of the invariant and its value stay.
LEMMA SolKept ==
    ASSUME BridgeInv, UNCHANGED vars
    PROVE  /\ IInv' /\ store' # None /\ TokensCovered' /\ SameOFT
           /\ SolHeld' = SolHeld
           /\ UNCHANGED <<store, inbox, nonce, outbox>>
<1>1. UNCHANGED <<store, peers, delegate, mint, bal, inbox, nonce, plan, outbox,
                  composed, now, configs, book>>
  BY DEF vars
<1>2. IInv'
  BY NextInv DEF BridgeInv
<1>3. TokensCovered'
  BY <1>1, CoveredIs DEF BridgeInv
<1> QED
  BY <1>1, <1>2, <1>3 DEF SameOFT, SolHeld, BridgeInv

LEMMA EvmSendCase ==
    ASSUME BridgeInv, UNCHANGED <<vars, relayVars>>,
           NEW user \in EvmUsers, NEW amountLD \in EvmAmounts,
           NEW minAmountLD \in EvmAmounts, NEW compose \in BOOLEAN,
           Evm!Send(user, SolEid, amountLD, minAmountLD, compose)
    PROVE  BridgeInv' /\ LedgerStep
<1>1. UNCHANGED <<toEvm, toSol>> /\ UNCHANGED vars
  BY DEF relayVars
<1>2. /\ IInv' /\ store' # None /\ TokensCovered' /\ SameOFT
      /\ SolHeld' = SolHeld /\ UNCHANGED <<store, inbox, nonce, outbox>>
  BY <1>1, SolKept
<1>3. EvmTypeOK /\ e_outbox \in Seq(EvmPacket) /\ e_token \in EvmToken
      /\ RelayOK(e_outbox, toSol, inbox, nonce)
  BY EvmTypes DEF BridgeInv
<1>4. PICK x \in EvmPacket :
        /\ Len(e_outbox) < MaxSends
        /\ e_outbox' = Append(e_outbox, x)
        /\ UNCHANGED <<e_inbox, e_nonce, e_peers>>
        /\ e_token' \in EvmToken
        /\ x.amount_sd * EvmRate <= e_token.supply
        /\ e_token'.supply = e_token.supply - x.amount_sd * EvmRate
  BY <1>3, EvmSends
<1> DEFINE n == Len(e_outbox) + 1
           v == x.amount_sd
           id == <<"evm", n>>
           new == [id |-> id, to |-> "sol", value |-> v]
<1>5. v \in Nat /\ n \in 1..MaxSends
  <2>1. v \in Nat
    BY U64Assumption DEF EvmPacket, U64
  <2> QED
    BY <1>3, <1>4, <2>1, InputAssumption
<1>6. /\ RelayOK(e_outbox', toSol, inbox, nonce)
      /\ DOMAIN e_outbox' = DOMAIN e_outbox \cup {n} /\ n \notin DOMAIN e_outbox
      /\ InFlight("evm", "sol", e_outbox', toSol, inbox)
           = InFlight("evm", "sol", e_outbox, toSol, inbox) \cup {new}
  BY <1>3, <1>4, WireSend
<1>7. EvmHeld' = EvmHeld - v /\ v <= EvmHeld /\ EvmHeld \in Nat
  <2>1. e_token.supply \in Nat /\ EvmRate \in Nat \ {0}
    BY <1>3, BridgeAssumption DEF EvmToken
  <2>2. v <= e_token.supply \div EvmRate
        /\ (e_token.supply - v * EvmRate) \div EvmRate = e_token.supply \div EvmRate - v
    BY <1>4, <1>5, <2>1, DivShift
  <2> QED
    BY <1>4, <2>2, EvmHeldFacts DEF EvmHeld
<1> HIDE DEF v, n
<1>8. flight' = flight \cup {new}
  BY <1>1, <1>2, <1>4, <1>6 DEF flight
<1>9. departed' = departed \cup {id} /\ id \notin departed
  BY <1>2, <1>6 DEF departed
<1>10. id \in {"sol", "evm"} \X (1..MaxSends)
  BY <1>5
<1>11. new.id = id /\ new.value = v
  OBVIOUS
<1>12. Worth(flight') = Worth(flight) + v
  <2> HIDE DEF new
  <2> QED
    BY <1>5, <1>8, <1>9, <1>11, FlightGrows
<1>13. LockedIsOwed'
  <2>1. EvmHeld \in Nat /\ Worth(flight) \in Int
    BY EvmHeldFacts
  <2>2. store.oft_type = "Adapter" => store'.tvl_ld = store.tvl_ld + 0 * store.ld2sd_rate
    BY <1>2, U64Assumption DEF BridgeInv, IInv, TypeOK, Store, U64
  <2>3. EvmHeld' + Worth(flight') = EvmHeld + Worth(flight) + 0
    BY <1>5, <1>7, <1>12, <2>1
  <2>4. EvmHeld' \in Int /\ Worth(flight') \in Int
    BY <1>5, <1>7, <1>12, <2>1
  <2> QED
    BY <1>2, <2>2, <2>3, <2>4, LockedMoves
<1>14. EvmTypeOK'
  <2>1. e_outbox' \in Seq(EvmPacket)
    BY <1>3, <1>4
  <2> QED
    BY <1>3, <1>4, <2>1, EvmTypes DEF EvmTypeOK, EvmToken, EvmPacket
<1>15. RelayOK(outbox, toEvm, e_inbox, e_nonce)'
  BY <1>1, <1>2, <1>4 DEF BridgeInv, RelayOK
<1>16. BridgeInv'
  BY <1>1, <1>2, <1>6, <1>13, <1>14, <1>15 DEF BridgeInv
<1>17. /\ heldNow["evm"] = EvmHeld
       /\ heldNow' = [heldNow EXCEPT !["evm"] = heldNow["evm"] - v]
  BY <1>2, <1>7, HeldMoves
<1>18. Departs(id, "evm", "sol", v)
  BY <1>5, <1>7, <1>8, <1>9, <1>10, <1>17 DEF Departs
<1>19. Ledger!Next
  BY <1>18, LedgerDepart
<1> QED
  BY <1>16, <1>19 DEF LedgerStep

LEMMA EvmReceiveCase ==
    ASSUME BridgeInv, UNCHANGED <<vars, relayVars>>,
           NEW packet \in e_inbox, Evm!LzReceive(packet)
    PROVE  BridgeInv' /\ LedgerStep
<1>1. UNCHANGED <<toEvm, toSol>> /\ UNCHANGED vars
  BY DEF relayVars
<1>2. /\ IInv' /\ store' # None /\ TokensCovered' /\ SameOFT
      /\ SolHeld' = SolHeld /\ UNCHANGED <<store, inbox, nonce, outbox>>
  BY <1>1, SolKept
<1>3. EvmTypeOK /\ e_token \in EvmToken /\ RelayOK(outbox, toEvm, e_inbox, e_nonce)
  BY EvmTypes DEF BridgeInv
<1> DEFINE v == packet.amount_sd
           old == [id |-> <<"sol", toEvm[packet.nonce]>>, to |-> "evm", value |-> v]
<1>4. /\ e_inbox' = e_inbox \ {packet}
      /\ UNCHANGED <<e_outbox, e_nonce, e_peers>>
      /\ e_token' \in EvmToken
      /\ v \in Nat
      /\ e_token'.supply = e_token.supply + v * EvmRate
  BY <1>3, EvmReceives
<1>5. /\ RelayOK(outbox, toEvm, e_inbox \ {packet}, e_nonce)
      /\ old \in InFlight("sol", "evm", outbox, toEvm, e_inbox)
      /\ InFlight("sol", "evm", outbox, toEvm, e_inbox \ {packet})
           = InFlight("sol", "evm", outbox, toEvm, e_inbox) \ {old}
  BY <1>3, WireReceive
<1>6. old.to = "evm" /\ old.value = v /\ old.id[1] = "sol"
  OBVIOUS
<1> HIDE DEF v, old
<1>7. fromSol' = fromSol \ {old} /\ fromEvm' = fromEvm /\ old \in fromSol
  BY <1>1, <1>2, <1>4, <1>5 DEF fromEvm, fromSol
<1>8. old \notin fromEvm
  BY <1>6, FlightFacts
<1>9. flight' = fromSol' \cup fromEvm' /\ flight = fromSol \cup fromEvm
  BY DEF flight, fromSol, fromEvm
<1>10. old \in flight /\ flight' = flight \ {old}
  BY <1>7, <1>8, <1>9
<1>11. departed' = departed
  BY <1>2, <1>4 DEF departed
<1>12. EvmHeld' = EvmHeld + v
  <2>1. e_token.supply \in Nat /\ EvmRate \in Nat \ {0}
    BY <1>3, BridgeAssumption DEF EvmToken
  <2>2. (e_token.supply + v * EvmRate) \div EvmRate = e_token.supply \div EvmRate + v
    BY <1>4, <2>1, DivShift
  <2> QED
    BY <1>4, <2>2 DEF EvmHeld
<1>13. Worth(flight') = Worth(flight) - v
  BY <1>6, <1>10, FlightShrinks
<1>14. LockedIsOwed'
  <2>1. EvmHeld \in Nat /\ Worth(flight) \in Int
    BY EvmHeldFacts
  <2>2. store.oft_type = "Adapter" => store'.tvl_ld = store.tvl_ld + 0 * store.ld2sd_rate
    BY <1>2, U64Assumption DEF BridgeInv, IInv, TypeOK, Store, U64
  <2>3. EvmHeld' + Worth(flight') = EvmHeld + Worth(flight) + 0
    BY <1>4, <1>12, <1>13, <2>1
  <2>4. EvmHeld' \in Int /\ Worth(flight') \in Int
    BY <1>4, <1>12, <1>13, <2>1
  <2> QED
    BY <1>2, <2>2, <2>3, <2>4, LockedMoves
<1>15. EvmTypeOK'
  BY <1>3, <1>4 DEF EvmTypeOK, EvmToken
<1>16. RelayOK(e_outbox, toSol, inbox, nonce)'
  BY <1>1, <1>2, <1>4 DEF BridgeInv, RelayOK
<1>17. RelayOK(outbox, toEvm, e_inbox, e_nonce)'
  BY <1>1, <1>2, <1>4, <1>5
<1>18. BridgeInv'
  BY <1>2, <1>14, <1>15, <1>16, <1>17 DEF BridgeInv
<1>19. /\ heldNow["evm"] = EvmHeld
       /\ heldNow' = [heldNow EXCEPT !["evm"] = heldNow["evm"] + v]
  BY <1>2, <1>12, HeldMoves
<1>20. heldNow' = [heldNow EXCEPT ![old.to] = heldNow[old.to] + old.value]
  BY <1>6, <1>19, Zenon
<1>21. Ledger!Next
  BY <1>10, <1>11, <1>20, LedgerArrive
<1> QED
  BY <1>18, <1>21 DEF LedgerStep

\* Steps that the ledger does not see.
LEMMA Unseen ==
    ASSUME BridgeInv, SameOFT, store'.tvl_ld = store.tvl_ld,
           SolHeld' = SolHeld, EvmHeld' = EvmHeld, flight' = flight, departed' = departed
    PROVE  LockedIsOwed' /\ LedgerStep
<1>1. EvmHeld \in Nat /\ Worth(flight) \in Int /\ Worth(flight') = Worth(flight)
  BY EvmHeldFacts
<1>2. store.oft_type = "Adapter" => store'.tvl_ld = store.tvl_ld + 0 * store.ld2sd_rate
  BY U64Assumption DEF BridgeInv, IInv, TypeOK, Store, U64
<1>3. LockedIsOwed'
  <2>1. EvmHeld' + Worth(flight') = EvmHeld + Worth(flight) + 0
    BY <1>1
  <2>2. EvmHeld' \in Int /\ Worth(flight') \in Int
    BY <1>1
  <2> QED
    BY <1>2, <2>1, <2>2, LockedMoves
<1>4. ledgerVars' = ledgerVars
  BY DEF ledgerVars, heldNow
<1> QED
  BY <1>3, <1>4 DEF LedgerStep

LEMMA SolOtherCase ==
    ASSUME BridgeInv, IInv', UNCHANGED <<evmVars, relayVars>>,
           TokensCovered', SameOFT, UNCHANGED <<inbox, nonce, outbox>>,
           store'.tvl_ld = store.tvl_ld, mint'.supply = mint.supply
    PROVE  BridgeInv' /\ LedgerStep
<1>1. UNCHANGED <<e_peers, e_token, e_inbox, e_outbox, e_nonce, toEvm, toSol>>
  BY DEF evmVars, relayVars
<1>2. flight' = flight /\ departed' = departed
  BY <1>1 DEF flight, departed
<1>3. SolHeld' = SolHeld /\ EvmHeld' = EvmHeld
  BY <1>1 DEF SolHeld, EvmHeld, SameOFT
<1>4. LockedIsOwed' /\ LedgerStep
  BY <1>2, <1>3, Unseen
<1>5. EvmTypeOK'
  BY <1>1 DEF EvmTypeOK, BridgeInv
<1>6. RelayOK(outbox, toEvm, e_inbox, e_nonce)' /\ RelayOK(e_outbox, toSol, inbox, nonce)'
  BY <1>1 DEF BridgeInv, RelayOK
<1> QED
  BY <1>4, <1>5, <1>6 DEF BridgeInv, SameOFT

LEMMA EvmOtherCase ==
    ASSUME BridgeInv, UNCHANGED <<vars, relayVars>>,
           UNCHANGED <<e_inbox, e_nonce, e_outbox>>,
           e_peers' \in [{SolEid} -> {SolAddr, None}],
           e_token' \in EvmToken, e_token'.supply = e_token.supply
    PROVE  BridgeInv' /\ LedgerStep
<1>1. UNCHANGED <<toEvm, toSol>> /\ UNCHANGED vars
  BY DEF relayVars
<1>2. /\ IInv' /\ store' # None /\ TokensCovered' /\ SameOFT
      /\ SolHeld' = SolHeld /\ UNCHANGED <<store, inbox, nonce, outbox>>
  BY <1>1, SolKept
<1>3. flight' = flight /\ departed' = departed /\ EvmHeld' = EvmHeld
  BY <1>1, <1>2 DEF flight, departed, EvmHeld
<1>4. LockedIsOwed' /\ LedgerStep
  BY <1>2, <1>3, Unseen
<1>5. EvmTypeOK'
  BY DEF EvmTypeOK, BridgeInv, EvmToken
<1>6. RelayOK(outbox, toEvm, e_inbox, e_nonce)' /\ RelayOK(e_outbox, toSol, inbox, nonce)'
  BY <1>1, <1>2 DEF BridgeInv, RelayOK
<1> QED
  BY <1>2, <1>4, <1>5, <1>6 DEF BridgeInv

LEMMA RelayToEvmCase ==
    ASSUME BridgeInv, NEW i \in DOMAIN outbox, RelayToEvm(i)
    PROVE  BridgeInv' /\ LedgerStep
<1>1. PICK to \in EvmUsers :
        Evm!Verify(SolEid, SolAddr, to, outbox[i].amount_sd, outbox[i].compose)
  BY DEF RelayToEvm
<1>2. /\ i \notin Relayed(toEvm) /\ toEvm' = Append(toEvm, i)
      /\ UNCHANGED vars /\ toSol' = toSol
  BY DEF RelayToEvm
<1> DEFINE x == [nonce |-> e_nonce + 1, src_eid |-> SolEid, sender |-> SolAddr, to |-> to,
                 amount_sd |-> outbox[i].amount_sd, compose |-> outbox[i].compose]
<1>3. /\ e_nonce' = e_nonce + 1 /\ e_inbox' = e_inbox \cup {x}
      /\ UNCHANGED <<e_peers, e_token, e_outbox>>
  BY <1>1 DEF Evm!Verify
<1>4. /\ IInv' /\ store' # None /\ TokensCovered' /\ SameOFT
      /\ SolHeld' = SolHeld /\ UNCHANGED <<store, inbox, nonce, outbox>>
  BY <1>2, SolKept
<1>5. RelayOK(outbox, toEvm, e_inbox, e_nonce) /\ outbox[i] \in OutPacket
  <2>1. outbox \in Seq(OutPacket)
    BY DEF BridgeInv, IInv, TypeOK
  <2> QED
    BY <2>1 DEF BridgeInv
<1>6. x.nonce = e_nonce + 1 /\ x.amount_sd = outbox[i].amount_sd
  OBVIOUS
<1>7. x \in EvmArrival
  <2>1. e_nonce \in Nat
    BY <1>5 DEF RelayOK
  <2> QED
    BY <1>5, <2>1 DEF EvmArrival, OutPacket
<1> HIDE DEF x
<1>8. /\ RelayOK(outbox, Append(toEvm, i), e_inbox \cup {x}, e_nonce + 1)
      /\ InFlight("sol", "evm", outbox, Append(toEvm, i), e_inbox \cup {x})
           = InFlight("sol", "evm", outbox, toEvm, e_inbox)
  BY <1>2, <1>5, <1>6, WireVerify
<1>9. RelayOK(outbox, toEvm, e_inbox, e_nonce)'
  BY <1>2, <1>3, <1>4, <1>8
<1>10. InFlight("sol", "evm", outbox', toEvm', e_inbox')
         = InFlight("sol", "evm", outbox, toEvm, e_inbox)
  BY <1>2, <1>3, <1>4, <1>8
<1>11. flight' = flight /\ departed' = departed /\ EvmHeld' = EvmHeld
  BY <1>2, <1>3, <1>4, <1>10 DEF flight, departed, EvmHeld
<1>12. LockedIsOwed' /\ LedgerStep
  BY <1>4, <1>11, Unseen
<1>13. EvmTypeOK'
  BY <1>3, <1>7 DEF EvmTypeOK, EvmArrival, BridgeInv
<1>14. RelayOK(e_outbox, toSol, inbox, nonce)'
  BY <1>2, <1>3, <1>4 DEF BridgeInv, RelayOK
<1> QED
  BY <1>4, <1>9, <1>12, <1>13, <1>14 DEF BridgeInv

LEMMA RelayToSolCase ==
    ASSUME BridgeInv, NEW i \in DOMAIN e_outbox, RelayToSol(i)
    PROVE  BridgeInv' /\ LedgerStep
<1>1. PICK to \in Users :
        Verify(EvmEid, EvmAddr, to, e_outbox[i].amount_sd, e_outbox[i].compose)
  BY DEF RelayToSol
<1>2. /\ i \notin Relayed(toSol) /\ toSol' = Append(toSol, i)
      /\ UNCHANGED evmVars /\ toEvm' = toEvm
  BY DEF RelayToSol
<1>3. UNCHANGED <<e_peers, e_token, e_inbox, e_outbox, e_nonce>>
  BY <1>2 DEF evmVars
<1> DEFINE x == [nonce |-> nonce + 1, src_eid |-> EvmEid, sender |-> EvmAddr, to |-> to,
                 amount_sd |-> e_outbox[i].amount_sd, compose |-> e_outbox[i].compose]
<1>4. /\ nonce' = nonce + 1 /\ inbox' = inbox \cup {x}
      /\ UNCHANGED <<store, mint, bal, book, outbox>>
  BY <1>1 DEF Verify
<1>5. RelayOK(e_outbox, toSol, inbox, nonce) /\ e_outbox[i] \in EvmPacket
  <2>1. e_outbox \in Seq(EvmPacket)
    BY EvmTypes DEF BridgeInv
  <2> QED
    BY <2>1 DEF BridgeInv
<1>6. IInv'
  <2>1. e_outbox[i].amount_sd \in U64 /\ e_outbox[i].compose \in BOOLEAN
    BY <1>5 DEF EvmPacket
  <2>2. IInv /\ EvmEid \in Eids /\ EvmAddr \in Addrs
    BY BridgeAssumption DEF BridgeInv
  <2> QED
    BY <1>1, <2>1, <2>2, VerifyStep
<1>7. x.nonce = nonce + 1 /\ x.amount_sd = e_outbox[i].amount_sd
  OBVIOUS
<1> HIDE DEF x
<1>8. /\ RelayOK(e_outbox, Append(toSol, i), inbox \cup {x}, nonce + 1)
      /\ InFlight("evm", "sol", e_outbox, Append(toSol, i), inbox \cup {x})
           = InFlight("evm", "sol", e_outbox, toSol, inbox)
  <2>1. i \notin Relayed(toSol) /\ RelayOK(e_outbox, toSol, inbox, nonce)
    BY <1>2, <1>5
  <2> QED
    BY <1>7, <2>1, WireVerify, SMTT(30)
<1>9. RelayOK(e_outbox, toSol, inbox, nonce)'
  BY <1>2, <1>3, <1>4, <1>8
<1>10. InFlight("evm", "sol", e_outbox', toSol', inbox')
         = InFlight("evm", "sol", e_outbox, toSol, inbox)
  BY <1>2, <1>3, <1>4, <1>8
<1>11. flight' = flight /\ departed' = departed
  BY <1>2, <1>3, <1>4, <1>10 DEF flight, departed
<1>12. SameOFT /\ SolHeld' = SolHeld /\ EvmHeld' = EvmHeld /\ store' # None
  BY <1>3, <1>4 DEF SameOFT, SolHeld, EvmHeld, BridgeInv
<1>13. LockedIsOwed' /\ LedgerStep
  BY <1>4, <1>11, <1>12, Unseen
<1>14. TokensCovered'
  BY <1>4, CoveredIs DEF BridgeInv
<1>15. EvmTypeOK'
  BY <1>3 DEF EvmTypeOK, BridgeInv
<1>16. RelayOK(outbox, toEvm, e_inbox, e_nonce)'
  BY <1>2, <1>3, <1>4 DEF BridgeInv, RelayOK
<1> QED
  BY <1>6, <1>9, <1>12, <1>13, <1>14, <1>15, <1>16 DEF BridgeInv

LEMMA BridgeStep == BridgeInv /\ [BridgeNext]_bridgeVars => BridgeInv' /\ LedgerStep
<1> SUFFICES ASSUME BridgeInv, [BridgeNext]_bridgeVars PROVE BridgeInv' /\ LedgerStep
  OBVIOUS
<1>1. CASE LocalNext /\ UNCHANGED <<evmVars, relayVars>>
  <2>1. IInv /\ TokensCovered /\ store # None
    BY DEF BridgeInv
  <2>2. IInv'
    BY <1>1, <2>1, NextInv DEF Next
  <2> QED
    BY <1>1, <2>1, <2>2, SolOther, SolOtherCase, SolSendCase, SolReceiveCase
<1>2. CASE Evm!LocalNext /\ UNCHANGED <<vars, relayVars>>
  <2>1. EvmTypeOK
    BY DEF BridgeInv
  <2> QED
    BY <1>2, <2>1, EvmOther, EvmOtherCase, EvmSendCase, EvmReceiveCase
<1>3. CASE \E i \in DOMAIN outbox : RelayToEvm(i)
  BY <1>3, RelayToEvmCase
<1>4. CASE \E i \in DOMAIN e_outbox : RelayToSol(i)
  BY <1>4, RelayToSolCase
<1>5. CASE UNCHANGED bridgeVars
  <2>1. UNCHANGED <<vars, relayVars>> /\ UNCHANGED <<e_inbox, e_nonce, e_outbox, e_peers, e_token>>
    BY <1>5 DEF bridgeVars, evmVars
  <2>2. e_token \in EvmToken /\ e_peers \in [{SolEid} -> {SolAddr, None}]
    BY EvmTypes DEF BridgeInv
  <2> QED
    BY <2>1, <2>2, EvmOtherCase
<1> QED
  BY <1>1, <1>2, <1>3, <1>4, <1>5 DEF BridgeNext

-----------------------------------------------------------------------------
(* The theorems.                                                           *)

LEMMA StartCovered ==
    ASSUME bal = [a \in Accounts |-> IF a = Escrow THEN 0 ELSE Start[a]],
           mint.supply = Supply, book.withheld = 0
    PROVE  TokensCovered
<1>1. /\ Escrow \in Accounts /\ bal[Escrow] = 0 /\ Accounts \ {Escrow} = Users
      /\ \A user \in Users : bal[user] = Start[user] /\ Start[user] \in Nat
      /\ Supply \in Nat
  BY AccountsAssumption, InputAssumption, U64Assumption DEF Accounts, U64
<1>2. IsFiniteSet(Users) /\ Total(Start, Users) <= Supply
  BY BridgeAssumption DEF Total, MapThenSumSet, MapThenFoldSet
<1>3. Ints(bal, Accounts) /\ Ints(Start, Users) /\ Agree(bal, Start, Users)
  BY <1>1 DEF Ints, Agree, Accounts
<1>4. Total(bal, Users) = Total(Start, Users) /\ Total(Start, Users) \in Int
  BY <1>2, <1>3, TotalSame, TotalIsInt
<1>5. Total(bal, Accounts) = bal[Escrow] + Total(bal, Accounts \ {Escrow})
  BY <1>1, <1>3, AccountsFinite, TotalRemove
<1>6. Total(bal, Accounts) = bal[Escrow] + Total(bal, Users)
  BY <1>1, <1>5, Zenon
<1>7. Total(bal, Accounts) + book.withheld <= mint.supply
  BY <1>1, <1>2, <1>4, <1>6
<1> QED
  BY <1>7, CoveredIs

LEMMA ConfiguredInv ==
    ASSUME SolanaConfigured
    PROVE  IInv /\ store # None /\ store.tvl_ld = 0 /\ TokensCovered
<1>0. 0 \in U64 /\ Escrow \in Accounts
  BY U64Assumption DEF U64, Accounts
<1>1. /\ store \in Store /\ store.tvl_ld = 0 /\ delegate \in Keys
  <2>1. PICK oft_type \in OFTTypes, admin \in Keys, shared_decimals \in SharedDecimals :
          /\ Decimals >= shared_decimals
          /\ store = [oft_type |-> oft_type,
                      ld2sd_rate |-> Base^(Decimals - shared_decimals),
                      tvl_ld |-> 0, admin |-> admin, default_fee_bps |-> 0,
                      paused |-> FALSE, pauser |-> None, unpauser |-> None]
          /\ delegate = admin
    BY DEF SolanaConfigured
  <2> DEFINE d == Decimals - shared_decimals
             r == Base^d
  <2>2. d \in 0..Decimals /\ oft_type \in {"Native", "Adapter"}
    BY <2>1, InputAssumption, PowerAssumption
  <2>3. r \in Nat \ {0} /\ 0 \in 0..(OneInBps - 1)
    <3> HIDE DEF d
    <3> QED
      BY <2>2, PowerAssumption, BpsAssumption
  <2>4. store = [oft_type |-> oft_type, ld2sd_rate |-> r, tvl_ld |-> 0, admin |-> admin,
                 default_fee_bps |-> 0, paused |-> FALSE, pauser |-> None, unpauser |-> None]
    BY <2>1
  <2> HIDE DEF r
  <2> QED
    BY <1>0, <2>1, <2>2, <2>3, <2>4 DEF Store
<1>2. store # None
  BY <1>1, NoneStoreAssumption
<1>3. /\ mint \in [supply : {Supply}, authority : Authorities \cup {None}, fee : TransferFees]
      /\ bal = [a \in Accounts |-> IF a = Escrow THEN 0 ELSE Start[a]]
      /\ inbox = {} /\ nonce = 0 /\ plan = None
      /\ outbox = <<>> /\ composed = {}
      /\ now = 0 /\ configs = 0
      /\ book = [sent |-> 0, received |-> 0, fees |-> 0, withheld |-> 0]
  BY DEF SolanaConfigured
<1>4. PICK addr \in {EvmAddr, ZeroAddr} :
        peers = [eid \in Eids |-> [DefaultPeer EXCEPT !.peer_address = addr]]
  BY DEF SolanaConfigured
<1> DEFINE q == [DefaultPeer EXCEPT !.peer_address = addr]
<1>5. q \in Peer /\ q.outbound = None /\ q.inbound = None
  <2>1. DefaultPeer \in Peer /\ addr \in Addrs \cup {ZeroAddr}
    BY DefaultPeerIsOK, BridgeAssumption DEF PeerOK
  <2> QED
    BY <2>1 DEF DefaultPeer, Peer
<1> HIDE DEF q
<1>6. TypeOK
  <2>1. mint \in [supply : U64, authority : Authorities \cup {None}, fee : TransferFee]
    BY <1>3, InputAssumption
  <2>2. bal \in [Accounts -> U64]
    BY <1>0, <1>3, InputAssumption DEF Accounts
  <2>3. book \in Book
    BY <1>3 DEF Book
  <2>4. outbox \in Seq(OutPacket)
    BY <1>3
  <2>5. peers \in [Eids -> Peer \cup {None}]
    BY <1>4, <1>5 DEF q
  <2> QED
    BY <1>1, <1>3, <2>1, <2>2, <2>3, <2>4, <2>5 DEF TypeOK
<1>7. LimitersOK
  BY <1>4, <1>5 DEF LimitersOK, q
<1>8. bal[Escrow] = 0 /\ book.fees = 0 /\ book.sent = 0 /\ book.received = 0
      /\ mint.supply = Supply /\ book.withheld = 0
  BY <1>0, <1>3
<1>9. EscrowAccounting
  BY <1>1, <1>2, <1>8 DEF EscrowAccounting
<1>10. ValueConserved
  <2>1. store.ld2sd_rate \in Nat /\ Supply \in Nat
    BY <1>1, InputAssumption, U64Assumption DEF Store, U64
  <2> QED
    BY <1>1, <1>2, <1>8, <2>1 DEF ValueConserved
<1>11. TokensCovered
  BY <1>3, <1>8, StartCovered
<1> QED
  BY <1>1, <1>2, <1>6, <1>7, <1>9, <1>10, <1>11 DEF IInv

LEMMA BridgeStart == BridgeInit => BridgeInv /\ Ledger!Init
<1> SUFFICES ASSUME BridgeInit PROVE BridgeInv /\ Ledger!Init
  OBVIOUS
<1>1. /\ SolanaConfigured /\ toEvm = <<>> /\ toSol = <<>>
      /\ e_peers = [eid \in {SolEid} |-> SolAddr]
      /\ e_token = [supply |-> EvmSupply, bal |-> EvmStart, frozen |-> {}, granted |-> TRUE]
      /\ e_inbox = {} /\ e_nonce = 0 /\ e_outbox = <<>>
  BY DEF BridgeInit, EvmConfigured
<1>2. IInv /\ store # None /\ store.tvl_ld = 0 /\ TokensCovered
  BY <1>1, ConfiguredInv
<1>3. inbox = {} /\ nonce = 0 /\ outbox = <<>> /\ mint.supply = Supply
  BY <1>1 DEF SolanaConfigured
<1>4. EvmTypeOK
  <2>1. e_token \in EvmToken
    BY <1>1, BridgeAssumption DEF EvmToken
  <2> QED
    BY <1>1, <2>1, EvmTypes
<1>5. RelayOK(outbox, toEvm, e_inbox, e_nonce) /\ RelayOK(e_outbox, toSol, inbox, nonce)
  BY <1>1, <1>3 DEF RelayOK
<1>6. flight = {} /\ departed = {}
  BY <1>1, <1>3 DEF flight, departed, InFlight
<1>7. EvmHeld = EvmSupply \div EvmRate /\ EvmHeld \in Nat
  <2>1. e_token.supply = EvmSupply /\ EvmSupply \in Nat /\ EvmRate \in Nat \ {0}
    BY <1>1, BridgeAssumption
  <2> QED
    BY <2>1, DivMod DEF EvmHeld
<1>8. LockedIsOwed
  <2>1. Worth(flight) = 0
    BY <1>6, WorthEmpty
  <2>2. store.ld2sd_rate \in Nat
    BY <1>2 DEF IInv, TypeOK, Store
  <2> DEFINE d == EvmHeld - EvmSupply \div EvmRate + Worth(flight)
             r == store.ld2sd_rate
  <2>3. d = 0
    BY <1>7, <2>1
  <2>4. r * d = 0
    <3>1. r \in Nat
      BY <2>2
    <3> HIDE DEF r, d
    <3> QED
      BY <2>3, <3>1
  <2>5. store.tvl_ld = r * d
    <3>1. store.tvl_ld = 0
      BY <1>2
    <3> QED
      BY <2>4, <3>1, Zenon
  <2> QED
    BY <2>5, LockedIs, Zenon
<1>9. BridgeInv
  BY <1>2, <1>4, <1>5, <1>8 DEF BridgeInv
<1>10. SolHeld \in Nat
  <2> DEFINE a == IF store.oft_type = "Adapter" THEN Supply - store.tvl_ld ELSE mint.supply
  <2>1. a \in Nat /\ store.ld2sd_rate \in Nat \ {0}
    BY <1>2, <1>3, InputAssumption, U64Assumption DEF U64, IInv, TypeOK, Store
  <2>2. SolHeld = a \div store.ld2sd_rate
    BY DEF SolHeld, ld2sd
  <2> HIDE DEF a
  <2> QED
    BY <2>1, <2>2, DivMod
<1>11. [sol |-> SolHeld, evm |-> EvmHeld] \in [{"sol", "evm"} -> Nat]
  BY <1>7, <1>10
<1>12. Ledger!Init
  BY <1>6, <1>11 DEF Ledger!Init
<1> QED
  BY <1>9, <1>12

\* The inductive invariant of the two sides and the wires between them.
THEOREM BridgeKeepsInv == BridgeSpec => []BridgeInv
<1>1. BridgeInit => BridgeInv
  BY BridgeStart
<1>2. BridgeInv /\ [BridgeNext]_bridgeVars => BridgeInv'
  BY BridgeStep
<1> QED
  BY <1>1, <1>2, PTL DEF BridgeSpec

\* Both programs, their fees, dust, limits, pauses and refusals included, are
\* the ledger: no step of either side, of the relayers or of the administrators
\* makes or loses value, and a packet is paid at most once, in full.
THEOREM BridgeImplementsLedger == BridgeSpec => ImplementsLedger
<1>1. BridgeInit => Ledger!Init
  BY BridgeStart
<1>2. BridgeInv /\ [BridgeNext]_bridgeVars
        => [Ledger!Next]_<<[sol |-> SolHeld, evm |-> EvmHeld], flight, departed>>
  BY BridgeStep DEF LedgerStep, ledgerVars, heldNow
<1> QED
  BY <1>1, <1>2, BridgeKeepsInv, PTL DEF BridgeSpec, ImplementsLedger, Ledger!Spec

\* With an Adapter on Solana and no other issuer on the EVM chain, what is locked
\* is to the unit what the EVM chain and the packets in flight are worth.
THEOREM BridgeIsBacked == BridgeSpec => []PacketsAreBacked
<1>1. BridgeInv => PacketsAreBacked
  <2> SUFFICES ASSUME BridgeInv, store.oft_type = "Adapter", EvmSupply = 0
               PROVE  store.tvl_ld = store.ld2sd_rate * (EvmHeld + Worth(flight))
    BY DEF PacketsAreBacked, Worth, MapThenSumSet, MapThenFoldSet
  <2>1. store.tvl_ld = store.ld2sd_rate * (EvmHeld - EvmSupply \div EvmRate + Worth(flight))
    BY LockedIs DEF BridgeInv
  <2>2. EvmSupply \div EvmRate = 0
    BY BridgeAssumption
  <2>3. EvmHeld \in Nat /\ Worth(flight) \in Int
    BY EvmHeldFacts
  <2>4. EvmHeld - EvmSupply \div EvmRate + Worth(flight) = EvmHeld + Worth(flight)
    BY <2>2, <2>3
  <2> QED
    BY <2>1, <2>4
<1> QED
  BY <1>1, BridgeKeepsInv, PTL

=============================================================================
