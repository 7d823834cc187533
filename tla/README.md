# TLA+ verification of cross-chain-contracts

This directory holds TLA+ models of the bridge in this repository, the TLC
configurations that check them, and TLAPS proofs. `PROJECT.json` maps every
definition to the source lines it models and lists the runs, mutants, hazards
and theorems.

## 1. The system

Tokens move between chains over LayerZero. On Solana a program
(`solana-oft-deployment/programs/oft`) locks or burns on the way out and unlocks
or mints on the way in. On EVM chains `contracts/OFTWrapper*.sol` burn and mint
the Paxos token. Each side trusts one peer address per remote endpoint id (eid).

| Component | State | Operations | Hard behaviour |
|---|---|---|---|
| Amounts (`quote_send.rs`, `quote_oft.rs`, `state/oft.rs`) | none | `ld2sd`, `sd2ld`, `remove_dust`, `calculate_fee`, `get_post_fee_amount_ld`, `calculate_pre_fee_amount`, `compute_fee_and_adjust_amount`, `quote_oft` | three roundings in a row; inverse of a rounded, capped fee; u64 limits |
| Rate limiter (`state/peer_config.rs`, `set_peer_config.rs`) | capacity, tokens, rate, last refill time | `refill`, `try_consume`, `set_rate`, `set_capacity`, `update_rate_limiter` | lazy refill, order of effects when reconfigured, saturation |
| OFT program (`init_oft`, `set_oft_config`, `set_pause`, `set_peer_config`, `send`, `lz_receive_types`, `lz_receive`, `withdraw_fee`) | `OFTStore`, one `PeerConfig` per eid, token escrow | one instruction each | fees and locked tokens share an account; config changes while packets wait; an answer of `lz_receive_types` used later |
| Endpoint, executor, token program | packets, delegate, balances, supply, transfer fee, mint authority | verify, clear, compose; transfer, mint, burn | outside the program's control, change between its steps |
| Quotes and message codecs (`quote_send.rs`, `msg_codec.rs`, `compose_msg_codec.rs`) | none | encoders, readers | `quote_send` prices another message than `send` sends; offsets kept by hand; a composed message is recognised by its length |
| EVM wrappers (`OFTWrapper.sol`, `OFTWrapperUpgradeable.sol`) | rate limits per eid (inbound ones at `eid + 1_000_000_000`), owner | `_debit`, `_credit`, set limits, `initialize`, upgrade | one mapping for two directions; decay rounded at every checkpoint; a receipt that reverts after the other chain burned |
| LayerZero between the chains | packets sent and not verified | verify | any order, at most once, possibly never; two clocks |
| Scripts (`scripts/*.js`) | configuration on chain | deploy, set peer, libraries, DVNs, options, test transfer | each transaction may fail alone; values from the environment are strings |

What makes each part correct:

* amounts: a quote adds up and can be acted on; nothing is debited that is not
  delivered, charged or withheld; a delivery is a whole number of shared units;
* limiter: in any window no more passes than one capacity, the refill of the
  elapsed time, what came back the other way and the capacities set meanwhile;
* program: the escrow holds exactly the locked value and the fees; locked or
  burned value equals what packets carry; a packet is paid once, in full, only
  from the current peer, together with its removal from the endpoint;
* messages: what is priced is what is sent; recipient and composer read what the
  sender wrote;
* EVM: the two directions' limits do not interfere and each bounds its flow; supply
  follows packets; a receipt is charged to its limit exactly, and leaves the inbox
  only if it is;
* both sides together: value is on one chain, on the other, or in one packet; a
  packet is delivered once the configuration admits it, unless other packets keep
  using up the limit before it: neither program has a queue.

Solana runs an instruction atomically: an error or a panic (the release profile
has `overflow-checks = true`) undoes it with all its CPIs. So the interleavings
that matter are those of whole instructions: of users, admins, the executor, the
remote chain and the mint's owner. A check that fails is a guard of the action.
An EVM transaction that reverts is no step either. The only state that one step
reads and a later one relies on without a lock is the executor's account list.

## 2. Modules

| Module | Models |
|---|---|
| `OFTAmounts` | the arithmetic, as operators on exact integers; callers guard with `FitsU64` where the code's u64 could overflow |
| `RateLimiter` | the limiter's methods as operators from limiter and time to limiter |
| `TokenBucket` | abstract: a bucket that gains its rate every second; nothing lazy |
| `PeerLimiter` | one limiter as a state machine, with history variables `used` and `budget` for the throughput bound and a refinement mapping to `TokenBucket`; a window of the bound ends only where the limiter is created or removed |
| `SolanaOFT` | the program: one action per instruction, and the world around it; `LimitsAreBuckets` has a bucket of `TokenBucket` for each limiter in it |
| `OFTQuote` | `quote_oft`; its last answer is kept so that it can be compared with reference definitions |
| `OFTOptions` | enforced and extra options, shared by `SolanaOFT` and `OFTMessages` |
| `Bytes`, `MsgCodec`, `ComposeMsgCodec` | big-endian integers and slices; the two layouts with the code's offsets |
| `OFTMessages` | `quote_send`, `send` and `lz_receive` as far as bytes and options go, with reconfiguration in between |
| `SolanaDelivery`, `EvmDelivery` | `SolanaOFT` and `EvmOFT` with fairness and traffic that never ends, for liveness |
| `EvmOFT` | both wrappers (`upgradeable` tells which), over LayerZero's `RateLimiter` and `OFTCore` and the Paxos token |
| `BridgeLedger` | abstract: value on chains and in packets; `Depart` and `Arrive` |
| `Bridge` | `SolanaOFT` and an instance of `EvmOFT` as peers, the channel between them, and the refinement mapping to `BridgeLedger` |
| `SendScript` | `send.js` and `getPeerAddressBytes`, with JavaScript's types |
| `OFTAmountsProofs`, `RateLimiterProofs`, `PeerLimiterProofs`, `SolanaOFTProofs`, `OFTQuoteProofs`, `OFTMessagesProofs`, `EvmOFTProofs`, `BridgeProofs` | lemmas, theorems and proofs about the module in the name; `OFTAmountsProofs` also holds the lemmas on sums over finite sets, `BridgeProofs` builds on `SolanaOFTProofs` |
| `MC*` | constant values that a cfg cannot write |

State of `SolanaOFT` and the code:

* `store` is the `OFTStore` account (`None` before `init_oft`), `peers[eid]` the
  `PeerConfig` accounts (`None` before `init_if_needed` creates one);
* `bal`, `mint` are the token accounts and the mint as the token program keeps
  them. A mint without the transfer-fee extension is one with a fee of 0;
* `inbox` are verified packets not yet cleared. `Verify` lets the remote chain
  put any amount in a packet; `lz_receive` clears it or fails and leaves it;
* `plan` is the executor's last answer from `lz_receive_types`. Of the accounts in
  it only two depend on state, the mint authority and the compose accounts (derived
  from the amount), and those are kept. `LzReceive` takes its accounts from `plan`,
  so everything may change between the two;
* `outbox` and `composed` are what the program hands to the endpoint;
* `book` is history: shared units sent and received, fees that reached the
  escrow, amounts the mint withheld.

`Donate` (a plain token transfer to the escrow), `ChangeMint`, `Verify` and `Tick`
are external. Option bytes are a type and a set of options, enough to tell which
options a packet carries; a packet is a record, its bytes are `OFTMessages`' matter.

State of `EvmOFT` and the code:

* `rateLimits` is the inherited mapping, one function from all `uint32` keys, so that
  both directions, and two eids, can meet in a slot; `inboundSlot` is the offset. A
  sum above `U32Max` is outside `Slots` and reverts, as checked arithmetic does;
* `token` is the Paxos token as the wrappers use it: it refuses when the holder is
  frozen or the wrapper's permission is revoked, and `ChangeToken` does both;
* `policy` and `watch` are history: what the owner last set for a direction of an
  eid, and what one observer has seen moving in it since some moment. They are kept
  per direction, not per slot: a limit that lands in the wrong slot is a difference
  between the two;
* `LzReceive` is the endpoint's `lzReceive` with `_credit`, `Send` is `OFTCore.send`
  with `_debit`. `Construct` belongs to `OFTWrapper`, `Initialize` to the other.

`Bridge` starts from configured sides (a peer account without its address is one of
the starts) and lets both run with all their actions. A packet's place in the other
side's order of verification is its nonce there; it has arrived when it was verified
and is gone from that inbox.

Definitions marked *Mutant* are plausible bugs; no specification uses them. They
exist to show that each property fails when the code is wrong.

## 3. Runs

| Run | Bounds | Shows |
|---|---|---|
| `limiter` | u64 limit 5, 4 seconds, amounts and limits up to the u64 limit | the limiter is a token bucket in every order of use, update and idle time; `ThroughputBound` in windows that `Observe` starts anywhere, across changes of rate and capacity |
| `transfers` | u64 limit 15, basis 4, both OFT types, rate 2, three transfer fees (none, capped, 100%), authorities the program can and cannot sign for, 2 sends and 1 inbound packet with a composed message (`peers` and `limits` have plain ones too), 3 configuration steps | the escrow, tvl and supply accounting while fee and authority change; exact sends and receipts; refused mints |
| `peers` | two users (symmetric), two eids, two addresses, three kinds of options | enforced options and peer checks under reconfiguration; no receipt touches another user |
| `limits` | capacities and rates 1 and 4, 3 seconds of clock | `LimitsAreBuckets`: each send, receipt, second and reconfiguration charges, gives to, refills or resets both limiters of its peer as an eager bucket would be, by the packet's value, and nothing else moves one; the inductive invariant `IInv` |
| `quotes` | every amount up to 16, every fee of a basis of 5, four caps, rates 1 and 3 | reference properties of the arithmetic |
| `messages` | bytes of base 2, u64 limit 255, keys of 32 bytes, no, an empty and a longer payload, three configurations | a quote prices what is sent (`QuotePricesSend`); the two codecs agree (`ReadAsWritten`); the inductive invariant `MessagesInv` |
| `solana_delivery` | u64 limit 6, packets of 1 and 2 units without end, 2 waiting at once, both OFT types, capacity and rate 2, two transfer fees, 1 configuration step | `EveryPacketIsPaid`; a nonce names one packet for good (`NoncesOK`) |
| `evm` | both wrappers, two keys (symmetric), one eid, offset 2 in 2-bit keys, rate 2, limits 2 and 3, windows 0 and 2, 3 seconds, 2 sends, 2 packets, 3 configuration steps | `PolicyBoundsFlow` from every start of an observer, `DirectionsIndependent`, `SupplyFollowsPackets`, `CreditIsExact`; the inductive invariant `FlowInv` |
| `evm_collide` | as `evm`, but limits are also configured for eid 3 = 1 + offset | **violation**, below |
| `evm_delivery` | packets of 1 and 2 units without end, 2 waiting at once, 8 units issued, limits 2 and 4, window 2, 4 configuration steps | `EveryPacketIsMinted` |
| `bridge` | both OFT types, one user on each side, rate 2, a cross-chain fee of one half and a transfer fee, 2 sends and 2 packets each way, 2 configuration steps per side | `ImplementsLedger`, `PacketsAreBacked`; the inductive invariant `BridgeInv` |
| `send_script` | the two Solana eids and one EVM eid | **violation**, below |

Why the bounds are enough to be interesting: the u64 limit is small so that sums
reach it; the rate is larger than 1 so that there is dust; fees are large so that
rounding and the cap both bite on small amounts; an inbound packet of 8 shared
units does not fit in a u64 and must stay; fees of 100% are offered and must be
refused; two sends and a receipt suffice for fees and locked value to mix in the
escrow, with a withdrawal or a donation in between. `MaxSends`, `MaxInbound`,
`MaxConfigs`, `MaxTime` and `MaxHistory` are the bounds, all in guards; when they
are used up the bounded model stops, so these runs do not check deadlock (in
`OFTQuote` a paused store answers no quote). The `limiter`, `messages` and the two
delivery runs do check it: there something can always happen.

In `evm` the window of 2 and the limit of 3 make the decay round, a window of 0 leaves
only a bound per transfer, and a packet of 2 and a send of 2 each fit in a limit that
does not hold both. One remote chain is enough to tell its two directions apart; that
two chains share a slot is the question of `evm_collide`, where a second id is configured. In `bridge` two sends each way suffice for packets to overtake each
other and for a packet to come back before its successor has left; amounts 3 and 5
have dust at rate 2. The small transfer amounts of `messages` cover both bytes at the
ends of an integer, and the keys differ in every place a shifted offset could take.

**Fairness.** Assumed only in the delivery modules. `WF` of `Age`: time passes. `WF`
of `Execute(n)` on the EVM chain: LayerZero's executor, or anyone, may call
`lzReceive` for a verified packet at any time and keeps trying one that can succeed.
On Solana there are two steps: `WF` of `Ask(n)`, the call of `lz_receive_types`, and
`SF` of `Execute(n)`, because an executor that asks for one packet after another
executes after asking, and is not always overtaken by a change of the mint in
between. Neither module makes an administrator act: both properties are conditional
on `<>[]` of a configuration that admits the waiting packets, and TLC finds
behaviours in which it does (the mutants violate the conclusion). The clock stands
still there and limiters grow older instead, which is the same for code that only
looks at differences, and keeps the state space finite.

**Traffic in the delivery runs never ends.** `Forget` and `EvmForget`, which model no
code, come right after every step that left something in the histories (under `WF`,
nothing else is enabled then). They clear them and free the nonces of packets that
were dealt with, so `MaxInbound` bounds the packets that wait at once and not those
that come. On the EVM chain `Arrive` takes a packet only while the other chains have
the value: what is here and under way never exceeds `Issued`. With such traffic a
packet close to the capacity, or to the limit, can be starved: `lz_receive.rs:101` and
`OFTWrapperUpgradeable.sol:231` serve whoever comes first, and smaller packets may
each time take what it waits for. TLC finds that starvation on both sides when the
property has no exception. So `EveryPacketIsPaid` and `EveryPacketIsMinted` state it
as `Overtaken(n)`: infinitely often the limit does not admit packet `n`, and
infinitely often another packet is executed. In every other behaviour packet `n` is
paid.

**Two disagreements with the repository's own words.**

* `evm_collide`: *"differentiated by an offset added to inbound endpoint IDs to
  ensure they never collide with outbound endpoint IDs"*
  (`OFTWrapperUpgradeable.sol:20-21`). `setOutboundRateLimits` accepts any id, so an
  owner who passes `eid + 1_000_000_000` changes the inbound limit of `eid`. `evm`
  shows that it holds while configured ids stay below the offset.
* `send_script`: *"Solana - PEER_ADDRESS should not be padded"* (`helpers.js:20`).
  `SOLANA_EIDS.includes` compares numbers with the string of an environment variable
  and is never true; a Solana recipient is padded like an EVM address and the
  transfer cannot be encoded. The other branch would throw, since `helpers.js` does
  not require `bs58`.

## 4. Theorems

All constants are arbitrary: any u64 limit, basis, decimals, users, peers, limits
and fees, and any number of steps. The assumptions are the named `ASSUME`s of the
models, which TLC evaluates on every run that uses them: the inputs are of the
code's integer types, `None` is none of the records, and the escrow is not a user's
account. Two need a word. The prover has no theory of `^`, so `PowerAssumption`
states what is a fact of arithmetic (powers are positive; in `OFTMessages`, the
eight steps of `ByteBase^n`). `BridgeAssumption` says that Solana's users begin with
no more than the supply, which the token program guarantees of any mint.

Every invariant and every action property of a passing run is a theorem.

* **Amounts** (`OFTAmountsProofs`). `PreFeeIsExact`: transferring
  `calculate_pre_fee_amount(f, x)` delivers exactly `x`, for every fee, cap and
  amount; `PreFeeIsLeast`: no smaller transfer delivers as much. `ComputeFacts`
  combines them with dust and fee facts: the debit is at most what was offered,
  delivery and fee are whole shared units, the parts add up, and a debit above 0
  delivers something.
* **Limiter** (`PeerLimiterProofs`). `ThroughputBound` is not inductive: it says
  nothing of what the limiter will still grant. `Inv` adds `Level`, the tokens
  stored and the refill owed, and proves `used + Level <= budget`. A new capacity is
  granted to the window it falls in, since the limiter then starts full; changes of the
  rate are granted nothing, because `set_rate` refills at the old rate first. From the same
  lemmas `LimiterRefinesTokenBucket`: every step of the lazy limiter is a step or
  a stutter of the eager bucket.
* **Program** (`SolanaOFTProofs`). `IInv` is `TypeOK`, `EscrowAccounting`,
  `ValueConserved` and `LimitersOK`. `EscrowSolvent` follows from the accounting
  since fees are never negative. The four need each other: the subtraction from
  `tvl_ld` stays a u64 because of its guard, the escrow can pay because the
  accounting holds, the accounting of a send needs `PreFeeIsExact`, and the fees
  stay non-negative on a withdrawal because withdrawable is escrow less
  `tvl_ld`. There is one lemma per action (`SendStep`, `LzReceiveStep`, ...), the
  long ones split into the ledger, the queues and the limiters. `SendsAreExact`
  is an action property from the same invariant.
  `ReceiptsAreExact` needs more than `IInv`: that the composed message of a receipt
  is new. `NoncesOK` is the strengthening (a nonce in `inbox` or `composed` was given
  out by `Verify`, and is in one of them only), and `NoncesAreOnce` states it.
  `EnforcedOptionsAreCarried` follows from what `combine_options` keeps.
  `PeerLimitsAreBuckets` lifts the lemmas of `RateLimiterProofs` to every limiter in
  every peer account: a send charges its peer's outbound bucket and gives the inbound
  one exactly the value of its packet, a receipt the other way round, a second refills
  every bucket once, `set_peer_config` reconfigures those of one peer, and no other
  step or peer moves one.
* **Quotes** (`OFTQuoteProofs`). `QuotesAddUp`, `QuotesAreFixpoints`,
  `DebitsAreLeast` and `QuotesAreMonotonic` are statements about the arithmetic: the
  invariant only says that the last answer is what `quote_oft` computes from the
  configuration. The work is that rounding down to a whole shared unit, the
  rounded basis points and the rounded-up, capped transfer fee are each monotone and
  that the inverse of the last is exact and least.
* **Messages** (`OFTMessagesProofs`). `MessagesInv` says of what was quoted, sent,
  received and composed which parameters and configuration it encodes, and that a
  sent amount survives the conversion to shared decimals: without that, what the
  recipient is credited would not be what `send` debited for it. `QuotesPriceSends`
  follows since the length of a message depends only on the presence and length of
  its payload. `MessagesAreReadAsWritten` rests on two groups of lemmas: the digits
  of a number in any base add up to the number (induction over the number of
  digits), and each reader's slice is the field the encoder put there, offset by
  offset. The bytes of the code are base 256; nothing depends on it.
* **EVM** (`EvmOFTProofs`). `TypeOK` and `SupplyFollowsPackets` are proved together,
  the latter from the exact form of what `_removeDust` leaves to burn. `PolicyBoundsFlow` is not inductive: `FlowInv` adds `SlotsFollowPolicy`,
  the slot of a direction holds what its own setter gave, and `WatchedIsInSlot`, what
  the observer saw and is not in flight was freed before the slot's last update, at
  the limit in proportion. The division in the decay truncates in favour of the
  limit, which is the lemma that makes any number of checkpoints harmless. Both,
  and `EvmDirectionsIndependent`, are proved under `NoCollision`: no id in use is
  the inbound slot of another. The `evm` run satisfies it, LayerZero's ids do, and
  `evm_collide` shows that the conclusion fails without it. The last theorem also
  takes every inbound slot to be a `uint32`; a receipt from another id reverts.
  `EvmCreditIsExact` uses the types and `ChargedAvailable`: a slot charged with an
  amount it admits, with a window above 0, admits exactly that much less, whatever
  had decayed before.
* **Bridge** (`BridgeProofs`). `BridgeInv` has, besides Solana's `IInv` and the types
  of the EVM side, three parts. `RelayOK`: what waits in an inbox is a packet of the
  other side's outbox, verified once, its nonce the place in the order of
  verification; so clearing it makes exactly one packet of the ledger arrive, with
  the value that departed. `TokensCovered`: balances and withheld fees stay within
  the mint's supply; so a send never takes from a chain more than the ledger has
  there. `LockedIsOwed`: what an Adapter locks is what the EVM chain gained and what
  is in flight. `BridgeStep` takes every action of both programs and of the channel
  to `Depart`, `Arrive` or a stutter of `BridgeLedger`, which gives
  `BridgeImplementsLedger`; with no other issuer on the EVM chain, `LockedIsOwed` is
  `PacketsAreBacked` (`BridgeIsBacked`).

Sums over sets (balances, packets in flight) and the digits of an integer need
induction. The library's induction theorems take an operator, which the installed
provers cannot instantiate; `SetInduction` in `OFTAmountsProofs` states induction
over a set of naturals instead, proved from the well-foundedness of `<`, and is used
with the set of numbers that have the property.

Only model-checked: liveness (`EveryPacketIsPaid`, `EveryPacketIsMinted`), since
fairness and `ENABLED` are out of the prover's reach; and the two violations, which
are counterexamples.

## 5. Plan

1. *(done)* amounts, limiter with its abstract bucket, the Solana program, their
   runs, and the proofs above.
2. *(done)* the codecs and `quote_send`; both EVM wrappers; the bridge and its
   abstract ledger; delivery on both sides under fairness; the test transfer script.
3. *(done)* the theorems of section 4: every invariant, action property and
   refinement that a passing run checks.
4. Proofs still worth having: that with an Adapter, and no other issuer on the EVM
   chain, a packet waiting on Solana never fails for lack of locked value (a corollary
   of `BridgeIsBacked` and `RelayOK`); the throughput bound of `PeerLimiter` for the
   limiters inside the program, with a history variable per peer; and `NoCollision`
   from bounds on the ids alone.

## 6. Not modelled

Events, PDA seeds and bumps, rent and account sizes; the byte form of options; frozen
token accounts on Solana and the harvest of withheld fees; the price of a LayerZero
message; composed messages, options and message inspection on the EVM side, which the
wrappers inherit unchanged; upgrades of the proxy, which replace the code that is
modelled; the fixtures under `contracts/fixture` and the endpoint mock's dispatch; the
ABI file and the build configuration. The deployment and configuration scripts are
sequences of transactions to contracts outside the repository: they log what fails
and go on, and neither a doc nor the code says what should follow.
