# A TLA+ verification of dexdo

dexdo is a market for model inference: buyers and sellers meet in an on-chain
order book, a deal contract holds the money of a match, and two client processes
stream the output and claim payment for it. This directory models the parts of
the system that hold or move money, checks them with TLC on small instances and
proves with TLAPS, for instances of every size, most of what is safe about the
deal contract (including that it keeps the promise the other contracts build on),
the reference price and the seller's delivery.

Paths are relative to the repository; `TokenContract.sol:1391` means
`contracts/airegistry/TokenContract.sol`, line 1391.

## 1. The system

| Part | State | Operations | Modules |
|---|---|---|---|
| Deal contract, `TokenContract.sol` | escrow, bonds, probe tick, owed and fee figures, cumulative token counters, week index, flags, deadlines | list, be funded, bond, open, accept the probe, claim, finalize, settle a week, stop, dispute, resolve, clean up, withdraw, destroy | `TokenContract`; its proofs: `TokenContractProofs`, `TokenContractClaims`, `TokenContractExits`, `SubscriptionExits`, about the definitions in `DealRelations` and `ExitRelations`; its promise: `DealPromise`, `AbstractDeal` |
| Order book, `InferenceOrderBook.sol` | resting orders by price level, owners' lists, a circular queue of requests with cursors, one remembered buyer per handover | place, cancel, cancel all, expire, poke, match, hand over to the deal, bounce | `BookEngine`, `InferenceOrderBook` |
| Reference price, same file | ring of trading days, per-deal high-water of reported volume | report, weekly median | `ReferencePrice`, `ReferencePriceProofs` |
| Seller's capacity ledger, `seller/capacity.rs` | a record per deal in a file, its copy in memory, tokens waiting to be written | reconcile, reserve, record, finish, mark terminal | `CapacityLedger` |
| Seller's relay and claim driver, `seller/gateway.rs`, `seller/advance.rs` | open streams, the delivered counter, the cursor of the claim loop | register, open and relay a stream, accept the probe, claim, confirm, observe | `SellerDelivery`; with the ledger: `SellerDeliveryProofs`, `SellerDeliveryRestart` |
| Subscription keeper, `seller/keeper.rs` | the cursor, the time of the next look | read, plan, submit, reconcile, sleep | `SubscriptionKeeper` |
| Private note, `contracts/dex/PrivateNote.sol` | balance, pending and resting orders, live deals, withdrawal flag | place, cancel, fund, bond, touch, take callbacks and bounces, withdraw | `PrivateNote` (the inference half) |
| The market: notes, book and deals together | messages between them | all of the above | `Market` |
| Outcome book, `contracts/dex/OrderBook.sol` | as the inference book, for outcome tokens | place, match, cancel | planned |
| Buyer process, `buyer/`, `cli/buyer.rs`, `cli/recover.rs` | a durable deal record, sessions | buy, stream, resume, recover | planned |
| Wallet, funding, command line, reports | keys, files, views | | not modelled |

How they interact. A seller's note makes its deal contract post an ask
(`postFromNote`); a buyer's note sends a bid. Each public call of the book puts a
request in the queue and runs the head once; a match that reaches the limits of a
transaction leaves a cursor and the book calls itself. A fill sends
`fundFromOrderBook` to the deal with the buyer's figure, and the deal answers
`onHandoverAccepted` or the message bounces and the book repays the buyer it
remembered. Both sides bond, the seller opens, delivers the first tick as a
trial, and claims cumulative token counts. A claim becomes trusted when it
outlives a window. The buyer may stop or dispute at any time. Every path out pays
the notes through `creditFromDeal`, and the deal reports the volume it finalized
to the book for the reference price. In the seller process, the gateway reserves
capacity in a file before it calls the model, records what it delivered, and a
loop turns the durable part of that into claims.

What makes it hard:

- exits of a deal compose a dozen money helpers in different orders, at every
  instant relative to claims, weeks and disputes;
- a match continues over several transactions while deadlines pass and cancels
  queue up behind it, and each walk has a budget of its own;
- messages between contracts can bounce, arrive late or be refused;
- the seller process crashes, its file lags behind its memory by design, and a
  claim it submitted may execute after it gave up on it;
- the driver reads a count, awaits a transaction and uses the count afterwards;
- several streams share one reservation.

What correctness means here: no contract promises more than it holds; no figure
is lost, minted or paid twice; nobody is charged for what they did not receive or
did not agree to; a claim is trusted only after its window; every request, match,
no-show and term comes to an end, and a dispute whenever somebody resolves it; and
a restart can always take a deal up again.

## 2. The modules

**TokenContract** is one deal. `deal` is the contract's storage as a record and
`now` the block time. Each private helper is an operator from record to record
(`VoidClaims` is `_voidClaims`, `ForfeitBonds` is `_forfeitBonds`, and so on;
`ChargeEscrow` is the clamped charge that `_chargeWeeksThrough`,
`_settleTrustedAndClose` and `_payFinalAndClose` each spell out),
composed in the order of the code; each public entry is an action guarded by its
`require`s, since a failed one reverts the call. The figures that cross the
contract's boundary (`fromBuyer`, `fromSeller`, `toBuyer`, `toSeller`, `burned`)
are kept in the record as history. Left out: gas, events, the endpoint cipher,
the model name and checks of who is calling.

**BookEngine** is the matching engine as operators on a book record: prechecks,
the walk over makers, settlement, cancel, expiry, and `ProcessHeadCore`, which
runs the head of the queue once. A level's linked list is the ascending order of
ids at that price, which is how the code appends to it. Messages sent by a
transaction are collected in `out`. Left out: gas, events, executed-volume
counters, buyers' keys.

**InferenceOrderBook** makes each public entry of the book an action and adds the
outside: notes that place and cancel, deals that latch an offer and answer or
bounce a handover, anybody who pokes or expires. `side`, `terms` and `trades`
record what the outside put in, agreed to and got. Deals here are external: an
accepted handover may be unwound and the deal offered again.

**ReferencePrice** is the ring of days, volume reports and the weekly median,
including the hand-written exchange sort. `ledger` keeps every day's volume as
history, to compare the ring with.

**CapacityLedger** holds the operations of `CapacityManager` and
`CapacityReservation`. An operation returns the set of its outcomes, because a
write of the file may fail before or after the rename. Each operation runs under
the entry's mutex, so it is one step; the one place where a crash can fall
between two writes is `finish_exact`.

**SellerDelivery** composes the ledger with the relay of requests, the claim
driver, the keeper's reads, the deal contract as they see it and crashes. The
driver's `pc` marks the awaits between which other tasks run. Abstractions:

- the probe window, the claim interval and the rate allowance may have elapsed at
  any step; a dispute is the deal stopping;
- a keeper's snapshot read and its effect on the ledger are one step;
- the in-memory ledger without a store, a failing removal of the file, and
  re-registration without a restart are left out;
- the counter moves with the flush that makes its tokens durable (in the code it
  can only lag behind it);
- the chunks of a run without a count are one chunk;
- a deal that starts with `Probed` has the file that the crossing read leaves;
- the driver's last `finalize` call is an action of `TokenContract`.

**DealPromise** is a deal as the rest of the market sees it: its phase, whether it
is listed and offered, its buyer, the two bonds and the figure it holds, with
operators for what may happen to it. **AbstractDeal** turns these operators into a
specification; `TokenContract!KeepsPromise` states that the contract implements
it, under the mapping `PromiseOf` (storage to promise) and `FlowOf` (history to
flows). **Market** uses the same operators for its deals, so what is checked there
rests on a deal that the contract is shown to be.

**PrivateNote** is the inference half of an owner's wallet as operators on its
storage: the records of pending requests, resting orders and live deals, the
mirrors that move them, the bounces that undo a call, and the gate of
`withdrawTokens`.

**Market** composes notes, the book and deals. A transaction takes one message or
one owner's call to the end. Messages between the same two accounts keep their
order; messages between different pairs arrive in any order; a bounceable call
that is refused, or finds no account, comes back. Money is a figure in the
messages. What a stream does with the held figure is left to `TokenContract`: an
open deal may end in any of the extreme divisions. Time stands still, so nothing
expires here; expiry is in `InferenceOrderBook`. The races this composition
contains:

- the buyer's bond, sent by its note on the fill, can overtake the handover and
  bounce, or settle on a deal that was unwound meanwhile;
- a removal notice and the refund it announces are two messages;
- a cancel names an order that is still queued, or finds the queue full;
- a `touchDeal` can bounce before the handover arrives and clear the record of a
  live deal; an `onDealClosed` of the previous match can clear the record of the
  next one; a fill mirror that arrives after `onDealClosed` leaves a record until
  the next `touchDeal`.

**SubscriptionKeeper** extends `TokenContract` by the keeper: two reads and plans,
one call, a third read that judges it. The contract, its parties and the chain's
clock go on in between; a call may be lost or given up, the process killed and
restarted, the local clock ahead.

Proofs are in modules of their own that extend the component they are about
(section 5). **DealRelations** and **ExitRelations** define what the theorems on the
deal speak of: its inductive invariants and the relations between the record before
and after a helper. **SumLemmas** holds what the other proofs need about sums over
finite sets, and **Finiteness** the form of finiteness they use.

**MC_*** modules define inputs and symmetry sets for the configurations.
Definitions named `X_Something` directly above a definition `X` are variants of it
with a plausible mistake. No specification uses them; with X replaced by the
variant the property it was written for is violated.

## 3. The runs

| Run | Module, configuration | Question | Distinct states |
|---|---|---|---|
| ordinary | TokenContract, MC_Ordinary | is the money of an ordinary deal right through every order of listing, handover, bonds, probe, claims, exits and disputes, and is the promise kept? | 291,658 |
| subscription | TokenContract, MC_Subscription | the same for four weeks claimed, skipped, cancelled and disputed, do no-shows and terms end, and does a dispute once somebody resolves it? | 106,770 |
| book_matching | MC_InferenceOrderBook, MC_BookMatch | does every kind of order get the terms, price and place in the queue it was promised? | 132,462 |
| book_queue | MC_InferenceOrderBook, MC_BookQueue | is any figure lost by continuations, cancels, expiry, handovers and bounces? | 500,805 |
| reference_price | MC_ReferencePrice | is the reference price the median of exactly the last days? | 67,616 |
| delivery | MC_SellerDelivery, MC_Delivery | do two streams, the keeper's reads, week boundaries and a crash keep the ledger, the claims and the contract in step? | 523,323 |
| delivery_claimed | MC_SellerDelivery, MC_DeliveryClaimed | can the buyer be billed beyond the cap, with a crash, a failed write and late claims, and is everything counted also claimed? | 254,543 |
| market | MC_Market | do notes, book and deals agree about money, orders and offers, whatever crosses on the way? | 714,580 |
| market_live | MC_Market, MC_MarketLive | is every request and every offer answered? | 156,864 |
| keeper | SubscriptionKeeper, MC_Keeper | does the keeper carry a subscription to its end, and stop only for a cause? | 401,547 |

**Deal.** `TypeOK` (no figure leaves its unsigned range, so no exit can revert on
an underflow), `Solvent`, `Conserved`, `ClaimsWithinRealTime` (which includes that
at most one tick is unsettled), `SellerEarnsOnlyTrusted`, `ConcedingIsCheaper`,
`TrustIsEarned`, `DisputeFreezes`, and the refinement `KeepsPromise`; for
subscriptions `OnlyEndedWeeksCharged`, `CancelRefundsUnstartedWeeks`,
`SubscriptionDisputeNotCheaper`; under fairness `NoShowUnwound` and `TermEnds`.
`DisputeEnds` carries its assumption in the property: if somebody calls
`resolveDisputeTimeout` on a dispute that stays unresolved past its window
(`TimeoutCalled`), every dispute ends the deal. Without that call a dispute may stay
open for ever, as the contract says it may (TokenContract.sol:1296, 1856).

**Book.** `EscrowAccounted` (every figure of a note is in exactly one place),
`BidsCovered`, `BookNotCrossed`, `FokAllOrNothing`, `TermsHonoured` (limits, shape,
and maker-only orders that never take), `PriceTimePriority`. Reference price:
`WindowExact`, `CountedOnce`, `MedianSplits`.

**Market.** `MoneyConserved` counts notes, messages, book, deals, burned and paid
figures; it fails if any undo, clamp or bounce is wrong. `EscrowRemembered` and
`WithdrawnHasNoBid` say that a note's records cover its bids at every moment, so
that the withdrawal gate, which looks at nothing else, is sound. `OneLiveOffer`
says that a deal's latch and the place of its offer agree; with it every handover
of the book finds its deal alive, listed and free. Under fairness
`RequestsSettled` and `OffersSettled`.

**Delivery.** `BilledWithinCap`, `ReservationsCovered`, `ClaimsDelivered`,
`RestartAccepted`, `EveryTerminalFlushes`, and under fairness `DeliveryClaimed`.
Not every one of them holds under every hazard; section 4 says which fail where.
`BilledWithinCap` is checked with failing writes, crashes and late claims together.
The others are checked past the probe with two streams and a crash, without
failing writes and late claims; `EveryTerminalFlushes` excepts a stream that opens
while tokens of another one wait to be written.

**Keeper.** `StatesAccepted` (the checks on snapshots refuse no state the contract
can come to), `FailsForCause`, and under fairness `KeptToTheEnd`.

### Bounds

Bounds are constants of the modules (`MaxMatches`, `MaxTime`, `MaxOrders`,
`MaxCalls`, `MaxDay`, `MaxServed`, `MaxRequests`, `MaxCrashes`, `MaxFaults`) and
appear as guards.

- *Deal.* In `ordinary` a price of 60 makes the 2.5% fee 1 after rounding down, so
  rounding is exercised; `subscription` has a price of 40, whose fee is exact as
  that of every price the book admits is. Three ticks of two tokens allow a half
  tick, a full tick and a pending claim behind a trusted one. Inputs include volumes
  below the minimum and above the maximum and bonds that are too small and too
  large. Twelve clock units cover probe, claims, dispute and its timeout one after
  the other. The subscription has the four weeks of the code at one or two ticks
  each; a minute is as long as a week, so that the last claim can mature after the
  last week has ended and the term closes in two calls. Both runs see one handover
  per contract. What the second sale of a contract does to its money and its promise
  is covered by the theorems, which hold for any number of handovers; section 4 says
  what it does to the rest.
- *Book.* With five orders and two matches per transaction, walks reach the match
  budget, and the maker-only precheck reaches its scan budget of two. The budget
  on levels is not reached with two prices. One match or one removal per
  transaction makes matches and cancel-alls continue in later transactions. The
  queue of three slots, two of them for placements, is full in some of the states
  of `book_queue`.
- *Market.* One deal and two notes. A behaviour draws one of the plans of
  `MC_Market`, a bag of the calls its owners may make, in any order and at any
  time: two bids, or a bid and a taker, cross one ask and are cancelled; both sides
  bond; a deal is touched; unwound and offered again to the rest of the bid it
  left; a buyer or a seller withdraws; an offer is
  called off; three bids and three cancels fill the queue of two slots. Messages
  are not bounded. With one removal per transaction a cancel-all stays at the head
  while others arrive; `market_live` lets placements queue up behind it, and adds
  an all-or-none bid larger than the ask, so that a walk spends its scan budget of
  one without trading and must resume behind the maker it saw.
- *Reference price.* A window of four days on a ring of five keeps the relation of
  the code (seven on eight); seven days reuse slots.
- *Delivery.* A tick of two tokens and a write every two tokens make one token the
  part that only memory knows. Two streams are what it takes to race on one
  record.
- *Keeper.* One fault per behaviour: a lost call, a wait given up, a crash, or a
  clock one unit ahead. Weeks as long as a minute let a boundary fall between any
  two steps of the keeper. The parties' exits differ only in who is paid, so `stop`
  and the dispute's timeout stand for all.

`CHECK_DEADLOCK FALSE` is stated in every configuration because each system may
stop: a deal's account is destroyed, submissions and the clock are bounded, and a
closed deal's process has nothing left to do.

### Fairness

- `TokenContract!FairSpec`: time passes, `settleWeek` is called when a week is due
  and `cleanupUnopened` when the seller did not show up. The seller's keeper makes
  the first call (`seller/keeper.rs:254`), the buyer's client the second
  (`cli/buyer.rs:6131`). Nothing is assumed of the parties' other calls, nor of
  `resolveDisputeTimeout`, which only the manual command `resolve-dispute-timeout`
  sends (`cli/recover.rs:1187`).
- `Market!FairSpec`: messages are delivered, the book's to itself among them.
  Nothing is assumed of the owners.
- `SellerDelivery!FairSpec`: the runtime schedules the driver's task, and a
  submitted claim is executed. Nothing is assumed of streams.
- `SubscriptionKeeper!KeeperFairSpec`: the process runs, a sent call is executed
  and time passes. Other callers may help but are not counted on.

Where TLC's handling of `ENABLED` would be costly, weak fairness is written out as
"infinitely often not due, or infinitely often taken", where due means that the
step would change something.

## 4. Disagreements between the code and its documentation

Two have a run whose one property states the quoted text and which TLC finds
violated:

| Run | What happens | Stated at |
|---|---|---|
| finding_double_charge | a claim already due when the dispute was raised is burned and also paid when the dispute times out | TokenContract.sol:1867 |
| finding_withdrawn | a cancel's removal notice and its refund are two messages; an owner who withdraws between them is credited a balance that no call pays out again | PrivateNote.sol:2710 |

The others are shown by changing a configuration or a definition:

| What happens | Stated at | To see it |
|---|---|---|
| on an ordinary deal a conceded dispute returns the buyer more than `stop()` | TokenContract.sol:1538 | `NoDoorCheaperThanStop` in MC_FindingDoubleCharge |
| the two resolutions of a subscription's dispute measure the stake before and after the claims collapse | TokenContract.sol:1806, 1828 | `SameStakeOnBothBranches` in MC_Subscription |
| a bond the first buyer sends after `cleanupUnopened()` sets a flag that lets the contract's next match open without a buyer's bond | TokenContract.sol:1036 | `OpenHoldsBothBonds` in MC_FindingDoubleCharge with `MaxMatches = 2` |
| that bond is swept to the seller by `destroy()`, or ends with the seller when the second match closes | TokenContract.sol:2163 | `DestroySweepsNoEarmark` in MC_FindingDoubleCharge; `SellerEarnsOnlyTrusted` there with `MaxMatches = 2` |
| tokens delivered between the probe decision and the ledger's next read are absorbed by the probe and claimed as well; the file then refuses the contract's state | advance.rs:357, capacity.rs:505 | `RestartAccepted` in MC_DeliveryClaimed, also with `MaxFaults = 0` and `LateClaims = FALSE` |
| opening a second stream drops the first one's waiting tokens from what can be claimed | capacity.rs:105, 606 | `EveryTerminalFlushes` in MC_Delivery without the last conjunct of `clean` in `open_stream` |
| a claim that executes between registration and the driver's first read is counted twice | advance.rs:238 | `ClaimsDelivered` in MC_DeliveryClaimed with `MaxFaults = 0` |
| a chunk withheld after a failed write is claimed: `finish_exact` flushes it; with another stream's reservation open it reaches the counter at once, otherwise after a restart | gateway.rs:135 | `ClaimsDelivered` in MC_DeliveryClaimed with `LateClaims = FALSE` |
| a local clock ahead of the chain's makes the keeper send a call the contract refuses, and the failed check of its effect ends the keeper; so does a week that ends while the call is on its way | keeper.rs:5 | `FailsForCause` in MC_Keeper without its first or its third cause |

None of those in the contract breaks `Solvent`, `Conserved` or `KeepsPromise`
(section 5), and in the run `delivery_claimed`, which allows all those of the
delivery, `BilledWithinCap` holds.

## 5. The proofs

The theorems hold for every value of the constants that satisfies the named
assumptions of the modules.

| Module | Theorem | States |
|---|---|---|
| `TokenContractProofs` | `MoneyAlways` | `Spec => []MoneyInv` |
| | `TypeCorrect`, `Solvency`, `Conservation` | `Spec => []TypeOK`, `[]Solvent`, `[]Conserved` |
| | `PhasesAlways` | `Spec => []PhaseInv` |
| | `Refinement` | `Spec => KeepsPromise` |
| `TokenContractClaims` | `ClaimsAlways` | `Spec => []ClaimInv` |
| | `RealTimeClaims`, `EndedWeeks` | `Spec => []ClaimsWithinRealTime`, `[]OnlyEndedWeeksCharged` |
| | `EarnedTrust`, `FrozenDispute` | the action properties `TrustIsEarned`, `DisputeFreezes` |
| `TokenContractExits` | `BondsAlways` | `Spec => []BondInv` |
| | `ConcedingPays` | `Spec => []ConcedingIsCheaper` |
| `SubscriptionExits` | `PrepaidAlways` | `Spec => []TermInv`, for `ExactFees` and `WholeWeeks` |
| | `CancelRefunds`, `DisputeNotCheaper` | under the same two, `Spec => []CancelRefundsUnstartedWeeks`, `[]SubscriptionDisputeNotCheaper` |
| `ReferencePriceProofs` | `RingAlways` | `Spec => []RingInv` |
| | `ExactWindow`, `ReportsCountOnce` | `Spec => []WindowExact`, `[]CountedOnce` |
| `SellerDeliveryProofs` | `DeliveryAlways` | `Spec => []DeliveryInv` |
| | `CoveredReservations`, `CappedBills`, `TerminalsFlush` | `Spec => []ReservationsCovered`, `[]BilledWithinCap`, `[]EveryTerminalFlushes` |
| `SellerDeliveryRestart` | `RestartSafe` | `Spec => []RestartAccepted`, past the probe and without late claims |
| | `ClaimsAreDelivered` | `Spec => []ClaimsDelivered`, without late claims and failed writes |

**Assumptions.**

- *Deal*: a positive price, at least two ticks, positive tick and week lengths,
  natural inputs and bounds. Nothing bounds the number of handovers. Three theorems
  on subscriptions have two hypotheses more, both of them rules of the book that
  lists the deal: `ExactFees`, the fee of one tick is a whole number, which the price
  step gives (InferenceOrderBook.sol:251, 1583, 1651), and `WholeWeeks`, a
  subscription is handed over in whole ticks per week (InferenceOrderBook.sol:1641).
  The run `subscription` is at such a price.
- *Reference price*: the window fits the ring, the ring has at most the eight slots
  of the code, the deals are finitely many, prices and volumes are natural numbers.
  Days and reports are any number.
- *Delivery*: a positive tick, cap and write interval; weeks that add up to the
  funded volume; a week of at least one tick, which the contract's whole ticks per
  week give; finitely many request slots. Crashes, failed writes and late claims
  are any number unless the theorem says otherwise.

`Finiteness!Finite` states that a set is finite in Tarski's form (every nonempty
collection of its subsets has a minimal member). That is the same as having finitely
many elements, and it is the form an induction over a set is done with here: the
library's induction rules take the induction hypothesis as an operator, which the
provers cannot instantiate.

**Money.** `MoneyInv` says that the record is in its type, the flows balance, a
live deal has `Slack >= 0` (balance minus earmarks) and is `Unearned`, and a dead
one holds nothing. Neither solvency nor conservation is inductive alone. Typing
needs solvency, because a payment from a short balance would be negative; solvency
needs typing for the clamps. `Unearned` says that a deal that was never opened has
no probe tick, no owed figure and no fee; without it `cleanupUnopened`, which
returns the deposit and both bonds and burns the whole remaining balance, could
burn an earmark.

The argument goes helper by helper. `Sound(d)` is a live record in order;
`SameMoney` says a helper touched no figure. One lemma per helper says that it
keeps `Sound` and what it does to `Slack` (`ChargeEscrowSound`,
`ForfeitBondsSound`, `SettleFeesSound`, ...), or that it ends the deal with nothing
in it (`SweepEnds`, `PayOwedEnds`). Each exit is a composition of those lemmas, and
the step theorem has one case per action.

**Promise.** `AbstractDeal` allows a deal to be matched only through an offer that
is out, to open only with both bonds in, to be unwound only before it opened and
then only with the match's escrow going back to its buyer, to be offered again only
if it never opened, and to die only without an offer. The flags the mapping reads
are kept apart in the code (`funded`, `opened`, `offerPosted`, the two bond flags,
`subWeeks`), so the steps map only from states where they fit together. `PhaseInv`
adds that to `MoneyInv`: an open deal is funded and nothing else ever opened, a
funded one has no offer out, a disputed one is open, and the match of a
subscription came with its bond. Helpers that only move earmarks and counters are
`Inward`: they change nothing the promise shows. One lemma per entry says which
promise operator it performs; the exits reuse the money lemmas to show that what
leaves is what was held.

**Claims.** `ClaimInv` adds to `PhaseInv` the meter and the calendar. The meter
bounds the pending count by the trusted one plus a tick, and both by the time since
the stream began up to the last claim: without the time of the last claim the
bound is not inductive, since the next claim is judged by the interval from there.
The calendar says that no week is booked before the probe is accepted, that the
booked weeks are over, and that the paid mark is exactly their quota.
`ChargeWeeksThrough` is a loop; it is unrolled over the four weeks of the code.
`Quiet` says once per money helper that it leaves the claims alone.

**Exits.** An exit is a composition of up to a dozen helpers. A lemma for each says
in one line what it leaves to the two sides, and the comparisons are arithmetic
between two such lines. They need to know what the exits find. `BondInv` adds to
`ClaimInv` that a deal that streams holds the seller's whole bond, a subscription
also the buyer's, and a trial its frozen tick: conceding is strictly cheaper because
a timeout burns at least one tick more of the seller's bond, and the bond is there
in full to be burned. `TermInv` adds that a subscription's escrow is exactly the
price and fee of the weeks it has not booked. That is inductive only where the fee
of a sum of ticks is the sum of their fees: the fee is rounded per charge, so at a
price off the book's step four weekly fees and the fee of four weeks differ, and
`CancelRefundsUnstartedWeeks` fails (at a price of 60 and sixteen ticks, for
instance).

**Reference price.** The ring is judged by `Behind`, how many slots a slot lies
behind the current one: a used slot holds all of one past day, at least as much
older as the slot is behind, and a day with trades stays until the ring has gone
all the way round. With a window no longer than the ring this gives
`WindowExact`. `CountedOnce` compares two sums over different finite sets; each
report raises one term of each.

**Delivery.** `DeliveryInv` says that the record in memory and the one in the file
both have room for what was billed and what live streams may still be billed, and
that the room is within what the contract allows at the moment. The file has to be
in it: a crash makes it the record. `TerminalsFlush` needs the books of a serving
process to balance as long as nothing failed (`CleanInv`). `RestartSafe` needs that
both records cover the contract's count, the driver's next claim and every claim in
flight (`RestartInv`); this is where a late claim or a probe that is still to come
breaks it, and section 4 has the counterexamples. `ClaimsAreDelivered` bounds the
same figures by what was shown; a failed write keeps a split that was not billed,
so it is stated without. Operations return sets of outcomes, and one lemma per
operation says what each outcome did to the record, the file and the waiting split.

**Only model-checked.**

- Liveness (`DisputeEnds`, `NoShowUnwound`, `TermEnds`, `RequestsSettled`,
  `OffersSettled`, `DeliveryClaimed`, `KeptToTheEnd`): the prover has no rule for
  fairness.
- `SellerEarnsOnlyTrusted`, which fails for a contract sold twice (section 4).
- `MedianSplits`: what the exchange sort does to a sequence of any length is an
  induction over data.
- The keeper (`StatesAccepted`, `FailsForCause`), the book and the market.

## 6. What is not modelled

- The other half of the private note: outcome orders, transfers between notes,
  deployment and physical currency (`sweepShell` included).
- Real money arriving with messages. The market counts figures; that the physical
  currency of an account covers them is not stated.
- The stream inside the market. `Market` has a deal's promise, not its claims, and
  one deal; several deals compete for bids in the book's own runs.
- The outcome book, the buyer process, the recovery command.
- The linked lists of the book's levels and owners, which appear as ordered sets.
- Networking, encodings, key handling, terminal interaction, reports, installers,
  generated types: they hold no state of the market.
- Gas. Calls that fail for lack of it are not considered.

Most of the repository's lines are of the last kinds, or tests.

## 7. Plan

Model first:

1. `BookLists`: the linked lists of levels and owners, shown to implement the
   ordered sets of `BookEngine`.
2. The stream machine (`core/machine.rs`), the withdrawal gates
   (`core/note_withdraw_gate.rs`) against the note's own guard, and the settlement
   arithmetic (`core/settle.rs`, `core/market/accounting.rs`,
   `core/market/deal_conservation.rs`, `core/accumulator.rs`) against
   `TokenContract`.
3. The buyer: continuity planner and durable deal record with crashes.
4. The outcome book and the other half of the note, reusing the shape of
   `BookEngine` and `PrivateNote`.
5. Two deals in `Market`.

Then prove:

1. `BidsCovered` and `EscrowAccounted` of the book.
2. `StatesAccepted` and `FailsForCause` of the keeper.
3. `MoneyConserved` and `OneLiveOffer` for `Market`.
