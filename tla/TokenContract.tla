--------------------------- MODULE TokenContract ---------------------------
(***************************************************************************)
(* One streaming inference deal: contracts/airegistry/TokenContract.sol.   *)
(* The contract's storage is the record `deal`; every private helper of    *)
(* the contract is an operator from deal to deal, composed in the order of *)
(* the code; every public entry is an action whose guard is the entry's    *)
(* requires.  A failed require reverts the whole call, so it is a disabled *)
(* action here.  Amounts are SHELL figures, tokens are cumulative counts,  *)
(* `now` is block.timestamp.                                               *)
(*                                                                         *)
(* Left out: gas (ensureBalance, _chargeGas), events, the endpoint cipher, *)
(* the model name, the key checks that only say who may call.              *)
(***************************************************************************)
EXTENDS Integers

CONSTANTS
  Buyers,              \* notes that may be bound as the buyer by the book
  PricePerTick,        \* _pricePerTick, P
  MaxTicks,            \* _maxTicks
  TickSize,            \* TICK_SIZE, tokens per tick
  Minute,              \* MIN_SECONDS_PER_TICK, in units of `now`
  ProbeWindow,         \* PROBE_WINDOW
  DisputeWindow,       \* DISPUTE_WINDOW
  MatchOpenTimeout,    \* MATCH_OPEN_TIMEOUT
  SubWeekLen,          \* SUB_WEEK_LEN
  SubscriptionDeals,   \* the kinds of match the book hands over: a subset of BOOLEAN
  HandoverTicks,       \* the volumes, in ticks, that the book may hand over
  BondAmounts,         \* the figures a note may attach to a bond
  WithdrawAmounts,     \* the figures the seller may withdraw
  MaxMatches,          \* bound: handovers from the book in one behaviour
  MaxTime              \* bound: last value of the clock

ASSUME PriceAssumption == PricePerTick \in Nat \ {0}
ASSUME VolumeAssumption == MaxTicks \in Nat \ {0, 1} /\ TickSize \in Nat \ {0}
ASSUME ClockAssumption ==
  /\ Minute \in Nat \ {0}
  /\ ProbeWindow \in Nat
  /\ DisputeWindow \in Nat
  /\ MatchOpenTimeout \in Nat
  /\ SubWeekLen \in Nat \ {0}
ASSUME InputAssumption ==
  /\ SubscriptionDeals \subseteq BOOLEAN
  /\ HandoverTicks \subseteq Nat
  /\ BondAmounts \subseteq Nat
  /\ WithdrawAmounts \subseteq Nat \ {0}
ASSUME BoundAssumption == MaxMatches \in Nat /\ MaxTime \in Nat

VARIABLES deal, now

vars == <<deal, now>>

NoBuyer == "address(0)"

-----------------------------------------------------------------------------
(* Rates, windows and prices                                               *)

BPS_DENOMINATOR == 10000

PLATFORM_FEE_BPS == 250

REBATE_MAX_BPS == 200

REBATE_SLOPE_BPS == 4

SUB_WEEKS == 4

CLAIM_PROMOTE_WINDOW == Minute

MIN_CLAIM_INTERVAL == Minute

MAX_CLAIM_DELTA == TickSize

Lesser(a, b) == IF a <= b THEN a ELSE b

Greater(a, b) == IF a >= b THEN a ELSE b

Fee(amount) == (amount * PLATFORM_FEE_BPS) \div BPS_DENOMINATOR

UnitPrice == PricePerTick + Fee(PricePerTick)

BondAmount == 2 * PricePerTick

Rebate(n) ==
  (Lesser(REBATE_SLOPE_BPS * n, REBATE_MAX_BPS) * n * PricePerTick) \div BPS_DENOMINATOR

\* The pay half of _valueOf; the fee half is Fee of it.
ValueOf(tokens) == (tokens * PricePerTick) \div TickSize

\* What the escrow loses for `tokens`: both halves of _valueOf.
CostOf(tokens) == ValueOf(tokens) + Fee(ValueOf(tokens))

-----------------------------------------------------------------------------
(* Storage.  `alive` is the account's existence; `matches`, `fromBuyer`,   *)
(* `fromSeller`, `toBuyer`, `toSeller` and `burned` record the figures     *)
(* that crossed the contract's boundary: calls received, creditFromDeal    *)
(* and reportDealWriteOff sent.  `reported` is the last reportFinalized.   *)

Flag == BOOLEAN

Deal == [
  alive: Flag, matches: Nat,
  fromBuyer: Nat, fromSeller: Nat, toBuyer: Nat, toSeller: Nat, burned: Nat,
  reported: Nat,
  noteAuthorized: Flag, offerPosted: Flag,
  buyer: Buyers \cup {NoBuyer},
  funded: Flag, opened: Flag, everOpened: Flag,
  disputed: Flag, everDisputed: Flag,
  probeAccepted: Flag, probeTick: Nat, probeTime: Nat,
  sellerBondFunded: Flag, buyerBondFunded: Flag,
  sellerBond: Nat, buyerBond: Nat,
  balance: Nat, deposit: Nat, finalizedOwed: Nat, feeAccrued: Nat,
  ticksFinalized: Nat, fundedTime: Nat, disputeTime: Nat,
  subWeeks: {0, SUB_WEEKS}, weekIndex: 0 .. SUB_WEEKS,
  tokensPerWeek: Nat, fundedTokens: Nat, tokensPaid: Nat,
  periodStart: Nat, weekBaseTokens: Nat,
  tokensFinal: Nat, tokensPend: Nat, lastClaimTime: Nat]

\* The constructor's storage.
NewDeal == [
  alive |-> TRUE, matches |-> 0,
  fromBuyer |-> 0, fromSeller |-> 0, toBuyer |-> 0, toSeller |-> 0, burned |-> 0,
  reported |-> 0,
  noteAuthorized |-> FALSE, offerPosted |-> FALSE,
  buyer |-> NoBuyer,
  funded |-> FALSE, opened |-> FALSE, everOpened |-> FALSE,
  disputed |-> FALSE, everDisputed |-> FALSE,
  probeAccepted |-> FALSE, probeTick |-> 0, probeTime |-> 0,
  sellerBondFunded |-> FALSE, buyerBondFunded |-> FALSE,
  sellerBond |-> 0, buyerBond |-> 0,
  balance |-> 0, deposit |-> 0, finalizedOwed |-> 0, feeAccrued |-> 0,
  ticksFinalized |-> 0, fundedTime |-> 0, disputeTime |-> 0,
  subWeeks |-> 0, weekIndex |-> 0,
  tokensPerWeek |-> 0, fundedTokens |-> 0, tokensPaid |-> 0,
  periodStart |-> 0, weekBaseTokens |-> 0,
  tokensFinal |-> 0, tokensPend |-> 0, lastClaimTime |-> 0]

IsSubscription(d) == d.subWeeks # 0

-----------------------------------------------------------------------------
(* Money leaving the record                                                *)

PayBuyer(d, amount) ==
  [d EXCEPT !.balance = @ - amount, !.toBuyer = @ + amount]

PaySeller(d, amount) ==
  [d EXCEPT !.balance = @ - amount, !.toSeller = @ + amount]

\* Mutant: the burn is not reported to the root's ledger.
BurnShell_NotReported(d, amount) == [d EXCEPT !.balance = @ - amount]

BurnShell(d, amount) ==
  [d EXCEPT !.balance = @ - amount, !.burned = @ + amount]

\* _die: the closing mirrors to both notes and selfdestruct.
Die(d) == [d EXCEPT !.alive = FALSE]

\* The residual figure follows the destruct's payee.
SweepAndDie(d) == Die(PaySeller(d, d.balance))

PayOwedAndDie(d) ==
  SweepAndDie(PaySeller([d EXCEPT !.finalizedOwed = 0], d.finalizedOwed))

ReportFinalized(d) ==
  IF d.ticksFinalized = 0 \/ ~d.noteAuthorized
  THEN d ELSE [d EXCEPT !.reported = d.ticksFinalized]

SettleFees(d, clean) ==
  LET rebate == IF clean /\ ~d.everDisputed
                THEN Lesser(Rebate(d.ticksFinalized), d.feeAccrued) ELSE 0
  IN ReportFinalized(
       BurnShell([d EXCEPT !.finalizedOwed = @ + rebate, !.feeAccrued = 0],
                 d.feeAccrued - rebate))

ReleaseProbe(d) ==
  IF d.probeAccepted THEN d
  ELSE [d EXCEPT !.deposit = @ + d.probeTick, !.probeTick = 0]

\* Mutant: the bond joins the escrow and stays earmarked as well.
ReleaseBuyerBond_Twice(d) == [d EXCEPT !.deposit = @ + d.buyerBond]

ReleaseBuyerBond(d) ==
  [d EXCEPT !.deposit = @ + d.buyerBond, !.buyerBond = 0]

ReturnBond(d) ==
  IF d.sellerBond = 0 THEN d
  ELSE PaySeller([d EXCEPT !.sellerBond = 0, !.sellerBondFunded = FALSE], d.sellerBond)

\* Clamped to what each side holds, and burned, never handed over.
ForfeitBonds(d, fromBuyer, fromSeller) ==
  LET b == Lesser(fromBuyer, d.buyerBond)
      s == Lesser(fromSeller, d.sellerBond)
  IN BurnShell([d EXCEPT !.buyerBond = @ - b, !.sellerBond = @ - s], b + s)

\* Mutant: only `pay` is clamped to the deposit.
ChargeEscrow_ClampsPayOnly(d, tokens) ==
  LET pay == Lesser(ValueOf(tokens), d.deposit)
      fee == Fee(ValueOf(tokens))
  IN [d EXCEPT !.deposit = @ - (pay + fee),
               !.finalizedOwed = @ + pay,
               !.feeAccrued = @ + fee]

\* Move the price of `tokens` out of the escrow: pay to the seller's account,
\* fee to the accrued fees, the sum clamped to the deposit, the fee first.
ChargeEscrow(d, tokens) ==
  LET pay0 == ValueOf(tokens)
      fee0 == Fee(pay0)
      short == pay0 + fee0 > d.deposit
      fee == IF short THEN Lesser(d.deposit, fee0) ELSE fee0
      pay == IF short THEN d.deposit - fee ELSE pay0
  IN [d EXCEPT !.deposit = @ - (pay + fee),
               !.finalizedOwed = @ + pay,
               !.feeAccrued = @ + fee]

-----------------------------------------------------------------------------
(* Claims: one final figure, one pending claim, judged by its own window   *)

Promote(d) == [d EXCEPT !.tokensFinal = Greater(@, d.tokensPend)]

\* Mutant: a claim is trusted at once.
PromoteDue_NoWindow(d, t) == IF t >= d.lastClaimTime THEN Promote(d) ELSE d

PromoteDue(d, t) ==
  IF t >= d.lastClaimTime + CLAIM_PROMOTE_WINDOW THEN Promote(d) ELSE d

\* _promoteDue evaluated at the instant the dispute was raised; what had not
\* outlived its window by then is dropped.
VoidClaims(d) ==
  LET judged == PromoteDue(d, d.disputeTime)
  IN [judged EXCEPT !.tokensPend = judged.tokensFinal]

RecordDelivered(d) ==
  LET delivered == IF d.probeAccepted THEN Greater(d.tokensFinal, TickSize)
                   ELSE d.tokensFinal
  IN [d EXCEPT !.ticksFinalized = delivered \div TickSize]

ClaimCap(d) ==
  IF ~IsSubscription(d) THEN d.fundedTokens
  ELSE IF d.weekIndex >= d.subWeeks THEN d.tokensPend
  ELSE Lesser(d.weekBaseTokens + d.tokensPerWeek, d.fundedTokens)

-----------------------------------------------------------------------------
(* Subscription weeks: take-or-pay                                         *)

\* Mutant: the week in progress counts as elapsed.
WeeksElapsedAt_Started(d, t) ==
  Lesser((t - d.periodStart) \div SubWeekLen + 1, d.subWeeks)

WeeksElapsedAt(d, t) == Lesser((t - d.periodStart) \div SubWeekLen, d.subWeeks)

WeeksStartedAt(d, t) ==
  LET e == WeeksElapsedAt(d, t) IN IF e < d.subWeeks THEN e + 1 ELSE e

\* Mutant: every week is charged its whole quota, the probe not netted.
ChargeWeek_ProbeNotNetted(d) ==
  [ChargeEscrow(d, d.tokensPerWeek) EXCEPT
     !.tokensPaid = (d.weekIndex + 1) * d.tokensPerWeek,
     !.weekIndex = @ + 1,
     !.weekBaseTokens = Greater(d.tokensFinal, d.tokensPend)]

\* One turn of the loop in _chargeWeeksThrough.
ChargeWeek(d) ==
  LET target == (d.weekIndex + 1) * d.tokensPerWeek
  IN [ChargeEscrow(d, Greater(target - d.tokensPaid, 0)) EXCEPT
        !.tokensPaid = target,
        !.weekIndex = @ + 1,
        !.weekBaseTokens = Greater(d.tokensFinal, d.tokensPend)]

ChargeWeekIfBefore(d, target) == IF d.weekIndex < target THEN ChargeWeek(d) ELSE d

\* The whole loop: `target` never exceeds SUB_WEEKS, so four turns exhaust it.
ChargeWeeksThrough(d, target) ==
  IF ~IsSubscription(d) \/ ~d.probeAccepted THEN d
  ELSE LET w1 == ChargeWeekIfBefore(d, target)
           w2 == ChargeWeekIfBefore(w1, target)
           w3 == ChargeWeekIfBefore(w2, target)
       IN ChargeWeekIfBefore(w3, target)

SettleBoundaries(d, due) ==
  IF due <= d.weekIndex THEN d
  ELSE ReportFinalized(RecordDelivered(ChargeWeeksThrough(d, due)))

-----------------------------------------------------------------------------
(* Terminals                                                               *)

CloseClean(d) ==
  LET freed == RecordDelivered(ReleaseBuyerBond(ReleaseProbe(d)))
      closed == [freed EXCEPT !.deposit = 0,
                              !.finalizedOwed = @ + freed.sellerBond,
                              !.sellerBond = 0,
                              !.opened = FALSE]
  IN PayOwedAndDie(PayBuyer(SettleFees(closed, TRUE), freed.deposit))

PayFinalAndClose(d) ==
  LET owed == IF IsSubscription(d) THEN 0 ELSE Greater(d.tokensFinal - d.tokensPaid, 0)
  IN CloseClean([ChargeEscrow(d, owed) EXCEPT !.tokensPaid = @ + owed])

\* The consumption mark a disputed week is paid from.
ClaimBase(d) ==
  IF IsSubscription(d) /\ d.weekIndex > 0 THEN d.weekBaseTokens ELSE d.tokensPaid

ClaimedUnpaidValue(d) == CostOf(Greater(d.tokensPend - ClaimBase(d), 0))

\* D: the value, then the floor, then the cap, then what each side holds.
DisputeStake(d) ==
  LET bounded == Lesser(Greater(ClaimedUnpaidValue(d), PricePerTick), BondAmount)
      mine == IF IsSubscription(d) THEN d.buyerBond ELSE d.deposit
  IN Lesser(Lesser(bounded, mine), d.sellerBond)

\* Mutant: the unearned part of the disputed week is refunded.
UnearnedEscrow_Refunded(d) == 0

\* On a subscription the part of the disputed week no claim proves is burned.
UnearnedEscrow(d) ==
  LET unstarted == d.subWeeks - WeeksStartedAt(d, d.disputeTime)
  IN IF IsSubscription(d) /\ d.probeAccepted
     THEN Greater(d.deposit - CostOf(unstarted * d.tokensPerWeek), 0)
     ELSE 0

\* The seller is paid what the claims prove beyond the mark.
PayTrusted(d) ==
  [RecordDelivered(ChargeEscrow(d, Greater(d.tokensFinal - ClaimBase(d), 0))) EXCEPT
     !.tokensPaid = Greater(@, d.tokensFinal)]

\* Burn what no claim proves, refund the escrow and both bonds' remainders.
CloseStaked(d) ==
  LET unearned == UnearnedEscrow(d)
      closed == [BurnShell(d, unearned) EXCEPT
                   !.buyerBond = 0, !.deposit = 0,
                   !.finalizedOwed = @ + d.sellerBond,
                   !.sellerBond = 0, !.opened = FALSE]
  IN PayOwedAndDie(PayBuyer(SettleFees(closed, FALSE), d.deposit - unearned + d.buyerBond))

SettleTrustedAndClose(d, buyerStake, sellerStake) ==
  LET booked == ChargeWeeksThrough(ReleaseProbe(d), WeeksElapsedAt(d, d.disputeTime))
  IN CloseStaked(ForfeitBonds(PayTrusted(booked), buyerStake, sellerStake))

-----------------------------------------------------------------------------
(* Before the stream: listing, handover, bonds                             *)

postFromNote ==
  /\ deal.alive
  /\ deal' = [deal EXCEPT !.noteAuthorized = TRUE,
                          !.offerPosted = @ \/ ~deal.funded]
  /\ UNCHANGED now

onSellClosed ==
  /\ deal.alive /\ deal.noteAuthorized /\ ~deal.funded
  /\ deal' = [deal EXCEPT !.offerPosted = FALSE]
  /\ UNCHANGED now

RecordFunding(d, b, paid, t) ==
  [d EXCEPT !.buyer = b, !.deposit = paid, !.funded = TRUE,
            !.offerPosted = FALSE, !.fundedTime = t]

RecordDealShape(d, sub, ticks, t) ==
  LET tokens == ticks * TickSize
  IN [d EXCEPT !.subWeeks = IF sub THEN SUB_WEEKS ELSE 0,
               !.weekIndex = 0, !.periodStart = t,
               !.tokensPerWeek = IF sub THEN tokens \div SUB_WEEKS ELSE tokens,
               !.fundedTokens = tokens, !.lastClaimTime = t]

\* An unusable handover is paid straight back to the note it names.
Handover(d, b, sub, paid, t) ==
  LET bond == IF sub THEN BondAmount ELSE 0
      taken == [d EXCEPT !.balance = @ + paid, !.fromBuyer = @ + paid,
                         !.matches = @ + 1]
      escrow == paid - bond
      bonded == [taken EXCEPT !.buyerBond = bond,
                              !.buyerBondFunded = @ \/ bond > 0]
  IN IF \/ d.funded
        \/ escrow < 2 * UnitPrice
        \/ escrow > MaxTicks * UnitPrice
     THEN PayBuyer(taken, paid)
     ELSE RecordDealShape(RecordFunding(bonded, b, escrow, t),
                          sub, escrow \div UnitPrice, t)

\* The book pays ticks at the clearing price, plus the bond of a subscription.
\* It matches an ask that rests, or repeats a handover (the nonce reuse the
\* code refuses).
fundFromOrderBook(b, sub, ticks) ==
  /\ deal.alive /\ deal.noteAuthorized
  /\ deal.offerPosted \/ deal.funded
  /\ deal.matches < MaxMatches
  /\ LET paid == ticks * UnitPrice + (IF sub THEN BondAmount ELSE 0)
     IN deal' = Handover(deal, b, sub, paid, now)
  /\ UNCHANGED now

fundDeal(amount) ==
  /\ deal.alive
  /\ ~deal.opened /\ ~deal.sellerBondFunded
  /\ amount > 0 /\ amount >= BondAmount
  /\ deal' = PaySeller([deal EXCEPT !.balance = @ + amount, !.fromSeller = @ + amount,
                                    !.sellerBond = BondAmount, !.sellerBondFunded = TRUE],
                       amount - BondAmount)
  /\ UNCHANGED now

fundBuyerBond(b, amount) ==
  /\ deal.alive
  /\ b = deal.buyer
  /\ ~deal.opened /\ ~deal.buyerBondFunded
  /\ amount > 0 /\ amount >= BondAmount
  /\ deal' = PayBuyer([deal EXCEPT !.balance = @ + amount, !.fromBuyer = @ + amount,
                                   !.buyerBond = BondAmount, !.buyerBondFunded = TRUE],
                      amount - BondAmount)
  /\ UNCHANGED now

close ==
  /\ deal.alive
  /\ ~deal.funded /\ ~deal.offerPosted
  /\ deal' = SweepAndDie(ReturnBond(deal))
  /\ UNCHANGED now

-----------------------------------------------------------------------------
(* The stream: probe, claims, weeks                                        *)

\* Mutant: the stream opens on the seller's bond alone.
open_BuyerUnbonded ==
  /\ deal.alive
  /\ deal.funded /\ ~deal.opened
  /\ deal.sellerBondFunded
  /\ deal.deposit >= PricePerTick
  /\ deal' = [deal EXCEPT !.probeTick = PricePerTick, !.deposit = @ - PricePerTick,
                          !.probeAccepted = FALSE, !.probeTime = now,
                          !.lastClaimTime = now, !.opened = TRUE, !.everOpened = TRUE]
  /\ UNCHANGED now

open ==
  /\ deal.alive
  /\ deal.funded /\ ~deal.opened
  /\ deal.sellerBondFunded /\ deal.buyerBondFunded
  /\ deal.deposit >= PricePerTick
  /\ deal' = [deal EXCEPT !.probeTick = PricePerTick, !.deposit = @ - PricePerTick,
                          !.probeAccepted = FALSE, !.probeTime = now,
                          !.lastClaimTime = now, !.opened = TRUE, !.everOpened = TRUE]
  /\ UNCHANGED now

\* Mutant: the paid mark does not record the probe.
acceptProbe_PaidMarkUnset ==
  /\ deal.alive
  /\ deal.opened /\ ~deal.disputed /\ ~deal.probeAccepted
  /\ now >= deal.probeTime + ProbeWindow
  /\ LET fee == Lesser(Fee(PricePerTick), deal.deposit)
     IN deal' = [deal EXCEPT !.finalizedOwed = @ + deal.probeTick,
                             !.feeAccrued = @ + fee, !.deposit = @ - fee,
                             !.probeTick = 0, !.probeAccepted = TRUE,
                             !.periodStart = now,
                             !.tokensFinal = TickSize,
                             !.tokensPend = TickSize, !.weekBaseTokens = 0,
                             !.ticksFinalized = 1, !.lastClaimTime = now]
  /\ UNCHANGED now

acceptProbe ==
  /\ deal.alive
  /\ deal.opened /\ ~deal.disputed /\ ~deal.probeAccepted
  /\ now >= deal.probeTime + ProbeWindow
  /\ LET fee == Lesser(Fee(PricePerTick), deal.deposit)
     IN deal' = [deal EXCEPT !.finalizedOwed = @ + deal.probeTick,
                             !.feeAccrued = @ + fee, !.deposit = @ - fee,
                             !.probeTick = 0, !.probeAccepted = TRUE,
                             !.periodStart = now,
                             !.tokensPaid = TickSize, !.tokensFinal = TickSize,
                             !.tokensPend = TickSize, !.weekBaseTokens = 0,
                             !.ticksFinalized = 1, !.lastClaimTime = now]
  /\ UNCHANGED now

\* Mutant: the claim does not restart the clock.
claimTokens_KeepsClock(tokens) ==
  /\ deal.alive
  /\ deal.opened /\ ~deal.disputed /\ deal.probeAccepted
  /\ tokens > deal.tokensPend
  /\ LET settled == SettleBoundaries(deal, WeeksElapsedAt(deal, now))
         elapsed == now - deal.lastClaimTime
         delta == tokens - deal.tokensPend
         promoted == PromoteDue(settled, now)
     IN /\ tokens <= ClaimCap(settled)
        /\ elapsed >= MIN_CLAIM_INTERVAL
        /\ delta <= MAX_CLAIM_DELTA
        /\ delta * Minute <= elapsed * TickSize
        /\ deal' = [promoted EXCEPT !.tokensPend = tokens]
  /\ UNCHANGED now

\* Repeating the pending figure is a no-op in the code; only growth is a step.
claimTokens(tokens) ==
  /\ deal.alive
  /\ deal.opened /\ ~deal.disputed /\ deal.probeAccepted
  /\ tokens > deal.tokensPend
  /\ LET settled == SettleBoundaries(deal, WeeksElapsedAt(deal, now))
         elapsed == now - deal.lastClaimTime
         delta == tokens - deal.tokensPend
         promoted == PromoteDue(settled, now)
     IN /\ tokens <= ClaimCap(settled)
        /\ elapsed >= MIN_CLAIM_INTERVAL
        /\ delta <= MAX_CLAIM_DELTA
        /\ delta * Minute <= elapsed * TickSize
        /\ promoted.tokensPend = promoted.tokensFinal
        /\ deal' = [promoted EXCEPT !.tokensPend = tokens, !.lastClaimTime = now]
  /\ UNCHANGED now

\* The requires of finalize.
FinalizeDue ==
  /\ deal.alive
  /\ deal.opened /\ ~deal.disputed
  /\ deal.tokensPend > deal.tokensFinal
  /\ now >= deal.lastClaimTime + CLAIM_PROMOTE_WINDOW

finalize ==
  /\ FinalizeDue
  /\ LET promoted == PromoteDue(deal, now)
     IN deal' = IF ~IsSubscription(deal) /\ promoted.tokensFinal >= deal.fundedTokens
                THEN PayFinalAndClose(promoted) ELSE promoted
  /\ UNCHANGED now

\* Mutant: weeks are still booked while the deal is disputed.
WeekDue_IgnoresDispute ==
  /\ deal.alive
  /\ IsSubscription(deal)
  /\ deal.opened /\ deal.probeAccepted
  /\ WeeksElapsedAt(deal, now) > deal.weekIndex

\* The requires of settleWeek.
WeekDue ==
  /\ deal.alive
  /\ IsSubscription(deal)
  /\ deal.opened /\ ~deal.disputed /\ deal.probeAccepted
  /\ WeeksElapsedAt(deal, now) > deal.weekIndex \/ deal.weekIndex >= deal.subWeeks

\* Mutant: the boundary is booked but a finished term never closes.
WeekSettled_NeverCloses(d, t) == SettleBoundaries(d, WeeksElapsedAt(d, t))

WeekSettled(d, t) ==
  LET settled == SettleBoundaries(d, WeeksElapsedAt(d, t))
  IN IF /\ settled.weekIndex >= settled.subWeeks
        /\ t >= settled.lastClaimTime + CLAIM_PROMOTE_WINDOW
     THEN PayFinalAndClose(PromoteDue(settled, t)) ELSE settled

settleWeek == WeekDue /\ deal' = WeekSettled(deal, now) /\ UNCHANGED now

-----------------------------------------------------------------------------
(* Exits.  What each one does to the deal is an operator of its own, so    *)
(* that two exits can be compared from the same state.                     *)

\* The buyer walks out of the trial: the probe and a mirror tick burn.
StoppedOnProbe(d) ==
  LET bondBurn == Lesser(d.probeTick, d.sellerBond)
      freed == ReleaseBuyerBond(d)
      closed == [freed EXCEPT !.sellerBond = 0,
                              !.finalizedOwed = @ + (d.sellerBond - bondBurn),
                              !.probeTick = 0, !.deposit = 0, !.opened = FALSE]
  IN PayOwedAndDie(PayBuyer(BurnShell(closed, d.probeTick + bondBurn), freed.deposit))

Stopped(d, t) ==
  LET due == PromoteDue(d, t)
      settled == IF IsSubscription(d) THEN due
                 ELSE ForfeitBonds(Promote(due), PricePerTick, 0)
  IN IF ~d.probeAccepted THEN StoppedOnProbe(d)
     ELSE PayFinalAndClose(ChargeWeeksThrough(settled, WeeksStartedAt(d, t)))

SellerStopped(d, t) ==
  LET trial == IF d.probeAccepted THEN d ELSE ForfeitBonds(d, 0, PricePerTick)
      due == PromoteDue(trial, t)
      settled == IF d.probeAccepted /\ ~IsSubscription(d)
                 THEN ForfeitBonds([due EXCEPT !.tokensPend = due.tokensFinal],
                                   0, PricePerTick)
                 ELSE due
  IN PayFinalAndClose(ChargeWeeksThrough(settled, WeeksElapsedAt(d, t)))

\* The seller agrees.
Released(d) ==
  LET booked == ChargeWeeksThrough(d, WeeksElapsedAt(d, d.disputeTime))
      voided == [VoidClaims(booked) EXCEPT !.disputed = FALSE]
  IN IF IsSubscription(d)
     THEN SettleTrustedAndClose(voided, DisputeStake(voided), 0)
     ELSE SettleTrustedAndClose(voided, PricePerTick, PricePerTick)

\* Mutant: an expired dispute costs what conceding costs.
TimedOut_AsConceded(d) == Released(d)

\* Nobody agreed.
TimedOut(d) ==
  LET booked == ChargeWeeksThrough(d, WeeksElapsedAt(d, d.disputeTime))
      stake == DisputeStake(booked)
      voided == [VoidClaims(booked) EXCEPT !.disputed = FALSE]
      burnPend == Lesser(CostOf(Greater(d.tokensPend - d.tokensFinal, 0)), d.deposit)
  IN IF IsSubscription(d)
     THEN SettleTrustedAndClose(voided, stake, stake)
     ELSE SettleTrustedAndClose(
            BurnShell([voided EXCEPT !.deposit = @ - burnPend], burnPend),
            2 * PricePerTick, 2 * PricePerTick)

stop ==
  /\ deal.alive
  /\ deal.opened /\ ~deal.disputed
  /\ deal' = Stopped(deal, now)
  /\ UNCHANGED now

sellerStop ==
  /\ deal.alive
  /\ deal.opened /\ ~deal.disputed
  /\ deal' = SellerStopped(deal, now)
  /\ UNCHANGED now

dispute ==
  /\ deal.alive
  /\ deal.opened /\ ~deal.disputed
  /\ deal' = [deal EXCEPT !.disputed = TRUE, !.everDisputed = TRUE,
                          !.disputeTime = now]
  /\ UNCHANGED now

releaseDispute ==
  /\ deal.alive
  /\ deal.disputed
  /\ deal' = Released(deal)
  /\ UNCHANGED now

\* Mutant: resolving clears the flag and leaves the stream running.
resolveDisputeTimeout_Resumes ==
  /\ deal.alive
  /\ deal.disputed
  /\ now >= deal.disputeTime + DisputeWindow
  /\ deal' = [deal EXCEPT !.disputed = FALSE]
  /\ UNCHANGED now

DisputeExpired ==
  deal.alive /\ deal.disputed /\ now >= deal.disputeTime + DisputeWindow

resolveDisputeTimeout == DisputeExpired /\ deal' = TimedOut(deal) /\ UNCHANGED now

\* Mutant: only the buyer may unwind a no-show.
CleanupAllowed_BuyerOnly(byBuyer) ==
  byBuyer /\ deal.alive /\ deal.funded /\ ~deal.opened /\ ~deal.everOpened

\* The buyer at any time, anyone after the timeout.
CleanupAllowed(byBuyer) ==
  /\ deal.alive
  /\ deal.funded /\ ~deal.opened /\ ~deal.everOpened
  /\ byBuyer \/ now >= deal.fundedTime + MatchOpenTimeout

\* Both sides are made whole, the rest is burned, and the deal survives.
Unwound(d) ==
  LET freed == ReleaseBuyerBond(d)
      reset == [freed EXCEPT !.deposit = 0, !.sellerBond = 0, !.funded = FALSE,
                             !.sellerBondFunded = FALSE, !.buyerBondFunded = FALSE,
                             !.offerPosted = FALSE]
      paid == PaySeller(PayBuyer(reset, freed.deposit), freed.sellerBond)
  IN BurnShell(paid, paid.balance)

cleanupUnopened(byBuyer) ==
  CleanupAllowed(byBuyer) /\ deal' = Unwound(deal) /\ UNCHANGED now

withdrawShell(amount) ==
  /\ deal.alive
  /\ 0 < amount /\ amount <= deal.finalizedOwed /\ amount <= deal.balance
  /\ LET paid == PaySeller([deal EXCEPT !.finalizedOwed = @ - amount], amount)
     IN deal' = IF /\ paid.funded /\ ~paid.opened /\ ~paid.disputed
                   /\ paid.finalizedOwed = 0 /\ ~paid.offerPosted
                THEN SweepAndDie(paid) ELSE paid
  /\ UNCHANGED now

\* The whole of destroy() up to the sweep of what is left.
DestroyedBeforeSweep(d) ==
  LET freed == ReleaseBuyerBond(ReleaseProbe(d))
      refunded == PayBuyer([freed EXCEPT !.deposit = 0, !.funded = FALSE], freed.deposit)
  IN ReturnBond(IF d.funded THEN refunded ELSE d)

destroy ==
  /\ deal.alive
  /\ ~deal.opened /\ ~deal.disputed /\ ~deal.offerPosted
  /\ deal' = SweepAndDie(DestroyedBeforeSweep(deal))
  /\ UNCHANGED now

Tick ==
  /\ deal.alive
  /\ now < MaxTime
  /\ now' = now + 1
  /\ UNCHANGED deal

-----------------------------------------------------------------------------

Init == deal = NewDeal /\ now = 0

Next ==
  \/ postFromNote
  \/ onSellClosed
  \/ \E b \in Buyers, sub \in SubscriptionDeals, ticks \in HandoverTicks :
       fundFromOrderBook(b, sub, ticks)
  \/ \E amount \in BondAmounts : fundDeal(amount)
  \/ \E b \in Buyers, amount \in BondAmounts : fundBuyerBond(b, amount)
  \/ close
  \/ open
  \/ acceptProbe
  \/ \E tokens \in 1 .. deal.fundedTokens : claimTokens(tokens)
  \/ finalize
  \/ settleWeek
  \/ stop
  \/ sellerStop
  \/ dispute
  \/ releaseDispute
  \/ resolveDisputeTimeout
  \/ \E byBuyer \in BOOLEAN : cleanupUnopened(byBuyer)
  \/ \E amount \in WithdrawAmounts : withdrawShell(amount)
  \/ destroy
  \/ Tick

Spec == Init /\ [][Next]_vars

\* Time passes; the seller's keeper calls settleWeek when a week is due
\* (seller/keeper.rs:254); the buyer's client calls cleanupUnopened when the seller
\* does not show up (cli/buyer.rs:6131).  Each of the two is weak fairness of its
\* entry, with ENABLED <<entry>>_vars written out: the requires hold and the result
\* differs.  Nothing is assumed of resolveDisputeTimeout, which no client calls by
\* itself.
FairSpec ==
  /\ Spec
  /\ WF_vars(Tick)
  /\ \/ []<>~(WeekDue /\ WeekSettled(deal, now) # deal)
     \/ []<><<settleWeek>>_vars
  /\ \/ []<>~(CleanupAllowed(FALSE) /\ Unwound(deal) # deal)
     \/ []<><<cleanupUnopened(FALSE)>>_vars

-----------------------------------------------------------------------------
(* Invariants                                                              *)

\* Every figure of the contract stays in its unsigned range: no subtraction
\* on any settlement path can underflow, which in the code would revert the
\* exit for good (_settleTrustedAndClose, _payFinalAndClose, _payShell).
TypeOK == deal \in Deal /\ now \in Nat

Earmarked(d) ==
  d.deposit + d.probeTick + d.finalizedOwed + d.feeAccrued + d.sellerBond + d.buyerBond

\* _balance is the total and the earmarks lie within it: while the deal lives,
\* what it has promised to the two sides never exceeds what it holds.
Solvent == deal.alive => Earmarked(deal) <= deal.balance

\* Nothing is minted and nothing vanishes: what the two sides brought is held,
\* was paid to one of them, or was burned and reported; a dead deal holds nothing.
Conserved ==
  /\ deal.fromBuyer + deal.fromSeller
       = deal.balance + deal.toBuyer + deal.toSeller + deal.burned
  /\ ~deal.alive => deal.balance = 0

\* What the buyer can lose to claims they have had no time to object to: at most
\* one tick is claimed and not yet trusted, and over the whole stream, not only
\* per call, no more output is claimed than one tick per minute since the probe
\* was accepted.
ClaimsWithinRealTime ==
  /\ deal.tokensPend <= deal.tokensFinal + TickSize
  /\ deal.probeAccepted =>
       (deal.tokensPend - TickSize) * Minute
         <= (deal.lastClaimTime - deal.periodStart) * TickSize

\* The seller of an ordinary deal ends with their own money, the price of the
\* ticks that became trusted and the rebate, and never with more.
SellerEarnsOnlyTrusted ==
  ~deal.alive /\ ~IsSubscription(deal) /\ deal.everOpened =>
    deal.toSeller <= deal.fromSeller + ValueOf(deal.tokensFinal)
                       + Rebate(deal.ticksFinalized)

\* Take-or-pay charges a week only once it has ended: while a subscription is
\* live and undisputed, the weeks booked are weeks that elapsed and the money
\* mark is exactly the quota of those weeks (the probe before the first one).
OnlyEndedWeeksCharged ==
  deal.alive /\ IsSubscription(deal) /\ deal.probeAccepted =>
    /\ deal.weekIndex * SubWeekLen <= now - deal.periodStart
    /\ deal.tokensPaid = IF deal.weekIndex = 0 THEN TickSize
                         ELSE deal.weekIndex * deal.tokensPerWeek

\* Cancelling a subscription buys back the future: at every moment stop() would
\* return at least the price of the weeks that have not started, plus the bond.
CancelRefundsUnstartedWeeks ==
  deal.opened /\ ~deal.disputed /\ IsSubscription(deal) /\ deal.probeAccepted =>
    LET unstarted == deal.subWeeks - WeeksStartedAt(deal, now)
    IN Stopped(deal, now).toBuyer - deal.toBuyer
         >= ValueOf(unstarted * deal.tokensPerWeek) + deal.buyerBond

\* What stop() would have returned to the buyer when the dispute was raised.
StoppedInstead(d) == Stopped([d EXCEPT !.disputed = FALSE], d.disputeTime)

\* No door out of a subscription is cheaper for the buyer than stop(): both
\* resolutions of a dispute return at most what stop() would have returned.
SubscriptionDisputeNotCheaper ==
  deal.disputed /\ IsSubscription(deal) =>
    /\ Released(deal).toBuyer <= StoppedInstead(deal).toBuyer
    /\ TimedOut(deal).toBuyer <= StoppedInstead(deal).toBuyer

\* Agreeing is the seller's cheaper branch: conceding a dispute always leaves
\* them with strictly more than letting it time out.
ConcedingIsCheaper ==
  deal.disputed => Released(deal).toSeller > TimedOut(deal).toSeller

-----------------------------------------------------------------------------
(* Action properties                                                       *)

\* A claim becomes trusted only by outliving its own window, judged at the
\* dispute's instant once one is raised, or by the buyer's own stop().
TrustIsEarned ==
  [][deal.probeAccepted /\ deal'.tokensFinal > deal.tokensFinal =>
       LET judgedAt == IF deal.disputed THEN deal.disputeTime ELSE now
       IN \/ judgedAt >= deal.lastClaimTime + CLAIM_PROMOTE_WINDOW
          \/ deal' = Stopped(deal, now)]_vars

\* A dispute freezes the deal: until it is resolved no claim lands or matures,
\* no week is booked and no escrow or bond moves.
DisputeFreezes ==
  [][deal.disputed /\ deal'.disputed =>
       /\ deal'.deposit = deal.deposit /\ deal'.probeTick = deal.probeTick
       /\ deal'.sellerBond = deal.sellerBond /\ deal'.buyerBond = deal.buyerBond
       /\ deal'.tokensFinal = deal.tokensFinal /\ deal'.tokensPend = deal.tokensPend
       /\ deal'.weekIndex = deal.weekIndex]_vars

-----------------------------------------------------------------------------
(* Liveness under FairSpec, for deadlines the bounded clock reaches        *)

\* Somebody runs the command resolve-dispute-timeout (cli/recover.rs:1187) on a
\* dispute that stays unresolved past its window.  This is an assumption about
\* people: the contract reckons with a call that comes "arbitrarily late"
\* (TokenContract.sol:1856) or never.
TimeoutCalled == []<>~DisputeExpired \/ []<><<resolveDisputeTimeout>>_vars

\* One caller is enough to end a dispute that both parties have abandoned: time
\* alone opens resolveDisputeTimeout, no other entry takes it away again or revives
\* the deal, and the call ends the deal whenever it comes.
DisputeEnds ==
  TimeoutCalled =>
    ((deal.disputed /\ deal.disputeTime + DisputeWindow <= MaxTime) ~> ~deal.alive)

\* A match the seller never opens is unwound.
NoShowUnwound ==
  (deal.funded /\ ~deal.opened /\ deal.fundedTime + MatchOpenTimeout <= MaxTime)
    ~> (~deal.alive \/ ~deal.funded \/ deal.opened)

\* A subscription's term ends the deal: settleWeek closes it once the last week
\* is booked and the last claim has matured, however the seller claims.
TermEnds ==
  (/\ deal.opened /\ deal.probeAccepted /\ IsSubscription(deal)
   /\ deal.periodStart + SUB_WEEKS * SubWeekLen + Minute <= MaxTime)
    ~> (~deal.alive \/ deal.disputed)

-----------------------------------------------------------------------------
(* Refinement: the deal as the rest of the market sees it                  *)

Public == INSTANCE DealPromise

PromiseOf(d) ==
  IF ~d.alive THEN Public!DeadDeal
  ELSE [phase |-> IF d.opened THEN "open" ELSE IF d.funded THEN "matched" ELSE "idle",
        listed |-> d.noteAuthorized, offered |-> d.offerPosted, buyer |-> d.buyer,
        sellerBonded |-> d.sellerBondFunded, buyerBonded |-> d.buyerBondFunded,
        held |-> d.balance,
        escrow |-> IF d.funded /\ ~d.opened
                   THEN d.deposit + (IF IsSubscription(d) THEN d.buyerBond ELSE 0) ELSE 0]

FlowOf(d) == [
  brought |-> d.fromBuyer + d.fromSeller, toBuyer |-> d.toBuyer,
  toSeller |-> d.toSeller, burned |-> d.burned]

Promise == INSTANCE AbstractDeal WITH deal <- PromiseOf(deal), flow <- FlowOf(deal)

\* The contract keeps its promise to the book and the notes: a buyer is bound only
\* through an offer that is out, a match that never opened returns what came with
\* it, a stream opens only on a match with both bonds in, a deal that opened is
\* never offered again, and no deal dies under its offer.
KeepsPromise == Promise!Spec

-----------------------------------------------------------------------------
(* Statements of the source the code does not meet                         *)

\* "no door out is cheaper than stop()", for an ordinary deal.
NoDoorCheaperThanStop ==
  deal.disputed /\ ~IsSubscription(deal) =>
    Released(deal).toBuyer <= StoppedInstead(deal).toBuyer

\* "the pending tick is PAID and DESTROYED -- the buyer's escrow loses it, the
\* seller does not gain it": the timeout takes the claimed ticks from the
\* escrow once, besides the two ticks of the bond.
TimeoutChargesClaimsOnce ==
  deal.disputed /\ ~IsSubscription(deal) /\ deal.probeAccepted =>
    deal.deposit + deal.buyerBond - (TimedOut(deal).toBuyer - deal.toBuyer)
      <= CostOf(deal.tokensPend - deal.tokensPaid) + BondAmount

\* "The SAME D the timeout would have used": the stake the buyer loses on a
\* concession equals the stake they lose on a timeout.
SameStakeOnBothBranches ==
  deal.disputed /\ IsSubscription(deal) =>
    Released(deal).toBuyer = TimedOut(deal).toBuyer

\* "BOTH bonds ... this waits for a pair": a stream that is open and neither
\* disputed nor settled holds 2P from each side.
OpenHoldsBothBonds ==
  deal.opened => deal.sellerBond = BondAmount /\ deal.buyerBond = BondAmount

\* "Everything owed was just paid above -- the buyer's deposit, the probe, both
\* bonds": when destroy() sweeps the remainder, no earmark is left in it.
DestroySweepsNoEarmark ==
  deal.alive /\ ~deal.opened /\ ~deal.offerPosted =>
    Earmarked(DestroyedBeforeSweep(deal)) = 0

=============================================================================
