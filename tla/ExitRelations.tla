-------------------------- MODULE ExitRelations --------------------------
(***************************************************************************)
(* What the ways out of a deal are compared by: the invariant of the       *)
(* bonds, and for subscriptions at a price of the book's step and in whole *)
(* ticks a week the invariant of the prepaid escrow.                       *)
(***************************************************************************)
EXTENDS DealRelations

-----------------------------------------------------------------------------
(* The bonds of a live deal                                                *)

\* The storage that the bonds, the trial and the prepaid weeks are read from.
BondFields == {
  "alive", "opened", "funded", "disputed", "probeAccepted", "probeTick", "sellerBondFunded",
  "sellerBond", "buyerBond", "deposit", "subWeeks", "weekIndex", "tokensPerWeek",
  "periodStart", "disputeTime"}

HasBonds(d) == BondFields \subseteq DOMAIN d

SameBonds(e, d) ==
  /\ HasBonds(e)
  /\ e.alive = d.alive /\ e.opened = d.opened /\ e.funded = d.funded
  /\ e.disputed = d.disputed /\ e.probeAccepted = d.probeAccepted
  /\ e.probeTick = d.probeTick /\ e.sellerBondFunded = d.sellerBondFunded
  /\ e.sellerBond = d.sellerBond /\ e.buyerBond = d.buyerBond
  /\ e.deposit = d.deposit /\ e.subWeeks = d.subWeeks /\ e.weekIndex = d.weekIndex
  /\ e.tokensPerWeek = d.tokensPerWeek /\ e.periodStart = d.periodStart
  /\ e.disputeTime = d.disputeTime

\* A live deal is bonded, and a dead one neither streams nor is disputed.
Secure(d) == (d.alive => Bonded(d)) /\ (d.opened \/ d.disputed => d.alive)

\* The inductive invariant.
BondInv == ClaimInv /\ Secure(deal)

\* What the invariant gives an entry.
Bound == Standing /\ deal.alive /\ Bonded(deal)

-----------------------------------------------------------------------------
(* What a subscription has prepaid                                         *)

\* The book accepts only prices that are a multiple of its price step, a billion
\* units, so the fee of a tick is exact.
ExactFees == (PricePerTick * PLATFORM_FEE_BPS) % BPS_DENOMINATOR = 0

\* The book matches a subscription only in whole ticks per week.
WholeWeeks == TRUE \in SubscriptionDeals => \A n \in HandoverTicks : n % SUB_WEEKS = 0

\* Ticks per week, and their price.
Quota(d) == d.tokensPerWeek \div TickSize

Weekly(d) == Quota(d) * UnitPrice

\* What the escrow of a subscription holds with w weeks booked after the probe.
Ahead(d, w) == IF w = 0 THEN SUB_WEEKS * Weekly(d) - UnitPrice ELSE (SUB_WEEKS - w) * Weekly(d)

\* A matched subscription has its four weeks in escrow; the probe takes one tick
\* of them and every week booked takes its quota, so that the weeks not booked
\* are always there in full.
Prepaid(d) ==
  d.funded /\ IsSubscription(d) =>
    /\ Quota(d) \in Nat \ {0} /\ d.tokensPerWeek = Quota(d) * TickSize
    /\ d.deposit = IF ~d.opened THEN SUB_WEEKS * Weekly(d)
                   ELSE IF ~d.probeAccepted THEN SUB_WEEKS * Weekly(d) - PricePerTick
                   ELSE Ahead(d, d.weekIndex)

\* An accepted subscription is on schedule when its escrow and its money mark are
\* those of the weeks it has booked.
OnSchedule(d) ==
  /\ IsSubscription(d) /\ d.probeAccepted
  /\ Quota(d) \in Nat \ {0} /\ d.tokensPerWeek = Quota(d) * TickSize
  /\ d.deposit = Ahead(d, d.weekIndex)
  /\ d.tokensPaid = IF d.weekIndex = 0 THEN TickSize ELSE d.weekIndex * d.tokensPerWeek

\* The fields it reads.
SamePlan(e, d) ==
  /\ e.subWeeks = d.subWeeks /\ e.probeAccepted = d.probeAccepted
  /\ e.tokensPerWeek = d.tokensPerWeek /\ e.deposit = d.deposit
  /\ e.weekIndex = d.weekIndex /\ e.tokensPaid = d.tokensPaid

-----------------------------------------------------------------------------
(* Every entry keeps the subscription prepaid                              *)

\* The fields the prepayment is read from.
SamePrepay(e, d) ==
  /\ e.funded = d.funded /\ e.opened = d.opened /\ e.probeAccepted = d.probeAccepted
  /\ e.subWeeks = d.subWeeks /\ e.weekIndex = d.weekIndex
  /\ e.tokensPerWeek = d.tokensPerWeek /\ e.deposit = d.deposit

\* An escrow of x pays n ticks, q a week, for the whole term.
PaysTerm(q, n, x) ==
  /\ x = SUB_WEEKS * (q * UnitPrice)
  /\ (n * TickSize) \div SUB_WEEKS = q * TickSize
  /\ (q * TickSize) \div TickSize = q

-----------------------------------------------------------------------------
(* Cancelling a subscription, and disputing it                             *)

\* The inductive invariant, with the prepayment of a live deal.
TermInv == BondInv /\ (deal.alive => Prepaid(deal))

\* What paying x to the buyer, to the seller or to nobody does to a purse.
PursePays(d, x) ==
  /\ Purse(PayBuyer(d, x)) /\ SameEarmarks(PayBuyer(d, x), d)
  /\ PayBuyer(d, x).balance = d.balance - x /\ PayBuyer(d, x).toBuyer = d.toBuyer + x
  /\ PayBuyer(d, x).toSeller = d.toSeller /\ PayBuyer(d, x).opened = d.opened
  /\ Purse(PaySeller(d, x)) /\ SameEarmarks(PaySeller(d, x), d)
  /\ PaySeller(d, x).balance = d.balance - x /\ PaySeller(d, x).toBuyer = d.toBuyer
  /\ PaySeller(d, x).toSeller = d.toSeller + x /\ PaySeller(d, x).opened = d.opened
  /\ Purse(BurnShell(d, x)) /\ SameEarmarks(BurnShell(d, x), d)
  /\ BurnShell(d, x).balance = d.balance - x /\ BurnShell(d, x).toBuyer = d.toBuyer
  /\ BurnShell(d, x).toSeller = d.toSeller /\ BurnShell(d, x).opened = d.opened

\* From d to e the escrow has paid for n tokens, with the fee.
Charged(e, d, n) ==
  /\ e.deposit = d.deposit - (PayFrom(d.deposit, n) + FeeFrom(d.deposit, n))
  /\ e.finalizedOwed = d.finalizedOwed + PayFrom(d.deposit, n)
  /\ e.feeAccrued = d.feeAccrued + FeeFrom(d.deposit, n)
  /\ SellersShare(e) = SellersShare(d) + PayFrom(d.deposit, n)
  /\ e.balance = d.balance /\ e.toBuyer = d.toBuyer /\ e.toSeller = d.toSeller
  /\ e.buyerBond = d.buyerBond /\ e.sellerBond = d.sellerBond
  /\ e.probeTick = d.probeTick

\* What voiding the claims leaves of d, when c has its weeks charged.
VoidedFrom(c, d) ==
  /\ Sound(c) /\ Holds(c, d) /\ Quiet(c, d)
  /\ Sound(Voided(d)) /\ Holds(Voided(d), d)
  /\ Voided(d).deposit = c.deposit /\ Voided(d).feeAccrued = c.feeAccrued
  /\ Voided(d).tokensPaid = c.tokensPaid
  /\ Voided(d).subWeeks = d.subWeeks /\ Voided(d).probeAccepted = d.probeAccepted
  /\ Voided(d).tokensPerWeek = d.tokensPerWeek /\ Voided(d).periodStart = d.periodStart
  /\ Voided(d).disputeTime = d.disputeTime

\* What a close at the proven volume, with x and y of the bonds forfeited, pays.
TrustedEnd(e, d, x, y) ==
  /\ e.toSeller = (SellersShare(Settling(d))
                     + PayFrom(Settling(d).deposit, Proven(Settling(d))))
                    - Lesser(y, d.sellerBond)
  /\ e.toBuyer <= d.toBuyer + Settling(d).deposit
                    + (d.buyerBond - Lesser(x, d.buyerBond))
  /\ IsSubscription(d) /\ d.probeAccepted =>
       e.toBuyer <= d.toBuyer + UnstartedCost(d, d.disputeTime)
                      + (d.buyerBond - Lesser(x, d.buyerBond))
  /\ ~e.opened

\* From d to a the trial's tick has gone back to the escrow.
ProbeFreed(a, d) ==
  /\ a.deposit = d.deposit + (IF d.probeAccepted THEN 0 ELSE d.probeTick)
  /\ a.sellerBond = d.sellerBond /\ a.buyerBond = d.buyerBond
  /\ a.toBuyer = d.toBuyer /\ a.toSeller = d.toSeller /\ a.balance = d.balance
  /\ a.feeAccrued = d.feeAccrued /\ a.finalizedOwed = d.finalizedOwed
  /\ a.tokensPaid = d.tokensPaid /\ a.weekIndex = d.weekIndex
  /\ a.weekBaseTokens = d.weekBaseTokens

\* From d to e up to x of the buyer's and y of the seller's bond are burned.
Forfeited(e, d, x, y) ==
  /\ SellersShare(e) = SellersShare(d) - Lesser(y, d.sellerBond)
  /\ e.buyerBond = d.buyerBond - Lesser(x, d.buyerBond)
  /\ e.sellerBond = d.sellerBond - Lesser(y, d.sellerBond)
  /\ e.deposit = d.deposit /\ e.toBuyer = d.toBuyer
  /\ e.feeAccrued = d.feeAccrued /\ e.finalizedOwed = d.finalizedOwed
  /\ e.toSeller = d.toSeller /\ e.probeTick = d.probeTick

\* From v to e the escrow has lost x.
BurnedFrom(e, v, x) ==
  /\ Sound(e) /\ e.deposit = v.deposit - x /\ e.balance = v.balance - x
  /\ e.toSeller = v.toSeller /\ e.feeAccrued = v.feeAccrued /\ e.buyerBond = v.buyerBond
  /\ e.sellerBond = v.sellerBond /\ e.probeTick = v.probeTick
  /\ Quiet(e, v) /\ e.tokensPaid = v.tokensPaid

\* What a deal with its bonds is known to be.
BoundDeal ==
  /\ Standing /\ deal \in Deal /\ now \in Nat /\ Sound(deal) /\ Phased(deal)
  /\ Booked(deal, now) /\ HasBonds(deal) /\ HasClaims(deal) /\ HasMarks(deal)
  /\ deal.alive /\ Bonded(deal)

=============================================================================
