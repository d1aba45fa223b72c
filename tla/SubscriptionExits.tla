-------------------------- MODULE SubscriptionExits -------------------------
(***************************************************************************)
(* The ways out of a subscription, compared for every price of the book's  *)
(* step and every term of whole weeks: what a cancel returns, and that no  *)
(* resolution of a dispute returns more.                                   *)
(*                                                                         *)
(* The invariant says that the escrow holds exactly the price and the fee  *)
(* of the weeks not booked; the comparisons are then arithmetic between    *)
(* what two terminals pay out.                                             *)
(*                                                                         *)
(* A leaf is Zenon's unless it names another prover.                       *)
(***************************************************************************)
EXTENDS TokenContractExits

USE Zenon

-----------------------------------------------------------------------------
(* What a subscription has prepaid                                         *)

\* Division undoes multiplication.
LEMMA DivExact == ASSUME NEW x \in Nat, NEW k \in Nat \ {0} PROVE (x * k) \div k = x
<1>. DEFINE y == x * k
            q == y \div k
<1>1. y \in Nat /\ q \in Nat
  <2>1. y \in Nat
    BY SMTT(20)
  <2>. HIDE DEF y
  <2>. QED BY <2>1, SMTT(20)
<1>2. k * q <= y /\ y < k * (q + 1)
  <2>. HIDE DEF y
  <2>. QED BY <1>1, SMTT(20)
<1>. HIDE DEF q
<1>3. k * q <= k * x /\ k * x < k * (q + 1)
  BY <1>1, <1>2, SMTT(20)
<1>4. ~(q > x)
  <2>. SUFFICES ASSUME q >= x + 1 PROVE FALSE
    BY <1>1, SMTT(20)
  <2>1. k * q >= k * (x + 1)
    BY <1>1, SMTT(20)
  <2>. QED BY <1>1, <1>3, <2>1, SMTT(20)
<1>5. ~(q < x)
  <2>. SUFFICES ASSUME x >= q + 1 PROVE FALSE
    BY <1>1, SMTT(20)
  <2>1. k * x >= k * (q + 1)
    BY <1>1, SMTT(20)
  <2>. QED BY <1>1, <1>3, <2>1, SMTT(20)
<1>. QED BY <1>1, <1>4, <1>5, SMTT(20) DEF q

\* At such a price k ticks cost k times the unit price, fee included.
LEMMA TicksCost ==
  ASSUME ExactFees, NEW k \in Nat
  PROVE  /\ k * TickSize \in Nat /\ k * UnitPrice \in Nat /\ UnitPrice \in Nat
         /\ CostOf(k * TickSize) = k * UnitPrice
         /\ ValueOf(k * TickSize) <= CostOf(k * TickSize)
<1>. DEFINE P == PricePerTick
            F == Fee(P)
            v == k * P
            u == k * F
<1>0. P \in Nat /\ F \in Nat /\ TickSize \in Nat \ {0} /\ k * TickSize \in Nat
  BY PriceAssumption, VolumeAssumption, FeeNat, SMTT(20)
<1>1. ValueOf(k * TickSize) = v
  <2>1. (k * TickSize) * P = v * TickSize
    BY <1>0, SMTT(20)
  <2>2. v \in Nat
    BY <1>0, SMTT(20)
  <2>. QED BY <1>0, <2>1, <2>2, DivExact DEF ValueOf
<1>2. P * 250 = F * 10000
  BY <1>0, SMTT(20) DEF ExactFees, Fee, PLATFORM_FEE_BPS, BPS_DENOMINATOR
<1>3. Fee(v) = u
  <2>1. v * 250 = u * 10000
    <3>1. v * 250 = k * (P * 250) /\ u * 10000 = k * (F * 10000)
      BY <1>0, SMTT(20)
    <3>. QED BY <1>2, <3>1, SMTT(20)
  <2>2. u \in Nat
    BY <1>0, SMTT(20)
  <2>3. (u * 10000) \div 10000 = u
    BY <2>2, DivExact, SMTT(20)
  <2>. QED BY <2>1, <2>3, SMTT(20) DEF Fee, PLATFORM_FEE_BPS, BPS_DENOMINATOR
<1>4. v \in Nat /\ u \in Nat /\ k * UnitPrice = v + u /\ UnitPrice \in Nat
  BY <1>0, SMTT(20) DEF UnitPrice
<1>. HIDE DEF v, u, F
<1>. QED BY <1>0, <1>1, <1>3, <1>4, SMTT(20) DEF CostOf

\* Steps that leave them leave the schedule.
LEMMA SamePlanOnSchedule ==
  ASSUME NEW d, NEW e, OnSchedule(d), SamePlan(e, d)
  PROVE  OnSchedule(e)
BY DEF OnSchedule, SamePlan, IsSubscription, Ahead, Weekly, Quota

\* What week w of the schedule charges: the quota, less the probe in the first.
LEMMA WeekOwes ==
  ASSUME NEW q \in Nat \ {0}, NEW w \in 0 .. 3, NEW T \in Nat
  PROVE  Greater((w + 1) * (q * T) - (IF w = 0 THEN T ELSE w * (q * T)), 0)
           = (IF w = 0 THEN q - 1 ELSE q) * T
<1>. DEFINE m == q * T
            paid == IF w = 0 THEN T ELSE w * (q * T)
<1>1. m \in Nat /\ m >= T /\ (q - 1) * T = m - T
  <2>1. q - 1 \in Nat /\ (q - 1) * T \in Nat
    BY SMTT(20)
  <2>2. m = (q - 1) * T + T
    BY SMTT(20)
  <2>. HIDE DEF m
  <2>. QED BY <2>1, <2>2, SMTT(20)
<1>. HIDE DEF m
<1>2. CASE w = 0
  <2>1. (w + 1) * m = m
    BY <1>1, <1>2, SMTT(20)
  <2>. QED BY <1>1, <1>2, <2>1, SMTT(20) DEF Greater, m
<1>3. CASE w # 0
  <2>1. (w + 1) * m = w * m + m /\ w * m \in Nat
    BY <1>1, SMTT(20)
  <2>2. paid = w * m
    BY <1>3 DEF m
  <2>. HIDE DEF m
  <2>3. Greater((w + 1) * m - paid, 0) = m
    BY <1>1, <2>1, <2>2, SMTT(20) DEF Greater
  <2>. QED BY <1>3, <2>3 DEF m
<1>. QED BY <1>2, <1>3

\* One turn of the loop finds the price of its week in the escrow and takes
\* exactly that.
LEMMA TurnOnSchedule ==
  ASSUME ExactFees, NEW d, Sound(d), OnSchedule(d), NEW target \in Int, target <= SUB_WEEKS,
         NEW e, e = ChargeWeekIfBefore(d, target)
  PROVE  Sound(e) /\ OnSchedule(e)
<1>. DEFINE q == Quota(d)
            w == d.weekIndex
            k == IF w = 0 THEN q - 1 ELSE q
            n == Greater((w + 1) * d.tokensPerWeek - d.tokensPaid, 0)
            c == ChargeEscrow(d, n)
<1>0. d \in Deal /\ Sound(e)
  BY ChargeWeekSound DEF Sound, Fit
<1>1. CASE ~(w < target)
  BY <1>0, <1>1 DEF ChargeWeekIfBefore
<1>2. CASE w < target
  <2>1. w \in 0 .. 3 /\ d.deposit \in Nat /\ TickSize \in Nat
    BY <1>0, <1>2, Counters, Money, VolumeAssumption, SMTT(20) DEF SUB_WEEKS, Figures, Counts
  <2>2. q \in Nat \ {0} /\ d.tokensPerWeek = q * TickSize
    BY DEF OnSchedule
  <2>3. n = k * TickSize
    <3>. DEFINE paid == IF w = 0 THEN TickSize ELSE w * (q * TickSize)
    <3>1. Greater((w + 1) * (q * TickSize) - paid, 0) = k * TickSize
      <4>1. q \in Nat \ {0} /\ w \in 0 .. 3 /\ TickSize \in Nat
        BY <2>1, <2>2
      <4>. HIDE DEF q, w
      <4>. QED BY <4>1, WeekOwes
    <3>2. d.tokensPaid = paid
      BY <2>2 DEF OnSchedule
    <3>. QED BY <2>2, <3>1, <3>2
  <2>4. k \in Nat
    BY <2>2, SMTT(20)
  <2>5. n \in Nat /\ CostOf(n) = k * UnitPrice
    BY <2>3, <2>4, TicksCost
  <2>6. /\ k * UnitPrice <= d.deposit
        /\ d.deposit - k * UnitPrice = (SUB_WEEKS - (w + 1)) * (q * UnitPrice)
    <3>. DEFINE u == UnitPrice
                m == q * u
    <3>1. u \in Nat /\ m \in Nat /\ (q - 1) * u = m - u /\ m >= u
      <4>1. u \in Nat /\ q - 1 \in Nat
        BY <2>2, TicksCost, SMTT(20)
      <4>. HIDE DEF u
      <4>2. m = (q - 1) * u + u /\ (q - 1) * u \in Nat
        BY <2>2, <4>1, SMTT(20)
      <4>. QED BY <2>2, <4>1, <4>2, SMTT(20)
    <3>2. d.deposit = IF w = 0 THEN 4 * m - u ELSE (4 - w) * m
      BY DEF OnSchedule, Ahead, Weekly, SUB_WEEKS
    <3>3. k * u = IF w = 0 THEN m - u ELSE m
      BY <3>1
    <3>. HIDE DEF m, u, k, q
    <3>4. w = 0 \/ w = 1 \/ w = 2 \/ w = 3
      BY <2>1, SMTT(20)
    <3>. HIDE DEF w
    <3>5. k * u <= d.deposit /\ d.deposit - k * u = (4 - (w + 1)) * m
      BY <3>1, <3>2, <3>3, <3>4, SMTT(20)
    <3>. QED BY <3>5 DEF SUB_WEEKS, u, m
  <2>. HIDE DEF k, n
  <2>7. c.deposit = d.deposit - k * UnitPrice
    <3>1. c.deposit = d.deposit - (PayFrom(d.deposit, n) + FeeFrom(d.deposit, n))
      BY <1>0, <2>5, ChargeShares DEF Charged
    <3>2. PayFrom(d.deposit, n) + FeeFrom(d.deposit, n) = CostOf(n)
      BY <2>1, <2>5, <2>6, PayFromBounds
    <3>. QED BY <2>5, <3>1, <3>2
  <2>8. e = [c EXCEPT !.tokensPaid = (w + 1) * d.tokensPerWeek, !.weekIndex = @ + 1,
                      !.weekBaseTokens = Greater(d.tokensFinal, d.tokensPend)]
    BY <1>2 DEF ChargeWeekIfBefore, ChargeWeek, n
  <2>9. c \in Deal /\ Quiet(c, d) /\ SameMarks(c, d)
    BY <1>0, <2>5, ChargeEscrowSound, EarmarksQuiet, MarksStay, DealHasClaims, DealHasMarks
       DEF Sound, Fit, QuietEarmarks
  <2>. HIDE DEF c
  <2>10. /\ e.subWeeks = c.subWeeks /\ e.probeAccepted = c.probeAccepted
         /\ e.tokensPerWeek = c.tokensPerWeek /\ e.deposit = c.deposit
         /\ e.weekIndex = c.weekIndex + 1 /\ e.tokensPaid = (w + 1) * d.tokensPerWeek
    BY <2>8, <2>9, SMTT(20) DEF Deal
  <2>11. /\ e.subWeeks = d.subWeeks /\ e.probeAccepted = d.probeAccepted
         /\ e.tokensPerWeek = d.tokensPerWeek /\ e.weekIndex = w + 1
         /\ e.tokensPaid = e.weekIndex * e.tokensPerWeek
    BY <2>9, <2>10 DEF Quiet, SameClaims, SameMarks
  <2>12. Quota(e) = q /\ Weekly(e) = q * UnitPrice
    BY <2>11 DEF Quota, Weekly
  <2>13. e.weekIndex # 0 /\ e.deposit = Ahead(e, e.weekIndex)
    <3>1. w + 1 # 0
      BY <2>1, SMTT(20)
    <3>. HIDE DEF w, q
    <3>. QED BY <2>6, <2>7, <2>10, <2>11, <2>12, <3>1 DEF Ahead
  <2>. HIDE DEF q
  <2>. QED BY <1>0, <2>2, <2>11, <2>12, <2>13 DEF OnSchedule, IsSubscription
<1>. QED BY <1>1, <1>2

\* So does the whole loop.
LEMMA LoopOnSchedule ==
  ASSUME ExactFees, NEW d, Sound(d), OnSchedule(d), NEW target \in Int, target <= SUB_WEEKS
  PROVE  OnSchedule(ChargeWeeksThrough(d, target))
<1>. DEFINE w1 == ChargeWeekIfBefore(d, target)
            w2 == ChargeWeekIfBefore(w1, target)
            w3 == ChargeWeekIfBefore(w2, target)
            w4 == ChargeWeekIfBefore(w3, target)
<1>1. ChargeWeeksThrough(d, target) = w4
  BY DEF ChargeWeeksThrough, OnSchedule
<1>2. Sound(w1) /\ OnSchedule(w1)
  BY TurnOnSchedule
<1>. HIDE DEF w1
<1>3. Sound(w2) /\ OnSchedule(w2)
  BY <1>2, TurnOnSchedule
<1>. HIDE DEF w2
<1>4. Sound(w3) /\ OnSchedule(w3)
  BY <1>3, TurnOnSchedule
<1>. HIDE DEF w3
<1>. QED BY <1>1, <1>4, TurnOnSchedule

-----------------------------------------------------------------------------
(* Every entry keeps the subscription prepaid                              *)

\* Steps that leave them, the steps that touch no bond among them.
LEMMA SamePrepaid ==
  ASSUME NEW d, NEW e, Prepaid(d), SamePrepay(e, d) \/ SameBonds(e, d)
  PROVE  Prepaid(e)
<1>1. SamePrepay(e, d)
  BY DEF SameBonds, SamePrepay
<1>. QED BY <1>1 DEF Prepaid, SamePrepay, IsSubscription, Ahead, Weekly, Quota

\* The bonds and a dispute leave them.
LEMMA BondsKeepPrepay ==
  ASSUME Bound, \/ \E x : fundDeal(x)
                \/ \E b, x : fundBuyerBond(b, x)
                \/ dispute
  PROVE  SamePrepay(deal', deal)
<1>1. ASSUME NEW x, fundDeal(x) PROVE SamePrepay(deal', deal)
  <2>. DEFINE e == [deal EXCEPT !.balance = @ + x, !.fromSeller = @ + x,
                                !.sellerBond = BondAmount, !.sellerBondFunded = TRUE]
  <2>1. deal' = PaySeller(e, x - BondAmount)
    BY <1>1 DEF fundDeal
  <2>2. HasBonds(e) /\ SamePrepay(e, deal)
    BY BoundFacts DEF HasBonds, BondFields, SamePrepay, BoundDeal
  <2>. HIDE DEF e
  <2>3. SamePrepay(deal', e)
    BY <2>1, <2>2 DEF PaySeller, HasBonds, BondFields, SamePrepay
  <2>. QED BY <2>2, <2>3 DEF SamePrepay
<1>2. ASSUME NEW b, NEW x, fundBuyerBond(b, x) PROVE SamePrepay(deal', deal)
  <2>. DEFINE e == [deal EXCEPT !.balance = @ + x, !.fromBuyer = @ + x,
                                !.buyerBond = BondAmount, !.buyerBondFunded = TRUE]
  <2>1. deal' = PayBuyer(e, x - BondAmount)
    BY <1>2 DEF fundBuyerBond
  <2>2. HasBonds(e) /\ SamePrepay(e, deal)
    BY BoundFacts DEF HasBonds, BondFields, SamePrepay, BoundDeal
  <2>. HIDE DEF e
  <2>3. SamePrepay(deal', e)
    BY <2>1, <2>2 DEF PayBuyer, HasBonds, BondFields, SamePrepay
  <2>. QED BY <2>2, <2>3 DEF SamePrepay
<1>3. CASE dispute
  BY <1>3, BoundFacts DEF dispute, HasBonds, BondFields, SamePrepay, BoundDeal
<1>. QED BY <1>1, <1>2, <1>3

\* A whole number of ticks per week is prepaid for the whole term.
LEMMA TicksPrepay ==
  ASSUME NEW n \in Nat, n % SUB_WEEKS = 0, NEW m, m = n * UnitPrice, m >= 2 * UnitPrice
  PROVE  m \div UnitPrice = n /\ \E q \in Nat \ {0} : PaysTerm(q, n, m)
<1>. DEFINE u == UnitPrice
<1>0. u \in Nat \ {0}
  BY PriceAssumption, FeeNat, SMTT(20) DEF UnitPrice
<1>. HIDE DEF u
<1>1. m \div u = n
  BY <1>0, DivExact DEF u
<1>. DEFINE q == n \div 4
<1>2. q \in Nat /\ n = 4 * q
  BY SMTT(20) DEF SUB_WEEKS
<1>3. n # 0
  <2>. SUFFICES ASSUME n = 0 PROVE FALSE
    OBVIOUS
  <2>1. n * u = 0
    BY <1>0, SMTT(20)
  <2>. QED BY <1>0, <2>1, SMTT(20) DEF u
<1>. HIDE DEF q
<1>4. m = 4 * (q * u)
  BY <1>0, <1>2, SMTT(20) DEF u
<1>5. (n * TickSize) \div 4 = q * TickSize /\ (q * TickSize) \div TickSize = q
  <2>1. q * TickSize \in Nat /\ TickSize \in Nat \ {0}
    BY <1>2, VolumeAssumption, SMTT(20)
  <2>2. n * TickSize = (q * TickSize) * 4
    BY <1>2, <2>1, SMTT(20)
  <2>3. ((q * TickSize) * 4) \div 4 = q * TickSize
    BY <2>1, DivExact, SMTT(20)
  <2>. QED BY <1>2, <2>1, <2>2, <2>3, DivExact
<1>6. q # 0
  BY <1>2, <1>3, SMTT(20)
<1>. QED BY <1>1, <1>2, <1>4, <1>5, <1>6 DEF SUB_WEEKS, PaysTerm, u

\* A handover of the book is refused, or brings the four weeks of a subscription.
LEMMA HandoverPrepaid ==
  ASSUME WholeWeeks, Bound, Prepaid(deal), NEW b, NEW sub \in SubscriptionDeals,
         NEW ticks \in HandoverTicks, fundFromOrderBook(b, sub, ticks)
  PROVE  Prepaid(deal')
<1>. DEFINE bond == IF sub THEN BondAmount ELSE 0
            m == ticks * UnitPrice
            paid == m + bond
            taken == [deal EXCEPT !.balance = @ + paid, !.fromBuyer = @ + paid,
                                  !.matches = @ + 1]
            escrow == paid - bond
            bonded == [taken EXCEPT !.buyerBond = bond, !.buyerBondFunded = @ \/ bond > 0]
            funded == RecordFunding(bonded, b, escrow, now)
            n == escrow \div UnitPrice
            shaped == RecordDealShape(funded, sub, n, now)
<1>0. /\ ticks \in Nat /\ sub \in BOOLEAN /\ m \in Nat /\ bond \in Nat
      /\ UnitPrice \in Nat \ {0}
  <2>1. ticks \in Nat /\ sub \in BOOLEAN
    BY InputAssumption
  <2>2. UnitPrice \in Nat \ {0}
    BY PriceAssumption, FeeNat, SMTT(20) DEF UnitPrice
  <2>. QED BY <2>1, <2>2, PriceAssumption, SMTT(20) DEF BondAmount
<1>1. SameBonds(taken, deal)
  BY BoundFacts DEF SameBonds, HasBonds, BondFields, BoundDeal
<1>2. \/ deal' = PayBuyer(taken, paid)
      \/ ~deal.funded /\ escrow >= 2 * UnitPrice /\ deal' = shaped
  <2>1. escrow \in Int /\ 2 * UnitPrice \in Int
    BY <1>0, SMTT(20)
  <2>. QED BY <2>1, SMTT(20) DEF fundFromOrderBook, Handover
<1>3. escrow = m
  <2>. HIDE DEF m, bond
  <2>. QED BY <1>0, SMTT(20)
<1>. HIDE DEF taken, paid, bond, escrow
<1>4. SameBonds(PayBuyer(taken, paid), deal)
  <2>1. SameBonds(PayBuyer(taken, paid), taken)
    BY <1>1 DEF PayBuyer, SameBonds, HasBonds, BondFields
  <2>. QED BY <1>1, <2>1 DEF SameBonds
<1>5. HasBonds(bonded) /\ bonded.opened = taken.opened
  BY <1>1 DEF SameBonds, HasBonds, BondFields
<1>. HIDE DEF bonded
<1>6. HasBonds(funded) /\ funded.opened = bonded.opened /\ funded.deposit = escrow
  BY <1>5 DEF RecordFunding, HasBonds, BondFields
<1>. HIDE DEF funded, n
<1>7. /\ shaped.opened = funded.opened /\ shaped.deposit = funded.deposit
      /\ shaped.subWeeks = IF sub THEN SUB_WEEKS ELSE 0
      /\ shaped.tokensPerWeek = IF sub THEN (n * TickSize) \div SUB_WEEKS ELSE n * TickSize
  BY <1>6 DEF RecordDealShape, HasBonds, BondFields
<1>. HIDE DEF shaped
<1>8. ASSUME ~deal.funded, escrow >= 2 * UnitPrice PROVE Prepaid(shaped)
  <2>1. ~shaped.opened
    BY <1>1, <1>5, <1>6, <1>7, <1>8, BoundFacts DEF Phased, SameBonds, BoundDeal
  <2>2. CASE ~sub
    BY <1>7, <2>2 DEF Prepaid, IsSubscription
  <2>3. CASE sub
    <3>1. ticks % SUB_WEEKS = 0
      <4>1. sub = TRUE
        BY <1>0, <2>3
      <4>. QED BY <4>1 DEF WholeWeeks
    <3>2. n = ticks
      <4>1. m >= 2 * UnitPrice /\ m = ticks * UnitPrice /\ n = m \div UnitPrice
        BY <1>3, <1>8 DEF n
      <4>. HIDE DEF m
      <4>. QED BY <1>0, <3>1, <4>1, TicksPrepay
    <3>3. PICK q \in Nat \ {0} : PaysTerm(q, ticks, m)
      <4>1. m >= 2 * UnitPrice /\ m = ticks * UnitPrice
        BY <1>3, <1>8
      <4>. HIDE DEF m
      <4>. QED BY <1>0, <3>1, <4>1, TicksPrepay
    <3>. HIDE DEF m
    <3>4. shaped.tokensPerWeek = q * TickSize /\ shaped.deposit = SUB_WEEKS * (q * UnitPrice)
      BY <1>3, <1>6, <1>7, <2>3, <3>2, <3>3 DEF PaysTerm
    <3>5. Quota(shaped) = q
      BY <3>3, <3>4 DEF PaysTerm, Quota
    <3>. QED BY <2>1, <3>4, <3>5 DEF Prepaid, Weekly
  <2>. QED BY <1>0, <2>2, <2>3
<1>. QED BY <1>2, <1>4, <1>8, SamePrepaid

\* Opening freezes one tick of the prepayment.
LEMMA OpenPrepaid ==
  ASSUME Bound, Prepaid(deal), open
  PROVE  Prepaid(deal')
<1>1. /\ deal'.opened = TRUE /\ deal'.funded = deal.funded /\ deal'.probeAccepted = FALSE
      /\ deal'.subWeeks = deal.subWeeks /\ deal'.tokensPerWeek = deal.tokensPerWeek
      /\ deal'.deposit = deal.deposit - PricePerTick
  BY BoundFacts DEF open, HasBonds, BondFields, BoundDeal
<1>2. ~deal.opened
  BY DEF open
<1>3. Quota(deal') = Quota(deal) /\ Weekly(deal') = Weekly(deal)
  BY <1>1 DEF Quota, Weekly
<1>. QED BY <1>1, <1>2, <1>3 DEF Prepaid, IsSubscription

\* Accepting the probe takes the fee of that tick: the escrow can pay it.
LEMMA AcceptPrepaid ==
  ASSUME Bound, Prepaid(deal), acceptProbe
  PROVE  Prepaid(deal')
<1>. DEFINE fee == Lesser(Fee(PricePerTick), deal.deposit)
<1>1. /\ deal'.opened = deal.opened /\ deal'.funded = deal.funded
      /\ deal'.probeAccepted = TRUE /\ deal'.subWeeks = deal.subWeeks
      /\ deal'.tokensPerWeek = deal.tokensPerWeek /\ deal'.weekIndex = deal.weekIndex
      /\ deal'.deposit = deal.deposit - fee
  BY BoundFacts DEF acceptProbe, HasBonds, BondFields, BoundDeal
<1>2. deal.opened /\ ~deal.probeAccepted /\ deal.weekIndex = 0
  BY BoundFacts DEF acceptProbe, Booked, BoundDeal
<1>3. Quota(deal') = Quota(deal) /\ Weekly(deal') = Weekly(deal)
  BY <1>1 DEF Quota, Weekly
<1>4. SUFFICES ASSUME deal.funded, IsSubscription(deal)
               PROVE  deal'.deposit = SUB_WEEKS * Weekly(deal) - UnitPrice
  BY <1>1, <1>2, <1>3 DEF Prepaid, IsSubscription, Ahead
<1>5. deal.deposit = SUB_WEEKS * Weekly(deal) - PricePerTick /\ Quota(deal) \in Nat \ {0}
  BY <1>2, <1>4 DEF Prepaid
<1>6. PricePerTick \in Nat /\ Fee(PricePerTick) \in Nat
  BY PriceAssumption, FeeNat
<1>. DEFINE m == Weekly(deal)
            u == UnitPrice
<1>7. u = PricePerTick + Fee(PricePerTick) /\ m \in Nat /\ m >= u
  <2>1. u = PricePerTick + Fee(PricePerTick)
    BY DEF UnitPrice
  <2>2. Weekly(deal) = Quota(deal) * u
    BY DEF Weekly
  <2>. DEFINE q == Quota(deal)
  <2>3. q \in Nat \ {0} /\ u \in Nat
    BY <1>5, <1>6, <2>1, SMTT(20)
  <2>. HIDE DEF q, u
  <2>4. q * u = (q - 1) * u + u /\ (q - 1) * u \in Nat /\ q * u \in Nat
    BY <2>3, SMTT(20)
  <2>. QED BY <2>1, <2>2, <2>3, <2>4, SMTT(20) DEF q
<1>. HIDE DEF m, u
<1>8. deal.deposit = 4 * m - PricePerTick
  BY <1>5 DEF SUB_WEEKS, m
<1>9. fee = Fee(PricePerTick)
  BY <1>6, <1>7, <1>8, SMTT(20) DEF Lesser
<1>. HIDE DEF fee
<1>10. deal'.deposit = 4 * m - u
  BY <1>1, <1>6, <1>7, <1>8, <1>9, SMTT(20)
<1>. QED BY <1>10 DEF SUB_WEEKS, m, u

\* A stream that accepted its probe is on schedule.
LEMMA Scheduled ==
  ASSUME NEW d, NEW t, Phased(d), Booked(d, t), Prepaid(d), IsSubscription(d), d.probeAccepted
  PROVE  OnSchedule(d)
BY DEF Phased, Booked, Prepaid, OnSchedule

\* Booking the weeks that are due keeps what is ahead in escrow.
LEMMA SettledPrepaid ==
  ASSUME ExactFees, Bound, Prepaid(deal), deal.probeAccepted,
         NEW s, s = SettleBoundaries(deal, WeeksElapsedAt(deal, now))
  PROVE  Prepaid(s)
<1>. DEFINE due == WeeksElapsedAt(deal, now)
            c == ChargeWeeksThrough(deal, due)
            r == RecordDelivered(c)
            e == ReportFinalized(r)
<1>1. s = deal \/ s = e
  BY DEF SettleBoundaries
<1>2. due \in Int /\ due <= SUB_WEEKS
  BY BoundFacts, WeeksWithinTerm DEF BoundDeal
<1>3. Quiet(s, deal) /\ Holds(s, deal)
  BY BoundFacts, DealHasHeld, WeeksQuiet, WeeksHold DEF BoundDeal
<1>4. CASE ~IsSubscription(deal)
  BY <1>3, <1>4 DEF Prepaid, IsSubscription, Quiet, SameClaims
<1>5. CASE IsSubscription(deal)
  <2>1. OnSchedule(deal)
    BY <1>5, BoundFacts, Scheduled DEF BoundDeal
  <2>2. c \in Deal /\ OnSchedule(c)
    BY <1>2, <2>1, BoundFacts, ChargeWeeksSound, LoopOnSchedule DEF Sound, Fit, BoundDeal
  <2>. HIDE DEF c
  <2>3. r \in Deal /\ SamePlan(r, c)
    BY <2>2, RecordDeliveredSame, EarmarksQuiet, MarksStay, DealHasClaims, DealHasMarks
       DEF SamePlan, Quiet, SameClaims, SameMarks, SameMoney, SameEarmarks, QuietEarmarks
  <2>. HIDE DEF r
  <2>4. SamePlan(e, r)
    BY <2>3, ReportSame, EarmarksQuiet, MarksStay, DealHasClaims, DealHasMarks
       DEF SamePlan, Quiet, SameClaims, SameMarks, SameMoney, SameEarmarks, QuietEarmarks
  <2>. HIDE DEF e
  <2>5. OnSchedule(s)
    BY <1>1, <2>1, <2>2, <2>3, <2>4, SamePlanOnSchedule
  <2>6. s.opened
    BY <1>3, BoundFacts DEF Holds, SameHeld, Booked, BoundDeal
  <2>. QED BY <2>5, <2>6 DEF Prepaid, OnSchedule
<1>. QED BY <1>4, <1>5

\* A claim and a settled week book what is due, and the deal goes on or ends.
LEMMA StreamPrepaid ==
  ASSUME ExactFees, Bound, Prepaid(deal), settleWeek \/ \E n : claimTokens(n)
  PROVE  deal'.alive => Prepaid(deal')
<1>. DEFINE s == SettleBoundaries(deal, WeeksElapsedAt(deal, now))
            p == PromoteDue(s, now)
<1>1. deal.probeAccepted /\ ~deal.disputed
  BY DEF settleWeek, WeekDue, claimTokens
<1>2. Prepaid(s) /\ Sound(s) /\ HasBonds(s)
  BY <1>1, SettledPrepaid, SettledSecure
<1>3. CASE settleWeek
  <2>. DEFINE e == PayFinalAndClose(p)
  <2>1. deal' = s \/ deal' = e
    BY <1>3 DEF settleWeek, WeekSettled
  <2>. HIDE DEF s
  <2>2. Sound(p)
    BY <1>2, BoundFacts, PromoteSame, SameMoneySound DEF Sound, Fit, BoundDeal
  <2>. HIDE DEF p
  <2>3. ~e.alive
    BY <2>2, PayFinalEnds DEF Over
  <2>. QED BY <1>2, <2>1, <2>3
<1>4. ASSUME NEW n, claimTokens(n) PROVE Prepaid(deal')
  <2>. DEFINE e == [p EXCEPT !.tokensPend = n, !.lastClaimTime = now]
  <2>1. deal' = e
    BY <1>4 DEF claimTokens
  <2>. HIDE DEF s
  <2>2. SameBonds(p, s)
    BY <1>2, StorageKept
  <2>. HIDE DEF p
  <2>3. SameBonds(e, p)
    BY <2>2 DEF SameBonds, HasBonds, BondFields
  <2>. HIDE DEF e
  <2>. QED BY <1>2, <2>1, <2>2, <2>3, SamePrepaid
<1>. QED BY <1>3, <1>4

\* Every entry leaves a live subscription prepaid.
LEMMA EntryPrepaid ==
  ASSUME ExactFees, WholeWeeks, Bound, Prepaid(deal), Next
  PROVE  deal'.alive => Prepaid(deal')
<1>1. SUFFICES \/ SameBonds(deal', deal)
               \/ SamePrepay(deal', deal)
               \/ ~deal'.alive
               \/ Prepaid(deal')
  BY SamePrepaid
<1>2. CASE postFromNote \/ onSellClosed \/ Tick
  BY <1>2, ListingSecure
<1>3. CASE \E b \in Buyers, sub \in SubscriptionDeals, ticks \in HandoverTicks :
             fundFromOrderBook(b, sub, ticks)
  BY <1>3, HandoverPrepaid
<1>4. CASE \/ \E amount \in BondAmounts : fundDeal(amount)
           \/ \E b \in Buyers, amount \in BondAmounts : fundBuyerBond(b, amount)
           \/ dispute
  BY <1>4, BondsKeepPrepay
<1>5. CASE open
  BY <1>5, OpenPrepaid
<1>6. CASE acceptProbe
  BY <1>6, AcceptPrepaid
<1>7. CASE settleWeek \/ \E tokens \in 1 .. deal.fundedTokens : claimTokens(tokens)
  BY <1>7, StreamPrepaid
<1>8. CASE finalize
  BY <1>8, FinalizeSecure
<1>9. CASE stop \/ sellerStop \/ releaseDispute \/ resolveDisputeTimeout
  BY <1>9, ExitSecure
<1>10. CASE \E byBuyer \in BOOLEAN : cleanupUnopened(byBuyer)
  BY <1>10, CleanupSecure DEF Prepaid
<1>11. CASE \E amount \in WithdrawAmounts : withdrawShell(amount)
  BY <1>11, WithdrawSecure
<1>12. CASE close \/ destroy
  BY <1>12, RemovalSecure
<1>. QED BY <1>2, <1>3, <1>4, <1>5, <1>6, <1>7, <1>8, <1>9, <1>10, <1>11, <1>12 DEF Next

-----------------------------------------------------------------------------
(* Cancelling a subscription, and disputing it                             *)

\* A week that has passed has elapsed, and started.
LEMMA PassedHasElapsed ==
  ASSUME NEW d \in Deal, IsSubscription(d), NEW t \in Nat,
         d.weekIndex * SubWeekLen <= t - d.periodStart
  PROVE  d.weekIndex <= WeeksStartedAt(d, t) /\ 1 <= WeeksStartedAt(d, t)
<1>. DEFINE w == d.weekIndex
            L == SubWeekLen
            a == t - d.periodStart
            q == a \div L
<1>1. w \in 0 .. 4 /\ a \in Int /\ L \in Nat \ {0} /\ d.subWeeks = 4
  BY Counters, ClockAssumption, SMTT(20) DEF SUB_WEEKS, IsSubscription, Counts
<1>2. w * L <= a /\ w * L \in Nat
  BY <1>1, SMTT(20)
<1>. HIDE DEF w, L, a
<1>3. q \in Int /\ a < L * (q + 1)
  BY <1>1, SMTT(20)
<1>. HIDE DEF q
<1>4. w <= q
  <2>. SUFFICES ASSUME w >= q + 1 PROVE FALSE
    BY <1>1, <1>3, SMTT(20)
  <2>1. L * w >= L * (q + 1)
    BY <1>1, <1>3, SMTT(20)
  <2>. QED BY <1>1, <1>2, <1>3, <2>1, SMTT(20)
<1>5. WeeksElapsedAt(d, t) = Lesser(q, 4)
  BY <1>1 DEF WeeksElapsedAt, q, a, L
<1>. QED BY <1>1, <1>3, <1>4, <1>5, SMTT(20) DEF WeeksStartedAt, Lesser, w

\* The loop stops at its target when it starts there.
LEMMA LoopReaches ==
  ASSUME NEW d \in Deal, IsSubscription(d), d.probeAccepted,
         NEW target \in Int, target <= SUB_WEEKS, d.weekIndex <= target
  PROVE  ChargeWeeksThrough(d, target).weekIndex = target
<1>0. d.weekIndex \in Int
  BY Counters, SMTT(20) DEF SUB_WEEKS, Counts
<1>1. CASE d.weekIndex < target
  BY <1>1, LoopBooks DEF AtWeek
<1>2. CASE d.weekIndex = target
  <2>1. ~(d.weekIndex < target)
    BY <1>0, <1>2, SMTT(20)
  <2>2. ChargeWeekIfBefore(d, target) = d
    BY <2>1 DEF ChargeWeekIfBefore
  <2>3. ChargeWeeksThrough(d, target) = d
    BY <2>2 DEF ChargeWeeksThrough
  <2>. QED BY <1>2, <2>3
<1>. QED BY <1>0, <1>1, <1>2, SMTT(20)

\* The weeks ahead of week n cost what the schedule holds for them.
LEMMA AheadCosts ==
  ASSUME ExactFees, NEW d, OnSchedule(d), NEW n \in 1 .. SUB_WEEKS
  PROVE  Ahead(d, n) = CostOf((SUB_WEEKS - n) * d.tokensPerWeek) /\ Ahead(d, n) \in Nat
<1>. DEFINE q == Quota(d)
            k == SUB_WEEKS - n
<1>1. q \in Nat /\ d.tokensPerWeek = q * TickSize /\ k \in Nat /\ n # 0 /\ TickSize \in Nat
  BY VolumeAssumption, SMTT(20) DEF OnSchedule, SUB_WEEKS
<1>2. Ahead(d, n) = k * (q * UnitPrice)
  BY <1>1 DEF Ahead, Weekly
<1>. HIDE DEF q, k
<1>3. k * (q * TickSize) = (k * q) * TickSize /\ k * q \in Nat
  BY <1>1, SMTT(20)
<1>4. CostOf((k * q) * TickSize) = (k * q) * UnitPrice /\ UnitPrice \in Nat
      /\ (k * q) * UnitPrice \in Nat
  BY <1>3, TicksCost
<1>5. (k * q) * UnitPrice = k * (q * UnitPrice)
  BY <1>1, <1>4, SMTT(20)
<1>. QED BY <1>1, <1>2, <1>3, <1>4, <1>5 DEF k

\* stop() on an accepted subscription charges the week in progress and returns
\* the weeks that have not started, fee included, and the bond.
LEMMA StopRefunds ==
  ASSUME ExactFees, NEW d, Sound(d), OnSchedule(d), NEW t \in Nat,
         d.weekIndex <= WeeksStartedAt(d, t), 1 <= WeeksStartedAt(d, t)
  PROVE  /\ UnstartedCost(d, t) \in Nat
         /\ Stopped(d, t).toBuyer = d.toBuyer + (UnstartedCost(d, t) + d.buyerBond)
<1>. DEFINE n == WeeksStartedAt(d, t)
            p == PromoteDue(d, t)
            c == ChargeWeeksThrough(p, n)
            e == PayFinalAndClose(c)
<1>0. d \in Deal /\ IsSubscription(d) /\ d.probeAccepted /\ d.subWeeks = SUB_WEEKS
  BY Counters DEF Sound, Fit, OnSchedule, IsSubscription, Counts
<1>1. Stopped(d, t) = e
  BY <1>0 DEF Stopped
<1>2. n \in Int /\ n <= SUB_WEEKS /\ n \in 1 .. SUB_WEEKS
  BY <1>0, WeeksWithinTerm, SMTT(20) DEF SUB_WEEKS
<1>3. UnstartedCost(d, t) = CostOf((SUB_WEEKS - n) * d.tokensPerWeek)
  BY <1>0 DEF UnstartedCost
<1>. HIDE DEF n
<1>4. Sound(p) /\ p \in Deal /\ SamePlan(p, d) /\ p.toBuyer = d.toBuyer /\ p.buyerBond = d.buyerBond
  <2>1. Sound(p) /\ p \in Deal /\ SameMoney(p, d)
    BY <1>0, PromoteSame, SameMoneySound DEF Sound, Fit
  <2>2. SamePlan(p, d)
    BY <1>0 DEF Deal, PromoteDue, Promote, SamePlan
  <2>. QED BY <2>1, <2>2 DEF SameMoney, SameFlows, SameEarmarks
<1>. HIDE DEF p
<1>5. OnSchedule(p) /\ IsSubscription(p) /\ p.probeAccepted /\ p.weekIndex <= n
  BY <1>4, SamePlanOnSchedule, ZenonT(30) DEF OnSchedule, SamePlan, n
<1>6. Sound(c) /\ OnSchedule(c) /\ c.weekIndex = n
  BY <1>2, <1>4, <1>5, ChargeWeeksSound, LoopOnSchedule, LoopReaches
<1>7. c.tokensPerWeek = d.tokensPerWeek /\ c.toBuyer = d.toBuyer /\ c.buyerBond = d.buyerBond
  <2>1. Quiet(c, p) /\ Holds(c, p)
    BY <1>4, DealHasClaims, DealHasHeld, WeeksQuiet, WeeksHold
  <2>. QED BY <1>4, <2>1 DEF Quiet, SameClaims, Holds, SameHeld, SamePlan
<1>. HIDE DEF c
<1>8. c.deposit = UnstartedCost(d, t) /\ UnstartedCost(d, t) \in Nat
  BY <1>2, <1>3, <1>6, <1>7, AheadCosts, SMTT(20) DEF OnSchedule
<1>9. e.toBuyer = c.toBuyer + Refund(c)
  BY <1>6, PayFinalShares DEF OnSchedule
<1>10. Refund(c) = c.deposit + c.buyerBond
  <2>1. c.deposit \in Nat /\ c.buyerBond \in Nat /\ c.probeAccepted
    BY <1>6, Money DEF Sound, Fit, OnSchedule, Figures
  <2>. QED BY <2>1, SMTT(20) DEF Refund
<1>. QED BY <1>1, <1>7, <1>8, <1>9, <1>10

\* A resolved dispute returns at most the weeks that had not started and the bond;
\* in the trial, at most the escrow and the bond, because the stake is at least
\* the tick it frees.
LEMMA DisputeRefunds ==
  ASSUME NEW d, Sound(d), Bonded(d), d.opened, d.funded, IsSubscription(d),
         NEW e \in {Released(d), TimedOut(d)}
  PROVE  /\ e.toBuyer \in Nat
         /\ d.probeAccepted => e.toBuyer <= d.toBuyer + UnstartedCost(d, d.disputeTime) + d.buyerBond
         /\ ~d.probeAccepted => e.toBuyer <= d.toBuyer + (d.deposit + d.buyerBond)
<1>. DEFINE c == ChargeWeeksThrough(d, WeeksElapsedAt(d, d.disputeTime))
            v == Voided(d)
            t == d.disputeTime
<1>0. d \in Deal
  BY DEF Sound, Fit
<1>1. Released(d) = SettleTrustedAndClose(v, DisputeStake(v), 0)
      /\ TimedOut(d) = SettleTrustedAndClose(v, DisputeStake(c), DisputeStake(c))
  BY ZenonT(30) DEF Released, TimedOut, Voided
<1>2. /\ Sound(c) /\ Sound(v) /\ Holds(c, d) /\ Holds(v, d) /\ v.deposit = c.deposit
      /\ c.subWeeks = d.subWeeks /\ v.subWeeks = d.subWeeks
      /\ v.probeAccepted = d.probeAccepted /\ v.tokensPerWeek = d.tokensPerWeek
      /\ v.periodStart = d.periodStart /\ v.disputeTime = d.disputeTime
  BY VoidedHolds, SMTT(20) DEF Quiet, SameClaims, VoidedFrom
<1>3. ~d.probeAccepted => c = d
  BY DEF ChargeWeeksThrough
<1>. HIDE DEF c, v
<1>4. /\ IsSubscription(c) /\ IsSubscription(v) /\ c \in Deal /\ v \in Deal
      /\ c.buyerBond = BondAmount /\ c.sellerBond = BondAmount
      /\ v.buyerBond = BondAmount /\ v.sellerBond = BondAmount /\ d.buyerBond = BondAmount
      /\ v.toBuyer = d.toBuyer /\ v.probeTick = d.probeTick
  BY <1>2 DEF Bonded, IsSubscription, Holds, SameHeld, Sound, Fit
<1>5. \E x \in Nat, y \in Nat : /\ e = SettleTrustedAndClose(v, x, y)
                                /\ PricePerTick <= x /\ x <= BondAmount
  <2>1. /\ DisputeStake(v) \in Nat /\ PricePerTick <= DisputeStake(v) /\ DisputeStake(v) <= BondAmount
        /\ DisputeStake(c) \in Nat /\ PricePerTick <= DisputeStake(c) /\ DisputeStake(c) <= BondAmount
    BY <1>4, StakeBounds
  <2>. 0 \in Nat
    OBVIOUS
  <2>. QED BY <1>1, <2>1
<1>6. PICK x \in Nat, y \in Nat : /\ e = SettleTrustedAndClose(v, x, y)
                                  /\ PricePerTick <= x /\ x <= BondAmount
  BY <1>5
<1>7. Lesser(x, v.buyerBond) = x
  BY <1>4, <1>6 DEF Lesser
<1>8. e.toBuyer \in Nat
  BY ReleasedEnds, TimedOutEnds, Money DEF Over, Figures
<1>9. BondAmount \in Nat /\ PricePerTick \in Nat /\ d.toBuyer \in Nat /\ d.deposit \in Nat
  BY <1>0, Money, PriceAssumption, SMTT(20) DEF BondAmount, Figures
<1>10. CASE d.probeAccepted
  <2>1. UnstartedCost(v, v.disputeTime) = UnstartedCost(d, t)
    BY <1>2 DEF UnstartedCost, WeeksStartedAt, WeeksElapsedAt
  <2>2. e.toBuyer <= v.toBuyer + UnstartedCost(v, v.disputeTime)
                       + (v.buyerBond - Lesser(x, v.buyerBond))
    BY <1>2, <1>4, <1>6, <1>10, TrustedShares DEF TrustedEnd
  <2>3. UnstartedCost(d, t) \in Nat
    <3>. DEFINE k == (d.subWeeks - WeeksStartedAt(d, t)) * d.tokensPerWeek
    <3>1. k \in Nat
      BY <1>0, WeeksWithinTerm, Counters, SMTT(20) DEF Counts
    <3>. HIDE DEF k
    <3>. QED BY <3>1, CostNat DEF UnstartedCost, k
  <2>. DEFINE z == UnstartedCost(d, t)
  <2>. HIDE DEF z
  <2>4. e.toBuyer <= d.toBuyer + z + (BondAmount - x)
    BY <1>4, <1>7, <2>1, <2>2 DEF z
  <2>5. z \in Nat
    BY <2>3 DEF z
  <2>6. e.toBuyer <= d.toBuyer + z + BondAmount
    BY <1>6, <1>8, <1>9, <2>4, <2>5, SMTT(20)
  <2>. QED BY <1>4, <1>8, <1>10, <2>6 DEF z
<1>11. CASE ~d.probeAccepted
  <2>1. Settling(v) = ReleaseProbe(v)
    <3>. DEFINE a == ReleaseProbe(v)
    <3>1. a.probeAccepted = v.probeAccepted
      BY <1>4 DEF Deal, ReleaseProbe
    <3>. HIDE DEF a
    <3>2. ~a.probeAccepted
      BY <1>2, <1>11, <3>1
    <3>. QED BY <3>2 DEF Settling, ChargeWeeksThrough, a
  <2>2. Settling(v).deposit = d.deposit + PricePerTick
    <3>. DEFINE a == ReleaseProbe(v)
    <3>1. a.deposit = v.deposit + (IF v.probeAccepted THEN 0 ELSE v.probeTick)
      BY <1>4, ReleaseProbeShares DEF ProbeFreed
    <3>. HIDE DEF a
    <3>2. ~v.probeAccepted /\ v.deposit = d.deposit /\ v.probeTick = d.probeTick
      BY <1>2, <1>3, <1>4, <1>11
    <3>3. d.probeTick = PricePerTick
      BY <1>11 DEF Bonded
    <3>. QED BY <2>1, <3>1, <3>2, <3>3 DEF a
  <2>3. e.toBuyer <= v.toBuyer + Settling(v).deposit + (v.buyerBond - Lesser(x, v.buyerBond))
    BY <1>2, <1>6, TrustedShares DEF TrustedEnd
  <2>4. e.toBuyer <= d.toBuyer + (d.deposit + PricePerTick) + (BondAmount - x)
    BY <1>4, <1>7, <2>2, <2>3
  <2>5. e.toBuyer <= d.toBuyer + (d.deposit + BondAmount)
    BY <1>6, <1>8, <1>9, <2>4, SMTT(20)
  <2>. QED BY <1>4, <1>8, <1>11, <2>5
<1>. QED BY <1>10, <1>11

\* The record stop() would have found when the dispute was raised.
LEMMA BeforeDispute ==
  ASSUME NEW d, Sound(d), NEW g, g = [d EXCEPT !.disputed = FALSE]
  PROVE  /\ Sound(g) /\ g \in Deal /\ SamePlan(g, d)
         /\ g.toBuyer = d.toBuyer /\ g.buyerBond = d.buyerBond /\ g.deposit = d.deposit
         /\ \A t : /\ WeeksStartedAt(g, t) = WeeksStartedAt(d, t)
                   /\ UnstartedCost(g, t) = UnstartedCost(d, t)
<1>0. d \in Deal
  BY DEF Sound, Fit
<1>1. g \in Deal /\ SameMoney(g, d)
  BY <1>0, Flags, PutFlag, DealFields DEF SameMoney, SameFlows, SameEarmarks, HasFields,
         TakesFlag
<1>2. SamePlan(g, d) /\ g.periodStart = d.periodStart
  BY <1>0, SMTT(20) DEF Deal, SamePlan
<1>3. ASSUME NEW t
      PROVE  /\ WeeksStartedAt(g, t) = WeeksStartedAt(d, t)
             /\ UnstartedCost(g, t) = UnstartedCost(d, t)
  <2>1. WeeksElapsedAt(g, t) = WeeksElapsedAt(d, t)
    BY <1>2 DEF SamePlan, WeeksElapsedAt
  <2>2. WeeksStartedAt(g, t) = WeeksStartedAt(d, t)
    BY <1>2, <2>1 DEF SamePlan, WeeksStartedAt
  <2>. QED BY <1>2, <2>2 DEF SamePlan, UnstartedCost
<1>. QED BY <1>1, <1>2, <1>3, SameMoneySound DEF SameMoney, SameFlows, SameEarmarks

\* Every step keeps it.
LEMMA TermStep ==
  ASSUME ExactFees, WholeWeeks
  PROVE  TermInv /\ [Next]_vars => TermInv'
<1>. SUFFICES ASSUME TermInv, [Next]_vars PROVE TermInv'
  OBVIOUS
<1>1. BondInv /\ BondInv'
  BY BondStep DEF TermInv
<1>2. CASE UNCHANGED vars
  BY <1>1, <1>2 DEF vars, TermInv
<1>3. CASE Next
  <2>1. deal.alive
    BY <1>3, NextAlive
  <2>2. Bound
    BY <1>1, <2>1, BondBound
  <2>. QED BY <1>1, <1>3, <2>1, <2>2, EntryPrepaid DEF TermInv
<1>. QED BY <1>2, <1>3

\* At a price of the book's step and for whole ticks per week, every matched
\* subscription has the weeks it has not booked in escrow, in every reachable state.
THEOREM PrepaidAlways == ExactFees /\ WholeWeeks /\ Spec => []TermInv
<1>. SUFFICES ASSUME ExactFees, WholeWeeks PROVE Spec => []TermInv
  OBVIOUS
<1>1. Init => TermInv
  <2>. SUFFICES ASSUME Init PROVE TermInv
    OBVIOUS
  <2>1. ~deal.funded
    BY DEF Init, NewDeal
  <2>. QED BY <2>1, BondInit DEF TermInv, Prepaid
<1>2. TermInv /\ [Next]_vars => TermInv'
  BY TermStep
<1>. QED BY <1>1, <1>2, PTL DEF Spec

\* What an accepted subscription in a reachable state gives stop().
LEMMA TermSchedule ==
  ASSUME TermInv, deal.opened, IsSubscription(deal), deal.probeAccepted
  PROVE  /\ Bound /\ OnSchedule(deal)
         /\ LET t == IF deal.disputed THEN deal.disputeTime ELSE now
            IN  /\ t \in Nat /\ deal.weekIndex <= WeeksStartedAt(deal, t)
                /\ 1 <= WeeksStartedAt(deal, t)
<1>. DEFINE t == IF deal.disputed THEN deal.disputeTime ELSE now
<1>1. deal.alive
  BY ZenonT(30) DEF TermInv, BondInv, Secure
<1>2. Bound
  BY <1>1, BondBound DEF TermInv
<1>3. OnSchedule(deal)
  BY <1>1, <1>2, BoundFacts, Scheduled DEF TermInv, BoundDeal
<1>4. t \in Nat
  BY <1>2, BoundFacts, Counters DEF Counts, BoundDeal
<1>5. deal.weekIndex * SubWeekLen <= t - deal.periodStart
  BY <1>2, BoundFacts DEF Bonded, Booked, BoundDeal
<1>. HIDE DEF t
<1>6. deal.weekIndex <= WeeksStartedAt(deal, t) /\ 1 <= WeeksStartedAt(deal, t)
  BY <1>2, <1>4, <1>5, BoundFacts, PassedHasElapsed DEF BoundDeal
<1>. QED BY <1>2, <1>3, <1>4, <1>6 DEF t

\* Cancelling buys back the future: for every price the book accepts and every
\* whole quota, whatever was claimed, stop() returns at least the price of the
\* weeks that have not started, and the bond.
THEOREM CancelRefunds == ExactFees /\ WholeWeeks /\ Spec => []CancelRefundsUnstartedWeeks
<1>. SUFFICES ASSUME ExactFees, WholeWeeks PROVE Spec => []CancelRefundsUnstartedWeeks
  OBVIOUS
<1>1. TermInv => CancelRefundsUnstartedWeeks
  <2>. SUFFICES ASSUME TermInv, deal.opened, ~deal.disputed, IsSubscription(deal), deal.probeAccepted
                PROVE  CancelRefundsUnstartedWeeks
    BY DEF CancelRefundsUnstartedWeeks
  <2>. DEFINE k == (deal.subWeeks - WeeksStartedAt(deal, now)) * deal.tokensPerWeek
  <2>1. /\ Bound /\ OnSchedule(deal) /\ now \in Nat /\ deal.weekIndex <= WeeksStartedAt(deal, now)
        /\ 1 <= WeeksStartedAt(deal, now)
    BY TermSchedule
  <2>2. Sound(deal) /\ deal \in Deal /\ deal.toBuyer \in Nat /\ deal.buyerBond \in Nat
    BY <2>1, BoundFacts, Money DEF Figures, BoundDeal
  <2>3. Stopped(deal, now).toBuyer = deal.toBuyer + (CostOf(k) + deal.buyerBond)
    BY <2>1, <2>2, StopRefunds DEF UnstartedCost
  <2>4. k \in Nat
    BY <2>1, <2>2, WeeksWithinTerm, Counters, SMTT(20) DEF Counts
  <2>5. SUFFICES Stopped(deal, now).toBuyer - deal.toBuyer >= ValueOf(k) + deal.buyerBond
    BY DEF CancelRefundsUnstartedWeeks
  <2>. HIDE DEF k
  <2>6. CostOf(k) = ValueOf(k) + Fee(ValueOf(k)) /\ ValueOf(k) \in Nat /\ Fee(ValueOf(k)) \in Nat
    BY <2>4, ValueNat, FeeNat DEF CostOf
  <2>. DEFINE v == ValueOf(k)
              f == Fee(ValueOf(k))
  <2>. HIDE DEF v, f
  <2>7. Stopped(deal, now).toBuyer = deal.toBuyer + ((v + f) + deal.buyerBond) /\ v \in Nat /\ f \in Nat
    BY <2>3, <2>6 DEF v, f
  <2>8. (deal.toBuyer + ((v + f) + deal.buyerBond)) - deal.toBuyer >= v + deal.buyerBond
    BY <2>2, <2>7, SMTT(20)
  <2>. QED BY <2>7, <2>8 DEF v
<1>. QED BY <1>1, PrepaidAlways, PTL

\* No door out of a subscription is cheaper for the buyer than stop(): under the
\* same two rules of the book, both resolutions of a dispute return at most what
\* stop() would have returned when it was raised, in the trial and after it.
THEOREM DisputeNotCheaper == ExactFees /\ WholeWeeks /\ Spec => []SubscriptionDisputeNotCheaper
<1>. SUFFICES ASSUME ExactFees, WholeWeeks PROVE Spec => []SubscriptionDisputeNotCheaper
  OBVIOUS
<1>1. TermInv => SubscriptionDisputeNotCheaper
  <2>. SUFFICES ASSUME TermInv, deal.disputed, IsSubscription(deal),
                       NEW e \in {Released(deal), TimedOut(deal)}
                PROVE  e.toBuyer <= StoppedInstead(deal).toBuyer
    BY DEF SubscriptionDisputeNotCheaper
  <2>. DEFINE t == deal.disputeTime
              g == [deal EXCEPT !.disputed = FALSE]
  <2>1. Bound
    BY BondBound DEF TermInv, BondInv, Secure
  <2>2. /\ Sound(deal) /\ deal \in Deal /\ Bonded(deal) /\ deal.opened /\ deal.funded
        /\ deal.toBuyer \in Nat /\ deal.deposit \in Nat /\ deal.buyerBond \in Nat /\ t \in Nat
    BY <2>1, BoundFacts, Money, Counters DEF Phased, Figures, Counts, BoundDeal
  <2>3. StoppedInstead(deal) = Stopped(g, t)
    BY DEF StoppedInstead
  <2>4. /\ Sound(g) /\ g \in Deal /\ SamePlan(g, deal)
        /\ g.toBuyer = deal.toBuyer /\ g.buyerBond = deal.buyerBond /\ g.deposit = deal.deposit
        /\ WeeksStartedAt(g, t) = WeeksStartedAt(deal, t)
        /\ UnstartedCost(g, t) = UnstartedCost(deal, t)
    BY <2>2, BeforeDispute, SMTT(20)
  <2>. HIDE DEF g
  <2>5. CASE deal.probeAccepted
    <3>1. /\ OnSchedule(deal) /\ deal.weekIndex <= WeeksStartedAt(deal, t)
          /\ 1 <= WeeksStartedAt(deal, t)
      BY <2>2, <2>5, TermSchedule
    <3>2. OnSchedule(g) /\ g.weekIndex <= WeeksStartedAt(g, t) /\ 1 <= WeeksStartedAt(g, t)
      BY <2>4, <3>1, SamePlanOnSchedule DEF SamePlan
    <3>3. /\ UnstartedCost(g, t) \in Nat
          /\ Stopped(g, t).toBuyer = g.toBuyer + (UnstartedCost(g, t) + g.buyerBond)
      BY <2>2, <2>4, <3>2, StopRefunds
    <3>4. /\ e.toBuyer \in Nat
          /\ e.toBuyer <= deal.toBuyer + UnstartedCost(deal, t) + deal.buyerBond
      BY <2>2, <2>5, DisputeRefunds
    <3>. DEFINE z == UnstartedCost(deal, t)
    <3>. HIDE DEF z
    <3>5. z \in Nat /\ Stopped(g, t).toBuyer = deal.toBuyer + (z + deal.buyerBond)
      BY <2>4, <3>3 DEF z
    <3>6. e.toBuyer <= deal.toBuyer + z + deal.buyerBond
      BY <3>4 DEF z
    <3>. QED BY <2>2, <2>3, <3>4, <3>5, <3>6, SMTT(20)
  <2>6. CASE ~deal.probeAccepted
    <3>1. Stopped(g, t) = StoppedOnProbe(g)
      BY <2>4, <2>6 DEF Stopped, SamePlan
    <3>2. StoppedOnProbe(g).toBuyer = g.toBuyer + (g.deposit + g.buyerBond)
      BY <2>4, TrialShares
    <3>3. e.toBuyer <= deal.toBuyer + (deal.deposit + deal.buyerBond)
      BY <2>2, <2>6, DisputeRefunds
    <3>. QED BY <2>3, <2>4, <3>1, <3>2, <3>3
  <2>. QED BY <2>5, <2>6
<1>. QED BY <1>1, PrepaidAlways, PTL
=============================================================================
