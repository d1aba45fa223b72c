------------------------- MODULE TokenContractExits -------------------------
(***************************************************************************)
(* The ways out of a deal: what each of them leaves to the two sides, for  *)
(* every price, window and input set, and what a seller saves by conceding *)
(* a dispute.                                                              *)
(*                                                                         *)
(* A terminal is a composition of a dozen helpers, of which a lemma says   *)
(* in one line what it pays out.  The invariant says what a terminal       *)
(* finds, the bonds of a live deal, and the comparison is then arithmetic  *)
(* between two such lines.                                                 *)
(*                                                                         *)
(* A leaf is Zenon's unless it names another prover.                       *)
(***************************************************************************)
EXTENDS ExitRelations, TokenContractClaims

USE Zenon

-----------------------------------------------------------------------------
(* What the helpers of the terminals pay out                               *)

\* Every stored record is a purse.
LEMMA DealPurse == ASSUME NEW d \in Deal PROVE Purse(d)
<1>1. PurseFields \subseteq DOMAIN d
  BY SMTT(20) DEF Deal, PurseFields
<1>. QED BY <1>1, Money, SMTT(20) DEF Purse, Figures

\* A payment or a burn moves one figure out of the balance.
LEMMA PaymentPurse ==
  ASSUME NEW d, Purse(d), NEW x \in Int
  PROVE  PursePays(d, x)
<1>1. /\ Purse(PayBuyer(d, x)) /\ SameEarmarks(PayBuyer(d, x), d)
      /\ PayBuyer(d, x).balance = d.balance - x /\ PayBuyer(d, x).toBuyer = d.toBuyer + x
      /\ PayBuyer(d, x).toSeller = d.toSeller /\ PayBuyer(d, x).opened = d.opened
  BY SMTT(20) DEF PayBuyer, Purse, PurseFields, SameEarmarks
<1>2. /\ Purse(PaySeller(d, x)) /\ SameEarmarks(PaySeller(d, x), d)
      /\ PaySeller(d, x).balance = d.balance - x /\ PaySeller(d, x).toBuyer = d.toBuyer
      /\ PaySeller(d, x).toSeller = d.toSeller + x /\ PaySeller(d, x).opened = d.opened
  BY SMTT(20) DEF PaySeller, Purse, PurseFields, SameEarmarks
<1>3. /\ Purse(BurnShell(d, x)) /\ SameEarmarks(BurnShell(d, x), d)
      /\ BurnShell(d, x).balance = d.balance - x /\ BurnShell(d, x).toBuyer = d.toBuyer
      /\ BurnShell(d, x).toSeller = d.toSeller /\ BurnShell(d, x).opened = d.opened
  BY SMTT(20) DEF BurnShell, Purse, PurseFields, SameEarmarks
<1>. QED BY <1>1, <1>2, <1>3 DEF PursePays

\* _payOwedAndDie: what is left goes to the seller, owed or swept.
LEMMA PayOwedPurse ==
  ASSUME NEW d, Purse(d)
  PROVE  /\ PayOwedAndDie(d).toSeller = d.toSeller + d.balance
         /\ PayOwedAndDie(d).toBuyer = d.toBuyer /\ PayOwedAndDie(d).opened = d.opened
<1>. DEFINE e == [d EXCEPT !.finalizedOwed = 0]
            p == PaySeller(e, d.finalizedOwed)
            q == PaySeller(p, p.balance)
<1>1. /\ Purse(e) /\ e.balance = d.balance /\ e.toSeller = d.toSeller /\ e.toBuyer = d.toBuyer
      /\ e.opened = d.opened
  BY SMTT(20) DEF Purse, PurseFields
<1>2. d.finalizedOwed \in Int /\ d.balance \in Int /\ d.toSeller \in Int
  BY DEF Purse
<1>. HIDE DEF e
<1>3. /\ Purse(p) /\ p.balance = e.balance - d.finalizedOwed /\ p.toBuyer = e.toBuyer
      /\ p.toSeller = e.toSeller + d.finalizedOwed /\ p.opened = e.opened
  BY <1>1, <1>2, PaymentPurse DEF PursePays
<1>. HIDE DEF p
<1>4. p.balance \in Int
  BY <1>3 DEF Purse
<1>5. Purse(q) /\ q.toSeller = p.toSeller + p.balance /\ q.toBuyer = p.toBuyer /\ q.opened = p.opened
  BY <1>3, <1>4, PaymentPurse DEF PursePays
<1>. HIDE DEF q
<1>6. Die(q).toSeller = q.toSeller /\ Die(q).toBuyer = q.toBuyer /\ Die(q).opened = q.opened
  BY <1>5 DEF Die, Purse, PurseFields
<1>7. PayOwedAndDie(d) = Die(q)
  BY DEF PayOwedAndDie, SweepAndDie, e, p, q
<1>. QED BY <1>1, <1>2, <1>3, <1>5, <1>6, <1>7, SMTT(20)

\* _settleFees burns the fees but for the rebate of a clean close.
LEMMA FeesPurse ==
  ASSUME NEW d, Purse(d), NEW clean, Rebated(d, clean) \in Int
  PROVE  /\ Purse(SettleFees(d, clean))
         /\ SettleFees(d, clean).balance = d.balance - (d.feeAccrued - Rebated(d, clean))
         /\ SettleFees(d, clean).toSeller = d.toSeller
         /\ SettleFees(d, clean).toBuyer = d.toBuyer
         /\ SettleFees(d, clean).opened = d.opened
<1>. DEFINE r == Rebated(d, clean)
            e == [d EXCEPT !.finalizedOwed = @ + r, !.feeAccrued = 0]
            f == BurnShell(e, d.feeAccrued - r)
<1>0. SettleFees(d, clean) = ReportFinalized(f)
  BY DEF SettleFees, Rebated
<1>. r \in Int
  OBVIOUS
<1>. HIDE DEF r
<1>1. /\ Purse(e) /\ e.balance = d.balance /\ e.toSeller = d.toSeller /\ e.toBuyer = d.toBuyer
      /\ e.opened = d.opened
  BY SMTT(20) DEF Purse, PurseFields
<1>2. d.feeAccrued - r \in Int
  BY SMTT(20) DEF Purse
<1>. HIDE DEF e
<1>4. /\ Purse(f) /\ f.balance = e.balance - (d.feeAccrued - r)
      /\ f.toSeller = e.toSeller /\ f.toBuyer = e.toBuyer /\ f.opened = e.opened
  BY <1>1, <1>2, PaymentPurse DEF PursePays
<1>. HIDE DEF f
<1>. DEFINE g == [f EXCEPT !.reported = f.ticksFinalized]
<1>5. /\ Purse(g) /\ g.balance = f.balance /\ g.toSeller = f.toSeller /\ g.toBuyer = f.toBuyer
      /\ g.opened = f.opened
  BY <1>4 DEF Purse, PurseFields
<1>6. ReportFinalized(f) = f \/ ReportFinalized(f) = g
  BY DEF ReportFinalized
<1>. HIDE DEF g
<1>. QED BY <1>0, <1>1, <1>4, <1>5, <1>6 DEF r

\* The end of a dispute: the buyer gets the escrow that is not burned and what is
\* left of their bond, the seller the rest of the balance without the fees.
LEMMA CloseStakedShares ==
  ASSUME NEW d \in Deal
  PROVE  /\ CloseStaked(d).toSeller = SellersShare(d)
         /\ CloseStaked(d).toBuyer = d.toBuyer + (d.deposit - UnearnedEscrow(d)) + d.buyerBond
         /\ ~CloseStaked(d).opened
<1>. DEFINE u == UnearnedEscrow(d)
            b == BurnShell(d, u)
            c == [b EXCEPT !.buyerBond = 0, !.deposit = 0,
                           !.finalizedOwed = @ + d.sellerBond,
                           !.sellerBond = 0, !.opened = FALSE]
            s == SettleFees(c, FALSE)
            x == d.deposit - u + d.buyerBond
            p == PayBuyer(s, x)
<1>0. CloseStaked(d) = PayOwedAndDie(p)
  BY DEF CloseStaked
<1>1. Purse(d) /\ u \in Nat
  BY DealPurse, UnearnedWithinDeposit
<1>. HIDE DEF u
<1>2. /\ Purse(b) /\ b.balance = d.balance - u /\ b.feeAccrued = d.feeAccrued
      /\ b.toBuyer = d.toBuyer /\ b.toSeller = d.toSeller
  BY <1>1, PaymentPurse, SMTT(20) DEF SameEarmarks, PursePays
<1>. HIDE DEF b
<1>3. /\ Purse(c) /\ c.balance = b.balance /\ c.feeAccrued = b.feeAccrued
      /\ c.toBuyer = b.toBuyer /\ c.toSeller = b.toSeller /\ ~c.opened
  BY <1>1, <1>2, SMTT(20) DEF Purse, PurseFields
<1>. HIDE DEF c
<1>4. /\ Purse(s) /\ s.balance = c.balance - c.feeAccrued
      /\ s.toBuyer = c.toBuyer /\ s.toSeller = c.toSeller /\ ~s.opened
  <2>1. c.feeAccrued \in Int /\ c.balance \in Int
    BY <1>3 DEF Purse
  <2>. DEFINE r == Rebated(c, FALSE)
  <2>2. r = 0 /\ r \in Int
    BY SMTT(20) DEF Rebated
  <2>3. /\ Purse(s) /\ s.balance = c.balance - (c.feeAccrued - r)
        /\ s.toSeller = c.toSeller /\ s.toBuyer = c.toBuyer /\ s.opened = c.opened
    BY <1>3, <2>2, FeesPurse
  <2>. HIDE DEF s, r
  <2>4. s.balance = c.balance - c.feeAccrued
    BY <2>1, <2>2, <2>3, SMTT(20)
  <2>. QED BY <1>3, <2>3, <2>4
<1>. HIDE DEF s
<1>5. x \in Int
  BY <1>1, SMTT(20) DEF Purse
<1>6. /\ Purse(p) /\ p.balance = s.balance - x /\ p.toBuyer = s.toBuyer + x
      /\ p.toSeller = s.toSeller /\ ~p.opened
  BY <1>4, <1>5, PaymentPurse, SMTT(20) DEF PursePays
<1>. HIDE DEF p
<1>7. /\ CloseStaked(d).toSeller = p.toSeller + p.balance
      /\ CloseStaked(d).toBuyer = p.toBuyer /\ ~CloseStaked(d).opened
  BY <1>0, <1>6, PayOwedPurse
<1>. QED BY <1>1, <1>2, <1>3, <1>4, <1>6, <1>7, Money, SMTT(20) DEF SellersShare, u, Figures

\* A clean close returns that to the buyer; the seller has the rest of the balance
\* without the fees, and a rebate out of them.
LEMMA CloseCleanShares ==
  ASSUME NEW d \in Deal
  PROVE  /\ CloseClean(d).toBuyer = d.toBuyer + Refund(d)
         /\ CloseClean(d).toSeller
              <= d.toSeller + d.balance - d.feeAccrued - Refund(d)
                   + Rebate(RecordDelivered(d).ticksFinalized)
         /\ ~CloseClean(d).opened
<1>. DEFINE a == ReleaseProbe(d)
            b == ReleaseBuyerBond(a)
            f == RecordDelivered(b)
            c == [f EXCEPT !.deposit = 0, !.finalizedOwed = @ + f.sellerBond,
                           !.sellerBond = 0, !.opened = FALSE]
            r == Rebated(c, TRUE)
            s == SettleFees(c, TRUE)
            p == PayBuyer(s, f.deposit)
<1>0. CloseClean(d) = PayOwedAndDie(p)
  BY DEF CloseClean
<1>1. Purse(d)
  BY DealPurse
<1>2. /\ Purse(a) /\ a.deposit = d.deposit + (IF d.probeAccepted THEN 0 ELSE d.probeTick)
      /\ a.buyerBond = d.buyerBond /\ a.balance = d.balance /\ a.feeAccrued = d.feeAccrued
      /\ a.toBuyer = d.toBuyer /\ a.toSeller = d.toSeller
      /\ a.probeAccepted = d.probeAccepted /\ a.tokensFinal = d.tokensFinal
      /\ {"probeAccepted", "tokensFinal", "ticksFinalized"} \subseteq DOMAIN a
  BY <1>1, SMTT(20) DEF Deal, ReleaseProbe, Purse, PurseFields
<1>. HIDE DEF a
<1>3. /\ Purse(b) /\ b.deposit = a.deposit + a.buyerBond
      /\ b.balance = a.balance /\ b.feeAccrued = a.feeAccrued
      /\ b.toBuyer = a.toBuyer /\ b.toSeller = a.toSeller
      /\ b.probeAccepted = a.probeAccepted /\ b.tokensFinal = a.tokensFinal
      /\ {"probeAccepted", "tokensFinal", "ticksFinalized"} \subseteq DOMAIN b
  BY <1>2, SMTT(20) DEF ReleaseBuyerBond, Purse, PurseFields
<1>. HIDE DEF b
<1>4. /\ Purse(f) /\ f.deposit = b.deposit
      /\ f.balance = b.balance /\ f.feeAccrued = b.feeAccrued
      /\ f.toBuyer = b.toBuyer /\ f.toSeller = b.toSeller
      /\ "ticksFinalized" \in DOMAIN f
  BY <1>3 DEF RecordDelivered, Purse, PurseFields
<1>5. f.ticksFinalized = RecordDelivered(d).ticksFinalized
  <2>. DEFINE n == (IF d.probeAccepted THEN Greater(d.tokensFinal, TickSize)
                    ELSE d.tokensFinal) \div TickSize
  <2>. HIDE DEF n
  <2>1. f = [b EXCEPT !.ticksFinalized = n]
    BY <1>2, <1>3 DEF RecordDelivered, n
  <2>2. RecordDelivered(d) = [d EXCEPT !.ticksFinalized = n] /\ "ticksFinalized" \in DOMAIN d
    BY DEF RecordDelivered, n, Deal
  <2>. QED BY <1>3, <2>1, <2>2
<1>. HIDE DEF f
<1>6. /\ Purse(c) /\ c.balance = f.balance /\ c.feeAccrued = f.feeAccrued
      /\ c.toBuyer = f.toBuyer /\ c.toSeller = f.toSeller /\ ~c.opened
      /\ c.ticksFinalized = f.ticksFinalized
  BY <1>4, SMTT(20) DEF Purse, PurseFields
<1>7. Rebate(c.ticksFinalized) \in Nat /\ d.feeAccrued \in Nat
  BY <1>5, <1>6, RebateNat, RecordDeliveredSame, Counters, Money DEF Figures, Counts
<1>. HIDE DEF c
<1>8. r \in Int /\ r <= Rebate(c.ticksFinalized)
  BY <1>2, <1>3, <1>4, <1>6, <1>7, SMTT(20) DEF Lesser, Rebated
<1>9. /\ Purse(s) /\ s.balance = c.balance - (c.feeAccrued - r)
      /\ s.toBuyer = c.toBuyer /\ s.toSeller = c.toSeller /\ ~s.opened
  <2>1. /\ Purse(s) /\ s.balance = c.balance - (c.feeAccrued - r)
        /\ s.toSeller = c.toSeller /\ s.toBuyer = c.toBuyer /\ s.opened = c.opened
    BY <1>6, <1>8, FeesPurse
  <2>. HIDE DEF s, r
  <2>. QED BY <1>6, <2>1
<1>. HIDE DEF r, s
<1>10. f.deposit \in Int
  BY <1>4 DEF Purse
<1>11. /\ Purse(p) /\ p.balance = s.balance - f.deposit /\ p.toBuyer = s.toBuyer + f.deposit
       /\ p.toSeller = s.toSeller /\ ~p.opened
  BY <1>9, <1>10, PaymentPurse, SMTT(20) DEF PursePays
<1>. HIDE DEF p
<1>12. /\ CloseClean(d).toSeller = p.toSeller + p.balance
       /\ CloseClean(d).toBuyer = p.toBuyer /\ ~CloseClean(d).opened
  BY <1>0, <1>11, PayOwedPurse
<1>13. f.deposit = Refund(d) /\ Refund(d) \in Int
  BY <1>2, <1>3, <1>4, Money, SMTT(20) DEF Refund, Figures
<1>14. CloseClean(d).toBuyer = d.toBuyer + Refund(d)
  BY <1>2, <1>3, <1>4, <1>6, <1>9, <1>11, <1>12, <1>13
<1>15. CloseClean(d).toSeller = d.toSeller + (d.balance - (d.feeAccrued - r) - Refund(d))
  BY <1>2, <1>3, <1>4, <1>6, <1>9, <1>11, <1>12, <1>13, SMTT(20)
<1>16. Rebate(c.ticksFinalized) = Rebate(RecordDelivered(d).ticksFinalized)
  BY <1>5, <1>6
<1>. HIDE DEF Refund
<1>. QED BY <1>7, <1>8, <1>12, <1>13, <1>14, <1>15, <1>16, Money, SMTT(20) DEF Figures

\* The stakes burn out of the bonds; the seller's share shrinks by their own.
LEMMA ForfeitShares ==
  ASSUME NEW d \in Deal, NEW x \in Nat, NEW y \in Nat, NEW e, e = ForfeitBonds(d, x, y)
  PROVE  Forfeited(e, d, x, y)
<1>. DEFINE b == Lesser(x, d.buyerBond)
            s == Lesser(y, d.sellerBond)
            g == [d EXCEPT !.buyerBond = @ - b, !.sellerBond = @ - s]
<1>0. e = BurnShell(g, b + s)
  BY DEF ForfeitBonds
<1>1. Purse(d) /\ b \in Int /\ s \in Int
  BY DealPurse, Money, SMTT(20) DEF Lesser, Figures
<1>. HIDE DEF b, s
<1>2. /\ Purse(g) /\ g.buyerBond = d.buyerBond - b /\ g.sellerBond = d.sellerBond - s
      /\ g.deposit = d.deposit /\ g.balance = d.balance /\ g.feeAccrued = d.feeAccrued
      /\ g.toBuyer = d.toBuyer /\ g.toSeller = d.toSeller
      /\ g.finalizedOwed = d.finalizedOwed /\ g.probeTick = d.probeTick
  BY <1>1, SMTT(20) DEF Purse, PurseFields
<1>. HIDE DEF g
<1>3. b + s \in Int
  BY <1>1, SMTT(20)
<1>4. /\ SameEarmarks(e, g) /\ e.balance = g.balance - (b + s)
      /\ e.toBuyer = g.toBuyer /\ e.toSeller = g.toSeller
  BY <1>0, <1>2, <1>3, PaymentPurse, SMTT(20) DEF PursePays
<1>5. SellersShare(e) = SellersShare(d) - s
  BY <1>1, <1>2, <1>4, Money, SMTT(20) DEF SellersShare, SameEarmarks, Figures
<1>. QED BY <1>2, <1>4, <1>5 DEF SameEarmarks, b, s, Forfeited

\* They are natural numbers within the escrow; a smaller escrow pays no more.
LEMMA PayFromBounds ==
  ASSUME NEW x \in Nat, NEW n \in Nat
  PROVE  /\ PayFrom(x, n) \in Nat /\ FeeFrom(x, n) \in Nat
         /\ PayFrom(x, n) + FeeFrom(x, n) <= x /\ PayFrom(x, n) <= ValueOf(n)
         /\ CostOf(n) <= x => PayFrom(x, n) + FeeFrom(x, n) = CostOf(n)
         /\ \A y \in Nat : y <= x => PayFrom(y, n) <= PayFrom(x, n)
<1>1. ValueOf(n) \in Nat /\ Fee(ValueOf(n)) \in Nat
  BY ValueNat, FeeNat
<1>2. CostOf(n) = ValueOf(n) + Fee(ValueOf(n))
  BY DEF CostOf
<1>. QED BY <1>1, <1>2, SMTT(20) DEF PayFrom, FeeFrom, Lesser

\* A charge moves its pay to the seller's share and touches no bond.
LEMMA ChargeShares ==
  ASSUME NEW d \in Deal, NEW n \in Nat, NEW e, e = ChargeEscrow(d, n)
  PROVE  Charged(e, d, n)
<1>. DEFINE pay == PayFrom(d.deposit, n)
            fee == FeeFrom(d.deposit, n)
<1>1. e = [d EXCEPT !.deposit = @ - (pay + fee), !.finalizedOwed = @ + pay,
                    !.feeAccrued = @ + fee]
  BY DEF ChargeEscrow, PayFrom, FeeFrom, CostOf
<1>2. Purse(d) /\ pay \in Int /\ fee \in Int
  <2>1. Purse(d) /\ d.deposit \in Nat
    BY DealPurse, Money DEF Figures
  <2>2. pay \in Nat /\ fee \in Nat
    BY <2>1, PayFromBounds
  <2>. QED BY <2>1, <2>2, SMTT(20)
<1>. HIDE DEF pay, fee
<1>3. /\ e.deposit = d.deposit - (pay + fee) /\ e.finalizedOwed = d.finalizedOwed + pay
      /\ e.feeAccrued = d.feeAccrued + fee
      /\ e.balance = d.balance /\ e.toBuyer = d.toBuyer /\ e.toSeller = d.toSeller
      /\ e.buyerBond = d.buyerBond /\ e.sellerBond = d.sellerBond
      /\ e.probeTick = d.probeTick
  BY <1>1, <1>2 DEF Purse, PurseFields
<1>4. SellersShare(e) = SellersShare(d) + pay
  BY <1>2, <1>3, Money, SMTT(20) DEF SellersShare, Figures
<1>. QED BY <1>3, <1>4 DEF pay, fee, Charged

-----------------------------------------------------------------------------
(* Helpers that leave the bonds and the payments alone                     *)

\* Every stored record has the fields.
LEMMA DealHasHeld == ASSUME NEW d \in Deal PROVE HasHeld(d)
BY SMTT(20) DEF Deal, HasHeld, HeldFields

\* Such steps compose.
LEMMA HoldsTrans ==
  ASSUME NEW a, NEW b, NEW c, Holds(a, b), Holds(b, c)
  PROVE  Holds(a, c)
BY DEF Holds, SameHeld

\* Doing nothing is one.
LEMMA HoldsSelf == ASSUME NEW d, HasHeld(d) PROVE Holds(d, d)
BY DEF Holds, SameHeld

\* Charges to the escrow, judgements of the claim and reports.
LEMMA CountersHold ==
  ASSUME NEW d, HasHeld(d)
  PROVE  /\ \A n : Holds(ChargeEscrow(d, n), d)
         /\ Holds(Promote(d), d)
         /\ \A t : Holds(PromoteDue(d, t), d)
         /\ Holds(VoidClaims(d), d)
         /\ Holds(RecordDelivered(d), d)
         /\ Holds(ReportFinalized(d), d)
<1>1. \A n : Holds(ChargeEscrow(d, n), d)
  BY SMTT(20) DEF ChargeEscrow, Holds, HasHeld, HeldFields, SameHeld
<1>2. Holds(Promote(d), d)
  BY DEF Promote, Holds, HasHeld, HeldFields, SameHeld
<1>3. \A t : Holds(PromoteDue(d, t), d)
  BY <1>2, HoldsSelf DEF PromoteDue
<1>4. Holds(VoidClaims(d), d)
  <2>. DEFINE j == PromoteDue(d, d.disputeTime)
  <2>1. Holds(j, d)
    BY <1>3
  <2>. HIDE DEF j
  <2>2. Holds([j EXCEPT !.tokensPend = j.tokensFinal], j)
    BY <2>1 DEF Holds, HasHeld, HeldFields, SameHeld
  <2>. QED BY <2>1, <2>2, HoldsTrans DEF VoidClaims, j
<1>5. Holds(RecordDelivered(d), d)
  BY DEF RecordDelivered, Holds, HasHeld, HeldFields, SameHeld
<1>6. Holds(ReportFinalized(d), d)
  BY DEF ReportFinalized, Holds, HasHeld, HeldFields, SameHeld
<1>. QED BY <1>1, <1>2, <1>3, <1>4, <1>5, <1>6

\* The loop over the weeks and the boundary it is called from.
LEMMA WeeksHold ==
  ASSUME NEW d, HasHeld(d), NEW target
  PROVE  /\ Holds(ChargeWeeksThrough(d, target), d)
         /\ Holds(SettleBoundaries(d, target), d)
<1>1. ASSUME NEW a, HasHeld(a) PROVE Holds(ChargeWeekIfBefore(a, target), a)
  <2>. DEFINE m == (a.weekIndex + 1) * a.tokensPerWeek
              c == ChargeEscrow(a, Greater(m - a.tokensPaid, 0))
              w == [c EXCEPT !.tokensPaid = m, !.weekIndex = @ + 1,
                             !.weekBaseTokens = Greater(a.tokensFinal, a.tokensPend)]
  <2>1. ChargeWeekIfBefore(a, target) = a \/ ChargeWeekIfBefore(a, target) = w
    BY DEF ChargeWeekIfBefore, ChargeWeek
  <2>2. Holds(c, a)
    BY <1>1, CountersHold
  <2>. HIDE DEF c, m
  <2>3. Holds(w, c)
    BY <2>2 DEF Holds, HasHeld, HeldFields, SameHeld
  <2>. HIDE DEF w
  <2>. QED BY <1>1, <2>1, <2>2, <2>3, HoldsTrans, HoldsSelf, SMTT(20)
<1>. DEFINE w1 == ChargeWeekIfBefore(d, target)
            w2 == ChargeWeekIfBefore(w1, target)
            w3 == ChargeWeekIfBefore(w2, target)
            w4 == ChargeWeekIfBefore(w3, target)
            c == ChargeWeeksThrough(d, target)
            r == RecordDelivered(c)
<1>2. c = d \/ c = w4
  BY DEF ChargeWeeksThrough
<1>3. SettleBoundaries(d, target) = d \/ SettleBoundaries(d, target) = ReportFinalized(r)
  BY DEF SettleBoundaries
<1>4. Holds(w1, d)
  BY <1>1
<1>. HIDE DEF w1
<1>5. Holds(w2, w1)
  BY <1>1, <1>4 DEF Holds
<1>. HIDE DEF w2
<1>6. Holds(w3, w2)
  BY <1>1, <1>5 DEF Holds
<1>. HIDE DEF w3
<1>7. Holds(w4, w3)
  BY <1>1, <1>6 DEF Holds
<1>. HIDE DEF w4
<1>8. Holds(c, d)
  BY <1>2, <1>4, <1>5, <1>6, <1>7, HoldsTrans, HoldsSelf, SMTT(20)
<1>. HIDE DEF c
<1>9. Holds(r, c)
  BY <1>8, CountersHold DEF Holds
<1>. HIDE DEF r
<1>10. Holds(ReportFinalized(r), r)
  BY <1>9, CountersHold DEF Holds
<1>11. Holds(SettleBoundaries(d, target), d)
  BY <1>3, <1>8, <1>9, <1>10, HoldsTrans, HoldsSelf, SMTT(20)
<1>. QED BY <1>8, <1>11 DEF c

-----------------------------------------------------------------------------
(* The end of a dispute                                                    *)

\* Releasing the probe moves it to the escrow and leaves the bonds.
LEMMA ReleaseProbeShares ==
  ASSUME NEW d \in Deal, NEW a, a = ReleaseProbe(d)
  PROVE  ProbeFreed(a, d)
BY Money, SMTT(20) DEF Deal, ReleaseProbe, Figures, ProbeFreed

\* Paying the proven tokens is a charge to the escrow.
LEMMA PayTrustedShares ==
  ASSUME NEW b, Sound(b), NEW p, p = PayTrusted(b)
  PROVE  /\ p.deposit = b.deposit - (PayFrom(b.deposit, Proven(b)) + FeeFrom(b.deposit, Proven(b)))
         /\ SellersShare(p) = SellersShare(b) + PayFrom(b.deposit, Proven(b))
         /\ Holds(p, b) /\ Proven(b) \in Nat
<1>. DEFINE n == Proven(b)
            c == ChargeEscrow(b, n)
            r == RecordDelivered(c)
<1>0. b \in Deal /\ HasHeld(b)
  BY DealHasHeld DEF Sound, Fit
<1>1. p = [r EXCEPT !.tokensPaid = Greater(@, b.tokensFinal)]
  BY DEF PayTrusted, Proven
<1>2. n \in Nat
  BY <1>0, ClaimBaseNat, Counters, SMTT(20) DEF Proven, Greater, Counts
<1>. HIDE DEF n
<1>3. /\ c \in Deal /\ Holds(c, b)
      /\ c.deposit = b.deposit - (PayFrom(b.deposit, n) + FeeFrom(b.deposit, n))
      /\ SellersShare(c) = SellersShare(b) + PayFrom(b.deposit, n)
  BY <1>0, <1>2, ChargeEscrowSound, ChargeShares, CountersHold DEF Sound, Fit, Charged
<1>. HIDE DEF c
<1>4. r \in Deal /\ SameMoney(r, c) /\ Holds(r, c)
  BY <1>3, RecordDeliveredSame, CountersHold DEF Holds
<1>. HIDE DEF r
<1>5. /\ Holds(p, r) /\ p.deposit = r.deposit /\ p.feeAccrued = r.feeAccrued
  BY <1>1, <1>4, DealPurse DEF Purse, PurseFields, Holds, HasHeld, HeldFields, SameHeld
<1>6. Holds(p, b)
  BY <1>3, <1>4, <1>5, HoldsTrans
<1>7. p.deposit = c.deposit /\ SellersShare(p) = SellersShare(c)
  BY <1>4, <1>5 DEF SameMoney, SameFlows, SameEarmarks, SellersShare, Holds, SameHeld
<1>. QED BY <1>2, <1>3, <1>6, <1>7 DEF n

\* _settleTrustedAndClose: the seller has their share and the proven tokens, less
\* their stake; the buyer at most the escrow and, once a subscription's probe is
\* accepted, at most the weeks that had not started, with their bond less the stake.
LEMMA TrustedShares ==
  ASSUME NEW d, Sound(d), NEW x \in Nat, NEW y \in Nat, NEW e,
         e = SettleTrustedAndClose(d, x, y)
  PROVE  TrustedEnd(e, d, x, y)
<1>. DEFINE a == ReleaseProbe(d)
            b == Settling(d)
            p == PayTrusted(b)
            s == ForfeitBonds(p, x, y)
<1>0. d \in Deal /\ HasHeld(d) /\ HasClaims(d)
  BY DealHasHeld, DealHasClaims DEF Sound, Fit
<1>1. e = CloseStaked(s)
  BY DEF SettleTrustedAndClose, Settling
<1>2. /\ Sound(a) /\ HasHeld(a) /\ Quiet(a, d)
      /\ a.sellerBond = d.sellerBond /\ a.buyerBond = d.buyerBond /\ a.toBuyer = d.toBuyer
  BY <1>0, ReleaseProbeSound, ReleaseProbeShares, EarmarksQuiet, DealHasHeld DEF Sound, Fit,
         QuietEarmarks, ProbeFreed
<1>3. b = ChargeWeeksThrough(a, WeeksElapsedAt(d, d.disputeTime))
  BY DEF Settling
<1>. HIDE DEF a
<1>4. Sound(b) /\ Holds(b, a) /\ Quiet(b, a)
  <2>1. WeeksElapsedAt(d, d.disputeTime) \in Int /\ WeeksElapsedAt(d, d.disputeTime) <= SUB_WEEKS
    BY <1>0, WeeksWithinTerm, Counters DEF Counts
  <2>. QED BY <1>2, <1>3, <2>1, ChargeWeeksSound, WeeksHold, WeeksQuiet DEF Quiet
<1>. HIDE DEF b
<1>5. /\ Sound(p) /\ Holds(p, b) /\ Proven(b) \in Nat
      /\ p.deposit = b.deposit - (PayFrom(b.deposit, Proven(b)) + FeeFrom(b.deposit, Proven(b)))
      /\ SellersShare(p) = SellersShare(b) + PayFrom(b.deposit, Proven(b))
  BY <1>4, PayTrustedSound, PayTrustedShares
<1>6. Quiet(p, b)
  <2>. DEFINE c == ChargeEscrow(b, Proven(b))
              r == RecordDelivered(c)
  <2>1. p = [r EXCEPT !.tokensPaid = Greater(@, b.tokensFinal)]
    BY DEF PayTrusted, Proven
  <2>2. Quiet(c, b)
    BY <1>4, EarmarksQuiet DEF Quiet, QuietEarmarks
  <2>. HIDE DEF c
  <2>3. Quiet(r, c)
    BY <2>2, EarmarksQuiet DEF Quiet, QuietEarmarks
  <2>. HIDE DEF r
  <2>4. Quiet(p, r)
    BY <2>1, <2>3 DEF Quiet, HasClaims, ClaimFields, SameClaims
  <2>. QED BY <2>2, <2>3, <2>4, QuietTrans
<1>. HIDE DEF p
<1>7. /\ s \in Deal /\ Quiet(s, p)
      /\ SellersShare(s) = SellersShare(p) - Lesser(y, p.sellerBond)
      /\ s.buyerBond = p.buyerBond - Lesser(x, p.buyerBond)
      /\ s.deposit = p.deposit /\ s.toBuyer = p.toBuyer
  <2>1. p \in Deal
    BY <1>5 DEF Sound, Fit
  <2>2. s \in Deal
    BY <1>5, ForfeitBondsSound DEF Sound, Fit
  <2>3. Quiet(s, p)
    BY <1>6, EarmarksQuiet DEF Quiet, QuietEarmarks
  <2>. HIDE DEF s
  <2>4. /\ SellersShare(s) = SellersShare(p) - Lesser(y, p.sellerBond)
        /\ s.buyerBond = p.buyerBond - Lesser(x, p.buyerBond)
        /\ s.deposit = p.deposit /\ s.toBuyer = p.toBuyer
    BY <2>1, ForfeitShares, SMTT(20) DEF s, Forfeited
  <2>. QED BY <2>2, <2>3, <2>4
<1>. HIDE DEF s
<1>8. /\ e.toSeller = SellersShare(s) /\ ~e.opened
      /\ e.toBuyer = s.toBuyer + (s.deposit - UnearnedEscrow(s)) + s.buyerBond
  BY <1>1, <1>7, CloseStakedShares
<1>9. /\ p.sellerBond = d.sellerBond /\ p.buyerBond = d.buyerBond /\ p.toBuyer = d.toBuyer
  BY <1>2, <1>4, <1>5 DEF Holds, SameHeld
<1>10. Quiet(s, d)
  BY <1>2, <1>4, <1>6, <1>7, QuietTrans
<1>11. /\ UnearnedEscrow(s) \in Nat /\ UnearnedEscrow(s) <= s.deposit
       /\ s.deposit \in Nat /\ s.toBuyer \in Nat /\ s.buyerBond \in Nat
       /\ b.deposit \in Nat /\ d.buyerBond \in Nat /\ d.toBuyer \in Nat
  BY <1>0, <1>4, <1>7, UnearnedWithinDeposit, Money DEF Sound, Fit, Figures
<1>12. s.deposit <= b.deposit
  <2>. DEFINE pay == PayFrom(b.deposit, Proven(b))
              fee == FeeFrom(b.deposit, Proven(b))
  <2>1. pay \in Nat /\ fee \in Nat
    BY <1>5, <1>11, PayFromBounds
  <2>2. s.deposit = b.deposit - (pay + fee)
    BY <1>5, <1>7
  <2>. HIDE DEF pay, fee
  <2>. QED BY <1>11, <2>1, <2>2, SMTT(20)
<1>13. Lesser(x, d.buyerBond) \in Int
  BY <1>11, SMTT(20) DEF Lesser
<1>14. ASSUME IsSubscription(d), d.probeAccepted
       PROVE  s.deposit - UnearnedEscrow(s) <= UnstartedCost(d, d.disputeTime)
              /\ UnstartedCost(d, d.disputeTime) \in Nat
  <2>. DEFINE k == (s.subWeeks - WeeksStartedAt(s, s.disputeTime)) * s.tokensPerWeek
  <2>1. UnstartedCost(d, d.disputeTime) = CostOf(k)
    BY <1>10 DEF Quiet, SameClaims, UnstartedCost, WeeksStartedAt, WeeksElapsedAt
  <2>2. UnearnedEscrow(s) = Greater(s.deposit - CostOf(k), 0)
    BY <1>10, <1>14 DEF UnearnedEscrow, Quiet, SameClaims, IsSubscription
  <2>3. k \in Nat
    BY <1>7, WeeksWithinTerm, Counters, SMTT(20) DEF Counts
  <2>. HIDE DEF k
  <2>4. CostOf(k) \in Nat
    BY <2>3, CostNat
  <2>. QED BY <1>11, <2>1, <2>2, <2>4, SMTT(20) DEF Greater
<1>15. e.toSeller = (SellersShare(b) + PayFrom(b.deposit, Proven(b))) - Lesser(y, d.sellerBond)
  BY <1>5, <1>7, <1>8, <1>9
<1>16. e.toBuyer <= d.toBuyer + b.deposit + (d.buyerBond - Lesser(x, d.buyerBond))
  BY <1>7, <1>8, <1>9, <1>11, <1>12, <1>13, SMTT(20)
<1>17. IsSubscription(d) /\ d.probeAccepted =>
         e.toBuyer <= d.toBuyer + UnstartedCost(d, d.disputeTime)
                        + (d.buyerBond - Lesser(x, d.buyerBond))
  BY <1>7, <1>8, <1>9, <1>11, <1>13, <1>14, SMTT(20)
<1>. QED BY <1>8, <1>15, <1>16, <1>17 DEF b, TrustedEnd

\* It is sound, and the bonds, the payments and the terms are those of the deal.
LEMMA VoidedHolds ==
  ASSUME NEW d, Sound(d), NEW c, c = ChargeWeeksThrough(d, WeeksElapsedAt(d, d.disputeTime))
  PROVE  VoidedFrom(c, d)
<1>. DEFINE j == PromoteDue(c, c.disputeTime)
            v == VoidClaims(c)
            w == [v EXCEPT !.disputed = FALSE]
<1>0. d \in Deal /\ HasHeld(d) /\ HasClaims(d)
  BY DealHasHeld, DealHasClaims DEF Sound, Fit
<1>1. Sound(c) /\ Holds(c, d) /\ Quiet(c, d) /\ c \in Deal
  <2>1. WeeksElapsedAt(d, d.disputeTime) \in Int /\ WeeksElapsedAt(d, d.disputeTime) <= SUB_WEEKS
    BY <1>0, WeeksWithinTerm, Counters DEF Counts
  <2>. QED BY <1>0, <2>1, ChargeWeeksSound, WeeksHold, WeeksQuiet DEF Sound, Fit
<1>2. w \in Deal /\ SameMoney(w, c)
  BY <1>1, VoidedSame
<1>3. v \in Deal /\ Holds(v, c)
  BY <1>1, VoidClaimsSame, CountersHold DEF Holds
<1>4. /\ v.subWeeks = c.subWeeks /\ v.probeAccepted = c.probeAccepted
      /\ v.tokensPerWeek = c.tokensPerWeek /\ v.periodStart = c.periodStart
      /\ v.disputeTime = c.disputeTime /\ v.tokensPaid = c.tokensPaid
  BY <1>1, SMTT(20) DEF Deal, VoidClaims, PromoteDue, Promote
<1>. HIDE DEF v
<1>5. /\ Holds(w, v)
      /\ w.subWeeks = v.subWeeks /\ w.probeAccepted = v.probeAccepted
      /\ w.tokensPerWeek = v.tokensPerWeek /\ w.periodStart = v.periodStart
      /\ w.disputeTime = v.disputeTime /\ w.tokensPaid = v.tokensPaid
  BY <1>3, DealHasHeld, SMTT(20) DEF Deal, Holds, HasHeld, HeldFields, SameHeld
<1>6. Voided(d) = w
  BY DEF Voided, v
<1>. HIDE DEF w
<1>7. Sound(w)
  BY <1>1, <1>2, SameMoneySound
<1>8. Holds(w, d)
  BY <1>1, <1>3, <1>5, HoldsTrans
<1>. QED BY <1>1, <1>2, <1>4, <1>5, <1>6, <1>7, <1>8
         DEF Quiet, SameClaims, SameMoney, SameEarmarks, VoidedFrom

\* With both bonds in, the stake of a subscription is at least one tick and at
\* most the bond.
LEMMA StakeBounds ==
  ASSUME NEW d \in Deal, IsSubscription(d), d.buyerBond = BondAmount, d.sellerBond = BondAmount
  PROVE  DisputeStake(d) \in Nat /\ PricePerTick <= DisputeStake(d) /\ DisputeStake(d) <= BondAmount
<1>1. DisputeStake(d) \in Nat
  BY StakeNat
<1>2. DisputeStake(d)
        = Lesser(Lesser(Lesser(Greater(ClaimedUnpaidValue(d), PricePerTick), BondAmount),
                        BondAmount), BondAmount)
  BY DEF DisputeStake
<1>3. ClaimedUnpaidValue(d) \in Nat
  <2>1. Greater(d.tokensPend - ClaimBase(d), 0) \in Nat
    BY ClaimBaseNat, Counters, SMTT(20) DEF Greater, Counts
  <2>. QED BY <2>1, CostNat DEF ClaimedUnpaidValue
<1>. QED BY <1>1, <1>2, <1>3, PriceAssumption, SMTT(20) DEF Lesser, Greater, BondAmount

\* On a subscription both resolutions settle the same record; only the timeout
\* takes the stake, at least a tick, from the seller too.
LEMMA SubscriptionConcedes ==
  ASSUME NEW d, Sound(d), Bonded(d), d.opened, d.funded, IsSubscription(d)
  PROVE  Released(d).toSeller > TimedOut(d).toSeller
<1>. DEFINE c == ChargeWeeksThrough(d, WeeksElapsedAt(d, d.disputeTime))
            v == Voided(d)
            x == DisputeStake(v)
            y == DisputeStake(c)
            s == SellersShare(Settling(v)) + PayFrom(Settling(v).deposit, Proven(Settling(v)))
<1>1. Released(d) = SettleTrustedAndClose(v, x, 0) /\ TimedOut(d) = SettleTrustedAndClose(v, y, y)
  BY ZenonT(30) DEF Released, TimedOut, Voided
<1>2. /\ Sound(c) /\ Sound(v) /\ Holds(c, d) /\ Holds(v, d)
      /\ c.subWeeks = d.subWeeks /\ v.subWeeks = d.subWeeks
  BY VoidedHolds, SMTT(20) DEF Quiet, SameClaims, VoidedFrom
<1>. HIDE DEF c, v
<1>3. /\ IsSubscription(c) /\ IsSubscription(v) /\ c \in Deal /\ v \in Deal
      /\ c.buyerBond = BondAmount /\ c.sellerBond = BondAmount
      /\ v.buyerBond = BondAmount /\ v.sellerBond = BondAmount
  BY <1>2 DEF Bonded, IsSubscription, Holds, SameHeld, Sound, Fit
<1>4. x \in Nat /\ y \in Nat /\ PricePerTick <= y /\ y <= BondAmount
  BY <1>3, StakeBounds
<1>. HIDE DEF x, y
<1>5. /\ Released(d).toSeller = s - Lesser(0, v.sellerBond)
      /\ TimedOut(d).toSeller = s - Lesser(y, v.sellerBond)
  <2>. 0 \in Nat
    OBVIOUS
  <2>1. Released(d).toSeller = s - Lesser(0, v.sellerBond)
    BY <1>1, <1>2, <1>4, TrustedShares DEF TrustedEnd
  <2>2. TimedOut(d).toSeller = s - Lesser(y, v.sellerBond)
    BY <1>1, <1>2, <1>4, TrustedShares, ZenonT(30) DEF TrustedEnd
  <2>. QED BY <2>1, <2>2
<1>6. Released(d).toSeller \in Nat
  BY ReleasedEnds, Money DEF Over, Figures
<1>7. s \in Int
  <2>. DEFINE b == Settling(v)
  <2>1. Sound(b)
    <3>. DEFINE a == ReleaseProbe(v)
    <3>1. Sound(a) /\ b = ChargeWeeksThrough(a, WeeksElapsedAt(v, v.disputeTime))
      BY <1>2, ReleaseProbeSound DEF Settling
    <3>2. WeeksElapsedAt(v, v.disputeTime) \in Int /\ WeeksElapsedAt(v, v.disputeTime) <= SUB_WEEKS
      BY <1>3, WeeksWithinTerm, Counters DEF Counts
    <3>. HIDE DEF a, b
    <3>. QED BY <3>1, <3>2, ChargeWeeksSound
  <2>. HIDE DEF b
  <2>2. b \in Deal /\ Proven(b) \in Nat
    BY <2>1, PayTrustedShares DEF Sound, Fit
  <2>3. PayFrom(b.deposit, Proven(b)) \in Nat
    BY <2>2, Money, PayFromBounds DEF Figures
  <2>. QED BY <2>2, <2>3, Money, SMTT(20) DEF SellersShare, b, Figures
<1>. HIDE DEF s
<1>. QED BY <1>3, <1>4, <1>5, <1>7, PriceAssumption, PricesNat, SMTT(20) DEF Lesser

\* The ordinary timeout first burns the pending claim out of the escrow.
LEMMA PendingBurned ==
  ASSUME NEW v, Sound(v), NEW x \in Nat, x <= v.deposit, NEW e,
         e = BurnShell([v EXCEPT !.deposit = @ - x], x)
  PROVE  BurnedFrom(e, v, x)
<1>. DEFINE f == [v EXCEPT !.deposit = v.deposit - x]
<1>0. v \in Deal /\ v.deposit - x \in Nat
  BY Money, SMTT(20) DEF Sound, Fit, Figures
<1>1. f \in Deal
  BY <1>0, PutNat DEF TakesNat
<1>2. /\ SameFlows(f, v)
      /\ f.deposit = v.deposit - x /\ f.probeTick = v.probeTick
      /\ f.finalizedOwed = v.finalizedOwed /\ f.feeAccrued = v.feeAccrued
      /\ f.sellerBond = v.sellerBond /\ f.buyerBond = v.buyerBond
      /\ f.tokensPaid = v.tokensPaid
  BY <1>0, DealFields DEF SameFlows, HasFields
<1>3. Quiet(f, v)
  BY <1>0, DealHasClaims DEF Quiet, HasClaims, ClaimFields, SameClaims
<1>. HIDE DEF f
<1>4. Sound(f) /\ x <= Slack(f)
  BY <1>0, <1>1, <1>2, Money, SMTT(20) DEF Sound, Fit, Slack, Earmarked, Balanced, SameFlows, Since,
         Figures
<1>5. e = BurnShell(f, x)
  BY DEF f
<1>6. Sound(e)
  BY <1>4, <1>5, PaidFromSlack
<1>7. /\ SameEarmarks(e, f) /\ e.balance = f.balance - x /\ e.toSeller = f.toSeller
  BY <1>1, <1>5, DealPurse, PaymentPurse, SMTT(20) DEF PursePays
<1>8. Quiet(e, f)
  BY <1>3, <1>5, PaymentsQuiet DEF Quiet
<1>9. e.tokensPaid = f.tokensPaid
  BY <1>1, <1>5 DEF Deal, BurnShell
<1>. QED BY <1>2, <1>3, <1>6, <1>7, <1>8, <1>9, QuietTrans DEF SameEarmarks, SameFlows,
                BurnedFrom

\* On an ordinary deal a concession costs the seller one tick of bond and a timeout
\* two, and the escrow that the proven ticks are paid from is no larger.
LEMMA OrdinaryConcedes ==
  ASSUME NEW d, Sound(d), Bonded(d), d.opened, ~IsSubscription(d)
  PROVE  Released(d).toSeller > TimedOut(d).toSeller
<1>. DEFINE x == Lesser(CostOf(Greater(d.tokensPend - d.tokensFinal, 0)), d.deposit)
            v == Voided(d)
            e == BurnShell([v EXCEPT !.deposit = @ - x], x)
<1>0. d \in Deal /\ d.sellerBond = BondAmount
  BY DEF Sound, Fit, Bonded
<1>1. ChargeWeeksThrough(d, WeeksElapsedAt(d, d.disputeTime)) = d
  BY DEF ChargeWeeksThrough
<1>2. /\ Released(d) = SettleTrustedAndClose(v, PricePerTick, PricePerTick)
      /\ TimedOut(d) = SettleTrustedAndClose(e, 2 * PricePerTick, 2 * PricePerTick)
  BY DEF Released, TimedOut, Voided
<1>3. /\ Sound(v) /\ v \in Deal /\ v.sellerBond = BondAmount /\ v.deposit = d.deposit
      /\ ~IsSubscription(v)
  BY <1>0, <1>1, VoidedHolds DEF Holds, SameHeld, IsSubscription, Sound, Fit, VoidedFrom
<1>. HIDE DEF v
<1>4. x \in Nat /\ x <= v.deposit
  <2>1. Greater(d.tokensPend - d.tokensFinal, 0) \in Nat
    BY <1>0, Counters, SMTT(20) DEF Greater, Counts
  <2>2. CostOf(Greater(d.tokensPend - d.tokensFinal, 0)) \in Nat
    BY <2>1, CostNat
  <2>. QED BY <1>0, <1>3, <2>2, Money, SMTT(20) DEF Lesser, Figures
<1>. HIDE DEF x
<1>5. /\ Sound(e) /\ e \in Deal /\ e.deposit = v.deposit - x /\ e.balance = v.balance - x
      /\ e.toSeller = v.toSeller /\ e.feeAccrued = v.feeAccrued /\ e.buyerBond = v.buyerBond
      /\ e.sellerBond = v.sellerBond /\ e.probeTick = v.probeTick
      /\ Quiet(e, v) /\ e.tokensPaid = v.tokensPaid
  BY <1>3, <1>4, PendingBurned, SMTT(20) DEF Sound, Fit, BurnedFrom
<1>. HIDE DEF e
<1>6. ASSUME NEW a, Sound(a), ~IsSubscription(a)
      PROVE  /\ Settling(a) = ReleaseProbe(a) /\ Settling(a) \in Deal
             /\ Proven(Settling(a)) = Greater(a.tokensFinal - a.tokensPaid, 0)
             /\ Proven(Settling(a)) \in Nat
             /\ Settling(a).deposit = a.deposit + (IF a.probeAccepted THEN 0 ELSE a.probeTick)
             /\ SellersShare(Settling(a)) = a.toSeller + a.balance - a.feeAccrued
                                              - Settling(a).deposit - a.buyerBond
  <2>. DEFINE r == ReleaseProbe(a)
  <2>0. a \in Deal
    BY <1>6 DEF Sound, Fit
  <2>1. Sound(r) /\ r \in Deal /\ Quiet(r, a)
    BY <1>6, <2>0, ReleaseProbeSound, EarmarksQuiet, DealHasClaims DEF Sound, Fit, QuietEarmarks
  <2>2. /\ r.deposit = a.deposit + (IF a.probeAccepted THEN 0 ELSE a.probeTick)
        /\ r.buyerBond = a.buyerBond /\ r.toSeller = a.toSeller /\ r.balance = a.balance
        /\ r.feeAccrued = a.feeAccrued /\ r.tokensPaid = a.tokensPaid
    BY <2>0, ReleaseProbeShares DEF ProbeFreed
  <2>3. Settling(a) = ChargeWeeksThrough(r, WeeksElapsedAt(a, a.disputeTime))
    BY DEF Settling
  <2>. HIDE DEF r
  <2>4. ~IsSubscription(r) /\ r.tokensFinal = a.tokensFinal
    BY <1>6, <2>1 DEF Quiet, SameClaims, IsSubscription
  <2>5. Settling(a) = r
    BY <2>3, <2>4 DEF ChargeWeeksThrough
  <2>6. Proven(r) = Greater(a.tokensFinal - a.tokensPaid, 0)
    BY <2>2, <2>4 DEF Proven, ClaimBase
  <2>7. Proven(r) \in Nat
    BY <2>1, PayTrustedShares
  <2>. QED BY <2>1, <2>2, <2>5, <2>6, <2>7 DEF SellersShare, r
<1>7. ~IsSubscription(e) /\ e.tokensFinal = v.tokensFinal /\ e.probeAccepted = v.probeAccepted
  BY <1>3, <1>5 DEF Quiet, SameClaims, IsSubscription
<1>. DEFINE n == Proven(Settling(v))
            g == Settling(v).deposit
            h == Settling(e).deposit
<1>8. /\ n \in Nat /\ Proven(Settling(e)) = n
      /\ g = v.deposit + (IF v.probeAccepted THEN 0 ELSE v.probeTick) /\ h = g - x
      /\ g \in Nat /\ h \in Nat
      /\ SellersShare(Settling(v)) = v.toSeller + v.balance - v.feeAccrued - g - v.buyerBond
      /\ SellersShare(Settling(e)) = e.toSeller + e.balance - e.feeAccrued - h - e.buyerBond
  <2>1. /\ n \in Nat /\ Proven(Settling(e)) = n
    BY <1>3, <1>5, <1>6, <1>7
  <2>2. g \in Nat /\ h \in Nat
    BY <1>3, <1>5, <1>6, <1>7, Money DEF Figures
  <2>3. g = v.deposit + (IF v.probeAccepted THEN 0 ELSE v.probeTick) /\ h = g - x
    BY <1>3, <1>4, <1>5, <1>6, <1>7, Money, SMTT(20) DEF Figures
  <2>. QED BY <1>3, <1>5, <1>6, <1>7, <2>1, <2>2, <2>3
<1>9. /\ Released(d).toSeller = (SellersShare(Settling(v)) + PayFrom(g, n))
                                  - Lesser(PricePerTick, v.sellerBond)
      /\ TimedOut(d).toSeller = (SellersShare(Settling(e)) + PayFrom(h, n))
                                  - Lesser(2 * PricePerTick, e.sellerBond)
  <2>1. PricePerTick \in Nat /\ 2 * PricePerTick \in Nat
    BY PricesNat, SMTT(20)
  <2>. QED BY <1>2, <1>3, <1>5, <1>8, <2>1, TrustedShares, SMTT(20) DEF TrustedEnd
<1>. HIDE DEF g, h, n
<1>10. PayFrom(g, n) \in Nat /\ PayFrom(h, n) \in Nat /\ PayFrom(h, n) <= PayFrom(g, n)
  BY <1>4, <1>8, PayFromBounds, SMTT(20)
<1>11. SellersShare(Settling(e)) = SellersShare(Settling(v)) /\ SellersShare(Settling(v)) \in Int
  BY <1>3, <1>4, <1>5, <1>8, Money, SMTT(20) DEF Figures
<1>12. Lesser(PricePerTick, v.sellerBond) = PricePerTick
       /\ Lesser(2 * PricePerTick, e.sellerBond) = 2 * PricePerTick
  BY <1>3, <1>5, PriceAssumption, SMTT(20) DEF Lesser, BondAmount
<1>. QED BY <1>9, <1>10, <1>11, <1>12, PriceAssumption, SMTT(20)

-----------------------------------------------------------------------------
(* Every terminal closes the stream and the dispute                        *)

\* Judging the claim leaves the dispute and the other storage of the claims.
LEMMA PromoteKeeps ==
  ASSUME NEW d, HasClaims(d), NEW t
  PROVE  /\ HasClaims(Promote(d)) /\ Promote(d).disputed = d.disputed
         /\ HasClaims(PromoteDue(d, t)) /\ PromoteDue(d, t).disputed = d.disputed
<1>1. HasClaims(Promote(d)) /\ Promote(d).disputed = d.disputed
  BY DEF Promote, HasClaims, ClaimFields
<1>. QED BY <1>1 DEF PromoteDue

\* _payFinalAndClose closes the stream; on a subscription it charges nothing and
\* returns the escrow, the bond and a probe not accepted.
LEMMA PayFinalShares ==
  ASSUME NEW d, Sound(d), NEW e, e = PayFinalAndClose(d)
  PROVE  ~e.opened /\ (IsSubscription(d) => e.toBuyer = d.toBuyer + Refund(d))
<1>. DEFINE n == IF IsSubscription(d) THEN 0 ELSE Greater(d.tokensFinal - d.tokensPaid, 0)
            c == ChargeEscrow(d, n)
            f == [c EXCEPT !.tokensPaid = c.tokensPaid + n]
<1>0. d \in Deal /\ HasClaims(d) /\ n \in Nat /\ (IsSubscription(d) => n = 0)
  BY DealHasClaims, Counters, SMTT(20) DEF Sound, Fit, Greater, Counts
<1>1. e = CloseClean(f)
  BY DEF PayFinalAndClose
<1>. HIDE DEF n
<1>2. c \in Deal /\ c.probeAccepted = d.probeAccepted
  <2>1. Sound(c) /\ Quiet(c, d)
    BY <1>0, ChargeEscrowSound, EarmarksQuiet DEF QuietEarmarks
  <2>. QED BY <2>1 DEF Sound, Fit, Quiet, SameClaims
<1>3. /\ c.deposit = d.deposit - (PayFrom(d.deposit, n) + FeeFrom(d.deposit, n))
      /\ c.toBuyer = d.toBuyer /\ c.buyerBond = d.buyerBond /\ c.probeTick = d.probeTick
  BY <1>0, ChargeShares, SMTT(20) DEF Charged
<1>. HIDE DEF c
<1>4. f \in Deal /\ SameMoney(f, c)
  <2>1. c.tokensPaid + n \in Nat
    BY <1>0, <1>2, Counters, SMTT(20) DEF Counts
  <2>. QED BY <1>2, <2>1, PutNat, DealFields DEF SameMoney, SameFlows, SameEarmarks, HasFields,
                  TakesNat
<1>5. f.probeAccepted = c.probeAccepted
  BY <1>2 DEF Deal
<1>. HIDE DEF f
<1>6. ~e.opened /\ e.toBuyer = f.toBuyer + Refund(f)
  BY <1>1, <1>4, CloseCleanShares
<1>7. ASSUME IsSubscription(d) PROVE Refund(f) = Refund(d)
  <2>1. n = 0 /\ d.deposit \in Nat
    BY <1>0, <1>7, Money DEF Figures
  <2>2. CostOf(0) = 0
    BY PriceAssumption, VolumeAssumption, SMTT(20) DEF CostOf, ValueOf, Fee, PLATFORM_FEE_BPS, BPS_DENOMINATOR
  <2>. 0 \in Nat /\ CostOf(0) <= d.deposit
    BY <2>1, <2>2, SMTT(20)
  <2>3. PayFrom(d.deposit, 0) + FeeFrom(d.deposit, 0) = 0
    BY <2>1, <2>2, PayFromBounds
  <2>4. c.deposit = d.deposit
    BY <1>3, <2>1, <2>3, SMTT(20)
  <2>. QED BY <1>2, <1>3, <1>4, <1>5, <2>4 DEF Refund, SameMoney, SameEarmarks
<1>8. f.toBuyer = d.toBuyer
  BY <1>3, <1>4 DEF SameMoney, SameFlows
<1>. QED BY <1>6, <1>7, <1>8

\* Walking out of the trial returns the escrow and the bond.
LEMMA TrialShares ==
  ASSUME NEW d \in Deal
  PROVE  /\ StoppedOnProbe(d).toBuyer = d.toBuyer + (d.deposit + d.buyerBond)
         /\ ~StoppedOnProbe(d).opened
<1>. DEFINE m == Lesser(d.probeTick, d.sellerBond)
            f == ReleaseBuyerBond(d)
            c == [f EXCEPT !.sellerBond = 0, !.finalizedOwed = @ + (d.sellerBond - m),
                           !.probeTick = 0, !.deposit = 0, !.opened = FALSE]
            x == d.probeTick + m
            b == BurnShell(c, x)
            p == PayBuyer(b, f.deposit)
<1>0. StoppedOnProbe(d) = PayOwedAndDie(p)
  BY DEF StoppedOnProbe
<1>1. /\ Purse(d) /\ m \in Int /\ d.sellerBond - m \in Int /\ x \in Int
      /\ d.deposit \in Int /\ d.buyerBond \in Int
  BY DealPurse, Money, SMTT(20) DEF Lesser, Figures
<1>. HIDE DEF m, x
<1>2. Purse(f) /\ f.deposit = d.deposit + d.buyerBond /\ f.toBuyer = d.toBuyer
  BY <1>1, SMTT(20) DEF ReleaseBuyerBond, Purse, PurseFields
<1>. HIDE DEF f
<1>3. Purse(c) /\ c.toBuyer = f.toBuyer /\ ~c.opened
  BY <1>1, <1>2, SMTT(20) DEF Purse, PurseFields
<1>. HIDE DEF c
<1>4. Purse(b) /\ b.toBuyer = c.toBuyer /\ ~b.opened
  <2>1. Purse(b) /\ b.toBuyer = c.toBuyer /\ b.opened = c.opened
    BY <1>1, <1>3, PaymentPurse DEF PursePays
  <2>. HIDE DEF b
  <2>. QED BY <1>3, <2>1
<1>. HIDE DEF b
<1>5. Purse(p) /\ p.toBuyer = b.toBuyer + f.deposit /\ ~p.opened
  <2>1. f.deposit \in Int
    BY <1>2 DEF Purse
  <2>. QED BY <1>4, <2>1, PaymentPurse, SMTT(20) DEF PursePays
<1>. HIDE DEF p
<1>. QED BY <1>0, <1>2, <1>3, <1>4, <1>5, PayOwedPurse

\* stop() closes the stream and opens no dispute.
LEMMA StoppedShut ==
  ASSUME NEW d, Sound(d), NEW t \in Nat
  PROVE  ~Stopped(d, t).opened /\ Stopped(d, t).disputed = d.disputed
<1>. DEFINE p == PromoteDue(d, t)
            q == Promote(p)
            f == ForfeitBonds(q, PricePerTick, 0)
            s == IF IsSubscription(d) THEN p ELSE f
            c == ChargeWeeksThrough(s, WeeksStartedAt(d, t))
            e == PayFinalAndClose(c)
<1>0. d \in Deal /\ HasClaims(d)
  BY DealHasClaims DEF Sound, Fit
<1>1. Stopped(d, t) = StoppedOnProbe(d) \/ Stopped(d, t) = e
  BY DEF Stopped
<1>2. Quiet(StoppedOnProbe(d), d) /\ ~StoppedOnProbe(d).opened
  BY <1>0, TrialQuiet, TrialShares
<1>3. Sound(p) /\ HasClaims(p) /\ p.disputed = d.disputed
  BY <1>0, PromoteSame, SameMoneySound, PromoteKeeps
<1>. HIDE DEF p
<1>4. Sound(q) /\ HasClaims(q) /\ q.disputed = p.disputed
  BY <1>3, PromoteSame, SameMoneySound, PromoteKeeps DEF Sound, Fit
<1>. HIDE DEF q
<1>5. Sound(f) /\ Quiet(f, q)
  BY <1>4, ForfeitBondsSound, EarmarksQuiet, PricesNat DEF QuietEarmarks
<1>. HIDE DEF f
<1>6. Sound(s) /\ HasClaims(s) /\ s.disputed = d.disputed
  BY <1>3, <1>4, <1>5 DEF Quiet, SameClaims
<1>. HIDE DEF s
<1>7. Sound(c) /\ Quiet(c, s)
  BY <1>0, <1>6, ChargeWeeksSound, WeeksWithinTerm, WeeksQuiet
<1>. HIDE DEF c
<1>8. ~e.opened /\ Quiet(e, c)
  BY <1>7, PayFinalShares, CloseQuiet DEF Quiet
<1>. HIDE DEF e
<1>. QED BY <1>1, <1>2, <1>6, <1>7, <1>8 DEF Quiet, SameClaims

\* So does sellerStop().
LEMMA SellerStoppedShut ==
  ASSUME NEW d, Sound(d), NEW t \in Nat
  PROVE  ~SellerStopped(d, t).opened /\ SellerStopped(d, t).disputed = d.disputed
<1>. DEFINE a == IF d.probeAccepted THEN d ELSE ForfeitBonds(d, 0, PricePerTick)
            p == PromoteDue(a, t)
            v == [p EXCEPT !.tokensPend = p.tokensFinal]
            f == ForfeitBonds(v, 0, PricePerTick)
            s == IF d.probeAccepted /\ ~IsSubscription(d) THEN f ELSE p
            c == ChargeWeeksThrough(s, WeeksElapsedAt(d, t))
            e == PayFinalAndClose(c)
<1>0. d \in Deal /\ HasClaims(d)
  BY DealHasClaims DEF Sound, Fit
<1>1. SellerStopped(d, t) = e
  BY DEF SellerStopped
<1>2. Sound(a) /\ HasClaims(a) /\ a.disputed = d.disputed
  <2>. DEFINE g == ForfeitBonds(d, 0, PricePerTick)
  <2>1. Sound(g) /\ Quiet(g, d)
    BY <1>0, ForfeitBondsSound, PricesNat, EarmarksQuiet DEF QuietEarmarks
  <2>. HIDE DEF g
  <2>2. a = d \/ a = g
    BY DEF g
  <2>. HIDE DEF a
  <2>. QED BY <1>0, <2>1, <2>2 DEF Quiet, SameClaims
<1>. HIDE DEF a
<1>3. Sound(p) /\ HasClaims(p) /\ p.disputed = a.disputed
  BY <1>2, PromoteSame, SameMoneySound, PromoteKeeps DEF Sound, Fit
<1>. HIDE DEF p
<1>4. Sound(v) /\ HasClaims(v) /\ v.disputed = p.disputed
  <2>1. Sound(v)
    BY <1>3, DropSame, Counters, SameMoneySound, SMTT(20) DEF Sound, Fit, Counts
  <2>2. HasClaims(v) /\ v.disputed = p.disputed
    BY <1>3 DEF HasClaims, ClaimFields
  <2>. QED BY <2>1, <2>2
<1>. HIDE DEF v
<1>5. Sound(f) /\ Quiet(f, v)
  BY <1>4, ForfeitBondsSound, EarmarksQuiet, PricesNat DEF QuietEarmarks
<1>. HIDE DEF f
<1>6. Sound(s) /\ HasClaims(s) /\ s.disputed = d.disputed
  BY <1>2, <1>3, <1>4, <1>5 DEF Quiet, SameClaims
<1>. HIDE DEF s
<1>7. Sound(c) /\ Quiet(c, s)
  BY <1>0, <1>6, ChargeWeeksSound, WeeksWithinTerm, WeeksQuiet
<1>. HIDE DEF c
<1>8. ~e.opened /\ Quiet(e, c)
  BY <1>7, PayFinalShares, CloseQuiet DEF Quiet
<1>. HIDE DEF e
<1>. QED BY <1>1, <1>6, <1>7, <1>8 DEF Quiet, SameClaims

\* The sweep at the end of an account that is not streaming.
LEMMA SweepShut ==
  ASSUME NEW d, HasMarks(d), HasClaims(d)
  PROVE  /\ ~SweepAndDie(d).alive
         /\ SweepAndDie(d).opened = d.opened /\ SweepAndDie(d).disputed = d.disputed
<1>. DEFINE p == PaySeller(d, d.balance)
<1>1. SameMarks(p, d) /\ Quiet(p, d)
  BY MarksOfPayments, PaymentsQuiet
<1>. HIDE DEF p
<1>2. Die(p).opened = p.opened /\ Die(p).disputed = p.disputed
  BY <1>1 DEF Die, Quiet, HasClaims, ClaimFields, SameMarks, HasMarks, MarkFields
<1>. QED BY <1>1, <1>2, MarksOfPayments DEF SweepAndDie, SameMarks, Quiet, SameClaims, p

-----------------------------------------------------------------------------
(* The bonds of a live deal                                                *)

\* Every stored record has the fields.
LEMMA DealHasBonds == ASSUME NEW d \in Deal PROVE HasBonds(d)
BY SMTT(20) DEF Deal, HasBonds, BondFields

\* Steps that touch none of them.
LEMMA SameBondsSecure ==
  ASSUME NEW d, NEW e, SameBonds(e, d), d.alive, Bonded(d)
  PROVE  Secure(e)
BY DEF SameBonds, Bonded, Secure, IsSubscription

\* Listing and unlisting, a withdrawal that leaves the deal, judging a claim.
LEMMA StorageKept ==
  ASSUME NEW d, HasBonds(d)
  PROVE  /\ \A x : SameBonds([d EXCEPT !.offerPosted = x], d)
         /\ \A x : SameBonds([d EXCEPT !.noteAuthorized = TRUE, !.offerPosted = x], d)
         /\ \A x, y : SameBonds(PaySeller([d EXCEPT !.finalizedOwed = x], y), d)
         /\ \A t : SameBonds(PromoteDue(d, t), d)
<1>1. \A x : SameBonds([d EXCEPT !.offerPosted = x], d)
  BY DEF SameBonds, HasBonds, BondFields
<1>2. \A x : SameBonds([d EXCEPT !.noteAuthorized = TRUE, !.offerPosted = x], d)
  BY DEF SameBonds, HasBonds, BondFields
<1>3. \A x, y : SameBonds(PaySeller([d EXCEPT !.finalizedOwed = x], y), d)
  BY SMTT(20) DEF PaySeller, SameBonds, HasBonds, BondFields
<1>4. \A t : SameBonds(PromoteDue(d, t), d)
  BY DEF PromoteDue, Promote, SameBonds, HasBonds, BondFields
<1>. QED BY <1>1, <1>2, <1>3, <1>4

\* The fields of the stored record.
LEMMA BoundFacts ==
  ASSUME Bound
  PROVE  BoundDeal
BY StandingFacts, DealHasBonds, DealHasClaims, DealHasMarks DEF Bound, Standing, BoundDeal

\* Listing, unlisting, and the passing of time touch no bond.
LEMMA ListingSecure ==
  ASSUME Bound, postFromNote \/ onSellClosed \/ Tick
  PROVE  SameBonds(deal', deal)
<1>1. CASE postFromNote
  <2>. DEFINE x == deal.offerPosted \/ ~deal.funded
  <2>1. deal' = [deal EXCEPT !.noteAuthorized = TRUE, !.offerPosted = x]
    BY <1>1 DEF postFromNote
  <2>. HIDE DEF x
  <2>. QED BY <2>1, BoundFacts, StorageKept DEF BoundDeal
<1>2. CASE onSellClosed
  BY <1>2, BoundFacts, StorageKept DEF onSellClosed, BoundDeal
<1>3. CASE Tick
  BY <1>3, BoundFacts DEF Tick, SameBonds, BoundDeal
<1>. QED BY <1>1, <1>2, <1>3

\* A withdrawal touches no bond or sweeps a deal that is not streaming.
LEMMA WithdrawSecure ==
  ASSUME Bound, NEW x, withdrawShell(x)
  PROVE  SameBonds(deal', deal) \/ (~deal'.alive /\ ~deal'.opened /\ ~deal'.disputed)
<1>. DEFINE p == PaySeller([deal EXCEPT !.finalizedOwed = @ - x], x)
<1>1. SameBonds(p, deal) /\ HasMarks(p) /\ HasClaims(p)
  <2>1. SameBonds(p, deal)
    BY BoundFacts, StorageKept DEF BoundDeal
  <2>2. HasMarks(p) /\ HasClaims(p)
    BY BoundFacts DEF PaySeller, HasMarks, MarkFields, HasClaims, ClaimFields, BoundDeal
  <2>. QED BY <2>1, <2>2
<1>2. deal' = p \/ (deal' = SweepAndDie(p) /\ ~p.opened /\ ~p.disputed)
  BY DEF withdrawShell
<1>. HIDE DEF p
<1>. QED BY <1>1, <1>2, SweepShut

\* The seller's bond is taken whole, before the stream.
LEMMA SellerBondSecure ==
  ASSUME Bound, NEW x, fundDeal(x)
  PROVE  Bonded(deal') /\ deal'.alive
<1>. DEFINE e == [deal EXCEPT !.balance = @ + x, !.fromSeller = @ + x,
                              !.sellerBond = BondAmount, !.sellerBondFunded = TRUE]
<1>0. deal' = PaySeller(e, x - BondAmount)
  BY DEF fundDeal
<1>1. /\ HasBonds(e) /\ e.sellerBond = BondAmount /\ e.alive = deal.alive
      /\ e.sellerBondFunded = TRUE /\ e.opened = deal.opened /\ e.funded = deal.funded
      /\ e.probeAccepted = deal.probeAccepted /\ e.probeTick = deal.probeTick
      /\ e.buyerBond = deal.buyerBond /\ e.disputed = deal.disputed
      /\ e.subWeeks = deal.subWeeks
  BY BoundFacts DEF HasBonds, BondFields, BoundDeal
<1>. HIDE DEF e
<1>2. /\ deal'.sellerBond = e.sellerBond /\ deal'.alive = e.alive
      /\ deal'.sellerBondFunded = e.sellerBondFunded /\ deal'.opened = e.opened
      /\ deal'.funded = e.funded /\ deal'.probeAccepted = e.probeAccepted
      /\ deal'.probeTick = e.probeTick /\ deal'.buyerBond = e.buyerBond
      /\ deal'.disputed = e.disputed /\ deal'.subWeeks = e.subWeeks
  BY <1>0, <1>1 DEF PaySeller, HasBonds, BondFields
<1>3. ~deal.opened /\ ~deal.disputed
  BY BoundFacts DEF fundDeal, Phased, BoundDeal
<1>. QED BY <1>1, <1>2, <1>3, BoundFacts DEF Bonded, IsSubscription, BoundDeal

\* So is the buyer's.
LEMMA BuyerBondSecure ==
  ASSUME Bound, NEW b, NEW x, fundBuyerBond(b, x)
  PROVE  Bonded(deal') /\ deal'.alive
<1>. DEFINE e == [deal EXCEPT !.balance = @ + x, !.fromBuyer = @ + x,
                              !.buyerBond = BondAmount, !.buyerBondFunded = TRUE]
<1>0. deal' = PayBuyer(e, x - BondAmount)
  BY DEF fundBuyerBond
<1>1. /\ HasBonds(e) /\ e.sellerBond = deal.sellerBond /\ e.alive = deal.alive
      /\ e.sellerBondFunded = deal.sellerBondFunded /\ e.opened = deal.opened
      /\ e.probeAccepted = deal.probeAccepted /\ e.probeTick = deal.probeTick
      /\ e.buyerBond = BondAmount /\ e.disputed = deal.disputed
  BY BoundFacts DEF HasBonds, BondFields, BoundDeal
<1>. HIDE DEF e
<1>2. /\ deal'.sellerBond = e.sellerBond /\ deal'.alive = e.alive
      /\ deal'.sellerBondFunded = e.sellerBondFunded /\ deal'.opened = e.opened
      /\ deal'.probeAccepted = e.probeAccepted
      /\ deal'.probeTick = e.probeTick /\ deal'.buyerBond = e.buyerBond
      /\ deal'.disputed = e.disputed
  BY <1>0, <1>1 DEF PayBuyer, HasBonds, BondFields
<1>3. ~deal.opened /\ ~deal.disputed
  BY BoundFacts DEF fundBuyerBond, Phased, BoundDeal
<1>. QED BY <1>1, <1>2, <1>3, BoundFacts DEF Bonded, IsSubscription, BoundDeal

\* A handover is refused and leaves the bonds, or starts a deal that is not
\* streaming, with the buyer's bond of a subscription in.
LEMMA HandoverSecure ==
  ASSUME Bound, NEW b, NEW sub \in BOOLEAN, NEW ticks, fundFromOrderBook(b, sub, ticks)
  PROVE  SameBonds(deal', deal) \/ (Bonded(deal') /\ deal'.alive)
<1>. DEFINE bond == IF sub THEN BondAmount ELSE 0
            paid == ticks * UnitPrice + bond
            taken == [deal EXCEPT !.balance = @ + paid, !.fromBuyer = @ + paid,
                                  !.matches = @ + 1]
            escrow == paid - bond
            bonded == [taken EXCEPT !.buyerBond = bond, !.buyerBondFunded = @ \/ bond > 0]
            funded == RecordFunding(bonded, b, escrow, now)
            n == escrow \div UnitPrice
            shaped == RecordDealShape(funded, sub, n, now)
<1>1. SameBonds(taken, deal)
  BY BoundFacts DEF SameBonds, HasBonds, BondFields, BoundDeal
<1>2. deal' = PayBuyer(taken, paid) \/ (~deal.funded /\ deal' = shaped)
  BY DEF fundFromOrderBook, Handover
<1>3. sub \/ bond = 0
  OBVIOUS
<1>4. sub => bond = BondAmount
  OBVIOUS
<1>. HIDE DEF taken, paid, bond, escrow
<1>5. SameBonds(PayBuyer(taken, paid), deal)
  <2>1. SameBonds(PayBuyer(taken, paid), taken)
    BY <1>1 DEF PayBuyer, SameBonds, HasBonds, BondFields
  <2>. QED BY <1>1, <2>1 DEF SameBonds
<1>6. /\ HasBonds(bonded) /\ bonded.alive = taken.alive /\ bonded.opened = taken.opened
      /\ bonded.disputed = taken.disputed /\ bonded.sellerBond = taken.sellerBond
      /\ bonded.sellerBondFunded = taken.sellerBondFunded /\ bonded.buyerBond = bond
  BY <1>1 DEF SameBonds, HasBonds, BondFields
<1>. HIDE DEF bonded
<1>7. /\ HasBonds(funded) /\ funded.alive = bonded.alive /\ funded.opened = bonded.opened
      /\ funded.disputed = bonded.disputed /\ funded.sellerBond = bonded.sellerBond
      /\ funded.sellerBondFunded = bonded.sellerBondFunded
      /\ funded.buyerBond = bonded.buyerBond
  BY <1>6 DEF RecordFunding, HasBonds, BondFields
<1>. HIDE DEF funded, n
<1>8. /\ shaped.alive = funded.alive /\ shaped.opened = funded.opened
      /\ shaped.disputed = funded.disputed /\ shaped.sellerBond = funded.sellerBond
      /\ shaped.sellerBondFunded = funded.sellerBondFunded
      /\ shaped.buyerBond = funded.buyerBond
      /\ shaped.subWeeks = IF sub THEN SUB_WEEKS ELSE 0
  BY <1>7 DEF RecordDealShape, HasBonds, BondFields
<1>. HIDE DEF shaped
<1>9. ~deal.funded => ~deal.opened /\ ~deal.disputed
  BY BoundFacts DEF Phased, BoundDeal
<1>10. ~deal.funded => Bonded(shaped) /\ shaped.alive
  BY <1>1, <1>3, <1>4, <1>6, <1>7, <1>8, <1>9, BoundFacts
     DEF Bonded, IsSubscription, SameBonds, BoundDeal
<1>. QED BY <1>2, <1>5, <1>10

\* The stream opens on the seller's bond, with one tick in the probe.
LEMMA OpenSecure ==
  ASSUME Bound, open
  PROVE  Bonded(deal') /\ deal'.alive
<1>1. /\ deal'.alive = deal.alive /\ deal'.opened = TRUE /\ deal'.funded = deal.funded
      /\ deal'.disputed = deal.disputed /\ deal'.probeTick = PricePerTick
      /\ deal'.sellerBondFunded = deal.sellerBondFunded /\ deal'.sellerBond = deal.sellerBond
      /\ deal'.buyerBond = deal.buyerBond /\ deal'.subWeeks = deal.subWeeks
  BY BoundFacts DEF open, HasBonds, BondFields, BoundDeal
<1>2. deal.sellerBondFunded /\ ~deal.disputed
  BY BoundFacts DEF open, Phased, BoundDeal
<1>. QED BY <1>1, <1>2, BoundFacts DEF Bonded, IsSubscription, BoundDeal

\* Accepting the probe touches no bond.
LEMMA AcceptSecure ==
  ASSUME Bound, acceptProbe
  PROVE  Bonded(deal') /\ deal'.alive
<1>1. /\ deal'.alive = deal.alive /\ deal'.opened = deal.opened /\ deal'.funded = deal.funded
      /\ deal'.disputed = deal.disputed /\ deal'.probeAccepted = TRUE
      /\ deal'.sellerBondFunded = deal.sellerBondFunded /\ deal'.sellerBond = deal.sellerBond
      /\ deal'.buyerBond = deal.buyerBond /\ deal'.subWeeks = deal.subWeeks
  BY BoundFacts DEF acceptProbe, HasBonds, BondFields, BoundDeal
<1>2. ~deal.disputed
  BY DEF acceptProbe
<1>. QED BY <1>1, <1>2, BoundFacts DEF Bonded, IsSubscription, BoundDeal

\* Booking the weeks that are due touches no bond.
LEMMA SettledSecure ==
  ASSUME Bound, ~deal.disputed, NEW s, s = SettleBoundaries(deal, WeeksElapsedAt(deal, now))
  PROVE  Sound(s) /\ HasBonds(s) /\ Quiet(s, deal) /\ Holds(s, deal) /\ s.alive /\ Bonded(s)
<1>1. WeeksElapsedAt(deal, now) \in Int /\ WeeksElapsedAt(deal, now) <= SUB_WEEKS
  BY BoundFacts, WeeksWithinTerm DEF BoundDeal
<1>2. Sound(s)
  BY <1>1, BoundFacts, SettleBoundariesSound DEF BoundDeal
<1>3. Quiet(s, deal) /\ Holds(s, deal)
  BY BoundFacts, DealHasHeld, WeeksQuiet, WeeksHold DEF BoundDeal
<1>4. HasBonds(s)
  BY <1>2, DealHasBonds DEF Sound, Fit
<1>5. s.alive /\ Bonded(s)
  BY <1>3, BoundFacts DEF Quiet, SameClaims, Holds, SameHeld, Bonded, IsSubscription, BoundDeal
<1>. QED BY <1>2, <1>3, <1>4, <1>5

\* Nor does a claim.
LEMMA ClaimSecure ==
  ASSUME Bound, NEW n \in Nat, claimTokens(n)
  PROVE  Secure(deal')
<1>. DEFINE s == SettleBoundaries(deal, WeeksElapsedAt(deal, now))
            p == PromoteDue(s, now)
            e == [p EXCEPT !.tokensPend = n, !.lastClaimTime = now]
<1>1. ~deal.disputed /\ deal' = e
  BY DEF claimTokens
<1>2. HasBonds(s) /\ s.alive /\ Bonded(s)
  BY <1>1, SettledSecure
<1>. HIDE DEF s
<1>3. SameBonds(p, s)
  BY <1>2, StorageKept
<1>. HIDE DEF p
<1>4. SameBonds(e, p)
  BY <1>3 DEF SameBonds, HasBonds, BondFields
<1>. HIDE DEF e
<1>5. SameBonds(e, s)
  BY <1>3, <1>4 DEF SameBonds
<1>. QED BY <1>1, <1>2, <1>5, SameBondsSecure

\* finalize() touches no bond or closes the deal.
LEMMA FinalizeSecure ==
  ASSUME Bound, finalize
  PROVE  SameBonds(deal', deal) \/ (~deal'.alive /\ ~deal'.opened /\ ~deal'.disputed)
<1>. DEFINE p == PromoteDue(deal, now)
            e == PayFinalAndClose(p)
<1>1. ~deal.disputed /\ (deal' = p \/ deal' = e)
  BY DEF finalize, FinalizeDue
<1>2. SameBonds(p, deal) /\ HasClaims(p) /\ p.disputed = deal.disputed /\ Sound(p)
  BY BoundFacts, StorageKept, PromoteKeeps, PromoteSame, SameMoneySound DEF BoundDeal
<1>. HIDE DEF p
<1>3. Over(e) /\ ~e.opened /\ Quiet(e, p)
  BY <1>2, PayFinalEnds, PayFinalShares, CloseQuiet
<1>. HIDE DEF e
<1>. QED BY <1>1, <1>2, <1>3 DEF Over, Quiet, SameClaims

\* settleWeek() touches no bond or closes the deal.
LEMMA WeekSecure ==
  ASSUME Bound, settleWeek
  PROVE  Secure(deal')
<1>. DEFINE s == SettleBoundaries(deal, WeeksElapsedAt(deal, now))
            p == PromoteDue(s, now)
            e == PayFinalAndClose(p)
<1>1. ~deal.disputed /\ (deal' = s \/ deal' = e)
  BY DEF settleWeek, WeekDue, WeekSettled
<1>2. Sound(s) /\ HasBonds(s) /\ Quiet(s, deal) /\ s.alive /\ Bonded(s)
  BY <1>1, SettledSecure
<1>. HIDE DEF s
<1>3. HasClaims(p) /\ p.disputed = s.disputed /\ Sound(p)
  BY <1>2, BoundFacts, PromoteKeeps, PromoteSame, SameMoneySound DEF Quiet, Sound, Fit,
         BoundDeal
<1>. HIDE DEF p
<1>4. Over(e) /\ ~e.opened /\ Quiet(e, p)
  BY <1>3, PayFinalEnds, PayFinalShares, CloseQuiet
<1>. HIDE DEF e
<1>. QED BY <1>1, <1>2, <1>3, <1>4 DEF Over, Quiet, SameClaims, Secure

\* Both resolutions of a dispute close the stream.
LEMMA ResolvedShut ==
  ASSUME NEW d, Sound(d)
  PROVE  ~Released(d).opened /\ ~TimedOut(d).opened
<1>. DEFINE c == ChargeWeeksThrough(d, WeeksElapsedAt(d, d.disputeTime))
            v == Voided(d)
            x == Lesser(CostOf(Greater(d.tokensPend - d.tokensFinal, 0)), d.deposit)
            e == BurnShell([v EXCEPT !.deposit = @ - x], x)
<1>0. d \in Deal /\ PricePerTick \in Nat /\ 2 * PricePerTick \in Nat
  BY PricesNat, SMTT(20) DEF Sound, Fit
<1>1. /\ Released(d) = SettleTrustedAndClose(v, DisputeStake(v), 0)
           \/ Released(d) = SettleTrustedAndClose(v, PricePerTick, PricePerTick)
      /\ TimedOut(d) = SettleTrustedAndClose(v, DisputeStake(c), DisputeStake(c))
           \/ /\ ~IsSubscription(d)
              /\ TimedOut(d) = SettleTrustedAndClose(e, 2 * PricePerTick, 2 * PricePerTick)
  BY DEF Released, TimedOut, Voided
<1>2. ~IsSubscription(d) => c = d
  BY DEF ChargeWeeksThrough
<1>3. Sound(c) /\ Sound(v) /\ v.deposit = c.deposit /\ c \in Deal /\ v \in Deal
  BY VoidedHolds DEF Sound, Fit, VoidedFrom
<1>. HIDE DEF c, v
<1>4. x \in Nat /\ x <= d.deposit
  <2>1. Greater(d.tokensPend - d.tokensFinal, 0) \in Nat
    BY <1>0, Counters, SMTT(20) DEF Greater, Counts
  <2>. QED BY <1>0, <2>1, CostNat, Money, SMTT(20) DEF Lesser, Figures
<1>. HIDE DEF x
<1>5. ~IsSubscription(d) => Sound(e)
  BY <1>2, <1>3, <1>4, PendingBurned DEF BurnedFrom
<1>. HIDE DEF e
<1>6. DisputeStake(v) \in Nat /\ DisputeStake(c) \in Nat
  BY <1>3, StakeNat
<1>7. ASSUME NEW w, Sound(w), NEW k \in Nat, NEW m \in Nat
      PROVE  ~SettleTrustedAndClose(w, k, m).opened
  BY <1>7, TrustedShares DEF TrustedEnd
<1>. QED BY <1>0, <1>1, <1>3, <1>5, <1>6, <1>7

\* The exits end the deal with its stream and its dispute.
LEMMA ExitSecure ==
  ASSUME Bound, stop \/ sellerStop \/ releaseDispute \/ resolveDisputeTimeout
  PROVE  ~deal'.alive /\ ~deal'.opened /\ ~deal'.disputed
<1>1. CASE stop
  <2>1. deal' = Stopped(deal, now) /\ ~deal.disputed
    BY <1>1 DEF stop
  <2>. QED BY <2>1, BoundFacts, StoppedEnds, StoppedShut DEF Over, BoundDeal
<1>2. CASE sellerStop
  <2>1. deal' = SellerStopped(deal, now) /\ ~deal.disputed
    BY <1>2 DEF sellerStop
  <2>. QED BY <2>1, BoundFacts, SellerStoppedEnds, SellerStoppedShut DEF Over, BoundDeal
<1>3. CASE releaseDispute
  <2>1. deal' = Released(deal)
    BY <1>3 DEF releaseDispute
  <2>2. Over(Released(deal)) /\ ~Released(deal).disputed
    BY BoundFacts, ReleasedEnds, ResolvedJudges DEF BoundDeal
  <2>. QED BY <2>1, <2>2, BoundFacts, ResolvedShut DEF Over, BoundDeal
<1>4. CASE resolveDisputeTimeout
  <2>1. deal' = TimedOut(deal)
    BY <1>4 DEF resolveDisputeTimeout
  <2>2. Over(TimedOut(deal)) /\ ~TimedOut(deal).disputed
    BY BoundFacts, TimedOutEnds, ResolvedJudges DEF BoundDeal
  <2>. QED BY <2>1, <2>2, BoundFacts, ResolvedShut DEF Over, BoundDeal
<1>. QED BY <1>1, <1>2, <1>3, <1>4

\* A dispute is raised after the weeks it finds booked have ended.
LEMMA DisputeSecure ==
  ASSUME Bound, dispute
  PROVE  Bonded(deal') /\ deal'.alive
<1>1. /\ deal'.alive = deal.alive /\ deal'.opened = deal.opened /\ deal'.funded = deal.funded
      /\ deal'.probeAccepted = deal.probeAccepted /\ deal'.probeTick = deal.probeTick
      /\ deal'.sellerBondFunded = deal.sellerBondFunded /\ deal'.sellerBond = deal.sellerBond
      /\ deal'.buyerBond = deal.buyerBond /\ deal'.subWeeks = deal.subWeeks
      /\ deal'.weekIndex = deal.weekIndex /\ deal'.periodStart = deal.periodStart
      /\ deal'.disputeTime = now
  BY BoundFacts DEF dispute, HasBonds, BondFields, BoundDeal
<1>. QED BY <1>1, BoundFacts DEF Bonded, Booked, IsSubscription, BoundDeal

\* Unwinding a match that never opened takes both bonds out and leaves no match.
LEMMA CleanupSecure ==
  ASSUME Bound, NEW byBuyer, cleanupUnopened(byBuyer)
  PROVE  Bonded(deal') /\ deal'.alive /\ ~deal'.funded
<1>. DEFINE f == ReleaseBuyerBond(deal)
            e == [f EXCEPT !.deposit = 0, !.sellerBond = 0, !.funded = FALSE,
                           !.sellerBondFunded = FALSE, !.buyerBondFunded = FALSE,
                           !.offerPosted = FALSE]
            p == PayBuyer(e, f.deposit)
            q == PaySeller(p, f.sellerBond)
<1>1. deal' = BurnShell(q, q.balance) /\ ~deal.opened
  BY DEF cleanupUnopened, CleanupAllowed, Unwound
<1>2. HasBonds(f) /\ f.alive = deal.alive
  BY BoundFacts DEF ReleaseBuyerBond, HasBonds, BondFields, BoundDeal
<1>. HIDE DEF f
<1>3. HasBonds(e) /\ e.alive = f.alive /\ e.funded = FALSE /\ e.sellerBondFunded = FALSE
  BY <1>2 DEF HasBonds, BondFields
<1>. HIDE DEF e
<1>4. SameBonds(p, e)
  BY <1>3 DEF PayBuyer, SameBonds, HasBonds, BondFields
<1>. HIDE DEF p
<1>5. SameBonds(q, p)
  BY <1>4 DEF PaySeller, SameBonds, HasBonds, BondFields
<1>. HIDE DEF q
<1>6. SameBonds(deal', q)
  BY <1>1, <1>5 DEF BurnShell, SameBonds, HasBonds, BondFields
<1>7. deal'.alive = deal.alive /\ deal'.funded = FALSE /\ deal'.sellerBondFunded = FALSE
  BY <1>2, <1>3, <1>4, <1>5, <1>6 DEF SameBonds
<1>8. deal'.opened = deal.opened /\ deal'.disputed = deal.disputed
  BY BoundFacts, UnwoundQuiet DEF cleanupUnopened, Quiet, SameClaims, SameMarks, BoundDeal
<1>9. ~deal.disputed
  BY <1>1, BoundFacts DEF Phased, BoundDeal
<1>. QED BY <1>1, <1>7, <1>8, <1>9, BoundFacts DEF Bonded, BoundDeal

\* A removed offer neither streams nor is disputed.
LEMMA RemovalSecure ==
  ASSUME Bound, close \/ destroy
  PROVE  ~deal'.alive /\ ~deal'.opened /\ ~deal'.disputed
<1>1. ~deal.opened /\ ~deal.disputed
  BY BoundFacts DEF close, destroy, Phased, BoundDeal
<1>. QED BY <1>1, BoundFacts, RemovalQuiet DEF Quiet, SameClaims, SameMarks, BoundDeal

\* Every entry leaves a live deal bonded and a dead one closed.
LEMMA EntrySecure ==
  ASSUME Bound, Next
  PROVE  Secure(deal')
<1>1. SUFFICES \/ SameBonds(deal', deal)
               \/ Bonded(deal') /\ deal'.alive
               \/ ~deal'.alive /\ ~deal'.opened /\ ~deal'.disputed
               \/ Secure(deal')
  BY BoundFacts, SameBondsSecure DEF Secure, BoundDeal
<1>2. CASE postFromNote \/ onSellClosed \/ Tick
  BY <1>2, ListingSecure
<1>3. CASE \E b \in Buyers, sub \in SubscriptionDeals, ticks \in HandoverTicks :
             fundFromOrderBook(b, sub, ticks)
  BY <1>3, HandoverSecure, InputAssumption
<1>4. CASE \E amount \in BondAmounts : fundDeal(amount)
  BY <1>4, SellerBondSecure
<1>5. CASE \E b \in Buyers, amount \in BondAmounts : fundBuyerBond(b, amount)
  BY <1>5, BuyerBondSecure
<1>6. CASE open
  BY <1>6, OpenSecure
<1>7. CASE acceptProbe
  BY <1>7, AcceptSecure
<1>8. CASE \E tokens \in 1 .. deal.fundedTokens : claimTokens(tokens)
  BY <1>8, ClaimSecure, SMTT(20)
<1>9. CASE finalize
  BY <1>9, FinalizeSecure
<1>10. CASE settleWeek
  BY <1>10, WeekSecure
<1>11. CASE stop \/ sellerStop \/ releaseDispute \/ resolveDisputeTimeout
  BY <1>11, ExitSecure
<1>12. CASE dispute
  BY <1>12, DisputeSecure
<1>13. CASE \E byBuyer \in BOOLEAN : cleanupUnopened(byBuyer)
  BY <1>13, CleanupSecure
<1>14. CASE \E amount \in WithdrawAmounts : withdrawShell(amount)
  BY <1>14, WithdrawSecure
<1>15. CASE close \/ destroy
  BY <1>15, RemovalSecure
<1>. QED BY <1>2, <1>3, <1>4, <1>5, <1>6, <1>7, <1>8, <1>9, <1>10, <1>11, <1>12, <1>13,
            <1>14, <1>15 DEF Next

-----------------------------------------------------------------------------
(* The invariant and the theorems                                          *)

\* The constructor's storage satisfies the invariant.
LEMMA BondInit == Init => BondInv
<1>. SUFFICES ASSUME Init PROVE BondInv
  OBVIOUS
<1>1. /\ deal.alive /\ ~deal.opened /\ ~deal.disputed /\ ~deal.funded
      /\ ~deal.sellerBondFunded
  BY DEF Init, NewDeal
<1>. QED BY <1>1, ClaimInit DEF BondInv, Secure, Bonded

\* Every entry requires a live account.
LEMMA NextAlive == Next => deal.alive
BY DEF Next, postFromNote, onSellClosed, fundFromOrderBook, fundDeal, fundBuyerBond, close,
     open, acceptProbe, claimTokens, finalize, settleWeek, stop, sellerStop, dispute,
     releaseDispute, Tick, resolveDisputeTimeout, cleanupUnopened, withdrawShell, destroy,
     FinalizeDue, WeekDue, DisputeExpired, CleanupAllowed

\* What the invariant says of a live deal.
LEMMA BondBound == ASSUME BondInv, deal.alive PROVE Bound
<1>1. Sound(deal) /\ now \in Nat
  BY Money, SMTT(20) DEF BondInv, ClaimInv, PhaseInv, MoneyInv, TypeOK, Sound, Fit, Since,
         Figures
<1>. QED BY <1>1 DEF Standing, ClaimInv, PhaseInv, Bound, BondInv, Secure

\* Every step keeps it.
LEMMA BondStep == BondInv /\ [Next]_vars => BondInv'
<1>. SUFFICES ASSUME BondInv, [Next]_vars PROVE BondInv'
  OBVIOUS
<1>1. ClaimInv'
  BY ClaimStep DEF BondInv
<1>2. CASE UNCHANGED vars
  BY <1>1, <1>2 DEF vars, BondInv
<1>3. CASE Next
  BY <1>1, <1>3, NextAlive, BondBound, EntrySecure DEF BondInv
<1>. QED BY <1>2, <1>3

\* In every reachable state a deal that streams holds the seller's whole bond, a
\* subscription the buyer's, and a trial its frozen tick.
THEOREM BondsAlways == Spec => []BondInv
BY BondInit, BondStep, PTL DEF Spec

\* Whatever the price, the tick, the windows and the history of the deal, agreeing
\* is the seller's cheaper branch: releaseDispute leaves them strictly more than
\* resolveDisputeTimeout would.
THEOREM ConcedingPays == Spec => []ConcedingIsCheaper
<1>1. BondInv => ConcedingIsCheaper
  <2>. SUFFICES ASSUME BondInv, deal.disputed
                PROVE  Released(deal).toSeller > TimedOut(deal).toSeller
    BY DEF ConcedingIsCheaper
  <2>1. Bound
    BY BondBound DEF BondInv, Secure
  <2>2. Sound(deal) /\ Bonded(deal) /\ deal.opened /\ deal.funded
    BY <2>1, BoundFacts DEF Phased, BoundDeal
  <2>. QED BY <2>2, SubscriptionConcedes, OrdinaryConcedes
<1>. QED BY <1>1, BondsAlways, PTL
=============================================================================
