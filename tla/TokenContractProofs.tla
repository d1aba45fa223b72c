------------------------- MODULE TokenContractProofs ------------------------
(***************************************************************************)
(* The money of a deal and the promise it keeps, for every price, volume,  *)
(* rate, window and input set: the figures never leave their unsigned      *)
(* range, a live deal covers its earmarks, nothing is minted or lost, and  *)
(* every step is one the rest of the market was promised.                  *)
(*                                                                         *)
(* Every helper of the contract maps a sound record to a sound record, or, *)
(* when it is a terminal, to a record that is over; the proof of a public  *)
(* entry composes those lemmas in the order the code makes the calls.      *)
(*                                                                         *)
(* A leaf is Zenon's unless it names another prover.                       *)
(***************************************************************************)
EXTENDS DealRelations, TLAPS

USE Zenon

-----------------------------------------------------------------------------
(* Ranges                                                                  *)

\* The money figures of a record are natural numbers.
LEMMA Money ==
  ASSUME NEW d \in Deal
  PROVE  Figures(d)
BY DEF Deal, Figures

\* So are the counters; a week index stays within the term.
LEMMA Counters ==
  ASSUME NEW d \in Deal
  PROVE  Counts(d)
BY DEF Deal, Counts

\* A record has every field.
LEMMA DealFields ==
  ASSUME NEW d \in Deal
  PROVE  HasFields(d)
BY SMT DEF Deal, HasFields

\* A figure or a counter may be replaced by any other.
LEMMA PutNat ==
  ASSUME NEW d \in Deal, NEW x \in Nat
  PROVE  TakesNat(d, x)
<1>1. /\ [d EXCEPT !.matches = x] \in Deal /\ [d EXCEPT !.fromBuyer = x] \in Deal
      /\ [d EXCEPT !.fromSeller = x] \in Deal /\ [d EXCEPT !.toBuyer = x] \in Deal
      /\ [d EXCEPT !.toSeller = x] \in Deal /\ [d EXCEPT !.burned = x] \in Deal
      /\ [d EXCEPT !.reported = x] \in Deal /\ [d EXCEPT !.probeTick = x] \in Deal
      /\ [d EXCEPT !.probeTime = x] \in Deal
  BY SMTT(20) DEF Deal
<1>2. /\ [d EXCEPT !.sellerBond = x] \in Deal /\ [d EXCEPT !.buyerBond = x] \in Deal
      /\ [d EXCEPT !.balance = x] \in Deal /\ [d EXCEPT !.deposit = x] \in Deal
      /\ [d EXCEPT !.finalizedOwed = x] \in Deal
      /\ [d EXCEPT !.feeAccrued = x] \in Deal
      /\ [d EXCEPT !.ticksFinalized = x] \in Deal
      /\ [d EXCEPT !.fundedTime = x] \in Deal /\ [d EXCEPT !.disputeTime = x] \in Deal
  BY SMT DEF Deal
<1>3. /\ [d EXCEPT !.tokensPerWeek = x] \in Deal
      /\ [d EXCEPT !.fundedTokens = x] \in Deal /\ [d EXCEPT !.tokensPaid = x] \in Deal
      /\ [d EXCEPT !.periodStart = x] \in Deal
      /\ [d EXCEPT !.weekBaseTokens = x] \in Deal
      /\ [d EXCEPT !.tokensFinal = x] \in Deal /\ [d EXCEPT !.tokensPend = x] \in Deal
      /\ [d EXCEPT !.lastClaimTime = x] \in Deal
  BY SMT DEF Deal
<1>. QED BY <1>1, <1>2, <1>3 DEF TakesNat

\* So may a flag.
LEMMA PutFlag ==
  ASSUME NEW d \in Deal, NEW x \in Flag
  PROVE  TakesFlag(d, x)
BY SMT DEF Deal, TakesFlag

\* So may the buyer, the term and the week, within their ranges.
LEMMA PutTerm ==
  ASSUME NEW d \in Deal
  PROVE  /\ \A x \in Buyers \cup {NoBuyer} : [d EXCEPT !.buyer = x] \in Deal
         /\ \A x \in {0, SUB_WEEKS} : [d EXCEPT !.subWeeks = x] \in Deal
         /\ \A x \in 0 .. SUB_WEEKS : [d EXCEPT !.weekIndex = x] \in Deal
BY SMT DEF Deal

\* Both truth values are flags.
LEMMA Flags == TRUE \in Flag /\ FALSE \in Flag
BY DEF Flag

\* The fee of an amount is a natural number (_fee rounds down).
LEMMA FeeNat == ASSUME NEW x \in Nat PROVE Fee(x) \in Nat
BY SMT DEF Fee, PLATFORM_FEE_BPS, BPS_DENOMINATOR

\* The price of a count of tokens is a natural number (_valueOf rounds down).
LEMMA ValueNat == ASSUME NEW n \in Nat PROVE ValueOf(n) \in Nat
<1>. DEFINE p == n * PricePerTick
<1>1. p \in Nat
  BY PriceAssumption, SMT
<1>2. p \div TickSize \in Nat
  <2>. HIDE DEF p
  <2>. QED BY <1>1, VolumeAssumption, SMT
<1>. QED BY <1>2 DEF ValueOf

\* So is the price with its fee.
LEMMA CostNat == ASSUME NEW n \in Nat PROVE CostOf(n) \in Nat
BY ValueNat, FeeNat, SMT DEF CostOf

\* The rebate of a count of ticks is a natural number.
LEMMA RebateNat == ASSUME NEW n \in Nat PROVE Rebate(n) \in Nat
<1>. DEFINE r == Lesser(REBATE_SLOPE_BPS * n, REBATE_MAX_BPS)
            p == r * n * PricePerTick
<1>1. r \in Nat
  BY SMT DEF Lesser, REBATE_SLOPE_BPS, REBATE_MAX_BPS
<1>2. p \in Nat
  <2>. HIDE DEF r
  <2>1. r * n \in Nat
    BY <1>1, SMT
  <2>. QED BY <2>1, PriceAssumption, SMT
<1>3. p \div BPS_DENOMINATOR \in Nat
  <2>. HIDE DEF p
  <2>. QED BY <1>2, SMT DEF BPS_DENOMINATOR
<1>. QED BY <1>3 DEF Rebate

\* A bond is two ticks, a unit of escrow a tick and its fee; both are positive.
LEMMA PricesNat == BondAmount \in Nat /\ UnitPrice \in Nat /\ PricePerTick \in Nat /\ UnitPrice > 0
BY PriceAssumption, FeeNat, SMT DEF BondAmount, UnitPrice

\* A record with the same money is as fit.
LEMMA SameMoneyFit ==
  ASSUME NEW d, NEW e \in Deal, Fit(d), SameMoney(e, d)
  PROVE  Fit(e) /\ Slack(e) = Slack(d) /\ e.everOpened = d.everOpened
BY Money DEF Fit, SameMoney, SameFlows, SameEarmarks, Slack, Balanced, Earmarked, Figures

\* Unmoved flows are no payment.
LEMMA SameFlowsSince ==
  ASSUME NEW d, NEW e, Since(d), SameFlows(e, d)
  PROVE  Since(e)
BY DEF Since, SameFlows

\* And it is as sound.
LEMMA SameMoneySound ==
  ASSUME NEW d, NEW e \in Deal, Sound(d), SameMoney(e, d)
  PROVE  Sound(e) /\ Slack(e) = Slack(d) /\ e.everOpened = d.everOpened
BY SameMoneyFit, SameFlowsSince DEF Sound, Fit, SameMoney

-----------------------------------------------------------------------------
(* Money leaving the record                                                *)

\* A payment to the buyer keeps the earmarks and takes its figure from the balance.
LEMMA PayBuyerMoves ==
  ASSUME NEW d \in Deal, Balanced(d), NEW x \in Nat, x <= d.balance
  PROVE  Pays(PayBuyer(d, x), d, x)
<1>1. d.balance - x \in Nat /\ d.toBuyer + x \in Nat
  BY Money, SMT DEF Figures
<1>2. PayBuyer(d, x) \in Deal
  BY <1>1, PutNat, PutFlag DEF PayBuyer, TakesNat, TakesFlag
<1>3. /\ PayBuyer(d, x).balance = d.balance - x
      /\ PayBuyer(d, x).toBuyer = d.toBuyer + x
      /\ PayBuyer(d, x).toSeller = d.toSeller /\ PayBuyer(d, x).burned = d.burned
      /\ PayBuyer(d, x).fromBuyer = d.fromBuyer /\ PayBuyer(d, x).fromSeller = d.fromSeller
      /\ SameEarmarks(PayBuyer(d, x), d) /\ PayBuyer(d, x).alive = d.alive
      /\ PayBuyer(d, x).everOpened = d.everOpened /\ PayBuyer(d, x).opened = d.opened
  BY DealFields DEF PayBuyer, SameEarmarks, HasFields
<1>4. Balanced(PayBuyer(d, x))
  BY <1>3, Money, SMT DEF Balanced, Figures
<1>5. Since(d) => Since(PayBuyer(d, x))
  BY <1>3, Money, SMT DEF Since, Figures
<1>. QED BY <1>2, <1>3, <1>4, <1>5 DEF Pays

\* A payment to the seller keeps the earmarks and takes its figure from the balance.
LEMMA PaySellerMoves ==
  ASSUME NEW d \in Deal, Balanced(d), NEW x \in Nat, x <= d.balance
  PROVE  Pays(PaySeller(d, x), d, x)
<1>1. d.balance - x \in Nat /\ d.toSeller + x \in Nat
  BY Money, SMT DEF Figures
<1>2. PaySeller(d, x) \in Deal
  BY <1>1, PutNat, PutFlag DEF PaySeller, TakesNat, TakesFlag
<1>3. /\ PaySeller(d, x).balance = d.balance - x
      /\ PaySeller(d, x).toSeller = d.toSeller + x
      /\ PaySeller(d, x).toBuyer = d.toBuyer /\ PaySeller(d, x).burned = d.burned
      /\ PaySeller(d, x).fromBuyer = d.fromBuyer /\ PaySeller(d, x).fromSeller = d.fromSeller
      /\ SameEarmarks(PaySeller(d, x), d) /\ PaySeller(d, x).alive = d.alive
      /\ PaySeller(d, x).everOpened = d.everOpened /\ PaySeller(d, x).opened = d.opened
  BY DealFields DEF PaySeller, SameEarmarks, HasFields
<1>4. Balanced(PaySeller(d, x))
  BY <1>3, Money, SMT DEF Balanced, Figures
<1>5. Since(d) => Since(PaySeller(d, x))
  BY <1>3, Money, SMT DEF Since, Figures
<1>. QED BY <1>2, <1>3, <1>4, <1>5 DEF Pays

\* A burn keeps the earmarks and takes its figure from the balance.
LEMMA BurnShellMoves ==
  ASSUME NEW d \in Deal, Balanced(d), NEW x \in Nat, x <= d.balance
  PROVE  Pays(BurnShell(d, x), d, x)
<1>1. d.balance - x \in Nat /\ d.burned + x \in Nat
  BY Money, SMT DEF Figures
<1>2. BurnShell(d, x) \in Deal
  BY <1>1, PutNat, PutFlag DEF BurnShell, TakesNat, TakesFlag
<1>3. /\ BurnShell(d, x).balance = d.balance - x
      /\ BurnShell(d, x).burned = d.burned + x
      /\ BurnShell(d, x).toBuyer = d.toBuyer /\ BurnShell(d, x).toSeller = d.toSeller
      /\ BurnShell(d, x).fromBuyer = d.fromBuyer /\ BurnShell(d, x).fromSeller = d.fromSeller
      /\ SameEarmarks(BurnShell(d, x), d) /\ BurnShell(d, x).alive = d.alive
      /\ BurnShell(d, x).everOpened = d.everOpened /\ BurnShell(d, x).opened = d.opened
  BY DealFields DEF BurnShell, SameEarmarks, HasFields
<1>4. Balanced(BurnShell(d, x))
  BY <1>3, Money, SMT DEF Balanced, Figures
<1>5. Since(d) => Since(BurnShell(d, x))
  BY <1>3, Money, SMT DEF Since, Figures
<1>. QED BY <1>2, <1>3, <1>4, <1>5 DEF Pays

\* A payment or a burn out of the slack leaves a fit record.
LEMMA PaidFit ==
  ASSUME NEW d, Fit(d), NEW x \in Nat, x <= Slack(d)
  PROVE  /\ Fit(PayBuyer(d, x)) /\ Slack(PayBuyer(d, x)) = Slack(d) - x
         /\ Fit(PaySeller(d, x)) /\ Slack(PaySeller(d, x)) = Slack(d) - x
         /\ Fit(BurnShell(d, x)) /\ Slack(BurnShell(d, x)) = Slack(d) - x
         /\ x <= d.balance
<1>1. d \in Deal /\ Balanced(d)
  BY DEF Fit
<1>2. x <= d.balance
  BY <1>1, Money, SMT DEF Slack, Earmarked, Figures
<1>3. ASSUME NEW e \in Deal, Balanced(e), SameEarmarks(e, d), e.balance = d.balance - x,
             e.alive = d.alive
      PROVE  Fit(e) /\ Slack(e) = Slack(d) - x
  BY <1>1, <1>3, Money, SMT DEF Fit, Slack, Earmarked, SameEarmarks, Figures
<1>. QED BY <1>1, <1>2, <1>3, PayBuyerMoves, PaySellerMoves, BurnShellMoves DEF Pays

\* And a sound one.
LEMMA PaidFromSlack ==
  ASSUME NEW d, Sound(d), NEW x \in Nat, x <= Slack(d)
  PROVE  /\ Sound(PayBuyer(d, x)) /\ Slack(PayBuyer(d, x)) = Slack(d) - x
         /\ Sound(PaySeller(d, x)) /\ Slack(PaySeller(d, x)) = Slack(d) - x
         /\ Sound(BurnShell(d, x)) /\ Slack(BurnShell(d, x)) = Slack(d) - x
<1>1. d \in Deal /\ Balanced(d) /\ Fit(d) /\ Since(d)
  BY DEF Sound, Fit
<1>2. x <= d.balance
  BY <1>1, PaidFit
<1>3. Since(PayBuyer(d, x)) /\ Since(PaySeller(d, x)) /\ Since(BurnShell(d, x))
  BY <1>1, <1>2, PayBuyerMoves, PaySellerMoves, BurnShellMoves DEF Pays
<1>. QED BY <1>1, <1>3, PaidFit DEF Sound, Fit

\* Sweeping the whole balance to the seller and destructing ends the deal.
LEMMA SweepEnds ==
  ASSUME NEW d \in Deal, Balanced(d), Since(d)
  PROVE  Over(SweepAndDie(d))
<1>. DEFINE e == PaySeller(d, d.balance)
<1>1. e \in Deal /\ Balanced(e) /\ e.balance = 0 /\ Since(e)
  BY PaySellerMoves, Money, SMT DEF Figures, Pays
<1>. HIDE DEF e
<1>2. Die(e) \in Deal
  BY <1>1, Flags, PutNat, PutFlag DEF Die, TakesNat, TakesFlag
<1>3. /\ Die(e).balance = e.balance
      /\ Die(e).fromBuyer = e.fromBuyer /\ Die(e).fromSeller = e.fromSeller
      /\ Die(e).toBuyer = e.toBuyer /\ Die(e).toSeller = e.toSeller
      /\ Die(e).burned = e.burned
  BY <1>1, DealFields DEF Die, HasFields
<1>4. ~Die(e).alive
  BY <1>1 DEF Die, Deal
<1>5. Balanced(Die(e)) /\ Die(e).balance = 0 /\ Since(Die(e))
  BY <1>1, <1>3, Money DEF Balanced, Since, Figures
<1>. QED BY <1>2, <1>4, <1>5 DEF Over, SweepAndDie, e

\* _payOwedAndDie: pay what the seller is owed, sweep the rest, destruct.
LEMMA PayOwedEnds ==
  ASSUME NEW d, Sound(d)
  PROVE  Over(PayOwedAndDie(d))
<1>. DEFINE e == [d EXCEPT !.finalizedOwed = 0]
            f == PaySeller(e, d.finalizedOwed)
<1>1. d \in Deal /\ Balanced(d) /\ d.finalizedOwed \in Nat /\ d.finalizedOwed <= d.balance
  BY Money, SMT DEF Sound, Fit, Slack, Earmarked, Figures
<1>2. e \in Deal /\ SameFlows(e, d)
  BY <1>1, PutNat, PutFlag, DealFields DEF SameFlows, HasFields, TakesNat, TakesFlag
<1>3. Balanced(e) /\ e.balance = d.balance /\ Since(e)
  <2>1. Balanced(e) /\ e.balance = d.balance
    BY <1>1, <1>2, Money DEF Balanced, SameFlows, Figures
  <2>2. Since(e)
    BY <1>2, SameFlowsSince DEF Sound, Fit
  <2>. QED BY <2>1, <2>2
<1>. HIDE DEF e
<1>4. f \in Deal /\ Balanced(f) /\ Since(f)
  BY <1>1, <1>2, <1>3, PaySellerMoves DEF Pays
<1>. HIDE DEF f
<1>. QED BY <1>4, SweepEnds DEF PayOwedAndDie, e, f

-----------------------------------------------------------------------------
(* Earmarks moving within the record                                       *)

\* _reportFinalized moves no money.
LEMMA ReportSame ==
  ASSUME NEW d \in Deal
  PROVE  ReportFinalized(d) \in Deal /\ SameMoney(ReportFinalized(d), d)
<1>. DEFINE e == [d EXCEPT !.reported = d.ticksFinalized]
<1>1. e \in Deal /\ SameMoney(e, d)
  BY Counters, PutNat, PutFlag, DealFields DEF SameMoney, SameFlows, SameEarmarks, HasFields,
         TakesNat, TakesFlag, Counts
<1>2. SameMoney(d, d)
  BY DEF SameMoney, SameFlows, SameEarmarks
<1>. HIDE DEF e
<1>3. ReportFinalized(d) = d \/ ReportFinalized(d) = e
  BY DEF ReportFinalized, e
<1>. QED BY <1>1, <1>2, <1>3

\* _settleFees moves the rebate to the seller's account and burns the rest of
\* the fees: the slack is what it was.
LEMMA SettleFeesSound ==
  ASSUME NEW d, Sound(d), NEW clean \in BOOLEAN
  PROVE  Sound(SettleFees(d, clean)) /\ Slack(SettleFees(d, clean)) = Slack(d)
<1>. DEFINE r == IF clean /\ ~d.everDisputed
                 THEN Lesser(Rebate(d.ticksFinalized), d.feeAccrued) ELSE 0
            e == [d EXCEPT !.finalizedOwed = @ + r, !.feeAccrued = 0]
            f == BurnShell(e, d.feeAccrued - r)
<1>0. d \in Deal /\ d.feeAccrued \in Nat /\ d.finalizedOwed \in Nat
  BY Money DEF Sound, Fit, Figures
<1>1. r \in Nat /\ r <= d.feeAccrued
  BY <1>0, Counters, RebateNat, SMT DEF Lesser, Counts
<1>. HIDE DEF r
<1>2. d.finalizedOwed + r \in Nat /\ d.feeAccrued - r \in Nat
  BY <1>0, <1>1, SMT
<1>3. e \in Deal
  BY <1>0, <1>2, PutNat, PutFlag DEF TakesNat, TakesFlag
<1>4. /\ SameFlows(e, d)
      /\ e.deposit = d.deposit /\ e.probeTick = d.probeTick
      /\ e.sellerBond = d.sellerBond /\ e.buyerBond = d.buyerBond
      /\ e.finalizedOwed = d.finalizedOwed + r /\ e.feeAccrued = 0
  BY <1>0, DealFields DEF SameFlows, HasFields
<1>. HIDE DEF e
<1>5. Slack(d) \in Nat
  BY <1>0, Money, SMT DEF Sound, Fit, Slack, Earmarked, Figures
<1>6. Sound(e) /\ Slack(e) = Slack(d) + (d.feeAccrued - r)
  <2>1. Slack(e) = Slack(d) + (d.feeAccrued - r)
    BY <1>0, <1>1, <1>4, Money, SMT DEF Slack, Earmarked, SameFlows, Figures
  <2>2. e.alive /\ Balanced(e)
    BY <1>0, <1>4 DEF Sound, Fit, Balanced, SameFlows, Since
  <2>3. Since(e)
    BY <1>4, SameFlowsSince DEF Sound
  <2>. QED BY <1>2, <1>3, <1>5, <2>1, <2>2, <2>3, SMT DEF Sound, Fit
<1>7. Sound(f) /\ Slack(f) = Slack(d)
  BY <1>2, <1>5, <1>6, PaidFromSlack, SMT
<1>. HIDE DEF f
<1>8. SettleFees(d, clean) = ReportFinalized(f)
  BY DEF SettleFees, r, e, f
<1>. QED BY <1>7, <1>8, ReportSame, SameMoneySound, SMT DEF Sound, Fit

\* _releaseProbe returns the frozen tick to the escrow.
LEMMA ReleaseProbeSound ==
  ASSUME NEW d, Sound(d)
  PROVE  Sound(ReleaseProbe(d)) /\ Slack(ReleaseProbe(d)) = Slack(d)
<1>. DEFINE e == [d EXCEPT !.deposit = @ + d.probeTick, !.probeTick = 0]
<1>0. d \in Deal /\ d.deposit + d.probeTick \in Nat
  BY Money, SMT DEF Sound, Fit, Figures
<1>1. e \in Deal
  BY <1>0, PutNat, PutFlag DEF TakesNat, TakesFlag
<1>2. /\ SameFlows(e, d)
      /\ e.deposit = d.deposit + d.probeTick /\ e.probeTick = 0
      /\ e.finalizedOwed = d.finalizedOwed /\ e.feeAccrued = d.feeAccrued
      /\ e.sellerBond = d.sellerBond /\ e.buyerBond = d.buyerBond
  BY <1>0, DealFields DEF SameFlows, HasFields
<1>. HIDE DEF e
<1>3. Sound(e) /\ Slack(e) = Slack(d)
  BY <1>0, <1>1, <1>2, Money, SMT DEF Sound, Fit, Slack, Earmarked, Balanced, SameFlows, Since,
         Figures
<1>4. ReleaseProbe(d) = d \/ ReleaseProbe(d) = e
  BY DEF ReleaseProbe, e
<1>. QED BY <1>3, <1>4

\* _releaseBuyerBond returns the bond to the escrow; nothing else moves.
LEMMA ReleaseBuyerBondSound ==
  ASSUME NEW d, Sound(d)
  PROVE  /\ Sound(ReleaseBuyerBond(d)) /\ Slack(ReleaseBuyerBond(d)) = Slack(d)
         /\ ReleaseBuyerBond(d).sellerBond = d.sellerBond
         /\ ReleaseBuyerBond(d).probeTick = d.probeTick
<1>. DEFINE e == [d EXCEPT !.deposit = @ + d.buyerBond, !.buyerBond = 0]
<1>0. d \in Deal /\ d.deposit + d.buyerBond \in Nat
  BY Money, SMT DEF Sound, Fit, Figures
<1>1. e \in Deal
  BY <1>0, PutNat, PutFlag DEF TakesNat, TakesFlag
<1>2. /\ SameFlows(e, d)
      /\ e.deposit = d.deposit + d.buyerBond /\ e.buyerBond = 0
      /\ e.finalizedOwed = d.finalizedOwed /\ e.feeAccrued = d.feeAccrued
      /\ e.sellerBond = d.sellerBond /\ e.probeTick = d.probeTick
  BY <1>0, DealFields DEF SameFlows, HasFields
<1>. HIDE DEF e
<1>3. Sound(e) /\ Slack(e) = Slack(d)
  BY <1>0, <1>1, <1>2, Money, SMT DEF Sound, Fit, Slack, Earmarked, Balanced, SameFlows, Since,
         Figures
<1>. QED BY <1>2, <1>3 DEF ReleaseBuyerBond, e

\* _returnBond pays the seller's bond back.
LEMMA ReturnBondSound ==
  ASSUME NEW d, Sound(d)
  PROVE  Sound(ReturnBond(d))
<1>. DEFINE e == [d EXCEPT !.sellerBond = 0, !.sellerBondFunded = FALSE]
<1>0. d \in Deal /\ d.sellerBond \in Nat
  BY Money DEF Sound, Fit, Figures
<1>1. e \in Deal
  BY <1>0, Flags, PutNat, PutFlag DEF TakesNat, TakesFlag
<1>2. /\ SameFlows(e, d)
      /\ e.deposit = d.deposit /\ e.probeTick = d.probeTick
      /\ e.finalizedOwed = d.finalizedOwed /\ e.feeAccrued = d.feeAccrued
      /\ e.sellerBond = 0 /\ e.buyerBond = d.buyerBond
  BY <1>0, DealFields DEF SameFlows, HasFields
<1>. HIDE DEF e
<1>3. Sound(e) /\ d.sellerBond <= Slack(e)
  BY <1>0, <1>1, <1>2, Money, SMT DEF Sound, Fit, Slack, Earmarked, Balanced, SameFlows, Since,
         Figures
<1>4. ReturnBond(d) = d \/ ReturnBond(d) = PaySeller(e, d.sellerBond)
  BY DEF ReturnBond, e
<1>. QED BY <1>0, <1>3, <1>4, PaidFromSlack

\* _forfeitBonds burns what it takes out of the two bonds, and no more.
LEMMA ForfeitBondsSound ==
  ASSUME NEW d, Sound(d), NEW x \in Nat, NEW y \in Nat
  PROVE  Sound(ForfeitBonds(d, x, y)) /\ Slack(ForfeitBonds(d, x, y)) = Slack(d)
<1>. DEFINE b == Lesser(x, d.buyerBond)
            s == Lesser(y, d.sellerBond)
            e == [d EXCEPT !.buyerBond = @ - b, !.sellerBond = @ - s]
<1>0. d \in Deal
  BY DEF Sound, Fit
<1>1. /\ b \in Nat /\ s \in Nat /\ b + s \in Nat
      /\ d.buyerBond - b \in Nat /\ d.sellerBond - s \in Nat
  BY <1>0, Money, SMT DEF Lesser, Figures
<1>. HIDE DEF b, s
<1>2. e \in Deal
  BY <1>0, <1>1, PutNat, PutFlag DEF TakesNat, TakesFlag
<1>3. /\ SameFlows(e, d)
      /\ e.deposit = d.deposit /\ e.probeTick = d.probeTick
      /\ e.finalizedOwed = d.finalizedOwed /\ e.feeAccrued = d.feeAccrued
      /\ e.sellerBond = d.sellerBond - s /\ e.buyerBond = d.buyerBond - b
  BY <1>0, DealFields DEF SameFlows, HasFields
<1>. HIDE DEF e
<1>4. Sound(e) /\ Slack(e) = Slack(d) + (b + s) /\ Slack(d) \in Nat
  <2>1. Slack(e) = Slack(d) + (b + s) /\ Slack(d) \in Nat
    BY <1>0, <1>1, <1>3, Money, SMT DEF Sound, Fit, Slack, Earmarked, SameFlows, Since, Figures
  <2>2. e.alive /\ Balanced(e)
    BY <1>3 DEF Sound, Fit, Balanced, SameFlows, Since
  <2>3. Since(e)
    BY <1>3, SameFlowsSince DEF Sound
  <2>. QED BY <1>1, <1>2, <2>1, <2>2, <2>3, SMT DEF Sound, Fit
<1>5. ForfeitBonds(d, x, y) = BurnShell(e, b + s)
  BY DEF ForfeitBonds, b, s, e
<1>. QED BY <1>1, <1>4, <1>5, PaidFromSlack, SMT

\* A charge moves money from the escrow to the seller's account and to the
\* fees; clamped as one sum it cannot underflow, whatever the rounding.
LEMMA ChargeEscrowSound ==
  ASSUME NEW d, Sound(d), NEW n \in Nat
  PROVE  /\ Sound(ChargeEscrow(d, n)) /\ Slack(ChargeEscrow(d, n)) = Slack(d)
         /\ ChargeEscrow(d, n).weekIndex = d.weekIndex
         /\ ChargeEscrow(d, n).everOpened = d.everOpened
<1>. DEFINE pay0 == ValueOf(n)
            fee0 == Fee(pay0)
            short == pay0 + fee0 > d.deposit
            fee == IF short THEN Lesser(d.deposit, fee0) ELSE fee0
            pay == IF short THEN d.deposit - fee ELSE pay0
            e == [d EXCEPT !.deposit = @ - (pay + fee),
                           !.finalizedOwed = @ + pay,
                           !.feeAccrued = @ + fee]
<1>0. d \in Deal
  BY DEF Sound, Fit
<1>1. pay0 \in Nat /\ fee0 \in Nat
  BY ValueNat, FeeNat
<1>. HIDE DEF pay0, fee0
<1>2. pay \in Nat /\ fee \in Nat /\ pay + fee <= d.deposit
  BY <1>0, <1>1, Money, SMT DEF Lesser, Figures
<1>. HIDE DEF pay, fee, short
<1>3. /\ d.deposit - (pay + fee) \in Nat /\ d.finalizedOwed + pay \in Nat
      /\ d.feeAccrued + fee \in Nat
  BY <1>0, <1>2, Money, SMT DEF Figures
<1>4. e \in Deal
  BY <1>0, <1>3, PutNat, PutFlag DEF TakesNat, TakesFlag
<1>5. /\ SameFlows(e, d)
      /\ e.deposit = d.deposit - (pay + fee) /\ e.probeTick = d.probeTick
      /\ e.finalizedOwed = d.finalizedOwed + pay /\ e.feeAccrued = d.feeAccrued + fee
      /\ e.sellerBond = d.sellerBond /\ e.buyerBond = d.buyerBond
      /\ e.weekIndex = d.weekIndex
  BY <1>0, DealFields DEF SameFlows, HasFields
<1>. HIDE DEF e
<1>6. Sound(e) /\ Slack(e) = Slack(d)
  BY <1>0, <1>2, <1>3, <1>4, <1>5, Money, SMT DEF Sound, Fit, Slack, Earmarked, Balanced, SameFlows, Since,
         Figures
<1>7. ChargeEscrow(d, n) = e
  BY DEF ChargeEscrow, e, pay, fee, short, pay0, fee0
<1>. QED BY <1>5, <1>6, <1>7 DEF SameFlows

-----------------------------------------------------------------------------
(* Claims and weeks                                                        *)

\* Trusting a claim moves no money.
LEMMA PromoteSame ==
  ASSUME NEW d \in Deal, NEW t \in Nat
  PROVE  /\ Promote(d) \in Deal /\ SameMoney(Promote(d), d)
         /\ PromoteDue(d, t) \in Deal /\ SameMoney(PromoteDue(d, t), d)
<1>. DEFINE n == Greater(d.tokensFinal, d.tokensPend)
            e == [d EXCEPT !.tokensFinal = n]
<1>1. n \in Nat
  BY Counters DEF Greater, Counts
<1>. HIDE DEF n
<1>2. e \in Deal /\ SameMoney(e, d)
  BY <1>1, PutNat, PutFlag, DealFields DEF SameMoney, SameFlows, SameEarmarks, HasFields,
         TakesNat, TakesFlag
<1>. HIDE DEF e
<1>3. Promote(d) = e
  BY DEF Promote, e, n
<1>4. SameMoney(d, d)
  BY DEF SameMoney, SameFlows, SameEarmarks
<1>. QED BY <1>2, <1>3, <1>4 DEF PromoteDue

\* Dropping the pending claim moves no money.
LEMMA DropSame ==
  ASSUME NEW d \in Deal, NEW n \in Nat
  PROVE  [d EXCEPT !.tokensPend = n] \in Deal /\ SameMoney([d EXCEPT !.tokensPend = n], d)
BY PutNat, PutFlag, DealFields DEF SameMoney, SameFlows, SameEarmarks, HasFields, TakesNat,
       TakesFlag

\* Money that is the same twice over is the same.
LEMMA SameMoneyTrans ==
  ASSUME NEW a, NEW b, NEW c, SameMoney(a, b), SameMoney(b, c)
  PROVE  SameMoney(a, c)
BY DEF SameMoney, SameFlows, SameEarmarks

\* _voidClaims moves no money.
LEMMA VoidClaimsSame ==
  ASSUME NEW d \in Deal
  PROVE  VoidClaims(d) \in Deal /\ SameMoney(VoidClaims(d), d)
<1>. DEFINE j == PromoteDue(d, d.disputeTime)
<1>1. j \in Deal /\ SameMoney(j, d)
  BY PromoteSame, Counters DEF Counts
<1>. HIDE DEF j
<1>2. j.tokensFinal \in Nat
  BY <1>1, Counters DEF Counts
<1>3. VoidClaims(d) = [j EXCEPT !.tokensPend = j.tokensFinal]
  BY DEF VoidClaims, j
<1>. QED BY <1>1, <1>2, <1>3, DropSame, SameMoneyTrans

\* _recordDelivered moves no money.
LEMMA RecordDeliveredSame ==
  ASSUME NEW d \in Deal
  PROVE  RecordDelivered(d) \in Deal /\ SameMoney(RecordDelivered(d), d)
<1>. DEFINE n == IF d.probeAccepted THEN Greater(d.tokensFinal, TickSize) ELSE d.tokensFinal
<1>1. n \in Nat
  BY Counters, VolumeAssumption DEF Greater, Counts
<1>. HIDE DEF n
<1>2. n \div TickSize \in Nat
  BY <1>1, VolumeAssumption, SMT
<1>3. RecordDelivered(d) = [d EXCEPT !.ticksFinalized = n \div TickSize]
  BY DEF RecordDelivered, n
<1>4. ASSUME NEW k \in Nat
      PROVE  /\ [d EXCEPT !.ticksFinalized = k] \in Deal
             /\ SameMoney([d EXCEPT !.ticksFinalized = k], d)
  BY PutNat, PutFlag, DealFields DEF SameMoney, SameFlows, SameEarmarks, HasFields, TakesNat,
         TakesFlag
<1>. QED BY <1>2, <1>3, <1>4

\* The count of elapsed weeks is an integer within the term, and the count of
\* started ones leaves a natural number of weeks unstarted.
LEMMA WeeksWithinTerm ==
  ASSUME NEW d \in Deal, NEW t \in Nat
  PROVE  /\ WeeksElapsedAt(d, t) \in Int /\ WeeksElapsedAt(d, t) <= SUB_WEEKS
         /\ WeeksStartedAt(d, t) \in Int /\ WeeksStartedAt(d, t) <= SUB_WEEKS
         /\ d.subWeeks - WeeksStartedAt(d, t) \in Nat
<1>. DEFINE q == (t - d.periodStart) \div SubWeekLen
<1>1. t - d.periodStart \in Int
  BY Counters, SMT DEF Counts
<1>2. q \in Int
  BY <1>1, ClockAssumption, SMT
<1>. HIDE DEF q
<1>3. WeeksElapsedAt(d, t) = Lesser(q, d.subWeeks)
  BY DEF WeeksElapsedAt, q
<1>4. d.subWeeks = 0 \/ d.subWeeks = 4
  BY Counters DEF SUB_WEEKS, Counts
<1>. QED BY <1>2, <1>3, <1>4, SMT DEF Lesser, WeeksStartedAt, SUB_WEEKS

\* Charging one more week of the term is a charge to the escrow.
LEMMA ChargeWeekSound ==
  ASSUME NEW d, Sound(d), NEW target \in Int, target <= SUB_WEEKS
  PROVE  /\ Sound(ChargeWeekIfBefore(d, target))
         /\ ChargeWeekIfBefore(d, target).everOpened = d.everOpened
<1>1. CASE ~(d.weekIndex < target)
  BY <1>1 DEF ChargeWeekIfBefore
<1>2. CASE d.weekIndex < target
  <2>. DEFINE m == (d.weekIndex + 1) * d.tokensPerWeek
              n == Greater(m - d.tokensPaid, 0)
              c == ChargeEscrow(d, n)
              w == Greater(d.tokensFinal, d.tokensPend)
  <2>0. d \in Deal
    BY DEF Sound, Fit
  <2>1. d.weekIndex + 1 \in 0 .. SUB_WEEKS /\ d.weekIndex + 1 \in Nat
    BY <1>2, <2>0, Counters, SMT DEF SUB_WEEKS, Counts
  <2>2. m \in Nat
    BY <2>0, <2>1, Counters, SMT DEF Counts
  <2>. HIDE DEF m
  <2>3. n \in Nat /\ w \in Nat
    BY <2>0, <2>2, Counters, SMT DEF Greater, Counts
  <2>. HIDE DEF n, w
  <2>4. Sound(c) /\ c.everOpened = d.everOpened /\ c.weekIndex = d.weekIndex
    BY <2>3, ChargeEscrowSound
  <2>. HIDE DEF c
  <2>5. ASSUME NEW i \in 0 .. SUB_WEEKS
        PROVE  /\ [c EXCEPT !.tokensPaid = m, !.weekIndex = i, !.weekBaseTokens = w] \in Deal
               /\ SameMoney([c EXCEPT !.tokensPaid = m, !.weekIndex = i,
                                      !.weekBaseTokens = w], c)
    BY <2>2, <2>3, <2>4, PutNat, PutTerm, DealFields DEF Sound, Fit, SameMoney, SameFlows, Since, SameEarmarks,
           HasFields, TakesNat
  <2>6. ChargeWeekIfBefore(d, target)
          = [c EXCEPT !.tokensPaid = m, !.weekIndex = c.weekIndex + 1, !.weekBaseTokens = w]
    BY <1>2 DEF ChargeWeekIfBefore, ChargeWeek, m, n, c, w
  <2>7. c.weekIndex + 1 \in 0 .. SUB_WEEKS
    BY <2>1, <2>4
  <2>8. /\ ChargeWeekIfBefore(d, target) \in Deal
        /\ SameMoney(ChargeWeekIfBefore(d, target), c)
    BY <2>5, <2>6, <2>7
  <2>. QED BY <2>4, <2>8, SameMoneySound
<1>. QED BY <1>1, <1>2

\* The whole loop of _chargeWeeksThrough.
LEMMA ChargeWeeksSound ==
  ASSUME NEW d, Sound(d), NEW target \in Int, target <= SUB_WEEKS
  PROVE  /\ Sound(ChargeWeeksThrough(d, target))
         /\ ChargeWeeksThrough(d, target).everOpened = d.everOpened
<1>. DEFINE w1 == ChargeWeekIfBefore(d, target)
            w2 == ChargeWeekIfBefore(w1, target)
            w3 == ChargeWeekIfBefore(w2, target)
            w4 == ChargeWeekIfBefore(w3, target)
<1>1. Sound(w1) /\ w1.everOpened = d.everOpened
  BY ChargeWeekSound
<1>. HIDE DEF w1
<1>2. Sound(w2) /\ w2.everOpened = w1.everOpened
  BY <1>1, ChargeWeekSound
<1>. HIDE DEF w2
<1>3. Sound(w3) /\ w3.everOpened = w2.everOpened
  BY <1>2, ChargeWeekSound
<1>. HIDE DEF w3
<1>4. Sound(w4) /\ w4.everOpened = w3.everOpened
  BY <1>3, ChargeWeekSound
<1>. HIDE DEF w4
<1>5. ChargeWeeksThrough(d, target) = d \/ ChargeWeeksThrough(d, target) = w4
  BY DEF ChargeWeeksThrough, w1, w2, w3, w4
<1>. QED BY <1>1, <1>2, <1>3, <1>4, <1>5

\* _settleBoundaries.
LEMMA SettleBoundariesSound ==
  ASSUME NEW d, Sound(d), NEW due \in Int, due <= SUB_WEEKS
  PROVE  /\ Sound(SettleBoundaries(d, due))
         /\ SettleBoundaries(d, due).everOpened = d.everOpened
<1>. DEFINE c == ChargeWeeksThrough(d, due)
            e == RecordDelivered(c)
<1>1. Sound(c) /\ c.everOpened = d.everOpened
  BY ChargeWeeksSound
<1>. HIDE DEF c
<1>2. Sound(e) /\ e.everOpened = c.everOpened
  BY <1>1, RecordDeliveredSame, SameMoneySound DEF Sound, Fit
<1>. HIDE DEF e
<1>3. Sound(ReportFinalized(e)) /\ ReportFinalized(e).everOpened = e.everOpened
  BY <1>2, ReportSame, SameMoneySound DEF Sound, Fit
<1>4. SettleBoundaries(d, due) = d \/ SettleBoundaries(d, due) = ReportFinalized(e)
  BY DEF SettleBoundaries, c, e
<1>. QED BY <1>1, <1>2, <1>3, <1>4

-----------------------------------------------------------------------------
(* Terminals                                                               *)

\* _closeClean refunds the escrow, pays the seller and ends the deal.
LEMMA CloseCleanEnds ==
  ASSUME NEW d, Sound(d)
  PROVE  Over(CloseClean(d))
<1>. DEFINE a == ReleaseProbe(d)
            b == ReleaseBuyerBond(a)
            freed == RecordDelivered(b)
            closed == [freed EXCEPT !.deposit = 0,
                                    !.finalizedOwed = @ + freed.sellerBond,
                                    !.sellerBond = 0, !.opened = FALSE]
            settled == SettleFees(closed, TRUE)
            paid == PayBuyer(settled, freed.deposit)
<1>1. Sound(a)
  BY ReleaseProbeSound
<1>. HIDE DEF a
<1>2. Sound(b)
  BY <1>1, ReleaseBuyerBondSound
<1>. HIDE DEF b
<1>3. Sound(freed)
  BY <1>2, RecordDeliveredSame, SameMoneySound DEF Sound, Fit
<1>. HIDE DEF freed
<1>4. freed \in Deal /\ freed.finalizedOwed + freed.sellerBond \in Nat /\ freed.deposit \in Nat
  BY <1>3, Money, SMT DEF Sound, Fit, Figures
<1>5. closed \in Deal
  BY <1>4, Flags, PutNat, PutFlag DEF TakesNat, TakesFlag
<1>6. /\ SameFlows(closed, freed)
      /\ closed.deposit = 0 /\ closed.probeTick = freed.probeTick
      /\ closed.finalizedOwed = freed.finalizedOwed + freed.sellerBond
      /\ closed.feeAccrued = freed.feeAccrued
      /\ closed.sellerBond = 0 /\ closed.buyerBond = freed.buyerBond
  BY <1>4, DealFields DEF SameFlows, HasFields
<1>. HIDE DEF closed
<1>7. Sound(closed) /\ freed.deposit <= Slack(closed)
  BY <1>3, <1>4, <1>5, <1>6, Money, SMT DEF Sound, Fit, Slack, Earmarked, Balanced, SameFlows, Since,
         Figures
<1>8. Sound(settled) /\ freed.deposit <= Slack(settled)
  BY <1>7, SettleFeesSound
<1>. HIDE DEF settled
<1>9. Sound(paid)
  BY <1>4, <1>8, PaidFromSlack
<1>. HIDE DEF paid
<1>10. CloseClean(d) = PayOwedAndDie(paid)
  BY DEF CloseClean, a, b, freed, closed, settled, paid
<1>. QED BY <1>9, <1>10, PayOwedEnds

\* _payFinalAndClose pays the trusted ticks first.
LEMMA PayFinalEnds ==
  ASSUME NEW d, Sound(d)
  PROVE  Over(PayFinalAndClose(d))
<1>. DEFINE n == IF IsSubscription(d) THEN 0 ELSE Greater(d.tokensFinal - d.tokensPaid, 0)
            c == ChargeEscrow(d, n)
            e == [c EXCEPT !.tokensPaid = c.tokensPaid + n]
<1>1. n \in Nat
  BY Counters, SMT DEF Sound, Fit, Greater, Counts
<1>. HIDE DEF n
<1>2. Sound(c)
  BY <1>1, ChargeEscrowSound
<1>. HIDE DEF c
<1>3. c \in Deal /\ c.tokensPaid + n \in Nat
  BY <1>1, <1>2, Counters, SMT DEF Sound, Fit, Counts
<1>4. e \in Deal /\ SameMoney(e, c)
  BY <1>3, PutNat, PutFlag, DealFields DEF SameMoney, SameFlows, SameEarmarks, HasFields,
         TakesNat, TakesFlag
<1>. HIDE DEF e
<1>5. Sound(e)
  BY <1>2, <1>4, SameMoneySound
<1>6. PayFinalAndClose(d) = CloseClean(e)
  BY DEF PayFinalAndClose, n, c, e
<1>. QED BY <1>5, <1>6, CloseCleanEnds

\* The base of a disputed week is a count of tokens.
LEMMA ClaimBaseNat == ASSUME NEW d \in Deal PROVE ClaimBase(d) \in Nat
BY Counters DEF ClaimBase, Counts

\* The stake D is a natural number.
LEMMA StakeNat == ASSUME NEW d \in Deal PROVE DisputeStake(d) \in Nat
<1>. DEFINE n == Greater(d.tokensPend - ClaimBase(d), 0)
<1>1. n \in Nat
  BY ClaimBaseNat, Counters, SMT DEF Greater, Counts
<1>. HIDE DEF n
<1>2. ClaimedUnpaidValue(d) \in Nat
  BY <1>1, CostNat DEF ClaimedUnpaidValue, n
<1>. QED BY <1>2, Money, PricesNat DEF DisputeStake, Lesser, Greater, Figures

\* The unearned part of a disputed week lies within the escrow.
LEMMA UnearnedWithinDeposit ==
  ASSUME NEW d \in Deal
  PROVE  UnearnedEscrow(d) \in Nat /\ UnearnedEscrow(d) <= d.deposit
<1>. DEFINE u == d.subWeeks - WeeksStartedAt(d, d.disputeTime)
            c == CostOf(u * d.tokensPerWeek)
<1>1. u \in Nat
  BY WeeksWithinTerm, Counters DEF Counts
<1>. HIDE DEF u
<1>2. u * d.tokensPerWeek \in Nat
  BY <1>1, Counters, SMT DEF Counts
<1>3. c \in Nat
  BY <1>2, CostNat
<1>. HIDE DEF c
<1>4. \/ UnearnedEscrow(d) = 0
      \/ UnearnedEscrow(d) = Greater(d.deposit - c, 0)
  BY DEF UnearnedEscrow, u, c
<1>. QED BY <1>3, <1>4, Money, SMT DEF Greater, Figures

\* Paying what the claims prove keeps the record sound.
LEMMA PayTrustedSound ==
  ASSUME NEW d, Sound(d)
  PROVE  Sound(PayTrusted(d))
<1>. DEFINE n == Greater(d.tokensFinal - ClaimBase(d), 0)
            paid == ChargeEscrow(d, n)
            rec == RecordDelivered(paid)
            mark == Greater(rec.tokensPaid, d.tokensFinal)
            marked == [rec EXCEPT !.tokensPaid = mark]
<1>1. n \in Nat
  BY ClaimBaseNat, Counters, SMT DEF Sound, Fit, Greater, Counts
<1>. HIDE DEF n
<1>2. Sound(paid)
  BY <1>1, ChargeEscrowSound
<1>. HIDE DEF paid
<1>3. Sound(rec) /\ rec \in Deal
  BY <1>2, RecordDeliveredSame, SameMoneySound DEF Sound, Fit
<1>. HIDE DEF rec
<1>4. mark \in Nat
  BY <1>3, Counters DEF Sound, Fit, Greater, Counts
<1>. HIDE DEF mark
<1>5. marked \in Deal /\ SameMoney(marked, rec)
  BY <1>3, <1>4, PutNat, PutFlag, DealFields DEF SameMoney, SameFlows, SameEarmarks, HasFields,
         TakesNat, TakesFlag
<1>. HIDE DEF marked
<1>6. PayTrusted(d) = marked
  BY DEF PayTrusted, marked, mark, rec, paid, n
<1>. QED BY <1>3, <1>5, <1>6, SameMoneySound

\* Refunding and burning what is left after the stakes ends the deal.
LEMMA CloseStakedEnds ==
  ASSUME NEW d, Sound(d)
  PROVE  Over(CloseStaked(d))
<1>. DEFINE unearned == UnearnedEscrow(d)
            burnt == BurnShell(d, unearned)
            refund == d.deposit - unearned + d.buyerBond
            closed == [burnt EXCEPT !.buyerBond = 0, !.deposit = 0,
                                    !.finalizedOwed = burnt.finalizedOwed + d.sellerBond,
                                    !.sellerBond = 0, !.opened = FALSE]
            settled == SettleFees(closed, FALSE)
            final == PayBuyer(settled, refund)
<1>1. d \in Deal
  BY DEF Sound, Fit
<1>2. unearned \in Nat /\ unearned <= d.deposit
  BY <1>1, UnearnedWithinDeposit
<1>. HIDE DEF unearned
<1>3. /\ burnt \in Deal /\ burnt.alive
      /\ Balanced(burnt) /\ SameEarmarks(burnt, d)
      /\ burnt.balance = d.balance - unearned /\ Since(burnt)
  <2>1. unearned <= d.balance
    BY <1>1, <1>2, Money, SMT DEF Sound, Fit, Slack, Earmarked, Figures
  <2>. QED BY <1>1, <1>2, <2>1, BurnShellMoves DEF Sound, Fit, Pays
<1>. HIDE DEF burnt
<1>4. burnt.finalizedOwed + d.sellerBond \in Nat /\ refund \in Nat
  BY <1>1, <1>2, <1>3, Money, SMT DEF Figures
<1>5. closed \in Deal
  BY <1>3, <1>4, Flags, PutNat, PutFlag DEF TakesNat, TakesFlag
<1>6. /\ SameFlows(closed, burnt)
      /\ closed.deposit = 0 /\ closed.probeTick = burnt.probeTick
      /\ closed.finalizedOwed = burnt.finalizedOwed + d.sellerBond
      /\ closed.feeAccrued = burnt.feeAccrued
      /\ closed.sellerBond = 0 /\ closed.buyerBond = 0
  BY <1>3, DealFields DEF SameFlows, HasFields
<1>. HIDE DEF closed
<1>7. Sound(closed) /\ refund <= Slack(closed)
  BY <1>1, <1>2, <1>3, <1>4, <1>5, <1>6, Money, SMT
     DEF Sound, Fit, Slack, Earmarked, Balanced, SameFlows, Since, SameEarmarks, Figures
<1>. HIDE DEF refund
<1>8. Sound(settled) /\ refund <= Slack(settled)
  BY <1>7, SettleFeesSound
<1>. HIDE DEF settled
<1>9. Sound(final)
  BY <1>4, <1>8, PaidFromSlack
<1>. HIDE DEF final
<1>10. CloseStaked(d) = PayOwedAndDie(final)
  BY DEF CloseStaked, unearned, burnt, refund, closed, settled, final
<1>. QED BY <1>9, <1>10, PayOwedEnds

\* _settleTrustedAndClose ends the deal whatever the stakes.
LEMMA SettleTrustedEnds ==
  ASSUME NEW d, Sound(d), NEW x \in Nat, NEW y \in Nat
  PROVE  Over(SettleTrustedAndClose(d, x, y))
<1>. DEFINE a == ReleaseProbe(d)
            booked == ChargeWeeksThrough(a, WeeksElapsedAt(d, d.disputeTime))
            staked == ForfeitBonds(PayTrusted(booked), x, y)
<1>1. Sound(a)
  BY ReleaseProbeSound
<1>. HIDE DEF a
<1>2. Sound(booked)
  BY <1>1, ChargeWeeksSound, WeeksWithinTerm, Counters DEF Sound, Fit, Counts
<1>. HIDE DEF booked
<1>3. Sound(staked)
  BY <1>2, PayTrustedSound, ForfeitBondsSound
<1>. HIDE DEF staked
<1>4. SettleTrustedAndClose(d, x, y) = CloseStaked(staked)
  BY DEF SettleTrustedAndClose, a, booked, staked
<1>. QED BY <1>3, <1>4, CloseStakedEnds

-----------------------------------------------------------------------------
(* Exits                                                                   *)

\* stop() on the probe burns the frozen tick and its mirror.
LEMMA StoppedOnProbeEnds ==
  ASSUME NEW d, Sound(d)
  PROVE  Over(StoppedOnProbe(d))
<1>. DEFINE mirror == Lesser(d.probeTick, d.sellerBond)
            freed == ReleaseBuyerBond(d)
            closed == [freed EXCEPT !.sellerBond = 0,
                                    !.finalizedOwed = @ + (d.sellerBond - mirror),
                                    !.probeTick = 0, !.deposit = 0, !.opened = FALSE]
            burnt == BurnShell(closed, d.probeTick + mirror)
            paid == PayBuyer(burnt, freed.deposit)
<1>0. d \in Deal
  BY DEF Sound, Fit
<1>1. mirror \in Nat /\ mirror <= d.sellerBond /\ d.probeTick + mirror \in Nat
  BY <1>0, Money, SMT DEF Lesser, Figures
<1>. HIDE DEF mirror
<1>2. /\ Sound(freed) /\ freed \in Deal
      /\ freed.sellerBond = d.sellerBond /\ freed.probeTick = d.probeTick
  BY ReleaseBuyerBondSound DEF Sound, Fit
<1>. HIDE DEF freed
<1>3. freed.finalizedOwed + (d.sellerBond - mirror) \in Nat /\ freed.deposit \in Nat
  BY <1>0, <1>1, <1>2, Money, SMT DEF Figures
<1>4. closed \in Deal
  BY <1>2, <1>3, Flags, PutNat, PutFlag DEF TakesNat, TakesFlag
<1>5. /\ SameFlows(closed, freed)
      /\ closed.deposit = 0 /\ closed.probeTick = 0
      /\ closed.finalizedOwed = freed.finalizedOwed + (d.sellerBond - mirror)
      /\ closed.feeAccrued = freed.feeAccrued
      /\ closed.sellerBond = 0 /\ closed.buyerBond = freed.buyerBond
  BY <1>2, DealFields DEF SameFlows, HasFields
<1>. HIDE DEF closed
<1>6. Sound(closed) /\ freed.deposit + (d.probeTick + mirror) <= Slack(closed)
  BY <1>0, <1>1, <1>2, <1>3, <1>4, <1>5, Money, SMT
     DEF Sound, Fit, Slack, Earmarked, Balanced, SameFlows, Since, Figures
<1>7. Slack(closed) \in Int
  BY <1>4, Money, SMT DEF Slack, Earmarked, Figures
<1>8. d.probeTick + mirror <= Slack(closed)
  BY <1>1, <1>3, <1>6, <1>7, SMT
<1>9. Sound(burnt) /\ freed.deposit <= Slack(burnt)
  BY <1>1, <1>3, <1>6, <1>7, <1>8, PaidFromSlack, SMT
<1>. HIDE DEF burnt
<1>10. Sound(paid)
  BY <1>3, <1>9, PaidFromSlack
<1>. HIDE DEF paid
<1>11. StoppedOnProbe(d) = PayOwedAndDie(paid)
  BY DEF StoppedOnProbe, mirror, freed, closed, burnt, paid
<1>. QED BY <1>10, <1>11, PayOwedEnds

\* stop() ends the deal.
LEMMA StoppedEnds ==
  ASSUME NEW d, Sound(d), NEW t \in Nat
  PROVE  Over(Stopped(d, t))
<1>. DEFINE due == PromoteDue(d, t)
            kept == ForfeitBonds(Promote(due), PricePerTick, 0)
            settled == IF IsSubscription(d) THEN due ELSE kept
            charged == ChargeWeeksThrough(settled, WeeksStartedAt(d, t))
<1>0. d \in Deal
  BY DEF Sound, Fit
<1>1. Sound(due)
  BY <1>0, PromoteSame, SameMoneySound
<1>. HIDE DEF due
<1>2. Sound(Promote(due))
  BY <1>1, PromoteSame, SameMoneySound DEF Sound, Fit
<1>3. Sound(kept)
  BY <1>2, ForfeitBondsSound, PricesNat
<1>. HIDE DEF kept
<1>4. Sound(settled)
  BY <1>1, <1>3
<1>. HIDE DEF settled
<1>5. Sound(charged)
  BY <1>0, <1>4, ChargeWeeksSound, WeeksWithinTerm
<1>. HIDE DEF charged
<1>6. Stopped(d, t) = StoppedOnProbe(d) \/ Stopped(d, t) = PayFinalAndClose(charged)
  BY DEF Stopped, due, kept, settled, charged
<1>. QED BY <1>5, <1>6, StoppedOnProbeEnds, PayFinalEnds

\* sellerStop() ends the deal.
LEMMA SellerStoppedEnds ==
  ASSUME NEW d, Sound(d), NEW t \in Nat
  PROVE  Over(SellerStopped(d, t))
<1>. DEFINE trial == IF d.probeAccepted THEN d ELSE ForfeitBonds(d, 0, PricePerTick)
            due == PromoteDue(trial, t)
            dropped == [due EXCEPT !.tokensPend = due.tokensFinal]
            kept == ForfeitBonds(dropped, 0, PricePerTick)
            settled == IF d.probeAccepted /\ ~IsSubscription(d) THEN kept ELSE due
            charged == ChargeWeeksThrough(settled, WeeksElapsedAt(d, t))
<1>0. d \in Deal
  BY DEF Sound, Fit
<1>1. Sound(trial)
  BY ForfeitBondsSound, PricesNat
<1>. HIDE DEF trial
<1>2. Sound(due)
  BY <1>1, PromoteSame, SameMoneySound DEF Sound, Fit
<1>. HIDE DEF due
<1>3. Sound(dropped)
  BY <1>2, DropSame, Counters, SameMoneySound, SMT DEF Sound, Fit, Counts
<1>. HIDE DEF dropped
<1>4. Sound(kept)
  BY <1>3, ForfeitBondsSound, PricesNat
<1>. HIDE DEF kept
<1>5. Sound(settled)
  BY <1>2, <1>4
<1>. HIDE DEF settled
<1>6. Sound(charged)
  BY <1>0, <1>5, ChargeWeeksSound, WeeksWithinTerm
<1>. HIDE DEF charged
<1>7. SellerStopped(d, t) = PayFinalAndClose(charged)
  BY DEF SellerStopped, trial, due, dropped, kept, settled, charged
<1>. QED BY <1>6, <1>7, PayFinalEnds

\* Clearing the dispute after _voidClaims moves no money.
LEMMA VoidedSame ==
  ASSUME NEW d \in Deal
  PROVE  /\ [VoidClaims(d) EXCEPT !.disputed = FALSE] \in Deal
         /\ SameMoney([VoidClaims(d) EXCEPT !.disputed = FALSE], d)
<1>. DEFINE v == VoidClaims(d)
<1>1. v \in Deal /\ SameMoney(v, d)
  BY VoidClaimsSame
<1>. HIDE DEF v
<1>2. [v EXCEPT !.disputed = FALSE] \in Deal /\ SameMoney([v EXCEPT !.disputed = FALSE], v)
  BY <1>1, Flags, PutNat, PutFlag, DealFields DEF SameMoney, SameFlows, SameEarmarks, HasFields,
         TakesNat, TakesFlag
<1>. QED BY <1>1, <1>2, SameMoneyTrans DEF v

\* releaseDispute() ends the deal.
LEMMA ReleasedEnds ==
  ASSUME NEW d, Sound(d)
  PROVE  Over(Released(d))
<1>. DEFINE booked == ChargeWeeksThrough(d, WeeksElapsedAt(d, d.disputeTime))
            voided == [VoidClaims(booked) EXCEPT !.disputed = FALSE]
<1>1. Sound(booked)
  BY ChargeWeeksSound, WeeksWithinTerm, Counters DEF Sound, Fit, Counts
<1>. HIDE DEF booked
<1>2. Sound(voided) /\ voided \in Deal
  BY <1>1, VoidedSame, SameMoneySound DEF Sound, Fit
<1>. HIDE DEF voided
<1>3. \/ Released(d) = SettleTrustedAndClose(voided, DisputeStake(voided), 0)
      \/ Released(d) = SettleTrustedAndClose(voided, PricePerTick, PricePerTick)
  BY DEF Released, booked, voided
<1>. QED BY <1>2, <1>3, SettleTrustedEnds, StakeNat, PricesNat

\* resolveDisputeTimeout() ends the deal.
LEMMA TimedOutEnds ==
  ASSUME NEW d, Sound(d)
  PROVE  Over(TimedOut(d))
<1>. DEFINE booked == ChargeWeeksThrough(d, WeeksElapsedAt(d, d.disputeTime))
            stake == DisputeStake(booked)
            voided == [VoidClaims(booked) EXCEPT !.disputed = FALSE]
            n == Greater(d.tokensPend - d.tokensFinal, 0)
            pend == Lesser(CostOf(n), d.deposit)
            cut == [voided EXCEPT !.deposit = voided.deposit - pend]
            burnt == BurnShell(cut, pend)
<1>0. d \in Deal
  BY DEF Sound, Fit
<1>1. Sound(booked)
  BY <1>0, ChargeWeeksSound, WeeksWithinTerm, Counters DEF Counts
<1>2. ~IsSubscription(d) => booked = d
  BY DEF ChargeWeeksThrough
<1>. HIDE DEF booked
<1>3. Sound(voided) /\ voided \in Deal /\ SameMoney(voided, booked)
  BY <1>1, VoidedSame, SameMoneySound DEF Sound, Fit
<1>. HIDE DEF voided
<1>4. stake \in Nat
  BY <1>1, StakeNat DEF Sound, Fit
<1>. HIDE DEF stake
<1>5. CASE IsSubscription(d)
  <2>1. TimedOut(d) = SettleTrustedAndClose(voided, stake, stake)
    BY <1>5 DEF TimedOut, booked, stake, voided
  <2>. QED BY <1>3, <1>4, <2>1, SettleTrustedEnds
<1>6. CASE ~IsSubscription(d)
  <2>1. n \in Nat
    BY <1>0, Counters, SMT DEF Greater, Counts
  <2>. HIDE DEF n
  <2>2. pend \in Nat /\ pend <= d.deposit
    BY <1>0, <2>1, CostNat, Money, SMT DEF Lesser, Figures
  <2>. HIDE DEF pend
  <2>3. voided.deposit = d.deposit
    BY <1>2, <1>3, <1>6 DEF SameMoney, SameEarmarks
  <2>4. voided.deposit - pend \in Nat
    BY <1>0, <2>2, <2>3, Money, SMT DEF Figures
  <2>5. cut \in Deal
    BY <1>3, <2>4, PutNat, PutFlag DEF TakesNat, TakesFlag
  <2>6. /\ SameFlows(cut, voided)
        /\ cut.deposit = voided.deposit - pend /\ cut.probeTick = voided.probeTick
        /\ cut.finalizedOwed = voided.finalizedOwed /\ cut.feeAccrued = voided.feeAccrued
        /\ cut.sellerBond = voided.sellerBond /\ cut.buyerBond = voided.buyerBond
    BY <1>3, DealFields DEF SameFlows, HasFields
  <2>. HIDE DEF cut
  <2>7. Sound(cut) /\ pend <= Slack(cut)
    BY <1>3, <2>2, <2>4, <2>5, <2>6, Money, SMT DEF Sound, Fit, Slack, Earmarked, Balanced, SameFlows, Since,
           Figures
  <2>8. Sound(burnt)
    BY <2>2, <2>7, PaidFromSlack
  <2>. HIDE DEF burnt
  <2>9. TimedOut(d) = SettleTrustedAndClose(burnt, 2 * PricePerTick, 2 * PricePerTick)
    BY <1>6 DEF TimedOut, booked, voided, n, pend, cut, burnt
  <2>10. 2 * PricePerTick \in Nat
    BY PricesNat, SMT
  <2>. QED BY <2>8, <2>9, <2>10, SettleTrustedEnds
<1>. QED BY <1>5, <1>6

-----------------------------------------------------------------------------
(* Entries that leave the deal alive                                       *)

\* fundFromOrderBook keeps or returns the whole handover: the figure of the
\* escrow and of the carved bond is covered by what arrived with them.
LEMMA HandoverFit ==
  ASSUME NEW d, Fit(d), Unearned(d), NEW b \in Buyers, NEW sub \in BOOLEAN,
         NEW paid \in Nat, NEW t \in Nat
  PROVE  Fit(Handover(d, b, sub, paid, t)) /\ Unearned(Handover(d, b, sub, paid, t))
<1>. DEFINE bond == IF sub THEN BondAmount ELSE 0
            taken == [d EXCEPT !.balance = @ + paid, !.fromBuyer = @ + paid, !.matches = @ + 1]
            escrow == paid - bond
            flag == taken.buyerBondFunded \/ bond > 0
            bonded == [taken EXCEPT !.buyerBond = bond, !.buyerBondFunded = flag]
            fund == RecordFunding(bonded, b, escrow, t)
            ticks == escrow \div UnitPrice
            shaped == RecordDealShape(fund, sub, ticks, t)
<1>0. d \in Deal /\ bond \in Nat
  BY PricesNat DEF Fit
<1>1. /\ d.balance + paid \in Nat /\ d.fromBuyer + paid \in Nat /\ d.matches + 1 \in Nat
  BY <1>0, Money, Counters, SMT DEF Figures, Counts
<1>2. taken \in Deal
  BY <1>0, <1>1, PutNat, PutFlag DEF TakesNat, TakesFlag
<1>3. /\ SameEarmarks(taken, d) /\ taken.alive = d.alive
      /\ taken.balance = d.balance + paid /\ taken.fromBuyer = d.fromBuyer + paid
      /\ taken.fromSeller = d.fromSeller /\ taken.toBuyer = d.toBuyer
      /\ taken.toSeller = d.toSeller /\ taken.burned = d.burned
      /\ taken.opened = d.opened /\ taken.everOpened = d.everOpened
  BY <1>0, DealFields DEF SameEarmarks, HasFields
<1>. HIDE DEF taken, bond
<1>4. taken.alive /\ Balanced(taken)
  BY <1>0, <1>3, Money, SMT DEF Fit, Balanced, Figures
<1>5. Slack(taken) = Slack(d) + paid /\ Slack(d) \in Nat
  BY <1>0, <1>3, Money, SMT DEF Slack, Earmarked, SameEarmarks, Fit, Figures
<1>6. Fit(taken) /\ paid <= Slack(taken)
  BY <1>2, <1>4, <1>5, SMT DEF Fit
<1>7. Fit(PayBuyer(taken, paid)) /\ Unearned(PayBuyer(taken, paid))
  <2>1. paid <= taken.balance
    BY <1>2, <1>6, Money, SMT DEF Slack, Earmarked, Figures
  <2>. QED BY <1>2, <1>3, <1>4, <1>6, <2>1, PaidFit, PayBuyerMoves, SMT
           DEF Unearned, SameEarmarks, Pays
<1>8. ASSUME escrow >= 2 * UnitPrice
      PROVE  Fit(shaped) /\ Unearned(shaped)
  <2>1. escrow \in Nat
    BY <1>0, <1>8, PricesNat, SMT
  <2>2. flag \in Flag
    BY DEF Flag
  <2>. HIDE DEF flag
  <2>3. bonded \in Deal
    BY <1>0, <1>2, <2>2, PutNat, PutFlag DEF TakesNat, TakesFlag
  <2>4. /\ SameFlows(bonded, taken)
        /\ bonded.deposit = taken.deposit /\ bonded.probeTick = taken.probeTick
        /\ bonded.finalizedOwed = taken.finalizedOwed
        /\ bonded.feeAccrued = taken.feeAccrued
        /\ bonded.sellerBond = taken.sellerBond /\ bonded.buyerBond = bond
        /\ bonded.opened = taken.opened
    BY <1>2, DealFields DEF SameFlows, HasFields
  <2>. HIDE DEF bonded
  <2>. HIDE DEF escrow
  <2>5. fund \in Deal
    BY <2>1, <2>3, Flags, PutNat, PutFlag, PutTerm DEF RecordFunding, TakesNat, TakesFlag
  <2>6. /\ SameFlows(fund, bonded)
        /\ fund.deposit = escrow /\ fund.probeTick = bonded.probeTick
        /\ fund.finalizedOwed = bonded.finalizedOwed
        /\ fund.feeAccrued = bonded.feeAccrued
        /\ fund.sellerBond = bonded.sellerBond /\ fund.buyerBond = bonded.buyerBond
        /\ fund.opened = bonded.opened
    BY <2>3, DealFields DEF SameFlows, RecordFunding, HasFields
  <2>. HIDE DEF fund
  <2>7. fund.alive /\ Balanced(fund)
    BY <1>4, <2>4, <2>6, SMT DEF Balanced, SameFlows
  <2>8. Slack(fund) = Slack(taken) + taken.deposit + taken.buyerBond - escrow - bond
    BY <1>0, <1>2, <2>1, <2>4, <2>6, Money, SMT DEF Slack, Earmarked, SameFlows, Figures
  <2>9. Slack(fund) >= 0
    BY <1>0, <1>2, <1>5, <2>1, <2>8, Money, SMT DEF escrow, Figures
  <2>10. Fit(fund)
    BY <2>5, <2>7, <2>9 DEF Fit
  <2>11. ticks \in Nat
    BY <2>1, PricesNat, SMT
  <2>. HIDE DEF ticks
  <2>. DEFINE w == IF sub THEN SUB_WEEKS ELSE 0
              n == ticks * TickSize
              q == IF sub THEN n \div SUB_WEEKS ELSE n
  <2>12. w \in {0, SUB_WEEKS} /\ n \in Nat
    BY <2>11, VolumeAssumption, SMT
  <2>. HIDE DEF n
  <2>13. q \in Nat /\ 0 \in 0 .. SUB_WEEKS
    BY <2>12, SMT DEF SUB_WEEKS
  <2>. HIDE DEF w, q
  <2>. DEFINE g == [fund EXCEPT !.subWeeks = w, !.weekIndex = 0, !.periodStart = t,
                                !.tokensPerWeek = q, !.fundedTokens = n, !.lastClaimTime = t]
  <2>14. g \in Deal
    BY <2>5, <2>12, <2>13, PutNat, PutTerm DEF TakesNat
  <2>15. SameMoney(g, fund) /\ g.opened = fund.opened
    BY <2>5, DealFields DEF SameMoney, SameFlows, SameEarmarks, HasFields
  <2>16. shaped = g
    BY DEF RecordDealShape, w, n, q
  <2>. HIDE DEF g, shaped
  <2>17. Unearned(g)
    BY <1>3, <2>4, <2>6, <2>15 DEF Unearned, SameMoney, SameFlows, SameEarmarks
  <2>. QED BY <2>10, <2>14, <2>15, <2>16, <2>17, SameMoneyFit
<1>9. \/ Handover(d, b, sub, paid, t) = PayBuyer(taken, paid)
      \/ ~(escrow < 2 * UnitPrice) /\ Handover(d, b, sub, paid, t) = shaped
  BY DEF Handover, taken, bond
<1>10. ~(escrow < 2 * UnitPrice) => escrow >= 2 * UnitPrice
  BY <1>0, PricesNat, SMT
<1>. QED BY <1>7, <1>8, <1>9, <1>10

\* Posting a bond keeps its figure under the earmark and returns the excess.
LEMMA FundDealFit ==
  ASSUME NEW d, Fit(d), Unearned(d), NEW x \in Nat, x >= BondAmount
  PROVE  LET e == [d EXCEPT !.balance = @ + x, !.fromSeller = @ + x,
                            !.sellerBond = BondAmount, !.sellerBondFunded = TRUE]
             f == PaySeller(e, x - BondAmount)
         IN  Fit(f) /\ Unearned(f)
<1>. DEFINE e == [d EXCEPT !.balance = @ + x, !.fromSeller = @ + x,
                           !.sellerBond = BondAmount, !.sellerBondFunded = TRUE]
<1>0. d \in Deal /\ BondAmount \in Nat /\ x - BondAmount \in Nat
  BY PricesNat, SMT DEF Fit
<1>1. d.balance + x \in Nat /\ d.fromSeller + x \in Nat
  BY <1>0, Money, SMT DEF Figures
<1>2. e \in Deal
  BY <1>0, <1>1, Flags, PutNat, PutFlag DEF TakesNat, TakesFlag
<1>3. /\ e.alive = d.alive /\ e.opened = d.opened /\ e.everOpened = d.everOpened
      /\ e.balance = d.balance + x
      /\ e.fromSeller = d.fromSeller + x /\ e.fromBuyer = d.fromBuyer
      /\ e.toBuyer = d.toBuyer /\ e.toSeller = d.toSeller /\ e.burned = d.burned
      /\ e.deposit = d.deposit /\ e.probeTick = d.probeTick
      /\ e.finalizedOwed = d.finalizedOwed /\ e.feeAccrued = d.feeAccrued
      /\ e.sellerBond = BondAmount /\ e.buyerBond = d.buyerBond
  BY <1>0, DealFields DEF HasFields
<1>. HIDE DEF e
<1>4. e.alive /\ Balanced(e)
  BY <1>0, <1>3, Money, SMT DEF Fit, Balanced, Figures
<1>5. Slack(e) = Slack(d) + d.sellerBond + (x - BondAmount) /\ Slack(d) \in Nat
  BY <1>0, <1>3, Money, SMT DEF Slack, Earmarked, Fit, Figures
<1>6. Fit(e) /\ x - BondAmount <= Slack(e)
  BY <1>0, <1>2, <1>4, <1>5, Money, SMT DEF Fit, Figures
<1>7. x - BondAmount <= e.balance
  BY <1>0, <1>2, <1>6, Money, SMT DEF Slack, Earmarked, Figures
<1>. DEFINE f == PaySeller(e, x - BondAmount)
<1>8. Fit(f) /\ Unearned(f)
  BY <1>0, <1>2, <1>3, <1>4, <1>6, <1>7, PaidFit, PaySellerMoves, SMT DEF Unearned, SameEarmarks,
         Pays
<1>. QED BY <1>8 DEF e

\* The same on the buyer's side.
LEMMA FundBuyerBondFit ==
  ASSUME NEW d, Fit(d), Unearned(d), NEW x \in Nat, x >= BondAmount
  PROVE  LET e == [d EXCEPT !.balance = @ + x, !.fromBuyer = @ + x,
                            !.buyerBond = BondAmount, !.buyerBondFunded = TRUE]
             f == PayBuyer(e, x - BondAmount)
         IN  Fit(f) /\ Unearned(f)
<1>. DEFINE e == [d EXCEPT !.balance = @ + x, !.fromBuyer = @ + x,
                           !.buyerBond = BondAmount, !.buyerBondFunded = TRUE]
<1>0. d \in Deal /\ BondAmount \in Nat /\ x - BondAmount \in Nat
  BY PricesNat, SMT DEF Fit
<1>1. d.balance + x \in Nat /\ d.fromBuyer + x \in Nat
  BY <1>0, Money, SMT DEF Figures
<1>2. e \in Deal
  BY <1>0, <1>1, Flags, PutNat, PutFlag DEF TakesNat, TakesFlag
<1>3. /\ e.alive = d.alive /\ e.opened = d.opened /\ e.everOpened = d.everOpened
      /\ e.balance = d.balance + x
      /\ e.fromBuyer = d.fromBuyer + x /\ e.fromSeller = d.fromSeller
      /\ e.toBuyer = d.toBuyer /\ e.toSeller = d.toSeller /\ e.burned = d.burned
      /\ e.deposit = d.deposit /\ e.probeTick = d.probeTick
      /\ e.finalizedOwed = d.finalizedOwed /\ e.feeAccrued = d.feeAccrued
      /\ e.sellerBond = d.sellerBond /\ e.buyerBond = BondAmount
  BY <1>0, DealFields DEF HasFields
<1>. HIDE DEF e
<1>4. e.alive /\ Balanced(e)
  BY <1>0, <1>3, Money, SMT DEF Fit, Balanced, Figures
<1>5. Slack(e) = Slack(d) + d.buyerBond + (x - BondAmount) /\ Slack(d) \in Nat
  BY <1>0, <1>3, Money, SMT DEF Slack, Earmarked, Fit, Figures
<1>6. Fit(e) /\ x - BondAmount <= Slack(e)
  BY <1>0, <1>2, <1>4, <1>5, Money, SMT DEF Fit, Figures
<1>7. x - BondAmount <= e.balance
  BY <1>0, <1>2, <1>6, Money, SMT DEF Slack, Earmarked, Figures
<1>. DEFINE f == PayBuyer(e, x - BondAmount)
<1>8. Fit(f) /\ Unearned(f)
  BY <1>0, <1>2, <1>3, <1>4, <1>6, <1>7, PaidFit, PayBuyerMoves, SMT DEF Unearned, SameEarmarks,
         Pays
<1>. QED BY <1>8 DEF e

\* open() freezes one tick of the escrow.
LEMMA OpenSound ==
  ASSUME Sound(deal), now \in Nat, open
  PROVE  Sound(deal') /\ deal'.everOpened
<1>. DEFINE e == [deal EXCEPT !.probeTick = PricePerTick, !.deposit = @ - PricePerTick,
                              !.probeAccepted = FALSE, !.probeTime = now,
                              !.lastClaimTime = now, !.opened = TRUE, !.everOpened = TRUE]
<1>0. deal \in Deal /\ deal.deposit - PricePerTick \in Nat /\ PricePerTick \in Nat
  BY Money, PricesNat, SMT DEF Sound, Fit, open, Figures
<1>1. e \in Deal
  BY <1>0, Flags, PutNat, PutFlag DEF TakesNat, TakesFlag
<1>2. /\ e.alive = deal.alive /\ e.balance = deal.balance
      /\ e.fromBuyer = deal.fromBuyer /\ e.fromSeller = deal.fromSeller
      /\ e.toBuyer = deal.toBuyer /\ e.toSeller = deal.toSeller /\ e.burned = deal.burned
      /\ e.deposit = deal.deposit - PricePerTick /\ e.probeTick = PricePerTick
      /\ e.finalizedOwed = deal.finalizedOwed /\ e.feeAccrued = deal.feeAccrued
      /\ e.sellerBond = deal.sellerBond /\ e.buyerBond = deal.buyerBond
  BY <1>0, DealFields DEF HasFields
<1>3. deal' = e /\ e.everOpened
  BY <1>0 DEF open, Deal
<1>. HIDE DEF e
<1>4. e.alive /\ Balanced(e)
  BY <1>2 DEF Sound, Fit, Balanced
<1>5. Slack(e) >= 0
  BY <1>0, <1>2, Money, SMT DEF Sound, Fit, Slack, Earmarked, Figures
<1>6. Since(e)
  BY <1>2, Money DEF Sound, Since, Figures
<1>. QED BY <1>1, <1>3, <1>4, <1>5, <1>6 DEF Sound, Fit

\* acceptProbe() earns the frozen tick and takes its fee from the escrow.
LEMMA AcceptProbeSound ==
  ASSUME Sound(deal), now \in Nat, acceptProbe
  PROVE  Sound(deal') /\ deal'.everOpened = deal.everOpened
<1>. DEFINE fee == Lesser(Fee(PricePerTick), deal.deposit)
            e == [deal EXCEPT !.finalizedOwed = @ + deal.probeTick,
                              !.feeAccrued = @ + fee, !.deposit = @ - fee,
                              !.probeTick = 0, !.probeAccepted = TRUE,
                              !.periodStart = now,
                              !.tokensPaid = TickSize, !.tokensFinal = TickSize,
                              !.tokensPend = TickSize, !.weekBaseTokens = 0,
                              !.ticksFinalized = 1, !.lastClaimTime = now]
<1>0. deal \in Deal /\ TickSize \in Nat /\ 1 \in Nat
  BY VolumeAssumption DEF Sound, Fit
<1>1. fee \in Nat /\ fee <= deal.deposit
  BY <1>0, PricesNat, FeeNat, Money, SMT DEF Lesser, Figures
<1>2. deal' = e
  BY DEF acceptProbe
<1>. HIDE DEF fee
<1>3. /\ deal.finalizedOwed + deal.probeTick \in Nat /\ deal.feeAccrued + fee \in Nat
      /\ deal.deposit - fee \in Nat
  BY <1>0, <1>1, Money, SMT DEF Figures
<1>4. e \in Deal
  <2>. DEFINE f == [deal EXCEPT !.finalizedOwed = @ + deal.probeTick,
                                !.feeAccrued = @ + fee, !.deposit = @ - fee,
                                !.probeTick = 0, !.probeAccepted = TRUE]
              g == [f EXCEPT !.periodStart = now, !.tokensPaid = TickSize,
                             !.tokensFinal = TickSize, !.tokensPend = TickSize]
  <2>1. f \in Deal
    BY <1>0, <1>3, Flags, PutNat, PutFlag DEF TakesNat, TakesFlag
  <2>2. e = [g EXCEPT !.weekBaseTokens = 0, !.ticksFinalized = 1, !.lastClaimTime = now]
    OBVIOUS
  <2>. HIDE DEF e, f
  <2>3. g \in Deal
    BY <1>0, <2>1, PutNat DEF TakesNat
  <2>. HIDE DEF g
  <2>. QED BY <1>0, <2>2, <2>3, PutNat DEF TakesNat
<1>5. /\ SameFlows(e, deal)
      /\ e.deposit = deal.deposit - fee /\ e.probeTick = 0
      /\ e.finalizedOwed = deal.finalizedOwed + deal.probeTick
      /\ e.feeAccrued = deal.feeAccrued + fee
      /\ e.sellerBond = deal.sellerBond /\ e.buyerBond = deal.buyerBond
  BY <1>0, DealFields DEF SameFlows, HasFields
<1>. HIDE DEF e
<1>6. e.alive /\ Balanced(e)
  BY <1>5 DEF Sound, Fit, Balanced, SameFlows, Since
<1>7. Slack(e) >= 0
  BY <1>0, <1>1, <1>5, Money, SMT DEF Sound, Fit, Slack, Earmarked, SameFlows, Since, Figures
<1>. QED BY <1>2, <1>4, <1>5, <1>6, <1>7 DEF Sound, Fit, SameFlows, Since

\* claimTokens() books the elapsed weeks and records a claim.
LEMMA ClaimSound ==
  ASSUME Sound(deal), now \in Nat, NEW tokens \in Nat, claimTokens(tokens)
  PROVE  Sound(deal') /\ deal'.everOpened = deal.everOpened
<1>. DEFINE settled == SettleBoundaries(deal, WeeksElapsedAt(deal, now))
            promoted == PromoteDue(settled, now)
            e == [promoted EXCEPT !.tokensPend = tokens, !.lastClaimTime = now]
<1>1. Sound(settled) /\ settled.everOpened = deal.everOpened
  BY SettleBoundariesSound, WeeksWithinTerm DEF Sound, Fit
<1>2. deal' = e
  BY DEF claimTokens
<1>. HIDE DEF settled
<1>3. Sound(promoted) /\ promoted \in Deal /\ promoted.everOpened = settled.everOpened
  BY <1>1, PromoteSame, SameMoneySound DEF Sound, Fit
<1>. HIDE DEF promoted
<1>4. e \in Deal /\ SameMoney(e, promoted)
  BY <1>3, PutNat, PutFlag, DealFields DEF SameMoney, SameFlows, SameEarmarks, HasFields,
         TakesNat, TakesFlag
<1>. HIDE DEF e
<1>. QED BY <1>1, <1>2, <1>3, <1>4, SameMoneySound

\* cleanupUnopened() pays both sides out and keeps the contract.
LEMMA CleanupSound ==
  ASSUME Sound(deal), Unearned(deal), NEW byBuyer \in BOOLEAN, cleanupUnopened(byBuyer)
  PROVE  Sound(deal') /\ Unearned(deal')
<1>. DEFINE freed == ReleaseBuyerBond(deal)
            reset == [freed EXCEPT !.deposit = 0, !.sellerBond = 0, !.funded = FALSE,
                                   !.sellerBondFunded = FALSE, !.buyerBondFunded = FALSE,
                                   !.offerPosted = FALSE]
            part == PayBuyer(reset, freed.deposit)
            paid == PaySeller(part, freed.sellerBond)
<1>1. Sound(freed) /\ freed \in Deal
  BY ReleaseBuyerBondSound DEF Sound, Fit
<1>2. deal' = BurnShell(paid, paid.balance)
  BY DEF cleanupUnopened, Unwound
<1>3. /\ freed.buyerBond = 0 /\ freed.probeTick = 0
      /\ freed.finalizedOwed = 0 /\ freed.feeAccrued = 0 /\ ~freed.opened
  <2>1. /\ freed.buyerBond = 0 /\ freed.probeTick = deal.probeTick
        /\ freed.finalizedOwed = deal.finalizedOwed /\ freed.feeAccrued = deal.feeAccrued
        /\ freed.opened = deal.opened
    BY DealFields DEF ReleaseBuyerBond, Sound, Fit, HasFields
  <2>. QED BY <2>1 DEF Unearned, cleanupUnopened, CleanupAllowed
<1>. HIDE DEF freed
<1>4. reset \in Deal
  BY <1>1, Flags, PutNat, PutFlag DEF TakesNat, TakesFlag
<1>5. /\ SameFlows(reset, freed)
      /\ reset.deposit = 0 /\ reset.probeTick = freed.probeTick
      /\ reset.finalizedOwed = freed.finalizedOwed
      /\ reset.feeAccrued = freed.feeAccrued
      /\ reset.sellerBond = 0 /\ reset.buyerBond = freed.buyerBond
      /\ reset.opened = freed.opened
  BY <1>1, DealFields DEF SameFlows, HasFields
<1>. HIDE DEF reset
<1>6. reset.alive /\ Balanced(reset) /\ Since(reset)
  BY <1>1, <1>5 DEF Sound, Fit, Balanced, SameFlows, Since
<1>7. freed.deposit \in Nat /\ freed.sellerBond \in Nat /\ freed.deposit + freed.sellerBond <= reset.balance
  BY <1>1, <1>3, <1>5, Money, SMT DEF Sound, Fit, Slack, Earmarked, SameFlows, Since, Figures
<1>8. /\ part \in Deal /\ part.alive /\ Balanced(part) /\ SameEarmarks(part, reset)
      /\ part.balance = reset.balance - freed.deposit /\ part.opened = reset.opened
      /\ Since(part)
  BY <1>4, <1>6, <1>7, Money, PayBuyerMoves, SMT DEF Figures, Pays
<1>. HIDE DEF part
<1>9. /\ paid \in Deal /\ paid.alive /\ Balanced(paid) /\ SameEarmarks(paid, part)
      /\ paid.opened = part.opened /\ Since(paid)
  BY <1>4, <1>7, <1>8, Money, PaySellerMoves, SMT DEF Figures, Pays
<1>. HIDE DEF paid
<1>. DEFINE e == BurnShell(paid, paid.balance)
<1>10. /\ e \in Deal /\ e.alive /\ Balanced(e) /\ SameEarmarks(e, paid) /\ e.balance = 0
       /\ e.opened = paid.opened /\ Since(e)
  BY <1>9, Money, BurnShellMoves, SMT DEF Figures, Pays
<1>. HIDE DEF e
<1>11. Slack(e) = 0
  BY <1>3, <1>5, <1>8, <1>9, <1>10, SMT DEF Slack, Earmarked, SameEarmarks
<1>12. Unearned(e)
  BY <1>3, <1>5, <1>8, <1>9, <1>10 DEF Unearned, SameEarmarks
<1>. QED BY <1>2, <1>10, <1>11, <1>12, SMT DEF Sound, Fit, e

\* withdrawShell() pays out of the seller's account.
LEMMA WithdrawFits ==
  ASSUME Sound(deal), NEW x \in Nat, withdrawShell(x)
  PROVE  \/ Sound(deal') /\ deal'.everOpened = deal.everOpened
         \/ Over(deal')
<1>. DEFINE e == [deal EXCEPT !.finalizedOwed = @ - x]
            paid == PaySeller(e, x)
<1>0. deal \in Deal /\ deal.finalizedOwed - x \in Nat
  BY Money, SMT DEF Sound, Fit, withdrawShell, Figures
<1>1. e \in Deal
  BY <1>0, PutNat, PutFlag DEF TakesNat, TakesFlag
<1>2. /\ SameFlows(e, deal)
      /\ e.deposit = deal.deposit /\ e.probeTick = deal.probeTick
      /\ e.finalizedOwed = deal.finalizedOwed - x /\ e.feeAccrued = deal.feeAccrued
      /\ e.sellerBond = deal.sellerBond /\ e.buyerBond = deal.buyerBond
  BY <1>0, DealFields DEF SameFlows, HasFields
<1>3. deal' = paid \/ deal' = SweepAndDie(paid)
  BY DEF withdrawShell
<1>. HIDE DEF e
<1>4. e.alive /\ Balanced(e) /\ Since(e)
  BY <1>2 DEF Sound, Fit, Balanced, SameFlows, Since
<1>5. Slack(e) >= 0 /\ x <= Slack(e)
  BY <1>0, <1>2, Money, SMT DEF Sound, Fit, Slack, Earmarked, SameFlows, Since, Figures
<1>6. Sound(e) /\ x <= e.balance
  BY <1>1, <1>4, <1>5, Money, SMT DEF Sound, Fit, Slack, Earmarked, Figures
<1>7. Sound(paid) /\ paid.everOpened = e.everOpened
  BY <1>1, <1>4, <1>5, <1>6, PaidFromSlack, PaySellerMoves DEF Pays
<1>. HIDE DEF paid
<1>. QED BY <1>2, <1>3, <1>7, SweepEnds DEF Sound, Fit, SameFlows, Since

\* destroy() refunds what is owed, returns the bond and ends the deal.
LEMMA DestroyEnds ==
  ASSUME NEW d, Sound(d)
  PROVE  Over(SweepAndDie(DestroyedBeforeSweep(d)))
<1>. DEFINE a == ReleaseProbe(d)
            freed == ReleaseBuyerBond(a)
            e == [freed EXCEPT !.deposit = 0, !.funded = FALSE]
            refunded == PayBuyer(e, freed.deposit)
            last == IF d.funded THEN refunded ELSE d
<1>1. Sound(a)
  BY ReleaseProbeSound
<1>. HIDE DEF a
<1>2. Sound(freed) /\ freed \in Deal /\ freed.deposit \in Nat
  BY <1>1, ReleaseBuyerBondSound, Money DEF Sound, Fit, Figures
<1>. HIDE DEF freed
<1>3. e \in Deal
  BY <1>2, Flags, PutNat, PutFlag DEF TakesNat, TakesFlag
<1>4. /\ SameFlows(e, freed)
      /\ e.deposit = 0 /\ e.probeTick = freed.probeTick
      /\ e.finalizedOwed = freed.finalizedOwed /\ e.feeAccrued = freed.feeAccrued
      /\ e.sellerBond = freed.sellerBond /\ e.buyerBond = freed.buyerBond
  BY <1>2, DealFields DEF SameFlows, HasFields
<1>. HIDE DEF e
<1>5. e.alive /\ Balanced(e) /\ Since(e)
  BY <1>2, <1>4 DEF Sound, Fit, Balanced, SameFlows, Since
<1>6. Slack(e) >= 0 /\ freed.deposit <= Slack(e)
  BY <1>2, <1>4, Money, SMT DEF Sound, Fit, Slack, Earmarked, SameFlows, Since, Figures
<1>7. Sound(refunded)
  BY <1>2, <1>3, <1>5, <1>6, PaidFromSlack DEF Sound, Fit
<1>. HIDE DEF refunded
<1>8. Sound(last)
  BY <1>7
<1>. HIDE DEF last
<1>9. Sound(ReturnBond(last))
  BY <1>8, ReturnBondSound
<1>10. DestroyedBeforeSweep(d) = ReturnBond(last)
  BY DEF DestroyedBeforeSweep, a, freed, e, refunded, last
<1>. QED BY <1>9, <1>10, SweepEnds DEF Sound, Fit

\* Listing an offer, unlisting it and raising a dispute touch no money and do
\* not open the stream.
LEMMA FlagsMoveNothing ==
  ASSUME Sound(deal), Unearned(deal), now \in Nat, postFromNote \/ onSellClosed \/ dispute
  PROVE  Sound(deal') /\ Unearned(deal')
<1>1. deal \in Deal
  BY DEF Sound, Fit
<1>2. /\ deal' \in Deal /\ SameMoney(deal', deal)
      /\ deal'.opened = deal.opened
  <2>1. CASE postFromNote
    <3>. DEFINE flag == deal.offerPosted \/ ~deal.funded
                e == [deal EXCEPT !.noteAuthorized = TRUE, !.offerPosted = flag]
    <3>1. flag \in Flag
      BY DEF Flag
    <3>2. e \in Deal /\ SameMoney(e, deal) /\ e.opened = deal.opened
      <4>. HIDE DEF flag
      <4>. QED BY <1>1, <3>1, Flags, PutNat, PutFlag, DealFields DEF SameMoney, SameFlows, SameEarmarks,
                      HasFields, TakesNat, TakesFlag
    <3>3. deal' = e
      BY <2>1 DEF postFromNote
    <3>. HIDE DEF e
    <3>. QED BY <3>2, <3>3
  <2>2. CASE onSellClosed
    <3>. DEFINE e == [deal EXCEPT !.offerPosted = FALSE]
    <3>1. e \in Deal /\ SameMoney(e, deal) /\ e.opened = deal.opened
      BY <1>1, Flags, PutNat, PutFlag, DealFields DEF SameMoney, SameFlows, SameEarmarks,
             HasFields, TakesNat, TakesFlag
    <3>2. deal' = e
      BY <2>2 DEF onSellClosed
    <3>. HIDE DEF e
    <3>. QED BY <3>1, <3>2
  <2>3. CASE dispute
    <3>. DEFINE e == [deal EXCEPT !.disputed = TRUE, !.everDisputed = TRUE,
                                  !.disputeTime = now]
    <3>1. e \in Deal /\ SameMoney(e, deal) /\ e.opened = deal.opened
      BY <1>1, Flags, PutNat, PutFlag, DealFields DEF SameMoney, SameFlows, SameEarmarks,
             HasFields, TakesNat, TakesFlag
    <3>2. deal' = e
      BY <2>3 DEF dispute
    <3>. HIDE DEF e
    <3>. QED BY <3>1, <3>2
  <2>. QED BY <2>1, <2>2, <2>3
<1>3. Sound(deal')
  BY <1>1, <1>2, SameMoneySound
<1>4. Unearned(deal')
  BY <1>2 DEF Unearned, SameMoney, SameFlows, SameEarmarks
<1>. QED BY <1>3, <1>4

\* finalize() promotes the claim, or closes an ordinary deal whose whole volume
\* is trusted.
LEMMA FinalizeFits ==
  ASSUME Sound(deal), now \in Nat, finalize
  PROVE  (Sound(deal') /\ deal'.everOpened = deal.everOpened) \/ Over(deal')
<1>. DEFINE promoted == PromoteDue(deal, now)
<1>1. Sound(promoted) /\ promoted.everOpened = deal.everOpened
  BY PromoteSame, SameMoneySound DEF Sound, Fit
<1>2. deal' = promoted \/ deal' = PayFinalAndClose(promoted)
  BY DEF finalize, FinalizeDue
<1>. HIDE DEF promoted
<1>. QED BY <1>1, <1>2, PayFinalEnds

\* settleWeek() books the weeks that ended, or closes a finished term.
LEMMA SettleWeekFits ==
  ASSUME Sound(deal), now \in Nat, settleWeek
  PROVE  (Sound(deal') /\ deal'.everOpened = deal.everOpened) \/ Over(deal')
<1>. DEFINE settled == SettleBoundaries(deal, WeeksElapsedAt(deal, now))
            promoted == PromoteDue(settled, now)
<1>1. Sound(settled) /\ settled.everOpened = deal.everOpened
  BY SettleBoundariesSound, WeeksWithinTerm DEF Sound, Fit
<1>2. deal' = settled \/ deal' = PayFinalAndClose(promoted)
  BY DEF settleWeek, WeekSettled
<1>3. Sound(promoted)
  <2>. HIDE DEF settled
  <2>. QED BY <1>1, PromoteSame, SameMoneySound DEF Sound, Fit
<1>. HIDE DEF settled, promoted
<1>. QED BY <1>1, <1>2, <1>3, PayFinalEnds

-----------------------------------------------------------------------------
(* The inductive invariant                                                 *)

\* The constructor's storage satisfies the invariant.
LEMMA MoneyInit == Init => MoneyInv
<1>. SUFFICES ASSUME Init PROVE MoneyInv
  OBVIOUS
<1>1. NewDeal \in Deal
  <2>1. /\ 0 \in Nat /\ 0 \in {0, SUB_WEEKS} /\ 0 \in 0 .. SUB_WEEKS
        /\ NoBuyer \in Buyers \cup {NoBuyer}
    BY SMTT(20) DEF SUB_WEEKS
  <2>. QED BY <2>1, Flags, ZenonT(60) DEF NewDeal, Deal
<1>2. Balanced(NewDeal) /\ Slack(NewDeal) = 0 /\ Unearned(NewDeal) /\ NewDeal.alive
  <2>1. /\ NewDeal.fromBuyer = 0 /\ NewDeal.fromSeller = 0 /\ NewDeal.balance = 0
        /\ NewDeal.toBuyer = 0 /\ NewDeal.toSeller = 0 /\ NewDeal.burned = 0
    BY ZenonT(60) DEF NewDeal
  <2>2. /\ NewDeal.deposit = 0 /\ NewDeal.probeTick = 0 /\ NewDeal.finalizedOwed = 0
        /\ NewDeal.feeAccrued = 0 /\ NewDeal.sellerBond = 0 /\ NewDeal.buyerBond = 0
    BY ZenonT(60) DEF NewDeal
  <2>3. NewDeal.alive /\ ~NewDeal.opened
    BY ZenonT(60) DEF NewDeal
  <2>. HIDE DEF NewDeal
  <2>. QED BY <2>1, <2>2, <2>3, SMTT(20) DEF Balanced, Slack, Earmarked, Unearned
<1>3. deal = NewDeal /\ now = 0
  BY DEF Init
<1>. HIDE DEF NewDeal
<1>. QED BY <1>1, <1>2, <1>3, SMTT(20) DEF MoneyInv, TypeOK

\* Every public entry of a live deal leaves a sound record or a finished one.
LEMMA EntryFits ==
  ASSUME Sound(deal), Unearned(deal), now \in Nat, Next
  PROVE  /\ (Fit(deal') /\ Unearned(deal')) \/ Over(deal')
         /\ now' \in Nat
<1>0. Fit(deal) /\ (Sound(deal') => Fit(deal'))
  BY DEF Sound
<1>1. now' \in Nat
  <2>1. CASE Tick
    BY <2>1, SMTT(20) DEF Tick
  <2>2. CASE ~Tick
    BY <2>2 DEF Next, postFromNote, onSellClosed, fundFromOrderBook, fundDeal,
                fundBuyerBond, close, open, acceptProbe, claimTokens, finalize,
                settleWeek, stop, sellerStop, dispute, releaseDispute,
                resolveDisputeTimeout, cleanupUnopened, withdrawShell, destroy
  <2>. QED BY <2>1, <2>2
<1>2. CASE postFromNote \/ onSellClosed \/ dispute
  BY <1>0, <1>1, <1>2, FlagsMoveNothing
<1>3. CASE \E b \in Buyers, sub \in SubscriptionDeals, ticks \in HandoverTicks :
             fundFromOrderBook(b, sub, ticks)
  <2>. PICK b \in Buyers, sub \in SubscriptionDeals, ticks \in HandoverTicks :
         fundFromOrderBook(b, sub, ticks)
    BY <1>3
  <2>. DEFINE paid == ticks * UnitPrice + (IF sub THEN BondAmount ELSE 0)
  <2>1. paid \in Nat /\ sub \in BOOLEAN
    BY InputAssumption, PricesNat, SMTT(20)
  <2>2. deal' = Handover(deal, b, sub, paid, now)
    BY DEF fundFromOrderBook
  <2>. HIDE DEF paid
  <2>. QED BY <1>0, <1>1, <2>1, <2>2, HandoverFit
<1>4. CASE \E amount \in BondAmounts : fundDeal(amount)
  <2>. PICK amount \in BondAmounts : fundDeal(amount)
    BY <1>4
  <2>1. amount \in Nat /\ amount >= BondAmount
    BY InputAssumption DEF fundDeal
  <2>. QED BY <1>0, <1>1, <2>1, FundDealFit DEF fundDeal
<1>5. CASE \E b \in Buyers, amount \in BondAmounts : fundBuyerBond(b, amount)
  <2>. PICK b \in Buyers, amount \in BondAmounts : fundBuyerBond(b, amount)
    BY <1>5
  <2>1. amount \in Nat /\ amount >= BondAmount
    BY InputAssumption DEF fundBuyerBond
  <2>. QED BY <1>0, <1>1, <2>1, FundBuyerBondFit DEF fundBuyerBond
<1>6. CASE close
  <2>1. deal' = SweepAndDie(ReturnBond(deal))
    BY <1>6 DEF close
  <2>2. Sound(ReturnBond(deal))
    BY ReturnBondSound
  <2>. QED BY <1>0, <1>1, <2>1, <2>2, SweepEnds DEF Sound, Fit
<1>7. CASE open
  BY <1>0, <1>1, <1>7, OpenSound DEF Unearned
<1>8. CASE acceptProbe
  <2>1. deal.everOpened
    BY <1>8 DEF acceptProbe, Unearned
  <2>. QED BY <1>0, <1>1, <1>8, <2>1, AcceptProbeSound DEF Unearned
<1>9. CASE \E tokens \in 1 .. deal.fundedTokens : claimTokens(tokens)
  <2>. PICK tokens \in 1 .. deal.fundedTokens : claimTokens(tokens)
    BY <1>9
  <2>1. tokens \in Nat
    BY Counters, SMTT(20) DEF Sound, Fit, Counts
  <2>2. deal.everOpened
    BY DEF claimTokens, Unearned
  <2>. QED BY <1>0, <1>1, <2>1, <2>2, ClaimSound DEF Unearned
<1>10. CASE finalize
  <2>1. deal.everOpened
    BY <1>10 DEF finalize, FinalizeDue, Unearned
  <2>. QED BY <1>0, <1>1, <1>10, <2>1, FinalizeFits DEF Unearned
<1>11. CASE settleWeek
  <2>1. deal.everOpened
    BY <1>11 DEF settleWeek, WeekDue, Unearned
  <2>. QED BY <1>0, <1>1, <1>11, <2>1, SettleWeekFits DEF Unearned
<1>12. CASE stop
  BY <1>1, <1>12, StoppedEnds DEF stop
<1>13. CASE sellerStop
  BY <1>1, <1>13, SellerStoppedEnds DEF sellerStop
<1>14. CASE releaseDispute
  BY <1>1, <1>14, ReleasedEnds DEF releaseDispute
<1>15. CASE resolveDisputeTimeout
  BY <1>1, <1>15, TimedOutEnds DEF resolveDisputeTimeout
<1>16. CASE \E byBuyer \in BOOLEAN : cleanupUnopened(byBuyer)
  BY <1>0, <1>1, <1>16, CleanupSound
<1>17. CASE \E amount \in WithdrawAmounts : withdrawShell(amount)
  <2>. PICK amount \in WithdrawAmounts : withdrawShell(amount)
    BY <1>17
  <2>1. amount \in Nat
    BY InputAssumption
  <2>2. deal.finalizedOwed # 0
    BY <2>1, Money, SMTT(20) DEF withdrawShell, Sound, Fit, Figures
  <2>3. deal.everOpened
    BY <2>2 DEF Unearned
  <2>. QED BY <1>0, <1>1, <2>1, <2>3, WithdrawFits DEF Unearned
<1>18. CASE destroy
  BY <1>1, <1>18, DestroyEnds DEF destroy
<1>19. CASE Tick
  BY <1>0, <1>1, <1>19 DEF Tick
<1>. QED BY <1>2, <1>3, <1>4, <1>5, <1>6, <1>7, <1>8, <1>9, <1>10, <1>11, <1>12,
            <1>13, <1>14, <1>15, <1>16, <1>17, <1>18, <1>19 DEF Next

\* Every step preserves the invariant; a dead account takes none.
LEMMA MoneyStep == MoneyInv /\ [Next]_vars => MoneyInv'
<1>. SUFFICES ASSUME MoneyInv, [Next]_vars PROVE MoneyInv'
  OBVIOUS
<1>1. CASE UNCHANGED vars
  BY <1>1 DEF vars, MoneyInv, TypeOK, Balanced, Slack, Earmarked, Unearned
<1>2. CASE Next
  <2>1. deal.alive
    BY <1>2 DEF Next, postFromNote, onSellClosed, fundFromOrderBook, fundDeal,
                fundBuyerBond, close, open, acceptProbe, claimTokens, finalize,
                settleWeek, stop, sellerStop, dispute, releaseDispute, Tick,
                resolveDisputeTimeout, cleanupUnopened, withdrawShell, destroy,
                FinalizeDue, WeekDue, DisputeExpired, CleanupAllowed
  <2>2. Sound(deal) /\ Unearned(deal) /\ now \in Nat
    BY <2>1, Money, SMTT(20) DEF MoneyInv, TypeOK, Sound, Fit, Since, Figures
  <2>3. ((Fit(deal') /\ Unearned(deal')) \/ Over(deal')) /\ now' \in Nat
    BY <1>2, <2>2, EntryFits
  <2>. QED BY <2>3 DEF Fit, Over, MoneyInv, TypeOK, Balanced, Slack, Earmarked, Unearned
<1>. QED BY <1>1, <1>2

\* The money of a deal is in order in every reachable state.
THEOREM MoneyAlways == Spec => []MoneyInv
BY MoneyInit, MoneyStep, PTL DEF Spec

\* Every figure of the contract stays in its unsigned range, whatever the
\* price, the volume and the inputs: no settlement path can underflow.
THEOREM TypeCorrect == Spec => []TypeOK
<1>1. MoneyInv => TypeOK
  BY DEF MoneyInv
<1>. QED BY <1>1, MoneyAlways, PTL

\* A live deal always covers what it has promised to the two sides: _balance is
\* the total and the earmarks lie within it.
THEOREM Solvency == Spec => []Solvent
<1>1. MoneyInv => Solvent
  BY Money, SMTT(20) DEF MoneyInv, TypeOK, Solvent, Slack, Earmarked, Figures
<1>. QED BY <1>1, MoneyAlways, PTL

\* Nothing is minted and nothing vanishes on any path through the contract: what
\* came in is held, was paid out or was burned, and a dead deal holds nothing.
THEOREM Conservation == Spec => []Conserved
<1>1. MoneyInv => Conserved
  BY DEF MoneyInv, Balanced, Conserved
<1>. QED BY <1>1, MoneyAlways, PTL

-----------------------------------------------------------------------------
(* Helpers that only move earmarks and counters                            *)

\* Inward steps compose.
LEMMA InwardTrans ==
  ASSUME NEW a, NEW b, NEW c, Inward(a, b), Inward(b, c)
  PROVE  Inward(a, c)
BY DEF Inward, SameFace, SameFlows

\* Doing nothing is one.
LEMMA InwardSelf == ASSUME NEW a PROVE Inward(a, a)
BY DEF Inward, SameFace, SameFlows

\* So is charging the escrow.
LEMMA ChargeEscrowInward ==
  ASSUME NEW d \in Deal, NEW n
  PROVE  Inward(ChargeEscrow(d, n), d)
<1>1. ASSUME NEW x, NEW y, NEW z
      PROVE  Inward([d EXCEPT !.deposit = x, !.finalizedOwed = y, !.feeAccrued = z], d)
  BY DealFields DEF Inward, SameFace, SameFlows, HasFields
<1>. QED BY <1>1 DEF ChargeEscrow

\* Trusting a claim, recording the delivery and reporting it are too.
LEMMA CountersInward ==
  ASSUME NEW d \in Deal
  PROVE  /\ \A t : Inward(PromoteDue(d, t), d)
         /\ Inward(RecordDelivered(d), d)
         /\ Inward(ReportFinalized(d), d)
<1>1. ASSUME NEW n PROVE Inward([d EXCEPT !.tokensFinal = n], d)
  BY DealFields DEF Inward, SameFace, SameFlows, HasFields
<1>2. ASSUME NEW n PROVE Inward([d EXCEPT !.ticksFinalized = n], d)
  BY DealFields DEF Inward, SameFace, SameFlows, HasFields
<1>3. ASSUME NEW n PROVE Inward([d EXCEPT !.reported = n], d)
  BY DealFields DEF Inward, SameFace, SameFlows, HasFields
<1>4. Inward(d, d)
  BY InwardSelf
<1>5. \A t : Inward(PromoteDue(d, t), d)
  BY <1>1, <1>4 DEF PromoteDue, Promote
<1>6. Inward(RecordDelivered(d), d)
  BY <1>2 DEF RecordDelivered
<1>7. Inward(ReportFinalized(d), d)
  BY <1>3, <1>4 DEF ReportFinalized
<1>. QED BY <1>5, <1>6, <1>7

\* One week of the loop.
LEMMA ChargeWeekInward ==
  ASSUME NEW d, Sound(d), NEW target
  PROVE  Inward(ChargeWeekIfBefore(d, target), d)
<1>. DEFINE n == Greater((d.weekIndex + 1) * d.tokensPerWeek - d.tokensPaid, 0)
            c == ChargeEscrow(d, n)
<1>0. d \in Deal
  BY DEF Sound, Fit
<1>1. n \in Nat
  BY <1>0, Counters, SMTT(20) DEF Greater, SUB_WEEKS, Counts
<1>. HIDE DEF n
<1>2. c \in Deal /\ Inward(c, d)
  BY <1>0, <1>1, ChargeEscrowSound, ChargeEscrowInward DEF Sound, Fit
<1>. HIDE DEF c
<1>3. ASSUME NEW x, NEW y, NEW z
      PROVE  Inward([c EXCEPT !.tokensPaid = x, !.weekIndex = y, !.weekBaseTokens = z], c)
  BY <1>2, DealFields DEF Inward, SameFace, SameFlows, HasFields
<1>. DEFINE week == [c EXCEPT !.tokensPaid = (d.weekIndex + 1) * d.tokensPerWeek,
                              !.weekIndex = c.weekIndex + 1,
                              !.weekBaseTokens = Greater(d.tokensFinal, d.tokensPend)]
<1>4. Inward(week, c)
  BY <1>3
<1>5. ChargeWeekIfBefore(d, target) = d \/ ChargeWeekIfBefore(d, target) = week
  BY DEF ChargeWeekIfBefore, ChargeWeek, c, n
<1>. HIDE DEF week
<1>. QED BY <1>2, <1>4, <1>5, InwardTrans, InwardSelf, SMTT(20)

\* _settleBoundaries books weeks without touching the face of the deal.
LEMMA BoundariesInward ==
  ASSUME NEW d, Sound(d), NEW due \in Int, due <= SUB_WEEKS
  PROVE  Inward(SettleBoundaries(d, due), d)
<1>. DEFINE w1 == ChargeWeekIfBefore(d, due)
            w2 == ChargeWeekIfBefore(w1, due)
            w3 == ChargeWeekIfBefore(w2, due)
            w4 == ChargeWeekIfBefore(w3, due)
            c == ChargeWeeksThrough(d, due)
            e == RecordDelivered(c)
<1>1. Sound(w1) /\ Inward(w1, d)
  BY ChargeWeekSound, ChargeWeekInward
<1>2. c = d \/ c = w4
  BY DEF ChargeWeeksThrough
<1>. HIDE DEF w1
<1>3. Sound(w2) /\ Inward(w2, w1)
  BY <1>1, ChargeWeekSound, ChargeWeekInward
<1>. HIDE DEF w2
<1>4. Sound(w3) /\ Inward(w3, w2)
  BY <1>3, ChargeWeekSound, ChargeWeekInward
<1>. HIDE DEF w3
<1>5. Inward(w4, w3)
  BY <1>4, ChargeWeekInward
<1>. HIDE DEF w4
<1>6. Inward(w4, d)
  BY <1>1, <1>3, <1>4, <1>5, InwardTrans
<1>7. c \in Deal
  BY ChargeWeeksSound DEF Sound, Fit
<1>8. Inward(c, d)
  BY <1>2, <1>6, InwardSelf
<1>9. SettleBoundaries(d, due) = d \/ SettleBoundaries(d, due) = ReportFinalized(e)
  BY DEF SettleBoundaries
<1>. HIDE DEF c
<1>10. e \in Deal /\ Inward(e, c)
  BY <1>7, RecordDeliveredSame, CountersInward
<1>. HIDE DEF e
<1>11. Inward(ReportFinalized(e), e)
  BY <1>10, CountersInward
<1>. QED BY <1>8, <1>9, <1>10, <1>11, InwardTrans, InwardSelf, SMTT(20)

-----------------------------------------------------------------------------
(* Payments and the offer's entries                                        *)

\* A payment changes the money of a deal, not its face.
LEMMA PaymentsFace ==
  ASSUME NEW d \in Deal, NEW x \in Int
  PROVE  /\ PaidOut(PayBuyer(d, x), d, x, 0, 0) /\ PaidOut(PaySeller(d, x), d, 0, x, 0)
         /\ PaidOut(BurnShell(d, x), d, 0, 0, x)
<1>1. /\ d.balance - x - 0 - 0 = d.balance - x /\ d.balance - 0 - x - 0 = d.balance - x
      /\ d.balance - 0 - 0 - x = d.balance - x
      /\ d.toBuyer + 0 = d.toBuyer /\ d.toSeller + 0 = d.toSeller /\ d.burned + 0 = d.burned
  BY Money, SMTT(20) DEF Figures
<1>2. PaidOut(PayBuyer(d, x), d, x, 0, 0)
  <2>. DEFINE y == d.balance - x
              z == d.toBuyer + x
              e == [d EXCEPT !.balance = y, !.toBuyer = z]
  <2>. HIDE DEF y, z
  <2>1. /\ SameFace(e, d) /\ SameTerms(e, d) /\ e.alive = d.alive
        /\ e.everOpened = d.everOpened /\ e.balance = y /\ e.toBuyer = z
        /\ e.fromBuyer = d.fromBuyer /\ e.fromSeller = d.fromSeller
        /\ e.toSeller = d.toSeller /\ e.burned = d.burned
    BY DealFields DEF SameFace, SameTerms, HasFields
  <2>2. PayBuyer(d, x) = e
    BY DEF PayBuyer, y, z
  <2>. HIDE DEF e
  <2>. QED BY <1>1, <2>1, <2>2 DEF PaidOut, y, z
<1>3. PaidOut(PaySeller(d, x), d, 0, x, 0)
  <2>. DEFINE y == d.balance - x
              z == d.toSeller + x
              e == [d EXCEPT !.balance = y, !.toSeller = z]
  <2>. HIDE DEF y, z
  <2>1. /\ SameFace(e, d) /\ SameTerms(e, d) /\ e.alive = d.alive
        /\ e.everOpened = d.everOpened /\ e.balance = y /\ e.toSeller = z
        /\ e.fromBuyer = d.fromBuyer /\ e.fromSeller = d.fromSeller
        /\ e.toBuyer = d.toBuyer /\ e.burned = d.burned
    BY DealFields DEF SameFace, SameTerms, HasFields
  <2>2. PaySeller(d, x) = e
    BY DEF PaySeller, y, z
  <2>. HIDE DEF e
  <2>. QED BY <1>1, <2>1, <2>2 DEF PaidOut, y, z
<1>4. PaidOut(BurnShell(d, x), d, 0, 0, x)
  <2>. DEFINE y == d.balance - x
              z == d.burned + x
              e == [d EXCEPT !.balance = y, !.burned = z]
  <2>. HIDE DEF y, z
  <2>1. /\ SameFace(e, d) /\ SameTerms(e, d) /\ e.alive = d.alive
        /\ e.everOpened = d.everOpened /\ e.balance = y /\ e.burned = z
        /\ e.fromBuyer = d.fromBuyer /\ e.fromSeller = d.fromSeller
        /\ e.toBuyer = d.toBuyer /\ e.toSeller = d.toSeller
    BY DealFields DEF SameFace, SameTerms, HasFields
  <2>2. BurnShell(d, x) = e
    BY DEF BurnShell, y, z
  <2>. HIDE DEF e
  <2>. QED BY <1>1, <2>1, <2>2 DEF PaidOut, y, z
<1>. QED BY <1>2, <1>3, <1>4

-----------------------------------------------------------------------------
(* The abstract record                                                     *)

\* Abstract records with the same fields are the same.
LEMMA CardEqual ==
  ASSUME NEW p \in Card, NEW q \in Card, SameCard(p, q)
  PROVE  p = q
BY SMTT(20) DEF Card, SameCard

\* The fields of the abstract record of a live deal.
LEMMA Seen ==
  ASSUME NEW d \in Deal, d.alive
  PROVE  SeenAs(PromiseOf(d), d)
<1>. DEFINE phase == IF d.opened THEN "open" ELSE IF d.funded THEN "matched" ELSE "idle"
            escrow == IF d.funded /\ ~d.opened
                      THEN d.deposit + (IF IsSubscription(d) THEN d.buyerBond ELSE 0) ELSE 0
<1>1. phase \in Promise!Phases
  BY DEF Promise!Phases
<1>2. escrow \in Int /\ d.balance \in Int
  BY Money, SMTT(20) DEF Figures
<1>3. /\ d.noteAuthorized \in Flag /\ d.offerPosted \in Flag
      /\ d.sellerBondFunded \in Flag /\ d.buyerBondFunded \in Flag
      /\ d.buyer \in Buyers \cup {NoBuyer}
  BY DEF Deal
<1>4. PromiseOf(d) = [
        phase |-> phase, listed |-> d.noteAuthorized, offered |-> d.offerPosted,
        buyer |-> d.buyer, sellerBonded |-> d.sellerBondFunded,
        buyerBonded |-> d.buyerBondFunded, held |-> d.balance, escrow |-> escrow]
  BY DEF PromiseOf
<1>. HIDE DEF phase, escrow
<1>5. PromiseOf(d) \in Card
  BY <1>1, <1>2, <1>3, <1>4, SMTT(20) DEF Card
<1>6. /\ PromiseOf(d).phase = phase /\ PromiseOf(d).escrow = escrow
      /\ PromiseOf(d).listed = d.noteAuthorized /\ PromiseOf(d).offered = d.offerPosted
      /\ PromiseOf(d).buyer = d.buyer /\ PromiseOf(d).sellerBonded = d.sellerBondFunded
      /\ PromiseOf(d).buyerBonded = d.buyerBondFunded /\ PromiseOf(d).held = d.balance
  BY <1>4, SMTT(20)
<1>. QED BY <1>5, <1>6 DEF phase, escrow, SeenAs

\* A dead one shows nothing but its end.
LEMMA SeenDead ==
  ASSUME NEW d, ~d.alive
  PROVE  PromiseOf(d) = Promise!DeadDeal /\ PromiseOf(d).held = 0
<1>1. PromiseOf(d) = Public!DeadDeal
  BY DEF PromiseOf
<1>2. Public!DeadDeal = Promise!DeadDeal
  BY DEF Public!DeadDeal, Promise!DeadDeal, Public!IdleDeal, Promise!IdleDeal,
         Public!NoBuyer, Promise!NoBuyer
<1>3. Promise!DeadDeal.held = 0
  BY DEF Promise!DeadDeal, Promise!IdleDeal
<1>. QED BY <1>1, <1>2, <1>3

\* Listing, and closing an offer.
LEMMA ListedCard ==
  ASSUME NEW p \in Card, NEW x \in Flag
  PROVE  ListsCard(p, x)
BY Flags, ZenonT(60) DEF Card, ListsCard

\* A match, field by field.
LEMMA MatchedCard ==
  ASSUME NEW p \in Card, NEW b \in Buyers, NEW k \in Int, NEW x \in Flag
  PROVE  IsMatched(Promise!Matched(p, b, k, x), p, b, k, x)
<1>. DEFINE y == p.buyerBonded \/ x
            n == p.held + k
            q == [p EXCEPT !.phase = "matched", !.buyer = b, !.offered = FALSE,
                           !.buyerBonded = y, !.held = n, !.escrow = k]
<1>1. "matched" \in Promise!Phases /\ b \in Buyers \cup {NoBuyer}
  BY DEF Promise!Phases
<1>2. n \in Int
  BY SMTT(20) DEF Card
<1>3. y \in Flag
  BY DEF Flag
<1>4. Promise!Matched(p, b, k, x) = q
  BY DEF Promise!Matched
<1>. HIDE DEF y, n
<1>5. /\ q \in Card
      /\ q.phase = "matched" /\ q.buyer = b /\ q.offered = FALSE
      /\ q.buyerBonded = y /\ q.held = n /\ q.escrow = k
      /\ q.listed = p.listed /\ q.sellerBonded = p.sellerBonded
  BY <1>1, <1>2, <1>3, Flags, ZenonT(60) DEF Card
<1>. HIDE DEF q
<1>. QED BY <1>4, <1>5 DEF y, n, IsMatched

\* A record that differs in a bond and in what is held shows that bond taken.
LEMMA BondedCard ==
  ASSUME NEW p \in Card, NEW q \in Card, SameListing(q, p),
         q.phase = p.phase, q.escrow = p.escrow
  PROVE  BondsCard(q, p)
<1>. DEFINE n == q.held
            e == [p EXCEPT !.sellerBonded = TRUE, !.held = n]
            f == [p EXCEPT !.buyerBonded = TRUE, !.held = n]
            g == [p EXCEPT !.held = n]
<1>1. n \in Int /\ p.held + (q.held - p.held) = n
  BY SMTT(20) DEF Card
<1>2. /\ Promise!SellerBonded(p, q.held - p.held) = e
      /\ Promise!BuyerBonded(p, q.held - p.held) = f
  BY <1>1 DEF Promise!SellerBonded, Promise!BuyerBonded
<1>. HIDE DEF n
<1>3. /\ e \in Card /\ e.sellerBonded = TRUE /\ e.buyerBonded = p.buyerBonded
      /\ e.held = n /\ e.phase = p.phase /\ SameListing(e, p) /\ e.escrow = p.escrow
  BY <1>1, Flags, ZenonT(60) DEF Card, SameListing
<1>4. /\ f \in Card /\ f.buyerBonded = TRUE /\ f.sellerBonded = p.sellerBonded
      /\ f.held = n /\ f.phase = p.phase /\ SameListing(f, p) /\ f.escrow = p.escrow
  BY <1>1, Flags, ZenonT(60) DEF Card, SameListing
<1>5. /\ g \in Card /\ g.buyerBonded = p.buyerBonded /\ g.sellerBonded = p.sellerBonded
      /\ g.held = n /\ g.phase = p.phase /\ SameListing(g, p) /\ g.escrow = p.escrow
  BY <1>1, ZenonT(60) DEF Card, SameListing
<1>. HIDE DEF e, f, g
<1>6. q.held = n
  BY DEF n
<1>7. q.sellerBonded = TRUE /\ q.buyerBonded = p.buyerBonded => SameCard(q, e)
  BY <1>3, <1>6 DEF SameCard, SameListing
<1>8. q.buyerBonded = TRUE /\ q.sellerBonded = p.sellerBonded => SameCard(q, f)
  BY <1>4, <1>6 DEF SameCard, SameListing
<1>9. q.buyerBonded = p.buyerBonded /\ q.sellerBonded = p.sellerBonded => SameCard(q, g)
  BY <1>5, <1>6 DEF SameCard, SameListing
<1>. QED BY <1>2, <1>3, <1>4, <1>5, <1>7, <1>8, <1>9, CardEqual DEF n, g, BondsCard

\* One that only moved to the open phase is opened, one that was reset is unwound.
LEMMA OpenedCard ==
  ASSUME NEW p \in Card, NEW q \in Card, q.listed = p.listed, q.buyer = p.buyer,
         q.escrow = 0
  PROVE  OpensCard(q, p)
<1>. DEFINE e == [p EXCEPT !.phase = "open", !.escrow = 0]
            f == [p EXCEPT !.phase = "idle", !.offered = FALSE, !.sellerBonded = FALSE,
                           !.buyerBonded = FALSE, !.held = 0, !.escrow = 0]
<1>1. "open" \in Promise!Phases /\ "idle" \in Promise!Phases /\ 0 \in Int
  BY SMTT(20) DEF Promise!Phases
<1>2. Promise!Opened(p) = e /\ Promise!Unwound(p) = f
  BY DEF Promise!Opened, Promise!Unwound
<1>3. /\ e \in Card /\ e.phase = "open" /\ e.escrow = 0 /\ SameListing(e, p)
      /\ e.held = p.held
      /\ e.sellerBonded = p.sellerBonded /\ e.buyerBonded = p.buyerBonded
  BY <1>1, ZenonT(60) DEF Card, SameListing
<1>4. /\ f \in Card /\ f.phase = "idle" /\ f.offered = FALSE
      /\ f.sellerBonded = FALSE /\ f.buyerBonded = FALSE
      /\ f.held = 0 /\ f.escrow = 0 /\ f.listed = p.listed /\ f.buyer = p.buyer
  BY <1>1, Flags, ZenonT(60) DEF Card
<1>. HIDE DEF e, f
<1>5. /\ q.phase = "open" /\ q.offered = p.offered /\ q.held = p.held
      /\ q.sellerBonded = p.sellerBonded /\ q.buyerBonded = p.buyerBonded
      => SameCard(q, e)
  BY <1>3 DEF SameCard, SameListing
<1>6. /\ q.phase = "idle" /\ q.offered = FALSE /\ q.held = 0
      /\ q.sellerBonded = FALSE /\ q.buyerBonded = FALSE
      => SameCard(q, f)
  BY <1>4 DEF SameCard
<1>. QED BY <1>2, <1>3, <1>4, <1>5, <1>6, CardEqual DEF OpensCard

-----------------------------------------------------------------------------
(* Steps of the promise                                                    *)

\* With the money balanced on both sides of a step, payments that only grow are
\* all the accounting there is.
LEMMA AccountedStep ==
  ASSUME MoneyInv, MoneyInv',
         deal'.fromBuyer + deal'.fromSeller >= deal.fromBuyer + deal.fromSeller,
         deal'.toBuyer >= deal.toBuyer, deal'.toSeller >= deal.toSeller,
         deal'.burned >= deal.burned
  PROVE  Promise!Accounted
<1>1. deal \in Deal /\ deal' \in Deal /\ Balanced(deal) /\ Balanced(deal')
  BY DEF MoneyInv, TypeOK, Balanced
<1>2. /\ PromiseOf(deal).held = deal.balance /\ PromiseOf(deal').held = deal'.balance
      /\ FlowOf(deal).brought = deal.fromBuyer + deal.fromSeller
      /\ FlowOf(deal').brought = deal'.fromBuyer + deal'.fromSeller
      /\ FlowOf(deal).toBuyer = deal.toBuyer /\ FlowOf(deal').toBuyer = deal'.toBuyer
      /\ FlowOf(deal).toSeller = deal.toSeller /\ FlowOf(deal').toSeller = deal'.toSeller
      /\ FlowOf(deal).burned = deal.burned /\ FlowOf(deal').burned = deal'.burned
  BY <1>1, Seen, SeenDead DEF FlowOf, MoneyInv, SeenAs
<1>. QED BY <1>1, <1>2, Money, SMTT(20) DEF Promise!Accounted, Balanced, Figures

\* A step within an open stream is nothing to the others.
LEMMA StutterStep ==
  ASSUME deal.alive, deal.opened, Phased(deal), deal \in Deal, Inward(deal', deal)
  PROVE  Kept
<1>1. Phased(deal')
  BY DEF Phased, Inward, SameFace, SameFlows
<1>2. PromiseOf(deal') = PromiseOf(deal) /\ FlowOf(deal') = FlowOf(deal)
  BY DEF PromiseOf, FlowOf, Inward, SameFace, SameFlows
<1>3. UNCHANGED Promise!vars
  BY <1>2 DEF Promise!vars, PromiseOf, FlowOf
<1>. QED BY <1>1, <1>3 DEF Kept

\* The end of a deal: an unopened match has been refunded.
LEMMA EndStep ==
  ASSUME MoneyInv, MoneyInv', deal.alive, Phased(deal), ~deal.offerPosted, Over(deal'),
         deal'.toBuyer >= deal.toBuyer + PromiseOf(deal).escrow
  PROVE  Kept
<1>1. deal \in Deal /\ deal' \in Deal
  BY DEF MoneyInv, TypeOK
<1>2. PromiseOf(deal).escrow \in Nat
  BY <1>1, Money, SMTT(20) DEF PromiseOf, Figures
<1>3. Promise!Accounted
  BY <1>1, <1>2, AccountedStep, Money, SMTT(20) DEF Over, Since, Figures
<1>4. PromiseOf(deal).phase # "dead" /\ ~PromiseOf(deal).offered
  BY DEF PromiseOf
<1>5. PromiseOf(deal') = Promise!DeadDeal
  BY SeenDead DEF Over
<1>6. /\ FlowOf(deal').brought = FlowOf(deal).brought
      /\ FlowOf(deal').toBuyer >= FlowOf(deal).toBuyer + PromiseOf(deal).escrow
  BY DEF Over, Since, FlowOf
<1>7. Promise!End
  BY <1>4, <1>5, <1>6 DEF Promise!End, Promise!MayEnd, Promise!Released, PromiseOf, FlowOf
<1>. QED BY <1>3, <1>7 DEF Kept, Promise!Next, Over

\* An open stream has no unopened escrow.
LEMMA OpenEnds ==
  ASSUME MoneyInv, MoneyInv', deal.alive, Phased(deal), deal.opened, Over(deal')
  PROVE  Kept
<1>1. PromiseOf(deal).escrow = 0 /\ ~deal.offerPosted
  BY DEF PromiseOf, Phased
<1>2. deal'.toBuyer >= deal.toBuyer + 0
  BY Money, SMTT(20) DEF Over, Since, Figures
<1>. QED BY <1>1, <1>2, EndStep
-----------------------------------------------------------------------------
(* Before the stream                                                       *)

\* A flow nobody moved is the same flow.
LEMMA SameFlowOf ==
  ASSUME NEW d, NEW e, SameFlows(e, d)
  PROVE  FlowOf(e) = FlowOf(d)
BY DEF SameFlows, FlowOf

\* postFromNote lists the deal and puts an offer out unless a buyer is bound.
LEMMA PostKept ==
  ASSUME MoneyInv, MoneyInv', deal.alive, Phased(deal), postFromNote
  PROVE  Kept
<1>. DEFINE flag == deal.offerPosted \/ ~deal.funded
            p == PromiseOf(deal)
            q == PromiseOf(deal')
            x == p.offered \/ Promise!WillOffer(p)
            r == [p EXCEPT !.listed = TRUE, !.offered = x]
<1>1. deal \in Deal /\ deal' \in Deal
  BY DEF MoneyInv, TypeOK
<1>2. deal' = [deal EXCEPT !.noteAuthorized = TRUE, !.offerPosted = flag]
  BY DEF postFromNote
<1>3. x = flag /\ x \in Flag
  <2>1. p.offered = deal.offerPosted
    BY <1>1, Seen DEF SeenAs
  <2>2. p.phase = "idle" <=> ~deal.funded
    BY <1>1, Seen DEF Phased, SeenAs
  <2>. HIDE DEF p
  <2>. QED BY <2>1, <2>2 DEF Promise!WillOffer, Flag
<1>. HIDE DEF flag, x
<1>4. /\ deal'.noteAuthorized /\ deal'.offerPosted = flag
      /\ SameFlows(deal', deal) /\ SameTerms(deal', deal)
      /\ deal'.opened = deal.opened /\ deal'.funded = deal.funded
      /\ deal'.disputed = deal.disputed /\ deal'.buyer = deal.buyer
      /\ deal'.sellerBondFunded = deal.sellerBondFunded
      /\ deal'.buyerBondFunded = deal.buyerBondFunded
  <2>. DEFINE e == [deal EXCEPT !.noteAuthorized = TRUE, !.offerPosted = flag]
  <2>1. e.noteAuthorized /\ e.offerPosted = flag
    BY <1>1, DealFields DEF HasFields
  <2>2. /\ SameFlows(e, deal) /\ SameTerms(e, deal)
        /\ e.opened = deal.opened /\ e.funded = deal.funded
        /\ e.disputed = deal.disputed /\ e.buyer = deal.buyer
        /\ e.sellerBondFunded = deal.sellerBondFunded
        /\ e.buyerBondFunded = deal.buyerBondFunded
    BY <1>1, DealFields DEF SameFlows, SameTerms, HasFields
  <2>. HIDE DEF e
  <2>. QED BY <1>2, <2>1, <2>2 DEF e
<1>5. Phased(deal')
  BY <1>4 DEF Phased, SameFlows, SameTerms, flag
<1>6. p \in Card /\ q \in Card /\ r \in Card /\ SameCard(q, r)
  <2>1. deal'.alive
    BY <1>4 DEF SameFlows
  <2>2. p \in Card /\ q \in Card /\ r \in Card
    BY <1>1, <1>3, <2>1, Seen, ListedCard DEF SeenAs, ListsCard
  <2>3. q.phase = p.phase /\ q.buyer = p.buyer /\ q.held = p.held /\ q.escrow = p.escrow
    BY <1>1, <1>4, <2>1, Seen, SMTT(20) DEF SameFlows, SameTerms, IsSubscription, SeenAs
  <2>4. /\ q.listed = TRUE /\ q.offered = x
        /\ q.sellerBonded = p.sellerBonded /\ q.buyerBonded = p.buyerBonded
    BY <1>1, <1>3, <1>4, <2>1, Seen DEF SeenAs
  <2>. HIDE DEF p, q
  <2>. QED BY <1>3, <2>2, <2>3, <2>4, ListedCard, ZenonT(60) DEF SameCard, ListsCard
<1>7. q = r
  BY <1>6, CardEqual
<1>8. r = Promise!Listed(p)
  BY DEF Promise!Listed, x
<1>9. p.phase # "dead"
  BY <1>1, Seen DEF SeenAs
<1>10. FlowOf(deal') = FlowOf(deal)
  BY <1>4, SameFlowOf
<1>11. Promise!Post
  BY <1>7, <1>8, <1>9, <1>10 DEF Promise!Post
<1>12. Promise!Accounted
  BY <1>1, <1>4, AccountedStep, Money, SMTT(20) DEF SameFlows, Figures
<1>. QED BY <1>5, <1>11, <1>12 DEF Kept, Promise!Next
\* onSellClosed takes the offer back.
LEMMA SellClosedKept ==
  ASSUME MoneyInv, MoneyInv', deal.alive, Phased(deal), onSellClosed
  PROVE  Kept
<1>. DEFINE e == [deal EXCEPT !.offerPosted = FALSE]
            p == PromiseOf(deal)
            q == PromiseOf(deal')
            r == [p EXCEPT !.offered = FALSE]
<1>1. deal \in Deal /\ deal' \in Deal
  BY DEF MoneyInv, TypeOK
<1>2. /\ e.offerPosted = FALSE /\ e.noteAuthorized = deal.noteAuthorized
      /\ SameFlows(e, deal) /\ SameTerms(e, deal)
      /\ e.opened = deal.opened /\ e.funded = deal.funded
      /\ e.disputed = deal.disputed /\ e.buyer = deal.buyer
      /\ e.sellerBondFunded = deal.sellerBondFunded
      /\ e.buyerBondFunded = deal.buyerBondFunded
  BY <1>1, DealFields DEF SameFlows, SameTerms, HasFields
<1>3. deal' = e
  BY DEF onSellClosed
<1>. HIDE DEF e
<1>4. Phased(deal') /\ deal'.alive
  BY <1>2, <1>3 DEF Phased, SameFlows, SameTerms
<1>5. p \in Card /\ q \in Card /\ r \in Card
  BY <1>1, <1>4, Seen, ListedCard, Flags DEF SeenAs, ListsCard
<1>6. q.phase = p.phase /\ q.buyer = p.buyer /\ q.held = p.held /\ q.escrow = p.escrow
  BY <1>1, <1>2, <1>3, <1>4, Seen, SMTT(20) DEF SameFlows, SameTerms, IsSubscription, SeenAs
<1>7. /\ q.listed = p.listed /\ q.offered = FALSE
      /\ q.sellerBonded = p.sellerBonded /\ q.buyerBonded = p.buyerBonded
  BY <1>1, <1>2, <1>3, <1>4, Seen DEF SeenAs
<1>8. p.listed /\ p.phase = "idle"
  BY <1>1, Seen DEF onSellClosed, Phased, SeenAs
<1>9. q = r
  <2>. HIDE DEF p, q
  <2>1. SameCard(q, r)
    BY <1>5, <1>6, <1>7, ListedCard, Flags, ZenonT(60) DEF SameCard, ListsCard
  <2>. QED BY <1>5, <2>1, CardEqual
<1>10. Promise!Close
  BY <1>2, <1>3, <1>8, <1>9, SameFlowOf DEF Promise!Close, Promise!OfferClosed
<1>11. Promise!Accounted
  BY <1>1, <1>2, <1>3, AccountedStep, Money, SMTT(20) DEF SameFlows, Figures
<1>. QED BY <1>4, <1>10, <1>11 DEF Kept, Promise!Next

\* A ledger that differs in some entries is an update of those.
LEMMA LedgerMoves ==
  ASSUME NEW f \in Ledger, NEW g \in Ledger, g.burned = f.burned
  PROVE  LedgerMove(g, f)
BY DEF Ledger, LedgerMove

\* The flow of a record is a ledger.
LEMMA FlowIsLedger ==
  ASSUME NEW d \in Deal
  PROVE  /\ FlowOf(d) \in Ledger
         /\ FlowOf(d).brought = d.fromBuyer + d.fromSeller
         /\ FlowOf(d).toBuyer = d.toBuyer /\ FlowOf(d).toSeller = d.toSeller
         /\ FlowOf(d).burned = d.burned
BY Money, SMTT(20) DEF FlowOf, Ledger, Figures

\* A refused handover goes back as it came.
LEMMA RefusedKept ==
  ASSUME MoneyInv, MoneyInv', deal.alive, Phased(deal), deal.noteAuthorized,
         NEW paid \in Nat,
         deal' = PayBuyer([deal EXCEPT !.balance = @ + paid, !.fromBuyer = @ + paid,
                                       !.matches = @ + 1], paid)
  PROVE  Kept
<1>. DEFINE taken == [deal EXCEPT !.balance = @ + paid, !.fromBuyer = @ + paid,
                                  !.matches = @ + 1]
            p == PromiseOf(deal)
            q == PromiseOf(deal')
<1>1. deal \in Deal /\ deal' \in Deal
  BY DEF MoneyInv, TypeOK
<1>2. /\ deal.balance \in Nat /\ deal.balance + paid \in Nat
      /\ deal.fromBuyer + paid \in Nat /\ deal.matches + 1 \in Nat
      /\ deal.fromBuyer \in Nat /\ deal.fromSeller \in Nat
      /\ deal.toBuyer \in Nat /\ deal.toSeller \in Nat /\ deal.burned \in Nat
  BY <1>1, Money, Counters, SMTT(20) DEF Figures, Counts
<1>3. taken \in Deal
  BY <1>1, <1>2, PutNat, PutFlag DEF TakesNat, TakesFlag
<1>4. /\ SameFace(taken, deal) /\ SameTerms(taken, deal)
      /\ taken.alive = deal.alive /\ taken.everOpened = deal.everOpened
      /\ taken.balance = deal.balance + paid
      /\ taken.fromBuyer = deal.fromBuyer + paid /\ taken.fromSeller = deal.fromSeller
      /\ taken.toBuyer = deal.toBuyer /\ taken.toSeller = deal.toSeller
      /\ taken.burned = deal.burned
  BY <1>1, DealFields DEF SameFace, SameTerms, HasFields
<1>. HIDE DEF taken
<1>5. deal' = PayBuyer(taken, paid)
  BY DEF taken
<1>6. PaidOut(deal', taken, paid, 0, 0)
  BY <1>3, <1>5, PaymentsFace, SMTT(20)
<1>7. /\ SameFace(deal', deal) /\ SameTerms(deal', deal)
      /\ deal'.alive /\ deal'.everOpened = deal.everOpened
      /\ deal'.balance = deal.balance
      /\ deal'.fromBuyer = deal.fromBuyer + paid /\ deal'.fromSeller = deal.fromSeller
      /\ deal'.toBuyer = deal.toBuyer + paid /\ deal'.toSeller = deal.toSeller
      /\ deal'.burned = deal.burned
  <2>1. SameFace(deal', deal) /\ SameTerms(deal', deal)
    BY <1>4, <1>6 DEF SameFace, SameTerms, PaidOut
  <2>2. deal'.alive /\ deal'.everOpened = deal.everOpened
    BY <1>4, <1>6 DEF PaidOut
  <2>. QED BY <1>2, <1>4, <1>6, <2>1, <2>2, SMTT(20) DEF PaidOut
<1>8. Phased(deal')
  BY <1>7 DEF Phased, SameFace, SameTerms
<1>9. p \in Card /\ q \in Card /\ SameCard(q, p)
  <2>1. p \in Card /\ q \in Card
    BY <1>1, <1>7, Seen DEF SeenAs
  <2>2. q.phase = p.phase /\ q.buyer = p.buyer /\ q.held = p.held /\ q.escrow = p.escrow
    BY <1>1, <1>7, Seen, SMTT(20) DEF SameFace, SameTerms, IsSubscription, SeenAs
  <2>3. /\ q.listed = p.listed /\ q.offered = p.offered
        /\ q.sellerBonded = p.sellerBonded /\ q.buyerBonded = p.buyerBonded
    BY <1>1, <1>7, Seen, ZenonT(60) DEF SameFace, SeenAs
  <2>. QED BY <2>1, <2>2, <2>3 DEF SameCard
<1>10. q = p
  BY <1>9, CardEqual
<1>11. p.listed /\ p.phase # "dead"
  BY <1>1, Seen DEF SeenAs
<1>12. /\ FlowOf(deal') = [FlowOf(deal) EXCEPT !.brought = FlowOf(deal').brought,
                                               !.toBuyer = FlowOf(deal').toBuyer]
       /\ FlowOf(deal').brought - FlowOf(deal).brought = paid
       /\ FlowOf(deal').toBuyer = FlowOf(deal).toBuyer + paid
  <2>1. FlowOf(deal') = [FlowOf(deal) EXCEPT !.brought = FlowOf(deal').brought,
                                              !.toBuyer = FlowOf(deal').toBuyer]
    <3>. DEFINE f == FlowOf(deal)
                g == FlowOf(deal')
    <3>1. f \in Ledger /\ g \in Ledger /\ g.burned = f.burned /\ g.toSeller = f.toSeller
      BY <1>1, <1>7, FlowIsLedger
    <3>. HIDE DEF f, g
    <3>2. g = [f EXCEPT !.brought = g.brought, !.toBuyer = g.toBuyer]
      BY <3>1, LedgerMoves DEF LedgerMove
    <3>. QED BY <3>2 DEF f, g
  <2>2. /\ FlowOf(deal').brought - FlowOf(deal).brought = paid
        /\ FlowOf(deal').toBuyer = FlowOf(deal).toBuyer + paid
    BY <1>2, <1>7, SMTT(20) DEF FlowOf
  <2>. QED BY <2>1, <2>2
<1>13. Promise!Refuse
  BY <1>10, <1>11, <1>12 DEF Promise!Refuse, Promise!Brought
<1>14. Promise!Accounted
  BY <1>2, <1>7, AccountedStep, SMTT(20)
<1>. QED BY <1>8, <1>13, <1>14 DEF Kept, Promise!Next
\* A handover the deal takes: the offer is gone, the buyer is bound and all of
\* what came is held for them.
LEMMA MatchKept ==
  ASSUME MoneyInv, MoneyInv', deal.alive, Phased(deal), deal.noteAuthorized,
         deal.offerPosted, ~deal.funded,
         NEW b \in Buyers, NEW sub \in BOOLEAN, NEW paid \in Nat,
         paid - (IF sub THEN BondAmount ELSE 0) >= 2 * UnitPrice,
         deal' = Handover(deal, b, sub, paid, now),
         paid - (IF sub THEN BondAmount ELSE 0) <= MaxTicks * UnitPrice
  PROVE  Kept
<1>. DEFINE bond == IF sub THEN BondAmount ELSE 0
            escrow == paid - bond
            taken == [deal EXCEPT !.balance = @ + paid, !.fromBuyer = @ + paid,
                                  !.matches = @ + 1]
            flag == taken.buyerBondFunded \/ bond > 0
            bonded == [taken EXCEPT !.buyerBond = bond, !.buyerBondFunded = flag]
            fund == RecordFunding(bonded, b, escrow, now)
            p == PromiseOf(deal)
            q == PromiseOf(deal')
            x == bond > 0
            r == Promise!Matched(p, b, paid, x)
<1>1. deal \in Deal /\ deal' \in Deal /\ now \in Nat
  BY DEF MoneyInv, TypeOK
<1>2. bond \in Nat /\ escrow \in Nat /\ UnitPrice \in Nat /\ UnitPrice > 0 /\ paid > 0
  BY PricesNat, SMTT(20)
<1>3. deal' = RecordDealShape(fund, sub, escrow \div UnitPrice, now)
  BY <1>2, VolumeAssumption, SMTT(20) DEF Handover
<1>4. /\ deal.balance + paid \in Nat /\ deal.fromBuyer + paid \in Nat
      /\ deal.matches + 1 \in Nat /\ deal.balance \in Nat
      /\ deal.fromBuyer \in Nat /\ deal.fromSeller \in Nat
      /\ deal.toBuyer \in Nat /\ deal.toSeller \in Nat /\ deal.burned \in Nat
  BY <1>1, Money, Counters, SMTT(20) DEF Figures, Counts
<1>5. taken \in Deal
  BY <1>1, <1>4, PutNat, PutFlag DEF TakesNat, TakesFlag
<1>6. /\ SameFace(taken, deal)
      /\ taken.alive = deal.alive /\ taken.everOpened = deal.everOpened
      /\ taken.balance = deal.balance + paid
      /\ taken.fromBuyer = deal.fromBuyer + paid /\ taken.fromSeller = deal.fromSeller
      /\ taken.toBuyer = deal.toBuyer /\ taken.toSeller = deal.toSeller
      /\ taken.burned = deal.burned
  BY <1>1, DealFields DEF SameFace, HasFields
<1>. HIDE DEF taken, bond, escrow
<1>7. flag \in Flag /\ x \in Flag
  BY SMTT(20) DEF Flag
<1>8. flag = (deal.buyerBondFunded \/ x)
  BY <1>6 DEF SameFace
<1>. HIDE DEF flag
<1>9. /\ bonded \in Deal /\ SameFlows(bonded, taken)
      /\ bonded.buyerBond = bond /\ bonded.buyerBondFunded = flag
      /\ bonded.opened = taken.opened /\ bonded.disputed = taken.disputed
      /\ bonded.noteAuthorized = taken.noteAuthorized
      /\ bonded.sellerBondFunded = taken.sellerBondFunded
  BY <1>2, <1>5, <1>7, PutNat, PutFlag, DealFields DEF SameFlows, HasFields, TakesNat, TakesFlag
<1>. HIDE DEF bonded
<1>10. /\ fund \in Deal /\ SameFlows(fund, bonded)
       /\ fund.buyer = b /\ fund.deposit = escrow /\ fund.funded = TRUE
       /\ fund.offerPosted = FALSE
       /\ fund.buyerBond = bonded.buyerBond
       /\ fund.buyerBondFunded = bonded.buyerBondFunded
       /\ fund.opened = bonded.opened /\ fund.disputed = bonded.disputed
       /\ fund.noteAuthorized = bonded.noteAuthorized
       /\ fund.sellerBondFunded = bonded.sellerBondFunded
  <2>1. b \in Buyers \cup {NoBuyer}
    OBVIOUS
  <2>2. fund \in Deal
    BY <1>1, <1>2, <1>9, <2>1, Flags, PutNat, PutFlag, PutTerm DEF RecordFunding, TakesNat,
           TakesFlag
  <2>. QED BY <1>9, <2>2, DealFields DEF SameFlows, RecordFunding, HasFields
<1>. HIDE DEF fund
<1>11. /\ Inward(deal', fund) /\ deal'.deposit = fund.deposit
       /\ deal'.buyerBond = fund.buyerBond
       /\ deal'.subWeeks = IF sub THEN SUB_WEEKS ELSE 0
  <2>. DEFINE w == IF sub THEN SUB_WEEKS ELSE 0
              n == (escrow \div UnitPrice) * TickSize
              k == IF sub THEN n \div SUB_WEEKS ELSE n
              e == [fund EXCEPT !.subWeeks = w, !.weekIndex = 0, !.periodStart = now,
                                !.tokensPerWeek = k, !.fundedTokens = n,
                                !.lastClaimTime = now]
  <2>1. deal' = e
    BY <1>3 DEF RecordDealShape
  <2>. HIDE DEF w, n, k
  <2>2. /\ Inward(e, fund) /\ e.deposit = fund.deposit
        /\ e.buyerBond = fund.buyerBond /\ e.subWeeks = w
    BY <1>10, DealFields DEF Inward, SameFace, SameFlows, HasFields
  <2>. HIDE DEF e
  <2>. QED BY <2>1, <2>2 DEF w
<1>12. /\ deal'.alive = deal.alive /\ deal'.everOpened = deal.everOpened
       /\ deal'.opened = deal.opened /\ deal'.disputed = deal.disputed
       /\ deal'.noteAuthorized = deal.noteAuthorized
       /\ deal'.sellerBondFunded = deal.sellerBondFunded
       /\ deal'.buyerBondFunded = flag /\ deal'.buyer = b
       /\ deal'.funded = TRUE /\ deal'.offerPosted = FALSE
       /\ deal'.balance = deal.balance + paid
       /\ deal'.fromBuyer = deal.fromBuyer + paid /\ deal'.fromSeller = deal.fromSeller
       /\ deal'.toBuyer = deal.toBuyer /\ deal'.toSeller = deal.toSeller
       /\ deal'.burned = deal.burned
       /\ deal'.deposit = escrow /\ deal'.buyerBond = bond
  <2>1. /\ deal'.alive = deal.alive /\ deal'.everOpened = deal.everOpened
        /\ deal'.opened = deal.opened /\ deal'.disputed = deal.disputed
        /\ deal'.noteAuthorized = deal.noteAuthorized
        /\ deal'.sellerBondFunded = deal.sellerBondFunded
    <3>1. /\ deal'.alive = fund.alive /\ deal'.everOpened = fund.everOpened
          /\ deal'.opened = fund.opened /\ deal'.disputed = fund.disputed
          /\ deal'.noteAuthorized = fund.noteAuthorized
          /\ deal'.sellerBondFunded = fund.sellerBondFunded
      BY <1>11 DEF Inward, SameFace, SameFlows
    <3>2. /\ fund.alive = bonded.alive /\ fund.everOpened = bonded.everOpened
          /\ bonded.alive = taken.alive /\ bonded.everOpened = taken.everOpened
      BY <1>9, <1>10 DEF SameFlows
    <3>3. /\ taken.alive = deal.alive /\ taken.everOpened = deal.everOpened
          /\ taken.opened = deal.opened /\ taken.disputed = deal.disputed
          /\ taken.noteAuthorized = deal.noteAuthorized
          /\ taken.sellerBondFunded = deal.sellerBondFunded
      BY <1>6 DEF SameFace
    <3>4. /\ deal'.alive = deal.alive /\ deal'.everOpened = deal.everOpened
      BY <3>1, <3>2, <3>3
    <3>5. /\ fund.opened = taken.opened /\ fund.disputed = taken.disputed
          /\ fund.noteAuthorized = taken.noteAuthorized
          /\ fund.sellerBondFunded = taken.sellerBondFunded
      BY <1>9, <1>10
    <3>. QED BY <3>1, <3>3, <3>4, <3>5
  <2>2. /\ deal'.buyerBondFunded = flag /\ deal'.buyer = b
        /\ deal'.funded = TRUE /\ deal'.offerPosted = FALSE
    BY <1>9, <1>10, <1>11, ZenonT(30) DEF Inward, SameFace
  <2>3. /\ deal'.balance = deal.balance + paid
        /\ deal'.fromBuyer = deal.fromBuyer + paid /\ deal'.fromSeller = deal.fromSeller
        /\ deal'.toBuyer = deal.toBuyer /\ deal'.toSeller = deal.toSeller
        /\ deal'.burned = deal.burned
        /\ deal'.deposit = escrow /\ deal'.buyerBond = bond
    BY <1>6, <1>9, <1>10, <1>11, SMTT(20) DEF Inward, SameFlows
  <2>. QED BY <2>1, <2>2, <2>3
<1>13. ~deal.opened /\ Phased(deal') /\ deal'.alive
  <2>1. deal'.subWeeks # 0 => flag
    BY <1>8, <1>11, PriceAssumption, SMTT(20) DEF bond, BondAmount, UnitPrice
  <2>. QED BY <1>12, <2>1 DEF Phased
<1>14. p \in Card /\ q \in Card
  BY <1>1, <1>13, Seen DEF SeenAs
<1>15. p.held = deal.balance /\ p.phase = "idle" /\ p.listed /\ p.offered
  BY <1>1, <1>13, Seen, ZenonT(30) DEF SeenAs
<1>16. q.phase = "matched" /\ q.buyer = b /\ q.held = p.held + paid /\ q.escrow = paid
  <2>1. deal'.deposit + (IF IsSubscription(deal') THEN deal'.buyerBond ELSE 0) = paid
    BY <1>2, <1>11, <1>12, SMTT(20) DEF IsSubscription, SUB_WEEKS, escrow, bond
  <2>. QED BY <1>1, <1>12, <1>13, <1>15, <2>1, Seen, SMTT(20) DEF SeenAs
<1>17. /\ q.listed = p.listed /\ q.offered = FALSE
       /\ q.sellerBonded = p.sellerBonded /\ q.buyerBonded = (p.buyerBonded \/ x)
  BY <1>1, <1>8, <1>12, <1>13, Seen DEF SeenAs
<1>19. q = r
  <2>1. IsMatched(r, p, b, paid, x)
    <3>1. paid \in Int
      BY SMTT(20)
    <3>. HIDE DEF p, x
    <3>. QED BY <1>7, <1>14, <3>1, MatchedCard
  <2>. HIDE DEF p, q, x, r
  <2>2. SameCard(q, r)
    BY <1>16, <1>17, <2>1 DEF SameCard, IsMatched
  <2>. QED BY <1>14, <2>1, <2>2, CardEqual DEF IsMatched
<1>. DEFINE f == FlowOf(deal)
            g == FlowOf(deal')
<1>20. /\ f \in Ledger /\ g \in Ledger /\ g.burned = f.burned
       /\ g.toSeller = f.toSeller /\ g.toBuyer = f.toBuyer
       /\ g.brought - f.brought = paid
  BY <1>1, <1>4, <1>12, FlowIsLedger, SMTT(20)
<1>21. g = [f EXCEPT !.brought = g.brought]
  <2>. HIDE DEF f, g
  <2>. QED BY <1>20, LedgerMoves DEF LedgerMove
<1>22. Promise!Match
  <2>1. q = Promise!Matched(p, q.buyer, g.brought - f.brought, x) /\ x \in BOOLEAN
    BY <1>16, <1>19, <1>20, SMTT(20)
  <2>2. Promise!Brought > 0
    BY <1>2, <1>20 DEF Promise!Brought
  <2>. QED BY <1>15, <1>21, <2>1, <2>2 DEF Promise!Match, Promise!Takes, Promise!Brought
<1>23. Promise!Accounted
  BY <1>4, <1>12, AccountedStep, SMTT(20)
<1>. QED BY <1>13, <1>22, <1>23 DEF Kept, Promise!Next

\* fundDeal takes the seller's bond and returns the surplus.
LEMMA SellerBondKept ==
  ASSUME MoneyInv, MoneyInv', deal.alive, Phased(deal), NEW amount \in Nat, fundDeal(amount)
  PROVE  Kept
<1>. DEFINE x == amount - BondAmount
            m == deal.balance + amount
            k == deal.fromSeller + amount
            e == [deal EXCEPT !.balance = m, !.fromSeller = k,
                              !.sellerBond = BondAmount, !.sellerBondFunded = TRUE]
            p == PromiseOf(deal)
            q == PromiseOf(deal')
            f == FlowOf(deal)
            g == FlowOf(deal')
<1>1. deal \in Deal /\ deal' \in Deal
  BY DEF MoneyInv, TypeOK
<1>2. x \in Nat /\ m \in Nat /\ k \in Nat /\ BondAmount \in Nat
  BY <1>1, Money, PricesNat, SMTT(20) DEF fundDeal, Figures
<1>3. deal' = PaySeller(e, x)
  BY DEF fundDeal
<1>. HIDE DEF m, k, x
<1>4. /\ e \in Deal /\ SameTerms(e, deal) /\ e.alive = deal.alive
      /\ e.everOpened = deal.everOpened /\ e.opened = deal.opened
      /\ e.funded = deal.funded /\ e.disputed = deal.disputed
      /\ e.offerPosted = deal.offerPosted /\ e.noteAuthorized = deal.noteAuthorized
      /\ e.buyer = deal.buyer /\ e.sellerBondFunded = TRUE
      /\ e.buyerBondFunded = deal.buyerBondFunded
  BY <1>1, <1>2, Flags, PutNat, PutFlag, DealFields DEF SameTerms, HasFields, TakesNat,
         TakesFlag
<1>5. /\ e.balance = m /\ e.fromSeller = k /\ e.fromBuyer = deal.fromBuyer
      /\ e.toBuyer = deal.toBuyer /\ e.toSeller = deal.toSeller /\ e.burned = deal.burned
  BY <1>1, DealFields DEF HasFields
<1>. HIDE DEF e
<1>6. PaidOut(deal', e, 0, x, 0)
  BY <1>2, <1>3, <1>4, PaymentsFace, SMTT(20)
<1>7. /\ Phased(deal') /\ deal'.alive /\ SameTerms(deal', deal) /\ ~deal.opened
      /\ deal'.funded = deal.funded /\ deal'.opened = deal.opened
  <2>1. deal.alive /\ ~deal.opened
    BY DEF fundDeal
  <2>2. /\ deal'.alive = deal.alive
        /\ deal'.funded = deal.funded /\ deal'.opened = deal.opened
        /\ deal'.everOpened = deal.everOpened /\ deal'.disputed = deal.disputed
        /\ deal'.offerPosted = deal.offerPosted
        /\ deal'.buyerBondFunded = deal.buyerBondFunded
    BY <1>4, <1>6, ZenonT(30) DEF PaidOut, SameFace
  <2>3. SameTerms(deal', deal)
    BY <1>4, <1>6, ZenonT(30) DEF PaidOut, SameFace, SameTerms
  <2>. QED BY <2>1, <2>2, <2>3, ZenonT(30) DEF Phased, SameTerms
<1>8. p \in Card /\ q \in Card
  BY <1>1, <1>7, Seen DEF SeenAs
<1>9. q.phase = p.phase /\ q.escrow = p.escrow /\ p.phase \in {"idle", "matched"}
  BY <1>1, <1>7, Seen, SMTT(20) DEF SameTerms, IsSubscription, SeenAs
<1>10. SameListing(q, p) /\ q.buyerBonded = p.buyerBonded
  <2>1. /\ deal'.noteAuthorized = deal.noteAuthorized /\ deal'.buyer = deal.buyer
        /\ deal'.offerPosted = deal.offerPosted
        /\ deal'.buyerBondFunded = deal.buyerBondFunded
    BY <1>4, <1>6 DEF PaidOut, SameFace
  <2>. QED BY <1>1, <1>7, <2>1, Seen DEF SameListing, SeenAs
<1>11. q.sellerBonded = TRUE /\ ~p.sellerBonded
  <2>1. deal'.sellerBondFunded = TRUE /\ ~deal.sellerBondFunded
    BY <1>4, <1>6 DEF PaidOut, SameFace, fundDeal
  <2>. QED BY <1>1, <1>7, <2>1, Seen DEF SeenAs
<1>12. q = Promise!SellerBonded(p, q.held - p.held)
  <2>. HIDE DEF p, q
  <2>. QED BY <1>8, <1>9, <1>10, <1>11, BondedCard DEF BondsCard
<1>13. /\ deal'.fromBuyer = deal.fromBuyer /\ deal'.fromSeller = deal.fromSeller + amount
       /\ deal'.toBuyer = deal.toBuyer /\ deal'.toSeller = deal.toSeller + x
       /\ deal'.burned = deal.burned
  BY <1>1, <1>2, <1>5, <1>6, Money, SMTT(20) DEF PaidOut, k, Figures
<1>14. g = [f EXCEPT !.brought = g.brought, !.toSeller = g.toSeller]
  <2>1. f \in Ledger /\ g \in Ledger /\ g.burned = f.burned /\ g.toBuyer = f.toBuyer
    BY <1>1, <1>13, FlowIsLedger
  <2>. HIDE DEF f, g
  <2>. QED BY <2>1, LedgerMoves DEF LedgerMove
<1>15. Promise!BondSeller
  BY <1>9, <1>11, <1>12, <1>14 DEF Promise!BondSeller, Promise!MayBondSeller
<1>16. Promise!Accounted
  BY <1>1, <1>2, <1>13, AccountedStep, Money, SMTT(20) DEF Figures
<1>. QED BY <1>7, <1>15, <1>16 DEF Kept, Promise!Next

\* fundBuyerBond takes the bond of the bound buyer and returns the surplus.
LEMMA BuyerBondKept ==
  ASSUME MoneyInv, MoneyInv', deal.alive, Phased(deal), NEW b \in Buyers,
         NEW amount \in Nat, fundBuyerBond(b, amount)
  PROVE  Kept
<1>. DEFINE x == amount - BondAmount
            m == deal.balance + amount
            k == deal.fromBuyer + amount
            e == [deal EXCEPT !.balance = m, !.fromBuyer = k,
                              !.buyerBond = BondAmount, !.buyerBondFunded = TRUE]
            p == PromiseOf(deal)
            q == PromiseOf(deal')
            f == FlowOf(deal)
            g == FlowOf(deal')
<1>1. deal \in Deal /\ deal' \in Deal
  BY DEF MoneyInv, TypeOK
<1>2. x \in Nat /\ m \in Nat /\ k \in Nat /\ BondAmount \in Nat
  BY <1>1, Money, PricesNat, SMTT(20) DEF fundBuyerBond, Figures
<1>3. deal' = PayBuyer(e, x)
  BY DEF fundBuyerBond
<1>. HIDE DEF m, k, x
<1>4. /\ e \in Deal /\ e.deposit = deal.deposit /\ e.subWeeks = deal.subWeeks
      /\ e.alive = deal.alive
      /\ e.everOpened = deal.everOpened /\ e.opened = deal.opened
      /\ e.funded = deal.funded /\ e.disputed = deal.disputed
      /\ e.offerPosted = deal.offerPosted /\ e.noteAuthorized = deal.noteAuthorized
      /\ e.buyer = deal.buyer /\ e.buyerBondFunded = TRUE
      /\ e.sellerBondFunded = deal.sellerBondFunded
  BY <1>1, <1>2, Flags, PutNat, PutFlag, DealFields DEF HasFields, TakesNat, TakesFlag
<1>5. /\ e.balance = m /\ e.fromBuyer = k /\ e.fromSeller = deal.fromSeller
      /\ e.toBuyer = deal.toBuyer /\ e.toSeller = deal.toSeller /\ e.burned = deal.burned
  BY <1>1, DealFields DEF HasFields
<1>. HIDE DEF e
<1>6. PaidOut(deal', e, x, 0, 0)
  BY <1>2, <1>3, <1>4, PaymentsFace, SMTT(20)
<1>7. /\ Phased(deal') /\ deal'.alive /\ ~deal.opened
      /\ deal'.funded = deal.funded /\ deal'.opened = deal.opened
      /\ deal'.deposit = deal.deposit /\ deal'.subWeeks = deal.subWeeks
      /\ deal.funded => deal.subWeeks = 0
  BY <1>4, <1>6, ZenonT(60) DEF Phased, PaidOut, SameFace, SameTerms, fundBuyerBond
<1>8. p \in Card /\ q \in Card
  BY <1>1, <1>7, Seen DEF SeenAs
<1>9. q.phase = p.phase /\ q.escrow = p.escrow /\ p.phase \in {"idle", "matched"}
  BY <1>1, <1>7, Seen, SMTT(20) DEF IsSubscription, SeenAs
<1>10. SameListing(q, p) /\ q.sellerBonded = p.sellerBonded
  <2>1. /\ deal'.noteAuthorized = deal.noteAuthorized /\ deal'.buyer = deal.buyer
        /\ deal'.offerPosted = deal.offerPosted
        /\ deal'.sellerBondFunded = deal.sellerBondFunded
    BY <1>4, <1>6 DEF PaidOut, SameFace
  <2>. QED BY <1>1, <1>7, <2>1, Seen DEF SameListing, SeenAs
<1>11. q.buyerBonded = TRUE /\ ~p.buyerBonded
  <2>1. deal'.buyerBondFunded = TRUE /\ ~deal.buyerBondFunded
    BY <1>4, <1>6 DEF PaidOut, SameFace, fundBuyerBond
  <2>. QED BY <1>1, <1>7, <2>1, Seen DEF SeenAs
<1>12. q = Promise!BuyerBonded(p, q.held - p.held)
  <2>. HIDE DEF p, q
  <2>. QED BY <1>8, <1>9, <1>10, <1>11, BondedCard DEF BondsCard
<1>13. /\ deal'.fromBuyer = deal.fromBuyer + amount /\ deal'.fromSeller = deal.fromSeller
       /\ deal'.toBuyer = deal.toBuyer + x /\ deal'.toSeller = deal.toSeller
       /\ deal'.burned = deal.burned
  BY <1>1, <1>2, <1>5, <1>6, Money, SMTT(20) DEF PaidOut, k, Figures
<1>14. g = [f EXCEPT !.brought = g.brought, !.toBuyer = g.toBuyer]
  <2>1. f \in Ledger /\ g \in Ledger /\ g.burned = f.burned /\ g.toSeller = f.toSeller
    BY <1>1, <1>13, FlowIsLedger
  <2>. HIDE DEF f, g
  <2>. QED BY <2>1, LedgerMoves DEF LedgerMove
<1>15. Promise!BondBuyer
  BY <1>9, <1>11, <1>12, <1>14 DEF Promise!BondBuyer, Promise!MayBondBuyer
<1>16. Promise!Accounted
  BY <1>1, <1>2, <1>13, AccountedStep, Money, SMTT(20) DEF Figures
<1>. QED BY <1>7, <1>15, <1>16 DEF Kept, Promise!Next

-----------------------------------------------------------------------------
(* The stream                                                              *)

\* open takes the probe out of the escrow and starts the stream.
LEMMA OpenKept ==
  ASSUME MoneyInv, MoneyInv', deal.alive, Phased(deal), open
  PROVE  Kept
<1>. DEFINE y == deal.deposit - PricePerTick
            e == [deal EXCEPT !.probeTick = PricePerTick, !.deposit = y,
                              !.probeAccepted = FALSE, !.probeTime = now,
                              !.lastClaimTime = now, !.opened = TRUE, !.everOpened = TRUE]
            p == PromiseOf(deal)
            q == PromiseOf(deal')
<1>1. deal \in Deal /\ deal' \in Deal
  BY DEF MoneyInv, TypeOK
<1>2. deal' = e
  BY DEF open
<1>. HIDE DEF y
<1>3. /\ e.opened = TRUE /\ e.everOpened = TRUE /\ e.alive = deal.alive
      /\ e.funded = deal.funded /\ e.disputed = deal.disputed
      /\ e.offerPosted = deal.offerPosted /\ e.noteAuthorized = deal.noteAuthorized
      /\ e.buyer = deal.buyer /\ e.sellerBondFunded = deal.sellerBondFunded
      /\ e.buyerBondFunded = deal.buyerBondFunded
  BY <1>1, DealFields DEF HasFields
<1>4. /\ e.balance = deal.balance
      /\ e.fromBuyer = deal.fromBuyer /\ e.fromSeller = deal.fromSeller
      /\ e.toBuyer = deal.toBuyer /\ e.toSeller = deal.toSeller /\ e.burned = deal.burned
  BY <1>1, DealFields DEF HasFields
<1>. HIDE DEF e
<1>5. Phased(deal') /\ deal'.alive /\ deal'.opened
  BY <1>2, <1>3 DEF Phased, open
<1>6. p \in Card /\ q \in Card
  BY <1>1, <1>5, Seen DEF SeenAs
<1>7. q.phase = "open" /\ q.escrow = 0 /\ q.held = p.held /\ p.phase = "matched"
  <2>1. deal'.balance = deal.balance /\ deal.funded /\ ~deal.opened
    BY <1>2, <1>4 DEF open
  <2>2. p.phase = "matched" /\ p.held = deal.balance
    BY <1>1, <2>1, Seen DEF SeenAs
  <2>. QED BY <1>1, <1>5, <2>1, <2>2, Seen DEF SeenAs
<1>8. /\ q.listed = p.listed /\ q.buyer = p.buyer /\ q.offered = p.offered
      /\ q.sellerBonded = p.sellerBonded /\ q.buyerBonded = p.buyerBonded
  BY <1>1, <1>2, <1>3, <1>5, Seen DEF SeenAs
<1>9. p.sellerBonded /\ p.buyerBonded
  BY <1>1, Seen DEF open, SeenAs
<1>10. q = Promise!Opened(p)
  <2>. HIDE DEF p, q
  <2>. QED BY <1>6, <1>7, <1>8, OpenedCard DEF OpensCard
<1>11. FlowOf(deal') = FlowOf(deal)
  BY <1>2, <1>4 DEF FlowOf
<1>12. Promise!Open
  BY <1>7, <1>9, <1>10, <1>11 DEF Promise!Open, Promise!MayOpen
<1>13. Promise!Accounted
  BY <1>1, <1>2, <1>4, AccountedStep, Money, SMTT(20) DEF Figures
<1>. QED BY <1>5, <1>12, <1>13 DEF Kept, Promise!Next

\* acceptProbe books the trial.
LEMMA AcceptKept ==
  ASSUME MoneyInv, deal.alive, Phased(deal), acceptProbe
  PROVE  Kept
<1>1. deal \in Deal
  BY DEF MoneyInv, TypeOK
<1>2. ASSUME NEW a, NEW b, NEW c
      PROVE  Inward([deal EXCEPT !.finalizedOwed = a, !.feeAccrued = b, !.deposit = c,
                                 !.probeTick = 0, !.probeAccepted = TRUE,
                                 !.periodStart = now,
                                 !.tokensPaid = TickSize, !.tokensFinal = TickSize,
                                 !.tokensPend = TickSize, !.weekBaseTokens = 0,
                                 !.ticksFinalized = 1, !.lastClaimTime = now], deal)
  BY <1>1, DealFields DEF Inward, SameFace, SameFlows, HasFields
<1>3. Inward(deal', deal)
  BY <1>2 DEF acceptProbe
<1>. QED BY <1>1, <1>3, StutterStep DEF acceptProbe

\* claimTokens books the weeks that ended and takes the claim.
LEMMA ClaimKept ==
  ASSUME MoneyInv, deal.alive, Phased(deal), NEW tokens, claimTokens(tokens)
  PROVE  Kept
<1>. DEFINE settled == SettleBoundaries(deal, WeeksElapsedAt(deal, now))
            promoted == PromoteDue(settled, now)
            e == [promoted EXCEPT !.tokensPend = tokens, !.lastClaimTime = now]
<1>1. deal \in Deal /\ now \in Nat /\ Sound(deal)
  BY Money, SMTT(20) DEF MoneyInv, TypeOK, Sound, Fit, Since, Figures
<1>2. Inward(settled, deal) /\ settled \in Deal
  BY <1>1, WeeksWithinTerm, BoundariesInward, SettleBoundariesSound DEF Sound, Fit
<1>3. deal' = e
  BY DEF claimTokens
<1>. HIDE DEF settled
<1>4. Inward(promoted, settled) /\ promoted \in Deal
  BY <1>1, <1>2, CountersInward, PromoteSame
<1>. HIDE DEF promoted
<1>5. Inward(e, promoted)
  BY <1>4, DealFields DEF Inward, SameFace, SameFlows, HasFields
<1>. HIDE DEF e
<1>6. Inward(deal', deal)
  BY <1>2, <1>3, <1>4, <1>5, InwardTrans
<1>. QED BY <1>1, <1>6, StutterStep DEF claimTokens

\* finalize trusts the claim, or ends an ordinary deal that is delivered.
LEMMA FinalizeKept ==
  ASSUME MoneyInv, MoneyInv', deal.alive, Phased(deal), finalize
  PROVE  Kept
<1>. DEFINE promoted == PromoteDue(deal, now)
<1>1. deal \in Deal /\ now \in Nat /\ Sound(deal)
  BY Money, SMTT(20) DEF MoneyInv, TypeOK, Sound, Fit, Since, Figures
<1>2. Inward(promoted, deal) /\ Sound(promoted)
  BY <1>1, CountersInward, PromoteSame, SameMoneySound
<1>3. deal.opened /\ (deal' = promoted \/ deal' = PayFinalAndClose(promoted))
  BY DEF finalize, FinalizeDue
<1>. HIDE DEF promoted
<1>. QED BY <1>1, <1>2, <1>3, PayFinalEnds, StutterStep, OpenEnds

\* settleWeek books the weeks that ended, or ends a finished term.
LEMMA WeekKept ==
  ASSUME MoneyInv, MoneyInv', deal.alive, Phased(deal), settleWeek
  PROVE  Kept
<1>. DEFINE settled == SettleBoundaries(deal, WeeksElapsedAt(deal, now))
            promoted == PromoteDue(settled, now)
<1>1. deal \in Deal /\ now \in Nat /\ Sound(deal)
  BY Money, SMTT(20) DEF MoneyInv, TypeOK, Sound, Fit, Since, Figures
<1>2. Inward(settled, deal) /\ Sound(settled)
  BY <1>1, WeeksWithinTerm, BoundariesInward, SettleBoundariesSound
<1>3. deal.opened /\ (deal' = settled \/ deal' = PayFinalAndClose(promoted))
  BY DEF settleWeek, WeekDue, WeekSettled
<1>4. Sound(promoted)
  <2>. HIDE DEF settled
  <2>. QED BY <1>1, <1>2, PromoteSame, SameMoneySound DEF Sound, Fit
<1>. HIDE DEF settled, promoted
<1>. QED BY <1>1, <1>2, <1>3, <1>4, PayFinalEnds, StutterStep, OpenEnds

\* dispute freezes the stream: the others see no difference.
LEMMA DisputeKept ==
  ASSUME MoneyInv, deal.alive, Phased(deal), dispute
  PROVE  Kept
<1>. DEFINE e == [deal EXCEPT !.disputed = TRUE, !.everDisputed = TRUE, !.disputeTime = now]
<1>1. deal \in Deal
  BY DEF MoneyInv, TypeOK
<1>2. deal' = e
  BY DEF dispute
<1>3. /\ e.disputed = TRUE /\ SameFlows(e, deal) /\ e.opened = deal.opened
      /\ e.funded = deal.funded
      /\ e.offerPosted = deal.offerPosted /\ e.noteAuthorized = deal.noteAuthorized
      /\ e.buyer = deal.buyer /\ e.sellerBondFunded = deal.sellerBondFunded
      /\ e.buyerBondFunded = deal.buyerBondFunded
  BY <1>1, DealFields DEF SameFlows, HasFields
<1>. HIDE DEF e
<1>4. deal.opened /\ Phased(deal')
  BY <1>2, <1>3 DEF Phased, SameFlows, dispute
<1>5. PromiseOf(deal') = PromiseOf(deal)
  BY <1>2, <1>3, <1>4 DEF PromiseOf, SameFlows
<1>6. FlowOf(deal') = FlowOf(deal)
  BY <1>2, <1>3, SameFlowOf
<1>7. UNCHANGED Promise!vars
  BY <1>5, <1>6 DEF Promise!vars, PromiseOf, FlowOf
<1>. QED BY <1>4, <1>7 DEF Kept

\* The four exits of an open stream.
LEMMA ExitKept ==
  ASSUME MoneyInv, MoneyInv', deal.alive, Phased(deal),
         stop \/ sellerStop \/ releaseDispute \/ resolveDisputeTimeout
  PROVE  Kept
<1>1. deal \in Deal /\ now \in Nat /\ Sound(deal)
  BY Money, SMTT(20) DEF MoneyInv, TypeOK, Sound, Fit, Since, Figures
<1>2. deal.opened
  BY DEF Phased, stop, sellerStop, releaseDispute, resolveDisputeTimeout, DisputeExpired
<1>3. Over(deal')
  BY <1>1, StoppedEnds, SellerStoppedEnds, ReleasedEnds, TimedOutEnds
     DEF stop, sellerStop, releaseDispute, resolveDisputeTimeout
<1>. QED BY <1>2, <1>3, OpenEnds

\* withdrawShell pays the seller out of an open stream: nothing is owed to them
\* before it opens, so its own destruct is never reached.
LEMMA DrawKept ==
  ASSUME MoneyInv, MoneyInv', deal.alive, Phased(deal), NEW x \in Nat, withdrawShell(x)
  PROVE  Kept
<1>. DEFINE n == deal.finalizedOwed - x
            e == [deal EXCEPT !.finalizedOwed = n]
            paid == PaySeller(e, x)
            p == PromiseOf(deal)
            q == PromiseOf(deal')
            f == FlowOf(deal)
            g == FlowOf(deal')
<1>1. deal \in Deal /\ deal' \in Deal /\ x > 0 /\ n \in Nat /\ deal.finalizedOwed # 0
  BY Money, SMTT(20) DEF MoneyInv, TypeOK, withdrawShell, Figures
<1>2. deal.opened
  BY <1>1 DEF MoneyInv, Unearned, Phased
<1>. HIDE DEF n
<1>3. e \in Deal /\ Inward(e, deal)
  BY <1>1, PutNat, PutFlag, DealFields DEF Inward, SameFace, SameFlows, HasFields, TakesNat,
         TakesFlag
<1>4. deal' = IF paid.funded /\ ~paid.opened /\ ~paid.disputed
                 /\ paid.finalizedOwed = 0 /\ ~paid.offerPosted
              THEN SweepAndDie(paid) ELSE paid
  BY DEF withdrawShell, n
<1>. HIDE DEF e
<1>5. PaidOut(paid, e, 0, x, 0)
  BY <1>3, PaymentsFace, SMTT(20)
<1>. HIDE DEF paid
<1>6. paid.opened
  BY <1>2, <1>3, <1>5 DEF PaidOut, Inward, SameFace
<1>7. deal' = paid
  BY <1>4, <1>6
<1>8. /\ SameFace(deal', deal) /\ deal'.alive = deal.alive
      /\ deal'.everOpened = deal.everOpened
  BY <1>3, <1>5, <1>7 DEF PaidOut, Inward, SameFace, SameFlows
<1>9. /\ deal'.fromBuyer = deal.fromBuyer /\ deal'.fromSeller = deal.fromSeller
      /\ deal'.toBuyer = deal.toBuyer /\ deal'.toSeller = deal.toSeller + x
      /\ deal'.burned = deal.burned
  BY <1>1, <1>3, <1>5, <1>7, Money, SMTT(20) DEF PaidOut, Inward, SameFlows, Figures
<1>10. Phased(deal') /\ deal'.alive /\ deal'.opened
  BY <1>2, <1>8 DEF Phased, SameFace
<1>11. p \in Card /\ q \in Card
  BY <1>1, <1>10, Seen DEF SeenAs
<1>12. q.phase = "open" /\ p.phase = "open" /\ q.escrow = 0 /\ p.escrow = 0
  BY <1>1, <1>2, <1>10, Seen DEF SeenAs
<1>13. /\ SameListing(q, p)
       /\ q.sellerBonded = p.sellerBonded /\ q.buyerBonded = p.buyerBonded
  BY <1>1, <1>8, <1>10, Seen DEF SameFace, SameListing, SeenAs
<1>14. q = [p EXCEPT !.held = q.held]
  <2>. HIDE DEF p, q
  <2>. QED BY <1>11, <1>12, <1>13, BondedCard DEF BondsCard
<1>15. g = [f EXCEPT !.toSeller = g.toSeller]
  <2>1. /\ f \in Ledger /\ g \in Ledger /\ g.burned = f.burned
        /\ g.toBuyer = f.toBuyer /\ g.brought = f.brought
    BY <1>1, <1>9, FlowIsLedger
  <2>. HIDE DEF f, g
  <2>. QED BY <2>1, LedgerMoves DEF LedgerMove
<1>16. Promise!Draw
  BY <1>12, <1>14, <1>15 DEF Promise!Draw
<1>17. Promise!Accounted
  BY <1>1, <1>9, AccountedStep, Money, SMTT(20) DEF Figures
<1>. QED BY <1>10, <1>16, <1>17 DEF Kept, Promise!Next

-----------------------------------------------------------------------------
(* The ways out of a match that never opened                               *)

\* The escrow of an unopened match is at most what the buyer's refund is made of.
LEMMA EscrowWithin ==
  ASSUME NEW d \in Deal, d.alive
  PROVE  /\ PromiseOf(d).escrow \in Nat
         /\ PromiseOf(d).escrow <= d.deposit + d.buyerBond
         /\ ~d.funded => PromiseOf(d).escrow = 0
BY Seen, Money, SMTT(20) DEF Figures, SeenAs

\* cleanupUnopened pays both sides out and resets the match.
LEMMA UnwindKept ==
  ASSUME MoneyInv, MoneyInv', deal.alive, Phased(deal),
         NEW byBuyer \in BOOLEAN, cleanupUnopened(byBuyer)
  PROVE  Kept
<1>. DEFINE n == deal.deposit + deal.buyerBond
            freed == [deal EXCEPT !.deposit = n, !.buyerBond = 0]
            reset == [freed EXCEPT !.deposit = 0, !.sellerBond = 0, !.funded = FALSE,
                                   !.sellerBondFunded = FALSE, !.buyerBondFunded = FALSE,
                                   !.offerPosted = FALSE]
            part == PayBuyer(reset, freed.deposit)
            paid == PaySeller(part, freed.sellerBond)
            p == PromiseOf(deal)
            q == PromiseOf(deal')
<1>1. /\ deal \in Deal /\ deal' \in Deal /\ n \in Nat
      /\ deal.funded /\ ~deal.opened /\ ~deal.everOpened
  BY Money, SMTT(20) DEF MoneyInv, TypeOK, cleanupUnopened, CleanupAllowed, Figures
<1>2. deal' = BurnShell(paid, paid.balance)
  BY DEF cleanupUnopened, Unwound, ReleaseBuyerBond
<1>. HIDE DEF n
<1>3. /\ freed \in Deal /\ SameFace(freed, deal) /\ SameFlows(freed, deal)
      /\ freed.deposit = n /\ freed.sellerBond = deal.sellerBond
  BY <1>1, PutNat, PutFlag, DealFields DEF SameFace, SameFlows, HasFields, TakesNat, TakesFlag
<1>. HIDE DEF freed
<1>4. /\ reset \in Deal /\ SameFlows(reset, freed) /\ reset.funded = FALSE
      /\ reset.sellerBondFunded = FALSE /\ reset.buyerBondFunded = FALSE
      /\ reset.offerPosted = FALSE
      /\ reset.opened = freed.opened /\ reset.disputed = freed.disputed
      /\ reset.noteAuthorized = freed.noteAuthorized /\ reset.buyer = freed.buyer
  BY <1>3, Flags, PutNat, PutFlag, DealFields DEF SameFlows, HasFields, TakesNat, TakesFlag
<1>. HIDE DEF reset
<1>5. /\ n <= reset.balance /\ freed.sellerBond \in Nat /\ freed.sellerBond <= reset.balance - n
      /\ Balanced(reset)
  <2>1. n + deal.sellerBond <= deal.balance /\ Balanced(deal)
    BY <1>1, Money, SMTT(20) DEF MoneyInv, Slack, Earmarked, n, Figures
  <2>. QED BY <1>1, <1>3, <1>4, <2>1, Money, SMTT(20) DEF SameFlows, Balanced, Figures
<1>6. part \in Deal /\ PaidOut(part, reset, n, 0, 0) /\ Balanced(part)
  BY <1>1, <1>3, <1>4, <1>5, PayBuyerMoves, PaymentsFace, SMTT(20) DEF Pays
<1>. HIDE DEF part
<1>7. paid \in Deal /\ PaidOut(paid, part, 0, freed.sellerBond, 0)
  <2>1. freed.sellerBond <= part.balance
    BY <1>1, <1>4, <1>5, <1>6, Money, SMTT(20) DEF PaidOut, Figures
  <2>. QED BY <1>5, <1>6, <2>1, PaySellerMoves, PaymentsFace, SMTT(20) DEF Pays
<1>. HIDE DEF paid
<1>8. PaidOut(deal', paid, 0, 0, paid.balance)
  BY <1>2, <1>7, PaymentsFace, Money, SMTT(20) DEF Figures
<1>9. SameFace(deal', reset) /\ deal'.alive /\ deal'.everOpened = deal.everOpened
  <2>1. SameFace(deal', reset)
    BY <1>6, <1>7, <1>8 DEF PaidOut, SameFace
  <2>2. /\ deal'.alive = paid.alive /\ deal'.everOpened = paid.everOpened
        /\ paid.alive = part.alive /\ paid.everOpened = part.everOpened
        /\ part.alive = reset.alive /\ part.everOpened = reset.everOpened
        /\ reset.alive = freed.alive /\ reset.everOpened = freed.everOpened
        /\ freed.alive = deal.alive /\ freed.everOpened = deal.everOpened
    BY <1>3, <1>4, <1>6, <1>7, <1>8 DEF PaidOut, SameFlows
  <2>. QED BY <2>1, <2>2
<1>10. /\ deal'.balance = 0
       /\ deal'.fromBuyer = deal.fromBuyer /\ deal'.fromSeller = deal.fromSeller
       /\ deal'.toBuyer = deal.toBuyer + n /\ deal'.toSeller >= deal.toSeller
       /\ deal'.burned >= deal.burned
  <2>1. /\ freed.toBuyer = deal.toBuyer /\ freed.toSeller = deal.toSeller
        /\ freed.burned = deal.burned /\ freed.fromBuyer = deal.fromBuyer
        /\ freed.fromSeller = deal.fromSeller
        /\ reset.toBuyer = freed.toBuyer /\ reset.toSeller = freed.toSeller
        /\ reset.burned = freed.burned /\ reset.fromBuyer = freed.fromBuyer
        /\ reset.fromSeller = freed.fromSeller
    BY <1>3, <1>4 DEF SameFlows
  <2>2. /\ part.toBuyer = reset.toBuyer + n /\ part.toSeller = reset.toSeller + 0
        /\ part.burned = reset.burned + 0
        /\ part.fromBuyer = reset.fromBuyer /\ part.fromSeller = reset.fromSeller
    BY <1>6 DEF PaidOut
  <2>3. /\ paid.toBuyer = part.toBuyer + 0 /\ paid.toSeller = part.toSeller + freed.sellerBond
        /\ paid.burned = part.burned + 0
        /\ paid.fromBuyer = part.fromBuyer /\ paid.fromSeller = part.fromSeller
    BY <1>7 DEF PaidOut
  <2>4. /\ deal'.toBuyer = paid.toBuyer + 0 /\ deal'.toSeller = paid.toSeller + 0
        /\ deal'.burned = paid.burned + paid.balance
        /\ deal'.fromBuyer = paid.fromBuyer /\ deal'.fromSeller = paid.fromSeller
        /\ deal'.balance = paid.balance - 0 - 0 - paid.balance
    BY <1>8 DEF PaidOut
  <2>5. /\ paid.balance \in Nat /\ deal.toBuyer \in Nat /\ deal.toSeller \in Nat
        /\ deal.burned \in Nat
    BY <1>1, <1>7, Money DEF Figures
  <2>. QED BY <1>1, <1>5, <2>1, <2>2, <2>3, <2>4, <2>5, SMTT(20)
<1>11. /\ deal'.opened = FALSE /\ deal'.funded = FALSE /\ deal'.offerPosted = FALSE
       /\ deal'.sellerBondFunded = FALSE /\ deal'.buyerBondFunded = FALSE
       /\ deal'.noteAuthorized = deal.noteAuthorized /\ deal'.buyer = deal.buyer
       /\ deal'.disputed = deal.disputed /\ deal'.everOpened = FALSE
  <2>1. deal.opened = FALSE /\ deal.everOpened = FALSE
    BY <1>1 DEF Deal, Flag
  <2>. QED BY <1>3, <1>4, <1>9, <2>1 DEF SameFace
<1>12. Phased(deal')
  BY <1>1, <1>9, <1>11 DEF Phased
<1>13. p \in Card /\ q \in Card /\ p.phase = "matched"
  BY <1>1, <1>9, Seen DEF SeenAs
<1>14. q.phase = "idle" /\ q.escrow = 0 /\ q.held = 0
  BY <1>1, <1>9, <1>10, <1>11, Seen DEF SeenAs
<1>15. /\ q.offered = FALSE /\ q.sellerBonded = FALSE /\ q.buyerBonded = FALSE
       /\ q.listed = p.listed /\ q.buyer = p.buyer
  BY <1>1, <1>9, <1>11, Seen DEF SeenAs
<1>16. q = Promise!Unwound(p)
  <2>. HIDE DEF p, q
  <2>. QED BY <1>13, <1>14, <1>15, OpenedCard DEF OpensCard
<1>17. p.escrow \in Nat /\ p.escrow <= n
  BY <1>1, EscrowWithin DEF n
<1>18. Promise!Released
  <2>. HIDE DEF p
  <2>1. /\ FlowOf(deal').brought = FlowOf(deal).brought
        /\ FlowOf(deal').toBuyer >= FlowOf(deal).toBuyer + p.escrow
    BY <1>1, <1>10, <1>17, FlowIsLedger, Money, SMTT(20) DEF Figures
  <2>. QED BY <2>1 DEF Promise!Released, p
<1>19. Promise!Accounted
  BY <1>1, <1>10, AccountedStep, Money, SMTT(20) DEF Figures
<1>. QED BY <1>12, <1>13, <1>16, <1>18, <1>19 DEF Kept, Promise!Next, Promise!Unwind

\* Returning the seller's bond and sweeping the rest pays the buyer nothing.
LEMMA SweepKeepsBuyer ==
  ASSUME NEW d \in Deal
  PROVE  /\ SweepAndDie(d).toBuyer = d.toBuyer
         /\ ReturnBond(d).toBuyer = d.toBuyer
<1>1. ASSUME NEW x, NEW y
      PROVE  [[d EXCEPT !.balance = x, !.toSeller = y] EXCEPT !.alive = FALSE].toBuyer = d.toBuyer
  BY DealFields DEF HasFields
<1>2. ASSUME NEW x, NEW y
      PROVE  [[d EXCEPT !.sellerBond = 0, !.sellerBondFunded = FALSE]
                EXCEPT !.balance = x, !.toSeller = y].toBuyer = d.toBuyer
  BY DealFields DEF HasFields
<1>3. SweepAndDie(d).toBuyer = d.toBuyer
  BY <1>1 DEF SweepAndDie, Die, PaySeller
<1>4. ReturnBond(d).toBuyer = d.toBuyer
  BY <1>2 DEF ReturnBond, PaySeller
<1>. QED BY <1>3, <1>4

\* close ends a deal nobody is bound to.
LEMMA CloseKept ==
  ASSUME MoneyInv, MoneyInv', deal.alive, Phased(deal), close
  PROVE  Kept
<1>. DEFINE e == ReturnBond(deal)
<1>1. deal \in Deal /\ Sound(deal)
  BY Money, SMTT(20) DEF MoneyInv, TypeOK, Sound, Fit, Since, Figures
<1>2. deal' = SweepAndDie(e) /\ ~deal.funded /\ ~deal.offerPosted
  BY DEF close
<1>3. e \in Deal /\ Balanced(e) /\ Since(e)
  BY <1>1, ReturnBondSound DEF Sound, Fit
<1>4. e.toBuyer = deal.toBuyer
  BY <1>1, SweepKeepsBuyer
<1>. HIDE DEF e
<1>5. Over(deal') /\ deal'.toBuyer = deal.toBuyer
  BY <1>2, <1>3, <1>4, SweepEnds, SweepKeepsBuyer
<1>6. deal'.toBuyer >= deal.toBuyer + PromiseOf(deal).escrow
  BY <1>1, <1>2, <1>5, EscrowWithin, Money, SMTT(20) DEF Figures
<1>. QED BY <1>2, <1>5, <1>6, EndStep

\* destroy refunds an unopened match before it ends the deal.
LEMMA DestroyKept ==
  ASSUME MoneyInv, MoneyInv', deal.alive, Phased(deal), destroy
  PROVE  Kept
<1>. DEFINE a == ReleaseProbe(deal)
            freed == ReleaseBuyerBond(a)
            e == [freed EXCEPT !.deposit = 0, !.funded = FALSE]
            refunded == PayBuyer(e, freed.deposit)
            last == IF deal.funded THEN refunded ELSE deal
            escrow == PromiseOf(deal).escrow
<1>1. deal \in Deal /\ Sound(deal) /\ ~deal.offerPosted
  BY Money, SMTT(20) DEF MoneyInv, TypeOK, Sound, Fit, Since, destroy, Figures
<1>2. deal' = SweepAndDie(ReturnBond(last))
  BY DEF destroy, DestroyedBeforeSweep
<1>3. /\ a \in Deal /\ Sound(a) /\ a.toBuyer = deal.toBuyer /\ a.deposit >= deal.deposit
      /\ a.buyerBond = deal.buyerBond
  <2>. DEFINE n == deal.deposit + deal.probeTick
              b == [deal EXCEPT !.deposit = n, !.probeTick = 0]
  <2>1. a = deal \/ a = b
    BY DEF ReleaseProbe
  <2>2. n \in Nat /\ n >= deal.deposit /\ deal.deposit \in Nat
    BY <1>1, Money, SMTT(20) DEF Figures
  <2>. HIDE DEF n
  <2>3. b.toBuyer = deal.toBuyer /\ b.deposit = n /\ b.buyerBond = deal.buyerBond
    BY <1>1, DealFields DEF HasFields
  <2>. HIDE DEF b
  <2>4. Sound(a)
    BY <1>1, ReleaseProbeSound
  <2>. HIDE DEF a
  <2>. QED BY <2>1, <2>2, <2>3, <2>4, SMTT(20) DEF Sound, Fit
<1>. HIDE DEF a
<1>4. /\ freed \in Deal /\ Sound(freed) /\ freed.toBuyer = a.toBuyer
      /\ freed.deposit = a.deposit + a.buyerBond
  <2>. DEFINE n == a.deposit + a.buyerBond
              b == [a EXCEPT !.deposit = n, !.buyerBond = 0]
  <2>1. freed = b
    BY DEF ReleaseBuyerBond
  <2>2. Sound(freed)
    BY <1>3, ReleaseBuyerBondSound
  <2>. HIDE DEF n
  <2>3. b.toBuyer = a.toBuyer /\ b.deposit = n
    BY <1>3, DealFields DEF HasFields
  <2>. HIDE DEF b, freed
  <2>. QED BY <2>1, <2>2, <2>3 DEF Sound, Fit, n
<1>. HIDE DEF freed
<1>5. e \in Deal /\ e.toBuyer = freed.toBuyer
  BY <1>4, Flags, PutNat, PutFlag, DealFields DEF HasFields, TakesNat, TakesFlag
<1>. HIDE DEF e
<1>6. refunded.toBuyer = e.toBuyer + freed.deposit
  <2>1. freed.deposit \in Int
    BY <1>4, Money, SMTT(20) DEF Figures
  <2>2. PaidOut(refunded, e, freed.deposit, 0, 0)
    BY <1>5, <2>1, PaymentsFace
  <2>. QED BY <2>2 DEF PaidOut
<1>. HIDE DEF refunded
<1>7. escrow \in Nat /\ escrow <= deal.deposit + deal.buyerBond /\ (~deal.funded => escrow = 0)
  BY <1>1, EscrowWithin
<1>. HIDE DEF escrow
<1>8. last.toBuyer >= deal.toBuyer + escrow
  BY <1>1, <1>3, <1>4, <1>5, <1>6, <1>7, Money, SMTT(20) DEF Figures
<1>9. Over(deal')
  BY <1>1, DestroyEnds DEF destroy
<1>10. Sound(last) /\ last \in Deal
  <2>1. /\ SameFlows(e, freed) /\ e.deposit = 0 /\ e.probeTick = freed.probeTick
        /\ e.finalizedOwed = freed.finalizedOwed /\ e.feeAccrued = freed.feeAccrued
        /\ e.sellerBond = freed.sellerBond /\ e.buyerBond = freed.buyerBond
    BY <1>4, DealFields DEF SameFlows, e, HasFields
  <2>2. Fit(e) /\ freed.deposit <= Slack(e)
    BY <1>4, <1>5, <2>1, Money, SMTT(20) DEF Sound, Fit, Slack, Earmarked, Balanced, SameFlows,
           Figures
  <2>3. Sound(e)
    BY <1>4, <2>1, <2>2, SameFlowsSince DEF Sound
  <2>4. Sound(refunded)
    BY <1>4, <2>2, <2>3, PaidFromSlack, Money DEF refunded, Figures
  <2>. QED BY <1>1, <2>4 DEF Sound, Fit
<1>. HIDE DEF last
<1>11. ReturnBond(last) \in Deal
  BY <1>10, ReturnBondSound DEF Sound, Fit
<1>12. deal'.toBuyer = last.toBuyer
  BY <1>2, <1>10, <1>11, SweepKeepsBuyer
<1>13. deal'.toBuyer >= deal.toBuyer + PromiseOf(deal).escrow
  BY <1>8, <1>12 DEF escrow
<1>. QED BY <1>1, <1>9, <1>13, EndStep

-----------------------------------------------------------------------------
(* The refinement                                                          *)

\* fundFromOrderBook binds a buyer or sends the handover back.
LEMMA HandoverKept ==
  ASSUME MoneyInv, MoneyInv', deal.alive, Phased(deal),
         NEW b \in Buyers, NEW sub \in SubscriptionDeals, NEW ticks \in HandoverTicks,
         fundFromOrderBook(b, sub, ticks)
  PROVE  Kept
<1>. DEFINE paid == ticks * UnitPrice + (IF sub THEN BondAmount ELSE 0)
            escrow == paid - (IF sub THEN BondAmount ELSE 0)
            taken == [deal EXCEPT !.balance = @ + paid, !.fromBuyer = @ + paid,
                                  !.matches = @ + 1]
<1>1. paid \in Nat /\ sub \in BOOLEAN /\ escrow \in Int
  BY InputAssumption, PricesNat, SMTT(20)
<1>2. /\ deal.noteAuthorized /\ (deal.offerPosted \/ deal.funded)
      /\ deal' = Handover(deal, b, sub, paid, now)
  BY DEF fundFromOrderBook
<1>. HIDE DEF paid
<1>3. CASE deal.funded \/ escrow < 2 * UnitPrice \/ escrow > MaxTicks * UnitPrice
  <2>1. deal' = PayBuyer(taken, paid)
    BY <1>2, <1>3 DEF Handover
  <2>. QED BY <1>1, <1>2, <2>1, RefusedKept
<1>4. CASE ~(deal.funded \/ escrow < 2 * UnitPrice \/ escrow > MaxTicks * UnitPrice)
  <2>1. escrow >= 2 * UnitPrice /\ escrow <= MaxTicks * UnitPrice
    BY <1>1, <1>4, PricesNat, VolumeAssumption, SMTT(20)
  <2>. QED BY <1>1, <1>2, <1>4, <2>1, MatchKept
<1>. QED BY <1>3, <1>4

\* The constructor's storage shows an idle deal.
LEMMA PhaseInit == Init => PhaseInv /\ Promise!Init
<1>. SUFFICES ASSUME Init PROVE PhaseInv /\ Promise!Init
  OBVIOUS
<1>1. deal = NewDeal /\ MoneyInv
  BY MoneyInit DEF Init
<1>2. deal \in Deal
  BY <1>1 DEF MoneyInv, TypeOK
<1>3. /\ NewDeal.alive = TRUE /\ NewDeal.opened = FALSE /\ NewDeal.everOpened = FALSE
      /\ NewDeal.funded = FALSE /\ NewDeal.disputed = FALSE
      /\ NewDeal.offerPosted = FALSE /\ NewDeal.noteAuthorized = FALSE
      /\ NewDeal.sellerBondFunded = FALSE /\ NewDeal.buyerBondFunded = FALSE
      /\ NewDeal.buyer = NoBuyer
  BY ZenonT(60) DEF NewDeal
<1>4. /\ NewDeal.balance = 0 /\ NewDeal.fromBuyer = 0 /\ NewDeal.fromSeller = 0
      /\ NewDeal.toBuyer = 0 /\ NewDeal.toSeller = 0 /\ NewDeal.burned = 0
  BY ZenonT(60) DEF NewDeal
<1>. HIDE DEF NewDeal
<1>5. PhaseInv
  BY <1>1, <1>3 DEF PhaseInv, Phased
<1>. DEFINE p == PromiseOf(deal)
<1>6. p \in Card /\ p.phase = "idle" /\ p.escrow = 0 /\ p.held = 0
  BY <1>1, <1>2, <1>3, <1>4, Seen DEF SeenAs
<1>7. /\ p.listed = FALSE /\ p.offered = FALSE /\ p.buyer = NoBuyer
      /\ p.sellerBonded = FALSE /\ p.buyerBonded = FALSE
  BY <1>1, <1>2, <1>3, Seen DEF SeenAs
<1>8. /\ Promise!IdleDeal \in Card
      /\ Promise!IdleDeal.phase = "idle" /\ Promise!IdleDeal.escrow = 0
      /\ Promise!IdleDeal.held = 0
      /\ Promise!IdleDeal.listed = FALSE /\ Promise!IdleDeal.offered = FALSE
      /\ Promise!IdleDeal.buyer = NoBuyer
      /\ Promise!IdleDeal.sellerBonded = FALSE /\ Promise!IdleDeal.buyerBonded = FALSE
  <2>1. "idle" \in Promise!Phases /\ 0 \in Int /\ NoBuyer \in Buyers \cup {NoBuyer}
    BY SMTT(20) DEF Promise!Phases
  <2>2. Promise!NoBuyer = NoBuyer
    BY DEF Promise!NoBuyer, NoBuyer
  <2>. QED BY <2>1, <2>2, Flags, ZenonT(60) DEF Promise!IdleDeal, Card
<1>9. SameCard(p, Promise!IdleDeal)
  <2>. HIDE DEF p
  <2>. QED BY <1>6, <1>7, <1>8 DEF SameCard
<1>10. p = Promise!IdleDeal
  <2>. HIDE DEF p
  <2>. QED BY <1>6, <1>8, <1>9, CardEqual
<1>11. FlowOf(deal) = [brought |-> 0, toBuyer |-> 0, toSeller |-> 0, burned |-> 0]
  BY <1>1, <1>4, SMTT(20) DEF FlowOf
<1>. QED BY <1>5, <1>10, <1>11 DEF Promise!Init

\* Every entry keeps the promise.
LEMMA EntryKept ==
  ASSUME MoneyInv, MoneyInv', deal.alive, Phased(deal), Next
  PROVE  Kept
<1>1. CASE \E b \in Buyers, sub \in SubscriptionDeals, ticks \in HandoverTicks :
             fundFromOrderBook(b, sub, ticks)
  BY <1>1, HandoverKept
<1>2. CASE \E amount \in BondAmounts : fundDeal(amount)
  BY <1>2, InputAssumption, SellerBondKept
<1>3. CASE \E b \in Buyers, amount \in BondAmounts : fundBuyerBond(b, amount)
  BY <1>3, InputAssumption, BuyerBondKept
<1>4. CASE \E tokens \in 1 .. deal.fundedTokens : claimTokens(tokens)
  BY <1>4, ClaimKept
<1>5. CASE \E byBuyer \in BOOLEAN : cleanupUnopened(byBuyer)
  BY <1>5, UnwindKept
<1>6. CASE \E amount \in WithdrawAmounts : withdrawShell(amount)
  BY <1>6, InputAssumption, DrawKept
<1>7. CASE Tick
  <2>1. deal' = deal
    BY <1>7 DEF Tick
  <2>2. UNCHANGED Promise!vars /\ Phased(deal')
    BY <2>1 DEF Promise!vars, PromiseOf, FlowOf, Phased
  <2>. QED BY <2>2 DEF Kept
<1>. QED BY <1>1, <1>2, <1>3, <1>4, <1>5, <1>6, <1>7, PostKept, SellClosedKept, CloseKept,
            OpenKept, AcceptKept, FinalizeKept, WeekKept, DisputeKept, ExitKept, DestroyKept
         DEF Next

\* Every step preserves the invariant and is a step of the promise, or none.
LEMMA PhaseStep ==
  PhaseInv /\ [Next]_vars => PhaseInv' /\ [Promise!Next]_(Promise!vars)
<1>. SUFFICES ASSUME PhaseInv, [Next]_vars
              PROVE  PhaseInv' /\ [Promise!Next]_(Promise!vars)
  OBVIOUS
<1>1. MoneyInv /\ MoneyInv'
  BY MoneyStep DEF PhaseInv
<1>2. CASE UNCHANGED vars
  <2>1. deal' = deal
    BY <1>2 DEF vars
  <2>2. UNCHANGED Promise!vars
    BY <2>1 DEF Promise!vars, PromiseOf, FlowOf
  <2>. QED BY <1>1, <2>1, <2>2 DEF PhaseInv, Phased
<1>3. CASE Next
  <2>1. deal.alive
    BY <1>3 DEF Next, postFromNote, onSellClosed, fundFromOrderBook, fundDeal,
                fundBuyerBond, close, open, acceptProbe, claimTokens, finalize,
                settleWeek, stop, sellerStop, dispute, releaseDispute, Tick,
                resolveDisputeTimeout, cleanupUnopened, withdrawShell, destroy,
                FinalizeDue, WeekDue, DisputeExpired, CleanupAllowed
  <2>2. Kept
    BY <1>1, <1>3, <2>1, EntryKept DEF PhaseInv
  <2>. QED BY <1>1, <2>2 DEF Kept, PhaseInv
<1>. QED BY <1>2, <1>3

\* Before it opens a match has no offer out and its stream has not run; a stream
\* that ended takes the deal with it, so no deal serves two of them.
THEOREM PhasesAlways == Spec => []PhaseInv
<1>1. Init => PhaseInv
  BY PhaseInit
<1>2. PhaseInv /\ [Next]_vars => PhaseInv'
  BY PhaseStep
<1>. QED BY <1>1, <1>2, PTL DEF Spec

\* The contract keeps its promise: whatever the price, the volume, the windows
\* and the inputs, every entry of TokenContract looks to the order book and to
\* the notes like a step of AbstractDeal.  A bound buyer came through the offer,
\* what came with a match that did not open goes back, a bond is taken once.
THEOREM Refinement == Spec => KeepsPromise
<1>1. Init => PhaseInv /\ Promise!Init
  BY PhaseInit
<1>2. PhaseInv /\ [Next]_vars => PhaseInv' /\ [Promise!Next]_(Promise!vars)
  BY PhaseStep
<1>. QED BY <1>1, <1>2, PTL DEF Spec, KeepsPromise, Promise!Spec
=============================================================================
