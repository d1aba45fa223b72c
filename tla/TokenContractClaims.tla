------------------------- MODULE TokenContractClaims ------------------------
(***************************************************************************)
(* The claims of a deal and the weeks of a subscription, for every tick,   *)
(* rate, window and input set: how much is claimed in real time, when a    *)
(* claim becomes trusted, which weeks are charged and what a dispute       *)
(* freezes.                                                                *)
(*                                                                         *)
(* Most helpers move money and leave the claims alone.  That is said once  *)
(* per helper (Quiet); what remains for an entry is the few assignments it *)
(* makes to the claims itself.                                             *)
(*                                                                         *)
(* A leaf is Zenon's unless it names another prover.                       *)
(***************************************************************************)
EXTENDS TokenContractProofs

USE Zenon

-----------------------------------------------------------------------------
(* Helpers that leave the claims alone                                     *)

\* Every stored record has the fields.
LEMMA DealHasClaims == ASSUME NEW d \in Deal PROVE HasClaims(d)
BY SMTT(20) DEF Deal, HasClaims, ClaimFields

\* Quiet steps compose.
LEMMA QuietTrans ==
  ASSUME NEW a, NEW b, NEW c, Quiet(a, b), Quiet(b, c)
  PROVE  Quiet(a, c)
BY DEF Quiet, SameClaims

\* Doing nothing is quiet.
LEMMA QuietSelf == ASSUME NEW d, HasClaims(d) PROVE Quiet(d, d)
BY DEF Quiet, SameClaims

\* The payments and the end of the account.
LEMMA PaymentsQuiet ==
  ASSUME NEW d, HasClaims(d)
  PROVE  /\ \A x : Quiet(PayBuyer(d, x), d)
         /\ \A x : Quiet(PaySeller(d, x), d)
         /\ \A x : Quiet(BurnShell(d, x), d)
         /\ Quiet(SweepAndDie(d), d)
         /\ Quiet(PayOwedAndDie(d), d)
<1>1. \A x : Quiet(PayBuyer(d, x), d)
  BY DEF PayBuyer, Quiet, HasClaims, ClaimFields, SameClaims
<1>2. ASSUME NEW e, HasClaims(e), NEW x PROVE Quiet(PaySeller(e, x), e)
  BY <1>2 DEF PaySeller, Quiet, HasClaims, ClaimFields, SameClaims
<1>3. \A x : Quiet(BurnShell(d, x), d)
  BY DEF BurnShell, Quiet, HasClaims, ClaimFields, SameClaims
<1>4. ASSUME NEW e, HasClaims(e) PROVE Quiet(SweepAndDie(e), e)
  <2>. DEFINE p == PaySeller(e, e.balance)
  <2>1. Quiet(p, e)
    BY <1>2, <1>4
  <2>. HIDE DEF p
  <2>2. Quiet(Die(p), p)
    BY <2>1 DEF Die, Quiet, HasClaims, ClaimFields, SameClaims
  <2>. QED BY <2>1, <2>2, QuietTrans DEF SweepAndDie, p
<1>5. Quiet(PayOwedAndDie(d), d)
  <2>. DEFINE e == [d EXCEPT !.finalizedOwed = 0]
              p == PaySeller(e, d.finalizedOwed)
  <2>1. Quiet(e, d)
    BY DEF Quiet, HasClaims, ClaimFields, SameClaims
  <2>. HIDE DEF e
  <2>2. Quiet(p, e)
    BY <1>2, <2>1 DEF Quiet
  <2>. HIDE DEF p
  <2>3. Quiet(SweepAndDie(p), p)
    BY <1>4, <2>2 DEF Quiet
  <2>. QED BY <2>1, <2>2, <2>3, QuietTrans DEF PayOwedAndDie, e, p
<1>. QED BY <1>1, <1>2, <1>3, <1>4, <1>5

\* The releases, the bonds, the escrow and the reports.
LEMMA EarmarksQuiet ==
  ASSUME NEW d, HasClaims(d)
  PROVE  QuietEarmarks(d)
<1>1. Quiet(ReleaseProbe(d), d)
  BY DEF ReleaseProbe, Quiet, HasClaims, ClaimFields, SameClaims
<1>2. Quiet(ReleaseBuyerBond(d), d)
  BY DEF ReleaseBuyerBond, Quiet, HasClaims, ClaimFields, SameClaims
<1>3. Quiet(ReturnBond(d), d)
  BY DEF ReturnBond, PaySeller, Quiet, HasClaims, ClaimFields, SameClaims
<1>4. \A x, y : Quiet(ForfeitBonds(d, x, y), d)
  BY SMTT(20) DEF ForfeitBonds, BurnShell, Quiet, HasClaims, ClaimFields, SameClaims
<1>5. \A n : Quiet(ChargeEscrow(d, n), d)
  BY SMTT(20) DEF ChargeEscrow, Quiet, HasClaims, ClaimFields, SameClaims
<1>6. Quiet(RecordDelivered(d), d)
  BY DEF RecordDelivered, Quiet, HasClaims, ClaimFields, SameClaims
<1>7. ASSUME NEW e, HasClaims(e) PROVE Quiet(ReportFinalized(e), e)
  BY <1>7 DEF ReportFinalized, Quiet, HasClaims, ClaimFields, SameClaims
<1>8. ASSUME NEW clean PROVE Quiet(SettleFees(d, clean), d)
  <2>. DEFINE r == IF clean /\ ~d.everDisputed
                   THEN Lesser(Rebate(d.ticksFinalized), d.feeAccrued) ELSE 0
              e == [d EXCEPT !.finalizedOwed = @ + r, !.feeAccrued = 0]
              b == BurnShell(e, d.feeAccrued - r)
  <2>. HIDE DEF r
  <2>1. Quiet(e, d)
    BY DEF Quiet, HasClaims, ClaimFields, SameClaims
  <2>. HIDE DEF e
  <2>2. Quiet(b, e)
    BY <2>1, PaymentsQuiet DEF Quiet
  <2>. HIDE DEF b
  <2>3. Quiet(ReportFinalized(b), b)
    BY <1>7, <2>2 DEF Quiet
  <2>. QED BY <2>1, <2>2, <2>3, QuietTrans DEF SettleFees, r, e, b
<1>. QED BY <1>1, <1>2, <1>3, <1>4, <1>5, <1>6, <1>7, <1>8 DEF QuietEarmarks

\* Charging weeks moves the week's marks and not the claims.
LEMMA WeeksQuiet ==
  ASSUME NEW d, HasClaims(d), NEW target
  PROVE  /\ Quiet(ChargeWeekIfBefore(d, target), d)
         /\ Quiet(ChargeWeeksThrough(d, target), d)
         /\ Quiet(SettleBoundaries(d, target), d)
<1>1. ASSUME NEW e, HasClaims(e) PROVE Quiet(ChargeWeekIfBefore(e, target), e)
  <2>. DEFINE c == ChargeEscrow(e, Greater((e.weekIndex + 1) * e.tokensPerWeek - e.tokensPaid, 0))
  <2>1. Quiet(c, e)
    BY <1>1, EarmarksQuiet DEF QuietEarmarks
  <2>2. ASSUME NEW x, NEW y, NEW z
        PROVE  Quiet([c EXCEPT !.tokensPaid = x, !.weekIndex = y, !.weekBaseTokens = z], c)
    BY <2>1 DEF Quiet, HasClaims, ClaimFields, SameClaims
  <2>. DEFINE w == [c EXCEPT !.tokensPaid = (e.weekIndex + 1) * e.tokensPerWeek,
                             !.weekIndex = c.weekIndex + 1,
                             !.weekBaseTokens = Greater(e.tokensFinal, e.tokensPend)]
  <2>3. ChargeWeekIfBefore(e, target) = e \/ ChargeWeekIfBefore(e, target) = w
    BY DEF ChargeWeekIfBefore, ChargeWeek
  <2>4. Quiet(w, c)
    <3>. HIDE DEF c
    <3>. QED BY <2>2
  <2>. HIDE DEF c, w
  <2>. QED BY <1>1, <2>1, <2>3, <2>4, QuietSelf, QuietTrans, SMTT(20)
<1>2. Quiet(ChargeWeeksThrough(d, target), d)
  <2>. DEFINE w1 == ChargeWeekIfBefore(d, target)
              w2 == ChargeWeekIfBefore(w1, target)
              w3 == ChargeWeekIfBefore(w2, target)
              w4 == ChargeWeekIfBefore(w3, target)
  <2>1. ChargeWeeksThrough(d, target) = d \/ ChargeWeeksThrough(d, target) = w4
    BY DEF ChargeWeeksThrough
  <2>2. Quiet(w1, d)
    BY <1>1
  <2>. HIDE DEF w1
  <2>3. Quiet(w2, w1)
    BY <1>1, <2>2 DEF Quiet
  <2>. HIDE DEF w2
  <2>4. Quiet(w3, w2)
    BY <1>1, <2>3 DEF Quiet
  <2>. HIDE DEF w3
  <2>5. Quiet(w4, w3)
    BY <1>1, <2>4 DEF Quiet
  <2>. HIDE DEF w4
  <2>. QED BY <2>1, <2>2, <2>3, <2>4, <2>5, QuietSelf, QuietTrans, SMTT(20)
<1>3. Quiet(SettleBoundaries(d, target), d)
  <2>. DEFINE c == ChargeWeeksThrough(d, target)
              r == RecordDelivered(c)
  <2>1. SettleBoundaries(d, target) = d \/ SettleBoundaries(d, target) = ReportFinalized(r)
    BY DEF SettleBoundaries
  <2>2. Quiet(c, d)
    BY <1>2
  <2>. HIDE DEF c
  <2>3. Quiet(r, c)
    BY <2>2, EarmarksQuiet DEF Quiet, QuietEarmarks
  <2>. HIDE DEF r
  <2>4. Quiet(ReportFinalized(r), r)
    BY <2>3, EarmarksQuiet DEF Quiet, QuietEarmarks
  <2>. QED BY <2>1, <2>2, <2>3, <2>4, QuietSelf, QuietTrans, SMTT(20)
<1>. QED BY <1>1, <1>2, <1>3

\* A clean close, after paying the last trusted tokens or not.
LEMMA CloseQuiet ==
  ASSUME NEW d, HasClaims(d)
  PROVE  Quiet(CloseClean(d), d) /\ Quiet(PayFinalAndClose(d), d)
<1>1. ASSUME NEW c, HasClaims(c) PROVE Quiet(CloseClean(c), c)
  <2>. DEFINE a == ReleaseProbe(c)
              b == ReleaseBuyerBond(a)
              f == RecordDelivered(b)
              e == [f EXCEPT !.deposit = 0, !.finalizedOwed = @ + f.sellerBond,
                             !.sellerBond = 0, !.opened = FALSE]
              s == SettleFees(e, TRUE)
              p == PayBuyer(s, f.deposit)
  <2>1. Quiet(a, c)
    BY <1>1, EarmarksQuiet DEF QuietEarmarks
  <2>. HIDE DEF a
  <2>2. Quiet(b, a)
    BY <2>1, EarmarksQuiet DEF Quiet, QuietEarmarks
  <2>. HIDE DEF b
  <2>3. Quiet(f, b)
    BY <2>2, EarmarksQuiet DEF Quiet, QuietEarmarks
  <2>. HIDE DEF f
  <2>4. Quiet(e, f)
    BY <2>3 DEF Quiet, HasClaims, ClaimFields, SameClaims
  <2>. HIDE DEF e
  <2>5. Quiet(s, e)
    BY <2>4, EarmarksQuiet DEF Quiet, QuietEarmarks
  <2>. HIDE DEF s
  <2>6. Quiet(p, s)
    BY <2>5, PaymentsQuiet DEF Quiet
  <2>. HIDE DEF p
  <2>7. Quiet(PayOwedAndDie(p), p)
    BY <2>6, PaymentsQuiet DEF Quiet
  <2>8. Quiet(PayOwedAndDie(p), c)
    BY <2>1, <2>2, <2>3, <2>4, <2>5, <2>6, <2>7, QuietTrans
  <2>. QED BY <2>8 DEF CloseClean, a, b, f, e, s, p
<1>2. Quiet(PayFinalAndClose(d), d)
  <2>. DEFINE owed == IF IsSubscription(d) THEN 0 ELSE Greater(d.tokensFinal - d.tokensPaid, 0)
              c == ChargeEscrow(d, owed)
              e == [c EXCEPT !.tokensPaid = @ + owed]
  <2>1. Quiet(c, d)
    BY EarmarksQuiet DEF QuietEarmarks
  <2>. HIDE DEF c, owed
  <2>2. Quiet(e, c)
    BY <2>1 DEF Quiet, HasClaims, ClaimFields, SameClaims
  <2>. HIDE DEF e
  <2>3. Quiet(CloseClean(e), e)
    BY <1>1, <2>2 DEF Quiet
  <2>. QED BY <2>1, <2>2, <2>3, QuietTrans DEF PayFinalAndClose, owed, c, e
<1>. QED BY <1>1, <1>2

\* The close of a dispute.
LEMMA StakedQuiet ==
  ASSUME NEW d, HasClaims(d), NEW x, NEW y
  PROVE  Quiet(SettleTrustedAndClose(d, x, y), d)
<1>1. ASSUME NEW c, HasClaims(c) PROVE Quiet(PayTrusted(c), c)
  <2>. DEFINE a == ChargeEscrow(c, Greater(c.tokensFinal - ClaimBase(c), 0))
              b == RecordDelivered(a)
  <2>1. Quiet(a, c)
    BY <1>1, EarmarksQuiet DEF QuietEarmarks
  <2>. HIDE DEF a
  <2>2. Quiet(b, a)
    BY <2>1, EarmarksQuiet DEF Quiet, QuietEarmarks
  <2>. HIDE DEF b
  <2>3. Quiet([b EXCEPT !.tokensPaid = Greater(@, c.tokensFinal)], b)
    BY <2>2 DEF Quiet, HasClaims, ClaimFields, SameClaims
  <2>. QED BY <2>1, <2>2, <2>3, QuietTrans DEF PayTrusted, a, b
<1>2. ASSUME NEW c, HasClaims(c) PROVE Quiet(CloseStaked(c), c)
  <2>. DEFINE u == UnearnedEscrow(c)
              a == BurnShell(c, u)
              e == [a EXCEPT !.buyerBond = 0, !.deposit = 0,
                             !.finalizedOwed = @ + c.sellerBond,
                             !.sellerBond = 0, !.opened = FALSE]
              s == SettleFees(e, FALSE)
              p == PayBuyer(s, c.deposit - u + c.buyerBond)
  <2>1. Quiet(a, c)
    BY <1>2, PaymentsQuiet
  <2>. HIDE DEF a
  <2>2. Quiet(e, a)
    BY <2>1 DEF Quiet, HasClaims, ClaimFields, SameClaims
  <2>. HIDE DEF e
  <2>3. Quiet(s, e)
    BY <2>2, EarmarksQuiet DEF Quiet, QuietEarmarks
  <2>. HIDE DEF s
  <2>4. Quiet(p, s)
    BY <2>3, PaymentsQuiet DEF Quiet
  <2>. HIDE DEF p
  <2>5. Quiet(PayOwedAndDie(p), p)
    BY <2>4, PaymentsQuiet DEF Quiet
  <2>. QED BY <2>1, <2>2, <2>3, <2>4, <2>5, QuietTrans DEF CloseStaked, u, a, e, s, p
<1>. DEFINE r == ReleaseProbe(d)
            b == ChargeWeeksThrough(r, WeeksElapsedAt(d, d.disputeTime))
            t == PayTrusted(b)
            f == ForfeitBonds(t, x, y)
<1>3. Quiet(r, d)
  BY EarmarksQuiet DEF QuietEarmarks
<1>. HIDE DEF r
<1>4. Quiet(b, r)
  BY <1>3, WeeksQuiet DEF Quiet
<1>. HIDE DEF b
<1>5. Quiet(t, b)
  BY <1>1, <1>4 DEF Quiet
<1>. HIDE DEF t
<1>6. Quiet(f, t)
  BY <1>5, EarmarksQuiet DEF Quiet, QuietEarmarks
<1>. HIDE DEF f
<1>7. Quiet(CloseStaked(f), f)
  BY <1>2, <1>6 DEF Quiet
<1>8. Quiet(CloseStaked(f), d)
  BY <1>3, <1>4, <1>5, <1>6, <1>7, QuietTrans
<1>. QED BY <1>8 DEF SettleTrustedAndClose, r, b, t, f

\* Walking out of the trial.
LEMMA TrialQuiet ==
  ASSUME NEW d, HasClaims(d)
  PROVE  Quiet(StoppedOnProbe(d), d)
<1>. DEFINE n == Lesser(d.probeTick, d.sellerBond)
            f == ReleaseBuyerBond(d)
            e == [f EXCEPT !.sellerBond = 0, !.finalizedOwed = @ + (d.sellerBond - n),
                           !.probeTick = 0, !.deposit = 0, !.opened = FALSE]
            b == BurnShell(e, d.probeTick + n)
            p == PayBuyer(b, f.deposit)
<1>1. Quiet(f, d)
  BY EarmarksQuiet DEF QuietEarmarks
<1>. HIDE DEF f, n
<1>2. Quiet(e, f)
  BY <1>1 DEF Quiet, HasClaims, ClaimFields, SameClaims
<1>. HIDE DEF e
<1>3. Quiet(b, e)
  BY <1>2, PaymentsQuiet DEF Quiet
<1>. HIDE DEF b
<1>4. Quiet(p, b)
  BY <1>3, PaymentsQuiet DEF Quiet
<1>. HIDE DEF p
<1>5. Quiet(PayOwedAndDie(p), p)
  BY <1>4, PaymentsQuiet DEF Quiet
<1>. QED BY <1>1, <1>2, <1>3, <1>4, <1>5, QuietTrans DEF StoppedOnProbe, n, f, e, b, p

-----------------------------------------------------------------------------
(* Judging the pending claim                                               *)

\* Judging stands when quiet steps come before it and after it.
LEMMA JudgedAround ==
  ASSUME NEW a, NEW b, NEW c, NEW d, NEW at, Quiet(b, a), Judged(c, b), Quiet(d, c)
  PROVE  Judged(d, a) /\ (Due(c, b, at) => Due(d, a, at))
BY DEF Judged, Due, Quiet, SameClaims

\* Quiet steps judge nothing.
LEMMA QuietJudged ==
  ASSUME NEW d \in Deal, NEW e, Quiet(e, d), NEW at
  PROVE  Judged(e, d) /\ Due(e, d, at)
BY Counters, SMTT(20) DEF Judged, Due, Quiet, SameClaims, Counts

\* _promoteDue trusts the pending claim when its window has passed; _voidClaims
\* then drops what is left.
LEMMA PromoteJudges ==
  ASSUME NEW d, HasClaims(d), d.tokensFinal \in Nat, d.tokensPend \in Nat, NEW at
  PROVE  JudgesDue(d, at)
<1>1. Judged(Promote(d), d) /\ Promote(d).tokensPend = d.tokensPend
      /\ Promote(d).disputed = d.disputed
  BY DEF Promote, Judged, HasClaims, ClaimFields
<1>2. PromoteDue(d, at) = d \/ (PromoteDue(d, at) = Promote(d)
                                 /\ at >= d.lastClaimTime + CLAIM_PROMOTE_WINDOW)
  BY DEF PromoteDue
<1>. DEFINE p == PromoteDue(d, at)
            v == [p EXCEPT !.tokensPend = p.tokensFinal]
<1>3. Judged(p, d) /\ Due(p, d, at) /\ p.tokensPend = d.tokensPend /\ p.disputed = d.disputed
  BY <1>1, <1>2, SMTT(20) DEF Judged, Due
<1>. HIDE DEF p
<1>4. /\ HasClaims(v) /\ v.tokensPend = v.tokensFinal /\ v.tokensFinal = p.tokensFinal
      /\ v.lastClaimTime = p.lastClaimTime /\ v.periodStart = p.periodStart
      /\ v.probeAccepted = p.probeAccepted
  BY <1>3 DEF Judged, HasClaims, ClaimFields
<1>5. Judged(v, d) /\ Due(v, d, at)
  BY <1>3, <1>4 DEF Judged, Due
<1>. QED BY <1>1, <1>3, <1>5 DEF p, JudgesDue

\* The seller's exit judges the claim at the moment of the call.
LEMMA SellerStoppedJudges ==
  ASSUME NEW d \in Deal, NEW t
  PROVE  Judged(SellerStopped(d, t), d) /\ Due(SellerStopped(d, t), d, t)
<1>. DEFINE a == IF d.probeAccepted THEN d ELSE ForfeitBonds(d, 0, PricePerTick)
            p == PromoteDue(a, t)
            v == [p EXCEPT !.tokensPend = p.tokensFinal]
            f == ForfeitBonds(v, 0, PricePerTick)
            s == IF d.probeAccepted /\ ~IsSubscription(d) THEN f ELSE p
            c == ChargeWeeksThrough(s, WeeksElapsedAt(d, t))
            e == PayFinalAndClose(c)
<1>0. HasClaims(d)
  BY DealHasClaims
<1>1. Quiet(a, d)
  BY <1>0, EarmarksQuiet, QuietSelf DEF QuietEarmarks
<1>2. HasClaims(a) /\ a.tokensFinal \in Nat /\ a.tokensPend \in Nat
  BY <1>1, Counters DEF Quiet, SameClaims, Counts
<1>. HIDE DEF a
<1>3. Judged(p, a) /\ Due(p, a, t) /\ Judged(v, a) /\ Due(v, a, t)
  BY <1>2, PromoteJudges DEF JudgesDue
<1>. HIDE DEF p, v
<1>4. Quiet(f, v) /\ Quiet(p, p)
  BY <1>3, EarmarksQuiet, QuietSelf DEF Judged, QuietEarmarks
<1>. HIDE DEF f
<1>5. \E u : Judged(u, a) /\ Due(u, a, t) /\ Quiet(s, u)
  BY <1>3, <1>4
<1>6. PICK u : Judged(u, a) /\ Due(u, a, t) /\ Quiet(s, u)
  BY <1>5
<1>. HIDE DEF s
<1>7. Quiet(c, s)
  BY <1>6, WeeksQuiet DEF Quiet
<1>. HIDE DEF c
<1>8. Quiet(e, c)
  BY <1>7, CloseQuiet DEF Quiet
<1>. HIDE DEF e
<1>9. Quiet(e, u)
  BY <1>6, <1>7, <1>8, QuietTrans
<1>10. Judged(e, d) /\ Due(e, d, t)
  BY <1>1, <1>6, <1>9, JudgedAround
<1>. QED BY <1>10 DEF SellerStopped, a, p, v, f, s, c, e

\* Both ends of a dispute judge it at the instant the dispute was raised, and
\* leave no dispute.
LEMMA ResolvedJudges ==
  ASSUME NEW d \in Deal
  PROVE  /\ Judged(Released(d), d) /\ Due(Released(d), d, d.disputeTime)
         /\ ~Released(d).disputed
         /\ Judged(TimedOut(d), d) /\ Due(TimedOut(d), d, d.disputeTime)
         /\ ~TimedOut(d).disputed
<1>. DEFINE b == ChargeWeeksThrough(d, WeeksElapsedAt(d, d.disputeTime))
            v == VoidClaims(b)
            w == [v EXCEPT !.disputed = FALSE]
            n == Lesser(CostOf(Greater(d.tokensPend - d.tokensFinal, 0)), d.deposit)
            x == [w EXCEPT !.deposit = @ - n]
            y == BurnShell(x, n)
<1>0. HasClaims(d)
  BY DealHasClaims
<1>1. Quiet(b, d)
  BY <1>0, WeeksQuiet
<1>2. HasClaims(b) /\ b.tokensFinal \in Nat /\ b.tokensPend \in Nat /\ b.disputeTime = d.disputeTime
  BY <1>1, Counters DEF Quiet, SameClaims, Counts
<1>. HIDE DEF b, n
<1>3. Judged(v, b) /\ Due(v, b, d.disputeTime)
  BY <1>2, PromoteJudges DEF VoidClaims, JudgesDue
<1>. HIDE DEF v
<1>4. Judged(w, b) /\ Due(w, b, d.disputeTime) /\ w.disputed = FALSE
  BY <1>3 DEF Judged, Due, HasClaims, ClaimFields
<1>. HIDE DEF w
<1>5. HasClaims(w)
  BY <1>4 DEF Judged
<1>6. Quiet(x, w)
  BY <1>5 DEF Quiet, HasClaims, ClaimFields, SameClaims
<1>. HIDE DEF x
<1>7. Quiet(y, x)
  BY <1>6, PaymentsQuiet DEF Quiet
<1>. HIDE DEF y
<1>8. Quiet(y, w) /\ HasClaims(y)
  BY <1>6, <1>7, QuietTrans DEF Quiet
<1>9. ASSUME NEW e, Quiet(e, w)
      PROVE  Judged(e, d) /\ Due(e, d, d.disputeTime) /\ ~e.disputed
  BY <1>1, <1>4, <1>9, JudgedAround DEF Quiet, SameClaims
<1>10. \E e : Released(d) = e /\ Quiet(e, w)
  <2>1. \/ Released(d) = SettleTrustedAndClose(w, DisputeStake(w), 0)
        \/ Released(d) = SettleTrustedAndClose(w, PricePerTick, PricePerTick)
    BY DEF Released, b, v, w
  <2>. QED BY <1>5, <2>1, StakedQuiet
<1>11. \E e : TimedOut(d) = e /\ Quiet(e, w)
  <2>1. \/ TimedOut(d) = SettleTrustedAndClose(w, DisputeStake(b), DisputeStake(b))
        \/ TimedOut(d) = SettleTrustedAndClose(y, 2 * PricePerTick, 2 * PricePerTick)
    BY DEF TimedOut, b, v, w, n, x, y
  <2>. QED BY <1>5, <1>8, <2>1, StakedQuiet, QuietTrans
<1>. QED BY <1>9, <1>10, <1>11

\* The buyer's own stop() may trust a claim at once.
LEMMA StoppedJudges ==
  ASSUME NEW d \in Deal, NEW t
  PROVE  Judged(Stopped(d, t), d)
<1>. DEFINE p == PromoteDue(d, t)
            q == Promote(p)
            f == ForfeitBonds(q, PricePerTick, 0)
            s == IF IsSubscription(d) THEN p ELSE f
            c == ChargeWeeksThrough(s, WeeksStartedAt(d, t))
            e == PayFinalAndClose(c)
<1>0. HasClaims(d) /\ d.tokensFinal \in Nat /\ d.tokensPend \in Nat
  BY DealHasClaims, Counters DEF Counts
<1>1. Judged(p, d) /\ p.tokensPend = d.tokensPend
  BY <1>0, PromoteJudges DEF JudgesDue
<1>2. HasClaims(p) /\ p.tokensFinal \in Nat /\ p.tokensPend \in Nat
  BY <1>0, <1>1 DEF Judged, Greater
<1>. HIDE DEF p
<1>3. Judged(q, p) /\ q.tokensPend = p.tokensPend
  BY <1>2, PromoteJudges DEF JudgesDue
<1>. HIDE DEF q
<1>4. Judged(q, d)
  BY <1>0, <1>1, <1>2, <1>3 DEF Judged, Greater
<1>5. Quiet(f, q) /\ Quiet(p, p)
  BY <1>2, <1>3, EarmarksQuiet, QuietSelf DEF Judged, QuietEarmarks
<1>. HIDE DEF f
<1>6. PICK u : Judged(u, d) /\ Quiet(s, u)
  BY <1>1, <1>4, <1>5
<1>. HIDE DEF s
<1>7. Quiet(c, s)
  BY <1>6, WeeksQuiet DEF Quiet
<1>. HIDE DEF c
<1>8. Quiet(e, c)
  BY <1>7, CloseQuiet DEF Quiet
<1>. HIDE DEF e
<1>9. Judged(e, d)
  BY <1>0, <1>6, <1>7, <1>8, QuietSelf, QuietTrans, JudgedAround
<1>10. Judged(StoppedOnProbe(d), d)
  BY <1>0, TrialQuiet, QuietJudged
<1>11. Stopped(d, t) = StoppedOnProbe(d) \/ Stopped(d, t) = e
  BY DEF Stopped, p, q, f, s, c, e
<1>. QED BY <1>9, <1>10, <1>11

-----------------------------------------------------------------------------
(* The meter: how much is claimed, and how fast                            *)

\* Judging a claim does not speed the meter up.
LEMMA JudgedMetered ==
  ASSUME NEW d \in Deal, Metered(d), NEW e, Judged(e, d)
  PROVE  Metered(e)
<1>1. d.tokensFinal \in Nat /\ d.tokensPend \in Nat
  BY Counters DEF Counts
<1>2. e.tokensFinal \in Nat /\ e.tokensPend \in Nat
  BY <1>1 DEF Judged, Greater
<1>3. /\ e.tokensFinal <= e.tokensPend /\ e.tokensPend <= e.tokensFinal + TickSize
      /\ e.tokensPend <= d.tokensPend
  BY <1>1, <1>2, VolumeAssumption, SMTT(20) DEF Judged, Greater, Metered
<1>4. ASSUME e.probeAccepted
      PROVE  (e.tokensPend - TickSize) * Minute <= (e.lastClaimTime - e.periodStart) * TickSize
  <2>. DEFINE x == e.tokensPend - TickSize
              y == d.tokensPend - TickSize
              z == (d.lastClaimTime - d.periodStart) * TickSize
  <2>1. x \in Int /\ y \in Int /\ x <= y /\ Minute \in Nat
    BY <1>1, <1>2, <1>3, VolumeAssumption, ClockAssumption, SMTT(20)
  <2>2. z \in Int /\ y * Minute <= z
    BY <1>4, Counters, VolumeAssumption, SMTT(20) DEF Judged, Metered, Counts
  <2>3. z = (e.lastClaimTime - e.periodStart) * TickSize
    BY DEF Judged
  <2>. HIDE DEF x, y, z
  <2>4. x * Minute <= y * Minute
    BY <2>1, SMTT(20)
  <2>5. x * Minute <= z
    BY <2>1, <2>2, <2>4, SMTT(20)
  <2>. QED BY <2>3, <2>5 DEF x
<1>. QED BY <1>3, <1>4 DEF Metered

\* claimTokens keeps to the meter: the new claim fits the time since the last.
LEMMA ClaimMetered ==
  ASSUME deal \in Deal, Metered(deal), now \in Nat, NEW n \in Nat, claimTokens(n)
  PROVE  Metered(deal') /\ Due(deal', deal, now)
<1>. DEFINE s == SettleBoundaries(deal, WeeksElapsedAt(deal, now))
            p == PromoteDue(s, now)
            e == [p EXCEPT !.tokensPend = n, !.lastClaimTime = now]
<1>0. /\ deal.tokensFinal \in Nat /\ deal.tokensPend \in Nat
      /\ deal.lastClaimTime \in Nat /\ deal.periodStart \in Nat
      /\ Minute \in Nat /\ TickSize \in Nat
  BY Counters, VolumeAssumption, ClockAssumption DEF Counts
<1>1. Quiet(s, deal)
  BY DealHasClaims, WeeksQuiet
<1>2. /\ deal.probeAccepted /\ n > deal.tokensPend
      /\ n - deal.tokensPend <= TickSize
      /\ (n - deal.tokensPend) * Minute <= (now - deal.lastClaimTime) * TickSize
      /\ p.tokensPend = p.tokensFinal
      /\ deal' = e
  BY DEF claimTokens, MAX_CLAIM_DELTA
<1>. HIDE DEF s
<1>3. HasClaims(s) /\ s.tokensFinal \in Nat /\ s.tokensPend \in Nat
  BY <1>0, <1>1 DEF Quiet, SameClaims
<1>4. Judged(p, s) /\ Due(p, s, now) /\ p.tokensPend = s.tokensPend
  BY <1>3, PromoteJudges DEF JudgesDue
<1>. HIDE DEF p
<1>5. /\ p.tokensPend = deal.tokensPend /\ p.tokensFinal = deal.tokensPend
      /\ p.periodStart = deal.periodStart /\ p.probeAccepted = deal.probeAccepted
      /\ Due(p, deal, now) /\ HasClaims(p)
  BY <1>1, <1>2, <1>4 DEF Quiet, SameClaims, Judged, Due
<1>6. /\ e.tokensPend = n /\ e.lastClaimTime = now /\ e.tokensFinal = p.tokensFinal
      /\ e.periodStart = p.periodStart
  BY <1>5 DEF HasClaims, ClaimFields
<1>. HIDE DEF e
<1>7. (n - TickSize) * Minute <= (now - deal.periodStart) * TickSize
  <2>. DEFINE a == deal.tokensPend - TickSize
              b == n - deal.tokensPend
              x == deal.lastClaimTime - deal.periodStart
              y == now - deal.lastClaimTime
  <2>1. a \in Int /\ b \in Int /\ x \in Int /\ y \in Int
    BY <1>0, SMTT(20)
  <2>2. a * Minute <= x * TickSize /\ b * Minute <= y * TickSize
    BY <1>2 DEF Metered
  <2>3. n - TickSize = a + b /\ now - deal.periodStart = x + y
    BY <1>0, SMTT(20)
  <2>. HIDE DEF a, b, x, y
  <2>4. (a + b) * Minute = a * Minute + b * Minute /\ (x + y) * TickSize = x * TickSize + y * TickSize
    BY <1>0, <2>1, SMTT(20)
  <2>5. (a + b) * Minute <= (x + y) * TickSize
    <3>1. a * Minute \in Int /\ b * Minute \in Int /\ x * TickSize \in Int /\ y * TickSize \in Int
      BY <1>0, <2>1, SMTT(20)
    <3>. QED BY <2>2, <2>4, <3>1, SMTT(20)
  <2>. QED BY <2>3, <2>5
<1>8. Metered(deal')
  BY <1>0, <1>2, <1>5, <1>6, <1>7, SMTT(20) DEF Metered
<1>9. Due(deal', deal, now)
  BY <1>2, <1>5, <1>6 DEF Due
<1>. QED BY <1>8, <1>9

-----------------------------------------------------------------------------
(* The calendar: which weeks are charged                                   *)

\* Every stored record has them.
LEMMA DealHasMarks == ASSUME NEW d \in Deal PROVE HasMarks(d)
BY DEF Deal, HasMarks, MarkFields

\* Charging the escrow, judging a claim and reporting leave the calendar alone.
LEMMA MarksStay ==
  ASSUME NEW d, HasMarks(d)
  PROVE  /\ \A n : SameMarks(ChargeEscrow(d, n), d)
         /\ \A t : SameMarks(PromoteDue(d, t), d)
         /\ SameMarks(RecordDelivered(d), d)
         /\ SameMarks(ReportFinalized(d), d)
<1>1. \A n : SameMarks(ChargeEscrow(d, n), d)
  BY DEF ChargeEscrow, SameMarks, HasMarks, MarkFields
<1>2. \A t : SameMarks(PromoteDue(d, t), d)
  BY DEF PromoteDue, Promote, SameMarks, HasMarks, MarkFields
<1>3. SameMarks(RecordDelivered(d), d)
  BY DEF RecordDelivered, SameMarks, HasMarks, MarkFields
<1>4. SameMarks(ReportFinalized(d), d)
  BY DEF ReportFinalized, SameMarks, HasMarks, MarkFields
<1>. QED BY <1>1, <1>2, <1>3, <1>4

\* One turn of the loop books the next week, if it is due.
LEMMA TurnBooks ==
  ASSUME NEW d, HasMarks(d), HasClaims(d), NEW target
  PROVE  LET e == ChargeWeekIfBefore(d, target)
         IN  /\ d.weekIndex < target => AtWeek(e, d, d.weekIndex + 1)
             /\ ~(d.weekIndex < target) => e = d
<1>. DEFINE c == ChargeEscrow(d, Greater((d.weekIndex + 1) * d.tokensPerWeek - d.tokensPaid, 0))
            w == [c EXCEPT !.tokensPaid = (d.weekIndex + 1) * d.tokensPerWeek,
                           !.weekIndex = @ + 1,
                           !.weekBaseTokens = Greater(d.tokensFinal, d.tokensPend)]
<1>1. SameMarks(c, d)
  BY MarksStay
<1>2. ChargeWeek(d) = w
  BY DEF ChargeWeek
<1>. HIDE DEF c
<1>3. HasMarks(w) /\ w.opened = c.opened /\ w.weekIndex = c.weekIndex + 1
      /\ w.tokensPaid = (d.weekIndex + 1) * d.tokensPerWeek
  BY <1>1 DEF SameMarks, HasMarks, MarkFields
<1>. HIDE DEF w
<1>. QED BY <1>1, <1>2, <1>3 DEF ChargeWeekIfBefore, AtWeek, SameMarks

\* The loop of _chargeWeeksThrough books every week up to its target.
LEMMA LoopBooks ==
  ASSUME NEW d \in Deal, IsSubscription(d), d.probeAccepted,
         NEW target \in Int, target <= SUB_WEEKS, d.weekIndex < target
  PROVE  AtWeek(ChargeWeeksThrough(d, target), d, target)
<1>. DEFINE w1 == ChargeWeekIfBefore(d, target)
            w2 == ChargeWeekIfBefore(w1, target)
            w3 == ChargeWeekIfBefore(w2, target)
            w4 == ChargeWeekIfBefore(w3, target)
<1>0. HasClaims(d) /\ HasMarks(d) /\ d.weekIndex \in 0 .. 4 /\ target <= 4 /\ d.tokensPerWeek \in Nat
  BY DealHasClaims, DealHasMarks, Counters DEF SUB_WEEKS, Counts
<1>1. ChargeWeeksThrough(d, target) = w4
  BY DEF ChargeWeeksThrough
<1>2. AtWeek(w1, d, d.weekIndex + 1) /\ Quiet(w1, d)
  BY <1>0, TurnBooks, WeeksQuiet
<1>. HIDE DEF w1
<1>3. /\ AtWeek(w1, d, w1.weekIndex) /\ w1.weekIndex = d.weekIndex + 1
      /\ HasClaims(w1) /\ HasMarks(w1) /\ w1.tokensPerWeek = d.tokensPerWeek
  BY <1>2 DEF AtWeek, Quiet, SameClaims
<1>4. /\ AtWeek(w2, d, w2.weekIndex) /\ HasClaims(w2) /\ HasMarks(w2)
      /\ w2.tokensPerWeek = d.tokensPerWeek
      /\ w2.weekIndex = IF w1.weekIndex < target THEN w1.weekIndex + 1 ELSE w1.weekIndex
  BY <1>3, TurnBooks, WeeksQuiet, SMTT(20) DEF AtWeek, Quiet, SameClaims
<1>. HIDE DEF w2
<1>5. /\ AtWeek(w3, d, w3.weekIndex) /\ HasClaims(w3) /\ HasMarks(w3)
      /\ w3.tokensPerWeek = d.tokensPerWeek
      /\ w3.weekIndex = IF w2.weekIndex < target THEN w2.weekIndex + 1 ELSE w2.weekIndex
  BY <1>4, TurnBooks, WeeksQuiet, SMTT(20) DEF AtWeek, Quiet, SameClaims
<1>. HIDE DEF w3
<1>6. /\ AtWeek(w4, d, w4.weekIndex)
      /\ w4.weekIndex = IF w3.weekIndex < target THEN w3.weekIndex + 1 ELSE w3.weekIndex
  BY <1>5, TurnBooks, WeeksQuiet, SMTT(20) DEF AtWeek, Quiet, SameClaims
<1>. HIDE DEF w4
<1>7. w4.weekIndex = target
  BY <1>0, <1>3, <1>4, <1>5, <1>6, SMTT(20)
<1>. QED BY <1>1, <1>6, <1>7

\* _settleBoundaries books the weeks that are due, and nothing when none is.
LEMMA BoundariesBook ==
  ASSUME NEW d \in Deal, NEW due \in Int, due <= SUB_WEEKS, d.probeAccepted
  PROVE  LET e == SettleBoundaries(d, due)
         IN  SameMarks(e, d) \/ (IsSubscription(d) /\ d.weekIndex < due /\ AtWeek(e, d, due))
<1>. DEFINE c == ChargeWeeksThrough(d, due)
            r == RecordDelivered(c)
            e == ReportFinalized(r)
<1>0. d.weekIndex \in Int
  BY Counters, SMTT(20) DEF SUB_WEEKS, Counts
<1>1. SettleBoundaries(d, due) = d \/ (d.weekIndex < due /\ SettleBoundaries(d, due) = e)
  BY <1>0, SMTT(20) DEF SettleBoundaries
<1>2. HasMarks(d) /\ SameMarks(d, d)
  BY DealHasMarks DEF SameMarks
<1>3. d.weekIndex < due => SameMarks(c, d) \/ (IsSubscription(d) /\ AtWeek(c, d, due))
  <2>1. CASE IsSubscription(d)
    BY <2>1, LoopBooks
  <2>2. CASE ~IsSubscription(d)
    BY <1>2, <2>2 DEF ChargeWeeksThrough
  <2>. QED BY <2>1, <2>2
<1>. HIDE DEF c
<1>4. HasMarks(c) => SameMarks(e, c)
  <2>1. HasMarks(c) => SameMarks(r, c)
    BY MarksStay
  <2>. HIDE DEF r
  <2>2. HasMarks(r) => SameMarks(e, r)
    BY MarksStay
  <2>. QED BY <2>1, <2>2 DEF SameMarks
<1>. HIDE DEF e
<1>. QED BY <1>1, <1>2, <1>3, <1>4 DEF SameMarks, AtWeek

\* A week counts as elapsed only once its whole length has passed.
LEMMA ElapsedHasPassed ==
  ASSUME NEW d \in Deal, NEW t \in Nat
  PROVE  WeeksElapsedAt(d, t) * SubWeekLen <= t - d.periodStart
           \/ WeeksElapsedAt(d, t) <= 0
<1>. DEFINE a == t - d.periodStart
            q == a \div SubWeekLen
            n == WeeksElapsedAt(d, t)
<1>1. a \in Int /\ SubWeekLen \in Nat \ {0}
  BY Counters, ClockAssumption, SMTT(20) DEF Counts
<1>2. n \in Int
  BY WeeksWithinTerm
<1>3. n <= q
  <2>1. q \in Int /\ d.subWeeks \in Int
    BY <1>1, Counters, SMTT(20) DEF SUB_WEEKS, Counts
  <2>2. n = Lesser(q, d.subWeeks)
    BY DEF WeeksElapsedAt
  <2>. QED BY <2>1, <2>2, SMTT(20) DEF Lesser
<1>. HIDE DEF a, n
<1>4. q \in Int /\ q * SubWeekLen <= a
  BY <1>1, SMTT(20)
<1>. HIDE DEF q
<1>5. n * SubWeekLen <= q * SubWeekLen
  BY <1>1, <1>2, <1>3, <1>4, SMTT(20)
<1>6. n * SubWeekLen \in Int /\ q * SubWeekLen \in Int
  BY <1>1, <1>2, <1>4, SMTT(20)
<1>. QED BY <1>1, <1>4, <1>5, <1>6, SMTT(20) DEF a, n

\* Steps that judge the claim at most and leave the calendar alone, or end the deal.
LEMMA JudgedOrderly ==
  ASSUME deal \in Deal, Metered(deal), Booked(deal, now), now \in Nat, now' \in Nat, now <= now',
         Judged(deal', deal), deal'.alive => SameMarks(deal', deal) /\ deal'.subWeeks = deal.subWeeks
                                             /\ deal'.tokensPerWeek = deal.tokensPerWeek
  PROVE  Orderly
<1>1. Metered(deal')
  BY JudgedMetered
<1>2. ASSUME deal'.alive PROVE Booked(deal', now')
  <2>1. /\ SameMarks(deal', deal) /\ deal'.subWeeks = deal.subWeeks
        /\ deal'.tokensPerWeek = deal.tokensPerWeek
        /\ deal'.probeAccepted = deal.probeAccepted /\ deal'.periodStart = deal.periodStart
    BY <1>2 DEF Judged
  <2>. DEFINE x == deal.weekIndex * SubWeekLen
  <2>2. x \in Int /\ deal.periodStart \in Int
    BY Counters, ClockAssumption, SMTT(20) DEF SUB_WEEKS, Counts
  <2>3. x <= now - deal.periodStart => x <= now' - deal.periodStart
    <3>. HIDE DEF x
    <3>. QED BY <2>2, SMTT(20)
  <2>. QED BY <2>1, <2>3 DEF Booked, SameMarks, IsSubscription
<1>. QED BY <1>1, <1>2 DEF Orderly

\* Quiet ones in particular.
LEMMA QuietOrderly ==
  ASSUME deal \in Deal, Metered(deal), Booked(deal, now), now \in Nat, now' \in Nat, now <= now',
         Quiet(deal', deal), deal'.alive => SameMarks(deal', deal)
  PROVE  Orderly
BY JudgedOrderly, QuietJudged DEF Quiet, SameClaims

\* Payments leave the marks alone, and the sweep ends the account.
LEMMA MarksOfPayments ==
  ASSUME NEW d, HasMarks(d)
  PROVE  /\ \A x : SameMarks(PayBuyer(d, x), d)
         /\ \A x : SameMarks(PaySeller(d, x), d)
         /\ \A x : SameMarks(BurnShell(d, x), d)
         /\ SameMarks(SweepAndDie(d), d) /\ ~SweepAndDie(d).alive
<1>1. \A x : SameMarks(PayBuyer(d, x), d)
  BY DEF PayBuyer, SameMarks, HasMarks, MarkFields
<1>2. \A x : SameMarks(PaySeller(d, x), d)
  BY DEF PaySeller, SameMarks, HasMarks, MarkFields
<1>3. \A x : SameMarks(BurnShell(d, x), d)
  BY DEF BurnShell, SameMarks, HasMarks, MarkFields
<1>. DEFINE p == PaySeller(d, d.balance)
<1>4. SameMarks(p, d)
  BY <1>2
<1>. HIDE DEF p
<1>5. SameMarks(Die(p), p) /\ ~Die(p).alive
  BY <1>4 DEF Die, SameMarks, HasMarks, MarkFields
<1>6. SameMarks(Die(p), d)
  BY <1>4, <1>5 DEF SameMarks
<1>. QED BY <1>1, <1>2, <1>3, <1>5, <1>6 DEF SweepAndDie, p

\* Unwinding a match that never opened.
LEMMA UnwoundQuiet ==
  ASSUME NEW d \in Deal
  PROVE  Quiet(Unwound(d), d) /\ SameMarks(Unwound(d), d)
<1>. DEFINE f == ReleaseBuyerBond(d)
            e == [f EXCEPT !.deposit = 0, !.sellerBond = 0, !.funded = FALSE,
                           !.sellerBondFunded = FALSE, !.buyerBondFunded = FALSE,
                           !.offerPosted = FALSE]
            p == PayBuyer(e, f.deposit)
            q == PaySeller(p, f.sellerBond)
            r == BurnShell(q, q.balance)
<1>0. HasClaims(d) /\ HasMarks(d)
  BY DealHasClaims, DealHasMarks
<1>1. Quiet(f, d) /\ SameMarks(f, d)
  BY <1>0, EarmarksQuiet DEF ReleaseBuyerBond, SameMarks, HasMarks, MarkFields, QuietEarmarks
<1>. HIDE DEF f
<1>2. Quiet(e, f) /\ SameMarks(e, f)
  BY <1>1 DEF Quiet, HasClaims, ClaimFields, SameClaims, SameMarks, HasMarks, MarkFields
<1>. HIDE DEF e
<1>3. Quiet(p, e) /\ SameMarks(p, e)
  BY <1>2, PaymentsQuiet, MarksOfPayments DEF Quiet, SameMarks
<1>. HIDE DEF p
<1>4. Quiet(q, p) /\ SameMarks(q, p)
  BY <1>3, PaymentsQuiet, MarksOfPayments DEF Quiet, SameMarks
<1>. HIDE DEF q
<1>5. Quiet(r, q) /\ SameMarks(r, q)
  BY <1>4, PaymentsQuiet, MarksOfPayments DEF Quiet, SameMarks
<1>. HIDE DEF r
<1>6. Quiet(r, d) /\ SameMarks(r, d)
  BY <1>1, <1>2, <1>3, <1>4, <1>5, QuietTrans DEF SameMarks
<1>. QED BY <1>6 DEF Unwound, f, e, p, q, r

\* Listing, unlisting, the bonds, an unwound match and a withdrawal.
LEMMA IdleQuiet ==
  ASSUME deal \in Deal,
         \/ postFromNote \/ onSellClosed
         \/ \E amount \in BondAmounts : fundDeal(amount)
         \/ \E b \in Buyers, amount \in BondAmounts : fundBuyerBond(b, amount)
         \/ \E byBuyer \in BOOLEAN : cleanupUnopened(byBuyer)
         \/ \E amount \in WithdrawAmounts : withdrawShell(amount)
  PROVE  Quiet(deal', deal) /\ (deal'.alive => SameMarks(deal', deal))
<1>0. HasClaims(deal) /\ HasMarks(deal)
  BY DealHasClaims, DealHasMarks
<1>1. CASE postFromNote
  BY <1>0, <1>1 DEF postFromNote, Quiet, HasClaims, ClaimFields, SameClaims, SameMarks, HasMarks, MarkFields
<1>2. CASE onSellClosed
  BY <1>0, <1>2 DEF onSellClosed, Quiet, HasClaims, ClaimFields, SameClaims, SameMarks, HasMarks, MarkFields
<1>3. CASE \E amount \in BondAmounts : fundDeal(amount)
  <2>. PICK x \in BondAmounts : fundDeal(x)
    BY <1>3
  <2>. DEFINE e == [deal EXCEPT !.balance = @ + x, !.fromSeller = @ + x,
                                !.sellerBond = BondAmount, !.sellerBondFunded = TRUE]
  <2>1. Quiet(e, deal) /\ SameMarks(e, deal)
    BY <1>0 DEF Quiet, HasClaims, ClaimFields, SameClaims, SameMarks, HasMarks, MarkFields
  <2>2. deal' = PaySeller(e, x - BondAmount)
    BY DEF fundDeal
  <2>. HIDE DEF e
  <2>. QED BY <2>1, <2>2, PaymentsQuiet, MarksOfPayments, QuietTrans DEF Quiet, SameMarks
<1>4. CASE \E b \in Buyers, amount \in BondAmounts : fundBuyerBond(b, amount)
  <2>. PICK b \in Buyers, x \in BondAmounts : fundBuyerBond(b, x)
    BY <1>4
  <2>. DEFINE e == [deal EXCEPT !.balance = @ + x, !.fromBuyer = @ + x,
                                !.buyerBond = BondAmount, !.buyerBondFunded = TRUE]
  <2>1. Quiet(e, deal) /\ SameMarks(e, deal)
    BY <1>0 DEF Quiet, HasClaims, ClaimFields, SameClaims, SameMarks, HasMarks, MarkFields
  <2>2. deal' = PayBuyer(e, x - BondAmount)
    BY DEF fundBuyerBond
  <2>. HIDE DEF e
  <2>. QED BY <2>1, <2>2, PaymentsQuiet, MarksOfPayments, QuietTrans DEF Quiet, SameMarks
<1>5. CASE \E byBuyer \in BOOLEAN : cleanupUnopened(byBuyer)
  BY <1>5, UnwoundQuiet DEF cleanupUnopened
<1>6. CASE \E amount \in WithdrawAmounts : withdrawShell(amount)
  <2>. PICK x \in WithdrawAmounts : withdrawShell(x)
    BY <1>6
  <2>. DEFINE e == [deal EXCEPT !.finalizedOwed = @ - x]
              p == PaySeller(e, x)
  <2>1. deal' = p \/ deal' = SweepAndDie(p)
    BY DEF withdrawShell
  <2>2. Quiet(e, deal) /\ SameMarks(e, deal)
    BY <1>0 DEF Quiet, HasClaims, ClaimFields, SameClaims, SameMarks, HasMarks, MarkFields
  <2>. HIDE DEF e
  <2>3. Quiet(p, e) /\ SameMarks(p, e)
    BY <2>2, PaymentsQuiet, MarksOfPayments DEF Quiet, SameMarks
  <2>. HIDE DEF p
  <2>4. Quiet(p, deal) /\ SameMarks(p, deal)
    BY <2>2, <2>3, QuietTrans DEF SameMarks
  <2>5. Quiet(SweepAndDie(p), deal) /\ ~SweepAndDie(p).alive
    BY <2>4, PaymentsQuiet, MarksOfPayments, QuietTrans DEF Quiet, SameMarks
  <2>. QED BY <2>1, <2>4, <2>5
<1>. QED BY <1>1, <1>2, <1>3, <1>4, <1>5, <1>6

\* Closing an unmatched deal and destroying a deal that is not streaming.
LEMMA RemovalQuiet ==
  ASSUME deal \in Deal, close \/ destroy
  PROVE  Quiet(deal', deal) /\ SameMarks(deal', deal) /\ ~deal'.alive
<1>0. HasClaims(deal) /\ HasMarks(deal)
  BY DealHasClaims, DealHasMarks
<1>1. ASSUME NEW d, HasClaims(d), HasMarks(d)
      PROVE  Quiet(ReturnBond(d), d) /\ SameMarks(ReturnBond(d), d)
  BY <1>1, EarmarksQuiet DEF ReturnBond, PaySeller, SameMarks, HasMarks, MarkFields,
         QuietEarmarks
<1>2. CASE close
  <2>. DEFINE r == ReturnBond(deal)
  <2>1. Quiet(r, deal) /\ SameMarks(r, deal)
    BY <1>0, <1>1
  <2>2. deal' = SweepAndDie(r)
    BY <1>2 DEF close
  <2>. HIDE DEF r
  <2>. QED BY <2>1, <2>2, PaymentsQuiet, MarksOfPayments, QuietTrans DEF Quiet, SameMarks
<1>3. CASE destroy
  <2>. DEFINE a == ReleaseProbe(deal)
              f == ReleaseBuyerBond(a)
              g == [f EXCEPT !.deposit = 0, !.funded = FALSE]
              p == PayBuyer(g, f.deposit)
              s == IF deal.funded THEN p ELSE deal
              r == ReturnBond(s)
  <2>1. Quiet(a, deal) /\ SameMarks(a, deal)
    BY <1>0, EarmarksQuiet DEF ReleaseProbe, SameMarks, HasMarks, MarkFields, QuietEarmarks
  <2>. HIDE DEF a
  <2>2. Quiet(f, a) /\ SameMarks(f, a)
    BY <2>1, EarmarksQuiet DEF ReleaseBuyerBond, Quiet, SameMarks, HasMarks, MarkFields,
           QuietEarmarks
  <2>. HIDE DEF f
  <2>3. Quiet(g, f) /\ SameMarks(g, f)
    BY <2>2 DEF Quiet, HasClaims, ClaimFields, SameClaims, SameMarks, HasMarks, MarkFields
  <2>. HIDE DEF g
  <2>4. Quiet(p, g) /\ SameMarks(p, g)
    BY <2>3, PaymentsQuiet, MarksOfPayments DEF Quiet, SameMarks
  <2>. HIDE DEF p
  <2>5. Quiet(s, deal) /\ SameMarks(s, deal)
    BY <1>0, <2>1, <2>2, <2>3, <2>4, QuietTrans, QuietSelf DEF SameMarks
  <2>. HIDE DEF s
  <2>6. Quiet(r, s) /\ SameMarks(r, s)
    BY <1>1, <2>5 DEF Quiet, SameMarks
  <2>7. deal' = SweepAndDie(r)
    BY <1>3 DEF destroy, DestroyedBeforeSweep, a, f, g, p, s
  <2>. HIDE DEF r
  <2>. QED BY <2>5, <2>6, <2>7, PaymentsQuiet, MarksOfPayments, QuietTrans DEF Quiet, SameMarks
<1>. QED BY <1>2, <1>3

-----------------------------------------------------------------------------
(* The entries                                                             *)

\* The same, and the clock's type.
LEMMA StandingFacts ==
  ASSUME Standing
  PROVE  deal \in Deal /\ Metered(deal) /\ Booked(deal, now) /\ now \in Nat
BY DEF Standing, Sound, Fit

\* A handover that is refused leaves everything; one that is taken finds a deal
\* that never streamed and starts its calendar.
LEMMA HandoverOrderly ==
  ASSUME Standing, NEW b, NEW sub, NEW ticks, fundFromOrderBook(b, sub, ticks)
  PROVE  Orderly /\ deal'.tokensFinal = deal.tokensFinal
<1>. DEFINE bond == IF sub THEN BondAmount ELSE 0
            paid == ticks * UnitPrice + bond
            taken == [deal EXCEPT !.balance = @ + paid, !.fromBuyer = @ + paid,
                                  !.matches = @ + 1]
            escrow == paid - bond
            bonded == [taken EXCEPT !.buyerBond = bond, !.buyerBondFunded = @ \/ bond > 0]
            funded == RecordFunding(bonded, b, escrow, now)
            shaped == RecordDealShape(funded, sub, escrow \div UnitPrice, now)
<1>0. HasClaims(deal) /\ HasMarks(deal) /\ now' = now
  BY StandingFacts, DealHasClaims, DealHasMarks DEF fundFromOrderBook
<1>1. Quiet(taken, deal) /\ SameMarks(taken, deal)
  BY <1>0 DEF Quiet, HasClaims, ClaimFields, SameClaims, SameMarks, HasMarks, MarkFields
<1>2. deal' = PayBuyer(taken, paid) \/ (~deal.funded /\ deal' = shaped)
  BY DEF fundFromOrderBook, Handover
<1>. HIDE DEF taken, paid, bond, escrow
<1>3. CASE deal' = PayBuyer(taken, paid)
  <2>1. Quiet(deal', deal) /\ SameMarks(deal', deal)
    BY <1>1, <1>3, PaymentsQuiet, MarksOfPayments, QuietTrans, SMTT(20) DEF Quiet, SameMarks
  <2>. QED BY <1>0, <2>1, StandingFacts, QuietOrderly, SMTT(20) DEF Quiet, SameClaims
<1>4. CASE ~deal.funded /\ deal' = shaped
  <2>1. Quiet(bonded, taken) /\ SameMarks(bonded, taken)
    BY <1>1 DEF Quiet, HasClaims, ClaimFields, SameClaims, SameMarks, HasMarks, MarkFields
  <2>. HIDE DEF bonded
  <2>2. Quiet(funded, bonded) /\ SameMarks(funded, bonded)
    BY <2>1 DEF RecordFunding, Quiet, HasClaims, ClaimFields, SameClaims, SameMarks, HasMarks, MarkFields
  <2>. HIDE DEF funded
  <2>3. Quiet(funded, deal) /\ SameMarks(funded, deal)
    BY <1>1, <2>1, <2>2, QuietTrans DEF SameMarks
  <2>4. /\ shaped.tokensFinal = funded.tokensFinal /\ shaped.tokensPend = funded.tokensPend
        /\ shaped.probeAccepted = funded.probeAccepted /\ shaped.weekIndex = 0
    BY <2>3 DEF RecordDealShape, Quiet, HasClaims, ClaimFields, SameMarks, HasMarks, MarkFields
  <2>. HIDE DEF shaped
  <2>5. ~deal.probeAccepted
    BY <1>4 DEF Standing, Phased, Booked
  <2>. QED BY <1>4, <2>3, <2>4, <2>5, StandingFacts
           DEF Orderly, Metered, Booked, Quiet, SameClaims
<1>. QED BY <1>2, <1>3, <1>4

\* The stream opens on a trial: no claim yet, no week booked.
LEMMA OpenOrderly ==
  ASSUME Standing, open
  PROVE  Orderly /\ deal'.tokensFinal = deal.tokensFinal
<1>0. HasClaims(deal) /\ HasMarks(deal) /\ now' = now
  BY StandingFacts, DealHasClaims, DealHasMarks DEF open
<1>1. ~deal.probeAccepted
  BY DEF Standing, Booked, open
<1>2. /\ deal'.tokensFinal = deal.tokensFinal /\ deal'.tokensPend = deal.tokensPend
      /\ deal'.probeAccepted = FALSE /\ deal'.weekIndex = deal.weekIndex
  BY <1>0 DEF open, HasClaims, ClaimFields, HasMarks, MarkFields
<1>. QED BY <1>1, <1>2, StandingFacts DEF Orderly, Metered, Booked

\* Accepting the probe starts the meter and the calendar with one tick paid.
LEMMA AcceptOrderly ==
  ASSUME Standing, acceptProbe
  PROVE  Orderly
<1>0. HasClaims(deal) /\ HasMarks(deal) /\ now' = now /\ ~deal.probeAccepted /\ deal.opened
  BY StandingFacts, DealHasClaims, DealHasMarks DEF acceptProbe
<1>1. /\ deal'.tokensFinal = TickSize /\ deal'.tokensPend = TickSize
      /\ deal'.lastClaimTime = now /\ deal'.periodStart = now
      /\ deal'.weekIndex = deal.weekIndex /\ deal'.opened = deal.opened
      /\ deal'.tokensPaid = TickSize /\ deal'.probeAccepted = TRUE
  BY <1>0 DEF acceptProbe, HasClaims, ClaimFields, HasMarks, MarkFields
<1>2. deal.weekIndex = 0 /\ now \in Nat /\ TickSize \in Nat /\ Minute \in Nat /\ SubWeekLen \in Nat
  BY <1>0, VolumeAssumption, ClockAssumption DEF Standing, Booked
<1>3. Metered(deal')
  <2>1. (TickSize - TickSize) * Minute <= (now - now) * TickSize
    BY <1>2, SMTT(20)
  <2>. QED BY <1>1, <1>2, <2>1, SMTT(20) DEF Metered
<1>4. Booked(deal', now')
  BY <1>0, <1>1, <1>2, SMTT(20) DEF Booked
<1>. QED BY <1>3, <1>4 DEF Orderly

\* Booking the weeks that have elapsed keeps the calendar, whatever is then done
\* to the claims.
LEMMA SettledBooked ==
  ASSUME Standing, deal.opened, deal.probeAccepted, NEW e,
         LET s == SettleBoundaries(deal, WeeksElapsedAt(deal, now))
         IN  /\ SameMarks(e, s)
             /\ e.probeAccepted = s.probeAccepted /\ e.periodStart = s.periodStart
             /\ e.subWeeks = s.subWeeks /\ e.tokensPerWeek = s.tokensPerWeek
  PROVE  Booked(e, now)
<1>. DEFINE due == WeeksElapsedAt(deal, now)
            s == SettleBoundaries(deal, due)
<1>0. deal \in Deal /\ now \in Nat /\ HasClaims(deal)
  BY StandingFacts, DealHasClaims
<1>1. due \in Int /\ due <= SUB_WEEKS
  BY <1>0, WeeksWithinTerm
<1>2. Quiet(s, deal)
  BY <1>0, WeeksQuiet
<1>3. SameMarks(s, deal) \/ (deal.weekIndex < due /\ AtWeek(s, deal, due))
  BY <1>0, <1>1, BoundariesBook
<1>4. due * SubWeekLen <= now - deal.periodStart \/ due <= 0
  BY <1>0, ElapsedHasPassed
<1>5. deal.weekIndex \in Nat
  BY <1>0, Counters, SMTT(20) DEF SUB_WEEKS, Counts
<1>6. /\ SameMarks(e, s) /\ e.probeAccepted = deal.probeAccepted
      /\ e.periodStart = deal.periodStart
      /\ e.subWeeks = deal.subWeeks /\ e.tokensPerWeek = deal.tokensPerWeek
  BY <1>2 DEF Quiet, SameClaims
<1>. HIDE DEF s, due
<1>7. CASE SameMarks(s, deal)
  BY <1>6, <1>7 DEF Standing, Booked, SameMarks, IsSubscription
<1>8. CASE deal.weekIndex < due /\ AtWeek(s, deal, due)
  <2>1. due > 0
    BY <1>1, <1>5, <1>8, SMTT(20)
  <2>2. due * SubWeekLen <= now - deal.periodStart /\ due # 0
    BY <1>1, <1>4, <2>1, SMTT(20)
  <2>. QED BY <1>6, <1>8, <2>2 DEF Booked, SameMarks, AtWeek, IsSubscription
<1>. QED BY <1>3, <1>7, <1>8

\* A claim, judged at the moment of the call, on a calendar brought up to date.
LEMMA ClaimOrderly ==
  ASSUME Standing, NEW n \in Nat, claimTokens(n)
  PROVE  Orderly /\ ~deal.disputed /\ Due(deal', deal, now)
<1>. DEFINE s == SettleBoundaries(deal, WeeksElapsedAt(deal, now))
            p == PromoteDue(s, now)
            e == [p EXCEPT !.tokensPend = n, !.lastClaimTime = now]
<1>0. deal \in Deal /\ now \in Nat /\ HasClaims(deal) /\ HasMarks(deal) /\ now' = now
  BY StandingFacts, DealHasClaims, DealHasMarks DEF claimTokens
<1>1. /\ deal.opened /\ deal.probeAccepted /\ ~deal.disputed
      /\ deal' = e
  BY DEF claimTokens
<1>2. Quiet(s, deal) /\ HasMarks(s)
  <2>1. WeeksElapsedAt(deal, now) \in Int /\ WeeksElapsedAt(deal, now) <= SUB_WEEKS
    BY <1>0, WeeksWithinTerm
  <2>. QED BY <1>0, <1>1, <2>1, WeeksQuiet, BoundariesBook DEF SameMarks, AtWeek
<1>. HIDE DEF s
<1>3. HasClaims(s) /\ HasMarks(s)
  BY <1>2 DEF Quiet
<1>4. /\ SameMarks(p, s) /\ HasClaims(p) /\ p.probeAccepted = s.probeAccepted
      /\ p.periodStart = s.periodStart /\ p.subWeeks = s.subWeeks
      /\ p.tokensPerWeek = s.tokensPerWeek
  BY <1>3, MarksStay DEF PromoteDue, Promote, HasClaims, ClaimFields
<1>. HIDE DEF p
<1>5. /\ SameMarks(e, s) /\ e.probeAccepted = s.probeAccepted /\ e.periodStart = s.periodStart
      /\ e.subWeeks = s.subWeeks /\ e.tokensPerWeek = s.tokensPerWeek
  BY <1>4 DEF HasClaims, ClaimFields, SameMarks, HasMarks, MarkFields
<1>. HIDE DEF e
<1>6. Booked(e, now)
  BY <1>1, <1>5, SettledBooked DEF s
<1>7. Metered(deal') /\ Due(deal', deal, now)
  BY StandingFacts, ClaimMetered
<1>. QED BY <1>0, <1>1, <1>6, <1>7 DEF Orderly

\* finalize() trusts a claim that outlived its window, and may close the deal.
LEMMA FinalizeOrderly ==
  ASSUME Standing, finalize
  PROVE  Orderly /\ ~deal.disputed /\ Due(deal', deal, now)
<1>. DEFINE p == PromoteDue(deal, now)
<1>0. /\ deal \in Deal /\ now \in Nat /\ HasClaims(deal) /\ HasMarks(deal)
      /\ deal.tokensFinal \in Nat /\ deal.tokensPend \in Nat
  BY StandingFacts, DealHasClaims, DealHasMarks, Counters DEF Counts
<1>1. now' = now /\ ~deal.disputed /\ (deal' = p \/ deal' = PayFinalAndClose(p))
  BY DEF finalize, FinalizeDue
<1>2. Judged(p, deal) /\ Due(p, deal, now)
  BY <1>0, PromoteJudges DEF JudgesDue
<1>3. SameMarks(p, deal) /\ p.subWeeks = deal.subWeeks /\ p.tokensPerWeek = deal.tokensPerWeek
  BY <1>0, MarksStay DEF PromoteDue, Promote, HasClaims, ClaimFields
<1>4. Sound(p)
  BY <1>0, PromoteSame, SameMoneySound DEF Standing, Sound, Fit
<1>. HIDE DEF p
<1>5. Over(PayFinalAndClose(p)) /\ Quiet(PayFinalAndClose(p), p) /\ Quiet(deal, deal)
  BY <1>0, <1>2, <1>4, PayFinalEnds, CloseQuiet, QuietSelf DEF Judged
<1>6. Judged(PayFinalAndClose(p), deal) /\ Due(PayFinalAndClose(p), deal, now)
  BY <1>2, <1>5, JudgedAround
<1>7. Orderly
  BY <1>0, <1>1, <1>2, <1>3, <1>5, <1>6, StandingFacts, JudgedOrderly, SMTT(20) DEF Over
<1>. QED BY <1>1, <1>2, <1>6, <1>7

\* settleWeek() books the weeks that ended, and may close a finished term.
LEMMA WeekOrderly ==
  ASSUME Standing, settleWeek
  PROVE  Orderly /\ ~deal.disputed /\ Due(deal', deal, now)
<1>. DEFINE s == SettleBoundaries(deal, WeeksElapsedAt(deal, now))
            p == PromoteDue(s, now)
            c == PayFinalAndClose(p)
<1>0. deal \in Deal /\ now \in Nat /\ HasClaims(deal) /\ HasMarks(deal)
  BY StandingFacts, DealHasClaims, DealHasMarks
<1>1. /\ now' = now /\ ~deal.disputed /\ deal.opened /\ deal.probeAccepted
      /\ deal' = s \/ deal' = c
  BY DEF settleWeek, WeekDue, WeekSettled
<1>2. /\ WeeksElapsedAt(deal, now) \in Int /\ WeeksElapsedAt(deal, now) <= SUB_WEEKS
  BY <1>0, WeeksWithinTerm
<1>3. Quiet(s, deal) /\ HasMarks(s) /\ Sound(s)
  BY <1>0, <1>1, <1>2, WeeksQuiet, BoundariesBook, SettleBoundariesSound
     DEF SameMarks, AtWeek, Standing
<1>4. Booked(s, now)
  BY <1>1, <1>3, SettledBooked DEF SameMarks
<1>. HIDE DEF s
<1>5. s \in Deal /\ s.tokensFinal \in Nat /\ s.tokensPend \in Nat /\ HasClaims(s)
  BY <1>3, Counters DEF Sound, Fit, Quiet, Counts
<1>6. Judged(p, s) /\ Due(p, s, now) /\ Sound(p)
  BY <1>0, <1>3, <1>5, PromoteJudges, PromoteSame, SameMoneySound DEF JudgesDue
<1>. HIDE DEF p
<1>7. Over(c) /\ Quiet(c, p)
  BY <1>6, PayFinalEnds, CloseQuiet DEF Judged
<1>. HIDE DEF c
<1>8. Judged(c, deal) /\ Due(c, deal, now)
  BY <1>3, <1>6, <1>7, JudgedAround
<1>9. Judged(s, deal) /\ Due(s, deal, now)
  BY <1>0, <1>3, QuietJudged
<1>10. Metered(deal')
  BY <1>0, <1>1, <1>8, <1>9, StandingFacts, JudgedMetered
<1>11. deal'.alive => Booked(deal', now')
  BY <1>1, <1>4, <1>7 DEF Over
<1>. QED BY <1>1, <1>8, <1>9, <1>10, <1>11 DEF Orderly

\* The four exits end the deal and judge its claim as they should.
LEMMA ExitOrderly ==
  ASSUME Standing, stop \/ sellerStop \/ releaseDispute \/ resolveDisputeTimeout
  PROVE  /\ Orderly
         /\ \/ deal' = Stopped(deal, now)
            \/ ~deal.disputed /\ Due(deal', deal, now)
            \/ deal.disputed /\ Due(deal', deal, deal.disputeTime)
         /\ ~(deal.disputed /\ deal'.disputed)
<1>0. deal \in Deal /\ now \in Nat /\ Sound(deal) /\ now' = now
  BY StandingFacts DEF Standing, stop, sellerStop, releaseDispute, resolveDisputeTimeout
<1>1. CASE stop
  <2>1. deal' = Stopped(deal, now) /\ ~deal.disputed
    BY <1>1 DEF stop
  <2>. QED BY <1>0, <2>1, StoppedJudges, StoppedEnds, StandingFacts, JudgedOrderly, SMTT(20) DEF Over
<1>2. CASE sellerStop
  <2>1. deal' = SellerStopped(deal, now) /\ ~deal.disputed
    BY <1>2 DEF sellerStop
  <2>. QED BY <1>0, <2>1, SellerStoppedJudges, SellerStoppedEnds, StandingFacts, JudgedOrderly, SMTT(20)
           DEF Over
<1>3. CASE releaseDispute
  <2>1. deal' = Released(deal) /\ deal.disputed
    BY <1>3 DEF releaseDispute
  <2>. QED BY <1>0, <2>1, ResolvedJudges, ReleasedEnds, StandingFacts, JudgedOrderly, SMTT(20) DEF Over
<1>4. CASE resolveDisputeTimeout
  <2>1. deal' = TimedOut(deal) /\ deal.disputed
    BY <1>4 DEF resolveDisputeTimeout, DisputeExpired
  <2>. QED BY <1>0, <2>1, ResolvedJudges, TimedOutEnds, StandingFacts, JudgedOrderly, SMTT(20) DEF Over
<1>. QED BY <1>1, <1>2, <1>3, <1>4

\* Raising a dispute stops the clock of the claim and changes nothing else.
LEMMA DisputeOrderly ==
  ASSUME Standing, dispute
  PROVE  Orderly /\ ~deal.disputed /\ deal'.tokensFinal = deal.tokensFinal
<1>0. HasClaims(deal) /\ HasMarks(deal) /\ now' = now /\ ~deal.disputed
  BY StandingFacts, DealHasClaims, DealHasMarks DEF dispute
<1>1. /\ Judged(deal', deal) /\ SameMarks(deal', deal) /\ deal'.subWeeks = deal.subWeeks
      /\ deal'.tokensPerWeek = deal.tokensPerWeek /\ deal'.tokensFinal = deal.tokensFinal
  BY <1>0 DEF dispute, Judged, HasClaims, ClaimFields, SameMarks, HasMarks, MarkFields
<1>. QED BY <1>0, <1>1, StandingFacts, JudgedOrderly, SMTT(20)

-----------------------------------------------------------------------------
(* The invariant and the theorems                                          *)

\* A step that keeps the trusted figure trusts nothing.
LEMMA SameIsEarned ==
  ASSUME Standing, deal'.tokensFinal = deal.tokensFinal
  PROVE  Earned
BY StandingFacts, Counters, SMTT(20) DEF Earned, Counts

\* Time passes under a running deal.
LEMMA TickOrderly ==
  ASSUME Standing, Tick
  PROVE  Orderly /\ Earned
<1>1. deal' = deal /\ now' = now + 1
  BY DEF Tick
<1>2. Quiet(deal', deal) /\ SameMarks(deal', deal)
  BY <1>1, StandingFacts, DealHasClaims, DealHasMarks, QuietSelf DEF SameMarks
<1>3. Orderly
  BY <1>1, <1>2, StandingFacts, QuietOrderly, SMTT(20)
<1>. QED BY <1>1, <1>3, SameIsEarned

\* Every entry keeps the meter and the calendar, and trusts only what is due.
LEMMA EntryOrderly ==
  ASSUME Standing, Next
  PROVE  Orderly /\ Earned
<1>0. deal \in Deal /\ now \in Nat
  BY StandingFacts
<1>1. ASSUME Quiet(deal', deal), deal'.alive => SameMarks(deal', deal), now' = now
      PROVE  Orderly /\ Earned
  BY <1>0, <1>1, StandingFacts, QuietOrderly, SameIsEarned, SMTT(20) DEF Quiet, SameClaims
<1>2. CASE \/ postFromNote \/ onSellClosed
           \/ \E amount \in BondAmounts : fundDeal(amount)
           \/ \E b \in Buyers, amount \in BondAmounts : fundBuyerBond(b, amount)
           \/ \E byBuyer \in BOOLEAN : cleanupUnopened(byBuyer)
           \/ \E amount \in WithdrawAmounts : withdrawShell(amount)
  <2>1. now' = now
    BY <1>2 DEF postFromNote, onSellClosed, fundDeal, fundBuyerBond, cleanupUnopened,
                       withdrawShell
  <2>. QED BY <1>0, <1>1, <1>2, <2>1, IdleQuiet
<1>3. CASE close \/ destroy
  <2>1. now' = now
    BY <1>3 DEF close, destroy
  <2>. QED BY <1>0, <1>1, <1>3, <2>1, RemovalQuiet
<1>4. CASE \E b \in Buyers, sub \in SubscriptionDeals, ticks \in HandoverTicks :
             fundFromOrderBook(b, sub, ticks)
  BY <1>4, HandoverOrderly, SameIsEarned
<1>5. CASE open
  BY <1>5, OpenOrderly, SameIsEarned
<1>6. CASE acceptProbe
  BY <1>6, AcceptOrderly DEF Earned, acceptProbe
<1>7. CASE \E n \in 1 .. deal.fundedTokens : claimTokens(n)
  <2>. PICK n \in 1 .. deal.fundedTokens : claimTokens(n)
    BY <1>7
  <2>1. n \in Nat
    BY <1>0, Counters, SMTT(20) DEF Counts
  <2>. QED BY <2>1, ClaimOrderly DEF Earned, Due
<1>8. CASE finalize
  BY <1>8, FinalizeOrderly DEF Earned, Due
<1>9. CASE settleWeek
  BY <1>9, WeekOrderly DEF Earned, Due
<1>10. CASE stop \/ sellerStop \/ releaseDispute \/ resolveDisputeTimeout
  BY <1>10, ExitOrderly DEF Earned, Due
<1>11. CASE dispute
  BY <1>11, DisputeOrderly, SameIsEarned
<1>12. CASE Tick
  BY <1>12, TickOrderly
<1>. QED BY <1>2, <1>3, <1>4, <1>5, <1>6, <1>7, <1>8, <1>9, <1>10, <1>11, <1>12 DEF Next

\* While a dispute lasts the remaining entries leave what it froze.
LEMMA EntryFrozen ==
  ASSUME Standing, Next
  PROVE  Frozen
<1>. SUFFICES ASSUME deal.disputed, deal'.disputed PROVE Frozen
  BY DEF Frozen
<1>0. deal \in Deal /\ FrozenFields \subseteq DOMAIN deal
  BY StandingFacts, SMTT(20) DEF Deal, FrozenFields
<1>1. deal.opened /\ deal.funded
  BY DEF Standing, Phased
<1>2. CASE postFromNote
  BY <1>0, <1>2 DEF postFromNote, Frozen, FrozenFields
<1>3. CASE \E b \in Buyers, sub \in SubscriptionDeals, ticks \in HandoverTicks :
             fundFromOrderBook(b, sub, ticks)
  <2>. PICK b \in Buyers, sub \in SubscriptionDeals, ticks \in HandoverTicks :
              fundFromOrderBook(b, sub, ticks)
    BY <1>3
  <2>. DEFINE paid == ticks * UnitPrice + (IF sub THEN BondAmount ELSE 0)
  <2>1. deal' = PayBuyer([deal EXCEPT !.balance = @ + paid, !.fromBuyer = @ + paid,
                                      !.matches = @ + 1], paid)
    BY <1>1 DEF fundFromOrderBook, Handover
  <2>. HIDE DEF paid
  <2>. QED BY <1>0, <2>1 DEF PayBuyer, Frozen, FrozenFields
<1>4. CASE \E amount \in WithdrawAmounts : withdrawShell(amount)
  <2>. PICK x \in WithdrawAmounts : withdrawShell(x)
    BY <1>4
  <2>. DEFINE e == [deal EXCEPT !.finalizedOwed = @ - x]
              p == PaySeller(e, x)
  <2>1. deal' = p \/ deal' = SweepAndDie(p)
    BY DEF withdrawShell
  <2>2. /\ FrozenFields \subseteq DOMAIN p
        /\ p.deposit = deal.deposit /\ p.probeTick = deal.probeTick
        /\ p.sellerBond = deal.sellerBond /\ p.buyerBond = deal.buyerBond
        /\ p.tokensFinal = deal.tokensFinal /\ p.tokensPend = deal.tokensPend
        /\ p.weekIndex = deal.weekIndex
    BY <1>0 DEF PaySeller, FrozenFields
  <2>. HIDE DEF p
  <2>. QED BY <2>1, <2>2 DEF SweepAndDie, PaySeller, Die, Frozen, FrozenFields
<1>5. CASE stop \/ sellerStop \/ releaseDispute \/ resolveDisputeTimeout
  BY <1>5, ExitOrderly
<1>6. CASE Tick
  BY <1>6 DEF Tick, Frozen
<1>7. CASE \/ onSellClosed \/ close \/ open \/ acceptProbe \/ finalize \/ settleWeek
           \/ dispute \/ destroy
           \/ \E amount \in BondAmounts : fundDeal(amount)
           \/ \E b \in Buyers, amount \in BondAmounts : fundBuyerBond(b, amount)
           \/ \E n \in 1 .. deal.fundedTokens : claimTokens(n)
           \/ \E byBuyer \in BOOLEAN : cleanupUnopened(byBuyer)
  BY <1>1, <1>7 DEF onSellClosed, close, open, acceptProbe, finalize, FinalizeDue,
       settleWeek, WeekDue, dispute, destroy, fundDeal, fundBuyerBond, claimTokens,
       cleanupUnopened, CleanupAllowed
<1>. QED BY <1>2, <1>3, <1>4, <1>5, <1>6, <1>7 DEF Next

\* The constructor's storage satisfies the invariant.
LEMMA ClaimInit == Init => ClaimInv
<1>. SUFFICES ASSUME Init PROVE ClaimInv
  OBVIOUS
<1>1. /\ deal.tokensFinal = 0 /\ deal.tokensPend = 0 /\ ~deal.probeAccepted
      /\ deal.weekIndex = 0
  BY DEF Init, NewDeal
<1>. QED BY <1>1, PhaseInit, VolumeAssumption, SMTT(20) DEF ClaimInv, Metered, Booked

\* Every step keeps the invariant, trusts only what is due and respects a
\* running dispute.
LEMMA ClaimStep == ClaimInv /\ [Next]_vars => ClaimInv' /\ [Earned /\ Frozen]_vars
<1>. SUFFICES ASSUME ClaimInv, [Next]_vars PROVE ClaimInv' /\ [Earned /\ Frozen]_vars
  OBVIOUS
<1>1. PhaseInv /\ PhaseInv'
  BY PhaseStep DEF ClaimInv
<1>2. CASE UNCHANGED vars
  BY <1>1, <1>2 DEF vars, ClaimInv, Metered, Booked, IsSubscription
<1>3. CASE Next
  <2>1. deal.alive
    BY <1>3 DEF Next, postFromNote, onSellClosed, fundFromOrderBook, fundDeal,
                fundBuyerBond, close, open, acceptProbe, claimTokens, finalize,
                settleWeek, stop, sellerStop, dispute, releaseDispute, Tick,
                resolveDisputeTimeout, cleanupUnopened, withdrawShell, destroy,
                FinalizeDue, WeekDue, DisputeExpired, CleanupAllowed
  <2>2. Sound(deal) /\ now \in Nat
    BY <1>1, <2>1, Money, SMTT(20) DEF PhaseInv, MoneyInv, TypeOK, Sound, Fit, Since, Figures
  <2>3. Standing
    BY <1>1, <2>1, <2>2 DEF Standing, ClaimInv, PhaseInv
  <2>4. Orderly /\ Earned /\ Frozen
    BY <1>3, <2>3, EntryOrderly, EntryFrozen
  <2>. QED BY <1>1, <2>4 DEF ClaimInv, Orderly
<1>. QED BY <1>2, <1>3

\* Claims keep to the meter and charged weeks to the calendar in every reachable
\* state.
THEOREM ClaimsAlways == Spec => []ClaimInv
BY ClaimInit, ClaimStep, PTL DEF Spec

\* Whatever the price, the tick, the windows and the inputs, the buyer has at most
\* one tick claimed that they had no time to object to, and over the whole stream
\* claimTokens never outruns one tick per minute of real time.
THEOREM RealTimeClaims == Spec => []ClaimsWithinRealTime
<1>1. ClaimInv => ClaimsWithinRealTime
  BY DEF ClaimInv, Metered, ClaimsWithinRealTime
<1>. QED BY <1>1, ClaimsAlways, PTL

\* Take-or-pay charges only weeks that are over: while a subscription lives the
\* weeks _chargeWeeksThrough booked have elapsed, and the money mark is exactly
\* their quota.
THEOREM EndedWeeks == Spec => []OnlyEndedWeeksCharged
<1>1. ClaimInv => OnlyEndedWeeksCharged
  BY DEF ClaimInv, Booked, OnlyEndedWeeksCharged
<1>. QED BY <1>1, ClaimsAlways, PTL

\* Every step that trusts a claim of an accepted stream does so because the claim
\* outlived its window, judged at the instant of the dispute once one is raised,
\* or because the buyer stopped.
THEOREM EarnedTrust == Spec => TrustIsEarned
<1>1. ClaimInv /\ [Next]_vars => [Earned]_vars
  BY ClaimStep
<1>. QED BY <1>1, ClaimsAlways, PTL DEF Spec, TrustIsEarned, Earned

\* No step between a dispute and its resolution moves escrow or bonds, lets a
\* claim land or mature, or books a week, whatever else is called meanwhile.
THEOREM FrozenDispute == Spec => DisputeFreezes
<1>1. ClaimInv /\ [Next]_vars => [Frozen]_vars
  BY ClaimStep
<1>. QED BY <1>1, ClaimsAlways, PTL DEF Spec, DisputeFreezes, Frozen
=============================================================================
