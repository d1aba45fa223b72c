-------------------------- MODULE DealRelations --------------------------
(***************************************************************************)
(* What the theorems about a deal speak of: the inductive invariants of    *)
(* its money, of its phases and of its claims and weeks, and the relations *)
(* between the record before and after a helper of the contract.           *)
(***************************************************************************)
EXTENDS TokenContract

Balanced(d) ==
  d.fromBuyer + d.fromSeller = d.balance + d.toBuyer + d.toSeller + d.burned

\* What the record holds beyond its earmarks.
Slack(d) == d.balance - Earmarked(d)

\* A live record in order.
Fit(d) == d \in Deal /\ d.alive /\ Balanced(d) /\ Slack(d) >= 0

\* Between the stored record and `d` the running transaction has taken nothing
\* in, and has taken no payment back.
Since(d) ==
  /\ deal \in Deal
  /\ d.fromBuyer = deal.fromBuyer /\ d.fromSeller = deal.fromSeller
  /\ d.toBuyer >= deal.toBuyer /\ d.toSeller >= deal.toSeller /\ d.burned >= deal.burned

\* A live record on the way of such a transaction.
Sound(d) == Fit(d) /\ Since(d)

\* Its end: the account is gone.
Over(d) == d \in Deal /\ Balanced(d) /\ ~d.alive /\ d.balance = 0 /\ Since(d)

\* Before the stream first opens nothing is frozen, owed or accrued.
Unearned(d) ==
  ~d.everOpened =>
    ~d.opened /\ d.probeTick = 0 /\ d.finalizedOwed = 0 /\ d.feeAccrued = 0

\* The inductive invariant.
MoneyInv ==
  /\ TypeOK
  /\ Balanced(deal)
  /\ deal.alive => Slack(deal) >= 0 /\ Unearned(deal)
  /\ ~deal.alive => deal.balance = 0

SameEarmarks(e, d) ==
  /\ e.deposit = d.deposit /\ e.probeTick = d.probeTick
  /\ e.finalizedOwed = d.finalizedOwed /\ e.feeAccrued = d.feeAccrued
  /\ e.sellerBond = d.sellerBond /\ e.buyerBond = d.buyerBond

SameFlows(e, d) ==
  /\ e.alive = d.alive /\ e.everOpened = d.everOpened
  /\ e.balance = d.balance
  /\ e.fromBuyer = d.fromBuyer /\ e.fromSeller = d.fromSeller
  /\ e.toBuyer = d.toBuyer /\ e.toSeller = d.toSeller /\ e.burned = d.burned

SameMoney(e, d) == SameFlows(e, d) /\ SameEarmarks(e, d)

-----------------------------------------------------------------------------
(* The contract keeps its promise: under PromiseOf and FlowOf every step   *)
(* of a deal is a step of AbstractDeal, or none. The money argument above  *)
(* gives the accounting; what is added here is the life of the flags.      *)

\* What others see of a record, its money apart.
SameFace(e, d) ==
  /\ e.opened = d.opened /\ e.funded = d.funded /\ e.disputed = d.disputed
  /\ e.offerPosted = d.offerPosted /\ e.noteAuthorized = d.noteAuthorized
  /\ e.buyer = d.buyer
  /\ e.sellerBondFunded = d.sellerBondFunded /\ e.buyerBondFunded = d.buyerBondFunded

\* A step that only moves earmarks and counters.
Inward(e, d) == SameFace(e, d) /\ SameFlows(e, d)

\* A stream runs on a match, a match has no offer out, only a running stream is
\* disputed, a deal whose stream is over does not outlive it, and the bond of a
\* subscription came with its match.
Phased(d) ==
  /\ d.opened => d.funded
  /\ d.everOpened = d.opened
  /\ d.funded => ~d.offerPosted
  /\ d.disputed => d.opened
  /\ d.funded /\ ~d.opened /\ d.subWeeks # 0 => d.buyerBondFunded

\* The inductive invariant.
PhaseInv == MoneyInv /\ (deal.alive => Phased(deal))

-----------------------------------------------------------------------------
(* Payments and the offer's entries                                        *)

\* What the escrow of an unopened match is read from.
SameTerms(e, d) ==
  e.deposit = d.deposit /\ e.buyerBond = d.buyerBond /\ e.subWeeks = d.subWeeks

\* `e` is `d` after x went to the buyer, y to the seller and z was burned.
PaidOut(e, d, x, y, z) ==
  /\ SameFace(e, d) /\ SameTerms(e, d)
  /\ e.alive = d.alive /\ e.everOpened = d.everOpened
  /\ e.balance = d.balance - x - y - z
  /\ e.fromBuyer = d.fromBuyer /\ e.fromSeller = d.fromSeller
  /\ e.toBuyer = d.toBuyer + x /\ e.toSeller = d.toSeller + y /\ e.burned = d.burned + z

-----------------------------------------------------------------------------
(* The abstract record                                                     *)

Card == [
  phase: Promise!Phases, listed: Flag, offered: Flag, buyer: Buyers \cup {NoBuyer},
  sellerBonded: Flag, buyerBonded: Flag, held: Int, escrow: Int]

SameCard(p, q) ==
  /\ p.phase = q.phase /\ p.listed = q.listed /\ p.offered = q.offered
  /\ p.buyer = q.buyer /\ p.sellerBonded = q.sellerBonded
  /\ p.buyerBonded = q.buyerBonded /\ p.held = q.held /\ p.escrow = q.escrow

IsMatched(q, p, b, k, x) ==
  /\ q \in Card
  /\ q.phase = "matched" /\ q.buyer = b /\ q.offered = FALSE
  /\ q.buyerBonded = (p.buyerBonded \/ x)
  /\ q.held = p.held + k /\ q.escrow = k
  /\ q.listed = p.listed /\ q.sellerBonded = p.sellerBonded

\* What the bonds, a draw and the opening leave alone.
SameListing(q, p) ==
  q.listed = p.listed /\ q.offered = p.offered /\ q.buyer = p.buyer

-----------------------------------------------------------------------------
(* Steps of the promise                                                    *)

\* What a step of the contract owes: the flags stay in phase, and the promise
\* takes a step or none.
Kept ==
  /\ deal'.alive => Phased(deal')
  /\ Promise!Next \/ UNCHANGED Promise!vars

Ledger == [brought: Int, toBuyer: Int, toSeller: Int, burned: Int]

\* The storage that claims are made of and judged by.
ClaimFields == {
  "tokensFinal", "tokensPend", "lastClaimTime", "disputeTime", "periodStart",
  "disputed", "probeAccepted", "subWeeks", "tokensPerWeek", "fundedTokens"}

HasClaims(d) == ClaimFields \subseteq DOMAIN d

SameClaims(e, d) ==
  /\ e.tokensFinal = d.tokensFinal /\ e.tokensPend = d.tokensPend
  /\ e.lastClaimTime = d.lastClaimTime /\ e.disputeTime = d.disputeTime
  /\ e.periodStart = d.periodStart /\ e.disputed = d.disputed
  /\ e.probeAccepted = d.probeAccepted /\ e.subWeeks = d.subWeeks
  /\ e.tokensPerWeek = d.tokensPerWeek /\ e.fundedTokens = d.fundedTokens

\* A step that leaves the claims alone.
Quiet(e, d) == HasClaims(e) /\ SameClaims(e, d)

-----------------------------------------------------------------------------
(* Judging the pending claim                                               *)

\* Between `d` and `e` the pending claim was trusted or not, and what was not
\* trusted stayed pending or was dropped.
Judged(e, d) ==
  /\ HasClaims(e)
  /\ e.lastClaimTime = d.lastClaimTime /\ e.periodStart = d.periodStart
  /\ e.probeAccepted = d.probeAccepted
  /\ e.tokensFinal = d.tokensFinal \/ e.tokensFinal = Greater(d.tokensFinal, d.tokensPend)
  /\ e.tokensPend = d.tokensPend \/ e.tokensPend = e.tokensFinal

\* If something became trusted, the claim had outlived its window at `at`.
Due(e, d, at) ==
  e.tokensFinal > d.tokensFinal => at >= d.lastClaimTime + CLAIM_PROMOTE_WINDOW

-----------------------------------------------------------------------------
(* The meter: how much is claimed, and how fast                            *)

\* What is trusted was claimed, at most one tick is pending, and since the
\* probe was accepted claims kept to one tick per minute.
Metered(d) ==
  /\ d.tokensFinal <= d.tokensPend
  /\ d.tokensPend <= d.tokensFinal + TickSize
  /\ d.probeAccepted =>
       (d.tokensPend - TickSize) * Minute <= (d.lastClaimTime - d.periodStart) * TickSize

-----------------------------------------------------------------------------
(* The calendar: which weeks are charged                                   *)

\* The marks of the calendar.
MarkFields == {"weekIndex", "tokensPaid", "opened", "alive"}

HasMarks(d) == MarkFields \subseteq DOMAIN d

SameMarks(e, d) ==
  /\ HasMarks(e)
  /\ e.weekIndex = d.weekIndex /\ e.tokensPaid = d.tokensPaid /\ e.opened = d.opened

\* A record whose calendar stands at week n, paid for the quota of those weeks.
AtWeek(e, d, n) ==
  /\ HasMarks(e) /\ e.opened = d.opened
  /\ e.weekIndex = n /\ e.tokensPaid = n * d.tokensPerWeek

\* The calendar of a live deal: only a running stream has accepted its probe, no
\* week is booked before that, and afterwards the booked weeks are over and paid.
Booked(d, t) ==
  /\ d.probeAccepted => d.opened
  /\ ~d.probeAccepted => d.weekIndex = 0
  /\ IsSubscription(d) /\ d.probeAccepted =>
       /\ d.weekIndex * SubWeekLen <= t - d.periodStart
       /\ d.tokensPaid = IF d.weekIndex = 0 THEN TickSize ELSE d.weekIndex * d.tokensPerWeek

\* The inductive invariant.
ClaimInv == PhaseInv /\ Metered(deal) /\ (deal.alive => Booked(deal, now))

\* What an entry owes the invariant.
Orderly == Metered(deal') /\ (deal'.alive => Booked(deal', now'))

-----------------------------------------------------------------------------
(* The entries                                                             *)

\* What the invariant gives an entry.
Standing == Sound(deal) /\ Phased(deal) /\ Metered(deal) /\ Booked(deal, now) /\ now \in Nat

-----------------------------------------------------------------------------
(* The invariant and the theorems                                          *)

\* What a step may trust: the matured claim, or what the buyer's stop() concedes.
Earned ==
  deal.probeAccepted /\ deal'.tokensFinal > deal.tokensFinal =>
    LET judgedAt == IF deal.disputed THEN deal.disputeTime ELSE now
    IN \/ judgedAt >= deal.lastClaimTime + CLAIM_PROMOTE_WINDOW
       \/ deal' = Stopped(deal, now)

\* What a step may not touch while the dispute lasts.
Frozen ==
  deal.disputed /\ deal'.disputed =>
    /\ deal'.deposit = deal.deposit /\ deal'.probeTick = deal.probeTick
    /\ deal'.sellerBond = deal.sellerBond /\ deal'.buyerBond = deal.buyerBond
    /\ deal'.tokensFinal = deal.tokensFinal /\ deal'.tokensPend = deal.tokensPend
    /\ deal'.weekIndex = deal.weekIndex

\* The seven figures a dispute freezes.
FrozenFields == {"deposit", "probeTick", "sellerBond", "buyerBond", "tokensFinal", "tokensPend",
                 "weekIndex"}

-----------------------------------------------------------------------------
(* What the helpers of the terminals pay out                               *)

\* The figures an exit shares out.
PurseFields == {
  "balance", "deposit", "probeTick", "finalizedOwed", "feeAccrued", "sellerBond", "buyerBond",
  "toBuyer", "toSeller", "opened"}

Purse(d) ==
  /\ PurseFields \subseteq DOMAIN d
  /\ d.balance \in Int /\ d.deposit \in Int /\ d.probeTick \in Int
  /\ d.finalizedOwed \in Int /\ d.feeAccrued \in Int
  /\ d.sellerBond \in Int /\ d.buyerBond \in Int
  /\ d.toBuyer \in Int /\ d.toSeller \in Int

\* What closing with both deposits refunded and the fees burned leaves the seller.
SellersShare(d) == d.toSeller + d.balance - d.feeAccrued - d.deposit - d.buyerBond

\* The rebate of a clean close.
Rebated(d, clean) ==
  IF clean /\ ~d.everDisputed THEN Lesser(Rebate(d.ticksFinalized), d.feeAccrued) ELSE 0

\* What a clean close returns to the buyer: escrow, bond and a probe not accepted.
Refund(d) == d.deposit + d.buyerBond + (IF d.probeAccepted THEN 0 ELSE d.probeTick)

\* What a charge of n tokens to an escrow of x pays the seller, and its fee.
PayFrom(x, n) ==
  IF CostOf(n) > x THEN x - Lesser(x, Fee(ValueOf(n))) ELSE ValueOf(n)

FeeFrom(x, n) == IF CostOf(n) > x THEN Lesser(x, Fee(ValueOf(n))) ELSE Fee(ValueOf(n))

-----------------------------------------------------------------------------
(* Helpers that leave the bonds and the payments alone                     *)

\* What charging weeks and judging claims never touches.
HeldFields == {
  "sellerBond", "buyerBond", "probeTick", "toBuyer", "toSeller", "balance",
  "sellerBondFunded", "opened", "funded", "alive"}

HasHeld(d) == HeldFields \subseteq DOMAIN d

SameHeld(e, d) ==
  /\ e.sellerBond = d.sellerBond /\ e.buyerBond = d.buyerBond /\ e.probeTick = d.probeTick
  /\ e.toBuyer = d.toBuyer /\ e.toSeller = d.toSeller /\ e.balance = d.balance
  /\ e.sellerBondFunded = d.sellerBondFunded /\ e.opened = d.opened /\ e.funded = d.funded
  /\ e.alive = d.alive

Holds(e, d) == HasHeld(e) /\ SameHeld(e, d)

-----------------------------------------------------------------------------
(* The end of a dispute                                                    *)

\* The record a dispute is settled from, and the tokens its claims prove.
Settling(d) == ChargeWeeksThrough(ReleaseProbe(d), WeeksElapsedAt(d, d.disputeTime))

Proven(b) == Greater(b.tokensFinal - ClaimBase(b), 0)

\* The price, with its fee, of the weeks that had not started at time t.
UnstartedCost(d, t) == CostOf((d.subWeeks - WeeksStartedAt(d, t)) * d.tokensPerWeek)

\* The record after a dispute's boundary is booked and its claims are judged.
Voided(d) ==
  [VoidClaims(ChargeWeeksThrough(d, WeeksElapsedAt(d, d.disputeTime))) EXCEPT !.disputed = FALSE]

\* The bonds of a live deal and the frozen tick of its trial; a dispute cannot
\* predate the weeks that are booked.
Bonded(d) ==
  /\ d.sellerBondFunded => d.sellerBond = BondAmount
  /\ d.opened => d.sellerBondFunded
  /\ d.opened /\ ~d.probeAccepted => d.probeTick = PricePerTick
  /\ d.funded /\ IsSubscription(d) => d.buyerBond = BondAmount
  /\ d.disputed /\ IsSubscription(d) /\ d.probeAccepted =>
       d.weekIndex * SubWeekLen <= d.disputeTime - d.periodStart

-----------------------------------------------------------------------------
(* What the lemmas about fields, payments and abstract records say         *)

\* The money figures of a record are natural numbers.
Figures(d) ==
  /\ d.balance \in Nat /\ d.deposit \in Nat /\ d.probeTick \in Nat
  /\ d.finalizedOwed \in Nat /\ d.feeAccrued \in Nat
  /\ d.sellerBond \in Nat /\ d.buyerBond \in Nat
  /\ d.fromBuyer \in Nat /\ d.fromSeller \in Nat
  /\ d.toBuyer \in Nat /\ d.toSeller \in Nat /\ d.burned \in Nat

\* A record with all the fields of the contract's storage.
HasFields(d) ==
  /\ "matches" \in DOMAIN d /\ "fromBuyer" \in DOMAIN d
  /\ "fromSeller" \in DOMAIN d /\ "toBuyer" \in DOMAIN d
  /\ "toSeller" \in DOMAIN d /\ "burned" \in DOMAIN d /\ "reported" \in DOMAIN d
  /\ "probeTick" \in DOMAIN d /\ "probeTime" \in DOMAIN d
  /\ "sellerBond" \in DOMAIN d /\ "buyerBond" \in DOMAIN d
  /\ "balance" \in DOMAIN d /\ "deposit" \in DOMAIN d
  /\ "finalizedOwed" \in DOMAIN d /\ "feeAccrued" \in DOMAIN d
  /\ "ticksFinalized" \in DOMAIN d /\ "fundedTime" \in DOMAIN d
  /\ "disputeTime" \in DOMAIN d /\ "tokensPerWeek" \in DOMAIN d
  /\ "fundedTokens" \in DOMAIN d /\ "tokensPaid" \in DOMAIN d
  /\ "periodStart" \in DOMAIN d /\ "weekBaseTokens" \in DOMAIN d
  /\ "tokensFinal" \in DOMAIN d /\ "tokensPend" \in DOMAIN d
  /\ "lastClaimTime" \in DOMAIN d /\ "alive" \in DOMAIN d
  /\ "noteAuthorized" \in DOMAIN d /\ "offerPosted" \in DOMAIN d
  /\ "funded" \in DOMAIN d /\ "opened" \in DOMAIN d /\ "everOpened" \in DOMAIN d
  /\ "disputed" \in DOMAIN d /\ "everDisputed" \in DOMAIN d
  /\ "probeAccepted" \in DOMAIN d /\ "sellerBondFunded" \in DOMAIN d
  /\ "buyerBondFunded" \in DOMAIN d /\ "buyer" \in DOMAIN d
  /\ "subWeeks" \in DOMAIN d /\ "weekIndex" \in DOMAIN d

\* Storing x in a numeric field of d gives a record again.
TakesNat(d, x) ==
  /\ [d EXCEPT !.matches = x] \in Deal /\ [d EXCEPT !.fromBuyer = x] \in Deal
  /\ [d EXCEPT !.fromSeller = x] \in Deal /\ [d EXCEPT !.toBuyer = x] \in Deal
  /\ [d EXCEPT !.toSeller = x] \in Deal /\ [d EXCEPT !.burned = x] \in Deal
  /\ [d EXCEPT !.reported = x] \in Deal /\ [d EXCEPT !.probeTick = x] \in Deal
  /\ [d EXCEPT !.probeTime = x] \in Deal /\ [d EXCEPT !.sellerBond = x] \in Deal
  /\ [d EXCEPT !.buyerBond = x] \in Deal /\ [d EXCEPT !.balance = x] \in Deal
  /\ [d EXCEPT !.deposit = x] \in Deal
  /\ [d EXCEPT !.finalizedOwed = x] \in Deal
  /\ [d EXCEPT !.feeAccrued = x] \in Deal
  /\ [d EXCEPT !.ticksFinalized = x] \in Deal
  /\ [d EXCEPT !.fundedTime = x] \in Deal
  /\ [d EXCEPT !.disputeTime = x] \in Deal
  /\ [d EXCEPT !.tokensPerWeek = x] \in Deal
  /\ [d EXCEPT !.fundedTokens = x] \in Deal
  /\ [d EXCEPT !.tokensPaid = x] \in Deal
  /\ [d EXCEPT !.periodStart = x] \in Deal
  /\ [d EXCEPT !.weekBaseTokens = x] \in Deal
  /\ [d EXCEPT !.tokensFinal = x] \in Deal
  /\ [d EXCEPT !.tokensPend = x] \in Deal
  /\ [d EXCEPT !.lastClaimTime = x] \in Deal

\* Storing x in a flag of d gives a record again.
TakesFlag(d, x) ==
  /\ [d EXCEPT !.alive = x] \in Deal /\ [d EXCEPT !.noteAuthorized = x] \in Deal
  /\ [d EXCEPT !.offerPosted = x] \in Deal /\ [d EXCEPT !.funded = x] \in Deal
  /\ [d EXCEPT !.opened = x] \in Deal /\ [d EXCEPT !.everOpened = x] \in Deal
  /\ [d EXCEPT !.disputed = x] \in Deal
  /\ [d EXCEPT !.everDisputed = x] \in Deal
  /\ [d EXCEPT !.probeAccepted = x] \in Deal
  /\ [d EXCEPT !.sellerBondFunded = x] \in Deal
  /\ [d EXCEPT !.buyerBondFunded = x] \in Deal

\* The counters and times of a record are natural numbers, its weeks those of a term.
Counts(d) ==
  /\ d.tokensFinal \in Nat /\ d.tokensPend \in Nat /\ d.tokensPaid \in Nat
  /\ d.tokensPerWeek \in Nat /\ d.fundedTokens \in Nat
  /\ d.weekBaseTokens \in Nat /\ d.ticksFinalized \in Nat
  /\ d.periodStart \in Nat /\ d.lastClaimTime \in Nat
  /\ d.disputeTime \in Nat /\ d.fundedTime \in Nat /\ d.probeTime \in Nat
  /\ d.weekIndex \in 0 .. SUB_WEEKS /\ d.subWeeks \in {0, SUB_WEEKS}
  /\ d.matches \in Nat

\* From d to e the balance pays x and the earmarks stay.
Pays(e, d, x) ==
  /\ e \in Deal /\ Balanced(e)
  /\ SameEarmarks(e, d)
  /\ e.balance = d.balance - x
  /\ e.alive = d.alive /\ e.everOpened = d.everOpened
  /\ e.opened = d.opened
  /\ Since(d) => Since(e)

\* The helpers that move earmarks leave the claims of d alone.
QuietEarmarks(d) ==
  /\ Quiet(ReleaseProbe(d), d)
  /\ Quiet(ReleaseBuyerBond(d), d)
  /\ Quiet(ReturnBond(d), d)
  /\ \A x, y : Quiet(ForfeitBonds(d, x, y), d)
  /\ \A n : Quiet(ChargeEscrow(d, n), d)
  /\ Quiet(RecordDelivered(d), d)
  /\ Quiet(ReportFinalized(d), d)
  /\ \A clean : Quiet(SettleFees(d, clean), d)

\* What _promote and _promoteDue make of d's pending claim.
JudgesDue(d, at) ==
  /\ Judged(Promote(d), d)
  /\ Judged(PromoteDue(d, at), d) /\ Due(PromoteDue(d, at), d, at)
  /\ PromoteDue(d, at).tokensPend = d.tokensPend
  /\ PromoteDue(d, at).disputed = d.disputed
  /\ Promote(d).tokensPend = d.tokensPend
  /\ LET v == [PromoteDue(d, at) EXCEPT !.tokensPend = PromoteDue(d, at).tokensFinal]
     IN  Judged(v, d) /\ Due(v, d, at)

\* The abstract record p shows what the promise says of a live d.
SeenAs(p, d) ==
  /\ p \in Card
  /\ p.phase = IF d.opened THEN "open" ELSE IF d.funded THEN "matched" ELSE "idle"
  /\ p.listed = d.noteAuthorized /\ p.offered = d.offerPosted
  /\ p.buyer = d.buyer /\ p.sellerBonded = d.sellerBondFunded
  /\ p.buyerBonded = d.buyerBondFunded /\ p.held = d.balance
  /\ p.escrow = IF d.funded /\ ~d.opened
                THEN d.deposit + (IF IsSubscription(d) THEN d.buyerBond ELSE 0)
                ELSE 0

\* Listing p, and setting its offer to x, changes nothing else of it.
ListsCard(p, x) ==
  LET q == [p EXCEPT !.listed = TRUE, !.offered = x]
      r == [p EXCEPT !.offered = x]
  IN  /\ q \in Card
      /\ q.listed = TRUE /\ q.offered = x /\ q.phase = p.phase /\ q.buyer = p.buyer
      /\ q.sellerBonded = p.sellerBonded /\ q.buyerBonded = p.buyerBonded
      /\ q.held = p.held /\ q.escrow = p.escrow
      /\ r \in Card
      /\ r.listed = p.listed /\ r.offered = x /\ r.phase = p.phase /\ r.buyer = p.buyer
      /\ r.sellerBonded = p.sellerBonded /\ r.buyerBonded = p.buyerBonded
      /\ r.held = p.held /\ r.escrow = p.escrow

\* What changed from f to g is all that a step of the promise changes.
LedgerMove(g, f) ==
  /\ g.toSeller = f.toSeller =>
       g = [f EXCEPT !.brought = g.brought, !.toBuyer = g.toBuyer]
  /\ g.toBuyer = f.toBuyer =>
       g = [f EXCEPT !.brought = g.brought, !.toSeller = g.toSeller]
  /\ g.brought = f.brought /\ g.toBuyer = f.toBuyer =>
       g = [f EXCEPT !.toSeller = g.toSeller]
  /\ g.toSeller = f.toSeller /\ g.toBuyer = f.toBuyer =>
       g = [f EXCEPT !.brought = g.brought]

\* q is p opened, or p unwound, when it looks like it.
OpensCard(q, p) ==
  /\ /\ q.phase = "open" /\ q.offered = p.offered /\ q.held = p.held
     /\ q.sellerBonded = p.sellerBonded /\ q.buyerBonded = p.buyerBonded
     => q = Promise!Opened(p)
  /\ /\ q.phase = "idle" /\ q.offered = FALSE /\ q.held = 0
     /\ q.sellerBonded = FALSE /\ q.buyerBonded = FALSE
     => q = Promise!Unwound(p)

\* q is p with a bond more, or with another balance, when it looks like it.
BondsCard(q, p) ==
  /\ q.sellerBonded = TRUE /\ q.buyerBonded = p.buyerBonded =>
       q = Promise!SellerBonded(p, q.held - p.held)
  /\ q.buyerBonded = TRUE /\ q.sellerBonded = p.sellerBonded =>
       q = Promise!BuyerBonded(p, q.held - p.held)
  /\ q.buyerBonded = p.buyerBonded /\ q.sellerBonded = p.sellerBonded =>
       q = [p EXCEPT !.held = q.held]

=============================================================================
