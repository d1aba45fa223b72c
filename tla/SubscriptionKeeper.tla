------------------------ MODULE SubscriptionKeeper ------------------------
(***************************************************************************)
(* The seller's keeper of a subscription, crates/dexdo/src/seller/keeper.rs,*)
(* beside the contract it keeps.  A step of the keeper reads the deal and  *)
(* plans, reads it again and plans again from the same local time, sends   *)
(* one permissionless call, and judges the result from a third read.  The  *)
(* contract, its parties and the chain's clock go on between any two of    *)
(* these; a call is executed some time after it was sent.                  *)
(*                                                                         *)
(* `keeper.seen` is the cursor, the last snapshot accepted; `keeper.at`    *)
(* the local time the step began; `call` the call on its way; `skew` how   *)
(* far the local clock is from the chain's.  Faults are a call that is     *)
(* lost, a wait for its execution that is given up, a killed process and a *)
(* clock that is off.                                                      *)
(* What submit() answered is left out: the code uses it for the wording of *)
(* an error alone.                                                         *)
(***************************************************************************)
EXTENDS TokenContract

CONSTANTS
  Skews,        \* how far the local clock may be ahead of the chain's
  LastProbe,    \* bound: the probe is accepted by then
  MaxFaults     \* bound: faults in one behaviour

ASSUME KeeperAssumption == Skews \subseteq Int /\ MaxFaults \in Nat

VARIABLES keeper, call, skew, faults

keeperVars == <<keeper, call, skew, faults>>

allVars == <<deal, now, keeper, call, skew, faults>>

Local == now + skew

is_stopped(d) == d.funded /\ ~d.opened /\ ~d.disputed /\ d.deposit = 0 /\ d.probeTick = 0

\* The fields of a snapshot the keeper compares.
Watched(d) == [
  stopped |-> is_stopped(d), final |-> d.tokensFinal, pending |-> d.tokensPend,
  claimed |-> d.lastClaimTime, probe |-> d.probeAccepted, week |-> d.weekIndex,
  paid |-> d.tokensPaid, base |-> d.weekBaseTokens, start |-> d.periodStart,
  shape |-> <<d.subWeeks, d.tokensPerWeek, d.fundedTokens>>]

NoSnapshot == [stopped |-> FALSE]

\* A keeper that has read nothing yet.
Started == [pc |-> "asleep", seen |-> NoSnapshot, at |-> 0, wake |-> 0, target |-> 0]

-----------------------------------------------------------------------------
(* What the keeper makes of a snapshot                                     *)

\* validate_snapshot refuses it.
Malformed(d) ==
  \/ d.tokensFinal > d.tokensPend
  \/ d.opened /\ ~d.funded
  \/ /\ IsSubscription(d)
     /\ \/ d.weekIndex > d.subWeeks
        \/ d.tokensPend > d.fundedTokens
        \/ ~is_stopped(d) /\ d.weekBaseTokens > d.tokensPend
        \/ /\ d.opened /\ d.probeAccepted
           /\ \/ d.tokensFinal < TickSize \/ d.tokensPaid < TickSize
              \/ d.periodStart = 0 \/ d.lastClaimTime = 0

\* Mutant: the start of the weeks is frozen from the first read.
Regresses_FrozenStart(a, b) ==
  \/ b.final < a.final \/ b.claimed < a.claimed \/ b.week < a.week \/ b.paid < a.paid
  \/ b.base < a.base \/ b.start < a.start
  \/ b.pending < a.pending /\ (a.stopped \/ ~b.stopped)
  \/ a.probe /\ ~b.probe
  \/ b.shape # a.shape
  \/ b.start # a.start

\* ensure_non_regressing_transition refuses to go from a to b.  The start of the
\* weeks moves once, when the probe is accepted.
Regresses(a, b) ==
  \/ b.final < a.final \/ b.claimed < a.claimed \/ b.week < a.week \/ b.paid < a.paid
  \/ b.base < a.base \/ b.start < a.start
  \/ b.pending < a.pending /\ (a.stopped \/ ~b.stopped)
  \/ a.probe /\ ~b.probe
  \/ b.shape # a.shape
  \/ b.start # a.start /\ (a.probe \/ ~b.probe)

\* KeeperCursor::accept refuses the deal as it is now.
Rejected == Malformed(deal) \/ (keeper.seen # NoSnapshot /\ Regresses(keeper.seen, Watched(deal)))

ClaimDeadline(d) == d.lastClaimTime + CLAIM_PROMOTE_WINDOW

\* next_week_boundary
NextBoundary(d) == d.periodStart + SubWeekLen * (d.weekIndex + 1)

\* The deadlines that still lie ahead of t.
Deadlines(d, t) ==
  {x \in (IF d.tokensPend > d.tokensFinal \/ d.weekIndex = d.subWeeks THEN {ClaimDeadline(d)} ELSE {})
           \cup (IF d.weekIndex < d.subWeeks THEN {NextBoundary(d)} ELSE {}) : x > t}

\* The wait is cut to the nearest deadline and never longer than the idle period.
Delay(d, t) ==
  CHOOSE x \in {MIN_CLAIM_INTERVAL} \cup {y - t : y \in Deadlines(d, t)} :
    \A z \in {MIN_CLAIM_INTERVAL} \cup {y - t : y \in Deadlines(d, t)} : x <= z

Wait(delay) == [do |-> "wait", delay |-> delay]

Settle(target) == [do |-> "settleWeek", target |-> target]

\* Mutant: the close of a finished term is left to others.
plan_NoClose(d, t) ==
  IF is_stopped(d) THEN [do |-> "end"]
  ELSE IF ~d.opened \/ ~d.probeAccepted \/ d.disputed THEN Wait(MIN_CLAIM_INTERVAL)
  ELSE IF d.tokensPend > d.tokensFinal /\ t >= ClaimDeadline(d) THEN [do |-> "finalize", target |-> 0]
  ELSE IF d.weekIndex < d.subWeeks /\ t >= NextBoundary(d) THEN Settle(WeeksElapsedAt(d, t))
  ELSE Wait(MIN_CLAIM_INTERVAL)

\* plan: what is due by the local clock, promotion first.
plan(d, t) ==
  IF is_stopped(d) THEN [do |-> "end"]
  ELSE IF ~d.opened \/ ~d.probeAccepted \/ d.disputed THEN Wait(MIN_CLAIM_INTERVAL)
  ELSE IF d.tokensPend > d.tokensFinal /\ t >= ClaimDeadline(d) THEN [do |-> "finalize", target |-> 0]
  ELSE IF d.weekIndex < d.subWeeks /\ t >= NextBoundary(d) THEN Settle(WeeksElapsedAt(d, t))
  ELSE IF d.weekIndex = d.subWeeks /\ t >= ClaimDeadline(d) /\ d.tokensFinal = d.tokensPend
       THEN Settle(d.subWeeks)
  ELSE Wait(Delay(d, t))

-----------------------------------------------------------------------------
(* The steps of the keeper                                                 *)

At(pc) == [Started EXCEPT !.pc = pc]

Sleeps(wake) == keeper' = [Started EXCEPT !.seen = Watched(deal), !.wake = wake]

Ends == keeper' = At("done")

Fails == keeper' = At("failed")

\* An account that is gone ends a keeper that has seen it live.
Gone == IF keeper.seen = NoSnapshot THEN Fails ELSE Ends

\* The sleep is over.  The last value of the clock stands for all later ones.
Awake == Local >= keeper.wake \/ now = MaxTime

\* The first read schedules the work.
Look ==
  /\ keeper.pc = "asleep" /\ Awake
  /\ LET next == plan(deal, Local)
     IN  \/ ~deal.alive /\ Gone
         \/ deal.alive /\ Rejected /\ Fails
         \/ /\ deal.alive /\ ~Rejected
            /\ \/ next.do = "end" /\ Ends
               \/ next.do = "wait" /\ Sleeps(Local + next.delay)
               \/ /\ next.do \in {"finalize", "settleWeek"}
                  /\ keeper' = [At("due") EXCEPT !.seen = Watched(deal), !.at = Local]
  /\ UNCHANGED <<deal, now, call, skew, faults>>

\* The second read decides, by the same local time, and the call leaves.
Submit ==
  /\ keeper.pc = "due"
  /\ LET next == plan(deal, keeper.at)
     IN  \/ ~deal.alive /\ Gone /\ UNCHANGED call
         \/ deal.alive /\ Rejected /\ Fails /\ UNCHANGED call
         \/ /\ deal.alive /\ ~Rejected
            /\ \/ next.do = "end" /\ Ends /\ UNCHANGED call
               \/ next.do = "wait" /\ Sleeps(Local + next.delay) /\ UNCHANGED call
               \/ /\ next.do \in {"finalize", "settleWeek"}
                  /\ call' = next.do
                  /\ keeper' = [At("sent") EXCEPT !.seen = Watched(deal), !.target = next.target]
  /\ UNCHANGED <<deal, now, skew, faults>>

\* Mutant: the week after the planned one is expected.
Applied_NextWeek(before, after) ==
  IF keeper.target = 0 THEN after.final > before.final
  ELSE before.week < SUB_WEEKS /\ after.week > keeper.target

\* reconcile_write: the state shows the work done, whoever did it.
Applied(before, after) ==
  IF keeper.target = 0 THEN after.final > before.final
  ELSE before.week < SUB_WEEKS /\ after.week = keeper.target

Faulty == faults < MaxFaults /\ faults' = faults + 1

\* The third read judges the call, or the keeper waits for it no longer.
Reconcile ==
  /\ keeper.pc = "sent"
  /\ \/ call = "none" /\ UNCHANGED faults
     \/ call # "none" /\ Faulty
  /\ \/ ~deal.alive /\ Gone
     \/ deal.alive /\ Rejected /\ Fails
     \/ /\ deal.alive /\ ~Rejected
        /\ \/ is_stopped(deal) /\ Ends
           \/ ~is_stopped(deal) /\ deal.disputed /\ Sleeps(Local + MIN_CLAIM_INTERVAL)
           \/ ~is_stopped(deal) /\ ~deal.disputed
              /\ IF Applied(keeper.seen, Watched(deal)) THEN Sleeps(0) ELSE Fails
  /\ UNCHANGED <<deal, now, call, skew>>

-----------------------------------------------------------------------------
(* The chain, the process and its operator                                 *)

\* The call is executed, or refused by the contract's own conditions.
Execute ==
  /\ call # "none"
  /\ \/ call = "finalize" /\ finalize
     \/ call = "settleWeek" /\ settleWeek
     \/ call = "finalize" /\ ~FinalizeDue /\ UNCHANGED <<deal, now>>
     \/ call = "settleWeek" /\ ~WeekDue /\ UNCHANGED <<deal, now>>
  /\ call' = "none"
  /\ UNCHANGED <<keeper, skew, faults>>

Lose == call # "none" /\ call' = "none" /\ Faulty /\ UNCHANGED <<deal, now, keeper, skew>>

Crash ==
  /\ keeper.pc \notin {"failed", "done"} /\ Fails /\ Faulty
  /\ UNCHANGED <<deal, now, call, skew>>

\* A restart begins from the chain alone: there is no journal.
Restart ==
  /\ keeper.pc = "failed" /\ deal.alive
  /\ keeper' = Started
  /\ UNCHANGED <<deal, now, call, skew, faults>>

\* Everybody else: the parties, the seller's claim loop, other callers, time.
\* The exits differ in who is paid; to the keeper they are one.
Others ==
  /\ \/ acceptProbe /\ now <= LastProbe
     \/ \E tokens \in 1 .. deal.fundedTokens : claimTokens(tokens)
     \/ finalize \/ settleWeek \/ stop \/ dispute \/ resolveDisputeTimeout
     \/ Tick
  /\ UNCHANGED keeperVars

Keep == Look \/ Submit \/ Reconcile

\* A subscription that has just opened.
JustOpened ==
  LET ticks == CHOOSE n \in HandoverTicks : TRUE
      bonded == [NewDeal EXCEPT !.noteAuthorized = TRUE, !.sellerBondFunded = TRUE,
                                !.sellerBond = BondAmount, !.balance = BondAmount,
                                !.fromSeller = BondAmount]
      matched == Handover(bonded, CHOOSE b \in Buyers : TRUE, TRUE, ticks * UnitPrice + BondAmount, 1)
  IN  [matched EXCEPT !.probeTick = PricePerTick, !.deposit = @ - PricePerTick, !.probeTime = 1,
                      !.lastClaimTime = 1, !.opened = TRUE, !.everOpened = TRUE]

KeeperInit ==
  /\ deal = JustOpened /\ now = 1
  /\ keeper = Started /\ call = "none"
  /\ skew \in Skews /\ faults = IF skew = 0 THEN 0 ELSE 1

KeeperNext == Keep \/ Execute \/ Lose \/ Crash \/ Restart \/ Others

KeeperSpec == KeeperInit /\ [][KeeperNext]_allVars

-----------------------------------------------------------------------------
(* Properties                                                              *)

\* The keeper's checks accept every state the contract can come to, in the order
\* it comes to them -- the probe that moves the start of the weeks, a settlement
\* that moves the paid mark past the claims: a live deal is never called malformed
\* or regressing.
StatesAccepted == deal.alive => ~Rejected

\* The keeper stops with an error for a cause: a fault (a local clock that runs
\* ahead of the chain's is one), a deal that was gone before the first read, or a
\* further week that ended while its call was on the way.  A claim, a dispute, a
\* stop or another caller's settlement that crosses the call is no cause.
FailsForCause ==
  [][keeper'.pc = "failed" /\ keeper.pc # "failed" =>
       \/ faults' > 0
       \/ ~deal.alive /\ keeper.seen = NoSnapshot
       \/ keeper.target > 0 /\ deal.weekIndex > keeper.target]_allVars

\* At the end of the bounded clock a keeper that has nothing to do sleeps on.
SleepsOn ==
  LET next == plan(deal, Local)
  IN  /\ deal.alive /\ next.do = "wait"
      /\ keeper = [Started EXCEPT !.seen = Watched(deal), !.wake = Local + next.delay]

KeepDue ==
  \/ keeper.pc = "asleep" /\ Awake /\ ~SleepsOn
  \/ keeper.pc = "due"
  \/ keeper.pc = "sent" /\ call = "none"

\* The process runs, a sent call is executed, the chain's clock moves: weak
\* fairness of each, with its guard written out.
KeeperFairSpec ==
  /\ KeeperSpec
  /\ []<>~KeepDue \/ []<><<Keep>>_allVars
  /\ []<>(call = "none") \/ []<><<Execute>>_allVars
  /\ []<>~(deal.alive /\ now < MaxTime) \/ []<><<Tick>>_vars

\* The keeper alone brings a subscription to its end: it settles every week,
\* promotes the last claim and closes, unless it stops with an error or the
\* parties are in a dispute.
KeptToTheEnd ==
  deal.opened /\ deal.probeAccepted ~> ~deal.alive \/ deal.disputed \/ keeper.pc = "failed"

=============================================================================
