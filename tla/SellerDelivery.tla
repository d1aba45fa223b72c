--------------------------- MODULE SellerDelivery ---------------------------
(***************************************************************************)
(* One deal in the seller process: buyer requests relayed by the gateway   *)
(* (seller/gateway.rs) under reservations of the capacity ledger, the loop *)
(* that claims what was delivered (seller/advance.rs), the keeper's reads  *)
(* on a subscription (seller/keeper.rs), the deal contract they write to,  *)
(* and crashes and restarts of the process.                                *)
(*                                                                         *)
(*   chain    the contract: probe, pending (tokensPending), week, base     *)
(*            (weekBaseTokens), stopped                                    *)
(*   flights  claimTokens messages submitted and not yet executed          *)
(*   ledger   the capacity ledger                                          *)
(*   request  per request slot: phase, remaining, charged (charged_per_run)*)
(*            and owed, the tokens shown to the buyer whose count has not  *)
(*            arrived (awaiting_usage is owed > 0)                         *)
(*   count    DealDelivery.count                                           *)
(*   driver   pc, claimed, base (delivery_base), atProbe, and of the claim *)
(*            being confirmed: sought and target                           *)
(*   hist     history: billed (tokens recorded), shown (tokens the buyer   *)
(*            received), and what the bounds count                         *)
(*                                                                         *)
(* Time is abstracted: the probe window, the claim interval and the rate   *)
(* allowance may have elapsed at any step. A dispute is the deal stopping. *)
(***************************************************************************)
EXTENDS CapacityLedger, Functions, Finiteness

CONSTANTS Requests,     \* request slots: streams the gateway can serve at once
          Asked,        \* sizes a buyer asks for
          Counts,       \* token counts an upstream can report for a chunk
          Probed,       \* the deal starts with its probe accepted
          LateClaims,   \* a claim may execute after the driver gave up on it
          MaxRequests, MaxCrashes, MaxFaults

ASSUME DeliveryConstants ==
  /\ Finite(Requests)
  /\ Asked \subseteq Nat \ {0} /\ Counts \subseteq Nat \ {0}
  /\ {Probed, LateClaims} \subseteq BOOLEAN
  /\ {MaxRequests, MaxCrashes, MaxFaults} \subseteq Nat
  /\ TICK_SIZE <= TokensPerWeek

VARIABLES chain, flights, ledger, request, count, driver, hist

vars == <<chain, flights, ledger, request, count, driver, hist>>

Idle == [phase |-> "idle", remaining |-> 0, charged |-> 0, owed |-> 0]
Off == [pc |-> "off", claimed |-> 0, base |-> 0, atProbe |-> 0, sought |-> 0, target |-> 0]

\* A deal past its probe left a record behind: the trial was delivered, and the
\* crossing read absorbed it into the seed.
Init ==
  /\ chain = [probe |-> Probed, pending |-> IF Probed THEN TICK_SIZE ELSE 0,
              week |-> 0, base |-> 0, stopped |-> FALSE]
  /\ flights = {}
  /\ ledger = [rec |-> NoRecord, unper |-> 0, up |-> FALSE, terminal |-> FALSE,
               disk |-> IF Probed THEN FreshRecord(chain) ELSE NoRecord,
               faults |-> MaxFaults]
  /\ request = [r \in Requests |-> Idle]
  /\ count = 0
  /\ driver = Off
  /\ hist = [billed |-> 0, shown |-> 0, asked |-> 0, crashes |-> 0, clean |-> TRUE]

-----------------------------------------------------------------------------
(* Registration and restart                                                *)

\* register_stream: reconcile, then seed the counter from the durable debt.
register_stream ==
  /\ driver.pc = "off"
  /\ \E w \in reconcile_deal(ledger, chain) :
       /\ ledger' = w.l
       /\ count' = IF w.ok THEN w.l.rec.local ELSE 0
       /\ driver' = [driver EXCEPT !.pc = IF w.ok THEN "start" ELSE "failed"]
  /\ UNCHANGED <<chain, flights, request, hist>>

\* What a crash leaves: the file, and the messages already submitted.
Restarted(disk) ==
  /\ hist.crashes < MaxCrashes
  /\ ledger' = [ledger EXCEPT !.rec = NoRecord, !.unper = 0, !.up = FALSE,
                              !.terminal = FALSE, !.disk = disk]
  /\ flights' = IF LateClaims THEN flights ELSE {}
  /\ request' = [r \in Requests |-> Idle]
  /\ count' = 0
  /\ driver' = Off
  /\ hist' = [hist EXCEPT !.crashes = @ + 1, !.clean = FALSE]
  /\ UNCHANGED chain

Crash == driver.pc # "off" /\ Restarted(ledger.disk)

\* Between the two writes of finish_exact.
CrashInFinish(r) ==
  /\ request[r].phase = "exact" /\ ~ledger.terminal /\ ledger.unper > 0
  /\ \E f \in flush_delivered(ledger) : f.ok /\ Restarted(f.l.disk)

-----------------------------------------------------------------------------
(* The relay of one request                                                *)

Serving == driver.pc \in {"start", "probe", "accept", "sync", "claim", "confirm"}

\* open_stream: the reservation is durable before the upstream is called.
open_stream(r, n) ==
  /\ request[r].phase = "idle" /\ Serving /\ ledger.up
  /\ hist.asked < MaxRequests
  /\ Available(ledger, n) > 0
  /\ \E w \in reserve(ledger, Available(ledger, n)) :
       /\ ledger' = w.l
       /\ request' = IF ~w.ok THEN request
                     ELSE [request EXCEPT ![r] = [Idle EXCEPT
                             !.phase = "open", !.remaining = Available(ledger, n)]]
       /\ hist' = [hist EXCEPT !.asked = @ + 1, !.clean = @ /\ w.ok /\ ledger.unper = 0]
  /\ UNCHANGED <<chain, flights, count, driver>>

\* How a relay that breaks now is classified.
Ending(q) == IF q.owed > 0 THEN "ambiguous" ELSE "exact"

\* Record n counted tokens, of which `forwarded` are then shown; a refusal
\* breaks the relay into phase `broken`.
Record(r, n, forwarded, broken, done) ==
  \E w \in record_delivered(ledger, request[r].remaining, n) :
    /\ ledger' = w.l
    /\ count' = count + w.gained
    /\ request' = [request EXCEPT ![r] = IF w.ok THEN [done EXCEPT !.remaining = @ - n]
                                         ELSE [@ EXCEPT !.phase = broken]]
    /\ hist' = [hist EXCEPT !.billed = IF w.ok THEN @ + n ELSE @,
                            !.shown = IF w.ok THEN @ + forwarded ELSE @,
                            !.clean = @ /\ w.ok]
    /\ UNCHANGED <<chain, flights, driver>>

\* A chunk that carries its count is recorded, then forwarded.
CountedChunk(r, n) ==
  /\ request[r].phase = "open" /\ request[r].owed = 0
  /\ Record(r, n, n, "exact", request[r])

\* A chunk whose count comes later is authorized, then forwarded; n is what
\* the upstream will report for it.
UncountedChunk(r, n) ==
  /\ request[r].phase = "open" /\ request[r].owed = 0
  /\ IF authorize_exposure(request[r].remaining, request[r].charged)
     THEN /\ request' = [request EXCEPT ![r].owed = n]
          /\ hist' = [hist EXCEPT !.shown = @ + n]
     ELSE /\ request' = [request EXCEPT ![r].phase = Ending(request[r])]
          /\ UNCHANGED hist
  /\ UNCHANGED <<chain, flights, ledger, count, driver>>

\* UpstreamEvent::Accounted.
Accounted(r) ==
  LET q == request[r]
      charged == IF q.charged < q.owed THEN q.owed ELSE q.charged
  IN /\ q.phase = "open" /\ q.owed > 0
     /\ Record(r, q.owed, 0, "ambiguous", [q EXCEPT !.charged = charged, !.owed = 0])

\* The upstream ends or fails, the buyer hangs up, or the chain is unavailable.
EndOfStream(r) ==
  /\ request[r].phase = "open"
  /\ request' = [request EXCEPT ![r].phase = Ending(request[r])]
  /\ UNCHANGED <<chain, flights, ledger, count, driver, hist>>

\* AuthoritativeDeliveryEvent::Finished. A refusal only reaches the buyer's
\* error; the reservation object is dropped, which releases nothing.
Finished(r) ==
  /\ request[r].phase \in {"exact", "ambiguous"}
  /\ \E w \in IF request[r].phase = "exact"
              THEN finish_exact(ledger, request[r].remaining)
              ELSE finish_ambiguous(ledger) :
       /\ ledger' = w.l
       /\ count' = count + w.gained
       /\ hist' = [hist EXCEPT !.clean = @ /\ w.ok /\ request[r].phase = "exact"]
  /\ request' = [request EXCEPT ![r] = Idle]
  /\ UNCHANGED <<chain, flights, driver>>

-----------------------------------------------------------------------------
(* The claim driver                                                        *)

\* What a read by the ordinary driver's observer does; on a subscription the
\* driver observes nothing, the keeper does.
ObservedLedgers ==
  IF IsSubscription THEN {[l |-> ledger, ok |-> TRUE, gained |-> 0]}
  ELSE reconcile_deal(ledger, chain)

\* deal_closed_observed found the deal closed.
ClosedLedger == IF IsSubscription THEN ledger ELSE mark_terminal(ledger)

\* The first reads: whether the probe is still to be accepted.
DriverStart ==
  /\ driver.pc = "start" /\ ~chain.stopped
  /\ \E w \in ObservedLedgers :
       /\ ledger' = w.l
       /\ driver' = [driver EXCEPT !.pc = IF ~w.ok THEN "failed"
                                          ELSE IF chain.probe THEN "sync" ELSE "probe"]
  /\ UNCHANGED <<chain, flights, request, count, hist>>

\* The probe decision: something was delivered.
DecideProbe ==
  /\ driver.pc = "probe" /\ ~chain.stopped /\ count > 0
  /\ driver' = [driver EXCEPT !.pc = "accept", !.atProbe = Smaller(count, TICK_SIZE)]
  /\ UNCHANGED <<chain, flights, ledger, request, count, hist>>

acceptProbe ==
  /\ driver.pc = "accept" /\ ~chain.stopped
  /\ chain' = [chain EXCEPT !.probe = TRUE, !.pending = TICK_SIZE, !.base = 0]
  /\ driver' = [driver EXCEPT !.pc = "sync"]
  /\ UNCHANGED <<flights, ledger, request, count, hist>>

\* The cursor is seeded from the chain's high-water.
SyncHighWater ==
  /\ driver.pc = "sync" /\ ~chain.stopped
  /\ \E w \in ObservedLedgers :
       /\ ledger' = w.l
       /\ driver' = IF ~w.ok THEN [driver EXCEPT !.pc = "failed"]
                    ELSE [driver EXCEPT !.pc = "claim", !.claimed = chain.pending,
                                        !.base = chain.pending]
  /\ UNCHANGED <<chain, flights, request, count, hist>>

\* Mutant: a tick that was begun is claimed whole.
DeliveryTarget_RoundsUp ==
  Smaller(driver.base
            + ((Subtract(count, driver.atProbe) + TICK_SIZE - 1) \div TICK_SIZE) * TICK_SIZE, Funded)

\* delivery_target_from_probe_anchor
DeliveryTarget == Smaller(driver.base + Subtract(count, driver.atProbe), Funded)

\* Mutant: only whole ticks are claimed.
NextClaim_WholeTicks ==
  (Smaller(DeliveryTarget, driver.claimed + TICK_SIZE) \div TICK_SIZE) * TICK_SIZE

NextClaim == Smaller(DeliveryTarget, driver.claimed + TICK_SIZE)

\* The chain's high-water against a claim of n: equal is done, ahead asks for
\* a resynchronisation the driver only follows up to the target it had.
Confirmed(n, target) ==
  driver' = IF chain.pending = n \/ chain.pending <= target
            THEN [driver EXCEPT !.pc = "claim", !.claimed = chain.pending,
                                !.sought = 0, !.target = 0]
            ELSE [driver EXCEPT !.pc = "failed"]

\* submit_claim_confirmed reads before it submits.
SubmitClaim ==
  /\ driver.pc = "claim" /\ ~chain.stopped
  /\ NextClaim > driver.claimed
  /\ IF chain.pending >= NextClaim
     THEN Confirmed(NextClaim, DeliveryTarget) /\ UNCHANGED flights
     ELSE /\ flights' = flights \cup {NextClaim}
          /\ driver' = [driver EXCEPT !.pc = "confirm", !.sought = NextClaim,
                                    !.target = DeliveryTarget]
  /\ UNCHANGED <<chain, ledger, request, count, hist>>

ConfirmClaim ==
  /\ driver.pc = "confirm" /\ ~chain.stopped
  /\ chain.pending >= driver.sought
  /\ Confirmed(driver.sought, driver.target)
  /\ UNCHANGED <<chain, flights, ledger, request, count, hist>>

\* The confirmation reads run out; the message may still be on its way.
ClaimUnconfirmed ==
  /\ driver.pc = "confirm" /\ ~chain.stopped
  /\ chain.pending < driver.sought
  /\ LateClaims \/ driver.sought \notin flights
  /\ driver' = [driver EXCEPT !.pc = "failed"]
  /\ UNCHANGED <<chain, flights, ledger, request, count, hist>>

\* The budget is claimed, or a read finds the deal closed.
DriverDone ==
  /\ driver.pc \in {"start", "probe", "accept", "sync", "claim", "confirm"}
  /\ \/ /\ chain.stopped
        /\ ledger' = ClosedLedger
     \/ /\ ~chain.stopped /\ driver.pc = "claim" /\ driver.claimed >= Funded
        /\ UNCHANGED ledger
  /\ driver' = [driver EXCEPT !.pc = "done"]
  /\ UNCHANGED <<chain, flights, request, count, hist>>

\* A keeper read: the ledger follows, and a refusal ends the deal's drivers.
KeeperObserve ==
  /\ IsSubscription /\ Serving
  /\ \E w \in reconcile_deal(ledger, chain) :
       /\ ledger' = w.l
       /\ driver' = IF w.ok THEN driver
                    ELSE [driver EXCEPT !.pc = IF chain.stopped THEN "done" ELSE "failed"]
  /\ UNCHANGED <<chain, flights, request, count, hist>>

-----------------------------------------------------------------------------
(* The deal contract                                                       *)

ClaimCap ==
  IF ~IsSubscription THEN Funded
  ELSE IF TermEnded(chain) THEN chain.pending
  ELSE Smaller(chain.base + TokensPerWeek, Funded)

\* claimTokens, or its refusal.
claimTokens(n) ==
  /\ n \in flights
  /\ flights' = flights \ {n}
  /\ chain' = IF /\ ~chain.stopped /\ chain.probe
                 /\ n > chain.pending /\ n <= ClaimCap
                 /\ n - chain.pending <= TICK_SIZE
              THEN [chain EXCEPT !.pending = n] ELSE chain
  /\ UNCHANGED <<ledger, request, count, driver, hist>>

settleWeek ==
  /\ IsSubscription /\ ~chain.stopped /\ chain.probe /\ chain.week < SubWeeks
  /\ chain' = [chain EXCEPT !.week = @ + 1, !.base = chain.pending]
  /\ UNCHANGED <<flights, ledger, request, count, driver, hist>>

stop ==
  /\ ~chain.stopped
  /\ chain' = [chain EXCEPT !.stopped = TRUE]
  /\ UNCHANGED <<flights, ledger, request, count, driver, hist>>

Driver == \/ DriverStart \/ DecideProbe \/ acceptProbe \/ SyncHighWater
          \/ SubmitClaim \/ ConfirmClaim \/ ClaimUnconfirmed \/ DriverDone

Relay(r) == \/ \E n \in Asked : open_stream(r, n)
            \/ \E n \in Counts : CountedChunk(r, n) \/ UncountedChunk(r, n)
            \/ Accounted(r) \/ EndOfStream(r) \/ Finished(r) \/ CrashInFinish(r)

Next == \/ register_stream \/ Crash \/ Driver \/ KeeperObserve
        \/ \E r \in Requests : Relay(r)
        \/ \E n \in 1..Funded : claimTokens(n)
        \/ settleWeek \/ stop

Spec == Init /\ [][Next]_vars

-----------------------------------------------------------------------------
(* Properties                                                              *)

Held == [r \in Requests |-> request[r].remaining]

\* Live requests and the split that waits are all inside the aggregate
\* reservation, so no request can release or bill what another one holds.  A
\* failed write leaves the split of its request counted twice.
ReservationsCovered ==
  ledger.up /\ ledger.faults = MaxFaults =>
    SumFunctionOnSet(Held, Requests) + ledger.unper <= ledger.rec.reserved

\* Over all requests and restarts, no more is billed to the buyer than the
\* deal allows at the moment: one tick before the probe, the funded volume, or
\* the quota of the current week. A deal that starts past its probe has had the
\* trial's tick billed.
BilledWithinCap ==
  ~TermEnded(chain) =>
    hist.billed + (IF Probed THEN TICK_SIZE ELSE 0)
      <= IF chain.probe THEN ClaimCap ELSE TICK_SIZE

\* Beyond the probe's tick, the seller claims nothing it did not deliver.
ClaimsDelivered == chain.pending <= TICK_SIZE + hist.shown

\* A crash at this moment would not strand the deal: the record in the file
\* accepts the contract's state.
RestartAccepted ==
  ~chain.stopped /\ ledger.disk # NoRecord => Reconcilable(ledger.disk, chain)

\* With every stream ended, its usage known, no failure and no stream opened over
\* another one's waiting split, each token the buyer was billed is durable and in
\* the counter the claims are driven by.
EveryTerminalFlushes ==
  hist.clean /\ Serving /\ (\A r \in Requests : request[r] = Idle)
    => count = hist.billed /\ ledger.rec.reserved = 0

\* The scheduler runs the driver, and a submitted claim is executed.
FairSpec ==
  /\ Spec
  /\ WF_vars(Driver)
  /\ \A n \in 1..Funded : WF_vars(claimTokens(n))

\* Whatever the counter has reached is claimed, unless the deal closes or the
\* driver ends first.
DeliveryClaimed ==
  \A n \in 1..Funded :
    driver.pc = "claim" /\ DeliveryTarget = n
      ~> chain.pending >= n \/ chain.stopped \/ driver.pc \in {"off", "failed", "done"}
=============================================================================
