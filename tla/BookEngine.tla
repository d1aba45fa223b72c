----------------------------- MODULE BookEngine -----------------------------
(***************************************************************************)
(* The matching engine of contracts/airegistry/InferenceOrderBook.sol as   *)
(* operators on the contract's storage.  A book is a record:               *)
(*   orders    live order ids to orders (_orders, _levels, owner lists)     *)
(*   next      _nextOrderId                                                *)
(*   queue     the circular queue, head first (_queue, _queueSize)         *)
(*   handover  _handoverBuyer                                              *)
(*   kicked    a self-call of processHead is on its way (a second one does *)
(*             what a poke by anybody does, so they are not counted)         *)
(*   out       the messages the running transaction has sent, in order     *)
(*                                                                         *)
(* A level's FIFO is its ids in ascending order: an id is drawn when the   *)
(* order reaches the head of the queue, and the head is not advanced       *)
(* before that order rests or ends.                                        *)
(*                                                                         *)
(* Left out: gas, events, executed-volume counters, buyers' keys.          *)
(***************************************************************************)
EXTENDS Integers, Sequences, FiniteSets, FiniteSetsExt, Functions, Folds, TLC

CONSTANTS
  Notes,                 \* owners of orders
  Deals,                 \* deal contracts that may post an ask
  MAX_MATCHES_PER_CALL,  \* settlements one transaction may perform
  MAX_SCAN_PER_CALL,     \* makers one match walk may examine
  MAX_CANCEL_PER_CALL,   \* removals one cancel-all transaction may perform
  MAX_PRECHECK_SCAN,     \* makers the POST_ONLY walk may examine
  MAX_PRECHECK_LEVELS,   \* levels a precheck may walk
  QUEUE_CAPACITY,        \* queue slots
  QUEUE_PLACE_LIMIT,     \* queue slots that placements may use
  PRICE_STEP,            \* prices are multiples of it
  SUB_TICKS_PER_WEEK,    \* ticks a week can physically deliver
  MAX_AMOUNT             \* type(uint128).max

ASSUME WalkBudgets ==
  /\ MAX_MATCHES_PER_CALL \in Nat \ {0}
  /\ MAX_SCAN_PER_CALL \in Nat \ {0}
  /\ MAX_CANCEL_PER_CALL \in Nat \ {0}
  /\ MAX_PRECHECK_SCAN \in Nat \ {0}
  /\ MAX_PRECHECK_LEVELS \in Nat \ {0}
ASSUME QueueSizes ==
  QUEUE_PLACE_LIMIT \in Nat \ {0} /\ QUEUE_CAPACITY \in Nat /\ QUEUE_PLACE_LIMIT < QUEUE_CAPACITY

None == "address(0)"

Flags == {"IOC", "FOK", "MARKET", "POST_ONLY", "TEE", "AON", "SUBSCRIPTION"}

TAKER_FLAGS == {"IOC", "FOK", "MARKET"}

BPS_DENOMINATOR == 10000

PLATFORM_FEE_BPS == 250

SUB_WEEKS == 4

EmptyBook == [
  orders |-> <<>>, next |-> 1, queue |-> <<>>,
  handover |-> [d \in Deals |-> None], kicked |-> FALSE, out |-> <<>>]

\* A queue entry; the cont* fields are the cursor of a match that continues.
Entry == [
  type |-> "PLACE", owner |-> None, isBuy |-> FALSE, flags |-> {}, price |-> 0,
  amount |-> 0, escrow |-> 0, tc |-> None, deadline |-> 0, client |-> 0,
  target |-> 0, contOrderId |-> 0, contRemaining |-> 0, contLeftover |-> 0,
  contScanOrder |-> 0]

-----------------------------------------------------------------------------
(* Messages                                                                *)

Send(b, m) == [b EXCEPT !.out = Append(@, m)]

PayShell(b, note, amount) ==
  IF amount = 0 THEN b
  ELSE Send(b, [kind |-> "creditFromBook", to |-> note, amount |-> amount])

RejectToNote(b, note, client, refunded) ==
  Send(b, [kind |-> "onInferenceRejected", to |-> note, client |-> client,
           amount |-> refunded])

SellClosed(b, tc) ==
  IF tc = None THEN b ELSE Send(b, [kind |-> "onSellClosed", to |-> tc])

OrderRemoved(b, note, id, cause) ==
  Send(b, [kind |-> "onInferenceOrderRemoved", to |-> note, id |-> id, cause |-> cause])

-----------------------------------------------------------------------------
(* Prices, shapes and levels                                               *)

Unit(p) == p + (p * PLATFORM_FEE_BPS) \div BPS_DENOMINATOR

IsExpired(deadline, now) == deadline # 0 /\ now >= deadline

\* The deal shape: TEE is a requirement of the buyer, SUBSCRIPTION a pairing.
DealCompatible(t, o) ==
  LET buy  == IF t.isBuy THEN t.flags ELSE o.flags
      sell == IF t.isBuy THEN o.flags ELSE t.flags
  IN  /\ "TEE" \in buy => "TEE" \in sell
      /\ ("SUBSCRIPTION" \in buy) = ("SUBSCRIPTION" \in sell)

Crosses(t, makerPrice) ==
  \/ "MARKET" \in t.flags
  \/ IF t.isBuy THEN t.price >= makerPrice ELSE makerPrice >= t.price

Clearing(t, o) == IF t.isBuy THEN o.price ELSE t.price

Tradable(t, o, remaining, escrow) ==
  Min({remaining, o.amount,
       (IF t.isBuy THEN escrow ELSE o.escrow) \div Unit(Clearing(t, o))})

BreaksAON(t, o, trade, remaining) ==
  \/ "AON" \in t.flags /\ trade < remaining
  \/ "AON" \in o.flags /\ trade < o.amount

Opposite(b, t) == {i \in DOMAIN b.orders : b.orders[i].isBuy # t.isBuy}

LevelsFor(b, t) == {b.orders[i].price : i \in Opposite(b, t)}

MakersAt(b, t, p) == {i \in Opposite(b, t) : b.orders[i].price = p}

\* Walks fold a step over the opposite levels, best price first, and over the
\* makers of a level, oldest first.
WalkLevels(step(_, _), t, levels, acc) ==
  MapThenFoldSet(LAMBDA p, a : step(a, p), acc, LAMBDA p : p,
                 LAMBDA S : IF t.isBuy THEN Max(S) ELSE Min(S), levels)

WalkMakers(step(_, _), makers, acc) ==
  MapThenFoldSet(LAMBDA i, a : step(a, i), acc, LAMBDA i : i, Max, makers)

-----------------------------------------------------------------------------
(* Book mutation                                                           *)

InsertIntoBook(b, id, o) ==
  Send([b EXCEPT !.orders = (id :> o) @@ b.orders],
       [kind |-> "onInferencePlaced", to |-> o.note, id |-> id, client |-> o.client])

RemoveFromBook(b, id, cause) ==
  IF id \notin DOMAIN b.orders THEN b
  ELSE OrderRemoved([b EXCEPT !.orders = Restrict(@, DOMAIN @ \ {id})],
                    b.orders[id].note, id, cause)

RefundAndRemove(b, id, cause) ==
  PayShell(RemoveFromBook(b, id, cause), b.orders[id].note, b.orders[id].escrow)

RemoveExpired(b, id) ==
  IF b.orders[id].isBuy THEN RefundAndRemove(b, id, "EXPIRED")
  ELSE SellClosed(RemoveFromBook(b, id, "EXPIRED"), b.orders[id].tc)

-----------------------------------------------------------------------------
(* Fill settlement and the match walk                                      *)

\* What leaves the buyer's escrow: the ticks, and a subscription's bond.
Debit(t, o, trade) ==
  trade * Unit(Clearing(t, o))
    + (IF "SUBSCRIPTION" \in (IF t.isBuy THEN t.flags ELSE o.flags)
       THEN 2 * Clearing(t, o) ELSE 0)

Filled(to, tc, id, client, trade, price, spent, isBuy) ==
  [kind |-> "onInferenceFilled", to |-> to, deal |-> tc, id |-> id, client |-> client,
   ticks |-> trade, price |-> price, spent |-> spent, isBuy |-> isBuy]

\* The handover to the deal, the record of its buyer, and a mirror to each side.
SettleFill(b, t, id, o, trade) ==
  LET buyer  == IF t.isBuy THEN t.owner ELSE o.note
      tc     == IF t.isBuy THEN o.tc ELSE t.tc
      spent  == Debit(t, o, trade)
      price  == Clearing(t, o)
      taker  == Filled(t.owner, tc, t.contOrderId, t.client, trade, price, spent, t.isBuy)
      maker  == Filled(o.note, tc, id, o.client, trade, price, spent, ~t.isBuy)
      deal   == [kind |-> "fundFromOrderBook", to |-> tc, buyer |-> buyer, amount |-> spent,
                 sub |-> "SUBSCRIPTION" \in o.flags]
  IN  [b EXCEPT !.handover[tc] = buyer,
                !.out = @ \o (IF t.isBuy THEN <<deal, taker, maker>>
                                         ELSE <<deal, maker, taker>>)]

\* A bid spans deals and is reduced; an ask is one deal and is consumed.
ReduceMaker(b, t, id, o, trade) ==
  IF t.isBuy THEN RemoveFromBook(b, id, "FILLED")
  ELSE IF o.amount = trade
  THEN RefundAndRemove([b EXCEPT !.orders[id].escrow = @ - Debit(t, o, trade)], id, "FILLED")
  ELSE [b EXCEPT !.orders[id].escrow = @ - Debit(t, o, trade),
                 !.orders[id].amount = @ - trade]

Fill(w, t, id, o, trade) ==
  [w EXCEPT !.b = ReduceMaker(SettleFill(@, t, id, o, trade), t, id, o, trade),
            !.remaining = IF t.isBuy THEN @ - trade ELSE 0,
            !.leftover = IF t.isBuy THEN @ - Debit(t, o, trade) ELSE @,
            !.matches = @ + 1]

DropMaker(w, b) == [w EXCEPT !.b = b, !.matches = @ + 1]

\* Mutant: an all-or-none conflict stops the walk instead of skipping the maker.
MatchMaker_StopAtAON(w, t, id, o, trade, now) ==
  IF ~DealCompatible(t, o) THEN w
  ELSE IF IsExpired(o.deadline, now) THEN DropMaker(w, RemoveExpired(w.b, id))
  ELSE IF BreaksAON(t, o, trade, w.remaining) THEN [w EXCEPT !.walking = FALSE]
  ELSE IF trade >= 2 THEN Fill(w, t, id, o, trade)
  ELSE IF t.isBuy THEN [w EXCEPT !.walking = FALSE]
  ELSE DropMaker(w, RefundAndRemove(w.b, id, "DUST"))

\* One maker against the taker: skipped, dropped as expired or as dust, or filled.
MatchMaker(w, t, id, o, trade, now) ==
  CASE ~DealCompatible(t, o) -> w
    [] DealCompatible(t, o) /\ IsExpired(o.deadline, now) ->
         DropMaker(w, RemoveExpired(w.b, id))
    [] OTHER ->
         IF BreaksAON(t, o, trade, w.remaining) THEN w
         ELSE IF trade >= 2 THEN Fill(w, t, id, o, trade)
         ELSE IF t.isBuy THEN [w EXCEPT !.walking = FALSE]
         ELSE DropMaker(w, RefundAndRemove(w.b, id, "DUST"))

ExamineMaker(w, t, id, now) ==
  IF ~w.walking \/ w.remaining = 0 THEN w
  ELSE IF w.matches >= MAX_MATCHES_PER_CALL \/ w.scanned >= MAX_SCAN_PER_CALL
  THEN [w EXCEPT !.walking = FALSE, !.capped = TRUE, !.resume = id]
  ELSE MatchMaker([w EXCEPT !.scanned = @ + 1], t, id, w.b.orders[id],
                  Tradable(t, w.b.orders[id], w.remaining, w.leftover), now)

\* The makers of a level that the cursor has not passed.
MakersFrom(b, t, p) ==
  {i \in MakersAt(b, t, p) :
     t.contScanOrder \in DOMAIN b.orders /\ b.orders[t.contScanOrder].price = p
       => i >= t.contScanOrder}

LevelsFrom(b, t) ==
  {p \in LevelsFor(b, t) :
     t.contScanOrder \in DOMAIN b.orders =>
       IF t.isBuy THEN p >= b.orders[t.contScanOrder].price
                  ELSE p <= b.orders[t.contScanOrder].price}

\* Mutant: a level is served newest first.
MatchLevel_NewestFirst(w, t, p, now) ==
  IF ~w.walking \/ w.remaining = 0 THEN w
  ELSE IF ~Crosses(t, p) THEN [w EXCEPT !.walking = FALSE]
  ELSE MapThenFoldSet(LAMBDA i, v : ExamineMaker(v, t, i, now), w, LAMBDA i : i, Min,
                      MakersFrom(w.b, t, p))

MatchLevel(w, t, p, now) ==
  IF ~w.walking \/ w.remaining = 0 THEN w
  ELSE IF ~Crosses(t, p) THEN [w EXCEPT !.walking = FALSE]
  ELSE WalkMakers(LAMBDA v, i : ExamineMaker(v, t, i, now), MakersFrom(w.b, t, p), w)

Match(b, t, now) ==
  WalkLevels(LAMBDA w, p : MatchLevel(w, t, p, now), t, LevelsFrom(b, t),
    [b |-> b, remaining |-> t.contRemaining, leftover |-> t.contLeftover,
     matches |-> 0, scanned |-> 0, walking |-> TRUE, capped |-> FALSE, resume |-> 0])

-----------------------------------------------------------------------------
(* The two read-only prechecks                                             *)

\* FOK: simulate the walk; `verdict` is "open" while it runs, "end" past the
\* last crossing level.
FokMaker(f, t, o, trade, now) ==
  CASE ~DealCompatible(t, o) -> f
    [] DealCompatible(t, o) /\ IsExpired(o.deadline, now) -> [f EXCEPT !.matches = @ + 1]
    [] OTHER ->
         IF BreaksAON(t, o, trade, f.remaining) THEN f
         ELSE IF trade >= 2
         THEN [f EXCEPT !.remaining = @ - trade, !.matches = @ + 1,
                        !.left = IF t.isBuy THEN @ - trade * Unit(Clearing(t, o)) ELSE @,
                        !.verdict = IF t.isBuy THEN @
                                    ELSE IF f.remaining = trade THEN "yes" ELSE "no"]
         ELSE IF t.isBuy THEN [f EXCEPT !.verdict = "no"]
         ELSE [f EXCEPT !.matches = @ + 1]

\* Mutant: the precheck does not count settlements against the walk's cap.
FokExamine_NoMatchCap(f, t, o, now) ==
  IF f.verdict # "open" \/ f.remaining = 0 THEN f
  ELSE FokMaker([f EXCEPT !.scanned = @ + 1], t, o, Tradable(t, o, f.remaining, f.left), now)

FokExamine(f, t, o, now) ==
  IF f.verdict # "open" \/ f.remaining = 0 THEN f
  ELSE IF f.matches >= MAX_MATCHES_PER_CALL \/ f.scanned >= MAX_SCAN_PER_CALL
  THEN [f EXCEPT !.verdict = "no"]
  ELSE FokMaker([f EXCEPT !.scanned = @ + 1], t, o, Tradable(t, o, f.remaining, f.left), now)

FokLevelWalked(f) ==
  IF f.verdict # "open" THEN f
  ELSE IF f.walked + 1 >= MAX_PRECHECK_LEVELS THEN [f EXCEPT !.verdict = "no"]
  ELSE [f EXCEPT !.walked = @ + 1]

FokLevel(f, b, t, p, now) ==
  IF f.verdict # "open" \/ f.remaining = 0 THEN f
  ELSE IF ~Crosses(t, p) THEN [f EXCEPT !.verdict = "end"]
  ELSE FokLevelWalked(WalkMakers(LAMBDA g, i : FokExamine(g, t, b.orders[i], now),
                                 MakersAt(b, t, p), f))

FokFilled(f) == f.verdict = "yes" \/ (f.verdict # "no" /\ f.remaining = 0)

FokFullyFillable(b, t, now) ==
  FokFilled(WalkLevels(LAMBDA f, p : FokLevel(f, b, t, p, now), t, LevelsFor(b, t),
    [remaining |-> t.amount, left |-> t.escrow, matches |-> 0, walked |-> 0,
     scanned |-> 0, verdict |-> "open"]))

\* POST_ONLY: is there a maker the walk would settle?  Budgets fail closed.
Executable(t, o, now) ==
  /\ DealCompatible(t, o)
  /\ ~IsExpired(o.deadline, now)
  /\ "AON" \in t.flags => o.amount >= t.amount
  /\ "AON" \in o.flags => t.amount >= o.amount
  /\ o.amount >= 2

\* Mutant: a precheck that runs out of budget lets the order through.
CrossExamine_FailOpen(c, t, o, now) ==
  IF c.verdict # "open" THEN c
  ELSE IF c.scanned + 1 >= MAX_PRECHECK_SCAN THEN [c EXCEPT !.verdict = "end"]
  ELSE IF Executable(t, o, now) THEN [c EXCEPT !.verdict = "cross"]
  ELSE [c EXCEPT !.scanned = @ + 1]

CrossExamine(c, t, o, now) ==
  IF c.verdict # "open" THEN c
  ELSE IF c.scanned + 1 >= MAX_PRECHECK_SCAN \/ Executable(t, o, now)
  THEN [c EXCEPT !.verdict = "cross"]
  ELSE [c EXCEPT !.scanned = @ + 1]

CrossLevelWalked(c) ==
  IF c.verdict # "open" THEN c
  ELSE IF c.walked + 1 >= MAX_PRECHECK_LEVELS THEN [c EXCEPT !.verdict = "cross"]
  ELSE [c EXCEPT !.walked = @ + 1]

CrossLevel(c, b, t, p, now) ==
  IF c.verdict # "open" THEN c
  ELSE IF ~Crosses(t, p) THEN [c EXCEPT !.verdict = "end"]
  ELSE CrossLevelWalked(WalkMakers(LAMBDA d, i : CrossExamine(d, t, b.orders[i], now),
                                   MakersAt(b, t, p), c))

ExecutableCrosses(b, t, now) ==
  WalkLevels(LAMBDA c, p : CrossLevel(c, b, t, p, now), t, LevelsFor(b, t),
             [walked |-> 0, scanned |-> 0, verdict |-> "open"]).verdict = "cross"

-----------------------------------------------------------------------------
(* The queue                                                               *)

Enqueue(b, e) == [b EXCEPT !.queue = Append(@, e)]

AdvanceHead(b) == [b EXCEPT !.queue = Tail(@)]

\* A submission that ends without resting: refund a bid, free an ask's deal.
RejectHead(b, e, refund) ==
  IF e.isBuy THEN RejectToNote(b, e.owner, e.client, refund)
  ELSE RejectToNote(SellClosed(b, e.tc), e.owner, e.client, 0)

OrderOf(t, w) == [
  note |-> t.owner, isBuy |-> t.isBuy, price |-> t.price, amount |-> w.remaining,
  escrow |-> w.leftover, deadline |-> t.deadline, flags |-> t.flags, tc |-> t.tc,
  client |-> t.client]

\* Rest the remainder, or end the order: a taker-only order and dust never rest.
FinalizeTaker(w, t) ==
  LET ends == t.flags \cap TAKER_FLAGS # {}
  IN  CASE t.isBuy /\ (ends \/ w.remaining < 2) ->
             RejectToNote(w.b, t.owner, t.client, w.leftover)
        [] ~t.isBuy /\ ends /\ w.remaining > 0 -> SellClosed(w.b, t.tc)
        [] ~t.isBuy /\ w.remaining = 0 -> w.b
        [] OTHER -> InsertIntoBook(w.b, t.contOrderId, OrderOf(t, w))

\* Mutant: the head forgets which maker it examined last.
AfterMatch_CursorLost(w, t) ==
  IF w.capped
  THEN [w.b EXCEPT !.queue[1] = [t EXCEPT !.contRemaining = w.remaining,
                                          !.contLeftover = w.leftover]]
  ELSE AdvanceHead(FinalizeTaker(w, t))

\* Keep the head with its cursor, or finish it.
AfterMatch(w, t) ==
  IF w.capped
  THEN [w.b EXCEPT !.queue[1] = [t EXCEPT !.contRemaining = w.remaining,
                                          !.contLeftover = w.leftover,
                                          !.contScanOrder = w.resume]]
  ELSE AdvanceHead(FinalizeTaker(w, t))

\* The id is drawn once the prechecks have passed.
Accepted(e, id) ==
  [e EXCEPT !.contOrderId = id, !.contRemaining = e.amount, !.contLeftover = e.escrow]

Refused(b, e, now) ==
  \/ "POST_ONLY" \in e.flags /\ ExecutableCrosses(b, e, now)
  \/ "FOK" \in e.flags /\ ~FokFullyFillable(b, e, now)

\* Mutant: a continuation that expires is refunded its whole original escrow.
DoPlaceHead_RefundWhole(b, e, now) ==
  IF IsExpired(e.deadline, now) THEN AdvanceHead(RejectHead(b, e, e.escrow))
  ELSE IF e.contOrderId # 0 THEN AfterMatch(Match(b, e, now), e)
  ELSE IF Refused(b, e, now) THEN AdvanceHead(RejectHead(b, e, e.escrow))
  ELSE AfterMatch(Match([b EXCEPT !.next = @ + 1], Accepted(e, b.next), now),
                  Accepted(e, b.next))

DoPlaceHead(b, e, now) ==
  CASE IsExpired(e.deadline, now) ->
         AdvanceHead(RejectHead(b, e, IF e.contOrderId = 0 THEN e.escrow ELSE e.contLeftover))
    [] ~IsExpired(e.deadline, now) /\ e.contOrderId # 0 -> AfterMatch(Match(b, e, now), e)
    [] OTHER ->
         IF Refused(b, e, now) THEN AdvanceHead(RejectHead(b, e, e.escrow))
         ELSE AfterMatch(Match([b EXCEPT !.next = @ + 1], Accepted(e, b.next), now),
                         Accepted(e, b.next))

Cancelled(b, id) ==
  SellClosed(RefundAndRemove(b, id, "CANCELLED"), b.orders[id].tc)

DoCancel(b, e) ==
  IF e.target \in DOMAIN b.orders /\ b.orders[e.target].note = e.owner
  THEN Cancelled(b, e.target)
  ELSE OrderRemoved(b, e.owner, e.target, "REJECTED")

OwnedBy(b, note) == {i \in DOMAIN b.orders : b.orders[i].note = note}

\* The oldest MAX_CANCEL_PER_CALL orders of the owner.
CancelBatch(b, note) ==
  {i \in OwnedBy(b, note) :
     Cardinality({j \in OwnedBy(b, note) : j < i}) < MAX_CANCEL_PER_CALL}

DoCancelAll(b, e) == WalkMakers(Cancelled, CancelBatch(b, e.owner), b)

DoExpire(b, e, now) ==
  IF e.target \in DOMAIN b.orders /\ IsExpired(b.orders[e.target].deadline, now)
  THEN RemoveExpired(b, e.target) ELSE b

\* Mutant: the self-call is skipped for the last entry.
Kick_OffByOne(b) == IF Len(b.queue) <= 1 THEN b ELSE [b EXCEPT !.kicked = TRUE]

Kick(b) == IF b.queue = <<>> THEN b ELSE [b EXCEPT !.kicked = TRUE]

ProcessHeadCore(b, now) ==
  IF b.queue = <<>> THEN b
  ELSE Kick(CASE Head(b.queue).type = "CANCEL" -> AdvanceHead(DoCancel(b, Head(b.queue)))
              [] Head(b.queue).type = "CANCEL_ALL" ->
                   IF Cardinality(CancelBatch(b, Head(b.queue).owner)) >= MAX_CANCEL_PER_CALL
                   THEN DoCancelAll(b, Head(b.queue))
                   ELSE AdvanceHead(DoCancelAll(b, Head(b.queue)))
              [] Head(b.queue).type = "EXPIRE" ->
                   AdvanceHead(DoExpire(b, Head(b.queue), now))
              [] OTHER -> DoPlaceHead(b, Head(b.queue), now))

-----------------------------------------------------------------------------
(* Admission                                                               *)

FlagsConsistent(flags) ==
  /\ flags \subseteq Flags
  /\ "POST_ONLY" \in flags => flags \cap TAKER_FLAGS = {}
  /\ ~({"IOC", "FOK"} \subseteq flags)
  /\ "SUBSCRIPTION" \in flags => "AON" \in flags

\* Mutant: the deposit check forgets the platform fee.
BuyAdmissible_NoFee(b, r, now) ==
  /\ r.ticks >= 2 /\ FlagsConsistent(r.flags) /\ r.escrow > 0
  /\ r.deadline = 0 \/ r.deadline > now
  /\ "MARKET" \notin r.flags =>
       /\ r.price > 0 /\ r.price % PRICE_STEP = 0
       /\ r.escrow >= r.ticks * r.price
  /\ Len(b.queue) < QUEUE_PLACE_LIMIT

\* The requires of placeBuyOrder; a request that fails one bounces to its note.
BuyAdmissible(b, r, now) ==
  /\ r.ticks >= 2
  /\ FlagsConsistent(r.flags)
  /\ "SUBSCRIPTION" \in r.flags =>
       /\ r.ticks % SUB_WEEKS = 0
       /\ r.ticks <= SUB_WEEKS * SUB_TICKS_PER_WEEK
       /\ "MARKET" \notin r.flags
  /\ r.deadline = 0 \/ r.deadline > now
  /\ r.escrow > 0
  /\ "MARKET" \notin r.flags =>
       /\ r.price > 0 /\ r.price % PRICE_STEP = 0
       /\ r.escrow >= r.ticks * Unit(r.price)
                        + (IF "SUBSCRIPTION" \in r.flags THEN 2 * r.price ELSE 0)
  /\ Len(b.queue) < QUEUE_PLACE_LIMIT

\* Market bids are stored at type(uint256).max, above every ask.
BuyEntry(r, note, client) ==
  [Entry EXCEPT !.owner = note, !.isBuy = TRUE, !.flags = r.flags,
                !.price = IF "MARKET" \in r.flags THEN MAX_AMOUNT ELSE r.price,
                !.amount = r.ticks, !.escrow = r.escrow, !.deadline = r.deadline,
                !.client = client]

SellAdmissible(b, r) ==
  /\ r.ticks >= 2
  /\ r.price > 0 /\ r.price % PRICE_STEP = 0
  /\ FlagsConsistent(r.flags) /\ "MARKET" \notin r.flags
  /\ r.ticks * Unit(r.price) <= MAX_AMOUNT
  /\ r.deadline # 0
  /\ Len(b.queue) < QUEUE_PLACE_LIMIT

SellEntry(r, note, tc) ==
  [Entry EXCEPT !.owner = note, !.flags = r.flags, !.price = r.price, !.amount = r.ticks,
                !.tc = tc, !.deadline = r.deadline]

=============================================================================
