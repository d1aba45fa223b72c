------------------------- MODULE InferenceOrderBook -------------------------
(***************************************************************************)
(* One InferenceOrderBook with notes that place and cancel, deals that     *)
(* post asks and answer handovers, and anybody who pokes the queue or      *)
(* expires an order.  Each public entry of the contract is an action: it   *)
(* enqueues, runs the head of the queue once (_processHeadCore) and sends  *)
(* the messages of that transaction.                                       *)
(*                                                                         *)
(* `side` is what the outside knows: what each note put in and got back,   *)
(* what each deal has been handed and not answered, and whether a deal may *)
(* post (its _offerPosted latch).  `terms` and `trades` record the terms   *)
(* under which each order was accepted and the fills; no action reads them.*)
(***************************************************************************)
EXTENDS BookEngine

CONSTANTS
  BuyRequests,   \* the orders notes may submit
  SellRequests,  \* the offers a deal may post
  Seller,        \* the note behind each deal
  MaxOrders,     \* bound: submissions in one behaviour
  MaxCalls,      \* bound: cancels and expiries in one behaviour
  MaxTime        \* bound: last value of the clock

VARIABLES book, side, terms, trades, now

vars == <<book, side, terms, trades, now>>

-----------------------------------------------------------------------------
(* What a transaction's messages do outside the book                       *)

SumAmount(out, Test(_)) ==
  MapThenSumSet(LAMBDA i : out[i].amount, {i \in 1..Len(out) : Test(out[i])})

Credited(out, n) ==
  SumAmount(out, LAMBDA m : m.kind \in {"creditFromBook", "onInferenceRejected"} /\ m.to = n)

HandedTo(out, d) == SelectSeq(out, LAMBDA m : m.kind = "fundFromOrderBook" /\ m.to = d)

Outside(s, out) ==
  [s EXCEPT
     !.back = [n \in Notes |-> @[n] + Credited(out, n)],
     !.sent = [d \in Deals |-> @[d] \o HandedTo(out, d)],
     !.latched = [d \in Deals |->
                    @[d] /\ ~\E i \in 1..Len(out) :
                               out[i].kind = "onSellClosed" /\ out[i].to = d]]

\* A fill sends the handover, the buyer's mirror and the seller's, in this order.
Fills(out) ==
  {[buy |-> out[i + 1].id, sell |-> out[i + 2].id, ticks |-> out[i + 1].ticks,
    price |-> out[i + 1].price, spent |-> out[i + 1].spent] :
     i \in {j \in 1..Len(out) : out[j].kind = "fundFromOrderBook"}}

Commit(b, r, s) ==
  /\ book' = [r EXCEPT !.out = <<>>]
  /\ side' = Outside(s, r.out)
  /\ trades' = trades \cup Fills(r.out)
  /\ terms' = IF r.next = b.next THEN terms ELSE (b.next :> Head(b.queue)) @@ terms
  /\ UNCHANGED now

\* An entry puts `b` in place of the storage and runs the head of its queue.
Run(b, s) == Commit(b, ProcessHeadCore(b, now), s)

-----------------------------------------------------------------------------
(* The public entries                                                      *)

placeBuyOrder(r) ==
  /\ side.placed < MaxOrders
  /\ BuyAdmissible(book, r, now)
  /\ Run(Enqueue(book, BuyEntry(r, r.note, side.placed + 1)),
         [side EXCEPT !.placed = @ + 1, !.in[r.note] = @ + r.escrow])

\* The deal latches its offer before it calls; every refusal frees the latch.
placeSellOffer(d, r) ==
  /\ side.placed < MaxOrders
  /\ ~side.latched[d]
  /\ IF SellAdmissible(book, r)
     THEN Run(Enqueue(book, SellEntry(r, Seller[d], d)),
              [side EXCEPT !.placed = @ + 1, !.latched[d] = TRUE])
     ELSE Commit(book, SellClosed(book, d),
                 [side EXCEPT !.placed = @ + 1, !.latched[d] = TRUE])

Called == [side EXCEPT !.calls = @ + 1]

\* A full queue refuses a cancel softly: nothing changes.
cancelOrder(n, id) ==
  /\ side.calls < MaxCalls
  /\ Len(book.queue) < QUEUE_CAPACITY
  /\ Run(Enqueue(book, [Entry EXCEPT !.type = "CANCEL", !.owner = n, !.target = id]), Called)

cancelAllOrders(n) ==
  /\ side.calls < MaxCalls
  /\ Len(book.queue) < QUEUE_CAPACITY
  /\ Run(Enqueue(book, [Entry EXCEPT !.type = "CANCEL_ALL", !.owner = n]), Called)

expireOrder(id) ==
  /\ side.calls < MaxCalls
  /\ Len(book.queue) < QUEUE_PLACE_LIMIT
  /\ Run(Enqueue(book, [Entry EXCEPT !.type = "EXPIRE", !.target = id]), Called)

\* Anybody may poke the queue.
processHead ==
  /\ book.queue # <<>>
  /\ Run(book, side)

\* A self-call arrives.
selfProcessHead ==
  /\ book.kicked
  /\ Run([book EXCEPT !.kicked = FALSE], side)

\* The deal took the handover; it may be unwound and offered again later.
onHandoverAccepted(d) ==
  /\ side.sent[d] # <<>>
  /\ book' = [book EXCEPT !.handover[d] = None]
  /\ side' = [side EXCEPT !.taken[Head(side.sent[d]).buyer] = @ + Head(side.sent[d]).amount,
                          !.sent[d] = Tail(@), !.latched[d] = FALSE]
  /\ UNCHANGED <<terms, trades, now>>

Redirected(b, d, paid) ==
  IF b.handover[d] = None THEN b
  ELSE PayShell([b EXCEPT !.handover[d] = None], b.handover[d], paid)

\* The handover comes back: the deal does not exist and never offers again.
onBounce(d) ==
  /\ side.sent[d] # <<>>
  /\ Commit(book, Redirected(book, d, Head(side.sent[d]).amount),
            [side EXCEPT !.sent[d] = Tail(@), !.gone = @ \cup {d}])

Tick ==
  /\ now < MaxTime
  /\ now' = now + 1
  /\ UNCHANGED <<book, side, terms, trades>>

Init ==
  /\ book = EmptyBook
  /\ side = [in |-> [n \in Notes |-> 0], back |-> [n \in Notes |-> 0],
             taken |-> [n \in Notes |-> 0],
             sent |-> [d \in Deals |-> <<>>],
             latched |-> [d \in Deals |-> FALSE], gone |-> {}, placed |-> 0, calls |-> 0]
  /\ terms = <<>>
  /\ trades = {}
  /\ now = 0

Next ==
  \/ \E r \in BuyRequests : placeBuyOrder(r)
  \/ \E d \in Deals, r \in SellRequests : placeSellOffer(d, r)
  \/ \E n \in Notes, id \in 1..book.next : cancelOrder(n, id)
  \/ \E n \in Notes : cancelAllOrders(n)
  \/ \E id \in 1..book.next : expireOrder(id)
  \/ processHead
  \/ selfProcessHead
  \/ \E d \in Deals : onHandoverAccepted(d)
  \/ \E d \in Deals : onBounce(d)
  \/ Tick

Spec == Init /\ [][Next]_vars

-----------------------------------------------------------------------------
(* Properties                                                              *)

EscrowOf(e) == IF e.contOrderId = 0 THEN e.escrow ELSE e.contLeftover

RestingEscrow(n) ==
  MapThenSumSet(LAMBDA i : book.orders[i].escrow, OwnedBy(book, n))

QueuedEscrow(n) ==
  MapThenSumSet(LAMBDA i : EscrowOf(book.queue[i]),
                {i \in 1..Len(book.queue) : book.queue[i].owner = n})

InFlight(n) ==
  MapThenSumSet(LAMBDA d : MapThenSumSet(LAMBDA i : side.sent[d][i].amount,
                             {i \in 1..Len(side.sent[d]) : side.sent[d][i].buyer = n}), Deals)

\* The book holds no money, only figures: every figure a note has put in is in
\* exactly one place -- a resting order, a queued request, a handover that its
\* deal has not answered, a deal, or back at that note -- whatever mix of fills,
\* continuations, expiries, cancels and bounces it went through.
EscrowAccounted ==
  \A n \in Notes :
    side.in[n] = RestingEscrow(n) + QueuedEscrow(n) + InFlight(n) + side.taken[n] + side.back[n]

\* A resting bid can always pay for every tick it still asks for at its limit,
\* fee and subscription bond included: no match walk can find it short.
BidsCovered ==
  \A i \in DOMAIN book.orders :
    LET o == book.orders[i]
    IN  o.isBuy => o.escrow >= o.amount * Unit(o.price)
                                 + (IF "SUBSCRIPTION" \in o.flags THEN 2 * o.price ELSE 0)

\* The pair could be settled by the match walk, whichever of them came last.
Settleable(bid, ask) ==
  LET trade == Min({bid.amount, ask.amount})
  IN  /\ bid.price >= ask.price
      /\ DealCompatible(bid, ask)
      /\ ~IsExpired(bid.deadline, now) /\ ~IsExpired(ask.deadline, now)
      /\ "AON" \in bid.flags => trade = bid.amount
      /\ "AON" \in ask.flags => trade = ask.amount
      /\ trade >= 2

\* Between orders the book is not crossed: no resting bid and ask could trade
\* with each other, although a walk may stop at its caps and resume in another
\* transaction, skip makers of another shape, and leave them resting.
BookNotCrossed ==
  \A i, j \in DOMAIN book.orders :
    book.orders[i].isBuy /\ ~book.orders[j].isBuy => ~Settleable(book.orders[i], book.orders[j])

TicksFilled(id) ==
  MapThenSumSet(LAMBDA x : x.ticks, {x \in trades : id \in {x.buy, x.sell}})

Taker(x) == Max({x.buy, x.sell})

\* A fill-or-kill order that was accepted was filled whole by the transaction
\* that accepted it: the precheck and the walk agree, budgets included.
FokAllOrNothing ==
  \A id \in DOMAIN terms : "FOK" \in terms[id].flags => TicksFilled(id) = terms[id].amount

\* What each side agreed to: never above the buyer's limit, at the seller's ask,
\* never more ticks than were ordered, an ask at most once, an all-or-none order
\* only whole, a maker-only order never as the taker (even when its precheck runs
\* out of budget), and the buyer pays exactly ticks, fee and bond.
TermsHonoured ==
  /\ \A x \in trades :
       /\ "POST_ONLY" \notin terms[Taker(x)].flags
       /\ x.price = terms[x.sell].price
       /\ x.price <= terms[x.buy].price
       /\ x.ticks >= 2
       /\ \A id \in {x.buy, x.sell} : "AON" \in terms[id].flags => x.ticks = terms[id].amount
       /\ x.spent = x.ticks * Unit(x.price)
                      + (IF "SUBSCRIPTION" \in terms[x.buy].flags THEN 2 * x.price ELSE 0)
  /\ \A id \in DOMAIN terms :
       /\ TicksFilled(id) <= terms[id].amount
       /\ Cardinality({x \in trades : x.sell = id}) <= 1

\* Order i is ahead of order j on their side of the book.
Before(i, j) ==
  \/ IF book.orders[i].isBuy THEN book.orders[i].price > book.orders[j].price
                             ELSE book.orders[i].price < book.orders[j].price
  \/ book.orders[i].price = book.orders[j].price /\ i < j

\* Fill x passed over maker i.
Passed(x, i) ==
  LET m == Min({x.buy, x.sell})
      t == terms'[Taker(x)]
      o == book.orders[i]
  IN  /\ o.isBuy # t.isBuy
      /\ Before(i, m)
      /\ IF t.isBuy THEN Settleable(t, o) ELSE Settleable(o, t)
      /\ {"AON"} \cap (t.flags \cup o.flags) = {}
      /\ i \in DOMAIN book'.orders /\ book'.orders[i] = o

\* Price, then time: when a step fills a maker, no maker with a better price or
\* the same price and an earlier id, that the taker could have settled with, is
\* left as it was (all-or-none terms aside: they may skip any maker).
PriceTimePriority ==
  [][\A x \in trades' \ trades, i \in DOMAIN book.orders : ~Passed(x, i)]_vars

=============================================================================
