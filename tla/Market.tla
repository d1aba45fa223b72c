------------------------------- MODULE Market -------------------------------
(***************************************************************************)
(* The inference market: owners' notes (PrivateNote), the order book       *)
(* (BookEngine) and deals (DealPromise), which talk to each other only by  *)
(* messages.  A transaction handles one message or one owner's call to the *)
(* end, and what it sends is queued per pair of sender and receiver: two   *)
(* messages between the same two accounts arrive in the order they were    *)
(* sent, messages between different pairs in any order.  A bounceable call *)
(* that its receiver refuses, or that finds no account, comes back.        *)
(*                                                                         *)
(* Money is a figure carried by the messages.  `burned` and `paidOut` are  *)
(* what deals destroyed and what RootPN paid to owners' wallets; `plan`    *)
(* is what the owners may still call and serves only to bound them.        *)
(***************************************************************************)
EXTENDS BookEngine, PrivateNote, DealPromise, Bags

CONSTANTS
  Seller,        \* the note behind each deal
  Funds,         \* what each note starts with
  BuyRequests,   \* the orders an owner may place
  Ask,           \* the offer of each deal: price, ticks, flags, deadline
  CancelIds,     \* the order ids an owner may name
  Plans          \* bound: bags of the calls the owners make, as [note, kind]

VARIABLES notes, book, deals, net, burned, paidOut, plan

vars == <<notes, book, deals, net, burned, paidOut, plan>>

Links == (Notes \X (Deals \cup {"book", "root"})) \cup (Deals \X (Notes \cup {"book"}))
           \cup ({"book"} \X (Notes \cup Deals)) \cup ({"root"} \X Notes)

Bond(d) == 2 * Ask[d].price

Now == 0

-----------------------------------------------------------------------------
(* The network                                                             *)

\* What `from` sends joins the end of its links.
Posted(w, from, out) ==
  [l \in Links |-> IF l[1] = from
                   THEN w[l] \o SelectSeq(out, LAMBDA m : m.to = l[2]) ELSE w[l]]

Bounced(m, from) == <<[kind |-> "bounced", to |-> from, call |-> m]>>

Dropped(w, l) == [w EXCEPT ![l] = Tail(@)]

Settle(x) == [x EXCEPT !.out = <<>>]

-----------------------------------------------------------------------------
(* A note handles a message                                                *)

NoteHandles(n, from, m) ==
  CASE m.kind = "onInferencePlaced" -> onInferencePlaced(n, m.id, m.client)
    [] m.kind = "onInferenceFilled" ->
         onInferenceFilled(n, m.deal, m.client, m.price, m.spent, m.isBuy)
    [] m.kind = "onInferenceOrderRemoved" -> onInferenceOrderRemoved(n, m.id, m.cause)
    [] m.kind = "onInferenceRejected" -> onInferenceRejected(n, m.client, m.amount)
    [] m.kind \in {"creditFromBook", "creditFromDeal"} -> Credited(n, m.amount)
    [] m.kind = "onDealClosed" -> onDealClosed(n, from)
    [] m.kind = "revertWithdraw" -> revertWithdraw(n, m.amount)
    [] m.kind = "bounced" -> onBounce(n, m.call)

DeliverToNote(from, n) ==
  /\ net[from, n] # <<>>
  /\ LET after == NoteHandles(notes[n], from, Head(net[from, n]))
     IN  /\ notes' = [notes EXCEPT ![n] = Settle(after)]
         /\ net' = Posted(Dropped(net, <<from, n>>), n, after.out)
  /\ UNCHANGED <<book, deals, burned, paidOut, plan>>

-----------------------------------------------------------------------------
(* The book handles a message                                              *)

\* A buy the book cannot admit reverts and comes back to its note.
BookBuys(b, from, m) ==
  IF BuyAdmissible(b, m.order, Now)
  THEN ProcessHeadCore(Enqueue(b, BuyEntry(m.order, from, m.client)), Now)
  ELSE [b EXCEPT !.out = Bounced(m, from)]

BookSells(b, from) ==
  IF SellAdmissible(b, Ask[from])
  THEN ProcessHeadCore(Enqueue(b, SellEntry(Ask[from], Seller[from], from)), Now)
  ELSE SellClosed(b, from)

\* Mutant: a cancel that finds the queue full is answered as if it had worked.
BookCancels_FullIsGone(b, e) ==
  IF Len(b.queue) < QUEUE_CAPACITY THEN ProcessHeadCore(Enqueue(b, e), Now)
  ELSE OrderRemoved(b, e.owner, e.target, "CANCELLED")

\* A full queue refuses a cancel softly: nothing changes and no mirror is sent.
BookCancels(b, e) ==
  IF Len(b.queue) < QUEUE_CAPACITY THEN ProcessHeadCore(Enqueue(b, e), Now) ELSE b

BookRedirects(b, deal, paid) ==
  IF b.handover[deal] = None THEN b
  ELSE PayShell([b EXCEPT !.handover[deal] = None], b.handover[deal], paid)

BookHandles(b, from, m) ==
  CASE m.kind = "placeBuyOrder" -> BookBuys(b, from, m)
    [] m.kind = "placeSellOffer" -> BookSells(b, from)
    [] m.kind = "cancelOrder" ->
         BookCancels(b, [Entry EXCEPT !.type = "CANCEL", !.owner = from, !.target = m.id])
    [] m.kind = "cancelAllOrders" ->
         BookCancels(b, [Entry EXCEPT !.type = "CANCEL_ALL", !.owner = from])
    [] m.kind = "onHandoverAccepted" -> [b EXCEPT !.handover[from] = None]
    [] m.kind = "bounced" -> BookRedirects(b, from, m.call.amount)

BookCommits(after, w) ==
  /\ book' = Settle(after)
  /\ net' = Posted(w, "book", after.out)
  /\ UNCHANGED <<notes, deals, burned, paidOut, plan>>

DeliverToBook(from) ==
  /\ net[from, "book"] # <<>>
  /\ BookCommits(BookHandles(book, from, Head(net[from, "book"])), Dropped(net, <<from, "book">>))

\* The self-call the book sent arrives.
SelfProcessed == ProcessHeadCore([book EXCEPT !.kicked = FALSE], Now)

selfProcessHead == book.kicked /\ BookCommits(SelfProcessed, net)

-----------------------------------------------------------------------------
(* A deal handles a message                                                *)

Credit(to, amount) ==
  IF amount = 0 THEN <<>> ELSE <<[kind |-> "creditFromDeal", to |-> to, amount |-> amount]>>

\* The mirrors of a deal that ends or is unwound.
Farewell(d, self) ==
  (IF d.buyer = NoBuyer THEN <<>> ELSE <<[kind |-> "onDealClosed", to |-> d.buyer]>>)
    \o <<[kind |-> "onDealClosed", to |-> Seller[self]]>>

DealPosts(d, self) ==
  [deal |-> Listed(d),
   out |-> IF WillOffer(d) THEN <<[kind |-> "placeSellOffer", to |-> "book"]>> ELSE <<>>]

\* A handover is answered first, then taken or paid back whole.
DealTakes(d, m) ==
  LET answer == <<[kind |-> "onHandoverAccepted", to |-> "book"]>>
  IN  IF Takes(d)
      THEN [deal |-> Matched(d, m.buyer, m.amount, m.sub), out |-> answer]
      ELSE [deal |-> d, out |-> answer \o Credit(m.buyer, m.amount)]

\* The surplus over the bond goes back to its sender.
DealBonds(d, self, from, m) ==
  [deal |-> IF m.kind = "fundDeal" THEN SellerBonded(d, Bond(self)) ELSE BuyerBonded(d, Bond(self)),
   out |-> Credit(from, m.amount - Bond(self))]

\* The calls that revert, and come back, because of who sent them or when.
DealRefuses(d, self, from, m) ==
  CASE m.kind = "fundFromOrderBook" -> ~d.listed
    [] m.kind = "fundDeal" -> ~(MayBondSeller(d) /\ m.amount >= Bond(self))
    [] m.kind = "fundBuyerBond" -> ~(MayBondBuyer(d, from) /\ m.amount >= Bond(self))
    [] m.kind = "touchDeal" -> from \notin {d.buyer, Seller[self]}
    [] OTHER -> FALSE

DealHandles(d, self, from, m) ==
  CASE m.kind = "postFromNote" -> DealPosts(d, self)
    [] m.kind = "onSellClosed" -> [deal |-> OfferClosed(d), out |-> <<>>]
    [] m.kind = "fundFromOrderBook" -> DealTakes(d, m)
    [] m.kind \in {"fundDeal", "fundBuyerBond"} -> DealBonds(d, self, from, m)
    [] m.kind = "touchDeal" -> [deal |-> d, out |-> <<>>]

\* The calls their senders marked bounce: true.
Bounceable == {"fundFromOrderBook", "fundDeal", "fundBuyerBond", "touchDeal"}

DeliverToDeal(from, self) ==
  /\ net[from, self] # <<>>
  /\ LET m    == Head(net[from, self])
         d    == deals[self]
         rest == Dropped(net, <<from, self>>)
         done == DealHandles(d, self, from, m)
     IN  IF d.phase = "dead" \/ DealRefuses(d, self, from, m)
         THEN /\ net' = IF m.kind \in Bounceable THEN Posted(rest, self, Bounced(m, from)) ELSE rest
              /\ UNCHANGED deals
         ELSE /\ deals' = [deals EXCEPT ![self] = done.deal]
              /\ net' = Posted(rest, self, done.out)
  /\ UNCHANGED <<notes, book, burned, paidOut, plan>>

-----------------------------------------------------------------------------
(* What the parties do to a deal                                           *)

open(self) ==
  /\ MayOpen(deals[self])
  /\ deals' = [deals EXCEPT ![self] = Opened(@)]
  /\ UNCHANGED <<notes, book, net, burned, paidOut, plan>>

\* What is neither the buyer's nor the seller's share burns.
LetsGo(self, after, share) ==
  /\ deals' = [deals EXCEPT ![self] = after]
  /\ net' = Posted(net, self, Credit(deals[self].buyer, share.buyer)
                                \o Credit(Seller[self], share.seller)
                                \o Farewell(deals[self], self))
  /\ burned' = burned + (deals[self].held - share.buyer - share.seller)
  /\ UNCHANGED <<notes, book, paidOut, plan>>

\* A match that never opened pays each side what it brought.  A bond the deal
\* still holds for an earlier match is nobody's.
MatchShares(d, self) ==
  LET bond == IF d.sellerBonded THEN Bond(self) ELSE 0
  IN  {[buyer |-> d.escrow, seller |-> bond], [buyer |-> d.held - bond, seller |-> bond]}

\* A stream divides the figure in its own way; the extremes stand for all.  An
\* idle deal holds only what its seller gets.
EndShares(d, self) ==
  CASE d.phase = "open" ->
         {[buyer |-> d.held, seller |-> 0], [buyer |-> 0, seller |-> d.held], [buyer |-> 0, seller |-> 0]}
    [] d.phase = "matched" -> MatchShares(d, self)
    [] OTHER -> {[buyer |-> 0, seller |-> d.held]}

\* The match is undone before it opened, by the buyer or after the timeout.
cleanupUnopened(self) ==
  /\ deals[self].phase = "matched"
  /\ \E share \in MatchShares(deals[self], self) : LetsGo(self, Unwound(deals[self]), share)

\* stop, sellerStop, a dispute's end, the last claim, close or destroy.
end(self) ==
  /\ MayEnd(deals[self])
  /\ \E share \in EndShares(deals[self], self) : LetsGo(self, DeadDeal, share)

-----------------------------------------------------------------------------
(* What the owners do with their notes                                     *)

Calls(n, kind, after) ==
  /\ BagIn([note |-> n, kind |-> kind], plan)
  /\ plan' = plan (-) SetToBag({[note |-> n, kind |-> kind]})
  /\ notes' = [notes EXCEPT ![n] = Settle(after)]
  /\ net' = Posted(net, n, after.out)
  /\ UNCHANGED <<book, deals, burned, paidOut>>

\* A plan counts takers apart from bids that may rest.
PlaceKind(r) == IF "IOC" \in r.flags THEN "take" ELSE "buy"

placeInferenceBuy(r) ==
  MayBuy(notes[r.note], r) /\ Calls(r.note, PlaceKind(r), BuyPlaced(notes[r.note], r))

postSellOffer(d) ==
  ~notes[Seller[d]].withdrawn /\ Calls(Seller[d], "post", OfferPosted(notes[Seller[d]], d))

fundDeal(d) ==
  /\ MayFund(notes[Seller[d]], Bond(d))
  /\ Calls(Seller[d], "bond", DealFunded(notes[Seller[d]], d, Bond(d)))

fundBuyerBondNow(n, d) ==
  /\ MayBondNow(notes[n], d, Bond(d))
  /\ Calls(n, "bond", PostBond(notes[n], d, Bond(d)))

cancelInferenceOrder(n, id) == Calls(n, "cancel", CancelSent(notes[n], id))

cancelAllInferenceOrders(n) == Calls(n, "cancel", CancelAllSent(notes[n]))

touchDeal(n, d) ==
  d \in notes[n].live /\ Calls(n, "touch", TouchSent(notes[n], d))

withdrawTokens(n) ==
  MayWithdraw(notes[n]) /\ Calls(n, "withdraw", Withdrawn(notes[n]))

\* RootPN pays the wallet, or has not the liquidity and reverts.
DeliverToRoot(n) ==
  /\ net[n, "root"] # <<>>
  /\ LET m == Head(net[n, "root"])
         rest == Dropped(net, <<n, "root">>)
     IN  \/ /\ paidOut' = paidOut + m.amount
            /\ net' = rest
         \/ /\ net' = Posted(rest, "root", <<[kind |-> "revertWithdraw", to |-> n, amount |-> m.amount]>>)
            /\ UNCHANGED paidOut
  /\ UNCHANGED <<notes, book, deals, burned, plan>>

-----------------------------------------------------------------------------

Init ==
  /\ notes = [n \in Notes |-> NewNote(Funds[n])]
  /\ book = EmptyBook
  /\ deals = [d \in Deals |-> IdleDeal]
  /\ net = [l \in Links |-> <<>>]
  /\ burned = 0 /\ paidOut = 0
  /\ plan \in Plans

Deliver ==
  \/ \E n \in Notes, from \in Deals \cup {"book", "root"} : DeliverToNote(from, n)
  \/ \E from \in Notes \cup Deals : DeliverToBook(from)
  \/ \E d \in Deals, from \in Notes \cup {"book"} : DeliverToDeal(from, d)
  \/ \E n \in Notes : DeliverToRoot(n)
  \/ selfProcessHead

Next ==
  \/ Deliver
  \/ \E d \in Deals : open(d)
  \/ \E d \in Deals : cleanupUnopened(d)
  \/ \E d \in Deals : end(d)
  \/ \E r \in BuyRequests : placeInferenceBuy(r)
  \/ \E d \in Deals : postSellOffer(d)
  \/ \E d \in Deals : fundDeal(d)
  \/ \E n \in Notes, d \in Deals : fundBuyerBondNow(n, d)
  \/ \E n \in Notes, id \in CancelIds : cancelInferenceOrder(n, id)
  \/ \E n \in Notes : cancelAllInferenceOrders(n)
  \/ \E n \in Notes, d \in Deals : touchDeal(n, d)
  \/ \E n \in Notes : withdrawTokens(n)

Spec == Init /\ [][Next]_vars

-----------------------------------------------------------------------------
(* Properties                                                              *)

InFlight(l) == {net[l][i] : i \in 1..Len(net[l])}

Figure(m) ==
  CASE m.kind = "placeBuyOrder" -> m.order.escrow
    [] m.kind \in {"creditFromBook", "creditFromDeal", "onInferenceRejected", "fundFromOrderBook",
                   "fundDeal", "fundBuyerBond", "withdrawTokens", "revertWithdraw"} -> m.amount
    [] OTHER -> 0

Carried(m) ==
  IF m.kind # "bounced" THEN Figure(m)
  ELSE IF m.call.kind = "touchDeal" THEN 0 ELSE Figure(m.call)

EscrowOf(e) == IF e.contOrderId = 0 THEN e.escrow ELSE e.contLeftover

OnLinks ==
  MapThenSumSet(LAMBDA l : MapThenSumSet(LAMBDA i : Carried(net[l][i]), DOMAIN net[l]),
                {l \in Links : net[l] # <<>>})

InBook ==
  MapThenSumSet(LAMBDA i : book.orders[i].escrow, DOMAIN book.orders)
    + MapThenSumSet(LAMBDA i : EscrowOf(book.queue[i]), DOMAIN book.queue)

\* No figure is minted and none is lost between the contracts: what the owners
\* began with is in their notes, on the way, in the book, in a deal, burned or
\* paid out -- although a note undoes a refused call from its own records, and
\* clamps what the book returns by them.
MoneyConserved ==
  MapThenSumSet(LAMBDA n : Funds[n], Notes)
    = MapThenSumSet(LAMBDA n : notes[n].balance, Notes)
        + OnLinks + InBook + MapThenSumSet(LAMBDA d : deals[d].held, Deals) + burned + paidOut

\* The note knows of the request by its number.
KnowsRequest(n, client) == client \in DOMAIN notes[n].pending

\* A note never forgets escrow of its own: while a bid with money is on its way to
\* the book, queued or resting, the note has its pending or its resting record,
\* also when a cancel was refused for want of room.
EscrowRemembered ==
  \A n \in Notes :
    /\ \A m \in InFlight(<<n, "book">>) : m.kind = "placeBuyOrder" => KnowsRequest(n, m.client)
    /\ \A i \in 1..Len(book.queue) :
         LET e == book.queue[i]
         IN  e.owner = n /\ EscrowOf(e) > 0 => KnowsRequest(n, e.client)
    /\ \A id \in OwnedBy(book, n) :
         book.orders[id].isBuy =>
           KnowsRequest(n, book.orders[id].client) \/ id \in notes[n].resting

\* A withdrawn note has no bid outstanding: the gate of withdrawTokens leaves no
\* gap between the request, the order and its end.
WithdrawnHasNoBid ==
  \A n \in Notes :
    notes[n].withdrawn =>
      /\ \A m \in InFlight(<<n, "book">>) : m.kind # "placeBuyOrder"
      /\ \A i \in 1..Len(book.queue) : book.queue[i].owner = n => EscrowOf(book.queue[i]) = 0
      /\ \A id \in OwnedBy(book, n) : ~book.orders[id].isBuy

\* Where the one offer of a deal can be.
OfferPlaces(d) ==
  {<<"sent", i>> : i \in {i \in 1..Len(net[d, "book"]) : net[d, "book"][i].kind = "placeSellOffer"}}
    \cup {<<"queued", i>> : i \in {i \in 1..Len(book.queue) : book.queue[i].tc = d}}
    \cup {<<"resting", i>> : i \in {i \in DOMAIN book.orders : book.orders[i].tc = d}}
    \cup {<<"back", i>> : i \in {i \in 1..Len(net["book", d]) :
                                   net["book", d][i].kind \in {"onSellClosed", "fundFromOrderBook"}}}

\* A deal has at most one live offer, and its latch says so: while it is set the
\* offer is in exactly one place -- on its way, queued, resting, or coming back as
\* a closure or a handover -- and otherwise nowhere.  So every handover finds its
\* deal alive, listed and free, whatever crossed on the way.
OneLiveOffer ==
  \A d \in Deals : Cardinality(OfferPlaces(d)) = IF deals[d].offered THEN 1 ELSE 0

-----------------------------------------------------------------------------
(* Statements of the source the code does not meet                         *)

\* "never touches `_balance`, which `withdrawTokens` already released and which
\* stays empty".
WithdrawnStaysEmpty == \A n \in Notes : notes[n].withdrawn => notes[n].balance = 0

-----------------------------------------------------------------------------
(* Liveness                                                                *)

Waiting == (book.kicked /\ SelfProcessed # book) \/ \E l \in Links : net[l] # <<>>

\* Messages are delivered, the book's own among them: weak fairness of Deliver,
\* with its guard written out.  A self-call that changes nothing is no progress.
FairSpec == Spec /\ ([]<>~Waiting \/ []<><<Deliver>>_vars)

\* Every request is answered: no pending record gates the owner's withdrawal for
\* ever, whether the order rests, fills, is refused, bounces or is cut short by a
\* queue that was full.
RequestsSettled ==
  \A n \in {r.note : r \in BuyRequests} :
    DOMAIN notes[n].pending # {} ~> DOMAIN notes[n].pending = {}

\* Every offer that left its deal comes to rest in the book, or comes back to the
\* deal as a handover or a closure: the latch is not left set for nothing.
OffersSettled ==
  \A d \in Deals :
    deals[d].offered ~> ~deals[d].offered \/ \E id \in DOMAIN book.orders : book.orders[id].tc = d

=============================================================================
