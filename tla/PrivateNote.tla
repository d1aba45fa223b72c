---------------------------- MODULE PrivateNote ----------------------------
(***************************************************************************)
(* The inference half of an owner's wallet, contracts/dex/PrivateNote.sol, *)
(* as operators on its storage.  A note is a record:                       *)
(*   balance    _balance[SHELL], a figure that RootPN has in custody        *)
(*   pending    _pendingInf, client numbers to the escrow not yet answered *)
(*   resting    _restingInf, ids of the orders that rest in the book        *)
(*   live       _liveDeals                                                 *)
(*   next       _nextClientOrderId                                         *)
(*   withdrawn  _hasWithdrawn                                              *)
(*   out        the messages the running transaction has sent, in order    *)
(*                                                                         *)
(* There is one book, so a resting record is the order id alone.  Left     *)
(* out: gas and physical currency, events, the outcome-market half of the  *)
(* note, transfers between notes, the rate limit of touchDeal, and the     *)
(* shape rules of subscription bids, which placeBuyOrder states again.     *)
(***************************************************************************)
EXTENDS Integers, Sequences, Functions, TLC

NewNote(funds) == [
  balance |-> funds, pending |-> <<>>, resting |-> {}, live |-> {}, next |-> 0,
  withdrawn |-> FALSE, out |-> <<>>]

NoteSends(n, m) == [n EXCEPT !.out = Append(@, m)]

Without(f, x) == Restrict(f, DOMAIN f \ {x})

Outstanding(n, client) == IF client \in DOMAIN n.pending THEN n.pending[client] ELSE 0

-----------------------------------------------------------------------------
(* Mirrors from the book                                                   *)

\* The pending record hands over to the resting record.
onInferencePlaced(n, id, client) ==
  [n EXCEPT !.resting = @ \cup {id}, !.pending = Without(@, client)]

\* The outstanding figure falls by what was spent; at zero the record goes.
Spend(n, client, spent) ==
  IF spent >= Outstanding(n, client) THEN [n EXCEPT !.pending = Without(@, client)]
  ELSE [n EXCEPT !.pending[client] = @ - spent]

PostBond(n, deal, bond) ==
  NoteSends([n EXCEPT !.balance = @ - bond],
            [kind |-> "fundBuyerBond", to |-> deal, amount |-> bond])

\* A deal began; the buyer's side posts the bond if it holds one.
onInferenceFilled(n, deal, client, price, spent, isBuy) ==
  LET begun == Spend([n EXCEPT !.live = @ \cup {deal}], client, spent)
  IN  IF isBuy /\ begun.balance >= 2 * price THEN PostBond(begun, deal, 2 * price) ELSE begun

\* A refused cancel removes nothing.
onInferenceOrderRemoved(n, id, cause) ==
  IF cause = "REJECTED" THEN n ELSE [n EXCEPT !.resting = @ \ {id}]

\* Clamped by the pending record, never taken on faith.
onInferenceRejected(n, client, refunded) ==
  LET committed == Outstanding(n, client)
  IN  [n EXCEPT !.balance = @ + (IF refunded < committed THEN refunded ELSE committed),
                !.pending = Without(@, client)]

\* creditFromBook and creditFromDeal: a note does not get to refuse money.
Credited(n, amount) == [n EXCEPT !.balance = @ + amount]

-----------------------------------------------------------------------------
(* Deals                                                                   *)

onDealClosed(n, deal) == [n EXCEPT !.live = @ \ {deal}]

\* Mutant: a bond the deal refused is not put back.
onBounce_BondLost(n, m) ==
  CASE m.kind = "placeBuyOrder" ->
         [n EXCEPT !.balance = @ + Outstanding(n, m.client), !.pending = Without(@, m.client)]
    [] m.kind = "touchDeal" -> onDealClosed(n, m.to)
    [] m.kind = "fundDeal" -> Credited(n, m.amount)
    [] OTHER -> n

\* What left with the call is put back: the escrow by its client number, a bond
\* by its figure.  A bounced touch says that the deal is gone or not this note's.
onBounce(n, m) ==
  CASE m.kind = "placeBuyOrder" ->
         [n EXCEPT !.balance = @ + Outstanding(n, m.client), !.pending = Without(@, m.client)]
    [] m.kind = "touchDeal" -> onDealClosed(n, m.to)
    [] m.kind \in {"fundDeal", "fundBuyerBond"} -> Credited(n, m.amount)
    [] OTHER -> n

-----------------------------------------------------------------------------
(* Calls of the owner.  A guard is the requires of its call.               *)

MayBuy(n, r) == ~n.withdrawn /\ n.balance >= r.escrow

\* The number is chosen and the escrow recorded before the request leaves.
BuyPlaced(n, r) ==
  NoteSends([n EXCEPT !.balance = @ - r.escrow, !.next = @ + 1,
                      !.pending = ((n.next + 1) :> r.escrow) @@ @],
            [kind |-> "placeBuyOrder", to |-> "book", client |-> n.next + 1, order |-> r])

OfferPosted(n, deal) == NoteSends(n, [kind |-> "postFromNote", to |-> deal])

CancelSent(n, id) == NoteSends(n, [kind |-> "cancelOrder", to |-> "book", id |-> id])

CancelAllSent(n) == NoteSends(n, [kind |-> "cancelAllOrders", to |-> "book"])

MayFund(n, amount) == ~n.withdrawn /\ amount > 0 /\ n.balance >= amount

DealFunded(n, deal, amount) ==
  NoteSends([n EXCEPT !.balance = @ - amount],
            [kind |-> "fundDeal", to |-> deal, amount |-> amount])

MayBondNow(n, deal, bond) == MayFund(n, bond) /\ deal \in n.live

TouchSent(n, deal) == NoteSends(n, [kind |-> "touchDeal", to |-> deal])

\* Mutant: the gate does not ask about requests in flight.
MayWithdraw_InFlight(n) == ~n.withdrawn /\ n.resting = {} /\ n.live = {}

\* Nothing resting, nothing in flight, no live deal.
MayWithdraw(n) == ~n.withdrawn /\ n.resting = {} /\ DOMAIN n.pending = {} /\ n.live = {}

Withdrawn(n) ==
  NoteSends([n EXCEPT !.balance = 0, !.withdrawn = TRUE],
            [kind |-> "withdrawTokens", to |-> "root", amount |-> n.balance])

\* RootPN had not the liquidity: the figure and the latch come back.
revertWithdraw(n, amount) == [n EXCEPT !.balance = @ + amount, !.withdrawn = FALSE]

=============================================================================
