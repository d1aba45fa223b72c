---------------------------- MODULE DealPromise ----------------------------
(***************************************************************************)
(* What the rest of the market relies on in a deal, without the stream:    *)
(* a deal is idle, matched, open or dead; it is listed once its note has   *)
(* vouched for it; it has an offer in the book or not; each side's bond is *)
(* in or not; it holds one figure, of which `escrow` came with a match     *)
(* that has not opened.  AbstractDeal states the promise as a              *)
(* specification, TokenContract implements it, Market composes it.         *)
(***************************************************************************)
EXTENDS Integers

NoBuyer == "address(0)"

Phases == {"idle", "matched", "open", "dead"}

IdleDeal == [
  phase |-> "idle", listed |-> FALSE, offered |-> FALSE, buyer |-> NoBuyer,
  sellerBonded |-> FALSE, buyerBonded |-> FALSE, held |-> 0, escrow |-> 0]

\* Mutant: the note may post again while its offer rests.
WillOffer_Twice(d) == d.phase = "idle"

\* A post reaches the book unless an offer is out or a buyer is bound.
WillOffer(d) == d.phase = "idle" /\ ~d.offered

Listed(d) == [d EXCEPT !.listed = TRUE, !.offered = @ \/ WillOffer(d)]

OfferClosed(d) == IF d.listed /\ d.phase = "idle" THEN [d EXCEPT !.offered = FALSE] ELSE d

\* A handover is taken by an idle deal; any other pays it back.
Takes(d) == d.listed /\ d.phase = "idle"

Matched(d, b, paid, bonded) ==
  [d EXCEPT !.phase = "matched", !.buyer = b, !.offered = FALSE,
            !.buyerBonded = @ \/ bonded, !.held = @ + paid, !.escrow = paid]

MayBondSeller(d) == d.phase \in {"idle", "matched"} /\ ~d.sellerBonded

MayBondBuyer(d, b) == d.phase \in {"idle", "matched"} /\ ~d.buyerBonded /\ b = d.buyer

SellerBonded(d, bond) == [d EXCEPT !.sellerBonded = TRUE, !.held = @ + bond]

BuyerBonded(d, bond) == [d EXCEPT !.buyerBonded = TRUE, !.held = @ + bond]

MayOpen(d) == d.phase = "matched" /\ d.sellerBonded /\ d.buyerBonded

Opened(d) == [d EXCEPT !.phase = "open", !.escrow = 0]

\* A match that never opened is undone, and the deal may be offered again.
Unwound(d) ==
  [d EXCEPT !.phase = "idle", !.offered = FALSE, !.sellerBonded = FALSE,
            !.buyerBonded = FALSE, !.held = 0, !.escrow = 0]

MayEnd(d) == d.phase # "dead" /\ ~d.offered

DeadDeal == [IdleDeal EXCEPT !.phase = "dead"]

=============================================================================
