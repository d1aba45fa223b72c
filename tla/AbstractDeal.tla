---------------------------- MODULE AbstractDeal ----------------------------
(***************************************************************************)
(* The promise of a deal as a specification.  `flow` counts what crossed   *)
(* its boundary: what was brought in, paid to buyers, paid to the seller   *)
(* and burned.  How a stream divides its figure is not bound here: a step  *)
(* may split what it lets go in any way, but lets go of no more than it    *)
(* holds, and a match that never opened returns what came with it.         *)
(***************************************************************************)
EXTENDS DealPromise

VARIABLES deal, flow

vars == <<deal, flow>>

\* What a step brings in is held, paid or burned; no payment is taken back.
Accounted ==
  /\ flow'.brought >= flow.brought
  /\ flow'.toBuyer >= flow.toBuyer
  /\ flow'.toSeller >= flow.toSeller
  /\ flow'.burned >= flow.burned
  /\ deal'.held - deal.held = (flow'.brought - flow.brought)
       - (flow'.toBuyer - flow.toBuyer) - (flow'.toSeller - flow.toSeller)
       - (flow'.burned - flow.burned)

Brought == flow'.brought - flow.brought

Post == deal.phase # "dead" /\ deal' = Listed(deal) /\ UNCHANGED flow

Close == deal' = OfferClosed(deal) /\ UNCHANGED flow

\* A buyer is bound only while the offer is out: nobody else's money is taken.
Match ==
  /\ Takes(deal) /\ deal.offered
  /\ \E bonded \in BOOLEAN :
       deal' = Matched(deal, deal'.buyer, Brought, bonded)
  /\ Brought > 0
  /\ flow' = [flow EXCEPT !.brought = flow'.brought]

\* A handover it cannot use goes straight back.
Refuse ==
  /\ deal.listed /\ deal.phase # "dead"
  /\ deal' = deal
  /\ flow' = [flow EXCEPT !.brought = flow'.brought, !.toBuyer = @ + Brought]

\* A bond is taken once and its surplus returned.
BondSeller ==
  /\ MayBondSeller(deal)
  /\ deal' = SellerBonded(deal, deal'.held - deal.held)
  /\ flow' = [flow EXCEPT !.brought = flow'.brought, !.toSeller = flow'.toSeller]

BondBuyer ==
  /\ MayBondBuyer(deal, deal.buyer)
  /\ deal' = BuyerBonded(deal, deal'.held - deal.held)
  /\ flow' = [flow EXCEPT !.brought = flow'.brought, !.toBuyer = flow'.toBuyer]

Open == MayOpen(deal) /\ deal' = Opened(deal) /\ UNCHANGED flow

\* The seller draws what the open stream has earned.
Draw ==
  /\ deal.phase = "open"
  /\ deal' = [deal EXCEPT !.held = deal'.held]
  /\ flow' = [flow EXCEPT !.toSeller = flow'.toSeller]

\* What came with a match that has not opened goes back to the buyer.
Released == flow'.brought = flow.brought /\ flow'.toBuyer >= flow.toBuyer + deal.escrow

Unwind == deal.phase = "matched" /\ deal' = Unwound(deal) /\ Released

End == MayEnd(deal) /\ deal' = DeadDeal /\ Released

Init == deal = IdleDeal /\ flow = [brought |-> 0, toBuyer |-> 0, toSeller |-> 0, burned |-> 0]

Next ==
  /\ Accounted
  /\ \/ Post \/ Close \/ Match \/ Refuse \/ BondSeller \/ BondBuyer
     \/ Open \/ Draw \/ Unwind \/ End

Spec == Init /\ [][Next]_vars

=============================================================================
