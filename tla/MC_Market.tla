----------------------------- MODULE MC_Market -----------------------------
(* Instances of the market for TLC.                                        *)
EXTENDS Market

OneSeller == [d \in Deals |-> "seller"]

\* Enough for three bids of `Bids`; and for a bid and a taker of `LiveBids`.
SmallFunds == [n \in Notes |-> IF n = "buyer" THEN 510 ELSE 80]

LiveFunds == [n \in Notes |-> IF n = "buyer" THEN 270 ELSE 80]

\* A bid for two offers, with change, which one offer fills in part; and a taker
\* of one offer that may be refused.
Bids == {
  [note |-> "buyer", price |-> 40, ticks |-> 4, escrow |-> 170, flags |-> {}, deadline |-> 0],
  [note |-> "buyer", price |-> 40, ticks |-> 2, escrow |-> 90, flags |-> {"IOC"}, deadline |-> 0]}

\* A bid that one offer fills, a taker that it fills in part, and a bid that the
\* offer is too small for: the walk passes over it.
LiveBids == {
  [note |-> "buyer", price |-> 40, ticks |-> 2, escrow |-> 90, flags |-> {}, deadline |-> 0],
  [note |-> "buyer", price |-> 40, ticks |-> 4, escrow |-> 164, flags |-> {"IOC"}, deadline |-> 0],
  [note |-> "buyer", price |-> 40, ticks |-> 3, escrow |-> 124, flags |-> {"AON"}, deadline |-> 0]}

By(note, kind) == [note |-> note, kind |-> kind]

\* Two bids compete for one offer.
Racing == By("buyer", "buy") :> 2 @@ By("seller", "post") :> 1

\* And may be cancelled, filled in part or not at all.
Crossing == Racing (+) (By("buyer", "cancel") :> 1)

\* A deal is bonded by both sides, opened and ended.
Bonding == By("buyer", "buy") :> 1 @@ By("seller", "post") :> 1 @@ By("seller", "bond") :> 1
             @@ By("buyer", "bond") :> 1

\* The buyer asks the deal whether it still lives.
Touching == By("buyer", "buy") :> 1 @@ By("seller", "post") :> 1 @@ By("buyer", "touch") :> 1

\* A deal is unwound and offered again, to the rest of the bid it left.
Again == By("buyer", "buy") :> 1 @@ By("seller", "post") :> 2

\* The buyer leaves, and may come back.
Leaving == By("buyer", "buy") :> 1 @@ By("seller", "post") :> 1 @@ By("buyer", "cancel") :> 1
             @@ By("buyer", "withdraw") :> 1

\* The seller calls off the offer.
CalledOff == By("buyer", "buy") :> 1 @@ By("seller", "post") :> 1 @@ By("seller", "cancel") :> 1

\* The seller leaves.
Closing == By("buyer", "buy") :> 1 @@ By("seller", "post") :> 1 @@ By("seller", "withdraw") :> 1

\* Cancels arrive faster than the queue empties.
Crowded == By("buyer", "buy") :> 3 @@ By("buyer", "cancel") :> 3

\* Requests queue up behind a cancel that continues.
Behind == By("buyer", "buy") :> 2 @@ By("buyer", "cancel") :> 1

\* The same plan with a taker in the place of a bid.
WithTaker(p) == (p (-) (By("buyer", "buy") :> 1)) (+) (By("buyer", "take") :> 1)

SmallPlans == {Crowded, Crossing, Bonding, Touching, Again, Leaving, CalledOff, Closing}
                \cup {WithTaker(p) : p \in {Racing, CalledOff, Closing}}

LivePlans == {Racing, Behind, Leaving, CalledOff} \cup {WithTaker(p) : p \in {Racing, Behind}}

\* Only the buyer who leaves.
LeavingOnly == {Leaving}

SmallAsk == [d \in Deals |-> [price |-> 40, ticks |-> 2, flags |-> {}, deadline |-> 9]]
=============================================================================
