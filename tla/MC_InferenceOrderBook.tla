----------------------- MODULE MC_InferenceOrderBook -----------------------
(***************************************************************************)
(* Instances of InferenceOrderBook.  Prices are multiples of 40, the        *)
(* smallest at which the 2.5% fee is a whole unit: Unit(40) = 41.          *)
(***************************************************************************)
EXTENDS InferenceOrderBook

Bid(note, ticks, price, escrow, flags, deadline) ==
  [note |-> note, ticks |-> ticks, price |-> price, escrow |-> escrow, flags |-> flags,
   deadline |-> deadline]

Ask(ticks, price, flags, deadline) ==
  [ticks |-> ticks, price |-> price, flags |-> flags, deadline |-> deadline]

OneSeller == [d \in Deals |-> "seller"]

\* Limit, market, maker-only and whole-only orders at two prices, some short of escrow.
MatchBids ==
  { Bid("buyer", 4, 80, 328, {}, 0), Bid("buyer", 4, 80, 320, {}, 0),
    Bid("buyer", 3, 40, 123, {"AON"}, 0), Bid("buyer", 6, 80, 492, {"FOK"}, 0),
    Bid("buyer", 4, 80, 328, {"POST_ONLY"}, 0), Bid("buyer", 3, 0, 200, {"MARKET"}, 0) }

MatchAsks ==
  { Ask(2, 40, {}, 9), Ask(4, 80, {"POST_ONLY"}, 9), Ask(5, 40, {"AON"}, 9),
    Ask(4, 80, {"FOK"}, 9) }

\* Small orders with deadlines: continuations, expiry and cancels meet.
QueueBids ==
  { Bid("buyer", 6, 80, 492, {}, 1), Bid("seller", 4, 40, 244, {"AON", "SUBSCRIPTION"}, 0) }

QueueAsks ==
  { Ask(4, 40, {}, 1), Ask(2, 40, {"IOC"}, 9), Ask(4, 40, {"AON", "SUBSCRIPTION", "TEE"}, 9) }

DealSymmetry == Permutations(Deals)
=============================================================================
