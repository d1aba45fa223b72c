------------------------- MODULE MC_ReferencePrice -------------------------
(* Two deals at different prices, a window of four days on a ring of five,   *)
(* and seven days: every slot is used and the first ones again.            *)
EXTENDS ReferencePrice, TLC

Prices == ("a" :> 7) @@ ("b" :> 3)

Volumes == ("a" :> 3) @@ ("b" :> 4)
=============================================================================
