------------------------- MODULE MC_SellerDelivery -------------------------
(* Small instances of SellerDelivery.                                      *)
EXTENDS SellerDelivery, TLC

RequestSymmetry == Permutations(Requests)
=============================================================================
