------------------------------ MODULE Finiteness ------------------------------
(***************************************************************************)
(* Finiteness in Tarski's form: a set is finite exactly when every         *)
(* nonempty collection of its subsets has a minimal member.  It says the   *)
(* same of a set as IsFiniteSet does and is the form in which the proofs   *)
(* use it, since every induction over a finite set there is an argument    *)
(* about a minimal member.                                                 *)
(***************************************************************************)

Finite(S) ==
  \A B \in SUBSET (SUBSET S) :
    B # {} => \E T \in B : \A U \in B : U \subseteq T => U = T
=============================================================================
