------------------------------- MODULE MCPool -------------------------------
(***************************************************************************)
(* Two attackers, who come and go.                                         *)
(***************************************************************************)
EXTENDS Pool, TLC

CONSTANTS a1, b1, A, B

\* The objects of guests are interchangeable.
MCSymmetry == Permutations(Slots)

MCSrc == a1 :> A @@ b1 :> B
=============================================================================
