-------------------------- MODULE MCAccessRequests --------------------------
(* Values for TLC.                                                             *)
EXTENDS AccessRequests, TLC
CONSTANTS card1, card2
OneCard == {card1}
TwoCards == {card1, card2}
Symmetry == Permutations(TwoCards)
=============================================================================
