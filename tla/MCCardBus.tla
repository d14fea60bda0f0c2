----------------------------- MODULE MCCardBus -----------------------------
(* Values for TLC.                                                             *)
EXTENDS CardBus, TLC
CONSTANTS card1, card2, blank, text1, text2
OneCard == {card1}
TwoCards == {card1, card2}
OneText == {text1}
TwoTexts == {text1, text2}
Symmetry == Permutations(TwoCards)
=============================================================================
