---------------------------- MODULE MCAccessGate ----------------------------
(* Two cards; the timeout of 3000 ms and the debounce of 900 ms in ticks that  *)
(* keep several refused attempts within one timeout.                           *)
EXTENDS AccessGate
CONSTANTS card1, card2
TwoCards == {card1, card2}
OneCard == {card1}
=============================================================================
