----------------------------- MODULE MCQrReader -----------------------------
(* Values for TLC: a code whose length byte is a tab, and one that is longer   *)
(* than its first letter read as a number.                                     *)
EXTENDS QrReader
Text(n) == [i \in 1..n |-> 33]
TwoCodes == {Text(9), Text(35)}
=============================================================================
