--------------------------- MODULE MCConnectivity ---------------------------
(* Of the networks of the table, only the third is in range.                   *)
EXTENDS Connectivity
OnlyThird == {2}
=============================================================================
