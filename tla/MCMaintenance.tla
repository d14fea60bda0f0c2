--------------------------- MODULE MCMaintenance ---------------------------
(* Values for TLC: two updates, so that they can overlap.                      *)
EXTENDS Maintenance, TLC
CONSTANTS update1, update2
TwoUpdates == {update1, update2}
=============================================================================
