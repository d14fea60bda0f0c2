-------------------------- MODULE MCCommandPipeline --------------------------
(* Values for TLC: two commands and a malformed payload in one run, so that    *)
(* one command can be in the hands of the command task and the other in        *)
(* cmd_queue or blocked in the event handler behind it; in the other run two   *)
(* commands of two kinds and an otaUpdate.                                     *)
EXTENDS CommandPipeline, TLC
CONSTANTS pulse1, pulse2, json1, json2, silent1, ota1, bad1
OnePulse == {pulse1}
TwoPulses == {pulse1, pulse2}
OneJson == {json1}
TwoJsons == {json1, json2}
OneSilent == {silent1}
OneOta == {ota1}
OneBad == {bad1}
None == {}
Symmetry == Permutations({pulse1, pulse2})
=============================================================================
