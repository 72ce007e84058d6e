---------------------------- MODULE MCCoroutine ----------------------------
(* Instances of Coroutine for TLC: two coroutines, one of which the other  *)
(* or the main script starts, generators nested two deep, two operations   *)
(* (a second one for a forgotten yield, for a stage, or for the other      *)
(* coroutine) and three calls or yields of the PHP code in all.            *)
EXTENDS Coroutine
=============================================================================
