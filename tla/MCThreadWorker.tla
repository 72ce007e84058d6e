--------------------------- MODULE MCThreadWorker ---------------------------
(* Instances of ThreadWorker for TLC: two contexts, so that one can be     *)
(* submitted from inside the completion of the other or of itself, and     *)
(* four submissions, so that sends coalesce on both sides.                 *)
EXTENDS ThreadWorker
=============================================================================
