---------------------------- MODULE MCSupervisor ----------------------------
(* Instances of Supervisor for TLC: two workers and three processes, so    *)
(* that one worker is restarted while the other is in any other state, or  *)
(* one worker and two processes.                                           *)
EXTENDS Supervisor
=============================================================================
