---------------------------- MODULE Supervision ----------------------------
(***************************************************************************)
(* What the master process promises about its workers: each index has at   *)
(* most one process; a process that ends is either followed by a new one   *)
(* or, after a normal end, by none ever; once the master is asked to stop  *)
(* it starts nothing any more.                                             *)
(***************************************************************************)
CONSTANT Workers

VARIABLES slot,   \* per index: not started, process up, to restart, retired
          open    \* the master still starts processes

Slots == {"off", "up", "down", "retired"}

SInit == slot = [w \in Workers |-> "off"] /\ open = TRUE

Start(w) ==
  /\ open
  /\ slot[w] \in {"off", "down"}
  /\ slot' = [slot EXCEPT ![w] = "up"]
  /\ UNCHANGED open

Fail(w) ==
  /\ slot[w] = "up"
  /\ slot' = [slot EXCEPT ![w] = "down"]
  /\ UNCHANGED open

Retire(w) ==
  /\ slot[w] = "up"
  /\ slot' = [slot EXCEPT ![w] = "retired"]
  /\ UNCHANGED open

Shut == open /\ open' = FALSE /\ UNCHANGED slot

SNext == Shut \/ \E w \in Workers : Start(w) \/ Fail(w) \/ Retire(w)

SSpec == SInit /\ [][SNext]_<<slot, open>>
=============================================================================
