----------------------------- MODULE WorkQueue -----------------------------
(***************************************************************************)
(* What flame::thread_worker promises to the database clients built on it: *)
(* a FIFO service.  Requests are served (work_cb, on the worker thread)    *)
(* once each and in the order in which they were submitted, completed      *)
(* (after_work_cb, on the main thread) once each and in the same order,    *)
(* and the closing pair of callbacks runs only after all of them: the      *)
(* worker's half ("retired") when everything was served, the main thread's *)
(* half ("finished") when everything was completed.                        *)
(***************************************************************************)
EXTENDS Naturals, Sequences

CONSTANTS Reqs,     \* the uv_work_t contexts the clients may submit
          MaxWork   \* bound: how many submissions a behaviour holds

VARIABLES submitted,  \* the requests accepted so far, oldest first
          served,     \* those whose work_cb has run
          completed,  \* those whose after_work_cb has been called
          stage       \* how far the shutdown is

wqvars == <<submitted, served, completed, stage>>

Stages == {"open", "closing", "retired", "finished"}

WQInit ==
  /\ submitted = << >>
  /\ served = << >>
  /\ completed = << >>
  /\ stage = "open"

Submit(r) ==
  /\ stage = "open"
  /\ Len(submitted) < MaxWork
  /\ submitted' = Append(submitted, r)
  /\ UNCHANGED <<served, completed, stage>>

Serve ==
  /\ stage \in {"open", "closing"}
  /\ Len(served) < Len(submitted)
  /\ served' = Append(served, submitted[Len(served) + 1])
  /\ UNCHANGED <<submitted, completed, stage>>

Complete ==
  /\ stage # "finished"
  /\ Len(completed) < Len(served)
  /\ completed' = Append(completed, served[Len(completed) + 1])
  /\ UNCHANGED <<submitted, served, stage>>

Close ==
  /\ stage = "open"
  /\ stage' = "closing"
  /\ UNCHANGED <<submitted, served, completed>>

Retire ==
  /\ stage = "closing"
  /\ served = submitted
  /\ stage' = "retired"
  /\ UNCHANGED <<submitted, served, completed>>

Finish ==
  /\ stage = "retired"
  /\ completed = submitted
  /\ stage' = "finished"
  /\ UNCHANGED <<submitted, served, completed>>

WQNext ==
  \/ \E r \in Reqs : Submit(r)
  \/ Serve
  \/ Complete
  \/ Close
  \/ Retire
  \/ Finish

WQSpec == WQInit /\ [][WQNext]_wqvars
=============================================================================
