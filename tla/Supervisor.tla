----------------------------- MODULE Supervisor -----------------------------
(***************************************************************************)
(* flame::process and flame::worker (src/flame/process.cpp, worker.cpp):   *)
(* the master process starts process_count worker processes, restarts      *)
(* those that end prematurely, forwards SIGUSR2 and, on SIGTERM, sends     *)
(* SIGINT to all of them and stops.  The steps are the master's callbacks, *)
(* the life of each operating-system process, and the signals in between.  *)
(*                                                                         *)
(* Signals, as the code uses them: a signal is pending until it is         *)
(* delivered and does not count; without a handler SIGTERM, SIGINT and     *)
(* SIGUSR2 end the process; a process that was spawned has no handler      *)
(* until its own flame\init installs them; a signal to a process that has  *)
(* ended does nothing.  A handler runs in the loop of its process, so a    *)
(* signal for which there is one stays pending until flame\run.            *)
(***************************************************************************)
EXTENDS Naturals, FiniteSets

CONSTANTS Workers,   \* worker indices, 1 .. process_count
          MaxPid     \* bound: processes spawned in a behaviour

ASSUME WorkersAssumption == Workers \subseteq Nat \ {0}
ASSUME PidAssumption == MaxPid \in Nat

Pids == 1 .. MaxPid

VARIABLES
  master,   \* "boot": in flame\init; "hooked": SIGTERM handled, not yet
            \* SIGUSR2; "run"; "stopping": after uv_stop; "gone"; "killed"
  signals,  \* pending signals of the master
  fresh,    \* indices whose worker object has not been made yet
  workers,  \* workers_: the objects the master sends signals to
  pid,      \* per index: the pid in proc_, 0 before the first start
  timer,    \* per index: timer_ is running, to restart it
  owner,    \* per pid: the index it was spawned for, or 0
  proc,     \* per pid: "none", "boot", "hooked" (SIGINT handled, not yet
            \* SIGUSR2), "run", "stop" (uv_stop called), "dead" (a
            \* zombie), "reaped" (its exit_cb has been called)
  armed,    \* per pid: the oneshot SIGINT handler is still installed
  pending,  \* per pid: pending signals
  code,     \* per pid: how it ended, as exit_cb is told
  broken,   \* history: processes that ended by an uncaught exception
  termed    \* history: the master has handled SIGTERM

masterVars == <<master, signals, fresh, workers, pid, timer, termed>>
procVars   == <<owner, proc, armed, pending, code, broken>>
vars       == <<master, signals, fresh, workers, pid, timer, termed,
                owner, proc, armed, pending, code, broken>>

Live(p) == proc[p] \in {"boot", "hooked", "run", "stop"}
Final   == {"99", "INT"}      \* exit_cb: normal end, no restart

Init ==
  /\ master = "boot" /\ signals = {} /\ fresh = Workers /\ workers = {}
  /\ pid = [w \in Workers |-> 0] /\ timer = [w \in Workers |-> FALSE]
  /\ owner = [p \in Pids |-> 0] /\ proc = [p \in Pids |-> "none"]
  /\ armed = [p \in Pids |-> FALSE] /\ pending = [p \in Pids |-> {}]
  /\ code = [p \in Pids |-> "none"] /\ broken = {} /\ termed = FALSE

-----------------------------------------------------------------------------
(* worker::start: uv_spawn, then on_worker_start.                          *)

\* mutant: a started worker is not entered into workers_
Start_NotListed(w) ==
  \E p \in Pids :
    /\ \A q \in Pids : (q < p) <=> (proc[q] # "none")
    /\ proc' = [proc EXCEPT ![p] = "boot"]
    /\ owner' = [owner EXCEPT ![p] = w]
    /\ pid' = [pid EXCEPT ![w] = p]
    /\ UNCHANGED <<workers, armed, pending, code, broken>>

Start(w) ==
  \E p \in Pids :
    /\ \A q \in Pids : (q < p) <=> (proc[q] # "none")
    /\ proc' = [proc EXCEPT ![p] = "boot"]
    /\ owner' = [owner EXCEPT ![p] = w]
    /\ pid' = [pid EXCEPT ![w] = p]
    /\ workers' = workers \cup {w}
    /\ UNCHANGED <<armed, pending, code, broken>>

\* mutant: every worker is given the first index
StartWorker_SameIndex(w) ==
  /\ master = "boot" /\ w \in fresh /\ \A v \in fresh : w <= v
  /\ fresh' = fresh \ {w}
  /\ Start(CHOOSE u \in Workers : \A v \in Workers : u <= v)
  /\ UNCHANGED <<master, signals, timer, termed>>

(* The constructor of process: all workers first, the handlers after them. *)
StartWorker(w) ==
  /\ master = "boot"
  /\ w \in fresh /\ \A v \in fresh : w <= v
  /\ fresh' = fresh \ {w}
  /\ Start(w)
  /\ UNCHANGED <<master, signals, timer, termed>>

HookTerm ==
  /\ master = "boot" /\ fresh = {}
  /\ master' = "hooked"
  /\ UNCHANGED <<signals, fresh, workers, pid, timer, termed>> /\ UNCHANGED procVars

HookUsr2 ==
  /\ master = "hooked"
  /\ master' = "run"
  /\ UNCHANGED <<signals, fresh, workers, pid, timer, termed>> /\ UNCHANGED procVars

(* uv_spawn fails: start() aborts the master.                              *)
SpawnFails ==
  /\ \/ master = "boot" /\ fresh # {}
     \/ master = "run" /\ \E w \in Workers : timer[w]
  /\ master' = "killed"
  /\ UNCHANGED <<signals, fresh, workers, pid, timer, termed>> /\ UNCHANGED procVars

-----------------------------------------------------------------------------
(* The master's callbacks.                                                 *)

(* worker_kill(sig): every object in workers_, by the pid it has.          *)
WorkerKill(sig) ==
  pending' = [p \in Pids |->
                IF Live(p) /\ (\E w \in workers : pid[w] = p)
                THEN pending[p] \cup {sig} ELSE pending[p]]

\* mutant: the master does not leave its loop
MasterExitCb_NoStop ==
  /\ master = "run" /\ "TERM" \in signals
  /\ signals' = signals \ {"TERM"} /\ termed' = TRUE
  /\ WorkerKill("INT")
  /\ UNCHANGED <<master, fresh, workers, pid, timer, owner, proc, armed, code, broken>>

MasterExitCb ==
  /\ master = "run" /\ "TERM" \in signals
  /\ signals' = signals \ {"TERM"}
  /\ WorkerKill("INT")
  /\ master' = "stopping"
  /\ termed' = TRUE
  /\ UNCHANGED <<fresh, workers, pid, timer, owner, proc, armed, code, broken>>

MasterUsr2Cb ==
  /\ master \in {"run", "stopping"} /\ "USR2" \in signals
  /\ signals' = signals \ {"USR2"}
  /\ WorkerKill("USR2")
  /\ UNCHANGED <<master, fresh, workers, pid, timer, termed,
                 owner, proc, armed, code, broken>>

\* mutant: a worker ended by SIGINT is restarted
OnWorkerExit_Signal(w) ==
  /\ master \in {"run", "stopping"} /\ w \in workers
  /\ pid[w] # 0 /\ proc[pid[w]] = "dead"
  /\ proc' = [proc EXCEPT ![pid[w]] = "reaped"]
  /\ timer' = [timer EXCEPT ![w] = code[pid[w]] # "99"]
  /\ workers' = IF code[pid[w]] = "99" THEN workers \ {w} ELSE workers
  /\ UNCHANGED <<master, signals, fresh, pid, termed, owner, armed, pending, code, broken>>

\* mutant: no worker is restarted
OnWorkerExit_Never(w) ==
  /\ master \in {"run", "stopping"} /\ w \in workers
  /\ pid[w] # 0 /\ proc[pid[w]] = "dead"
  /\ proc' = [proc EXCEPT ![pid[w]] = "reaped"]
  /\ workers' = workers \ {w}
  /\ UNCHANGED <<master, signals, fresh, pid, timer, termed, owner, armed, pending, code, broken>>

(* Exit code 99 or death by SIGINT: the object is erased and deleted.  Any *)
(* other end starts its timer, and the object stays in workers_.           *)
OnWorkerExit(w) ==
  /\ master \in {"run", "stopping"}
  /\ w \in workers /\ pid[w] # 0
  /\ proc[pid[w]] = "dead"
  /\ proc' = [proc EXCEPT ![pid[w]] = "reaped"]
  /\ \/ /\ code[pid[w]] \in Final
        /\ workers' = workers \ {w}
        /\ UNCHANGED timer
     \/ /\ code[pid[w]] \notin Final
        /\ timer' = [timer EXCEPT ![w] = TRUE]
        /\ UNCHANGED workers
  /\ UNCHANGED <<master, signals, fresh, pid, termed, owner, armed, pending, code, broken>>

(* Timers run at the start of an iteration, so not after uv_stop.          *)
OnWorkerRestart(w) ==
  /\ master = "run"
  /\ timer[w]
  /\ timer' = [timer EXCEPT ![w] = FALSE]
  /\ Start(w)
  /\ UNCHANGED <<master, signals, fresh, termed>>

(* uv_run returns and with it run() and the master's script: after uv_stop *)
(* of master_exit_cb, when nothing is left in the loop, or after uv_stop   *)
(* of close_cb, when a coroutine that the master itself runs ends by an    *)
(* uncaught exception; in that last phase of an iteration no more of the   *)
(* callbacks above is called.                                              *)
MasterEnds ==
  /\ master \in {"run", "stopping"}
  /\ master' = "gone"
  /\ UNCHANGED <<signals, fresh, workers, pid, timer, termed>> /\ UNCHANGED procVars

-----------------------------------------------------------------------------
(* The operating system: signals to the master, and its default actions.   *)

Signal(sig) ==
  /\ master \notin {"gone", "killed"}
  /\ sig \notin signals
  /\ signals' = signals \cup {sig}
  /\ UNCHANGED <<master, fresh, workers, pid, timer, termed>> /\ UNCHANGED procVars

\* no handler yet, or no longer: the SIGTERM handler is a oneshot
MasterKilled ==
  /\ \/ master = "boot" /\ signals # {}
     \/ master = "hooked" /\ "USR2" \in signals
     \/ master = "stopping" /\ "TERM" \in signals
  /\ master' = "killed"
  /\ UNCHANGED <<signals, fresh, workers, pid, timer, termed>> /\ UNCHANGED procVars

(* A worker process.                                                       *)
Dies(p, how) ==
  /\ proc' = [proc EXCEPT ![p] = "dead"]
  /\ code' = [code EXCEPT ![p] = how]
  /\ pending' = [pending EXCEPT ![p] = {}]

\* flame\init of the worker: process::process handles SIGINT
WorkerBoots(p) ==
  /\ proc[p] = "boot"
  /\ proc' = [proc EXCEPT ![p] = "hooked"]
  /\ armed' = [armed EXCEPT ![p] = TRUE]
  /\ UNCHANGED masterVars /\ UNCHANGED <<owner, pending, code, broken>>

\* and after it the constructor of the default logger handles SIGUSR2
WorkerLogs(p) ==
  /\ proc[p] = "hooked"
  /\ proc' = [proc EXCEPT ![p] = "run"]
  /\ UNCHANGED masterVars /\ UNCHANGED <<owner, armed, pending, code, broken>>

\* its coroutines have ended, or close_cb of one found an uncaught exception
WorkerLoopEnds(p) ==
  /\ proc[p] = "run"
  /\ proc' = [proc EXCEPT ![p] = "stop"]
  /\ broken' \in {broken, broken \cup {p}}
  /\ UNCHANGED masterVars /\ UNCHANGED <<owner, armed, pending, code>>

\* process::run: exit(99)
WorkerExits(p) ==
  /\ proc[p] = "stop"
  /\ Dies(p, "99")
  /\ UNCHANGED masterVars /\ UNCHANGED <<owner, armed, broken>>

\* a fatal PHP error, abort(), a signal from elsewhere
WorkerCrashes(p) ==
  /\ Live(p)
  /\ Dies(p, "other")
  /\ UNCHANGED masterVars /\ UNCHANGED <<owner, armed, broken>>

\* mutant: worker_exit_cb does not leave the loop
WorkerGetsInt_Ignored(p) ==
  /\ proc[p] \in {"run", "stop"} /\ armed[p] /\ "INT" \in pending[p]
  /\ armed' = [armed EXCEPT ![p] = FALSE]
  /\ pending' = [pending EXCEPT ![p] = @ \ {"INT"}]
  /\ UNCHANGED masterVars /\ UNCHANGED <<owner, proc, code, broken>>

\* worker_exit_cb once, after that (or before flame\init) SIGINT kills
WorkerGetsInt(p) ==
  /\ Live(p) /\ "INT" \in pending[p]
  /\ \/ /\ armed[p] /\ proc[p] # "hooked"
        /\ armed' = [armed EXCEPT ![p] = FALSE]
        /\ proc' = [proc EXCEPT ![p] = "stop"]
        /\ pending' = [pending EXCEPT ![p] = @ \ {"INT"}]
        /\ UNCHANGED code
     \/ /\ ~armed[p]
        /\ Dies(p, "INT")
        /\ UNCHANGED armed
  /\ UNCHANGED masterVars /\ UNCHANGED <<owner, broken>>

\* the logger reopens its file; before there is one SIGUSR2 kills
WorkerGetsUsr2(p) ==
  /\ Live(p) /\ "USR2" \in pending[p]
  /\ \/ /\ proc[p] \notin {"boot", "hooked"}
        /\ pending' = [pending EXCEPT ![p] = @ \ {"USR2"}]
        /\ UNCHANGED <<proc, code>>
     \/ /\ proc[p] \in {"boot", "hooked"}
        /\ Dies(p, "other")
  /\ UNCHANGED masterVars /\ UNCHANGED <<owner, armed, broken>>

-----------------------------------------------------------------------------
Settled == /\ master \in {"gone", "killed"}
           /\ \A p \in Pids : ~Live(p)
           /\ UNCHANGED vars

Next ==
  \/ \E w \in Workers : StartWorker(w) \/ OnWorkerExit(w) \/ OnWorkerRestart(w)
  \/ HookTerm \/ HookUsr2 \/ SpawnFails
  \/ MasterExitCb \/ MasterUsr2Cb \/ MasterEnds
  \/ \E sig \in {"TERM", "USR2"} : Signal(sig)
  \/ MasterKilled
  \/ \E p \in Pids :
       \/ WorkerBoots(p) \/ WorkerLogs(p)
       \/ WorkerLoopEnds(p) \/ WorkerExits(p) \/ WorkerCrashes(p)
       \/ WorkerGetsInt(p) \/ WorkerGetsUsr2(p)
  \/ Settled

Spec == Init /\ [][Next]_vars

(* The master runs its constructor and its loop, the restart timer fires,  *)
(* flame\init of a worker goes on from its first handler to its loop, a    *)
(* worker that was sent SIGINT gets it, one that called uv_stop exits.     *)
FairSpec ==
  /\ Spec
  /\ WF_vars(HookTerm) /\ WF_vars(HookUsr2) /\ WF_vars(MasterExitCb)
  /\ \A w \in Workers : /\ WF_vars(StartWorker(w))
                        /\ WF_vars(OnWorkerExit(w))
                        /\ WF_vars(OnWorkerRestart(w))
  /\ \A p \in Pids : /\ WF_vars(WorkerLogs(p))
                      /\ WF_vars(WorkerGetsInt(p))
                      /\ WF_vars(WorkerExits(p))

-----------------------------------------------------------------------------
(* Properties.                                                             *)

TypeOK ==
  /\ master \in {"boot", "hooked", "run", "stopping", "gone", "killed"}
  /\ signals \subseteq {"TERM", "USR2"}
  /\ fresh \subseteq Workers /\ workers \subseteq Workers
  /\ pid \in [Workers -> 0 .. MaxPid] /\ timer \in [Workers -> BOOLEAN]
  /\ owner \in [Pids -> Workers \cup {0}]
  /\ proc \in [Pids -> {"none", "boot", "hooked", "run", "stop", "dead", "reaped"}]
  /\ armed \in [Pids -> BOOLEAN]
  /\ pending \in [Pids -> SUBSET {"INT", "USR2"}]
  /\ code \in [Pids -> {"none", "99", "INT", "other"}]
  /\ broken \subseteq Pids /\ termed \in BOOLEAN

(* An index never has two processes at a time, however exits, restarts and *)
(* signals interleave: a new one is started only when the old was reaped.  *)
OneProcessPerWorker ==
  \A p, q \in Pids :
    (owner[p] = owner[q] /\ owner[p] \in Workers /\ p # q) =>
      proc[p] = "reaped" \/ proc[q] = "reaped"

(* process.cpp line 63: after a normal end there is no restart.            *)
NormalEndIsFinal ==
  \A p \in Pids : (proc[p] = "reaped" /\ code[p] \in Final) =>
    /\ ~timer[owner[p]] /\ owner[p] \notin workers
    /\ pid[owner[p]] = p

(* SIGTERM reaches everybody: when the master has handled it, no process   *)
(* of any worker goes on unasked, those just restarted or still in         *)
(* flame\init included.                                                    *)
NobodyForgotten ==
  termed => \A p \in Pids : Live(p) => "INT" \in pending[p] \/ proc[p] = "stop"

(* The master implements Supervision; once it handled SIGTERM it starts    *)
(* no process any more.                                                    *)
Slot(w) ==
  IF pid[w] = 0 THEN "off"
  ELSE IF proc[pid[w]] # "reaped" THEN "up"
  ELSE IF code[pid[w]] \in Final THEN "retired" ELSE "down"

SV == INSTANCE Supervision WITH slot <- [w \in Workers |-> Slot(w)], open <- ~termed

ImplementsSupervision == SV!SSpec

(* After SIGTERM was handled, every worker process ends.                   *)
ShutdownCompletes == termed ~> (\A p \in Pids : ~Live(p))

(* A worker that ended prematurely runs again, unless the master ends or   *)
(* the bound on processes is used up.                                      *)
CrashedComesBack ==
  \A w \in Workers, n \in Pids :
    (owner[n] = w /\ proc[n] = "reaped" /\ code[n] = "other") ~>
      (\/ \E p \in Pids : p > n /\ owner[p] = w
       \/ master # "run"
       \/ proc[MaxPid] # "none")

(* process.cpp line 60: an exception ends the process before this line, so *)
(* a worker that ends with 99 and is not restarted has ended normally.     *)
OnlyNormalEndIsFinal ==
  \A p \in Pids : (proc[p] = "reaped" /\ code[p] = "99") => p \notin broken

-----------------------------------------------------------------------------
(* The inductive invariant behind the safety properties.                   *)

\* who belongs to whom, and who has ended
OwnerInv ==
  /\ \A p \in Pids : proc[p] = "none" <=> owner[p] = 0
  /\ \A w \in Workers : pid[w] # 0 => owner[pid[w]] = w
  /\ \A p \in Pids : (owner[p] # 0 /\ proc[p] # "reaped") => pid[owner[p]] = p
  /\ \A p \in Pids : code[p] # "none" <=> proc[p] \in {"dead", "reaped"}

\* what the master has done so far
MasterInv ==
  /\ \A w \in Workers : w \in fresh <=> pid[w] = 0
  /\ fresh # {} => master \in {"boot", "killed"}
  /\ termed => master \in {"stopping", "gone", "killed"}

\* what became of those that ended
EndInv ==
  /\ \A w \in Workers : timer[w] =>
       pid[w] # 0 /\ proc[pid[w]] = "reaped" /\ code[pid[w]] \notin Final
  /\ \A w \in Workers : w \in workers <=>
       pid[w] # 0 /\ ~(proc[pid[w]] = "reaped" /\ code[pid[w]] \in Final)
  /\ \A p \in Pids : (proc[p] = "reaped" /\ code[p] \in Final) => pid[owner[p]] = p

IInv == TypeOK /\ OwnerInv /\ MasterInv /\ EndInv /\ NobodyForgotten
=============================================================================
