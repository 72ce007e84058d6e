-------------------------- MODULE SupervisorProofs --------------------------
(***************************************************************************)
(* Proofs about Supervisor, for every set of indices and every bound on    *)
(* processes.  The steps of the worker processes are first summarised in   *)
(* one formula, WorkerStep; IInv is then preserved by it and by each of    *)
(* the master's callbacks.                                                 *)
(***************************************************************************)
EXTENDS Supervisor, TLAPS

(* A step of process p, as far as the master can see it. *)
WorkerStep(p) ==
  /\ Live(p)
  /\ UNCHANGED masterVars /\ UNCHANGED owner
  /\ \A q \in Pids \ {p} :
       proc'[q] = proc[q] /\ code'[q] = code[q] /\ pending'[q] = pending[q]
  /\ \/ /\ proc'[p] \in {"boot", "hooked", "run", "stop"}
        /\ code'[p] = code[p]
        /\ "INT" \in pending[p] => "INT" \in pending'[p] \/ proc'[p] = "stop"
        /\ proc[p] = "stop" => proc'[p] = "stop"
     \/ /\ proc'[p] = "dead"
        /\ code'[p] \in {"99", "INT", "other"}

LEMMA DiesIsWorkerStep ==
  ASSUME TypeOK, NEW p \in Pids, NEW how \in {"99", "INT", "other"}, Live(p), Dies(p, how),
         UNCHANGED masterVars, UNCHANGED owner, UNCHANGED armed, UNCHANGED broken
  PROVE  WorkerStep(p) /\ TypeOK'
  BY DEF TypeOK, Dies, WorkerStep, masterVars

LEMMA WorkerActions ==
  ASSUME TypeOK, NEW p \in Pids,
         \/ WorkerBoots(p) \/ WorkerLogs(p) \/ WorkerLoopEnds(p)
         \/ WorkerExits(p) \/ WorkerCrashes(p) \/ WorkerGetsInt(p) \/ WorkerGetsUsr2(p)
  PROVE  WorkerStep(p) /\ TypeOK'
<1>1. CASE WorkerBoots(p)
  BY <1>1 DEF WorkerBoots, WorkerStep, TypeOK, masterVars, Live
<1>7. CASE WorkerLogs(p)
  BY <1>7 DEF WorkerLogs, WorkerStep, TypeOK, masterVars, Live
<1>2. CASE WorkerLoopEnds(p)
  BY <1>2 DEF WorkerLoopEnds, WorkerStep, TypeOK, masterVars, Live
<1>3. CASE WorkerExits(p)
  BY <1>3, DiesIsWorkerStep DEF WorkerExits, Live
<1>4. CASE WorkerCrashes(p)
  BY <1>4, DiesIsWorkerStep DEF WorkerCrashes
<1>5. CASE WorkerGetsInt(p)
  <2>1. CASE armed[p] /\ proc[p] # "hooked"
    <3>1. /\ armed' = [armed EXCEPT ![p] = FALSE]
          /\ proc' = [proc EXCEPT ![p] = "stop"]
          /\ pending' = [pending EXCEPT ![p] = @ \ {"INT"}]
          /\ Live(p) /\ UNCHANGED code /\ UNCHANGED masterVars
          /\ UNCHANGED <<owner, broken>>
      BY <1>5, <2>1 DEF WorkerGetsInt
    <3>2. WorkerStep(p)
      BY <3>1 DEF WorkerStep, TypeOK
    <3>3. TypeOK'
      BY <3>1 DEF TypeOK, masterVars
    <3> QED
      BY <3>2, <3>3
  <2>2. CASE ~armed[p]
    BY <1>5, <2>2, DiesIsWorkerStep DEF WorkerGetsInt
  <2> QED
    BY <1>5, <2>1, <2>2 DEF WorkerGetsInt
<1>6. CASE WorkerGetsUsr2(p)
  <2>1. CASE proc[p] \notin {"boot", "hooked"}
    BY <1>6, <2>1 DEF WorkerGetsUsr2, WorkerStep, TypeOK, masterVars, Live
  <2>2. CASE proc[p] \in {"boot", "hooked"}
    BY <1>6, <2>2, DiesIsWorkerStep DEF WorkerGetsUsr2
  <2> QED
    BY <2>1, <2>2
<1> QED
  BY <1>1, <1>2, <1>3, <1>4, <1>5, <1>6, <1>7

LEMMA WorkerStepInv ==
  ASSUME IInv, NEW p \in Pids, WorkerStep(p), TypeOK'
  PROVE  IInv'
<1>1. OwnerInv'
  BY DEF IInv, OwnerInv, WorkerStep, masterVars, Live, TypeOK
<1>2. MasterInv'
  BY DEF IInv, MasterInv, WorkerStep, masterVars
<1>3. EndInv'
  <2>1. /\ \A q \in Pids : proc'[q] = "reaped" <=> proc[q] = "reaped"
        /\ \A q \in Pids : proc[q] = "reaped" => code'[q] = code[q]
        /\ pid' = pid /\ timer' = timer /\ workers' = workers /\ owner' = owner
    BY DEF WorkerStep, masterVars, Live
  <2>2. \A w \in Workers : pid[w] # 0 => pid[w] \in Pids
    BY PidAssumption DEF IInv, TypeOK, Pids
  <2> QED
    BY <2>1, <2>2 DEF IInv, EndInv
<1>4. NobodyForgotten'
  BY DEF IInv, NobodyForgotten, WorkerStep, masterVars, Live, TypeOK
<1> QED
  BY <1>1, <1>2, <1>3, <1>4 DEF IInv

-----------------------------------------------------------------------------
(* Steps in which only the master's place and its signals change.          *)
Quiet ==
  /\ UNCHANGED <<fresh, workers, pid, timer, termed>> /\ UNCHANGED procVars
  /\ fresh # {} => master' \in {master, "killed"}
  /\ termed => master' \in {master, "gone", "killed"}

LEMMA QuietInv ==
  ASSUME IInv, Quiet, TypeOK'
  PROVE  IInv'
  BY DEF IInv, Quiet, OwnerInv, MasterInv, EndInv, NobodyForgotten, procVars, Live

LEMMA QuietActions ==
  ASSUME IInv,
         \/ HookTerm \/ HookUsr2 \/ SpawnFails \/ MasterEnds \/ MasterKilled
         \/ \E sig \in {"TERM", "USR2"} : Signal(sig)
  PROVE  Quiet /\ TypeOK'
<1> USE DEF IInv, TypeOK, MasterInv, Quiet, procVars
<1>1. CASE HookTerm
  BY <1>1 DEF HookTerm
<1>2. CASE HookUsr2
  BY <1>2 DEF HookUsr2
<1>3. CASE SpawnFails
  BY <1>3 DEF SpawnFails
<1>4. CASE MasterEnds
  BY <1>4 DEF MasterEnds
<1>5. CASE MasterKilled
  BY <1>5 DEF MasterKilled
<1>6. CASE \E sig \in {"TERM", "USR2"} : Signal(sig)
  BY <1>6 DEF Signal
<1> QED
  BY <1>1, <1>2, <1>3, <1>4, <1>5, <1>6

-----------------------------------------------------------------------------
(* The master sends a signal to everyone it knows: that is everyone alive. *)
LEMMA KillReachesAll ==
  ASSUME IInv, NEW sig \in {"INT", "USR2"}, WorkerKill(sig)
  PROVE  /\ pending' \in [Pids -> SUBSET {"INT", "USR2"}]
         /\ \A p \in Pids : pending[p] \subseteq pending'[p]
         /\ \A p \in Pids : Live(p) => sig \in pending'[p]
<1>1. \A p \in Pids : Live(p) => \E w \in workers : pid[w] = p
  <2> SUFFICES ASSUME NEW p \in Pids, Live(p)
               PROVE  \E w \in workers : pid[w] = p
    OBVIOUS
  <2>1. owner[p] \in Workers /\ pid[owner[p]] = p
    BY DEF IInv, TypeOK, OwnerInv, Live
  <2>2. p # 0
    BY PidAssumption DEF Pids
  <2>3. owner[p] \in workers
    BY <2>1, <2>2 DEF IInv, EndInv, Live
  <2> QED
    BY <2>1, <2>3
<1>2. \A p \in Pids : pending'[p] = IF Live(p) THEN pending[p] \cup {sig} ELSE pending[p]
  BY <1>1 DEF WorkerKill
<1>3. pending' \in [Pids -> SUBSET {"INT", "USR2"}]
  BY DEF WorkerKill, IInv, TypeOK
<1> QED
  BY <1>2, <1>3

LEMMA ExitCbInv ==
  ASSUME IInv, MasterExitCb
  PROVE  IInv'
<1>1. /\ pending' \in [Pids -> SUBSET {"INT", "USR2"}]
      /\ \A p \in Pids : Live(p) => "INT" \in pending'[p]
  BY KillReachesAll DEF MasterExitCb
<1>2. TypeOK'
  BY <1>1 DEF MasterExitCb, IInv, TypeOK
<1>3. OwnerInv' /\ EndInv'
  BY DEF MasterExitCb, IInv, OwnerInv, EndInv
<1>4. MasterInv'
  BY DEF MasterExitCb, IInv, MasterInv
<1>5. NobodyForgotten'
  BY <1>1 DEF MasterExitCb, NobodyForgotten, Live
<1> QED
  BY <1>2, <1>3, <1>4, <1>5 DEF IInv

LEMMA Usr2CbInv ==
  ASSUME IInv, MasterUsr2Cb
  PROVE  IInv'
<1>1. /\ pending' \in [Pids -> SUBSET {"INT", "USR2"}]
      /\ \A p \in Pids : pending[p] \subseteq pending'[p]
  BY KillReachesAll DEF MasterUsr2Cb
<1>2. TypeOK'
  BY <1>1 DEF MasterUsr2Cb, IInv, TypeOK
<1>3. OwnerInv' /\ EndInv'
  BY DEF MasterUsr2Cb, IInv, OwnerInv, EndInv
<1>4. MasterInv'
  BY DEF MasterUsr2Cb, IInv, MasterInv
<1>5. NobodyForgotten'
  BY <1>1 DEF MasterUsr2Cb, IInv, NobodyForgotten, Live
<1> QED
  BY <1>2, <1>3, <1>4, <1>5 DEF IInv

-----------------------------------------------------------------------------
(* uv_spawn: p is a process that has not been, w an index without one.     *)
Spawned(w, p) ==
  /\ proc[p] = "none"
  /\ proc' = [proc EXCEPT ![p] = "boot"]
  /\ owner' = [owner EXCEPT ![p] = w]
  /\ pid' = [pid EXCEPT ![w] = p]
  /\ workers' = workers \cup {w}
  /\ UNCHANGED <<armed, pending, code, broken>>

LEMMA StartSpawns ==
  ASSUME NEW w \in Workers, Start(w)
  PROVE  \E p \in Pids : Spawned(w, p)
<1>1. PICK p \in Pids :
        /\ \A q \in Pids : (q < p) <=> (proc[q] # "none")
        /\ proc' = [proc EXCEPT ![p] = "boot"]
        /\ owner' = [owner EXCEPT ![p] = w]
        /\ pid' = [pid EXCEPT ![w] = p]
        /\ workers' = workers \cup {w}
        /\ UNCHANGED <<armed, pending, code, broken>>
  BY DEF Start
<1>2. ~(p < p)
  BY DEF Pids
<1> QED
  BY <1>1, <1>2 DEF Spawned

(* A new process keeps the invariant when its index has none: either never *)
(* started or waiting to be restarted.                                     *)
LEMMA SpawnInv ==
  ASSUME IInv, NEW w \in Workers, NEW p \in Pids, Spawned(w, p),
         UNCHANGED signals, UNCHANGED master, UNCHANGED termed, master \in {"boot", "run"},
         \/ pid[w] = 0 /\ fresh' = fresh \ {w} /\ UNCHANGED timer /\ master = "boot"
         \/ timer[w] /\ timer' = [timer EXCEPT ![w] = FALSE] /\ UNCHANGED fresh
  PROVE  IInv'
<1>a. TypeOK /\ OwnerInv /\ MasterInv /\ EndInv
  BY DEF IInv
<1>b. ~termed
  BY <1>a DEF MasterInv
<1>c. w # 0 /\ p # 0 /\ p \in Nat /\ p \in 0 .. MaxPid
  BY WorkersAssumption, PidAssumption DEF Pids
<1>0. /\ TypeOK /\ OwnerInv /\ MasterInv /\ EndInv /\ ~termed
      /\ w # 0 /\ p # 0 /\ p \in Nat /\ p \in 0 .. MaxPid
  BY <1>a, <1>b, <1>c
<1>1. TypeOK'
  <2>1. fresh' \subseteq Workers /\ workers' \subseteq Workers
    BY <1>0 DEF Spawned, TypeOK
  <2>2. pid' \in [Workers -> 0 .. MaxPid] /\ timer' \in [Workers -> BOOLEAN]
    BY <1>0 DEF Spawned, TypeOK
  <2>3. owner' \in [Pids -> Workers \cup {0}]
    BY <1>0 DEF Spawned, TypeOK
  <2>4. proc' \in [Pids -> {"none", "boot", "hooked", "run", "stop", "dead", "reaped"}]
    BY <1>0 DEF Spawned, TypeOK
  <2>5. /\ master' = master /\ signals' = signals /\ termed' = termed
        /\ armed' = armed /\ pending' = pending /\ code' = code /\ broken' = broken
    BY DEF Spawned
  <2> QED
    BY <1>0, <2>1, <2>2, <2>3, <2>4, <2>5, Zenon DEF TypeOK
<1>2. \A v \in Workers : pid[v] # p
  <2> SUFFICES ASSUME NEW v \in Workers, pid[v] = p PROVE FALSE
    OBVIOUS
  <2>1. owner[p] = v
    BY <1>0 DEF OwnerInv
  <2>2. owner[p] = 0
    BY <1>0 DEF OwnerInv, Spawned
  <2> QED
    BY <2>1, <2>2, WorkersAssumption
<1>3. \A q \in Pids : (owner[q] = w /\ q # p) => proc[q] = "reaped"
  <2> SUFFICES ASSUME NEW q \in Pids, owner[q] = w, proc[q] # "reaped" PROVE FALSE
    OBVIOUS
  <2>1. pid[w] = q /\ q # 0
    BY <1>0 DEF OwnerInv, Pids
  <2>2. timer[w]
    BY <2>1
  <2> QED
    BY <1>0, <2>1, <2>2 DEF EndInv
<1>4. OwnerInv'
  <2>1. \A q \in Pids : proc'[q] = "none" <=> owner'[q] = 0
    BY <1>0 DEF OwnerInv, Spawned, TypeOK
  <2>2. \A v \in Workers : pid'[v] # 0 => owner'[pid'[v]] = v
    BY <1>0, <1>2 DEF OwnerInv, Spawned, TypeOK
  <2>3. \A q \in Pids : (owner'[q] # 0 /\ proc'[q] # "reaped") => pid'[owner'[q]] = q
    BY <1>0, <1>3 DEF OwnerInv, Spawned, TypeOK
  <2>4. \A q \in Pids : code'[q] # "none" <=> proc'[q] \in {"dead", "reaped"}
    BY <1>0 DEF OwnerInv, Spawned, TypeOK
  <2> QED
    BY <2>1, <2>2, <2>3, <2>4 DEF OwnerInv
<1>5. MasterInv'
  BY <1>0 DEF MasterInv, EndInv, Spawned, TypeOK
<1>6. EndInv'
  <2>1. \A v \in Workers : timer'[v] =>
          pid'[v] # 0 /\ proc'[pid'[v]] = "reaped" /\ code'[pid'[v]] \notin Final
    <3> SUFFICES ASSUME NEW v \in Workers, timer'[v]
                 PROVE  pid'[v] # 0 /\ proc'[pid'[v]] = "reaped" /\ code'[pid'[v]] \notin Final
      OBVIOUS
    <3>1. timer[v] /\ v # w
      BY <1>0 DEF EndInv, TypeOK
    <3>2. pid'[v] = pid[v] /\ pid[v] # p /\ pid[v] # 0 /\ pid[v] \in Pids
      BY <1>0, <1>2, <3>1 DEF Spawned, TypeOK, EndInv, Pids
    <3> QED
      BY <1>0, <3>1, <3>2 DEF Spawned, TypeOK, EndInv
  <2>2. \A v \in Workers : v \in workers' <=>
          pid'[v] # 0 /\ ~(proc'[pid'[v]] = "reaped" /\ code'[pid'[v]] \in Final)
    <3> SUFFICES ASSUME NEW v \in Workers
                 PROVE  v \in workers' <=>
                          pid'[v] # 0 /\ ~(proc'[pid'[v]] = "reaped" /\ code'[pid'[v]] \in Final)
      OBVIOUS
    <3>1. CASE v = w
      BY <1>0, <3>1 DEF Spawned, TypeOK
    <3>2. CASE v # w
      <4>1. pid'[v] = pid[v] /\ pid[v] # p /\ (pid[v] # 0 => pid[v] \in Pids)
        BY <1>0, <1>2, <3>2 DEF Spawned, TypeOK, Pids
      <4>2. pid[v] # 0 => proc'[pid[v]] = proc[pid[v]] /\ code'[pid[v]] = code[pid[v]]
        BY <1>0, <4>1 DEF Spawned, TypeOK
      <4>3. v \in workers' <=> v \in workers
        BY <3>2 DEF Spawned
      <4> QED
        BY <1>0, <4>1, <4>2, <4>3 DEF EndInv
    <3> QED
      BY <3>1, <3>2
  <2>3. \A q \in Pids : (proc'[q] = "reaped" /\ code'[q] \in Final) => pid'[owner'[q]] = q
    <3> SUFFICES ASSUME NEW q \in Pids, proc'[q] = "reaped", code'[q] \in Final
                 PROVE  pid'[owner'[q]] = q
      OBVIOUS
    <3>1. q # p /\ proc[q] = "reaped" /\ code[q] \in Final /\ owner'[q] = owner[q]
      BY <1>0 DEF Spawned, TypeOK
    <3>2. pid[owner[q]] = q /\ owner[q] \in Workers
      BY <1>0, <3>1 DEF EndInv, OwnerInv, TypeOK
    <3>3. owner[q] # w
      BY <1>0, <3>1, <3>2 DEF EndInv, Pids
    <3> QED
      BY <1>0, <3>1, <3>2, <3>3 DEF Spawned, TypeOK
  <2> QED
    BY <2>1, <2>2, <2>3 DEF EndInv
<1>7. NobodyForgotten'
  BY <1>0 DEF NobodyForgotten
<1> QED
  BY <1>1, <1>4, <1>5, <1>6, <1>7 DEF IInv

LEMMA StartActions ==
  ASSUME IInv, NEW w \in Workers, StartWorker(w) \/ OnWorkerRestart(w)
  PROVE  IInv'
<1>1. CASE StartWorker(w)
  <2>1. PICK p \in Pids : Spawned(w, p)
    BY <1>1, StartSpawns DEF StartWorker
  <2>2. pid[w] = 0
    BY <1>1 DEF StartWorker, IInv, MasterInv
  <2> QED
    BY <1>1, <2>1, <2>2, SpawnInv DEF StartWorker
<1>2. CASE OnWorkerRestart(w)
  <2>1. PICK p \in Pids : Spawned(w, p)
    BY <1>2, StartSpawns DEF OnWorkerRestart
  <2> QED
    BY <1>2, <2>1, SpawnInv DEF OnWorkerRestart
<1> QED
  BY <1>1, <1>2

(* exit_cb: the process was alive to the master until now. *)
LEMMA ExitedInv ==
  ASSUME IInv, NEW w \in Workers, OnWorkerExit(w)
  PROVE  IInv'
<1> DEFINE p == pid[w]
<1>0. /\ TypeOK /\ OwnerInv /\ MasterInv /\ EndInv
      /\ p \in Pids /\ p # 0 /\ proc[p] = "dead" /\ owner[p] = w /\ code[p] # "none"
      /\ \A v \in Workers : pid[v] = p => v = w
  BY DEF OnWorkerExit, IInv, TypeOK, OwnerInv, Pids
<1>1. /\ proc' = [proc EXCEPT ![p] = "reaped"]
      /\ UNCHANGED <<master, signals, fresh, pid, termed, owner, armed, pending, code, broken>>
      /\ \/ code[p] \in Final /\ workers' = workers \ {w} /\ timer' = timer
         \/ code[p] \notin Final /\ timer' = [timer EXCEPT ![w] = TRUE] /\ workers' = workers
  BY DEF OnWorkerExit
<1> HIDE DEF p
<1>2. TypeOK'
  BY <1>0, <1>1 DEF TypeOK
<1>3. OwnerInv'
  BY <1>0, <1>1 DEF OwnerInv, TypeOK
<1>4. MasterInv'
  BY <1>0, <1>1 DEF MasterInv
<1>5. EndInv'
  <2>1. p = pid[w]
    BY DEF p
  <2>2. ~timer[w]
    BY <1>0, <2>1 DEF EndInv
  <2>3. \A v \in Workers \ {w} : /\ timer'[v] = timer[v] /\ (v \in workers' <=> v \in workers)
                                /\ pid[v] # 0 => pid[v] \in Pids \ {p}
    BY <1>0, <1>1 DEF TypeOK, Pids
  <2>4. \A q \in Pids \ {p} : proc'[q] = proc[q]
    BY <1>0, <1>1 DEF TypeOK
  <2>5. proc'[p] = "reaped"
    BY <1>0, <1>1 DEF TypeOK
  <2>6. \A v \in Workers : timer'[v] =>
          pid'[v] # 0 /\ proc'[pid'[v]] = "reaped" /\ code'[pid'[v]] \notin Final
    BY <1>0, <1>1, <2>1, <2>2, <2>3, <2>4, <2>5 DEF EndInv, TypeOK
  <2>7. \A v \in Workers : v \in workers' <=>
          pid'[v] # 0 /\ ~(proc'[pid'[v]] = "reaped" /\ code'[pid'[v]] \in Final)
    BY <1>0, <1>1, <2>1, <2>3, <2>4, <2>5 DEF EndInv
  <2>8. \A q \in Pids : (proc'[q] = "reaped" /\ code'[q] \in Final) => pid'[owner'[q]] = q
    BY <1>0, <1>1, <2>1, <2>4 DEF EndInv
  <2> QED
    BY <2>6, <2>7, <2>8 DEF EndInv
<1>6. NobodyForgotten'
  BY <1>0, <1>1 DEF IInv, NobodyForgotten, Live, TypeOK
<1> QED
  BY <1>2, <1>3, <1>4, <1>5, <1>6 DEF IInv

-----------------------------------------------------------------------------
LEMMA InitInv == Init => IInv
<1> SUFFICES ASSUME Init PROVE IInv
  OBVIOUS
<1>1. TypeOK
  <2>1. pid \in [Workers -> 0 .. MaxPid] /\ timer \in [Workers -> BOOLEAN]
    BY PidAssumption DEF Init
  <2>2. /\ owner \in [Pids -> Workers \cup {0}]
        /\ proc \in [Pids -> {"none", "boot", "hooked", "run", "stop", "dead", "reaped"}]
        /\ armed \in [Pids -> BOOLEAN]
    BY DEF Init
  <2>3. /\ pending \in [Pids -> SUBSET {"INT", "USR2"}]
        /\ code \in [Pids -> {"none", "99", "INT", "other"}]
    BY DEF Init
  <2>4. /\ master = "boot" /\ signals = {} /\ fresh = Workers /\ workers = {}
        /\ broken = {} /\ termed = FALSE
    BY DEF Init
  <2> QED
    BY <2>1, <2>2, <2>3, <2>4 DEF TypeOK
<1>2. OwnerInv
  BY DEF Init, OwnerInv
<1>3. MasterInv
  BY DEF Init, MasterInv
<1>4. EndInv
  BY DEF Init, EndInv
<1>5. NobodyForgotten
  BY DEF Init, NobodyForgotten
<1> QED
  BY <1>1, <1>2, <1>3, <1>4, <1>5 DEF IInv

LEMMA StepInv == IInv /\ [Next]_vars => IInv'
<1> SUFFICES ASSUME IInv, [Next]_vars PROVE IInv'
  OBVIOUS
<1>1. ASSUME NEW w \in Workers, StartWorker(w) \/ OnWorkerRestart(w) PROVE IInv'
  BY <1>1, StartActions
<1>2. ASSUME NEW w \in Workers, OnWorkerExit(w) PROVE IInv'
  BY <1>2, ExitedInv
<1>3. CASE \/ HookTerm \/ HookUsr2 \/ SpawnFails \/ MasterEnds \/ MasterKilled
           \/ \E sig \in {"TERM", "USR2"} : Signal(sig)
  BY <1>3, QuietActions, QuietInv
<1>4. CASE MasterExitCb
  BY <1>4, ExitCbInv
<1>5. CASE MasterUsr2Cb
  BY <1>5, Usr2CbInv
<1>6. ASSUME NEW p \in Pids,
             \/ WorkerBoots(p) \/ WorkerLogs(p) \/ WorkerLoopEnds(p)
             \/ WorkerExits(p) \/ WorkerCrashes(p) \/ WorkerGetsInt(p) \/ WorkerGetsUsr2(p)
      PROVE  IInv'
  BY <1>6, WorkerActions, WorkerStepInv DEF IInv
<1>7. CASE UNCHANGED vars
  BY <1>7 DEF vars, IInv, TypeOK, OwnerInv, MasterInv, EndInv, NobodyForgotten, Live
<1> QED
  BY <1>1, <1>2, <1>3, <1>4, <1>5, <1>6, <1>7 DEF Next, Settled

(* The inductive invariant holds throughout. *)
THEOREM Invariance == Spec => []IInv
  BY InitInv, StepInv, PTL DEF Spec

(* The state has its type, for any number of workers and processes. *)
THEOREM TypeCorrect == Spec => []TypeOK
<1>1. IInv => TypeOK
  BY DEF IInv
<1> QED
  BY <1>1, Invariance, PTL

(* on_worker_restart never starts a second process for an index that has   *)
(* one.                                                                    *)
THEOREM OnePerIndex == Spec => []OneProcessPerWorker
<1>1. IInv => OneProcessPerWorker
  BY WorkersAssumption DEF IInv, OwnerInv, OneProcessPerWorker
<1> QED
  BY <1>1, Invariance, PTL

(* Exit code 99 and death by SIGINT are final, whatever comes after.       *)
THEOREM NormalEnd == Spec => []NormalEndIsFinal
<1>1. IInv => NormalEndIsFinal
  <2> SUFFICES ASSUME IInv, NEW p \in Pids, proc[p] = "reaped", code[p] \in Final
               PROVE  ~timer[owner[p]] /\ owner[p] \notin workers /\ pid[owner[p]] = p
    BY DEF NormalEndIsFinal
  <2>1. pid[owner[p]] = p /\ owner[p] \in Workers
    BY DEF IInv, EndInv, OwnerInv, TypeOK
  <2> QED
    BY <2>1 DEF IInv, EndInv
<1> QED
  BY <1>1, Invariance, PTL

(* master_exit_cb reaches every process that is up.                        *)
THEOREM ShutdownReachesAll == Spec => []NobodyForgotten
<1>1. IInv => NobodyForgotten
  BY DEF IInv
<1> QED
  BY <1>1, Invariance, PTL

-----------------------------------------------------------------------------
(* The refinement: what a step does to the slots.                          *)
slots == [w \in Workers |-> Slot(w)]

LEMMA SameSlots ==
  ASSUME IInv, pid' = pid,
         \A p \in Pids : proc'[p] = "reaped" <=> proc[p] = "reaped",
         \A p \in Pids : proc[p] = "reaped" => code'[p] = code[p]
  PROVE  slots' = slots
<1>1. ASSUME NEW w \in Workers PROVE Slot(w)' = Slot(w)
  <2>1. pid[w] # 0 => pid[w] \in Pids
    BY PidAssumption DEF IInv, TypeOK, Pids
  <2> QED
    BY <2>1 DEF Slot
<1> QED
  BY <1>1 DEF slots

(* A new process takes an index from "off" or "down" to "up".              *)
LEMMA SpawnSlots ==
  ASSUME IInv, NEW w \in Workers, NEW p \in Pids, Spawned(w, p), UNCHANGED termed,
         master \in {"boot", "run"}, pid[w] = 0 \/ timer[w]
  PROVE  SV!Start(w)
<1>1. ~termed /\ p # 0
  BY PidAssumption DEF IInv, MasterInv, Pids
<1>2. slots[w] \in {"off", "down"}
  BY DEF slots, Slot, IInv, EndInv
<1>3. Slot(w)' = "up"
  BY <1>1 DEF Slot, Spawned, IInv, TypeOK
<1>4. ASSUME NEW v \in Workers \ {w} PROVE Slot(v)' = Slot(v)
  <2>1. pid'[v] = pid[v] /\ (pid[v] # 0 => pid[v] \in Pids)
    BY PidAssumption DEF Spawned, IInv, TypeOK, Pids
  <2>2. pid[v] # p
    <3> SUFFICES ASSUME pid[v] = p PROVE FALSE
      OBVIOUS
    <3>1. owner[p] = v /\ owner[p] = 0
      BY <1>1 DEF IInv, OwnerInv, Spawned
    <3> QED
      BY <3>1, WorkersAssumption
  <2>3. pid[v] # 0 => proc'[pid[v]] = proc[pid[v]] /\ code'[pid[v]] = code[pid[v]]
    BY <2>1, <2>2 DEF Spawned, IInv, TypeOK
  <2> QED
    BY <2>1, <2>3 DEF Slot
<1>5. slots' = [slots EXCEPT ![w] = "up"]
  BY <1>3, <1>4 DEF slots
<1> QED
  BY <1>1, <1>2, <1>5 DEF SV!Start, slots

LEMMA StartSlots ==
  ASSUME IInv, NEW w \in Workers, StartWorker(w) \/ OnWorkerRestart(w)
  PROVE  SV!Start(w)
<1>1. CASE StartWorker(w)
  <2>1. PICK p \in Pids : Spawned(w, p)
    BY <1>1, StartSpawns DEF StartWorker
  <2>2. pid[w] = 0
    BY <1>1 DEF StartWorker, IInv, MasterInv
  <2> QED
    BY <1>1, <2>1, <2>2, SpawnSlots DEF StartWorker
<1>2. CASE OnWorkerRestart(w)
  <2>1. PICK p \in Pids : Spawned(w, p)
    BY <1>2, StartSpawns DEF OnWorkerRestart
  <2> QED
    BY <1>2, <2>1, SpawnSlots DEF OnWorkerRestart
<1> QED
  BY <1>1, <1>2

(* exit_cb takes an index from "up" to "retired" or "down".                *)
LEMMA ExitedSlots ==
  ASSUME IInv, NEW w \in Workers, OnWorkerExit(w)
  PROVE  SV!Retire(w) \/ SV!Fail(w)
<1>1. /\ pid[w] \in Pids /\ pid[w] # 0 /\ proc[pid[w]] = "dead"
      /\ proc' = [proc EXCEPT ![pid[w]] = "reaped"]
      /\ pid' = pid /\ code' = code /\ termed' = termed
  BY PidAssumption DEF OnWorkerExit, IInv, TypeOK, Pids
<1>2. Slot(w) = "up"
  BY <1>1 DEF Slot
<1>3. Slot(w)' = IF code[pid[w]] \in Final THEN "retired" ELSE "down"
  BY <1>1 DEF Slot, IInv, TypeOK
<1>4. ASSUME NEW v \in Workers \ {w} PROVE Slot(v)' = Slot(v)
  <2>1. pid[v] # 0 => pid[v] \in Pids /\ pid[v] # pid[w]
    BY <1>1, PidAssumption DEF IInv, OwnerInv, TypeOK, Pids
  <2>2. pid[v] # 0 => proc'[pid[v]] = proc[pid[v]]
    BY <1>1, <2>1 DEF IInv, TypeOK
  <2> QED
    BY <1>1, <2>2 DEF Slot
<1>5. \/ slots' = [slots EXCEPT ![w] = "retired"]
      \/ slots' = [slots EXCEPT ![w] = "down"]
  BY <1>3, <1>4 DEF slots
<1>6. slots[w] = "up"
  BY <1>2 DEF slots
<1> QED
  BY <1>1, <1>5, <1>6 DEF SV!Retire, SV!Fail, slots

LEMMA StepRefines ==
  IInv /\ [Next]_vars => [SV!SNext]_<<slots, ~termed>>
<1> SUFFICES ASSUME IInv, [Next]_vars PROVE [SV!SNext]_<<slots, ~termed>>
  OBVIOUS
<1>1. ASSUME NEW w \in Workers, StartWorker(w) \/ OnWorkerRestart(w)
      PROVE  SV!SNext
  BY <1>1, StartSlots DEF SV!SNext
<1>2. ASSUME NEW w \in Workers, OnWorkerExit(w) PROVE SV!SNext
  BY <1>2, ExitedSlots DEF SV!SNext
<1>3. CASE \/ HookTerm \/ HookUsr2 \/ SpawnFails \/ MasterEnds \/ MasterKilled
           \/ \E sig \in {"TERM", "USR2"} : Signal(sig)
  <2>1. Quiet
    BY <1>3, QuietActions
  <2>2. slots' = slots
    BY <2>1, SameSlots DEF Quiet, procVars
  <2> QED
    BY <2>1, <2>2 DEF Quiet
<1>4. CASE MasterExitCb
  <2>1. ~termed /\ termed'
    BY <1>4 DEF MasterExitCb, IInv, MasterInv
  <2>2. slots' = slots
    BY <1>4, SameSlots DEF MasterExitCb
  <2> QED
    BY <2>1, <2>2 DEF SV!SNext, SV!Shut, slots
<1>5. CASE MasterUsr2Cb
  <2>1. slots' = slots
    BY <1>5, SameSlots DEF MasterUsr2Cb
  <2> QED
    BY <1>5, <2>1 DEF MasterUsr2Cb
<1>6. ASSUME NEW p \in Pids,
             \/ WorkerBoots(p) \/ WorkerLogs(p) \/ WorkerLoopEnds(p)
             \/ WorkerExits(p) \/ WorkerCrashes(p) \/ WorkerGetsInt(p) \/ WorkerGetsUsr2(p)
      PROVE  UNCHANGED <<slots, ~termed>>
  <2>1. WorkerStep(p)
    BY <1>6, WorkerActions DEF IInv
  <2>2. /\ pid' = pid /\ termed' = termed
        /\ \A q \in Pids : proc'[q] = "reaped" <=> proc[q] = "reaped"
        /\ \A q \in Pids : proc[q] = "reaped" => code'[q] = code[q]
    BY <2>1 DEF WorkerStep, masterVars, Live
  <2>3. slots' = slots
    BY <2>2, SameSlots
  <2> QED
    BY <2>2, <2>3
<1>7. CASE UNCHANGED vars
  BY <1>7 DEF vars, slots, Slot
<1> QED
  BY <1>1, <1>2, <1>3, <1>4, <1>5, <1>6, <1>7 DEF Next, Settled

(* The master implements Supervision: an index is started only when it has *)
(* no process and has not ended normally, and nothing is started once      *)
(* SIGTERM has been handled.                                               *)
THEOREM Refinement == Spec => ImplementsSupervision
<1>1. Init => SV!SInit
  BY DEF Init, SV!SInit, Slot
<1>2. IInv /\ [Next]_vars => [SV!SNext]_<<[w \in Workers |-> Slot(w)], ~termed>>
  BY StepRefines DEF slots
<1> QED
  BY <1>1, <1>2, Invariance, PTL DEF Spec, ImplementsSupervision, SV!SSpec
=============================================================================
