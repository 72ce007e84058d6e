---------------------------- MODULE ThreadWorker ----------------------------
(***************************************************************************)
(* flame::thread_worker (src/flame/thread_worker.cpp): one worker thread   *)
(* with its own libuv loop, fed by the main thread through queue_worker    *)
(* and answering through queue_master.  Every push and every pop of a      *)
(* deque is a critical section of its own under that deque's mutex, so it  *)
(* is one step here; everything between two critical sections              *)
(* (uv_async_send, the callbacks, the two asserts, uv_close) is a step of  *)
(* its own and interleaves with the other thread.                          *)
(*                                                                         *)
(* libuv, as the code uses it: uv_async_send sets a pending flag and does  *)
(* nothing when it is already set (sends coalesce); the loop clears the    *)
(* flag before it runs the callback; the callback given to uv_close runs   *)
(* in a later phase of the same loop; uv_async_send on a handle whose      *)
(* loop was closed writes to a closed descriptor and libuv calls abort().  *)
(***************************************************************************)
EXTENDS Naturals, Sequences

CONSTANTS Reqs,     \* uv_work_t contexts (each client operation makes one)
          Exit,     \* exit_req, the request close_work pushes
          NoReq,    \* the worker holds no request
          MaxWork   \* bound: how many requests a behaviour submits

ASSUME ReqsAssumption == Exit \notin Reqs /\ NoReq \notin Reqs /\ NoReq # Exit
ASSUME MaxAssumption  == MaxWork \in Nat

VARIABLES
  exit_data,     \* exit_req.data # nullptr: close_work has been called
  queue_worker,  \* requests for the worker thread
  queue_master,  \* requests on their way back to the main thread
  pend_worker,   \* async_worker has been sent and not yet delivered
  pend_master,   \* async_master has been sent and not yet delivered
  async_worker,  \* state of the worker's async handle
  async_master,  \* state of the main thread's async handle
  loop,          \* the worker's uv_loop_t: "open" or "closed"
  mpc,           \* main thread: outside ("run") or inside master_cb
  call,          \* main thread: which call of queue_work/close_work it is in
  wpc,           \* worker thread: where it is in its loop
  wreq,          \* the request in the worker's hands
  submitted, served, completed,  \* history: what queue_work accepted, whose
                                 \* work_cb ran, whose after_work_cb ran
  retired,       \* exit_req.work_cb has run (it closes the connection)
  finished       \* exit_req.after_work_cb has run (it deletes the object)

queues  == <<queue_worker, queue_master>>
asyncs  == <<pend_worker, pend_master, async_worker, async_master, loop>>
mainvar == <<exit_data, mpc, call, submitted, completed, finished>>
workvar == <<wpc, wreq, served, retired>>
vars    == <<queues, asyncs, mainvar, workvar>>

Init ==
  /\ exit_data = FALSE
  /\ queue_worker = << >> /\ queue_master = << >>
  /\ pend_worker = FALSE /\ pend_master = FALSE
  /\ async_worker = "open" /\ async_master = "open" /\ loop = "open"
  /\ mpc = "run" /\ call = "none"
  /\ wpc = "poll" /\ wreq = NoReq
  /\ submitted = << >> /\ served = << >> /\ completed = << >>
  /\ retired = FALSE /\ finished = FALSE

-----------------------------------------------------------------------------
(* The main thread: queue_work and close_work.  They are called from PHP   *)
(* code run by the loop (mpc = "run") or from inside an after_work_cb      *)
(* (mpc = "after"), which resumes a coroutine or chains a second request.  *)

(* A context may be submitted again while it is still on its way (the      *)
(* MySQL client's ping after two connects).                                *)

MayCall == call = "none" /\ mpc \in {"run", "after"} /\ ~finished

\* mutant: the check of exit_req.data is gone
QueueWork_NoGuard(r) ==
  /\ MayCall /\ Len(submitted) < MaxWork
  /\ queue_worker' = Append(queue_worker, r)
  /\ submitted' = Append(submitted, r)
  /\ call' = "send"
  /\ UNCHANGED asyncs /\ UNCHANGED workvar
  /\ UNCHANGED <<queue_master, exit_data, mpc, completed, finished>>

QueueWork(r) ==
  /\ MayCall
  /\ ~exit_data                      \* otherwise it throws and changes nothing
  /\ Len(submitted) < MaxWork
  /\ queue_worker' = Append(queue_worker, r)
  /\ submitted' = Append(submitted, r)
  /\ call' = "send"
  /\ UNCHANGED asyncs /\ UNCHANGED workvar
  /\ UNCHANGED <<queue_master, exit_data, mpc, completed, finished>>

QueueWorkSend ==
  /\ call = "send"
  /\ pend_worker' = TRUE
  /\ call' = "none"
  /\ UNCHANGED queues /\ UNCHANGED workvar
  /\ UNCHANGED <<pend_master, async_worker, async_master, loop,
                 exit_data, mpc, submitted, completed, finished>>

\* mutant: the exit request is pushed at the front of the deque
CloseWork_Front ==
  /\ MayCall /\ ~exit_data
  /\ exit_data' = TRUE
  /\ queue_worker' = <<Exit>> \o queue_worker
  /\ call' = "close_send"
  /\ UNCHANGED asyncs /\ UNCHANGED workvar
  /\ UNCHANGED <<queue_master, mpc, submitted, completed, finished>>

(* Every caller passes data # nullptr; a second call does nothing.         *)
CloseWork ==
  /\ MayCall
  /\ ~exit_data
  /\ exit_data' = TRUE
  /\ queue_worker' = Append(queue_worker, Exit)
  /\ call' = "close_send"
  /\ UNCHANGED asyncs /\ UNCHANGED workvar
  /\ UNCHANGED <<queue_master, mpc, submitted, completed, finished>>

\* mutant: close_work does not join the thread
CloseWorkSend_NoJoin ==
  /\ call = "close_send"
  /\ pend_worker' = TRUE
  /\ call' = IF ~pend_worker /\ loop = "closed" THEN "aborted" ELSE "none"
  /\ UNCHANGED queues /\ UNCHANGED workvar
  /\ UNCHANGED <<pend_master, async_worker, async_master, loop,
                 exit_data, mpc, submitted, completed, finished>>

(* The worker may have popped Exit from an earlier wake-up and be gone     *)
(* already: a pending flag still set hides it, else libuv aborts.          *)
CloseWorkSend ==
  /\ call = "close_send"
  /\ pend_worker' = TRUE
  /\ call' = IF ~pend_worker /\ loop = "closed" THEN "aborted" ELSE "join"
  /\ UNCHANGED queues /\ UNCHANGED workvar
  /\ UNCHANGED <<pend_master, async_worker, async_master, loop,
                 exit_data, mpc, submitted, completed, finished>>

CloseWorkJoined ==
  /\ call = "join"
  /\ wpc = "dead"
  /\ call' = "none"
  /\ UNCHANGED queues /\ UNCHANGED asyncs /\ UNCHANGED workvar
  /\ UNCHANGED <<exit_data, mpc, submitted, completed, finished>>

-----------------------------------------------------------------------------
(* The main thread: master_cb and master_close_cb.                         *)

MasterWake ==
  /\ mpc = "run" /\ call = "none"
  /\ async_master = "open"
  /\ pend_master
  /\ pend_master' = FALSE
  /\ mpc' = "drain"
  /\ UNCHANGED queues /\ UNCHANGED workvar
  /\ UNCHANGED <<pend_worker, async_worker, async_master, loop,
                 exit_data, call, submitted, completed, finished>>

MasterPop ==
  /\ mpc = "drain"
  /\ queue_master # << >>
  /\ queue_master' = Tail(queue_master)
  /\ \/ /\ Head(queue_master) = Exit
        /\ mpc' = "exit"
        /\ UNCHANGED completed
     \/ /\ Head(queue_master) # Exit
        /\ mpc' = "after"
        /\ completed' = Append(completed, Head(queue_master))
  /\ UNCHANGED asyncs /\ UNCHANGED workvar
  /\ UNCHANGED <<queue_worker, exit_data, call, submitted, finished>>

\* mutant: master_cb handles one request per wake-up
MasterAfterReturn_NoLoop ==
  /\ mpc = "after" /\ call = "none"
  /\ mpc' = "run"
  /\ UNCHANGED queues /\ UNCHANGED asyncs /\ UNCHANGED workvar
  /\ UNCHANGED <<exit_data, call, submitted, completed, finished>>

MasterAfterReturn ==
  /\ mpc = "after" /\ call = "none"
  /\ mpc' = "drain"
  /\ UNCHANGED queues /\ UNCHANGED asyncs /\ UNCHANGED workvar
  /\ UNCHANGED <<exit_data, call, submitted, completed, finished>>

MasterExit ==
  /\ mpc = "exit"
  /\ async_master' = "closing"
  /\ mpc' = "drain"
  /\ UNCHANGED queues /\ UNCHANGED workvar
  /\ UNCHANGED <<pend_worker, pend_master, async_worker, loop,
                 exit_data, call, submitted, completed, finished>>

MasterEmpty ==
  /\ mpc = "drain"
  /\ queue_master = << >>
  /\ mpc' = "run"
  /\ UNCHANGED queues /\ UNCHANGED asyncs /\ UNCHANGED workvar
  /\ UNCHANGED <<exit_data, call, submitted, completed, finished>>

MasterClosed ==
  /\ mpc = "run" /\ call = "none"
  /\ async_master = "closing"
  /\ async_master' = "closed"
  /\ finished' = TRUE
  /\ UNCHANGED queues /\ UNCHANGED workvar
  /\ UNCHANGED <<pend_worker, pend_master, async_worker, loop,
                 exit_data, mpc, call, submitted, completed>>
-----------------------------------------------------------------------------
(* The worker thread: worker_cb and worker_close_cb.                       *)

WorkerWake ==
  /\ wpc = "poll"
  /\ async_worker = "open"
  /\ pend_worker
  /\ pend_worker' = FALSE
  /\ wpc' = "drain"
  /\ UNCHANGED queues /\ UNCHANGED mainvar
  /\ UNCHANGED <<pend_master, async_worker, async_master, loop, wreq,
                 served, retired>>

WorkerPop ==
  /\ wpc = "drain"
  /\ queue_worker # << >>
  /\ queue_worker' = Tail(queue_worker)
  /\ \/ /\ Head(queue_worker) = Exit
        /\ wpc' = "exit"
        /\ UNCHANGED wreq
     \/ /\ Head(queue_worker) # Exit
        /\ wpc' = "work"
        /\ wreq' = Head(queue_worker)
  /\ UNCHANGED asyncs /\ UNCHANGED mainvar
  /\ UNCHANGED <<queue_master, served, retired>>

WorkerRun ==
  /\ wpc = "work"
  /\ served' = Append(served, wreq)
  /\ wpc' = "push"
  /\ UNCHANGED queues /\ UNCHANGED asyncs /\ UNCHANGED mainvar
  /\ UNCHANGED <<wreq, retired>>

WorkerPush ==
  /\ wpc = "push"
  /\ queue_master' = Append(queue_master, wreq)
  /\ wreq' = NoReq
  /\ wpc' = "send"
  /\ UNCHANGED asyncs /\ UNCHANGED mainvar
  /\ UNCHANGED <<queue_worker, served, retired>>

\* mutant: the main thread is not woken for a result
WorkerSend_Forgotten ==
  /\ wpc = "send"
  /\ wpc' = "drain"
  /\ UNCHANGED queues /\ UNCHANGED asyncs /\ UNCHANGED mainvar
  /\ UNCHANGED <<wreq, served, retired>>

WorkerSend ==
  /\ wpc = "send"
  /\ pend_master' = TRUE
  /\ wpc' = "drain"
  /\ UNCHANGED queues /\ UNCHANGED mainvar
  /\ UNCHANGED <<pend_worker, async_worker, async_master, loop, wreq,
                 served, retired>>

WorkerExit ==
  /\ wpc = "exit"
  /\ async_worker' = "closing"
  /\ wpc' = "drain"
  /\ UNCHANGED queues /\ UNCHANGED mainvar
  /\ UNCHANGED <<pend_worker, pend_master, async_master, loop, wreq,
                 served, retired>>

WorkerEmpty ==
  /\ wpc = "drain"
  /\ queue_worker = << >>
  /\ wpc' = "poll"
  /\ UNCHANGED queues /\ UNCHANGED asyncs /\ UNCHANGED mainvar
  /\ UNCHANGED <<wreq, served, retired>>

\* mutant: exit_req.work_cb is not called
WorkerClosed_NoWork ==
  /\ wpc = "poll" /\ async_worker = "closing"
  /\ async_worker' = "closed"
  /\ loop' \in {"open", "closed"}
  /\ wpc' = "exit_push"
  /\ UNCHANGED queues /\ UNCHANGED mainvar
  /\ UNCHANGED <<pend_worker, pend_master, async_master, wreq, served, retired>>

(* uv_loop_close fails when exit_req.work_cb has only begun to close a     *)
(* handle of its own in this loop (the RabbitMQ heartbeat timer).          *)
WorkerClosed ==
  /\ wpc = "poll"
  /\ async_worker = "closing"
  /\ async_worker' = "closed"
  /\ retired' = TRUE
  /\ loop' \in {"open", "closed"}
  /\ wpc' = "exit_push"
  /\ UNCHANGED queues /\ UNCHANGED mainvar
  /\ UNCHANGED <<pend_worker, pend_master, async_master, wreq, served>>

WorkerExitPush ==
  /\ wpc = "exit_push"
  /\ queue_master' = Append(queue_master, Exit)
  /\ wpc' = "exit_send"
  /\ UNCHANGED asyncs /\ UNCHANGED mainvar
  /\ UNCHANGED <<queue_worker, wreq, served, retired>>

\* mutant: the main thread is not woken for the exit request
WorkerExitSend_Forgotten ==
  /\ wpc = "exit_send"
  /\ wpc' = "dead"
  /\ UNCHANGED queues /\ UNCHANGED asyncs /\ UNCHANGED mainvar
  /\ UNCHANGED <<wreq, served, retired>>

(* The loop has no handle left: uv_run returns and the thread ends.        *)
WorkerExitSend ==
  /\ wpc = "exit_send"
  /\ pend_master' = TRUE
  /\ wpc' = "dead"
  /\ UNCHANGED queues /\ UNCHANGED mainvar
  /\ UNCHANGED <<pend_worker, async_worker, async_master, loop, wreq,
                 served, retired>>
-----------------------------------------------------------------------------
MainCalls == (\E r \in Reqs : QueueWork(r)) \/ CloseWork

MainSteps ==
  \/ QueueWorkSend \/ CloseWorkSend \/ CloseWorkJoined
  \/ MasterWake \/ MasterPop \/ MasterAfterReturn \/ MasterExit
  \/ MasterEmpty \/ MasterClosed

WorkerSteps ==
  \/ WorkerWake \/ WorkerPop \/ WorkerRun \/ WorkerPush \/ WorkerSend
  \/ WorkerExit \/ WorkerEmpty \/ WorkerClosed \/ WorkerExitPush \/ WorkerExitSend

Alive == call # "aborted"

(* After the last callback the object is deleted; after abort() the        *)
(* process is gone.                                                        *)
Gone == (finished \/ ~Alive) /\ UNCHANGED vars

Next ==
  \/ Alive /\ MainCalls
  \/ Alive /\ MainSteps
  \/ Alive /\ WorkerSteps
  \/ Gone

Spec == Init /\ [][Next]_vars

(* The main thread goes on with the call or callback it is in and returns  *)
(* to its loop, the worker thread is scheduled and its work_cb returns;    *)
(* nothing obliges PHP to submit or to close.                              *)
FairSpec == Spec /\ WF_vars(Alive /\ MainSteps) /\ WF_vars(Alive /\ WorkerSteps)

-----------------------------------------------------------------------------
(* Properties.                                                             *)

TypeOK ==
  /\ exit_data \in BOOLEAN /\ retired \in BOOLEAN /\ finished \in BOOLEAN
  /\ pend_worker \in BOOLEAN /\ pend_master \in BOOLEAN
  /\ queue_worker \in Seq(Reqs \cup {Exit})
  /\ queue_master \in Seq(Reqs \cup {Exit})
  /\ async_worker \in {"open", "closing", "closed"}
  /\ async_master \in {"open", "closing", "closed"}
  /\ loop \in {"open", "closed"}
  /\ mpc \in {"run", "drain", "after", "exit"}
  /\ call \in {"none", "send", "close_send", "join", "aborted"}
  /\ wpc \in {"poll", "drain", "work", "push", "send",
              "exit", "exit_push", "exit_send", "dead"}
  /\ wreq \in Reqs \cup {NoReq}
  /\ submitted \in Seq(Reqs) /\ served \in Seq(Reqs) /\ completed \in Seq(Reqs)

(* The two asserts, thread_worker.cpp lines 54 and 80: when a thread has   *)
(* popped exit_req, its deque is empty, although line 54 and line 80 read  *)
(* the deque without its mutex and the other thread may be pushing.        *)
ExitIsLast ==
  /\ wpc = "exit" => queue_worker = << >>
  /\ mpc = "exit" => queue_master = << >>

(* No wake-up is lost although sends coalesce: a thread that sleeps on a   *)
(* deque that is not empty has been sent for, or the thread that pushed is *)
(* about to send.                                                          *)
NoLostWakeup ==
  /\ (wpc = "poll" /\ async_worker = "open" /\ queue_worker # << >>)
       => pend_worker \/ call \in {"send", "close_send"}
  /\ (mpc = "run" /\ async_master = "open" /\ queue_master # << >>)
       => pend_master \/ wpc \in {"send", "exit_send"}

(* When close_work has returned, the worker thread is dead, every request  *)
(* accepted before has been served, and then the closing work_cb has run:  *)
(* the caller may be the destructor of what those callbacks use.           *)
ClosedMeansServed ==
  (exit_data /\ call = "none") =>
    /\ wpc = "dead"
    /\ served = submitted
    /\ retired

(* The race in close_work: its uv_async_send (line 34) may find the loop   *)
(* closed already.  It costs the process but no request: everything        *)
(* submitted was served and the connection was closed.                     *)
AbortLosesNoWork ==
  call = "aborted" => /\ retired
                      /\ served = submitted
                      /\ Exit \notin {queue_worker[i] : i \in 1 .. Len(queue_worker)}

(* thread_worker implements the FIFO service of WorkQueue: exactly-once    *)
(* and in-order service and completion, nothing accepted after close, the  *)
(* closing callbacks after everything else.                                *)
Stage == IF finished THEN "finished"
         ELSE IF retired THEN "retired"
         ELSE IF exit_data THEN "closing" ELSE "open"

WQ == INSTANCE WorkQueue WITH stage <- Stage

ImplementsWorkQueue == WQ!WQSpec

(* Every request queue_work accepted gets its after_work_cb, however the   *)
(* sends coalesced, unless close_work aborted the process.                 *)
RequestsComplete ==
  \A n \in 1 .. MaxWork :
    (Len(submitted) >= n) ~> (Len(completed) >= n \/ ~Alive)

(* close_work returns and its after_work_cb runs: the join in the main     *)
(* thread and the worker's drain cannot wait for each other.               *)
CloseFinishes == exit_data ~> (finished \/ ~Alive)

-----------------------------------------------------------------------------
(* The inductive invariant behind the safety properties.                   *)

B(p) == IF p THEN 1 ELSE 0

ExitTaken == \/ wpc \in {"exit", "exit_push", "exit_send", "dead"}
             \/ async_worker # "open"
ExitQueued == exit_data /\ ~ExitTaken
ExitBack   == wpc \in {"exit_send", "dead"}
ExitSeen   == mpc = "exit" \/ async_master # "open"

\* where the two threads and the two handles can be together
ControlInv ==
  /\ ExitTaken => exit_data /\ wpc \notin {"work", "push", "send"}
  /\ ExitSeen => ExitBack
  /\ retired <=> wpc \in {"exit_push", "exit_send", "dead"}
  /\ retired <=> async_worker = "closed"
  /\ wpc = "exit" => async_worker = "open"
  /\ loop = "closed" => retired
  /\ call \in {"close_send", "join", "aborted"} => exit_data
  /\ call = "send" => ~exit_data
  /\ (exit_data /\ call = "none") => wpc = "dead"
  /\ call = "aborted" => loop = "closed"
  /\ call # "none" => mpc \in {"run", "after"}
  /\ mpc = "exit" => async_master = "open"
  /\ finished <=> async_master = "closed"

\* how many requests the worker has taken out of queue_worker
Taken == Len(served) + B(wpc = "work")

\* main thread to worker: submitted = served, the one in hand, queue_worker
RequestInv ==
  /\ Taken <= Len(submitted)
  /\ Taken + Len(queue_worker) = Len(submitted) + B(ExitQueued)
  /\ \A i \in 1 .. Len(served) : served[i] = submitted[i]
  /\ wpc = "work" => wreq = submitted[Len(served) + 1]
  /\ \A i \in 1 .. Len(queue_worker) :
       queue_worker[i] = IF Taken + i <= Len(submitted) THEN submitted[Taken + i] ELSE Exit
  /\ ExitTaken => Len(served) = Len(submitted)

\* worker to main thread: served = completed, queue_master, the one in hand
ReplyInv ==
  /\ Len(completed) + B(wpc = "push") <= Len(served)
  /\ Len(completed) + Len(queue_master) + B(wpc = "push")
       = Len(served) + B(ExitBack /\ ~ExitSeen)
  /\ \A i \in 1 .. Len(completed) : completed[i] = served[i]
  /\ wpc = "push" => wreq = served[Len(served)]
  /\ \A i \in 1 .. Len(queue_master) :
       queue_master[i] = IF Len(completed) + i <= Len(served)
                         THEN served[Len(completed) + i] ELSE Exit
  /\ ExitSeen => Len(completed) = Len(served)

IInv == TypeOK /\ ControlInv /\ RequestInv /\ ReplyInv /\ NoLostWakeup
=============================================================================
