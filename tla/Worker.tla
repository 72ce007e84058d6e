------------------------------- MODULE Worker -------------------------------
(***************************************************************************)
(* A client whose library runs on a thread of its own (src/flame/db), as   *)
(* a script sees it: its coroutines queue jobs to the thread and wait, the *)
(* thread serves them in order, and what it served completes on the main   *)
(* thread (ThreadWorker is this thread in detail).  The client, object 1,  *)
(* and what is made from it own handles of the library.  An object that    *)
(* nobody holds is destructed at once; the client's destructor joins the   *)
(* thread.                                                                 *)
(***************************************************************************)
EXTENDS Script

CONSTANT MaxObjects \* bound: objects made, the client included

ASSUME WorkerAssumption == MaxObjects \in Nat \ {0}

VARIABLES
  objs,   \* the objects: what each is, whose reference its ref_ is (0: none),
          \* its handle, and whether the object itself is gone
  held,   \* the objects the variables of the script hold
  ref,    \* ref_ of each coroutine
  jobs,   \* queue_worker
  backs,  \* queue_master
  thread  \* "open", "closing": close_work waits for it, "closed"

workerVars == <<objs, held, ref, jobs, backs, thread>>

Object(kind, of, handle) == [k |-> kind, of |-> of, lib |-> handle, gone |-> FALSE]

\* a request of coroutine c (0: nobody waits) on object o, holding object hold
Job(op, c, o, hold) == [op |-> op, c |-> c, o |-> o, hold |-> hold, res |-> "none"]

WorkerInit(kind, handle) ==
  /\ objs = <<Object(kind, 0, handle)>> /\ held = {1}
  /\ ref = [c \in Cos |-> 0] /\ jobs = <<>> /\ backs = <<>> /\ thread = "open"

Holds(o) ==
  \/ o \in held \/ o \in Range(ref)
  \/ \E p \in DOMAIN objs : objs[p].of = o /\ ~objs[p].gone
  \/ \E j \in Range(jobs) \union Range(backs) : j.hold = o

Unheld == {o \in DOMAIN objs : ~objs[o].gone /\ ~Holds(o)}

\* the main thread is not in the middle of a destructor
Settled == Unheld = {} /\ thread # "closing"

SetLib(o, handle) == objs' = [objs EXCEPT ![o].lib = handle]

\* a method of object o queues a job, flame::async(this)
Ask(c, op, o, hold) ==
  /\ Call(c) /\ o \in held /\ thread = "open"
  /\ jobs' = Append(jobs, Job(op, c, o, hold))
  /\ ref' = [ref EXCEPT ![c] = o] /\ Waits(c, "job")
  /\ UNCHANGED <<objs, held, backs, thread>>

\* the job at the head has been served, with this result
Served(res) ==
  /\ jobs' = Tail(jobs)
  /\ backs' = Append(backs, [Head(jobs) EXCEPT !.res = res])

\* the head of the thread's queue
Serves(op) == jobs # <<>> /\ ~Crashed /\ Head(jobs).op = op

\* the head of the completions, in master_cb
Completes(op, res) ==
  Loop /\ backs # <<>> /\ Head(backs).op = op /\ Head(backs).res = res

\* co->next(rv), where rv is a new object or nothing
Returns1(o) ==
  LET c == Head(backs).c IN
  /\ backs' = Tail(backs)
  /\ ref' = [ref EXCEPT ![c] = 0] /\ Resume(c, <<>>)
  /\ held' = IF o = 0 THEN held ELSE held \union {o}
  /\ UNCHANGED <<calls, jobs, thread>>

\* co->fail, which leaves ref_ as it is
Fails ==
  /\ backs' = Tail(backs) /\ Resume(Head(backs).c, <<>>)
  /\ UNCHANGED <<calls, objs, held, ref, jobs, thread>>

\* a completion queues the rest of its request to the thread
Requeue(op) ==
  /\ jobs' = Append(jobs, [Head(backs) EXCEPT !.op = op])
  /\ backs' = Tail(backs) /\ UNCHANGED <<frames, st, calls, ref, thread>>

\* the script lets go of an object
Release(c, o) ==
  /\ Running(c) /\ o \in held /\ held' = held \ {o}
  /\ UNCHANGED <<frames, st, calls, objs, ref, jobs, backs, thread>>

EndCo(c) ==
  /\ End(c) /\ ref' = [ref EXCEPT ![c] = 0]
  /\ UNCHANGED <<objs, held, jobs, backs, thread>>

\* the destructor of an object queues the end of its handle
Destruct(o, op, hold) ==
  /\ o \in Unheld /\ o # 1 /\ thread = "open" /\ ~Crashed
  /\ objs' = [objs EXCEPT ![o].gone = TRUE]
  /\ jobs' = Append(jobs, Job(op, 0, o, hold))
  /\ UNCHANGED <<frames, st, calls, held, ref, backs, thread>>

\* the destructor of the client: close_work, and the join
CloseWork ==
  /\ Unheld = {1} /\ thread = "open" /\ ~Crashed /\ thread' = "closing"
  /\ objs' = [objs EXCEPT ![1].gone = TRUE]
  /\ UNCHANGED <<frames, st, calls, held, ref, jobs, backs>>

\* worker_close_cb and destroy_wk, when the queue is empty
DestroyWk ==
  /\ thread = "closing" /\ jobs = <<>> /\ thread' = "closed"
  /\ SetLib(1, "freed")
  /\ UNCHANGED <<frames, st, calls, held, ref, jobs, backs>>

WorkerStep ==
  \E c \in Cos :
    \/ (Begin(c) \/ Sleep(c)) /\ UNCHANGED workerVars
    \/ EndCo(c)
    \/ \E o \in held : Release(c, o)
-----------------------------------------------------------------------------

Client == objs[1]

\* what waits in the queues for its coroutine
Waiting == SelectSeq(jobs \o backs, LAMBDA j : j.c # 0)

WorkerPointers ==
  {Pointer(<<"worker", i>>, jobs[i].c) : i \in {i \in DOMAIN jobs : jobs[i].c # 0}}
    \union {Pointer(<<"master", i>>, backs[i].c) : i \in {i \in DOMAIN backs : backs[i].c # 0}}
=============================================================================
