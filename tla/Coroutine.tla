----------------------------- MODULE Coroutine -----------------------------
(***************************************************************************)
(* flame::coroutine (src/flame/coroutine.cpp): PHP generators run as       *)
(* coroutines by one thread, between the callbacks of its libuv loop.  A   *)
(* coroutine is a stack of generators (gen_), of which the top one runs; a *)
(* flame function starts an operation, counts it in status_ and returns a  *)
(* pointer that PHP must yield; the operation's callback calls next() or   *)
(* fail() on the coroutine it remembers.                                   *)
(*                                                                         *)
(* A step is what happens up to the next decision of the PHP code or of    *)
(* the loop; ctl is the C++ call stack, for PHP code can call a flame      *)
(* function that resumes another coroutine at once (closing a socket on    *)
(* which it waits).  The loop's order matters and is kept: due timers, in  *)
(* the order in which they were started, then i/o, then the close          *)
(* callbacks, and uv_stop takes effect at the end of the iteration.        *)
(*                                                                         *)
(* PHP has one pending exception for the whole thread (EG(exception),      *)
(* php::exception::has/get/off).  The engine refuses calls while one is    *)
(* pending: a callable is not entered, a generator is not resumed.         *)
(***************************************************************************)
EXTENDS Integers, Sequences, SequencesExt, FiniteSets

CONSTANTS Cos,       \* coroutines
          NoCo,      \* no coroutine
          MaxOps,    \* bound: operations a behaviour starts
          MaxDepth,  \* bound: generators in one gen_
          MaxSteps   \* bound: calls and yields the PHP code makes in all

ASSUME CosAssumption == NoCo \notin Cos
ASSUME BoundsAssumption == MaxOps \in Nat /\ MaxDepth \in Nat \ {0} /\ MaxSteps \in Nat

VARIABLES
  life,    \* a coroutine is "unborn", "alive" or "freed"
  status,  \* status_: operations not yet yielded; -1: closing
  gen,     \* gen_, bottom to top, each by what the generator is doing
  stack,   \* length of stack_, the stages of an operation made of several
  timer,   \* what timer_ was last used for and is still to do
  timerq,  \* the timers that are due, in the order they were started
  after,   \* after_.func has been called
  exc,     \* EG(exception): the coroutine whose code raised it, or NoCo
  ctl,     \* C++ call stack: coroutine, in PHP code ("user") or in run()
  phase,   \* phase of the loop, or how the process ended
  stopped, \* uv_stop has been called
  owner,   \* operations started so far: the coroutine each will resume
  done,    \* operations whose callback has been called
  wait,    \* history: the operation each coroutine last asked for, or 0
  told,    \* history: coroutines told of a forgotten yield, or in which an
           \* exception ended a generator (run() then drops the count)
  forgot,  \* history: coroutines that did not yield an operation at once
  logged,  \* history: coroutines the logger's callback is to resume
  crossed, \* history: coroutines touched by another's exception
  steps    \* calls and yields still allowed

control == <<ctl, exc, phase, stopped>>
coro    == <<life, status, gen, stack, timer, timerq, after>>
ops     == <<owner, done, wait>>
ghosts  == <<told, forgot, logged, crossed>>
vars    == <<life, status, gen, stack, timer, timerq, after, exc, ctl, phase,
             stopped, owner, done, wait, told, forgot, logged, crossed, steps>>

(* Generators: not yet entered; running; suspended at a yield of the       *)
(* pointer, of a generator, of a plain value; returned; ended by an        *)
(* exception.  "plain" is a function that is no generator, while it runs.  *)
Frames == {"fresh", "run", "ptr", "gen", "val", "end", "thrown", "plain"}
Over   == {"returned", "fatal", "crashed"}

Init ==
  /\ life = [c \in Cos |-> "unborn"] /\ status = [c \in Cos |-> 0]
  /\ gen = [c \in Cos |-> << >>] /\ stack = [c \in Cos |-> 0]
  /\ timer = [c \in Cos |-> "idle"] /\ timerq = << >>
  /\ after = [c \in Cos |-> FALSE]
  /\ exc = NoCo /\ ctl = << >> /\ phase = "script" /\ stopped = FALSE
  /\ owner = << >> /\ done = {} /\ wait = [c \in Cos |-> 0]
  /\ told = {} /\ forgot = {} /\ logged = {} /\ crossed = {} /\ steps = MaxSteps

-----------------------------------------------------------------------------
Pending(o)   == o \in (1 .. Len(owner)) \ done
Running      == {ctl[i].co : i \in 1 .. Len(ctl)}
In(c, place) == phase \notin Over /\ ctl # << >> /\ Last(ctl) = [co |-> c, at |-> place]
User(c)      == In(c, "user") /\ exc = NoCo
Looping(p)   == ctl = << >> /\ phase = p
Enter(c, place) == ctl' = Append(ctl, [co |-> c, at |-> place])
Goto(place)     == ctl' = [ctl EXCEPT ![Len(ctl)].at = place]
Top(c)       == Last(gen[c])
SetTop(c, f) == gen' = [gen EXCEPT ![c] = Append(Front(@), f)]

(* Back to the caller: it is PHP code of another coroutine or the loop.    *)
Leave ==
  /\ ctl' = Front(ctl)
  /\ crossed' = IF exc # NoCo /\ Len(ctl) > 1
                THEN crossed \cup {ctl[Len(ctl) - 1].co, exc} ELSE crossed

(* create and start: flame\go, a server's handler, a session's next stage. *)
Go(d) ==
  /\ life[d] = "unborn"
  /\ life' = [life EXCEPT ![d] = "alive"]
  /\ timer' = [timer EXCEPT ![d] = "start"]
  /\ timerq' = Append(timerq, d)

(* The queue of due timers without the one of c, which is in it at most     *)
(* once (libuv: starting a timer anew, or closing it, takes it out).        *)
Unqueued(c) ==
  IF \E i \in 1 .. Len(timerq) : timerq[i] = c
  THEN RemoveAt(timerq, CHOOSE i \in 1 .. Len(timerq) : timerq[i] = c)
  ELSE timerq

-----------------------------------------------------------------------------
(* The PHP code of coroutine c.  It is disciplined as long as it yields    *)
(* the pointer of every operation at once; an action that does not records *)
(* it.                                                                     *)

Undisciplined(c) == forgot' = IF status[c] > 0 THEN forgot \cup {c} ELSE forgot
Spend == steps > 0 /\ steps' = steps - 1

\* mutant: the check of status_ is gone
CallAsync_Unchecked(c) ==
  /\ User(c) /\ Spend /\ Len(owner) < MaxOps
  /\ status' = [status EXCEPT ![c] = @ + 1]
  /\ owner' = Append(owner, c)
  /\ wait' = [wait EXCEPT ![c] = Len(owner) + 1]
  /\ Undisciplined(c)
  /\ UNCHANGED <<life, gen, stack, timer, timerq, after, done, told, logged, crossed, control>>

(* A flame function that waits: it starts its operation, perhaps one with  *)
(* a second stage, and calls async().                                      *)
CallAsync(c) ==
  /\ User(c) /\ Spend
  /\ status[c] = 0
  /\ Len(owner) < MaxOps
  /\ status' = [status EXCEPT ![c] = 1]
  /\ owner' = Append(owner, c)
  /\ wait' = [wait EXCEPT ![c] = Len(owner) + 1]
  /\ \E stages \in 0 .. 1 : stack' = [stack EXCEPT ![c] = @ + stages]
  /\ UNCHANGED <<life, gen, timer, timerq, after, done, ghosts, control>>

(* async() finds an operation that was not yielded and throws; some        *)
(* functions (sleep) have started theirs by then.                          *)
CallAsyncRefused(c) ==
  /\ User(c) /\ Spend
  /\ status[c] # 0
  /\ owner' \in {owner} \cup {Append(owner, c) : n \in 1 .. MaxOps - Len(owner)}
  /\ exc' = c
  /\ told' = told \cup {c}
  /\ Undisciplined(c)
  /\ UNCHANGED <<coro, done, wait, logged, crossed, ctl, phase, stopped>>

(* A call that writes a log line to a file as it goes (a write to a closed *)
(* http connection): logger::write remembers current, and its callback     *)
(* calls next(), but nothing is counted or yielded.                        *)
CallLogs(c) ==
  /\ User(c) /\ Spend
  /\ Len(owner) < MaxOps
  /\ owner' = Append(owner, c)
  /\ logged' = logged \cup {c}
  /\ UNCHANGED <<coro, done, wait, told, forgot, crossed, control>>

CallGo(c) ==
  /\ User(c)
  /\ \E d \in Cos : Go(d)
  /\ Undisciplined(c)
  /\ UNCHANGED <<status, gen, stack, after, ops, told, logged, crossed, steps, control>>

(* Yields, and the two ways out.  A plain function has none of the first.  *)
Yield(c, f) ==
  /\ User(c) /\ Top(c) # "plain"
  /\ SetTop(c, f)
  /\ Goto("run")
  /\ UNCHANGED <<life, status, stack, timer, timerq, after, ops, told, logged, crossed,
                 exc, phase, stopped>>

YieldPointer(c) ==
  /\ wait[c] # 0
  /\ IF status[c] = 0 THEN Spend ELSE UNCHANGED steps
  /\ Yield(c, "ptr")
  /\ UNCHANGED forgot

YieldGenerator(c) ==
  /\ Len(gen[c]) < MaxDepth /\ Spend
  /\ Yield(c, "gen")
  /\ Undisciplined(c)

YieldValue(c) ==
  /\ Spend
  /\ Yield(c, "val")
  /\ Undisciplined(c)

Return(c) ==
  /\ User(c)
  /\ SetTop(c, "end")
  /\ Goto("run")
  /\ Undisciplined(c)
  /\ UNCHANGED <<life, status, stack, timer, timerq, after, ops, told, logged, crossed,
                 exc, phase, stopped, steps>>

(* An exception of c's own code, or one that reached it, and is not caught. *)
Throw(c) ==
  /\ In(c, "user")
  /\ exc' = IF exc = NoCo THEN c ELSE exc
  /\ SetTop(c, "thrown")
  /\ Goto("run")
  /\ Undisciplined(c)
  /\ UNCHANGED <<life, status, stack, timer, timerq, after, ops, told, logged, crossed,
                 phase, stopped, steps>>

Catch(c) ==
  /\ In(c, "user") /\ exc # NoCo
  /\ exc' = NoCo
  /\ UNCHANGED <<coro, ctl, phase, stopped, ops, ghosts, steps>>
-----------------------------------------------------------------------------
(* close(): status_ > 0 ends in php::fail, which is a fatal PHP error; the *)
(* code after it is taken too, in case a handler lets it return.           *)

\* mutant: a generator below the top is not resumed
Close_Flat(c, st) ==
  /\ told' = IF st > 0 \/ exc # NoCo THEN told \cup {c} ELSE told
  /\ Leave
  /\ status' = [status EXCEPT ![c] = -1]
  /\ timer' = [timer EXCEPT ![c] = "closing"]
  /\ timerq' = Unqueued(c)
  /\ UNCHANGED <<phase, exc, stopped>>

Close(c, st) ==
  /\ told' = IF st > 0 \/ exc # NoCo THEN told \cup {c} ELSE told
  /\ \/ /\ st > 0
        /\ phase' = "fatal"
        /\ UNCHANGED <<ctl, exc, stopped, status, timer, timerq, crossed>>
     \/ /\ Leave
        /\ timerq' = IF Len(gen[c]) = 1 THEN Unqueued(c)
                     ELSE Append(Unqueued(c), c)
        /\ status' = [status EXCEPT ![c] = IF Len(gen[c]) = 1 THEN -1 ELSE 0]
        /\ timer' = [timer EXCEPT ![c] = IF Len(gen[c]) = 1 THEN "closing" ELSE "resume"]
        /\ UNCHANGED <<phase, exc, stopped>>

(* The turns of the loop in run().                                         *)

RunRest(c) == In(c, "run") /\ UNCHANGED <<life, stack, after, ops, forgot, logged, steps>>

RunFailed(c) ==
  /\ RunRest(c)
  /\ exc # NoCo
  /\ Close(c, 0)
  /\ UNCHANGED gen

\* mutant: the end of a generator is not checked for operations in flight
RunEnded_Unchecked(c) ==
  /\ RunRest(c) /\ exc = NoCo /\ Top(c) \in {"end", "thrown"}
  /\ Close(c, 0)
  /\ UNCHANGED gen

RunEnded(c) ==
  /\ RunRest(c)
  /\ exc = NoCo
  /\ Top(c) \in {"end", "thrown"}
  /\ Close(c, status[c])
  /\ UNCHANGED gen

(* valid() enters a new generator, send() goes on after a plain value.     *)
RunOn(c) ==
  /\ RunRest(c)
  /\ exc = NoCo
  /\ Top(c) \in {"fresh", "val"}
  /\ SetTop(c, "run")
  /\ Goto("user")
  /\ UNCHANGED <<status, timer, timerq, told, crossed, exc, phase, stopped>>

RunNested(c) ==
  /\ RunRest(c)
  /\ exc = NoCo
  /\ Top(c) = "gen"
  /\ gen' = [gen EXCEPT ![c] = Append(@, "fresh")]
  /\ UNCHANGED <<status, timer, timerq, told, crossed, control>>

\* mutant: status_ is not taken back when the pointer is yielded
RunPointer_Uncounted(c) ==
  /\ RunRest(c) /\ exc = NoCo /\ Top(c) = "ptr"
  /\ Leave
  /\ UNCHANGED <<gen, exc, told, status, timer, timerq, phase, stopped>>

RunPointer(c) ==
  /\ RunRest(c)
  /\ exc = NoCo
  /\ Top(c) = "ptr"
  /\ status' = [status EXCEPT ![c] = 0]
  /\ \/ /\ status[c] = 1
        /\ Leave
        /\ UNCHANGED <<gen, exc, told>>
     \/ /\ status[c] # 1
        /\ exc' = c
        /\ told' = told \cup {c}
        /\ SetTop(c, "run")
        /\ Goto("user")
        /\ UNCHANGED crossed
  /\ UNCHANGED <<timer, timerq, phase, stopped>>

-----------------------------------------------------------------------------
(* next() and fail(): the coroutine goes on, with a value or an exception  *)
(* (e is the one to raise, NoCo for none).  While another exception is     *)
(* pending the generator is not resumed, but run() is.                     *)

Resume(c, g, e) ==
  LET free == exc \in {NoCo, e} IN
  /\ crossed' = IF exc \in {NoCo, c} THEN crossed ELSE crossed \cup {c, exc}
  /\ exc' = IF free THEN e ELSE exc
  /\ IF free /\ Last(g) \in {"ptr", "gen"}
     THEN /\ gen' = [gen EXCEPT ![c] = Append(Front(g), "run")]
          /\ Enter(c, "user")
     ELSE /\ gen' = [gen EXCEPT ![c] = g]
          /\ Enter(c, "run")

\* mutant: a value that finds a stage in stack_ is taken, but nothing goes on
Deliver_StageLost(c, g, e) ==
  /\ IF e = NoCo /\ stack[c] > 0
     THEN /\ gen' = [gen EXCEPT ![c] = g]
          /\ UNCHANGED <<exc, ctl, crossed>>
     ELSE Resume(c, g, e)
  /\ stack' = [stack EXCEPT ![c] = IF e = NoCo /\ @ > 0 THEN @ - 1 ELSE 0]
  /\ UNCHANGED <<owner, wait>>

(* With a stage left in stack_, a value goes to that stage: it starts the  *)
(* next operation, for the same yield, or goes on at once.  An exception   *)
(* drops the stages.                                                       *)
Deliver(c, g, e) ==
  \/ /\ e = NoCo /\ stack[c] > 0 /\ Len(owner) < MaxOps
     /\ stack' = [stack EXCEPT ![c] = @ - 1]
     /\ owner' = Append(owner, c)
     /\ wait' = [wait EXCEPT ![c] = Len(owner) + 1]
     /\ gen' = [gen EXCEPT ![c] = g]
     /\ UNCHANGED <<exc, ctl, crossed>>
  \/ /\ stack' = [stack EXCEPT ![c] = IF e = NoCo /\ @ > 0 THEN @ - 1 ELSE 0]
     /\ Resume(c, g, e)
     /\ UNCHANGED <<owner, wait>>

\* where a callback can come from: the loop, or a call another coroutine makes
CanComplete(c) ==
  \/ Looping("timers") \/ Looping("poll")
  \/ c \notin Running /\ \E d \in Running : User(d) /\ status[d] = 0

Complete(o) ==
  LET c == owner[o] IN
  /\ Pending(o) /\ CanComplete(c)
  /\ done' = done \cup {o}
  /\ \/ /\ life[c] = "freed"
        /\ phase' = "crashed"            \* next() on a deleted object
        /\ UNCHANGED <<gen, stack, exc, ctl, crossed, owner, wait>>
     \/ /\ life[c] = "alive" /\ status[c] < 0
        /\ UNCHANGED <<gen, stack, exc, ctl, crossed, owner, wait, phase>>
     \/ /\ life[c] = "alive" /\ status[c] >= 0
        /\ \E e \in {NoCo, c} : Deliver(c, gen[c], e)
        /\ UNCHANGED phase
  /\ UNCHANGED <<life, status, timer, timerq, after, told, forgot, logged, stopped, steps>>

-----------------------------------------------------------------------------
(* The callbacks of timer_.                                                *)

Due(c, use) == Looping("timers") /\ timerq # << >> /\ Head(timerq) = c /\ timer[c] = use

StartCb(c) ==
  /\ Due(c, "start")
  /\ timerq' = Tail(timerq)
  /\ timer' = [timer EXCEPT ![c] = "idle"]
  /\ \/ /\ exc # NoCo                \* never entered, or closed by run() at once
        /\ crossed' = crossed \cup {c, exc}
        /\ \/ UNCHANGED <<gen, ctl>>
           \/ gen' = [gen EXCEPT ![c] = <<"fresh">>] /\ Enter(c, "run")
     \/ /\ exc = NoCo
        /\ \/ gen' = [gen EXCEPT ![c] = <<"fresh">>] /\ Enter(c, "run")
           \/ gen' = [gen EXCEPT ![c] = <<"plain">>] /\ Enter(c, "user")
        /\ UNCHANGED crossed
  /\ UNCHANGED <<life, status, stack, after, exc, phase, stopped, ops, told, forgot, logged, steps>>

\* mutant: the exception of the nested generator is switched off, not passed on
ResumeCb_Dropped(c) ==
  /\ Due(c, "resume")
  /\ timerq' = Tail(timerq)
  /\ timer' = [timer EXCEPT ![c] = "idle"]
  /\ gen' = [gen EXCEPT ![c] = Append(Front(Front(@)), "run")]
  /\ exc' = NoCo
  /\ Enter(c, "user")
  /\ UNCHANGED <<life, status, stack, after, phase, stopped, ops, ghosts, steps>>

(* The parent of a finished generator goes on: with its value, or with     *)
(* whatever exception is pending.                                          *)
ResumeCb(c) ==
  /\ Due(c, "resume")
  /\ timerq' = Tail(timerq)
  /\ timer' = [timer EXCEPT ![c] = "idle"]
  /\ Deliver(c, Front(gen[c]), exc)
  /\ UNCHANGED <<life, status, after, phase, stopped, done, told, forgot, logged, steps>>

\* mutant: after_ is called whatever became of the coroutine
CloseCb_Always(c) ==
  /\ Looping("closing") /\ timer[c] = "closing"
  /\ life' = [life EXCEPT ![c] = "freed"]
  /\ timer' = [timer EXCEPT ![c] = "idle"]
  /\ after' = [after EXCEPT ![c] = TRUE]
  /\ stopped' = (stopped \/ exc # NoCo)
  /\ UNCHANGED <<timerq, status, gen, stack, ops, ghosts, steps, ctl, exc, phase>>

(* after_.func may start the next coroutine of a session.                  *)
CloseCb(c) ==
  /\ Looping("closing")
  /\ timer[c] = "closing"
  /\ \/ /\ exc # NoCo
        /\ stopped' = TRUE
        /\ life' = [life EXCEPT ![c] = "freed"]
        /\ timer' = [timer EXCEPT ![c] = "idle"]
        /\ UNCHANGED <<after, timerq>>
     \/ /\ exc = NoCo
        /\ after' = [after EXCEPT ![c] = TRUE]
        /\ \/ /\ life' = [life EXCEPT ![c] = "freed"]
              /\ timer' = [timer EXCEPT ![c] = "idle"]
              /\ UNCHANGED timerq
           \/ \E d \in Cos :
                /\ life[d] = "unborn"
                /\ life' = [life EXCEPT ![c] = "freed", ![d] = "alive"]
                /\ timer' = [timer EXCEPT ![c] = "idle", ![d] = "start"]
                /\ timerq' = Append(timerq, d)
        /\ UNCHANGED stopped
  /\ UNCHANGED <<status, gen, stack, ops, ghosts, steps, ctl, exc, phase>>

-----------------------------------------------------------------------------
(* The main script, and the loop around the callbacks (libuv).             *)

ScriptGo ==
  /\ Looping("script")
  /\ \E d \in Cos : Go(d)
  /\ UNCHANGED <<status, gen, stack, after, control, ops, ghosts, steps>>

Closings == {c \in Cos : timer[c] = "closing"}
Active   == timerq # << >> \/ \E o \in 1 .. Len(owner) : Pending(o)

(* All due timers run; poll waits for an operation if there is nothing     *)
(* else to do; every close callback runs; then uv_run goes on or returns.  *)
LoopPhase ==
  /\ ctl = << >>
  /\ \/ phase = "script" /\ phase' = "timers"
     \/ phase = "timers" /\ timerq = << >> /\ phase' = "poll"
     \/ /\ phase = "poll"
        /\ Closings # {} \/ timerq # << >> \/ ~Active
        /\ phase' = "closing"
     \/ /\ phase = "closing" /\ Closings = {}
        /\ phase' = IF stopped \/ ~Active THEN "returned" ELSE "timers"
  /\ UNCHANGED <<coro, ctl, exc, stopped, ops, ghosts, steps>>

Gone == phase \in Over /\ UNCHANGED vars

Next ==
  \/ \E c \in Cos :
       \/ CallAsync(c) \/ CallAsyncRefused(c) \/ CallLogs(c) \/ CallGo(c)
       \/ YieldPointer(c) \/ YieldGenerator(c) \/ YieldValue(c)
       \/ Return(c) \/ Throw(c) \/ Catch(c)
       \/ RunFailed(c) \/ RunEnded(c) \/ RunOn(c) \/ RunNested(c) \/ RunPointer(c)
       \/ StartCb(c) \/ ResumeCb(c) \/ CloseCb(c)
  \/ \E o \in 1 .. MaxOps : Complete(o)
  \/ ScriptGo
  \/ LoopPhase
  \/ Gone

Spec == Init /\ [][Next]_vars

(* The loop runs, every operation is answered, PHP code does not run for   *)
(* ever (MaxSteps sees to it).                                             *)
FairSpec == Spec /\ WF_vars(Next)

-----------------------------------------------------------------------------
(* Properties.                                                             *)

TypeOK ==
  /\ life \in [Cos -> {"unborn", "alive", "freed"}]
  /\ status \in [Cos -> -1 .. 1]
  /\ gen \in [Cos -> Seq(Frames)] /\ \A c \in Cos : Len(gen[c]) <= MaxDepth
  /\ stack \in [Cos -> Nat]
  /\ timer \in [Cos -> {"idle", "start", "resume", "closing"}]
  /\ timerq \in Seq(Cos)
  /\ after \in [Cos -> BOOLEAN]
  /\ exc \in Cos \cup {NoCo}
  /\ ctl \in Seq([co : Cos, at : {"user", "run"}])
  /\ phase \in {"script", "timers", "poll", "closing"} \cup Over
  /\ stopped \in BOOLEAN
  /\ owner \in Seq(Cos) /\ Len(owner) <= MaxOps /\ done \subseteq 1 .. Len(owner)
  /\ wait \in [Cos -> 0 .. MaxOps]
  /\ told \subseteq Cos /\ forgot \subseteq Cos /\ logged \subseteq Cos /\ crossed \subseteq Cos
  /\ steps \in 0 .. MaxSteps

(* An operation in flight finds its coroutine where it left it: alive and  *)
(* suspended at the yield of that very operation, or still on the way to   *)
(* that yield; so next() and fail() never resume a wrong yield and never   *)
(* touch a deleted object.  (Coroutines that forgot a yield excepted.)     *)
WakesOwnYield ==
  \A o \in 1 .. Len(owner) :
    LET c == owner[o] IN
    (Pending(o) /\ c \notin forgot \cup logged) =>
      /\ life[c] = "alive" /\ timer[c] = "idle" /\ wait[c] = o
      /\ \/ status[c] = 0 /\ Top(c) = "ptr" /\ c \notin Running
         \/ status[c] \in {0, 1} /\ c \in Running

(* A coroutine closes because its own outermost generator returned or      *)
(* threw, never because of what another coroutine did; "crossed" names     *)
(* those caught by the exception of another.                               *)
ClosesOnItsOwn ==
  \A c \in Cos \ crossed :
    status[c] = -1 => gen[c] \in {<<"end">>, <<"thrown">>}

(* A forgotten yield does not pass in silence: a coroutine that closes     *)
(* with its operation still in flight has been told; unless an exception   *)
(* ended one of its generators (line 109 drops the count) or the logger    *)
(* resumed it.                                                             *)
ForgottenYieldReported ==
  \A c \in Cos \ crossed :
    (status[c] = -1 /\ gen[c] = <<"end">> /\ wait[c] # 0 /\ Pending(wait[c]))
      => c \in told \/ c \in logged

(* after_ continues a session exactly when its coroutine returned.         *)
AfterSuccess ==
  \A c \in Cos \ crossed :
    /\ after[c] => gen[c] = <<"end">>
    /\ (life[c] = "freed" /\ gen[c] = <<"end">>) => after[c] \/ stopped

(* An exception a nested generator does not catch reaches its parent.      *)
NestedFailureReachesParent ==
  [][\A c \in Cos :
       (/\ Len(gen'[c]) < Len(gen[c]) /\ Len(gen'[c]) > 0
        /\ Top(c) = "thrown" /\ c \notin crossed')
         => exc' = c]_vars

(* Every coroutine started comes to its end, and flame\run waits for it     *)
(* (docs/index.md), unless the process ends by an uncaught exception or a  *)
(* fatal error, the exception of another coroutine interferes, or it       *)
(* forgot a yield or was resumed by the logger itself.                     *)
EveryCoroutineEnds ==
  \A c \in Cos :
    (life[c] = "alive") ~>
      (\/ life[c] = "freed" \/ stopped \/ phase \in {"fatal", "crashed"}
       \/ c \in crossed \cup forgot \cup logged)

(* docs/index.md, flame\go: coroutines can be taken to run independently   *)
(* of each other.  When run() returns although no exception went uncaught  *)
(* and no yield was forgotten, every coroutine ran to its own end.         *)
CoroutinesIndependent ==
  (phase = "returned" /\ ~stopped /\ forgot \cup logged = {}) =>
    \A c \in Cos : life[c] # "unborn" =>
      life[c] = "freed" /\ gen[c] \in {<<"end">>, <<"thrown">>}
=============================================================================
