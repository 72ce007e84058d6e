------------------------------- MODULE Script -------------------------------
(***************************************************************************)
(* The coroutines of a script and the C stack of the thread they run on    *)
(* (src/flame/coroutine.cpp: next and fail run the coroutine at once,      *)
(* inside the function that calls them, until it waits or ends).           *)
(* frames is that stack: coroutines that are running, and below each the   *)
(* rest of the C++ function that resumed it.  It is empty in the libuv     *)
(* loop, and the process is gone when it ends with Crash.                  *)
(***************************************************************************)
EXTENDS Naturals, Sequences, SequencesExt

CONSTANTS Cos,      \* coroutines of the script
          MaxCalls  \* bound: calls that wait, all coroutines together

ASSUME ScriptAssumption == Cos \subseteq Nat \ {0} /\ MaxCalls \in Nat

VARIABLES frames, \* the C stack
          st,     \* per coroutine: "ready", "run", "ended" or what it waits for
          calls   \* number of calls made

scriptVars == <<frames, st, calls>>

Rest(k)  == [k |-> k, c |-> 0]        \* the rest of a C++ function
Frame(c) == [k |-> "co", c |-> c]     \* a coroutine that runs
Crash    == Rest("crash")             \* an assertion or a null pointer

ScriptInit == frames = <<>> /\ st = [c \in Cos |-> "ready"] /\ calls = 0

Loop       == frames = <<>>
Running(c) == frames # <<>> /\ Last(frames) = Frame(c)
Returns(k) == frames # <<>> /\ Last(frames) = Rest(k)
Crashed    == frames # <<>> /\ Last(frames) = Crash

\* coroutine c makes a call
Call(c) == Running(c) /\ calls < MaxCalls /\ calls' = calls + 1

\* yield: c waits for w, and the function that resumed it goes on
Waits(c, w) == st' = [st EXCEPT ![c] = w] /\ frames' = Front(frames)

\* co->next, co->fail on top of the stack below
Resume(c, below) == st' = [st EXCEPT ![c] = "run"] /\ frames' = Append(below, Frame(c))

Crashes == frames' = Append(frames, Crash) /\ UNCHANGED st

\* a timer or another object resumes c
Begin(c) == Loop /\ st[c] = "ready" /\ Resume(c, <<>>) /\ UNCHANGED calls

\* c waits for something else
Sleep(c) == Call(c) /\ Waits(c, "ready")

End(c) == Running(c) /\ Waits(c, "ended") /\ UNCHANGED calls

\* a pointer to coroutine c, at some place of the program
Pointer(at, c) == [at |-> at, c |-> c]
=============================================================================
