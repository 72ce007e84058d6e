------------------------------- MODULE Ticker -------------------------------
(***************************************************************************)
(* A ticker of a script (src/flame/time/ticker.cpp).  Each tick is a       *)
(* coroutine of its own, here one that is free, and gets the ticker as its *)
(* argument; after_cb follows it in a later phase of the loop.             *)
(***************************************************************************)
EXTENDS Script

VARIABLES
  tick,    \* "none", "held" by a variable of the script, "let_go", "gone"
  repeat,  \* property "repeat"
  tm_,     \* the timer: "off", "on"
  self_,   \* ref_ keeps the object
  ticking, \* coroutines of ticks whose after_cb is to come
  meddled  \* history: stop or start during a tick

tickVars == <<tick, repeat, tm_, self_, ticking, meddled>>

TickInit ==
  /\ tick = "none" /\ repeat = FALSE /\ tm_ = "off" /\ self_ = FALSE
  /\ ticking = {} /\ meddled = FALSE

\* a coroutine holds the arguments of its function until it ends
KeepsTicker == tick = "held" \/ self_ \/ \E c \in ticking : st[c] # "ended"
TickSettled == tick = "let_go" => KeepsTicker

CanTell(c) == Running(c) /\ (tick = "held" \/ (c \in ticking /\ tick = "let_go"))

\* __construct, and start of the new object: after() and tick()
NewTicker(c) ==
  /\ Running(c) /\ tick = "none"
  /\ tick' = "held" /\ repeat' \in BOOLEAN /\ tm_' = "on" /\ self_' = TRUE
  /\ UNCHANGED <<ticking, meddled>> /\ UNCHANGED scriptVars

Start(c) ==
  /\ Call(c) /\ CanTell(c)
  /\ tm_' = "on" /\ self_' = TRUE /\ meddled' = (meddled \/ ticking # {})
  /\ UNCHANGED <<frames, st, tick, repeat, ticking>>

Stop(c) ==
  /\ CanTell(c)
  /\ tm_' = "off" /\ self_' = FALSE /\ meddled' = (meddled \/ ticking # {})
  /\ UNCHANGED <<tick, repeat, ticking>> /\ UNCHANGED scriptVars

LetGo(c) ==
  /\ Running(c) /\ tick = "held" /\ tick' = "let_go"
  /\ UNCHANGED <<repeat, tm_, self_, ticking, meddled>> /\ UNCHANGED scriptVars

\* tick_cb: the coroutine is created and will be started
TickCb ==
  /\ Loop /\ tm_ = "on" /\ calls < MaxCalls /\ calls' = calls + 1
  /\ \E c \in Cos \ ticking :
       /\ st[c] = "ended" /\ st' = [st EXCEPT ![c] = "ready"]
       /\ ticking' = ticking \union {c}
  /\ tm_' = IF repeat THEN "on" ELSE "off"
  /\ UNCHANGED <<frames, tick, repeat, self_, meddled>>

\* after_cb, of an object that may be gone
AfterCb(c) ==
  /\ Loop /\ c \in ticking /\ st[c] = "ended"
  /\ ticking' = ticking \ {c}
  /\ \/ tick = "gone" /\ Crashes /\ UNCHANGED self_
     \/ self_' = (self_ /\ repeat) /\ UNCHANGED <<frames, st>>
  /\ UNCHANGED <<calls, tick, repeat, tm_, meddled>>

\* __destruct, as soon as nothing keeps the object
TickerGone ==
  /\ ~TickSettled /\ ~Crashed
  /\ tick' = "gone" /\ tm_' = "off"
  /\ UNCHANGED <<repeat, self_, ticking, meddled>> /\ UNCHANGED scriptVars

TickNext ==
  \/ TickerGone
  \/ /\ TickSettled
     /\ \/ TickCb
        \/ \E c \in Cos :
             \/ NewTicker(c) \/ Start(c) \/ Stop(c) \/ LetGo(c) \/ AfterCb(c)
             \/ (Begin(c) \/ Sleep(c) \/ End(c)) /\ UNCHANGED tickVars
=============================================================================
