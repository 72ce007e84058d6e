---------------------------- MODULE ChildProcess ----------------------------
(***************************************************************************)
(* A process object of a script (src/flame/os/process.cpp) with the child  *)
(* it starts and the message pipe to it.                                   *)
(***************************************************************************)
EXTENDS Messenger

CONSTANT OptionSets \* sequences of options, in the order the script gives them

ASSUME OptionsAssumption == OptionSets \subseteq Seq({"detach", "stdout", "stderr", "ipc"})

VARIABLES
  obj,    \* the object: "none", "held", "gone"
  child,  \* "none", "up", "ended", "reaped"
  exit_, detach_,
  wco,    \* co_, 0: null
  signalled \* history: kill was called

procVars == <<obj, child, exit_, detach_, wco, signalled>>
vars == <<frames, st, calls, pipe, wq, local, wire, stat_, size_, data_, pend,
          cb_type, handlers, sent, got, sentSocks, gotSocks, unheard,
          obj, child, exit_, detach_, wco, signalled>>

Init ==
  /\ ScriptInit /\ MessengerInit
  /\ obj = "none" /\ child = "none" /\ exit_ = FALSE /\ detach_ = FALSE
  /\ wco = 0 /\ signalled = FALSE

Given(opts, k) == \E i \in DOMAIN opts : opts[i] = k

\* options_flags: stdout, stderr and ipc take detach back when they come after it
Detached(opts) ==
  \E i \in DOMAIN opts :
    opts[i] = "detach" /\ \A j \in DOMAIN opts : j > i => opts[j] = "detach"

\* ... and the pipe for stderr is made on the object of stdout
StderrCrashes(opts) ==
  \E i \in DOMAIN opts : opts[i] = "stderr" /\ \A j \in 1 .. i : opts[j] # "stdout"

\* __construct.  When uv_spawn fails ~process follows: it closes the pipe,
\* and kills a pid that may never have been set, in the worst case our own
Spawn(c, opts) ==
  /\ Running(c) /\ obj = "none"
  /\ IF StderrCrashes(opts) THEN Crashes /\ UNCHANGED <<obj, child, detach_, pipe>>
     ELSE /\ detach_' = Detached(opts)
          /\ \/ /\ obj' = "held" /\ child' = "up" /\ UNCHANGED <<frames, st>>
                /\ pipe' = IF Given(opts, "ipc") THEN "open" ELSE "none"
             \/ /\ obj' = "gone" /\ UNCHANGED child
                /\ pipe' = IF Given(opts, "ipc") THEN "closed" ELSE "none"
                /\ \/ UNCHANGED <<frames, st>>
                   \/ ~Detached(opts) /\ Crashes
  /\ UNCHANGED <<calls, exit_, wco, signalled, wq, local, wire, stat_, size_, data_,
                 pend, cb_type, handlers, sent, got, sentSocks, gotSocks, unheard>>

\* send does nothing without a pipe, or when the child is detached
Send(c) ==
  /\ obj = "held" /\ ~detach_
  /\ (\E len \in Lens : SendString(c, len)) \/ (\E s \in Socks : SendSocket(c, s))
  /\ UNCHANGED procVars

Kill(c) ==
  /\ Call(c) /\ obj = "held"
  /\ exit_' = TRUE /\ signalled' = TRUE
  /\ UNCHANGED <<frames, st, obj, child, detach_, wco>> /\ UNCHANGED msgVars

\* wait returns at once after an exit, or after kill; one coroutine only may
\* wait, as docs/flame_os.md asks
Wait(c) ==
  /\ Call(c) /\ obj = "held" /\ wco = 0
  /\ IF exit_ THEN UNCHANGED <<frames, st, wco>> ELSE wco' = c /\ Waits(c, "wait")
  /\ UNCHANGED <<obj, child, exit_, detach_, signalled>> /\ UNCHANGED msgVars

\* the child ends, of itself or by a signal it was sent
ChildEnds ==
  /\ child = "up" /\ child' = "ended"
  /\ UNCHANGED <<obj, exit_, detach_, wco, signalled>>
  /\ UNCHANGED scriptVars /\ UNCHANGED msgVars

\* mutant: the waiting coroutine is resumed only by an exit that kill did not note
ExitCb_Noted ==
  /\ Loop /\ child = "ended" /\ obj = "held"
  /\ child' = "reaped" /\ exit_' = TRUE
  /\ IF wco # 0 /\ ~exit_ THEN Resume(wco, <<Rest("exit")>>) ELSE UNCHANGED <<frames, st>>
  /\ UNCHANGED <<calls, obj, detach_, wco, signalled>> /\ UNCHANGED msgVars

ExitCb ==
  /\ Loop /\ child = "ended" /\ obj = "held"
  /\ child' = "reaped" /\ exit_' = TRUE
  /\ IF wco # 0 THEN Resume(wco, <<Rest("exit")>>) ELSE UNCHANGED <<frames, st>>
  /\ UNCHANGED <<calls, obj, detach_, wco, signalled>> /\ UNCHANGED msgVars

\* co_ is cleared after the coroutine ran, in an object that may be gone
ExitCbEnds ==
  /\ Returns("exit") /\ wco' = 0
  /\ \/ obj = "gone" /\ Crashes
     \/ frames' = Front(frames) /\ UNCHANGED st
  /\ UNCHANGED <<calls, obj, child, exit_, detach_, signalled>> /\ UNCHANGED msgVars

\* mutant: the child is left alone when a coroutine waits for it
Drop_Waited(c) ==
  /\ Running(c) /\ obj = "held" /\ obj' = "gone"
  /\ child' = IF ~exit_ /\ ~detach_ /\ wco = 0 /\ child = "up" THEN "ended" ELSE child
  /\ pipe' = IF pipe = "open" THEN "closed" ELSE pipe
  /\ UNCHANGED <<exit_, detach_, wco, signalled>> /\ UNCHANGED scriptVars
  /\ UNCHANGED <<wq, local, wire, stat_, size_, data_, pend, cb_type, handlers,
                 sent, got, sentSocks, gotSocks, unheard>>

\* ~process: SIGKILL, and the pipe is closed
Drop(c) ==
  /\ Running(c) /\ obj = "held" /\ obj' = "gone"
  /\ child' = IF ~exit_ /\ ~detach_ /\ child = "up" THEN "ended" ELSE child
  /\ pipe' = IF pipe = "open" THEN "closed" ELSE pipe
  /\ UNCHANGED <<exit_, detach_, wco, signalled>> /\ UNCHANGED scriptVars
  /\ UNCHANGED <<wq, local, wire, stat_, size_, data_, pend, cb_type, handlers,
                 sent, got, sentSocks, gotSocks, unheard>>

Next ==
  \/ ChildEnds \/ ExitCb \/ ExitCbEnds
  \/ SendCb /\ UNCHANGED procVars
  \/ child = "up" /\ ReceiverStep /\ UNCHANGED procVars
  \/ \E c \in Cos :
       \/ Send(c) \/ Kill(c) \/ Wait(c) \/ Drop(c)
       \/ \E opts \in OptionSets : Spawn(c, opts)
       \/ (Begin(c) \/ Sleep(c) \/ End(c)) /\ UNCHANGED procVars /\ UNCHANGED msgVars

\* libuv serves every request, and the child ends some day
Spec == Init /\ [][Next]_vars /\ WF_vars(Next)

-----------------------------------------------------------------------------
(* Properties.                                                             *)

(* messenger.cpp line 49: the strings that arrive are the first of those   *)
(* that were sent, whole and in order, and so are the sockets, however     *)
(* both are mixed, once the receiver has its callbacks.                    *)
MessagesInOrder ==
  ~unheard =>
    /\ got = SubSeq(sent, 1, Len(got))
    /\ gotSocks = SubSeq(sentSocks, 1, Len(gotSocks))

(* docs/flame_os.md: unless it was detached, the child does not outlive    *)
(* the object, whoever drops it and whoever waits.  (kill() with any       *)
(* signal marks the child as ended, and then it may: process.cpp line 159.)*)
NoOrphan == obj = "gone" /\ ~detach_ /\ ~signalled => child # "up"

(* A coroutine that sends or waits goes on, as long as the object is there *)
(* and (process.cpp line 172) until a waiting coroutine drops it.          *)
CallsReturn ==
  \A c \in Cos : st[c] \in {"send", "wait"} ~>
    st[c] \notin {"send", "wait"} \/ (st[c] = "wait" /\ obj = "gone") \/ Crashed

(* docs/flame_os.md: strings of up to 65535 bytes can be sent.  When all   *)
(* that was sent is read, all of it has arrived.                           *)
MessagesArrive == wire = <<>> /\ ~unheard => got = sent
=============================================================================
