------------------------------- MODULE Logger -------------------------------
(***************************************************************************)
(* A logger (src/flame/log/logger.cpp): the default one, or an object of a *)
(* script.  Its output is opened again by SIGUSR2 and by set_output while  *)
(* coroutines wait for what they have written.                             *)
(***************************************************************************)
EXTENDS Script

VARIABLES
  file_, \* "closed": 0; "stream": -1, -2; "file"; "failed": another error
  pipe_, \* pipe_ is not null
  path_, \* "stream" or "file"
  lreqs  \* who waits for the uv_write requests

logVars == <<file_, pipe_, path_, lreqs>>

\* init of the default logger opens stderr, and set_output of it may have
\* opened a file since; an object opens nothing
LogInit ==
  /\ file_ \in {"stream", "closed", "file"} /\ pipe_ = (file_ = "file")
  /\ path_ = (IF file_ = "file" THEN "file" ELSE "stream") /\ lreqs = <<>>

\* rotate: the output is closed (and with the pipe the requests are
\* cancelled, later) and opened.  The error of an open that fails is taken
\* for a file: -1 and -2 for a stream
Rotate(path, opens) ==
  /\ pipe_' = (path = "file" /\ opens)
  /\ \/ path = "stream" /\ file_' = "stream"
     \/ path = "file" /\ opens /\ file_' = "file"
     \/ path = "file" /\ ~opens /\ file_' \in {"stream", "failed"}

\* set_output throws when the file cannot be opened
SetOutput(c) ==
  /\ Call(c)
  /\ path_' \in {"stream", "file"}
  /\ \E opens \in BOOLEAN : Rotate(path_', opens)
  /\ UNCHANGED <<frames, st, lreqs>>

\* signal_cb: that exception leaves a callback of libuv
SignalCb ==
  /\ Loop /\ calls < MaxCalls /\ calls' = calls + 1
  /\ \E opens \in BOOLEAN :
       /\ Rotate(path_, opens)
       /\ IF path_ = "file" /\ ~opens THEN Crashes ELSE UNCHANGED <<frames, st>>
  /\ UNCHANGED <<path_, lreqs>>

\* write, fail, warn, info
LogWrite(c) ==
  /\ Call(c) /\ UNCHANGED <<file_, pipe_, path_>>
  /\ \/ file_ = "stream" /\ UNCHANGED <<frames, st, lreqs>>
     \/ file_ # "stream" /\ pipe_ /\ lreqs' = Append(lreqs, c) /\ Waits(c, "log")
     \/ file_ # "stream" /\ ~pipe_ /\ Crashes /\ UNCHANGED lreqs

\* write_cb, whatever the status
LogWriteCb ==
  /\ Loop /\ lreqs # <<>>
  /\ lreqs' = Tail(lreqs) /\ Resume(Head(lreqs), <<>>)
  /\ UNCHANGED <<calls, file_, pipe_, path_>>

LogNext ==
  \/ SignalCb \/ LogWriteCb
  \/ \E c \in Cos :
       \/ SetOutput(c) \/ LogWrite(c)
       \/ (Begin(c) \/ Sleep(c) \/ End(c)) /\ UNCHANGED logVars

LogPointers == {Pointer(i, lreqs[i]) : i \in DOMAIN lreqs}
=============================================================================
