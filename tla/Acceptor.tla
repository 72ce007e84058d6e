------------------------------ MODULE Acceptor ------------------------------
(***************************************************************************)
(* A TCP or unix server of a script (src/flame/net/server_acceptor.h and   *)
(* tcp_server, unix_server on top of it).  run() waits until the server    *)
(* closes or an accept fails.                                              *)
(***************************************************************************)
EXTENDS Script

VARIABLES
  svr,       \* "open", "bound", "closed": null
  listening, \* uv_listen is in effect
  aco        \* the acceptor's co_, 0: null

acceptorVars == <<svr, listening, aco>>

AcceptorInit == svr = "open" /\ listening = FALSE /\ aco = 0

ServerBind(c) ==
  /\ Running(c) /\ svr = "open" /\ svr' = "bound"
  /\ UNCHANGED <<listening, aco>> /\ UNCHANGED scriptVars

AcceptorClose(below) ==
  IF aco = 0 THEN frames' = below /\ UNCHANGED <<aco, st>>
  ELSE aco' = 0 /\ Resume(aco, below)

\* run; uv_listen may fail, then run throws
ServerRun(c) ==
  /\ Call(c) /\ svr = "bound" /\ aco = 0
  /\ \/ aco' = c /\ listening' = TRUE /\ Waits(c, "serve")
     \/ UNCHANGED <<aco, listening, frames, st>>
  /\ UNCHANGED svr

\* connection_cb; a connection is accepted ...
Connection ==
  /\ Loop /\ listening
  /\ UNCHANGED acceptorVars /\ UNCHANGED scriptVars

\* ... or not: run fails, and the server goes on listening
ConnectionFails ==
  /\ Loop /\ listening
  /\ AcceptorClose(<<>>)
  /\ UNCHANGED <<svr, listening, calls>>

ServerClose(c) ==
  /\ Call(c) /\ svr # "closed"
  /\ AcceptorClose(Append(frames, Rest("server")))
  /\ UNCHANGED <<svr, listening>>

\* after acc.close(): who was resumed may have closed the server meanwhile
ServerClosed ==
  /\ Returns("server")
  /\ \/ svr = "closed" /\ Crashes /\ UNCHANGED <<svr, listening>>
     \/ /\ svr # "closed" /\ svr' = "closed" /\ listening' = FALSE
        /\ frames' = Front(frames) /\ UNCHANGED st
  /\ UNCHANGED <<calls, aco>>

AcceptorNext ==
  \/ ConnectionFails \/ ServerClosed
  \/ \E c \in Cos : ServerBind(c) \/ ServerRun(c) \/ ServerClose(c)
=============================================================================
