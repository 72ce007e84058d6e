-------------------------------- MODULE Net ---------------------------------
(***************************************************************************)
(* A script with a server, a stream socket (that it connects, or that the  *)
(* server accepts) and a UDP socket: its coroutines share the thread, and  *)
(* closing one object runs them inside the call.                           *)
(***************************************************************************)
EXTENDS StreamSocket, UdpSocket, Acceptor

vars == <<frames, st, calls,
          conn, sck, tm, co, want, buf, rv, reading, misused, wcli, wreqs,
          inflight, peer, usck, uinit, ubound, uco, receiving, ureqs, ulost,
          svr, listening, aco>>

Init == ScriptInit /\ StreamInit /\ UdpInit /\ AcceptorInit

\* connection_cb of the acceptor makes the socket, after_init
Accepted ==
  /\ Connection /\ conn = "none" /\ conn' = "yes"
  /\ UNCHANGED <<sck, tm, co, want, buf, rv, reading, misused,
                 wcli, wreqs, inflight, peer>>
  /\ UNCHANGED udpVars

ScriptStep ==
  /\ \E c \in Cos : Begin(c) \/ Sleep(c) \/ End(c)
  /\ UNCHANGED streamVars /\ UNCHANGED udpVars /\ UNCHANGED acceptorVars

Next ==
  \/ StreamNext /\ UNCHANGED udpVars /\ UNCHANGED acceptorVars
  \/ UdpNext /\ UNCHANGED streamVars /\ UNCHANGED acceptorVars
  \/ AcceptorNext /\ UNCHANGED streamVars /\ UNCHANGED udpVars
  \/ Accepted \/ ScriptStep

\* libuv serves every request, and the peer ends some day
Spec == Init /\ [][Next]_vars /\ WF_vars(Next)

-----------------------------------------------------------------------------
(* Properties.                                                             *)

TypeOK ==
  /\ st \in [Cos -> {"ready", "run", "ended", "connect", "read", "write",
                     "recv", "send", "serve"}]
  /\ calls \in 0 .. MaxCalls
  /\ \A i \in DOMAIN frames :
       \/ frames[i].k = "co" /\ frames[i].c \in Cos
       \/ frames[i].k \in {"reader", "eof", "socket", "udp", "server", "crash"}
  /\ \A c \in Cos : st[c] = "run" <=> Frame(c) \in Range(frames)
  /\ conn \in {"none", "pending", "yes", "failed"} /\ sck \in {"open", "closed"}
  /\ tm \in {"idle", "armed", "gone"} /\ want \in Wants
  /\ co # 0 => st[co] = "read"
  /\ buf \in Seq(Nat) /\ rv \in Seq(Nat) /\ inflight \in Seq(Nat)
  /\ reading \in BOOLEAN /\ misused \in BOOLEAN /\ peer \in {"up", "eof", "reset"}
  /\ wcli \in BOOLEAN /\ \A i \in DOMAIN wreqs : st[wreqs[i]] = "write"
  /\ usck \in {"open", "closed"} /\ uinit \in BOOLEAN /\ ubound \in BOOLEAN
  /\ uco # 0 => st[uco] = "recv"
  /\ receiving \in BOOLEAN /\ \A i \in DOMAIN ureqs : st[ureqs[i]] = "send"
  /\ ulost \subseteq Cos
  /\ svr \in {"open", "bound", "closed"} /\ listening \in BOOLEAN
  /\ aco # 0 => st[aco] = "serve"

(* stream_reader.cpp line 123: however a stream is cut into reads and      *)
(* whatever mix of read forms a script uses, and whoever closes the socket *)
(* meanwhile, each answer is the next bytes and as many as were asked for. *)
ImplementsByteStream == BS!Spec

(* flame_net.md: a pending call ends when the socket closes.  Every        *)
(* connect, read, write and send comes back, also when another coroutine   *)
(* closes the socket; but for a read from inside close(), which the close  *)
(* forgets, and a send that fails (udp_socket.cpp line 127).               *)
EveryCallEnds ==
  \A c \in Cos :
    (st[c] \in {"connect", "read", "write", "send"} /\ c \notin ulost) ~>
      \/ st[c] \notin {"connect", "read", "write", "send"}
      \/ misused \/ Crashed \/ c \in ulost
=============================================================================
