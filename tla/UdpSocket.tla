----------------------------- MODULE UdpSocket ------------------------------
(***************************************************************************)
(* A UDP socket of a script (src/flame/net/udp_socket.cpp).  The scripts   *)
(* bind once, before they send, and have one receiver at a time, as        *)
(* docs/flame_net.md asks.                                                 *)
(***************************************************************************)
EXTENDS Script

VARIABLES
  usck,      \* "open", "closed": null
  uinit, ubound, \* init_, bound_
  uco,       \* co_, 0: null
  receiving, \* uv_udp_recv_start is in effect
  ureqs,     \* who waits for the uv_udp_send requests
  ulost      \* history: who was never told that his send failed

udpVars == <<usck, uinit, ubound, uco, receiving, ureqs, ulost>>

UdpInit ==
  /\ usck = "open" /\ uinit = FALSE /\ ubound = FALSE /\ uco = 0
  /\ receiving = FALSE /\ ureqs = <<>> /\ ulost = {}

\* bind; uv_udp_bind may fail
UdpBind(c) ==
  /\ Running(c) /\ usck = "open" /\ ~uinit
  /\ uinit' = TRUE /\ ubound' \in BOOLEAN
  /\ UNCHANGED <<usck, uco, receiving, ureqs, ulost>> /\ UNCHANGED scriptVars

Recv(c) ==
  /\ Call(c) /\ usck = "open" /\ ubound /\ uco = 0
  /\ receiving' = TRUE /\ uco' = c /\ Waits(c, "recv")
  /\ UNCHANGED <<usck, uinit, ubound, ureqs, ulost>>

\* recv_cb with a packet
RecvCb ==
  /\ Loop /\ receiving /\ uco # 0
  /\ receiving' = FALSE /\ uco' = 0 /\ Resume(uco, <<>>)
  /\ UNCHANGED <<calls, usck, uinit, ubound, ureqs, ulost>>

\* close: nothing at all when nobody receives
UdpCloseEx(below) ==
  IF uco = 0 THEN frames' = below /\ UNCHANGED <<uco, st>>
  ELSE uco' = 0 /\ Resume(uco, Append(below, Rest("udp")))

\* recv_cb with an error
RecvFails ==
  /\ Loop /\ receiving
  /\ UdpCloseEx(<<>>)
  /\ UNCHANGED <<calls, usck, uinit, ubound, receiving, ureqs, ulost>>

UdpClose(c) ==
  /\ Call(c) /\ usck = "open"
  /\ UdpCloseEx(frames)
  /\ UNCHANGED <<usck, uinit, ubound, receiving, ureqs, ulost>>

\* the rest of close, when the coroutine it resumed waits again
UdpClosed ==
  /\ Returns("udp")
  /\ \/ usck = "closed" /\ Crashes /\ UNCHANGED <<usck, receiving>>
     \/ /\ usck = "open" /\ usck' = "closed" /\ receiving' = FALSE
        /\ frames' = Front(frames) /\ UNCHANGED st
  /\ UNCHANGED <<calls, uinit, ubound, uco, ureqs, ulost>>

Send(c) ==
  /\ Call(c) /\ usck = "open"
  /\ uinit' = TRUE /\ ureqs' = Append(ureqs, c) /\ Waits(c, "send")
  /\ UNCHANGED <<usck, ubound, uco, receiving, ulost>>

\* sent, or cancelled: the sender goes on
SendCb ==
  /\ Loop /\ ureqs # <<>>
  /\ ureqs' = Tail(ureqs) /\ Resume(Head(ureqs), <<>>)
  /\ UNCHANGED <<calls, usck, uinit, ubound, uco, receiving, ulost>>

\* not sent: the socket closes, and the sender is not resumed
SendFails ==
  /\ Loop /\ ureqs # <<>> /\ usck = "open"
  /\ ureqs' = Tail(ureqs) /\ ulost' = ulost \union {Head(ureqs)}
  /\ UdpCloseEx(<<>>)
  /\ UNCHANGED <<calls, usck, uinit, ubound, receiving>>

UdpNext ==
  \/ RecvCb \/ RecvFails \/ UdpClosed \/ SendCb \/ SendFails
  \/ \E c \in Cos : UdpBind(c) \/ Recv(c) \/ UdpClose(c) \/ Send(c)
=============================================================================
