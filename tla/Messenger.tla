----------------------------- MODULE Messenger ------------------------------
(***************************************************************************)
(* The message pipe between a process and a child                          *)
(* (src/flame/os/cluster/messenger.cpp, cluster.cpp): strings of 1 to      *)
(* 65535 bytes behind a length of two bytes, and sockets as messages of    *)
(* length 0.  Both ends are the same class; one direction is modelled, and *)
(* the scripts are the sender's coroutines.  A byte of a string is known   *)
(* by the message it is of (m), a socket travels with its first byte (s).  *)
(***************************************************************************)
EXTENDS Script

CONSTANTS Lens,  \* lengths of the strings that are sent
          Socks  \* sockets that are sent

TwoBytes == 256 * 256

ASSUME MessengerAssumption == Lens \subseteq 1 .. TwoBytes - 1 /\ Socks \subseteq Nat \ {0}

VARIABLES
  pipe,   \* "none", "open", "closed", at the sender
  wq,     \* uv_write requests not completed
  local,  \* per socket: the sender's object is "open" or "closed"
  wire,   \* bytes written and not parsed
  stat_, size_, data_, \* of the receiver
  pend,   \* sockets received and not accepted
  cb_type,    \* of the receiver: "string", "socket", "handler"
  handlers,   \* handler coroutines started that have not accepted yet
  sent, got, sentSocks, gotSocks, \* history: messages sent, and received
  unheard     \* history: a message came before there was a callback for it

msgVars == <<pipe, wq, local, wire, stat_, size_, data_, pend, cb_type,
             handlers, sent, got, sentSocks, gotSocks, unheard>>

MessengerInit ==
  /\ pipe = "none" /\ wq = <<>> /\ local = [s \in Socks |-> "open"] /\ wire = <<>>
  /\ stat_ = "size0" /\ size_ = 0 /\ data_ = <<>> /\ pend = <<>>
  /\ cb_type = {} /\ handlers = 0
  /\ sent = <<>> /\ got = <<>> /\ sentSocks = <<>> /\ gotSocks = <<>>
  /\ unheard = FALSE

-----------------------------------------------------------------------------
(* The sender.                                                             *)

Byte(b, m, s) == [b |-> b, m |-> m, s |-> s]

SendString(c, len) ==
  /\ Call(c) /\ pipe = "open"
  /\ LET m == Len(sent) + 1
         string == [i \in 1 .. len |-> m] IN
       /\ sent' = Append(sent, string)
       /\ wire' = wire \o <<Byte(len % 256, 0, 0), Byte(len \div 256, 0, 0)>>
                       \o [i \in 1 .. len |-> Byte(0, m, 0)]
  /\ wq' = Append(wq, [c |-> c, s |-> 0]) /\ Waits(c, "send")
  /\ UNCHANGED <<pipe, local, stat_, size_, data_, pend, cb_type, handlers,
                 got, sentSocks, gotSocks, unheard>>

\* the socket of an object that is closed already is null, and none is sent
SendSocket(c, s) ==
  /\ Call(c) /\ pipe = "open"
  /\ IF local[s] = "open"
     THEN sentSocks' = Append(sentSocks, s)
          /\ wire' = wire \o <<Byte(0, 0, s), Byte(0, 0, 0)>>
     ELSE wire' = wire \o <<Byte(0, 0, 0), Byte(0, 0, 0)>> /\ UNCHANGED sentSocks
  /\ wq' = Append(wq, [c |-> c, s |-> s]) /\ Waits(c, "send")
  /\ UNCHANGED <<pipe, local, stat_, size_, data_, pend, cb_type, handlers,
                 sent, got, gotSocks, unheard>>

\* send_string_cb, send_socket_cb, whatever the status
SendCb ==
  /\ Loop /\ wq # <<>> /\ wq' = Tail(wq)
  /\ LET s == Head(wq).s IN
       local' = IF s = 0 THEN local ELSE [local EXCEPT ![s] = "closed"]
  /\ Resume(Head(wq).c, <<>>)
  /\ UNCHANGED <<calls, pipe, wire, stat_, size_, data_, pend, cb_type, handlers,
                 sent, got, sentSocks, gotSocks, unheard>>

-----------------------------------------------------------------------------
(* The receiver.                                                           *)

Ondata ==
  /\ cb_type' = cb_type \union {"string"}
  /\ UNCHANGED <<pipe, wq, local, wire, stat_, size_, data_, pend, handlers,
                 sent, got, sentSocks, gotSocks, unheard>>
  /\ UNCHANGED scriptVars

Handle(kind) ==
  /\ cb_type' = cb_type \union {kind}
  /\ UNCHANGED <<pipe, wq, local, wire, stat_, size_, data_, pend, handlers,
                 sent, got, sentSocks, gotSocks, unheard>>
  /\ UNCHANGED scriptVars

\* size_ is a short, and a byte is a signed char: 128 .. 255 set its high byte
Size0(b) == IF b < 128 THEN b ELSE TwoBytes - 256 + b
Size1(size, b) == IF size < 256 THEN size + 256 * b ELSE size

\* mutant: the data is not moved out of the buffer
OnString_Kept(data) ==
  IF "string" \in cb_type
  THEN got' = Append(got, data) /\ data_' = data /\ UNCHANGED unheard
  ELSE data_' = data /\ unheard' = TRUE /\ UNCHANGED got

\* without a callback the data stays, in front of the next message
OnString(data) ==
  IF "string" \in cb_type
  THEN got' = Append(got, data) /\ data_' = <<>> /\ UNCHANGED unheard
  ELSE data_' = data /\ unheard' = TRUE /\ UNCHANGED got

\* the handler accepts later, in its coroutine; a callback gets the socket at
\* once; without either the socket stays, in front of the next one
OnSocket(pending) ==
  IF "handler" \in cb_type
  THEN handlers' = handlers + 1 /\ pend' = pending /\ UNCHANGED <<gotSocks, unheard>>
  ELSE IF "socket" \in cb_type /\ pending # <<>>
  THEN /\ gotSocks' = Append(gotSocks, Head(pending)) /\ pend' = Tail(pending)
       /\ UNCHANGED <<handlers, unheard>>
  ELSE /\ pend' = pending /\ unheard' = (unheard \/ "socket" \notin cb_type)
       /\ UNCHANGED <<handlers, gotSocks>>

\* parse, one byte: however they are cut into reads
ParseByte ==
  /\ wire # <<>> /\ wire' = Tail(wire)
  /\ LET x == Head(wire)
         pending == IF x.s = 0 THEN pend ELSE Append(pend, x.s) IN
       \/ /\ stat_ = "size0" /\ stat_' = "size1" /\ size_' = Size0(x.b)
          /\ pend' = pending /\ UNCHANGED <<data_, handlers, got, gotSocks, unheard>>
       \/ /\ stat_ = "size1" /\ size_' = Size1(size_, x.b)
          /\ IF size_' = 0 THEN stat_' = "size0" /\ OnSocket(pending)
             ELSE stat_' = "data" /\ pend' = pending /\ UNCHANGED <<handlers, gotSocks, unheard>>
          /\ UNCHANGED <<data_, got>>
       \/ /\ stat_ = "data" /\ size_' = size_ - 1
          /\ IF size_' = 0 THEN stat_' = "size0" /\ OnString(Append(data_, x.m))
             ELSE data_' = Append(data_, x.m) /\ UNCHANGED <<stat_, got, unheard>>
          /\ pend' = pending /\ UNCHANGED <<handlers, gotSocks>>
  /\ UNCHANGED <<pipe, wq, local, cb_type, sent, sentSocks>> /\ UNCHANGED scriptVars

\* the coroutine of the handler accepts
HandlerAccepts ==
  /\ handlers > 0 /\ handlers' = handlers - 1
  /\ IF pend = <<>> THEN UNCHANGED <<pend, gotSocks>>
     ELSE gotSocks' = Append(gotSocks, Head(pend)) /\ pend' = Tail(pend)
  /\ UNCHANGED <<pipe, wq, local, wire, stat_, size_, data_, cb_type,
                 sent, got, sentSocks, unheard>>
  /\ UNCHANGED scriptVars

ReceiverStep == Ondata \/ ParseByte \/ HandlerAccepts \/ \E k \in {"socket", "handler"} : Handle(k)
=============================================================================
