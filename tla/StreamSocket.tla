---------------------------- MODULE StreamSocket ----------------------------
(***************************************************************************)
(* A connected TCP or unix socket of a script: src/flame/net/tcp_socket,   *)
(* unix_socket and the reader and writer they are made of, src/flame/io.   *)
(* The peer and libuv below it: inflight is what was sent and not read,    *)
(* and uv_write completes its requests in order.                           *)
(***************************************************************************)
EXTENDS Script

CONSTANTS Streams,  \* what the peer may send
          Delim,    \* the delimiter of read($delim)
          ReadSizes \* the lengths of read($n)

ASSUME StreamAssumption ==
  Streams \subseteq Seq(Nat) /\ Delim \in Seq(Nat) \ {<<>>} /\ ReadSizes \subseteq Nat \ {0}

VARIABLES
  conn,    \* "none", "pending", "yes", "failed"
  sck,     \* "open", or "closed": null
  tm,      \* the reader's timer: "idle", "armed", "gone" (and cli_ null)
  co,      \* the reader's co_, 0: null
  want,    \* d_type and d_size
  buf, rv, \* buf_, rv_
  reading, \* uv_read_start is in effect
  wcli,    \* the writer's cli_ is not null
  wreqs,   \* who waits for the uv_write requests
  inflight, peer, \* "up", "eof", "reset"
  misused  \* history: two reads at a time, or a read from inside close

rdVars == <<tm, co, want, buf, rv, reading, misused>>
wrVars == <<wcli, wreqs>>
peerVars == <<inflight, peer>>
streamVars == <<conn, sck, tm, co, want, buf, rv, reading, misused,
                wcli, wreqs, inflight, peer>>

BS == INSTANCE ByteStream WITH rest <- rv \o buf \o inflight,
        ask <- IF co = 0 THEN [k |-> "none", n |-> 0] ELSE want

Wants == {[k |-> k, n |-> 0] : k \in {"any", "delim", "all"}}
           \union {[k |-> "size", n |-> n] : n \in ReadSizes}

StreamInit ==
  /\ conn = "none" /\ sck = "open" /\ tm = "idle" /\ co = 0
  /\ want = [k |-> "any", n |-> 0] /\ buf = <<>> /\ rv = <<>> /\ reading = FALSE
  /\ wcli = TRUE /\ wreqs = <<>> /\ inflight \in Streams /\ peer = "up"
  /\ misused = FALSE

-----------------------------------------------------------------------------
(* connect                                                                 *)

Connect(c) ==
  /\ Call(c) /\ sck = "open" /\ conn = "none"
  /\ conn' = "pending" /\ Waits(c, "connect")
  /\ UNCHANGED sck /\ UNCHANGED rdVars /\ UNCHANGED wrVars /\ UNCHANGED peerVars

\* a connection that is closed meanwhile is cancelled
ConnectCb(c) ==
  /\ Loop /\ conn = "pending" /\ st[c] = "connect"
  /\ \/ sck = "open" /\ conn' = "yes"
     \/ conn' = "failed"
  /\ Resume(c, <<>>) /\ UNCHANGED calls
  /\ UNCHANGED sck /\ UNCHANGED rdVars /\ UNCHANGED wrVars /\ UNCHANGED peerVars

-----------------------------------------------------------------------------
(* stream_reader                                                           *)

\* read_from_buf: how much of b answers w, 0: not enough yet
EndsWithDelim(b) ==
  {i \in Len(Delim) .. Len(b) : SubSeq(b, i + 1 - Len(Delim), i) = Delim}

Enough(w, b) ==
  CASE w.k = "any" -> Len(b)
    [] w.k = "size" /\ Len(b) >= w.n -> w.n
    [] w.k = "delim" /\ EndsWithDelim(b) # {} ->
         CHOOSE i \in EndsWithDelim(b) : \A j \in EndsWithDelim(b) : i <= j
    [] OTHER -> 0

\* mutant: what is left in the buffer after a delimiter is dropped
ReadFromBuf_Dropped(w, b) ==
  /\ rv' = SubSeq(b, 1, Enough(w, b))
  /\ buf' = IF w.k = "delim" THEN <<>> ELSE SubSeq(b, Enough(w, b) + 1, Len(b))

ReadFromBuf(w, b) ==
  /\ rv' = SubSeq(b, 1, Enough(w, b))
  /\ buf' = SubSeq(b, Enough(w, b) + 1, Len(b))

\* return_cb: co_ is taken and resumed with what is moved out of rv_
ReturnTo(below) ==
  /\ rv' = <<>> /\ co' = 0
  /\ IF co = 0 THEN Crashes ELSE Resume(co, below)

\* mutant: close resumes the reader and forgets to clear co_ first
ReaderClose_Kept(below) ==
  IF co = 0 THEN frames' = below /\ UNCHANGED <<co, st>>
  ELSE UNCHANGED co /\ Resume(co, Append(below, Rest("reader")))

\* close: nothing at all when nobody waits
ReaderClose(below) ==
  IF co = 0 THEN frames' = below /\ UNCHANGED <<co, st>>
  ELSE co' = 0 /\ Resume(co, Append(below, Rest("reader")))

\* the rest of close, when the coroutine it resumed waits again
ReaderClosed ==
  /\ Returns("reader")
  /\ \/ /\ tm = "gone" /\ Crashes /\ UNCHANGED <<tm, reading>>
     \/ /\ tm # "gone" /\ tm' = "gone" /\ reading' = FALSE
        /\ frames' = Front(frames) /\ UNCHANGED st
  /\ UNCHANGED <<calls, conn, sck, co, want, buf, rv, misused>>
  /\ UNCHANGED wrVars /\ UNCHANGED peerVars

\* read, all forms; on an ended reader they throw
Read(c, w) ==
  /\ Call(c) /\ sck = "open" /\ conn = "yes" /\ tm # "gone"
  /\ co' = c /\ want' = w
  /\ misused' = (misused \/ co # 0 \/ \E i \in DOMAIN frames : frames[i] = Rest("reader"))
  /\ IF Enough(w, buf) > 0
     THEN ReadFromBuf(w, buf) /\ tm' = "armed" /\ UNCHANGED reading
     ELSE reading' = TRUE /\ UNCHANGED <<tm, buf, rv>>
  /\ Waits(c, "read")
  /\ UNCHANGED <<conn, sck>> /\ UNCHANGED wrVars /\ UNCHANGED peerVars

\* read_all on an ended reader starts a timer that is not there any more
ReadAllEnded(c) ==
  /\ Call(c) /\ sck = "open" /\ tm = "gone"
  /\ Crashes
  /\ UNCHANGED <<conn, sck>> /\ UNCHANGED rdVars /\ UNCHANGED wrVars /\ UNCHANGED peerVars

ReturnCb ==
  /\ Loop /\ tm = "armed"
  /\ tm' = "idle" /\ ReturnTo(<<>>)
  /\ UNCHANGED <<calls, conn, sck, want, buf, reading, misused>>
  /\ UNCHANGED wrVars /\ UNCHANGED peerVars

\* read_cb with the next i bytes
ReadCb(i) ==
  /\ Loop /\ reading /\ i \in 1 .. Len(inflight)
  /\ LET b == buf \o SubSeq(inflight, 1, i) IN
       IF Enough(want, b) = 0
       THEN buf' = b /\ UNCHANGED <<rv, co, reading, frames, st>>
       ELSE /\ reading' = FALSE
            /\ buf' = SubSeq(b, Enough(want, b) + 1, Len(b)) /\ ReturnTo(<<>>)
  /\ inflight' = SubSeq(inflight, i + 1, Len(inflight))
  /\ UNCHANGED <<calls, conn, sck, tm, want, misused, peer>> /\ UNCHANGED wrVars

\* end of file: read_all has its answer, then the reader closes
ReadEof ==
  /\ Loop /\ reading /\ inflight = <<>> /\ peer = "eof"
  /\ reading' = FALSE
  /\ IF want.k = "all" THEN buf' = <<>> /\ ReturnTo(<<Rest("eof")>>)
     ELSE ReaderClose(<<>>) /\ UNCHANGED <<buf, rv>>
  /\ UNCHANGED <<calls, conn, sck, tm, want, misused>>
  /\ UNCHANGED wrVars /\ UNCHANGED peerVars

ReadEofClose ==
  /\ Returns("eof")
  /\ ReaderClose(Front(frames))
  /\ UNCHANGED <<calls, conn, sck, tm, want, buf, rv, reading, misused>>
  /\ UNCHANGED wrVars /\ UNCHANGED peerVars

ReadError ==
  /\ Loop /\ reading /\ peer = "reset"
  /\ reading' = FALSE /\ ReaderClose(<<>>)
  /\ UNCHANGED <<calls, conn, sck, tm, want, buf, rv, misused>>
  /\ UNCHANGED wrVars /\ UNCHANGED peerVars

-----------------------------------------------------------------------------
(* stream_writer                                                           *)

Write(c) ==
  /\ Call(c) /\ sck = "open" /\ conn = "yes" /\ wcli
  /\ wreqs' = Append(wreqs, c) /\ Waits(c, "write")
  /\ UNCHANGED <<conn, sck, wcli>> /\ UNCHANGED rdVars /\ UNCHANGED peerVars

\* mutant: a request that was cancelled resumes nobody
WriteCb_Silent ==
  /\ Loop /\ wreqs # <<>> /\ wreqs' = Tail(wreqs)
  /\ \/ sck = "open" /\ UNCHANGED wcli /\ Resume(Head(wreqs), <<>>)
     \/ sck = "closed" /\ wcli' = FALSE /\ UNCHANGED <<frames, st>>
  /\ UNCHANGED <<calls, conn, sck>> /\ UNCHANGED rdVars /\ UNCHANGED peerVars

\* written, or failed (cancelled: without an exception) and the writer closes
WriteCb ==
  /\ Loop /\ wreqs # <<>>
  /\ wreqs' = Tail(wreqs) /\ Resume(Head(wreqs), <<>>)
  /\ \/ UNCHANGED wcli
     \/ (sck = "closed" \/ peer # "up") /\ wcli' = FALSE
  /\ UNCHANGED <<calls, conn, sck>> /\ UNCHANGED rdVars /\ UNCHANGED peerVars

-----------------------------------------------------------------------------
(* close of the socket, by a call or its destructor                        *)

SocketClose(c) ==
  /\ Call(c) /\ sck = "open"
  /\ ReaderClose(Append(frames, Rest("socket")))
  /\ UNCHANGED <<conn, sck, tm, want, buf, rv, reading, misused>>
  /\ UNCHANGED wrVars /\ UNCHANGED peerVars

\* after rdr.close(): what it resumed may have closed the socket meanwhile
SocketClosed ==
  /\ Returns("socket")
  /\ \/ sck = "closed" /\ Crashes /\ UNCHANGED <<sck, wcli, reading>>
     \/ /\ sck = "open" /\ sck' = "closed" /\ wcli' = FALSE /\ reading' = FALSE
        /\ frames' = Front(frames) /\ UNCHANGED st
  /\ UNCHANGED <<calls, conn, tm, co, want, buf, rv, misused, wreqs>>
  /\ UNCHANGED peerVars

PeerEnds ==
  /\ peer = "up" /\ conn = "yes" /\ peer' \in {"eof", "reset"}
  /\ UNCHANGED <<conn, sck, inflight>> /\ UNCHANGED scriptVars
  /\ UNCHANGED rdVars /\ UNCHANGED wrVars

StreamNext ==
  \/ ReaderClosed \/ ReturnCb \/ ReadEof \/ ReadEofClose \/ ReadError
  \/ \E s \in Streams : \E i \in DOMAIN s : ReadCb(i)
  \/ WriteCb \/ SocketClosed \/ PeerEnds
  \/ \E c \in Cos :
       \/ Connect(c) \/ ConnectCb(c) \/ ReadAllEnded(c) \/ Write(c) \/ SocketClose(c)
       \/ \E w \in Wants : Read(c, w)
=============================================================================
