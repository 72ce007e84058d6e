----------------------------- MODULE HttpServer -----------------------------
(***************************************************************************)
(* One connection of an HTTP or FastCGI server (src/flame/net/http and     *)
(* src/flame/net/fastcgi): the connection object, its parser, the request  *)
(* and response objects made while it reads, the session (before, handler  *)
(* and after, each a coroutine of its own), and what they write.           *)
(*                                                                         *)
(* libuv calls one callback at a time.  inread: read_cb is running, and    *)
(* with it the callbacks of the parser for what one read brought ("fresh": *)
(* none of them yet); cur: the coroutine of that request is running, until *)
(* it waits or ends.  The parser is http-parser, or fastcgi-parser, as the *)
(* code uses them.                                                         *)
(***************************************************************************)
EXTENDS Naturals, Sequences

CONSTANTS MaxReq,    \* bound: requests on the connection
          MaxWrites, \* bound: calls of write() for one response
          Sizes,     \* lengths of the strings given to write()
          HookSets   \* sets of hooks a handler is given

ASSUME BoundsAssumption == MaxReq \in Nat /\ MaxWrites \in Nat /\ Sizes \subseteq Nat
ASSUME HooksAssumption == HookSets \subseteq SUBSET {"before", "after"}

Reqs == 1 .. MaxReq

VARIABLES
  proto,      \* "http" or "fastcgi", by the handler of the server
  hooks,      \* which of "before" and "after" the handler has
  conn,       \* "none", "open", "closing" (uv_close called), "deleted"
  is_closing,
  refer,      \* refer_
  reading,    \* uv_read_start is in effect
  inread, cur,
  parser,     \* "idle", "url" (http, in the URL), "head", "dead"
  v11,        \* http: the last version parsed keeps alive by default
  keep,       \* what http_should_keep_alive (FASTCGI_FLAGS_KEEP_CONN) says
  n,          \* requests begun; the request of the parser
  res,        \* per request, who holds the response: "none", "conn",
              \* "session", "kept" (a coroutine of the user's), "gone"
  stage,      \* per request: "none", "before", "handler", "after", "done"
  co,         \* its coroutine: "none", "ready", "run", "wait", "ended"
  head, body, \* per response: is_head_sent, is_body_sent
  writes,     \* per response: calls of write()
  pending,    \* uv_write requests of the stream not completed
  wire,       \* history: what was given to uv_write
  piped,      \* history: a request came before the last one was answered
  split       \* history: a URL came in two reads

connVars == <<conn, is_closing, refer, reading>>
parsVars == <<parser, v11, keep, n, piped, split>>
sessVars == <<res, stage, co>>
outVars  == <<head, body, writes, pending, wire>>
vars == <<proto, hooks, conn, is_closing, refer, reading, inread, cur,
          parser, v11, keep, n, piped, split, res, stage, co,
          head, body, writes, pending, wire>>

Init ==
  /\ proto \in {"http", "fastcgi"} /\ hooks \in HookSets
  /\ conn = "none" /\ is_closing = FALSE /\ refer = 0 /\ reading = FALSE
  /\ inread = "no" /\ cur = 0
  /\ parser = "idle" /\ v11 = FALSE /\ keep = FALSE /\ n = 0
  /\ piped = FALSE /\ split = FALSE
  /\ res = [r \in Reqs |-> "none"] /\ stage = [r \in Reqs |-> "none"]
  /\ co = [r \in Reqs |-> "none"]
  /\ head = [r \in Reqs |-> FALSE] /\ body = [r \in Reqs |-> FALSE]
  /\ writes = [r \in Reqs |-> 0] /\ pending = <<>> /\ wire = <<>>

Loop == inread = "no" /\ cur = 0     \* libuv may call the next callback

-----------------------------------------------------------------------------
(* The connection.                                                         *)

\* mutant: the socket is closed although a response still refers to it
CloseEx_Always(left) ==
  /\ reading' = FALSE /\ is_closing' = TRUE
  /\ refer' = left
  /\ conn' = "closing"

\* close_ex, when left responses refer to the connection
CloseEx(left) ==
  /\ reading' = FALSE /\ is_closing' = TRUE
  /\ refer' = left
  /\ conn' = IF left = 0 THEN "closing" ELSE conn

\* mutant: a connection that is not kept alive is closed by its first response
Close_First(keeps) ==
  IF ~keeps THEN CloseEx(0)
  ELSE refer' = refer - 1 /\ UNCHANGED <<conn, is_closing, reading>>

\* close, called by a response that is destroyed
Close(keeps) ==
  IF refer = 1 /\ ~keeps THEN CloseEx(0)
  ELSE refer' = refer - 1 /\ UNCHANGED <<conn, is_closing, reading>>

\* __invoke of the handler: uv_accept may fail, and then start
Accept ==
  /\ Loop /\ conn = "none"
  /\ \/ conn' = "open" /\ reading' = TRUE /\ UNCHANGED <<is_closing, refer>>
     \/ conn' = "deleted" /\ UNCHANGED <<is_closing, refer, reading>>
     \/ CloseEx(0)
  /\ UNCHANGED <<proto, hooks, inread, cur>>
  /\ UNCHANGED parsVars /\ UNCHANGED sessVars /\ UNCHANGED outVars

\* read_cb with data: the steps of the parser follow
ReadData ==
  /\ Loop /\ reading
  /\ inread' = "fresh"
  /\ UNCHANGED <<proto, hooks, cur>> /\ UNCHANGED connVars
  /\ UNCHANGED parsVars /\ UNCHANGED sessVars /\ UNCHANGED outVars

\* all of it was parsed
ReadParsed ==
  /\ inread # "no"
  /\ inread' = "no"
  /\ UNCHANGED <<proto, hooks, cur>> /\ UNCHANGED connVars
  /\ UNCHANGED parsVars /\ UNCHANGED sessVars /\ UNCHANGED outVars

\* read_cb: end of file, an error, or data the parser refuses
ReadStops ==
  /\ inread # "no" \/ (Loop /\ reading)
  /\ inread' = "no"
  /\ CloseEx(refer)
  /\ UNCHANGED <<proto, hooks, cur>>
  /\ UNCHANGED parsVars /\ UNCHANGED sessVars /\ UNCHANGED outVars

\* libuv calls back cancelled writes before close_cb; delete self
CloseCb ==
  /\ Loop /\ conn = "closing" /\ pending = <<>>
  /\ conn' = "deleted"
  /\ UNCHANGED <<proto, hooks, is_closing, refer, reading, inread, cur>>
  /\ UNCHANGED parsVars /\ UNCHANGED sessVars /\ UNCHANGED outVars

-----------------------------------------------------------------------------
(* The parser's callbacks.                                                 *)

Answered(r) == \E i \in DOMAIN wire : wire[i].req = r /\ wire[i].fin

\* hp_url_cb: http-parser calls it for each piece of the URL, and each time
\* a new request and a new response are made; the response of the piece
\* before is destroyed, and with it closes the connection it refers to.
HpUrl ==
  /\ inread # "no" /\ proto = "http" /\ n < MaxReq
  /\ inread' = "on"
  /\ parser' = "url" /\ n' = n + 1
  /\ keep' = v11                     \* the flags of the message are reset
  /\ \/ /\ parser = "idle"
        /\ refer' = refer + 1
        /\ res' = [res EXCEPT ![n + 1] = "conn"]
        /\ piped' = (piped \/ \E r \in 1 .. n : ~Answered(r))
        /\ UNCHANGED <<conn, is_closing, reading, split>>
     \/ /\ parser = "url" /\ inread = "fresh"
        /\ res' = [res EXCEPT ![n] = "gone", ![n + 1] = "conn"]
        /\ split' = TRUE
        /\ refer' = refer            \* close, then init of the new one
        /\ IF refer = 1 /\ ~v11
           THEN conn' = "closing" /\ is_closing' = TRUE /\ reading' = FALSE
           ELSE UNCHANGED <<conn, is_closing, reading>>
        /\ UNCHANGED piped
  /\ UNCHANGED <<proto, hooks, cur, v11, stage, co>> /\ UNCHANGED outVars

\* hp_header_complete_cb: version and Connection header are known
HpHeaders ==
  /\ inread # "no" /\ inread' = "on" /\ proto = "http" /\ parser = "url"
  /\ parser' = "head"
  /\ v11' \in BOOLEAN /\ keep' \in BOOLEAN
  /\ UNCHANGED <<proto, hooks, cur, n, piped, split>>
  /\ UNCHANGED connVars /\ UNCHANGED sessVars /\ UNCHANGED outVars

\* fp_begin_request_cb
FpBegin ==
  /\ inread # "no" /\ inread' = "on" /\ proto = "fastcgi" /\ n < MaxReq /\ parser = "idle"
  /\ parser' = "head" /\ n' = n + 1 /\ keep' \in BOOLEAN
  /\ refer' = refer + 1
  /\ res' = [res EXCEPT ![n + 1] = "conn"]
  /\ piped' = (piped \/ \E r \in 1 .. n : ~Answered(r))
  /\ UNCHANGED <<proto, hooks, cur, v11, split, stage, co>>
  /\ UNCHANGED <<conn, is_closing, reading>> /\ UNCHANGED outVars

\* on_session, on_session_before: request and response are moved into the
\* session, its first coroutine is created and started
OnSession(r) ==
  /\ res' = [res EXCEPT ![r] = "session"]
  /\ stage' = [stage EXCEPT ![r] = IF "before" \in hooks THEN "before" ELSE "handler"]
  /\ co' = [co EXCEPT ![r] = "ready"]

\* hp_message_complete; http-parser takes nothing more after a message that
\* is not kept alive
HpMessageComplete ==
  /\ inread # "no" /\ inread' = "on" /\ proto = "http" /\ parser = "head"
  /\ OnSession(n)
  /\ parser' = IF keep THEN "idle" ELSE "dead"
  /\ UNCHANGED <<proto, hooks, cur, v11, keep, n, piped, split>>
  /\ UNCHANGED connVars /\ UNCHANGED outVars

\* fp_end_request_cb
FpEndRequest ==
  /\ inread # "no" /\ inread' = "on" /\ proto = "fastcgi" /\ parser = "head"
  /\ OnSession(n)
  /\ parser' = "idle"
  /\ UNCHANGED <<proto, hooks, cur, v11, keep, n, piped, split>>
  /\ UNCHANGED connVars /\ UNCHANGED outVars

-----------------------------------------------------------------------------
(* The session.                                                            *)

CoStart(r) ==
  /\ Loop /\ co[r] = "ready"
  /\ co' = [co EXCEPT ![r] = "run"] /\ cur' = r
  /\ UNCHANGED <<proto, hooks, inread, res, stage>>
  /\ UNCHANGED connVars /\ UNCHANGED parsVars /\ UNCHANGED outVars

\* the coroutine returns; after_ is called from close_cb, later
CoEnd(r) ==
  /\ cur = r /\ stage[r] # "done"
  /\ co' = [co EXCEPT ![r] = "ended"] /\ cur' = 0
  /\ UNCHANGED <<proto, hooks, inread, res, stage>>
  /\ UNCHANGED connVars /\ UNCHANGED parsVars /\ UNCHANGED outVars

OnSessionMiddle(r) ==
  /\ Loop /\ co[r] = "ended" /\ stage[r] = "before"
  /\ stage' = [stage EXCEPT ![r] = "handler"]
  /\ co' = [co EXCEPT ![r] = "ready"]
  /\ UNCHANGED <<proto, hooks, inread, cur, res>>
  /\ UNCHANGED connVars /\ UNCHANGED parsVars /\ UNCHANGED outVars

OnSessionAfter(r) ==
  /\ Loop /\ co[r] = "ended" /\ stage[r] = "handler" /\ "after" \in hooks
  /\ stage' = [stage EXCEPT ![r] = "after"]
  /\ co' = [co EXCEPT ![r] = "ready"]
  /\ UNCHANGED <<proto, hooks, inread, cur, res>>
  /\ UNCHANGED connVars /\ UNCHANGED parsVars /\ UNCHANGED outVars

\* delete ctx: the response is destroyed, unless the user keeps it, in a
\* coroutine of his own
OnSessionFinish(r) ==
  /\ Loop /\ co[r] = "ended"
  /\ stage[r] = "after" \/ (stage[r] = "handler" /\ "after" \notin hooks)
  /\ stage' = [stage EXCEPT ![r] = "done"]
  /\ \/ /\ res' = [res EXCEPT ![r] = "gone"]
        /\ co' = [co EXCEPT ![r] = "none"]
        /\ Close(keep)
     \/ /\ res' = [res EXCEPT ![r] = "kept"]
        /\ co' = [co EXCEPT ![r] = "ready"]
        /\ UNCHANGED connVars
  /\ UNCHANGED <<proto, hooks, inread, cur>> /\ UNCHANGED parsVars /\ UNCHANGED outVars

\* the user's own coroutine lets the response go
Release(r) ==
  /\ cur = r /\ res[r] = "kept"
  /\ cur' = 0
  /\ res' = [res EXCEPT ![r] = "gone"] /\ co' = [co EXCEPT ![r] = "none"]
  /\ Close(keep)
  /\ UNCHANGED <<proto, hooks, inread, stage>> /\ UNCHANGED parsVars /\ UNCHANGED outVars

-----------------------------------------------------------------------------
(* The response.                                                           *)

\* write_buffer: FALSE at once when the connection is closing (the coroutine
\* goes on), else uv_write and async.  A FastCGI record carries the id of
\* the request the parser is at.
WriteBuffer(r, hdr, last, fin) ==
  \/ is_closing /\ UNCHANGED <<pending, wire, co, cur>>
  \/ /\ ~is_closing
     /\ pending' = Append(pending, r)
     /\ wire' = Append(wire, [req |-> r, id |-> n, head |-> hdr,
                             last |-> last, fin |-> fin])
     /\ co' = [co EXCEPT ![r] = "wait"] /\ cur' = 0

WriteHeader(r) ==
  /\ cur = r /\ ~head[r] /\ ~body[r]
  /\ head' = [head EXCEPT ![r] = TRUE]
  /\ WriteBuffer(r, TRUE, FALSE, FALSE)
  /\ UNCHANGED <<proto, hooks, inread, res, stage, body, writes>>
  /\ UNCHANGED connVars /\ UNCHANGED parsVars

\* buffer_body: the length is an unsigned short, and a chunk (a record) of
\* length 0 is the last one of the body
LastChunk(size) == size % (2 ^ 16) = 0

Write(r, size) ==
  /\ cur = r /\ ~body[r] /\ writes[r] < MaxWrites
  /\ head' = [head EXCEPT ![r] = TRUE]
  /\ writes' = [writes EXCEPT ![r] = @ + 1]
  /\ WriteBuffer(r, ~head[r], LastChunk(size), FALSE)
  /\ UNCHANGED <<proto, hooks, inread, res, stage, body>>
  /\ UNCHANGED connVars /\ UNCHANGED parsVars

\* mutant: end() does not note that the body is complete
End_Unmarked(r) ==
  /\ cur = r /\ ~body[r]
  /\ head' = [head EXCEPT ![r] = TRUE]
  /\ WriteBuffer(r, ~head[r], TRUE, TRUE)
  /\ UNCHANGED <<proto, hooks, inread, res, stage, body, writes>>
  /\ UNCHANGED connVars /\ UNCHANGED parsVars

End(r) ==
  /\ cur = r /\ ~body[r]
  /\ body' = [body EXCEPT ![r] = TRUE]
  /\ head' = [head EXCEPT ![r] = TRUE]
  /\ WriteBuffer(r, ~head[r], TRUE, TRUE)
  /\ UNCHANGED <<proto, hooks, inread, res, stage, writes>>
  /\ UNCHANGED connVars /\ UNCHANGED parsVars

\* write_cb, whatever the status: the coroutine goes on
WriteCb ==
  /\ Loop /\ pending # <<>>
  /\ pending' = Tail(pending)
  /\ cur' = Head(pending) /\ co' = [co EXCEPT ![Head(pending)] = "run"]
  /\ UNCHANGED <<proto, hooks, inread, res, stage, head, body, writes, wire>>
  /\ UNCHANGED connVars /\ UNCHANGED parsVars

-----------------------------------------------------------------------------
Next ==
  \/ Accept \/ ReadData \/ ReadParsed \/ ReadStops \/ CloseCb
  \/ HpUrl \/ HpHeaders \/ HpMessageComplete \/ FpBegin \/ FpEndRequest
  \/ WriteCb
  \/ \E r \in Reqs :
       \/ CoStart(r) \/ CoEnd(r) \/ Release(r)
       \/ OnSessionMiddle(r) \/ OnSessionAfter(r) \/ OnSessionFinish(r)
       \/ WriteHeader(r) \/ End(r) \/ \E size \in Sizes : Write(r, size)

Spec == Init /\ [][Next]_vars

-----------------------------------------------------------------------------
(* Properties.                                                             *)

Live(r) == res[r] \in {"conn", "session", "kept"}

(* server_connection_base.cpp line 19: the connection is destroyed only    *)
(* when no response refers to it, whoever closes it, and however requests, *)
(* sessions and the end of the stream interleave.  (When a URL comes in    *)
(* pieces this fails: see HpUrl.)                                          *)
LivesWhileUsed ==
  ~split /\ conn \in {"closing", "deleted"} => \A r \in Reqs : ~Live(r)

(* The socket is never closed over an answer that is still being sent:     *)
(* uv_close would cancel it, and write_cb would not tell the handler.      *)
AnswersNotCutOff ==
  ~split /\ conn \in {"closing", "deleted"} => pending = <<>>

(* Each response, also of requests that are answered at the same time, has *)
(* its header first and once and nothing after its end.  To a client that  *)
(* waits for each answer the responses come one after the other, and       *)
(* (FastCGI) under the id of their requests.                               *)
InOrder ==
  \A i \in DOMAIN wire :
    /\ wire[i].head <=> \A j \in 1 .. i - 1 : wire[j].req # wire[i].req
    /\ \A j \in 1 .. i - 1 : wire[j].fin => wire[j].req # wire[i].req
    /\ ~piped =>
         /\ wire[i].id = wire[i].req
         /\ \A j \in 1 .. i - 1 : wire[j].req <= wire[i].req

(* server_connection_base.cpp line 19, the other way round: a connection   *)
(* that is to be closed and that no response refers to is destroyed.       *)
DestroyedWhenUnused ==
  is_closing /\ refer = 0 => conn \in {"closing", "deleted"}
=============================================================================
