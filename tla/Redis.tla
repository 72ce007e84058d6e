-------------------------------- MODULE Redis -------------------------------
(***************************************************************************)
(* flame\db\redis (src/flame/db/redis.cpp): one object, the connections    *)
(* it has had, the commands on their way and one subscription.  hiredis is *)
(* modelled by what it calls: replies in order; when a connection ends, a  *)
(* null reply for every command that waits, then cb_disconnect; and after  *)
(* that the memory of the connection is gone.  What connect() writes to    *)
(* the default logger may resume a coroutine; elsewhere redis logs from    *)
(* the loop, where there is none.                                          *)
(***************************************************************************)
EXTENDS Logger

CONSTANTS MaxContexts, \* bound: connections made
          Urls         \* what connect() has to send: <<>>, <<"auth">>, ...

ASSUME RedisAssumption == MaxContexts \in Nat /\ Urls # {}

VARIABLES
  cx,       \* the connections: "connecting", "up", "closing", "freeing",
            \* "freed" or "failed" (before there was one: hiredis keeps
            \* what it is asked), and the requests that wait
  context_, \* the one commands go to, 0: null; it may be freed
  connect_, \* who waits for the connection
  timer,    \* connect_interval: "off", "timeout", "reconnect", "gone"
  stages,   \* per coroutine: what connect() has still to send
  current_, \* the subscription, heard on connection i; 0: on none
  rlost     \* history: coroutines nobody will resume

redisVars == <<cx, context_, connect_, timer, stages, current_, rlost>>

None == [k |-> "none", c |-> 0, left |-> 0, i |-> 0, stop |-> FALSE]
Dropping(i) == [k |-> "drop", c |-> i]  \* the rest of hiredis' freeing of i

RedisInit ==
  /\ cx = <<>> /\ context_ = 0 /\ connect_ = 0 /\ timer = "off"
  /\ stages = [c \in Cos |-> <<>>] /\ current_ = None /\ rlost = {}

Is(i, states) == i # 0 /\ cx[i].s \in states

\* on a context that takes commands; exec throws on one that closes
Queue(cxs, i, k, c) == [cxs EXCEPT ![i].q = Append(@, [k |-> k, c |-> c])]

\* co->next: the next of cb_connect_auth and cb_connect_select, or c itself.
\* A stage that cannot send throws through the library
NextStage(c, below, cxs) ==
  IF stages[c] = <<>>
  THEN Resume(c, below) /\ cx' = cxs /\ UNCHANGED <<stages, rlost>>
  ELSE /\ stages' = [stages EXCEPT ![c] = Tail(@)] /\ UNCHANGED st
       /\ LET s == IF context_ = 0 THEN "null" ELSE cxs[context_].s IN
          /\ cx' = IF s = "up" THEN Queue(cxs, context_, "default", c) ELSE cxs
          /\ rlost' = IF s = "failed" THEN rlost \union {c} ELSE rlost
          /\ frames' = IF s \in {"up", "failed"} THEN below ELSE Append(below, Crash)

FailTo(c, below) == stages' = [stages EXCEPT ![c] = <<>>] /\ Resume(c, below)

-----------------------------------------------------------------------------
(* Connecting.                                                             *)

\* cb_connect_timeout has resumed a coroutine and will forget who connects now
InTimeout == Rest("timeout") \in Range(frames)

\* scripts make one connection at a time, and another when that failed or
\* was lost
CanConnect(c) ==
  /\ Call(c) /\ Len(cx) < MaxContexts
  /\ \A i \in DOMAIN cx : cx[i].s \notin {"up", "connecting"}
  /\ connect_ = 0 \/ InTimeout

\* connect(...) after connect()
Connected(c) ==
  /\ context_' = Len(cx) + 1
  /\ IF timer = "gone" THEN Crashes /\ UNCHANGED timer
     ELSE Waits(c, "redis") /\ timer' = "timeout"
  /\ UNCHANGED current_

Connect(c) ==
  /\ CanConnect(c) /\ Connected(c)
  /\ cx' = Append(cx, [s |-> "connecting", q |-> <<>>])
  /\ connect_' = c
  /\ rlost' = IF InTimeout THEN rlost \union {c} ELSE rlost
  /\ \E url \in Urls : stages' = [stages EXCEPT ![c] = url]
  /\ UNCHANGED logVars

\* an error at once leaves the coroutine waiting, and the timer with nobody;
\* but when the error is logged to a file, write_cb resumes the coroutine
ConnectFails(c) ==
  /\ CanConnect(c) /\ Connected(c)
  /\ cx' = Append(cx, [s |-> "failed", q |-> <<>>])
  /\ IF file_ = "stream" THEN rlost' = rlost \union {c} /\ UNCHANGED lreqs
     ELSE lreqs' = Append(lreqs, c) /\ UNCHANGED rlost
  /\ UNCHANGED <<connect_, stages, file_, pipe_, path_>>

\* mutant: connect_ is still there after it has been resumed
ConnectCb_Kept(i) ==
  /\ Loop /\ cx[i].s = "connecting" /\ connect_ # 0
  /\ Resume(connect_, <<>>) /\ cx' = [cx EXCEPT ![i].s = "up"]
  /\ UNCHANGED <<calls, connect_, context_, timer, stages, current_, rlost>>

\* cb_connect; without a coroutine it does nothing
ConnectCb(i) ==
  /\ Loop /\ cx[i].s = "connecting" /\ connect_' = 0
  /\ \/ LET up == [cx EXCEPT ![i].s = "up"] IN
        IF connect_ = 0 THEN cx' = up /\ UNCHANGED <<frames, st, stages, rlost>>
        ELSE NextStage(connect_, <<>>, up)
     \/ /\ cx' = [cx EXCEPT ![i].s = "freed"] /\ UNCHANGED rlost
        /\ IF connect_ = 0 THEN UNCHANGED <<frames, st, stages>> ELSE FailTo(connect_, <<>>)
  /\ UNCHANGED <<calls, context_, timer, current_>>

\* cb_connect_timeout
Timeout ==
  /\ Loop /\ timer = "timeout" /\ timer' = "off"
  /\ IF connect_ = 0 THEN UNCHANGED <<frames, st, cx, context_, stages>>
     ELSE /\ cx' = [cx EXCEPT ![context_].s = "freed"] /\ context_' = 0
          /\ FailTo(connect_, <<Rest("timeout")>>)
  /\ UNCHANGED <<calls, connect_, current_, rlost>>

\* mutant: a connect() made meanwhile is left alone
TimeoutRest_Kept ==
  /\ Returns("timeout") /\ frames' = Front(frames)
  /\ UNCHANGED <<st, calls, cx, context_, connect_, timer, stages, current_, rlost>>

\* the rest of it, which also forgets a connect() made meanwhile
TimeoutRest ==
  /\ Returns("timeout") /\ frames' = Front(frames) /\ connect_' = 0
  /\ UNCHANGED <<st, calls, cx, context_, timer, stages, current_, rlost>>

\* cb_connect_interval: connect() outside of a coroutine, which is not
\* noticed when it fails at once and logs to a stream, and again later
Reconnect ==
  /\ Loop /\ timer = "reconnect"
  /\ \/ /\ context_ = 0 /\ timer' = "off" /\ UNCHANGED <<frames, cx, context_>>
     \/ /\ context_ # 0 /\ timer' = "off" /\ frames' = <<Crash>> /\ UNCHANGED <<cx, context_>>
     \/ /\ context_ # 0 /\ file_ = "stream" /\ Len(cx) < MaxContexts
        /\ cx' = Append(cx, [s |-> "failed", q |-> <<>>])
        /\ context_' = Len(cx) + 1 /\ UNCHANGED <<frames, timer>>
  /\ UNCHANGED <<st, calls, connect_, stages, current_, rlost>>

-----------------------------------------------------------------------------
(* Commands.                                                               *)

\* __call, hmget ("default") and quit, on a connection made and not
\* subscribed, or what a reconnect has left in its place
Command(c, k) ==
  /\ Call(c) /\ current_ = None /\ Is(context_, {"up", "freed", "failed"})
  /\ IF cx[context_].s = "freed" THEN Crashes /\ UNCHANGED cx
     ELSE /\ Waits(c, "redis")
          /\ cx' = IF cx[context_].s = "up" THEN Queue(cx, context_, k, c) ELSE cx
  /\ rlost' = IF cx[context_].s = "failed" THEN rlost \union {c} ELSE rlost
  /\ UNCHANGED <<context_, connect_, timer, stages, current_>>

Popped(i) == [cx EXCEPT ![i].q = Tail(@)]

\* cb_default, cb_assoc_even, cb_assoc_keys: next, or fail for an error
Reply(i) ==
  /\ Loop /\ Is(i, {"up", "closing"}) /\ cx[i].q # <<>> /\ Head(cx[i].q).k = "default"
  /\ \/ NextStage(Head(cx[i].q).c, <<>>, Popped(i))
     \/ FailTo(Head(cx[i].q).c, <<>>) /\ cx' = Popped(i) /\ UNCHANGED rlost
  /\ UNCHANGED <<calls, context_, connect_, timer, current_>>

\* cb_quit closes what commands go to now, then resumes
CbQuit(i) ==
  /\ Loop /\ Is(i, {"up", "closing"}) /\ cx[i].q # <<>> /\ Head(cx[i].q).k = "quit"
  /\ cx' = IF context_ = 0 THEN Popped(i)
           ELSE [Popped(i) EXCEPT ![context_].s = IF @ = "failed" THEN "freed" ELSE "closing"]
  /\ context_' = 0 /\ timer' = "gone"
  /\ Resume(Head(cx[i].q).c, <<>>)
  /\ UNCHANGED <<calls, connect_, stages, current_, rlost>>

\* close(): hiredis waits for the replies on their way, and frees the
\* connection inside the call when there are none and it calls us not
Close(c) ==
  /\ Running(c) /\ timer # "gone" /\ context_ # 0
  /\ IF Is(context_, {"freed"})
     THEN Crashes /\ UNCHANGED <<cx, context_, timer, rlost>>
     ELSE /\ context_' = 0 /\ timer' = "gone" /\ UNCHANGED st
          /\ \/ /\ Is(context_, {"connecting", "failed"}) /\ UNCHANGED frames
                /\ cx' = [cx EXCEPT ![context_].s = "freed"]
             \/ /\ Is(context_, {"up"}) /\ UNCHANGED frames
                /\ cx' = [cx EXCEPT ![context_].s = "closing"]
             \/ /\ Is(context_, {"up"}) /\ cx[context_].q = <<>>
                /\ cx' = [cx EXCEPT ![context_].s = "freeing"]
                /\ frames' = Append(frames, Dropping(context_))
             \/ Is(context_, {"freeing"}) /\ UNCHANGED <<cx, frames>>
          /\ rlost' = IF Is(context_, {"connecting"}) /\ connect_ # 0
                         /\ st[connect_] = "redis"
                      THEN rlost \union {connect_} ELSE rlost
  /\ UNCHANGED <<calls, connect_, stages, current_>>

\* the connection ends, or has been closed and the last reply is in
Drop(i) ==
  /\ Loop /\ Is(i, {"up", "closing"})
  /\ cx' = [cx EXCEPT ![i].s = "freeing"] /\ frames' = <<Dropping(i)>>
  /\ UNCHANGED <<st, calls, context_, connect_, timer, stages, current_, rlost>>

\* a null reply for what waits first; quit reads it
DropReply(i) ==
  /\ frames # <<>> /\ Last(frames) = Dropping(i) /\ cx[i].q # <<>>
  /\ LET h == Head(cx[i].q) IN
       IF h.k = "quit" THEN Crashes /\ cx' = Popped(i) /\ UNCHANGED <<stages, rlost>>
       ELSE NextStage(h.c, frames, Popped(i))
  /\ UNCHANGED <<calls, context_, connect_, timer, current_>>

\* cb_subscribe with a null reply for every channel: the first one deletes
\* the request.  An error in answer to SUBSCRIBE comes here too: hiredis
\* ends the connection and calls cb_subscribe with arrays and null only
DropSubscribed(i) ==
  /\ frames # <<>> /\ Last(frames) = Dropping(i) /\ cx[i].q = <<>> /\ current_.i = i
  /\ current_' = None
  /\ IF current_.k = "deleted" THEN Crashes /\ UNCHANGED stages
     ELSE FailTo(current_.c, IF current_.left > 1 THEN Append(frames, Crash) ELSE frames)
  /\ UNCHANGED <<calls, cx, context_, connect_, timer, rlost>>

\* cb_disconnect, and the end of the memory
Dropped(i) ==
  /\ frames # <<>> /\ Last(frames) = Dropping(i) /\ cx[i].q = <<>> /\ current_.i # i
  /\ cx' = [cx EXCEPT ![i].s = "freed"] /\ frames' = Front(frames)
  /\ timer' = IF context_ = 0 THEN timer ELSE "reconnect"
  /\ UNCHANGED <<st, calls, context_, connect_, stages, current_, rlost>>

-----------------------------------------------------------------------------
(* Subscriptions.                                                          *)

\* subscribe to n channels, psubscribe ("pattern"); from a failed context
\* nothing is ever heard
Subscribe(c, k, n) ==
  /\ Call(c) /\ current_ = None /\ Is(context_, {"up", "failed"}) /\ cx[context_].q = <<>>
  /\ LET heard == cx[context_].s = "up" IN
     /\ current_' = [k |-> IF heard THEN k ELSE "unheard", c |-> c, left |-> n,
                     i |-> IF heard THEN context_ ELSE 0, stop |-> FALSE]
     /\ rlost' = IF heard THEN rlost ELSE rlost \union {c}
  /\ Waits(c, "subscribed")
  /\ UNCHANGED <<cx, context_, connect_, timer, stages>>

\* cb_subscribe has no case for the answers to psubscribe: it deletes the
\* request at the first, and reads it at the second
CbPattern ==
  /\ Loop /\ Is(current_.i, {"up"}) /\ current_.k \in {"pattern", "deleted"}
  /\ current_' = [current_ EXCEPT !.k = "deleted"]
  /\ rlost' = rlost \union {current_.c}
  /\ frames' = IF current_.k = "deleted" THEN <<Crash>> ELSE <<>>
  /\ UNCHANGED <<st, calls, cx, context_, connect_, timer, stages>>

\* hiredis refuses UNSUBSCRIBE to a connection that is not subscribed
StopAll(c) ==
  /\ Running(c) /\ ~current_.stop /\ Is(context_, {"up"}) /\ current_.i = context_
  /\ IF current_.k = "deleted" THEN Crashes /\ UNCHANGED current_
     ELSE current_' = [current_ EXCEPT !.stop = TRUE] /\ UNCHANGED <<frames, st>>
  /\ UNCHANGED <<calls, cx, context_, connect_, timer, stages, rlost>>

\* one answer to UNSUBSCRIBE for each channel
CbUnsubscribe ==
  /\ Loop /\ Is(current_.i, {"up"}) /\ current_.k = "channels" /\ current_.stop
  /\ IF current_.left = 1 THEN current_' = None /\ Resume(current_.c, <<>>)
     ELSE current_' = [current_ EXCEPT !.left = @ - 1] /\ UNCHANGED <<frames, st>>
  /\ UNCHANGED <<calls, cx, context_, connect_, timer, stages, rlost>>

RedisCalls ==
  \/ \E c \in Cos :
       \/ Close(c) \/ StopAll(c)
       \/ \E k \in {"default", "quit"} : Command(c, k)
       \/ \E n \in 1 .. 2 : Subscribe(c, "channels", n)
       \/ Subscribe(c, "pattern", 1)
       \/ (Begin(c) \/ Sleep(c) \/ End(c)) /\ UNCHANGED redisVars
  \/ \E i \in DOMAIN cx :
       \/ ConnectCb(i) \/ Reply(i) \/ CbQuit(i)
       \/ Drop(i) \/ DropReply(i) \/ DropSubscribed(i) \/ Dropped(i)
  \/ Timeout \/ TimeoutRest \/ Reconnect \/ CbPattern \/ CbUnsubscribe

RedisNext ==
  \/ RedisCalls /\ UNCHANGED logVars
  \/ \E c \in Cos : Connect(c) \/ ConnectFails(c)
  \/ LogWriteCb /\ UNCHANGED redisVars

\* the connections that hiredis has
Existing == {i \in DOMAIN cx : cx[i].s \notin {"freed", "failed"}}

\* the coroutines that these and the object point to
QueuePointers(i) == {Pointer(<<"queue", i, j>>, cx[i].q[j].c) : j \in DOMAIN cx[i].q}
RedisPointers ==
  (UNION {QueuePointers(i) : i \in Existing})
    \union {Pointer(<<"subscription">>, c) :
              c \in IF current_.i \in Existing /\ current_.k # "deleted" THEN {current_.c} ELSE {}}
    \union {Pointer(<<"connect">>, c) :
              c \in IF connect_ = 0 \/ InTimeout THEN {} ELSE {connect_}}
=============================================================================
