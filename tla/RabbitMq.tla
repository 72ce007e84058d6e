------------------------------ MODULE RabbitMq ------------------------------
(***************************************************************************)
(* flame\db\rabbitmq (src/flame/db/rabbitmq): a consumer or a producer,    *)
(* object 1, on a connection that an error or a missed heartbeat ends.     *)
(* The handle of a message is its envelope.  Prefetch is one, the default: *)
(* the broker delivers the next message when the last one is confirmed.    *)
(***************************************************************************)
EXTENDS Worker

VARIABLE unacked  \* delivered and neither confirmed nor rejected

\* __construct connects, or throws and makes no object
RabbitInit ==
  /\ \E kind \in {"consumer", "producer"} : WorkerInit(kind, "live")
  /\ unacked = {}

\* destroy: conn_ is null from here on
Destroy == objs' = [objs EXCEPT ![1].lib = "freed"]
Closed  == Client.lib = "freed"

-----------------------------------------------------------------------------
(* The producer.                                                           *)

ProducerAsk(c) ==
  /\ Client.k = "producer" /\ UNCHANGED unacked
  /\ \/ Ask(c, "produce", 1, 0)
     \/ Ask(c, "flush", 1, 0)

ProduceWk ==
  /\ Serves("produce") /\ UNCHANGED objs
  /\ IF Closed THEN Served("closed") ELSE Served("ok") \/ Served("error")
  /\ UNCHANGED <<frames, st, calls, held, ref, thread, unacked>>

\* closes the channel and opens it again
FlushWk ==
  /\ Serves("flush")
  /\ \/ Closed /\ Served("closed") /\ UNCHANGED objs
     \/ ~Closed /\ Served("ok") /\ UNCHANGED objs
     \/ ~Closed /\ Served("error") /\ Destroy
  /\ UNCHANGED <<frames, st, calls, held, ref, thread, unacked>>

-----------------------------------------------------------------------------
(* The consumer.                                                           *)

\* one coroutine consumes; the message object is made here and filled later
Consume(c, op) ==
  /\ Client.k = "consumer" /\ Len(objs) < MaxObjects /\ Call(c)
  /\ 1 \in held /\ ~\E j \in Range(Waiting) : j.op \notin {"confirm", "reject"}
  /\ objs' = Append(objs, Object("message", 0, "none"))
  /\ jobs' = Append(jobs, Job(op, c, 1, Len(objs) + 1))
  /\ ref' = [ref EXCEPT ![c] = 1] /\ Waits(c, "job")
  /\ UNCHANGED <<held, backs, thread, unacked>>

\* holds the thread until there is an answer
ConsumeWk(op) ==
  /\ Serves(op)
  /\ LET m == Head(jobs).hold IN
     \/ Closed /\ Served("closed") /\ UNCHANGED <<objs, unacked>>
     \/ /\ ~Closed /\ unacked = {} /\ Served("ok")
        /\ SetLib(m, "live") /\ unacked' = {m}
     \/ /\ ~Closed /\ op = "consume_for" /\ Served("timeout")
        /\ UNCHANGED <<objs, unacked>>
     \/ ~Closed /\ Served("error") /\ Destroy /\ UNCHANGED unacked
  /\ UNCHANGED <<frames, st, calls, held, ref, thread>>

\* the request is used again to release the envelope
ConsumeCb(op) ==
  \/ /\ Completes(op, "ok") /\ Requeue("destroy_message")
     /\ objs' = [objs EXCEPT ![Head(backs).hold].of = 1] \* message::init
     /\ UNCHANGED <<held, unacked>>
  \/ Completes(op, "timeout") /\ Returns1(0) /\ UNCHANGED <<objs, unacked>>
  \/ (Completes(op, "closed") \/ Completes(op, "error")) /\ Fails /\ UNCHANGED unacked

DestroyMessageWk ==
  /\ Serves("destroy_message") /\ Served("ok") /\ SetLib(Head(jobs).hold, "freed")
  /\ UNCHANGED <<frames, st, calls, held, ref, thread, unacked>>

DestroyMessageCb ==
  /\ Completes("destroy_message", "ok") /\ Returns1(Head(backs).hold)
  /\ UNCHANGED <<objs, unacked>>

Settle(c, op, m) ==
  /\ 1 \in held /\ m \in held /\ objs[m].k = "message"
  /\ Ask(c, op, 1, m) /\ UNCHANGED unacked

\* there is no look at conn_ here
SettleWk(op) ==
  /\ Serves(op)
  /\ \/ /\ Closed /\ Crashes /\ UNCHANGED <<jobs, backs, unacked>>
     \/ /\ ~Closed /\ Served("ok") /\ unacked' = unacked \ {Head(jobs).hold}
        /\ UNCHANGED <<frames, st>>
     \/ ~Closed /\ Served("error") /\ UNCHANGED <<frames, st, unacked>>
  /\ UNCHANGED <<calls, objs, held, ref, thread>>

-----------------------------------------------------------------------------

\* timer_wk on the thread's loop, when the heartbeat cannot be sent; the
\* loop runs while close_work waits for the thread, too
HeartbeatFails ==
  /\ ~Closed /\ thread # "closed" /\ ~Crashed /\ Destroy
  /\ UNCHANGED <<frames, st, calls, held, ref, jobs, backs, thread, unacked>>

ErrorCb(op) ==
  /\ \/ Completes(op, "ok") /\ Returns1(0) /\ UNCHANGED objs
     \/ (Completes(op, "closed") \/ Completes(op, "error")) /\ Fails
  /\ UNCHANGED unacked

\* a message has no destructor of its own
MessageGone(o) ==
  /\ o \in Unheld /\ objs[o].k = "message" /\ ~Crashed
  /\ objs' = [objs EXCEPT ![o].gone = TRUE]
  /\ UNCHANGED <<frames, st, calls, held, ref, jobs, backs, thread, unacked>>

RabbitWk ==
  \/ ProduceWk \/ FlushWk \/ DestroyMessageWk \/ HeartbeatFails
  \/ \E op \in {"consume", "consume_for"} : ConsumeWk(op)
  \/ \E op \in {"confirm", "reject"} : SettleWk(op)
  \/ DestroyWk /\ UNCHANGED unacked

RabbitMain ==
  \/ \E c \in Cos :
       \/ ProducerAsk(c)
       \/ \E op \in {"consume", "consume_for"} : Consume(c, op)
       \/ \E op \in {"confirm", "reject"}, m \in held : Settle(c, op, m)
  \/ \E op \in {"consume", "consume_for"} : ConsumeCb(op)
  \/ \E op \in {"produce", "flush", "confirm", "reject"} : ErrorCb(op)
  \/ DestroyMessageCb
  \/ WorkerStep /\ UNCHANGED unacked

RabbitNext ==
  \/ RabbitWk
  \/ Settled /\ RabbitMain
  \/ \E o \in DOMAIN objs : MessageGone(o)
  \/ CloseWork /\ UNCHANGED unacked

\* a consume() that waits for ever behind a message nobody can confirm
Starved == jobs # <<>> /\ Head(jobs).op = "consume" /\ unacked # {}
=============================================================================
