-------------------------------- MODULE Kafka -------------------------------
(***************************************************************************)
(* flame\db\kafka (src/flame/db/kafka): a consumer or a producer, object   *)
(* 1.  A message keeps the library's buffer, its handle, and hands it back *)
(* to the thread when nobody holds the message any more.                   *)
(***************************************************************************)
EXTENDS Worker

VARIABLE ctx_  \* the request offset_commit_cb answers: "null", "ctx", "freed"

KafkaInit ==
  /\ \E kind \in {"consumer", "producer"} : WorkerInit(kind, "live")
  /\ ctx_ = "null"

\* consume() with a timeout is "consume_for"
Consuming == {"consume", "consume_for"}

\* one coroutine consumes
KafkaAsk(c) ==
  /\ UNCHANGED ctx_
  /\ \/ /\ Client.k = "producer"
        /\ Ask(c, "produce", 1, 0) \/ Ask(c, "flush", 1, 0)
     \/ /\ Client.k = "consumer" /\ Len(objs) + Len(Waiting) < MaxObjects
        /\ ~\E j \in Range(Waiting) : j.op \in Consuming \union {"destroy_error"}
        /\ \E op \in Consuming : Ask(c, op, 1, 0)
     \/ \E m \in held \ {1} : 1 \in held /\ Ask(c, "commit", 1, m)

\* polls until there is a message, an error, or the time is up; the polls
\* call offset_commit_cb, which may be after the commit() has returned
ConsumeWkK(op) ==
  /\ Serves(op)
  /\ \/ \E res \in {"message", "error"} : Served(res)
     \/ op = "consume_for" /\ Served("timeout")
  /\ ctx_' \in {ctx_, "null"}
  /\ UNCHANGED <<frames, st, calls, objs, held, ref, thread>>

\* produce_wk, flush_wk, and destroy_msg_wk for an answer that is an error
PlainWk ==
  /\ Serves("produce") \/ Serves("flush") \/ Serves("destroy_error")
  /\ Served("ok") /\ UNCHANGED <<frames, st, calls, objs, held, ref, thread, ctx_>>

\* does not wait for the callback
CommitWk ==
  /\ Serves("commit") /\ Served("ok") /\ ctx_' = "ctx"
  /\ UNCHANGED <<frames, st, calls, objs, held, ref, thread>>

DestroyMsgWk ==
  /\ Serves("destroy_message") /\ Served("ok") /\ SetLib(Head(jobs).o, "freed")
  /\ UNCHANGED <<frames, st, calls, held, ref, thread, ctx_>>

ConsumeCbK(op) ==
  /\ \/ /\ Completes(op, "message")
        /\ objs' = Append(objs, Object("message", 1, "live")) \* message::init
        /\ Returns1(Len(objs) + 1)
     \/ /\ Completes(op, "error") /\ Requeue("destroy_error")
        /\ UNCHANGED <<objs, held>>
     \/ Completes(op, "timeout") /\ Returns1(0) /\ UNCHANGED objs
  /\ UNCHANGED ctx_

\* an exception is thrown in the coroutine by next, which clears ref_ too
DefaultCbK(op) ==
  /\ Completes(op, "ok")
  /\ IF Head(backs).c # 0 THEN Returns1(0)
     ELSE backs' = Tail(backs) /\ UNCHANGED <<frames, st, calls, held, ref, jobs, thread>>
  /\ ctx_' = IF op = "commit" /\ ctx_ = "ctx" /\ ~\E j \in Range(Tail(backs)) : j.op = op
             THEN "freed" ELSE ctx_
  /\ UNCHANGED objs

KafkaNext ==
  \/ \E op \in Consuming : ConsumeWkK(op)
  \/ PlainWk \/ CommitWk \/ DestroyMsgWk
  \/ DestroyWk /\ UNCHANGED ctx_
  \/ /\ Settled
     /\ \/ \E c \in Cos : KafkaAsk(c)
        \/ \E op \in Consuming : ConsumeCbK(op)
        \/ \E op \in {"produce", "flush", "commit", "destroy_message", "destroy_error"} :
             DefaultCbK(op)
        \/ WorkerStep /\ UNCHANGED ctx_
  \/ \E o \in Unheld : Destruct(o, "destroy_message", 1) /\ UNCHANGED ctx_
  \/ CloseWork /\ UNCHANGED ctx_
=============================================================================
