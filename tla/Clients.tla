------------------------------- MODULE Clients ------------------------------
(***************************************************************************)
(* What a script uses besides sockets: the clients of src/flame/db and     *)
(* net/http (RabbitMQ, Kafka and MongoDB on a thread of their own, Redis   *)
(* and HTTP on the loop of the main thread), a ticker and a logger.  They  *)
(* meet only in the coroutines, so a behaviour is about one of them, used  *)
(* by all coroutines.                                                      *)
(***************************************************************************)
EXTENDS RabbitMq, Kafka, MongoDb, Redis, HttpClient, Ticker, Logger

VARIABLE used  \* the client of this behaviour

vars == <<frames, st, calls, objs, held, ref, jobs, backs, thread,
          unacked, ctx_, rows, stale,
          cx, context_, connect_, timer, stages, current_, rlost,
          reqs, msgs, own, hlost,
          tick, repeat, tm_, self_, ticking, meddled,
          file_, pipe_, path_, lreqs, used>>

rabbitVars == <<unacked>>
kafkaVars  == <<ctx_>>
loopVars   == <<tick, repeat, tm_, self_, ticking, meddled,
                file_, pipe_, path_, lreqs>>
dbVars     == <<objs, held, ref, jobs, backs, thread, unacked, ctx_, rows, stale,
                cx, context_, connect_, timer, stages, current_, rlost,
                reqs, msgs, own, hlost>>

Init ==
  /\ used \in {"rabbitmq", "kafka", "mongodb", "redis", "http", "ticker", "logger"}
  /\ ScriptInit /\ RedisInit /\ HttpInit /\ TickInit /\ LogInit
  /\ used = "redis" => file_ # "closed"     \* it uses the default logger
  /\ used \notin {"redis", "logger"} => file_ = "stream"
  /\ \/ /\ used = "rabbitmq" /\ RabbitInit
        /\ ctx_ = "null" /\ rows = 0 /\ stale = FALSE
     \/ /\ used = "kafka" /\ KafkaInit
        /\ unacked = {} /\ rows = 0 /\ stale = FALSE
     \/ /\ used = "mongodb" /\ MongoInit
        /\ unacked = {} /\ ctx_ = "null"
     \/ /\ used \in {"redis", "http", "ticker", "logger"} /\ WorkerInit("none", "none")
        /\ unacked = {} /\ ctx_ = "null" /\ rows = 0 /\ stale = FALSE

Next ==
  /\ UNCHANGED used
  /\ \/ /\ used = "ticker" /\ TickNext
        /\ UNCHANGED logVars /\ UNCHANGED dbVars
     \/ /\ used = "logger" /\ LogNext
        /\ UNCHANGED tickVars /\ UNCHANGED dbVars
     \/ /\ used = "rabbitmq" /\ RabbitNext /\ UNCHANGED loopVars
        /\ UNCHANGED kafkaVars /\ UNCHANGED mongoVars
        /\ UNCHANGED redisVars /\ UNCHANGED httpVars
     \/ /\ used = "kafka" /\ KafkaNext /\ UNCHANGED loopVars
        /\ UNCHANGED rabbitVars /\ UNCHANGED mongoVars
        /\ UNCHANGED redisVars /\ UNCHANGED httpVars
     \/ /\ used = "mongodb" /\ MongoNext /\ UNCHANGED loopVars
        /\ UNCHANGED rabbitVars /\ UNCHANGED kafkaVars
        /\ UNCHANGED redisVars /\ UNCHANGED httpVars
     \/ /\ used = "redis" /\ RedisNext /\ UNCHANGED tickVars
        /\ UNCHANGED workerVars /\ UNCHANGED rabbitVars /\ UNCHANGED kafkaVars
        /\ UNCHANGED mongoVars /\ UNCHANGED httpVars
     \/ /\ used = "http" /\ HttpNext /\ UNCHANGED loopVars
        /\ UNCHANGED workerVars /\ UNCHANGED rabbitVars /\ UNCHANGED kafkaVars
        /\ UNCHANGED mongoVars /\ UNCHANGED redisVars

\* servers answer, and the threads and the loop run
Spec == Init /\ [][Next]_vars /\ WF_vars(Next)

-----------------------------------------------------------------------------
(* Properties.                                                             *)

Pointers ==
  CASE used = "redis"  -> RedisPointers \union LogPointers
    [] used = "http"   -> HttpPointers
    [] used = "logger" -> LogPointers
    [] OTHER           -> WorkerPointers

(* The queues and the libraries hold pointers to coroutines.  Each points  *)
(* to one that waits, and no two to the same: a second next or fail would  *)
(* run a generator inside itself or answer its next call (coroutine.cpp    *)
(* line 134; redis.cpp line 69, consume_cb, to_array_cb, find_one_cb,      *)
(* which use a request twice).                                             *)
ResumesOnce ==
  \/ Crashed
  \/ /\ \A p, q \in Pointers : p.c = q.c => p = q
     /\ \A p \in Pointers : st[p.c] \notin {"ready", "run", "ended"}

(* And who waits for a client is pointed to: whatever ends, is closed or   *)
(* is dropped, and in whatever order, no pointer gets lost but those of    *)
(* rlost and hlost, whose coroutines wait for ever (redis.cpp lines 114,   *)
(* 133, 163, 292, 410; client.cpp lines 194, 210).                         *)
NobodyForgotten ==
  \/ Crashed
  \/ \A c \in Cos : st[c] \in {"job", "redis", "subscribed", "http", "log"} =>
       c \in rlost \union hlost \/ \E p \in Pointers : p.c = c

(* Which they do: a late reply, a timer or a connection made after all     *)
(* never resumes a coroutine that has been forgotten.                      *)
ForgottenForGood == [][\A c \in rlost \union hlost : st'[c] = st[c]]_vars

(* Handles of a library belong to its thread, in the order collection or   *)
(* message before client, whoever drops which object when: what is queued  *)
(* finds its handle alive, no handle outlives the client's, and none is    *)
(* left when the thread has ended (collection.cpp line 21, kafka           *)
(* message.cpp line 29, rabbitmq consumer.cpp line 76).  A MongoDB client  *)
(* connected again under its collections is the exception.  A ticker that  *)
(* nobody stops or starts during a tick is there when after_cb reads it    *)
(* (ticker.cpp line 32), though no variable holds it.                      *)
UsedWhileAlive ==
  stale \/
    /\ tick = "gone" /\ ~meddled => ticking = {}
    /\ \A j \in Range(jobs) :
         /\ j.o # 1 \/ j.op = "commit" => objs[IF j.o = 1 THEN j.hold ELSE j.o].lib = "live"
         /\ j.op = "destroy_message" /\ j.o = 1 => objs[j.hold].lib = "live"
    /\ used # "rabbitmq" =>
         \A o \in DOMAIN objs : objs[o].lib = "live" => Client.lib = "live"
    /\ thread = "closed" => \A o \in DOMAIN objs : objs[o].lib # "live"

(* Every call comes back, with an answer or an exception, though           *)
(* connections end, clients are closed and dropped and errors come at any  *)
(* step: but for what the process does not survive, the coroutines redis   *)
(* and HTTP forget (redis.cpp lines 114, 133, 163, 292, 410; client.cpp    *)
(* lines 194, 210) and a consume() nothing can end (rabbitmq consumer.cpp  *)
(* line 55).                                                               *)
CallsReturn ==
  \A c \in Cos :
    (st[c] \in {"job", "redis", "http", "log"} \/ (st[c] = "subscribed" /\ current_.c = c /\ current_.stop)) ~>
      \/ st[c] \in {"ready", "run", "ended"}
      \/ Crashed \/ c \in rlost \union hlost \/ Starved
=============================================================================
