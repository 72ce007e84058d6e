---------------------------- MODULE ClientsProofs ----------------------------
(***************************************************************************)
(* Proofs about Clients: handles and objects are used while they live, and *)
(* a coroutine that waits is pointed to by exactly one place, or forgotten *)
(* for good, for any number of coroutines, objects, calls and connections. *)
(*                                                                         *)
(* The invariant for the clients with a thread: an object that is gone is  *)
(* referred to by nothing but the job that ends its handle (RefInv), a job *)
(* belongs to a coroutine that waits for it and keeps its object, or to an *)
(* object that is gone (CallInv); and what each library has of the handles *)
(* (KafkaInv, MongoInv, RabbitInv).  For the ticker: as long as nobody     *)
(* stops or starts it during a tick, ref_ keeps it while one is under way. *)
(*                                                                         *)
(* The invariant about who waits, WaitInv, is in the second half: a place  *)
(* for everybody who waits (RedisInv, HttpInv, LogInv, and Asked for the   *)
(* clients with a thread, whose other half is CallInv).                    *)
(***************************************************************************)
EXTENDS Clients, FiniteSets, FiniteSetTheorems, SequenceTheorems, TLAPS

Worked == used \in {"rabbitmq", "kafka", "mongodb"}

Kinds   == {"consumer", "producer", "client", "message", "collection", "cursor"}
Libs    == {"none", "live", "freed"}
ObjRec  == [k : Kinds, of : Nat, lib : Libs, gone : BOOLEAN]
Results == {"none", "ok", "error", "closed", "timeout", "message", "handle", "null",
            "document", "row", "end"}
Ops == {"produce", "flush", "consume", "consume_for", "destroy_message", "confirm", "reject",
        "commit", "destroy_error", "connect", "collection", "write", "find", "find_one",
        "find_one_af", "next", "to_array", "close"}
JobRec == [op : Ops, c : Cos \cup {0}, o : Nat, hold : Nat, res : Results]
States == {"ready", "run", "ended", "job"}

WorkerTypes ==
  /\ st \in [Cos -> States]
  /\ objs \in Seq(ObjRec) /\ Len(objs) >= 1 /\ objs[1].k # "message"
  /\ ref \in [Cos -> Nat] /\ held \in SUBSET Nat
  /\ thread \in {"open", "closing", "closed"}

(* In the loop nobody runs; else one coroutine does, or the process ends.  *)
Alone ==
  \/ frames = <<>> /\ \A c \in Cos : st[c] # "run"
  \/ \E c \in Cos : frames = <<Frame(c)>> /\ \A d \in Cos : st[d] = "run" <=> d = c
  \/ Crashed

Lives(os, o) == o \in 1 .. Len(os) /\ ~os[o].gone
Alive(o) == Lives(objs, o)

AllJobs == Range(jobs) \cup Range(backs)

RefInv ==
  /\ \A o \in held : Alive(o)
  /\ \A c \in Cos : ref[c] # 0 => Alive(ref[c])
  /\ \A p \in 1 .. Len(objs) : Alive(p) /\ objs[p].of # 0 => Alive(objs[p].of)
  /\ \A j \in AllJobs : j.hold # 0 => Alive(j.hold)

(* Whose a job is: a coroutine's, or an object's that is gone.             *)
Key(j) == <<j.c, IF j.c = 0 THEN j.o ELSE 0>>

(* Two queues with at most one job of each.                                *)
Queues(s, t) ==
  /\ s \in Seq(JobRec) /\ t \in Seq(JobRec)
  /\ \A i, k \in 1 .. Len(s) : Key(s[i]) = Key(s[k]) => i = k
  /\ \A i, k \in 1 .. Len(t) : Key(t[i]) = Key(t[k]) => i = k
  /\ \A i \in 1 .. Len(s) : \A k \in 1 .. Len(t) : Key(s[i]) # Key(t[k])

Kept(j) ==
  IF j.c = 0 THEN j.o \in 2 .. Len(objs) /\ objs[j.o].gone
  ELSE st[j.c] = "job" /\ ref[j.c] = j.o /\ j.o # 0

CallInv == Queues(jobs, backs) /\ \A j \in AllJobs : Kept(j)

ThreadInv ==
  /\ thread = "open" <=> ~objs[1].gone
  /\ thread = "closed" => jobs = <<>> /\ objs[1].lib = "freed"

WorkerInv == WorkerTypes /\ Alone /\ RefInv /\ CallInv /\ ThreadInv

(* Kafka and MongoDB: an object lives as long as its handle, but for the   *)
(* time the job that ends the handle is queued; who made it lives longer.  *)
HandleInv ==
  /\ \A o \in 2 .. Len(objs) :
       /\ Alive(o) => objs[o].lib = "live"
       /\ objs[o].lib = "live" => Alive(o) \/ \E j \in Range(jobs) : j.c = 0 /\ j.o = o
       /\ objs[o].of \in 1 .. Len(objs)
       /\ objs[o].of # 1 => objs[objs[o].of].of = 1
  /\ \A j \in Range(jobs) : j.c = 0 => objs[j.o].lib = "live"

KafkaJob(j) ==
  IF j.c = 0 THEN j.op = "destroy_message" /\ j.hold = 1
  ELSE /\ j.op \in {"produce", "flush", "consume", "consume_for", "commit", "destroy_error"}
       /\ j.o = 1
       /\ j.op = "commit" => j.hold \in 2 .. Len(objs)

KafkaInv ==
  /\ HandleInv /\ \A j \in AllJobs : KafkaJob(j)
  /\ thread # "closed" => objs[1].lib = "live"

MongoJob(j) ==
  /\ j.hold = 0
  /\ IF j.c = 0 THEN j.op = "close" /\ j.res \in {"none", "ok"}
     ELSE /\ j.op \in {"connect", "collection", "write", "find", "find_one", "find_one_af",
                       "next", "to_array"}
          /\ j.op \in {"connect", "collection"} <=> j.o = 1
          /\ j.op = "find" => objs[j.o].k = "collection"

MongoInv ==
  /\ HandleInv /\ \A j \in AllJobs : MongoJob(j)
  /\ objs[1].k = "client"
  /\ objs[1].lib = "freed" => thread = "closed"
  /\ \A o \in 1 .. Len(objs) : objs[o].k = "collection" => objs[o].of = 1
  /\ ~stale /\ InUse => objs[1].lib = "live"

RabbitJob(j) ==
  /\ j.c # 0 /\ j.o = 1
  /\ j.op \in {"produce", "flush", "consume", "consume_for", "destroy_message",
               "confirm", "reject"}

(* The request of a consume, from the message object made for it until the *)
(* envelope has been released.                                             *)
Consumes(j) == j.op \in {"consume", "consume_for", "destroy_message"}
Filled(j) ==
  \/ j \in Range(jobs) /\ j.op = "destroy_message"
  \/ j \in Range(backs) /\ j.op # "destroy_message" /\ j.res = "ok"

RabbitInv ==
  /\ \A j \in AllJobs : RabbitJob(j)
  /\ \A j \in AllJobs : Consumes(j) =>
       /\ j.hold \in 2 .. Len(objs)
       /\ Filled(j) => objs[j.hold].lib = "live"
       /\ \A i \in AllJobs : Consumes(i) /\ i.hold = j.hold => i.c = j.c
  /\ \A o \in 2 .. Len(objs) :
       objs[o].lib = "live" => \E j \in AllJobs : Consumes(j) /\ Filled(j) /\ j.hold = o

TickInv ==
  /\ tick \in {"none", "held", "let_go", "gone"} /\ tm_ \in {"on", "off"}
  /\ tick \in {"none", "gone"} => tm_ = "off"
  /\ tick = "none" => ticking = {}
  /\ ~meddled =>
       /\ ticking # {} \/ tm_ = "on" => self_
       /\ tick = "gone" => ticking = {}
       /\ ~repeat => /\ ticking # {} => tm_ = "off"
                     /\ \A c, d \in ticking : c = d

Inv ==
  /\ used \in {"rabbitmq", "kafka", "mongodb", "redis", "http", "ticker", "logger"}
  /\ TickInv /\ (used # "ticker" => tick = "none")
  /\ IF Worked THEN WorkerInv
     ELSE objs = <<Object("none", 0, "none")>> /\ jobs = <<>> /\ thread = "open"
  /\ used = "kafka" => KafkaInv
  /\ used = "mongodb" => MongoInv
  /\ used = "rabbitmq" => RabbitInv
  /\ used # "mongodb" => stale = FALSE

-----------------------------------------------------------------------------
(* The queues.                                                             *)

LEMMA InRange ==
  ASSUME NEW S, NEW s \in Seq(S)
  PROVE  /\ Len(s) \in Nat
         /\ \A i \in 1 .. Len(s) : s[i] \in Range(s) /\ s[i] \in S
         /\ \A x \in Range(s) : x \in S /\ \E i \in 1 .. Len(s) : x = s[i]
         /\ s = <<>> <=> Range(s) = {}
         /\ s = <<>> <=> Len(s) = 0
<1>1. Len(s) \in Nat /\ DOMAIN s = 1 .. Len(s) /\ \A i \in 1 .. Len(s) : s[i] \in S
  OBVIOUS
<1>2. s = <<>> <=> Len(s) = 0
  OBVIOUS
<1>3. /\ \A i \in 1 .. Len(s) : s[i] \in Range(s)
      /\ \A x \in Range(s) : \E i \in 1 .. Len(s) : x = s[i]
  BY <1>1 DEF Range
<1>4. Len(s) # 0 => 1 \in 1 .. Len(s)
  BY <1>1
<1>5. Len(s) = 0 => \A i : i \notin 1 .. Len(s)
  OBVIOUS
<1> QED
  BY <1>1, <1>2, <1>3, <1>4, <1>5

LEMMA Appended ==
  ASSUME NEW S, NEW s \in Seq(S), NEW x \in S
  PROVE  /\ Append(s, x) \in Seq(S) /\ Len(Append(s, x)) = Len(s) + 1
         /\ \A i \in 1 .. Len(s) + 1 : Append(s, x)[i] = IF i = Len(s) + 1 THEN x ELSE s[i]
         /\ Range(Append(s, x)) = Range(s) \cup {x}
<1>1. /\ Append(s, x) \in Seq(S) /\ Len(Append(s, x)) = Len(s) + 1 /\ Len(s) \in Nat
      /\ \A i \in 1 .. Len(s) + 1 : Append(s, x)[i] = IF i = Len(s) + 1 THEN x ELSE s[i]
      /\ DOMAIN s = 1 .. Len(s) /\ DOMAIN Append(s, x) = 1 .. Len(s) + 1
  OBVIOUS
<1>2. /\ Len(s) + 1 \in 1 .. Len(s) + 1
      /\ \A i : i \in 1 .. Len(s) + 1 <=> i \in 1 .. Len(s) \/ i = Len(s) + 1
      /\ Len(s) + 1 \notin 1 .. Len(s)
  BY <1>1
<1>3. Range(Append(s, x)) = Range(s) \cup {x}
  BY <1>1, <1>2 DEF Range
<1> QED
  BY <1>1, <1>3

LEMMA Tailed ==
  ASSUME NEW S, NEW s \in Seq(S), s # <<>>
  PROVE  /\ Tail(s) \in Seq(S) /\ Len(s) \in Nat \ {0} /\ Len(Tail(s)) = Len(s) - 1
         /\ Head(s) = s[1] /\ Head(s) \in S /\ Head(s) \in Range(s)
         /\ \A i \in 1 .. Len(s) - 1 : Tail(s)[i] = s[i + 1]
         /\ Range(s) = Range(Tail(s)) \cup {Head(s)}
<1>1. /\ Tail(s) \in Seq(S) /\ Len(s) \in Nat \ {0} /\ Len(Tail(s)) = Len(s) - 1
      /\ Head(s) = s[1]
      /\ \A i \in 1 .. Len(s) - 1 : Tail(s)[i] = s[i + 1]
      /\ DOMAIN s = 1 .. Len(s) /\ DOMAIN Tail(s) = 1 .. Len(s) - 1
  OBVIOUS
<1>2. /\ 1 \in 1 .. Len(s)
      /\ \A i \in 1 .. Len(s) : i = 1 \/ (i - 1 \in 1 .. Len(s) - 1 /\ (i - 1) + 1 = i)
      /\ \A i \in 1 .. Len(s) - 1 : i + 1 \in 1 .. Len(s)
  BY <1>1
<1>3. Head(s) \in S /\ Head(s) \in Range(s)
  BY <1>1, <1>2 DEF Range
<1>4. ASSUME NEW y \in Range(s) PROVE y \in Range(Tail(s)) \/ y = Head(s)
  <2>1. PICK i \in 1 .. Len(s) : y = s[i]
    BY <1>1 DEF Range
  <2>2. CASE i = 1
    BY <2>1, <2>2, <1>1
  <2>3. CASE i # 1
    <3>1. i - 1 \in 1 .. Len(s) - 1 /\ Tail(s)[i - 1] = s[i]
      BY <2>3, <1>1, <1>2
    <3> QED BY <3>1, <2>1, <1>1 DEF Range
  <2> QED BY <2>2, <2>3
<1>5. ASSUME NEW y \in Range(Tail(s)) PROVE y \in Range(s)
  <2>1. PICK i \in 1 .. Len(s) - 1 : y = Tail(s)[i]
    BY <1>1 DEF Range
  <2> QED BY <2>1, <1>1, <1>2 DEF Range
<1> QED
  BY <1>1, <1>3, <1>4, <1>5

LEMMA OtherWay ==
  ASSUME NEW s, NEW t, Queues(s, t)
  PROVE  Queues(t, s)
BY DEF Queues

LEMMA OneEach ==
  ASSUME NEW s, NEW t, Queues(s, t)
  PROVE  /\ \A i, k \in Range(s) \cup Range(t) : Key(i) = Key(k) => i = k
         /\ \A i \in Range(s), k \in Range(t) : Key(i) # Key(k)
<1>1. s \in Seq(JobRec) /\ t \in Seq(JobRec)
  BY DEF Queues
<1>2. /\ \A x \in Range(s) : \E i \in 1 .. Len(s) : x = s[i]
      /\ \A x \in Range(t) : \E i \in 1 .. Len(t) : x = t[i]
  BY <1>1, InRange
<1> QED
  BY <1>2 DEF Queues

LEMMA QueuesAppend ==
  ASSUME NEW s, NEW t, Queues(s, t), NEW j \in JobRec,
         \A i \in Range(s) \cup Range(t) : Key(i) # Key(j)
  PROVE  Queues(Append(s, j), t) /\ Range(Append(s, j)) = Range(s) \cup {j}
<1>1. /\ s \in Seq(JobRec) /\ t \in Seq(JobRec) /\ Len(s) \in Nat
      /\ \A i \in 1 .. Len(s) : s[i] \in Range(s)
      /\ \A i \in 1 .. Len(t) : t[i] \in Range(t)
  BY InRange DEF Queues
<1> DEFINE u == Append(s, j)
<1>2. /\ u \in Seq(JobRec) /\ Len(u) = Len(s) + 1
      /\ \A i \in 1 .. Len(s) + 1 : u[i] = IF i = Len(s) + 1 THEN j ELSE s[i]
      /\ Range(u) = Range(s) \cup {j}
  BY <1>1, Appended
<1>3. \A i : i \in 1 .. Len(s) + 1 <=> i \in 1 .. Len(s) \/ i = Len(s) + 1
  BY <1>1
<1> HIDE DEF u
<1>4. \A i, k \in 1 .. Len(u) : Key(u[i]) = Key(u[k]) => i = k
  BY <1>1, <1>2, <1>3 DEF Queues
<1>5. \A i \in 1 .. Len(u) : \A k \in 1 .. Len(t) : Key(u[i]) # Key(t[k])
  BY <1>1, <1>2, <1>3 DEF Queues
<1>6. Queues(u, t)
  BY <1>1, <1>2, <1>4, <1>5 DEF Queues
<1> QED
  BY <1>2, <1>6 DEF u

LEMMA QueuesTail ==
  ASSUME NEW s, NEW t, Queues(s, t), s # <<>>
  PROVE  /\ Queues(Tail(s), t)
         /\ Head(s) \in JobRec /\ Head(s) \in Range(s) /\ Head(s) \notin Range(t)
         /\ Range(Tail(s)) = Range(s) \ {Head(s)}
         /\ \A i \in Range(Tail(s)) \cup Range(t) : Key(i) # Key(Head(s))
<1>1. s \in Seq(JobRec) /\ t \in Seq(JobRec)
  BY DEF Queues
<1> DEFINE u == Tail(s)
<1>2. /\ u \in Seq(JobRec) /\ Len(s) \in Nat \ {0} /\ Len(u) = Len(s) - 1
      /\ Head(s) = s[1] /\ Head(s) \in JobRec /\ Head(s) \in Range(s)
      /\ \A i \in 1 .. Len(s) - 1 : u[i] = s[i + 1]
      /\ Range(s) = Range(u) \cup {Head(s)}
  BY <1>1, Tailed
<1>3. \A i \in 1 .. Len(s) - 1 : i + 1 \in 1 .. Len(s) /\ i + 1 # 1
  BY <1>2
<1>4. 1 \in 1 .. Len(s) /\ \A i, k \in 1 .. Len(s) - 1 : i + 1 = k + 1 => i = k
  BY <1>2
<1> HIDE DEF u
<1>5. \A i, k \in 1 .. Len(u) : Key(u[i]) = Key(u[k]) => i = k
  BY <1>2, <1>3, <1>4 DEF Queues
<1>6. \A i \in 1 .. Len(u) : \A k \in 1 .. Len(t) : Key(u[i]) # Key(t[k])
  BY <1>2, <1>3 DEF Queues
<1>7. Queues(u, t)
  BY <1>1, <1>2, <1>5, <1>6 DEF Queues
<1>8. \A i \in 1 .. Len(u) : Key(u[i]) # Key(Head(s))
  BY <1>2, <1>3, <1>4 DEF Queues
<1>9. \A i \in 1 .. Len(t) : Key(t[i]) # Key(Head(s))
  BY <1>2, <1>4 DEF Queues
<1>10. /\ \A x \in Range(u) : \E i \in 1 .. Len(u) : x = u[i]
       /\ \A x \in Range(t) : \E i \in 1 .. Len(t) : x = t[i]
  BY <1>1, <1>2, InRange
<1>11. \A i \in Range(u) \cup Range(t) : Key(i) # Key(Head(s))
  BY <1>8, <1>9, <1>10
<1> QED
  BY <1>2, <1>7, <1>11 DEF u

(* What the moves of a job do to the queues: asked, served, completed, and *)
(* completed and queued again.                                             *)
Like(i, j) == i.c = j.c /\ i.o = j.o /\ i.hold = j.hold

LEMMA QAsked ==
  ASSUME Queues(jobs, backs), NEW op \in Ops, NEW c \in Cos \cup {0},
         NEW o \in Nat, NEW hold \in Nat,
         jobs' = Append(jobs, Job(op, c, o, hold)), backs' = backs,
         \A i \in AllJobs : Key(i) # <<c, IF c = 0 THEN o ELSE 0>>
  PROVE  \E j \in JobRec :
           /\ j.op = op /\ j.c = c /\ j.o = o /\ j.hold = hold /\ j.res = "none"
           /\ Range(jobs') = Range(jobs) \cup {j} /\ Range(backs') = Range(backs)
           /\ Queues(jobs', backs')
<1> DEFINE j == Job(op, c, o, hold)
<1>0. j = [op |-> op, c |-> c, o |-> o, hold |-> hold, res |-> "none"]
  BY DEF Job
<1>r. j \in JobRec
  BY <1>0 DEF JobRec, Results
<1>1. j \in JobRec /\ j.op = op /\ j.c = c /\ j.o = o /\ j.hold = hold /\ j.res = "none"
  BY <1>0, <1>r
<1> HIDE DEF j
<1>2. \A i \in Range(jobs) \cup Range(backs) : Key(i) # Key(j)
  BY <1>1 DEF Key, AllJobs
<1>3. Queues(Append(jobs, j), backs) /\ Range(Append(jobs, j)) = Range(jobs) \cup {j}
  BY <1>1, <1>2, QueuesAppend
<1>4. jobs' = Append(jobs, j)
  BY DEF j
<1> QED
  BY <1>1, <1>3, <1>4

LEMMA QServed ==
  ASSUME Queues(jobs, backs), jobs # <<>>, NEW res \in Results, Served(res)
  PROVE  \E j \in JobRec :
           /\ Like(j, Head(jobs)) /\ j.op = Head(jobs).op /\ j.res = res
           /\ Range(jobs') = Range(jobs) \ {Head(jobs)}
           /\ Range(backs') = Range(backs) \cup {j}
           /\ Queues(jobs', backs')
<1> DEFINE h == Head(jobs)
           j == [h EXCEPT !.res = res]
<1>1. /\ Queues(Tail(jobs), backs) /\ h \in JobRec
      /\ Range(Tail(jobs)) = Range(jobs) \ {h}
      /\ \A i \in Range(Tail(jobs)) \cup Range(backs) : Key(i) # Key(h)
  BY QueuesTail
<1>2. jobs' = Tail(jobs) /\ backs' = Append(backs, j)
  BY DEF Served
<1> HIDE DEF h
<1>3. j \in JobRec /\ j.op = h.op /\ j.c = h.c /\ j.o = h.o /\ j.hold = h.hold /\ j.res = res
  BY <1>1 DEF JobRec
<1> HIDE DEF j
<1>4. \A i \in Range(backs) \cup Range(jobs') : Key(i) # Key(j)
  BY <1>1, <1>2, <1>3 DEF Key
<1>5. Queues(backs, jobs')
  BY <1>1, <1>2, OtherWay
<1>6. Queues(backs', jobs') /\ Range(backs') = Range(backs) \cup {j}
  BY <1>2, <1>3, <1>4, <1>5, QueuesAppend
<1>7. Queues(jobs', backs')
  BY <1>6, OtherWay
<1> QED
  BY <1>1, <1>2, <1>3, <1>6, <1>7 DEF Like, h

LEMMA QTaken ==
  ASSUME Queues(jobs, backs), backs # <<>>, backs' = Tail(backs), jobs' = jobs
  PROVE  /\ Head(backs) \in JobRec /\ Head(backs) \in Range(backs)
         /\ Range(backs') = Range(backs) \ {Head(backs)} /\ Range(jobs') = Range(jobs)
         /\ Queues(jobs', backs')
         /\ \A i \in AllJobs' : Key(i) # Key(Head(backs))
<1>1. Queues(backs, jobs)
  BY OtherWay
<1>2. /\ Queues(backs', jobs) /\ Head(backs) \in JobRec /\ Head(backs) \in Range(backs)
      /\ Range(backs') = Range(backs) \ {Head(backs)}
      /\ \A i \in Range(backs') \cup Range(jobs) : Key(i) # Key(Head(backs))
  BY <1>1, QueuesTail
<1>3. Queues(jobs', backs')
  BY <1>2, OtherWay
<1> QED
  BY <1>2, <1>3 DEF AllJobs

LEMMA QRequeued ==
  ASSUME Queues(jobs, backs), backs # <<>>, NEW op \in Ops, Requeue(op)
  PROVE  \E j \in JobRec :
           /\ Like(j, Head(backs)) /\ j.op = op /\ j.res = Head(backs).res
           /\ Range(jobs') = Range(jobs) \cup {j}
           /\ Range(backs') = Range(backs) \ {Head(backs)}
           /\ Queues(jobs', backs')
<1> DEFINE h == Head(backs)
           j == [h EXCEPT !.op = op]
<1>0. Queues(backs, jobs)
  BY OtherWay
<1>1. /\ Queues(Tail(backs), jobs) /\ h \in JobRec
      /\ Range(Tail(backs)) = Range(backs) \ {h}
      /\ \A i \in Range(Tail(backs)) \cup Range(jobs) : Key(i) # Key(h)
  BY <1>0, QueuesTail
<1>2. backs' = Tail(backs) /\ jobs' = Append(jobs, j)
  BY DEF Requeue
<1> HIDE DEF h
<1>3. j \in JobRec /\ j.op = op /\ j.c = h.c /\ j.o = h.o /\ j.hold = h.hold /\ j.res = h.res
  BY <1>1 DEF JobRec
<1> HIDE DEF j
<1>4. \A i \in Range(jobs) \cup Range(backs') : Key(i) # Key(j)
  BY <1>1, <1>2, <1>3 DEF Key
<1>5. Queues(jobs, backs')
  BY <1>1, <1>2, OtherWay
<1>6. Queues(jobs', backs') /\ Range(jobs') = Range(jobs) \cup {j}
  BY <1>2, <1>3, <1>4, <1>5, QueuesAppend
<1> QED
  BY <1>1, <1>2, <1>3, <1>6 DEF Like, h

-----------------------------------------------------------------------------
(* The coroutines: at most one runs.                                       *)

LEMMA Resumed ==
  ASSUME Alone, Loop, st \in [Cos -> States], NEW c \in Cos, Resume(c, <<>>)
  PROVE  Alone' /\ st' \in [Cos -> States] /\ ~Crashed /\ \A d \in Cos : st[d] # "run"
<1>1. frames = <<>> /\ frames' = <<Frame(c)>> /\ st' = [st EXCEPT ![c] = "run"]
  BY DEF Loop, Resume
<1>2. ~Crashed
  BY <1>1 DEF Crashed
<1>3. \A d \in Cos : st[d] # "run"
  BY <1>1, <1>2 DEF Alone
<1>4. \A d \in Cos : st'[d] = "run" <=> d = c
  BY <1>1, <1>3
<1>5. Alone'
  BY <1>1, <1>4 DEF Alone
<1>6. st' \in [Cos -> States]
  BY <1>1 DEF States
<1> QED
  BY <1>2, <1>3, <1>5, <1>6

LEMMA Waited ==
  ASSUME Alone, st \in [Cos -> States], NEW c \in Cos, Running(c),
         NEW w \in States, w # "run", Waits(c, w)
  PROVE  Alone' /\ st' \in [Cos -> States] /\ st[c] = "run"
<1>1. ~Crashed
  BY DEF Running, Crashed, Crash, Rest, Frame
<1>2. frames # <<>>
  BY DEF Running
<1>3. PICK e \in Cos : frames = <<Frame(e)>> /\ \A d \in Cos : st[d] = "run" <=> d = e
  BY <1>1, <1>2 DEF Alone
<1>4. Last(frames) = Frame(e) /\ Front(frames) = <<>>
  BY <1>3 DEF Last, Front
<1>5. e = c
  BY <1>4 DEF Running, Frame
<1>6. st' = [st EXCEPT ![c] = w] /\ frames' = <<>>
  BY <1>4 DEF Waits
<1> QED
  BY <1>3, <1>5, <1>6 DEF Alone

LEMMA CrashedNow ==
  ASSUME Alone, ~Crashed, Crashes
  PROVE  Alone'
<1>1. PICK f : (frames = <<>> \/ frames = <<f>>) /\ frames' = Append(frames, Crash)
  BY DEF Crashes, Alone
<1>2. frames' # <<>> /\ Last(frames') = Crash
  BY <1>1 DEF Last
<1> QED
  BY <1>2 DEF Alone, Crashed

-----------------------------------------------------------------------------
(* The objects.                                                            *)

(* A step that ends no object, and makes none that refers to a dead one.   *)
Well ==
  /\ objs' \in Seq(ObjRec) /\ Len(objs') >= Len(objs)
  /\ \A p \in 1 .. Len(objs) :
       /\ objs'[p].gone = objs[p].gone /\ objs'[p].k = objs[p].k
       /\ objs'[p].of = objs[p].of \/ Alive(objs'[p].of)
  /\ \A p \in Len(objs) + 1 .. Len(objs') :
       ~objs'[p].gone /\ (objs'[p].of # 0 => Alive(objs'[p].of))
  /\ thread = "closed" => objs'[1].lib = objs[1].lib

LEMMA LibSet ==
  ASSUME WorkerTypes, NEW o \in 1 .. Len(objs), NEW h \in Libs, SetLib(o, h),
         thread # "closed"
  PROVE  /\ Well /\ Len(objs') = Len(objs)
         /\ \A p \in 1 .. Len(objs) :
              /\ objs'[p].k = objs[p].k /\ objs'[p].of = objs[p].of
              /\ objs'[p].gone = objs[p].gone
              /\ objs'[p].lib = IF p = o THEN h ELSE objs[p].lib
<1>1. /\ objs \in Seq(ObjRec) /\ Len(objs) \in Nat /\ DOMAIN objs = 1 .. Len(objs)
      /\ \A p \in 1 .. Len(objs) : objs[p] \in ObjRec
  BY DEF WorkerTypes
<1>2. objs' = [objs EXCEPT ![o].lib = h]
  BY DEF SetLib
<1>3. [objs[o] EXCEPT !.lib = h] \in ObjRec
  BY <1>1 DEF ObjRec
<1>4. /\ objs' \in Seq(ObjRec) /\ Len(objs') = Len(objs)
      /\ \A p \in 1 .. Len(objs) : objs'[p] = IF p = o THEN [objs[o] EXCEPT !.lib = h] ELSE objs[p]
  BY <1>1, <1>2, <1>3
<1>5. \A p \in 1 .. Len(objs) :
        /\ objs'[p].k = objs[p].k /\ objs'[p].of = objs[p].of
        /\ objs'[p].gone = objs[p].gone
        /\ objs'[p].lib = IF p = o THEN h ELSE objs[p].lib
  BY <1>1, <1>4 DEF ObjRec
<1>6. Well
  BY <1>1, <1>4, <1>5 DEF Well
<1> QED
  BY <1>4, <1>5, <1>6

LEMMA ObjectMade ==
  ASSUME WorkerTypes, NEW k \in Kinds, NEW of \in Nat, NEW h \in Libs,
         objs' = Append(objs, Object(k, of, h)), of # 0 => Alive(of)
  PROVE  /\ Well /\ Len(objs') = Len(objs) + 1
         /\ \A p \in 1 .. Len(objs) : objs'[p] = objs[p]
         /\ objs'[Len(objs) + 1].k = k /\ objs'[Len(objs) + 1].of = of
         /\ objs'[Len(objs) + 1].lib = h /\ ~objs'[Len(objs) + 1].gone
<1> DEFINE x == Object(k, of, h)
<1>1. /\ objs \in Seq(ObjRec) /\ Len(objs) \in Nat /\ Len(objs) >= 1
  BY DEF WorkerTypes
<1>2. x \in ObjRec /\ x.k = k /\ x.of = of /\ x.lib = h /\ x.gone = FALSE
  BY DEF Object, ObjRec
<1> HIDE DEF x
<1>3. /\ objs' \in Seq(ObjRec) /\ Len(objs') = Len(objs) + 1
      /\ \A p \in 1 .. Len(objs) + 1 : objs'[p] = IF p = Len(objs) + 1 THEN x ELSE objs[p]
  <2>1. objs' = Append(objs, x)
    BY DEF x
  <2> QED BY <1>1, <1>2, <2>1, Appended
<1>4. /\ \A p \in 1 .. Len(objs) : objs'[p] = objs[p]
      /\ objs'[Len(objs) + 1] = x
  BY <1>1, <1>3
<1>5. \A p : p \in Len(objs) + 1 .. Len(objs') => p = Len(objs) + 1
  BY <1>1, <1>3
<1>6. Well
  BY <1>1, <1>2, <1>3, <1>4, <1>5 DEF Well
<1> QED
  BY <1>2, <1>3, <1>4, <1>6

LEMMA SameObjects ==
  ASSUME WorkerTypes, objs' = objs
  PROVE  Well
<1>1. Len(objs) \in Nat /\ \A p : p \notin Len(objs) + 1 .. Len(objs)
  BY DEF WorkerTypes
<1> QED
  BY <1>1 DEF Well, WorkerTypes

LEMMA StillAlive ==
  ASSUME WorkerTypes, Well
  PROVE  /\ \A p : Alive(p) => Lives(objs', p)
         /\ \A p : Lives(objs', p) => Alive(p) \/ p \in Len(objs) + 1 .. Len(objs')
<1>1. Len(objs) \in Nat /\ Len(objs') \in Nat /\ Len(objs') >= Len(objs)
  BY DEF WorkerTypes, Well
<1>2. \A p \in 1 .. Len(objs') : p \in 1 .. Len(objs) \/ p \in Len(objs) + 1 .. Len(objs')
  BY <1>1
<1>3. \A p \in 1 .. Len(objs) : p \in 1 .. Len(objs')
  BY <1>1
<1> QED
  BY <1>2, <1>3 DEF Alive, Lives, Well

(* Steps that end no object and leave the thread as it is.                 *)
LEMMA StillKept ==
  ASSUME WorkerInv, Well, NEW i \in AllJobs, NEW j \in JobRec, Like(j, i),
         j.c # 0 => st'[j.c] = st[j.c] /\ ref'[j.c] = ref[j.c]
  PROVE  Kept(j)' /\ (j.hold # 0 => Lives(objs', j.hold))
<1>1. Kept(i) /\ (i.hold # 0 => Alive(i.hold))
  BY DEF WorkerInv, CallInv, RefInv
<1>2. \A p : Alive(p) => Lives(objs', p)
  BY StillAlive DEF WorkerInv
<1>3. j.hold # 0 => Lives(objs', j.hold)
  BY <1>1, <1>2 DEF Like
<1>4. CASE j.c = 0
  <2>1. WorkerTypes /\ objs' \in Seq(ObjRec) /\ Len(objs') >= Len(objs)
    BY DEF WorkerInv, Well
  <2>2. Len(objs) \in Nat /\ Len(objs') \in Nat
    BY <2>1 DEF WorkerTypes
  <2>3. \A p \in 1 .. Len(objs) : objs'[p].gone = objs[p].gone
    BY DEF Well
  <2>4. j.o \in 2 .. Len(objs) /\ objs[j.o].gone
    BY <1>1, <1>4 DEF Kept, Like
  <2>5. j.o \in 1 .. Len(objs) /\ j.o \in 2 .. Len(objs')
    BY <2>1, <2>2, <2>4
  <2> QED BY <1>3, <1>4, <2>3, <2>4, <2>5 DEF Kept
<1>5. CASE j.c # 0
  BY <1>1, <1>3, <1>5 DEF Kept, Like
<1> QED
  BY <1>4, <1>5

LEMMA Stepped ==
  ASSUME WorkerInv, Well, thread' = thread, Alone', st' \in [Cos -> States],
         ref' \in [Cos -> Nat], held' \in SUBSET Nat,
         \A o \in held' : Lives(objs', o),
         \A d \in Cos : ref'[d] \in {0, ref[d]} \/ Alive(ref'[d]),
         Queues(jobs', backs'),
         \A j \in AllJobs' : Kept(j)' /\ (j.hold # 0 => Lives(objs', j.hold)),
         thread = "closed" => jobs' = <<>>
  PROVE  WorkerInv'
<1>1. /\ Len(objs) \in Nat /\ Len(objs) >= 1 /\ Len(objs') \in Nat /\ Len(objs') >= Len(objs)
      /\ thread \in {"open", "closing", "closed"} /\ ref \in [Cos -> Nat]
  BY DEF WorkerInv, WorkerTypes, Well
<1>2. WorkerTypes'
  <2>1. objs'[1].k # "message"
    BY <1>1 DEF WorkerInv, WorkerTypes, Well
  <2> QED BY <1>1, <2>1 DEF WorkerTypes, Well
<1>3. /\ \A p : Alive(p) => Lives(objs', p)
      /\ \A p : Lives(objs', p) => Alive(p) \/ p \in Len(objs) + 1 .. Len(objs')
  BY StillAlive DEF WorkerInv
<1>4. \A d \in Cos : ref'[d] # 0 => Lives(objs', ref'[d])
  BY <1>3 DEF WorkerInv, RefInv
<1>5. ASSUME NEW p \in 1 .. Len(objs'), Lives(objs', p), objs'[p].of # 0 PROVE Lives(objs', objs'[p].of)
  <2>1. CASE p \in Len(objs) + 1 .. Len(objs')
    BY <1>3, <1>5, <2>1 DEF Well
  <2>2. CASE p \notin Len(objs) + 1 .. Len(objs')
    <3>1. Alive(p) /\ p \in 1 .. Len(objs)
      BY <1>3, <1>5, <2>2 DEF Alive, Lives
    <3>2. objs[p].of # 0 => Alive(objs[p].of)
      BY <3>1 DEF WorkerInv, RefInv
    <3>3. objs'[p].of = objs[p].of \/ Alive(objs'[p].of)
      BY <3>1 DEF Well
    <3> QED BY <1>3, <1>5, <3>2, <3>3
  <2> QED BY <2>1, <2>2
<1>6. RefInv'
  <2>1. \A j \in AllJobs' : j.hold # 0 => Lives(objs', j.hold)
    OBVIOUS
  <2> QED BY <1>4, <1>5, <2>1 DEF RefInv, Alive
<1>7. CallInv'
  BY DEF CallInv
<1>8. ThreadInv'
  <2>1. objs'[1].gone = objs[1].gone /\ (thread = "closed" => objs'[1].lib = objs[1].lib)
    BY <1>1 DEF Well
  <2> QED BY <2>1 DEF WorkerInv, ThreadInv
<1> QED
  BY <1>2, <1>6, <1>7, <1>8 DEF WorkerInv

(* The thread serves the job at the head.                                  *)
LEMMA ServedStep ==
  ASSUME WorkerInv, jobs # <<>>, NEW res \in Results, Served(res), Well,
         UNCHANGED <<frames, st, held, ref, thread>>
  PROVE  WorkerInv'
<1>1. Queues(jobs, backs)
  BY DEF WorkerInv, CallInv
<1>2. PICK j \in JobRec :
        /\ Like(j, Head(jobs)) /\ Range(jobs') = Range(jobs) \ {Head(jobs)}
        /\ Range(backs') = Range(backs) \cup {j} /\ Queues(jobs', backs')
  BY <1>1, QServed
<1>3. Head(jobs) \in AllJobs /\ AllJobs \subseteq JobRec
  <2>1. Head(jobs) \in Range(jobs)
    BY <1>1, QueuesTail
  <2>2. jobs \in Seq(JobRec) /\ backs \in Seq(JobRec)
    BY <1>1 DEF Queues
  <2>3. Range(jobs) \subseteq JobRec /\ Range(backs) \subseteq JobRec
    BY <2>2, InRange
  <2> QED BY <2>1, <2>3 DEF AllJobs
<1>4. \A i \in AllJobs' : i \in AllJobs \/ i = j
  BY <1>2 DEF AllJobs
<1>5. \A i \in AllJobs' : Kept(i)' /\ (i.hold # 0 => Lives(objs', i.hold))
  <2>1. Kept(j)' /\ (j.hold # 0 => Lives(objs', j.hold))
    BY <1>2, <1>3, StillKept
  <2>2. ASSUME NEW i \in AllJobs PROVE Kept(i)' /\ (i.hold # 0 => Lives(objs', i.hold))
    <3>1. i \in JobRec /\ Like(i, i)
      BY <1>3 DEF Like
    <3> QED BY <3>1, StillKept
  <2> QED BY <1>4, <2>1, <2>2
<1>6. \A o \in held : Lives(objs', o)
  BY StillAlive DEF WorkerInv, RefInv
<1>7. Alone' /\ st' \in [Cos -> States] /\ ref' \in [Cos -> Nat] /\ held' \in SUBSET Nat
  BY DEF WorkerInv, WorkerTypes, Alone, Crashed
<1>8. thread # "closed"
  BY DEF WorkerInv, ThreadInv
<1> QED
  BY <1>2, <1>5, <1>6, <1>7, <1>8, Stepped

(* A completion resumes its coroutine.                                     *)
LEMMA TakenStep ==
  ASSUME WorkerInv, Loop, backs # <<>>, Head(backs).c # 0,
         backs' = Tail(backs), jobs' = jobs, thread' = thread,
         Resume(Head(backs).c, <<>>), Well,
         ref' = ref \/ ref' = [ref EXCEPT ![Head(backs).c] = 0],
         held' \in SUBSET Nat, \A o \in held' : o \in held \/ Lives(objs', o)
  PROVE  WorkerInv'
<1> DEFINE c == Head(backs).c
<1>1. Queues(jobs, backs)
  BY DEF WorkerInv, CallInv
<1>2. /\ Head(backs) \in JobRec /\ Range(backs') = Range(backs) \ {Head(backs)}
      /\ Range(jobs') = Range(jobs) /\ Queues(jobs', backs')
      /\ \A i \in AllJobs' : Key(i) # Key(Head(backs))
  BY <1>1, QTaken
<1>3. c \in Cos /\ AllJobs' \subseteq AllJobs
  BY <1>2 DEF JobRec, AllJobs
<1>4. st \in [Cos -> States] /\ ref \in [Cos -> Nat] /\ Alone
  BY DEF WorkerInv, WorkerTypes
<1>5. Alone' /\ st' \in [Cos -> States]
  BY <1>3, <1>4, Resumed
<1>6. AllJobs \subseteq JobRec
  <2>1. jobs \in Seq(JobRec) /\ backs \in Seq(JobRec)
    BY <1>1 DEF Queues
  <2> QED BY <2>1, InRange DEF AllJobs
<1>7. ASSUME NEW i \in AllJobs' PROVE Kept(i)' /\ (i.hold # 0 => Lives(objs', i.hold))
  <2>1. i \in AllJobs /\ i \in JobRec /\ Like(i, i)
    BY <1>3, <1>6 DEF Like
  <2>2. i.c # c
    BY <1>2 DEF Key
  <2>3. i.c # 0 => i.c \in Cos
    BY <2>1 DEF JobRec
  <2>4. i.c # 0 => st'[i.c] = st[i.c] /\ ref'[i.c] = ref[i.c]
    BY <1>4, <2>2, <2>3 DEF Resume
  <2> QED BY <2>1, <2>4, StillKept
<1>8. \A o \in held' : Lives(objs', o)
  BY StillAlive DEF WorkerInv, RefInv
<1>9. ref' \in [Cos -> Nat] /\ \A d \in Cos : ref'[d] \in {0, ref[d]}
  BY <1>3, <1>4
<1>10. thread = "closed" => jobs' = <<>>
  BY DEF WorkerInv, ThreadInv
<1> QED
  BY <1>2, <1>5, <1>7, <1>8, <1>9, <1>10, Stepped

(* A completion nobody waits for is dropped.                               *)
LEMMA DroppedStep ==
  ASSUME WorkerInv, backs # <<>>, backs' = Tail(backs),
         UNCHANGED <<frames, st, held, ref, jobs, thread, objs>>
  PROVE  WorkerInv' /\ Range(backs') = Range(backs) \ {Head(backs)} /\ Range(jobs') = Range(jobs)
<1>1. Queues(jobs, backs)
  BY DEF WorkerInv, CallInv
<1>2. /\ Range(backs') = Range(backs) \ {Head(backs)}
      /\ Range(jobs') = Range(jobs) /\ Queues(jobs', backs')
  BY <1>1, QTaken
<1>3. Well
  BY SameObjects DEF WorkerInv
<1>4. AllJobs' \subseteq AllJobs
  BY <1>2 DEF AllJobs
<1>5. \A i \in AllJobs' : Kept(i)' /\ (i.hold # 0 => Lives(objs', i.hold))
  BY <1>4 DEF WorkerInv, CallInv, RefInv, Kept, Alive
<1>6. /\ Alone' /\ st' \in [Cos -> States] /\ ref' \in [Cos -> Nat] /\ held' \in SUBSET Nat
      /\ \A o \in held : Lives(objs', o)
      /\ thread = "closed" => jobs' = <<>>
  BY DEF WorkerInv, WorkerTypes, Alone, Crashed, RefInv, Alive, ThreadInv
<1> QED
  BY <1>2, <1>3, <1>5, <1>6, Stepped

(* A completion queues its request again.                                  *)
LEMMA RequeuedStep ==
  ASSUME WorkerInv, backs # <<>>, NEW op \in Ops, Requeue(op), Well, held' = held,
         thread # "closed"
  PROVE  WorkerInv'
<1>1. Queues(jobs, backs)
  BY DEF WorkerInv, CallInv
<1>2. PICK j \in JobRec :
        /\ Like(j, Head(backs)) /\ Range(jobs') = Range(jobs) \cup {j}
        /\ Range(backs') = Range(backs) \ {Head(backs)} /\ Queues(jobs', backs')
  BY <1>1, QRequeued
<1>3. Head(backs) \in AllJobs /\ AllJobs \subseteq JobRec
  <2>1. Head(backs) \in Range(backs)
    BY <1>1, OtherWay, QueuesTail
  <2>2. jobs \in Seq(JobRec) /\ backs \in Seq(JobRec)
    BY <1>1 DEF Queues
  <2>3. Range(jobs) \subseteq JobRec /\ Range(backs) \subseteq JobRec
    BY <2>2, InRange
  <2> QED BY <2>1, <2>3 DEF AllJobs
<1>4. \A i \in AllJobs' : i \in AllJobs \/ i = j
  BY <1>2 DEF AllJobs
<1>0. UNCHANGED <<frames, st, ref, thread>>
  BY DEF Requeue
<1>5. \A i \in AllJobs' : Kept(i)' /\ (i.hold # 0 => Lives(objs', i.hold))
  <2>1. Kept(j)' /\ (j.hold # 0 => Lives(objs', j.hold))
    BY <1>0, <1>2, <1>3, StillKept
  <2>2. ASSUME NEW i \in AllJobs PROVE Kept(i)' /\ (i.hold # 0 => Lives(objs', i.hold))
    <3>1. i \in JobRec /\ Like(i, i)
      BY <1>3 DEF Like
    <3> QED BY <1>0, <3>1, StillKept
  <2> QED BY <1>4, <2>1, <2>2
<1>6. \A o \in held : Lives(objs', o)
  BY StillAlive DEF WorkerInv, RefInv
<1>7. Alone' /\ st' \in [Cos -> States] /\ ref' \in [Cos -> Nat] /\ held' \in SUBSET Nat
  BY <1>0 DEF WorkerInv, WorkerTypes, Alone, Crashed
<1> QED
  BY <1>0, <1>2, <1>5, <1>6, <1>7, Stepped

LEMMA JobsTyped ==
  ASSUME WorkerInv
  PROVE  /\ AllJobs \subseteq JobRec /\ Queues(jobs, backs)
         /\ jobs \in Seq(JobRec) /\ backs \in Seq(JobRec)
<1>1. Queues(jobs, backs)
  BY DEF WorkerInv, CallInv
<1>2. jobs \in Seq(JobRec) /\ backs \in Seq(JobRec)
  BY <1>1 DEF Queues
<1> QED BY <1>1, <1>2, InRange DEF AllJobs

(* A coroutine asks, and waits.                                            *)
Asks(c, op, o, hold) ==
  /\ jobs' = Append(jobs, Job(op, c, o, hold)) /\ ref' = [ref EXCEPT ![c] = o]
  /\ Running(c) /\ Waits(c, "job") /\ UNCHANGED <<held, backs, thread>>

LEMMA AskedStep ==
  ASSUME WorkerInv, NEW c \in Cos, NEW op \in Ops, NEW o \in Nat, NEW hold \in Nat,
         Asks(c, op, o, hold), Alive(o), hold # 0 => Lives(objs', hold), Well,
         thread # "closed"
  PROVE  /\ WorkerInv'
         /\ \E j \in JobRec :
              /\ j.op = op /\ j.c = c /\ j.o = o /\ j.hold = hold /\ j.res = "none"
              /\ Range(jobs') = Range(jobs) \cup {j} /\ Range(backs') = Range(backs)
         /\ \A i \in AllJobs : i.c # c
<1>0. /\ jobs' = Append(jobs, Job(op, c, o, hold)) /\ ref' = [ref EXCEPT ![c] = o]
      /\ Running(c) /\ Waits(c, "job") /\ UNCHANGED <<held, backs, thread>>
  BY DEF Asks
<1>1. Queues(jobs, backs) /\ AllJobs \subseteq JobRec
  BY JobsTyped
<1>2. Alone' /\ st' \in [Cos -> States] /\ st[c] = "run"
  <2>1. "job" \in States /\ Alone /\ st \in [Cos -> States]
    BY DEF States, WorkerInv, WorkerTypes
  <2> QED BY <1>0, <2>1, Waited
<1>3. st \in [Cos -> States] /\ ref \in [Cos -> Nat]
  BY DEF WorkerInv, WorkerTypes
<1>4. 0 \notin Cos
  BY ScriptAssumption
<1>5. \A i \in AllJobs : i.c # c
  BY <1>2, <1>4 DEF WorkerInv, CallInv, Kept
<1>6. \A i \in AllJobs : Key(i) # <<c, IF c = 0 THEN o ELSE 0>>
  BY <1>5 DEF Key
<1>7. PICK j \in JobRec :
        /\ j.op = op /\ j.c = c /\ j.o = o /\ j.hold = hold /\ j.res = "none"
        /\ Range(jobs') = Range(jobs) \cup {j} /\ Range(backs') = Range(backs)
        /\ Queues(jobs', backs')
  BY <1>0, <1>1, <1>6, QAsked
<1>8. o # 0
  BY DEF Alive, Lives
<1>9. st'[c] = "job" /\ ref'[c] = o /\ \A d \in Cos : d # c => st'[d] = st[d] /\ ref'[d] = ref[d]
  BY <1>0, <1>3 DEF Waits
<1>10. ASSUME NEW i \in AllJobs PROVE Kept(i)' /\ (i.hold # 0 => Lives(objs', i.hold))
  <2>1. i \in JobRec /\ Like(i, i) /\ (i.c # 0 => i.c \in Cos) /\ i.c # c
    BY <1>1, <1>5 DEF Like, JobRec
  <2> QED BY <1>9, <2>1, StillKept
<1>11. Kept(j)' /\ (j.hold # 0 => Lives(objs', j.hold))
  BY <1>4, <1>7, <1>8, <1>9 DEF Kept
<1>12. \A i \in AllJobs' : Kept(i)' /\ (i.hold # 0 => Lives(objs', i.hold))
  BY <1>7, <1>10, <1>11 DEF AllJobs
<1>13. \A p \in held : Lives(objs', p)
  BY StillAlive DEF WorkerInv, RefInv
<1>14. ref' \in [Cos -> Nat] /\ held' \in SUBSET Nat
  BY <1>0, <1>3 DEF WorkerInv, WorkerTypes
<1>15. \A d \in Cos : ref'[d] \in {0, ref[d]} \/ Alive(ref'[d])
  BY <1>9
<1>16. WorkerInv'
  BY <1>0, <1>2, <1>7, <1>12, <1>13, <1>14, <1>15, Stepped
<1> QED
  BY <1>5, <1>7, <1>16

(* A coroutine that waits for no job begins, sleeps, ends or lets go.      *)
LEMMA IdleStep ==
  ASSUME WorkerInv, WorkerStep
  PROVE  WorkerInv' /\ UNCHANGED <<objs, jobs, backs, thread>>
<1>0. /\ st \in [Cos -> States] /\ ref \in [Cos -> Nat] /\ Alone
      /\ held \in SUBSET Nat /\ AllJobs \subseteq JobRec
  BY JobsTyped DEF WorkerInv, WorkerTypes
<1>1. ASSUME NEW c \in Cos, UNCHANGED <<objs, jobs, backs, thread>>, Alone',
             st' \in [Cos -> States], held' \subseteq held,
             ref' = ref \/ ref' = [ref EXCEPT ![c] = 0],
             st[c] # "job", \A d \in Cos : d # c => st'[d] = st[d]
      PROVE  WorkerInv'
  <2>1. Well
    BY <1>1, SameObjects DEF WorkerInv
  <2>2. AllJobs' = AllJobs
    BY <1>1 DEF AllJobs
  <2>3. ASSUME NEW i \in AllJobs PROVE Kept(i)' /\ (i.hold # 0 => Lives(objs', i.hold))
    <3>1. Kept(i) /\ i \in JobRec
      BY <1>0 DEF WorkerInv, CallInv
    <3>2. i.c # 0 => i.c \in Cos /\ i.c # c
      BY <3>1, <1>1 DEF Kept, JobRec
    <3>3. Like(i, i) /\ (i.c # 0 => st'[i.c] = st[i.c] /\ ref'[i.c] = ref[i.c])
      BY <1>0, <1>1, <3>2 DEF Like
    <3> QED BY <3>1, <3>3, <2>1, StillKept
  <2>4. ref' \in [Cos -> Nat] /\ \A d \in Cos : ref'[d] \in {0, ref[d]}
    BY <1>0, <1>1
  <2>5. \A o \in held' : Lives(objs', o)
    BY <1>1 DEF WorkerInv, RefInv, Alive
  <2>6. Queues(jobs', backs')
    BY <1>1 DEF WorkerInv, CallInv
  <2>7. (thread = "closed" => jobs' = <<>>) /\ held' \in SUBSET Nat
    BY <1>0, <1>1 DEF WorkerInv, ThreadInv
  <2>8. \A i \in AllJobs' : Kept(i)' /\ (i.hold # 0 => Lives(objs', i.hold))
    BY <2>2, <2>3
  <2> QED BY <1>1, <2>1, <2>4, <2>5, <2>6, <2>7, <2>8, Stepped
<1>2. PICK c \in Cos :
        \/ (Begin(c) \/ Sleep(c)) /\ UNCHANGED workerVars
        \/ EndCo(c)
        \/ \E o \in held : Release(c, o)
  BY DEF WorkerStep
<1>3. CASE Begin(c) /\ UNCHANGED workerVars
  <2>1. Loop /\ st[c] = "ready" /\ Resume(c, <<>>)
    BY <1>3 DEF Begin
  <2>2. Alone' /\ st' \in [Cos -> States]
    BY <1>0, <2>1, Resumed
  <2>3. UNCHANGED <<objs, jobs, backs, thread, held, ref>>
    BY <1>3 DEF workerVars
  <2>4. \A d \in Cos : d # c => st'[d] = st[d]
    BY <1>0, <2>1 DEF Resume
  <2> QED BY <1>1, <2>1, <2>2, <2>3, <2>4
<1>4. ASSUME NEW w \in States, w # "run", Running(c), Waits(c, w)
      PROVE  Alone' /\ st' \in [Cos -> States] /\ st[c] # "job" /\ \A d \in Cos : d # c => st'[d] = st[d]
  <2>1. Alone' /\ st' \in [Cos -> States] /\ st[c] = "run"
    BY <1>0, <1>4, Waited
  <2> QED BY <1>0, <1>4, <2>1 DEF Waits
<1>5. CASE Sleep(c) /\ UNCHANGED workerVars
  <2>1. Running(c) /\ Waits(c, "ready") /\ "ready" \in States
    BY <1>5 DEF Sleep, Call, States
  <2>2. UNCHANGED <<objs, jobs, backs, thread, held, ref>>
    BY <1>5 DEF workerVars
  <2> QED BY <1>1, <1>4, <2>1, <2>2
<1>6. CASE EndCo(c)
  <2>1. Running(c) /\ Waits(c, "ended") /\ "ended" \in States
    BY <1>6 DEF EndCo, End, States
  <2>2. UNCHANGED <<objs, jobs, backs, thread, held>> /\ ref' = [ref EXCEPT ![c] = 0]
    BY <1>6 DEF EndCo
  <2> QED BY <1>1, <1>4, <2>1, <2>2
<1>7. ASSUME NEW o \in held, Release(c, o) PROVE WorkerInv' /\ UNCHANGED <<objs, jobs, backs, thread>>
  <2>1. Running(c) /\ held' \subseteq held /\ UNCHANGED <<frames, st, objs, ref, jobs, backs, thread>>
    BY <1>7 DEF Release
  <2>2. Alone' /\ st' \in [Cos -> States]
    BY <1>0, <2>1 DEF Alone, Crashed
  <2>3. st[c] # "job"
    <3>1. ~Crashed /\ frames # <<>>
      BY <2>1 DEF Running, Crashed, Crash, Rest, Frame
    <3>2. PICK e \in Cos : frames = <<Frame(e)>> /\ \A d \in Cos : st[d] = "run" <=> d = e
      BY <1>0, <3>1 DEF Alone
    <3>3. e = c
      BY <2>1, <3>2 DEF Running, Frame, Last
    <3> QED BY <3>2, <3>3
  <2> QED BY <1>1, <2>1, <2>2, <2>3
<1> QED
  BY <1>2, <1>3, <1>5, <1>6, <1>7 DEF workerVars

-----------------------------------------------------------------------------
(* Objects that nobody holds end, and the thread with the client.          *)

LEMMA ObjectEnds ==
  ASSUME WorkerInv, NEW o \in Unheld, objs' = [objs EXCEPT ![o].gone = TRUE],
         UNCHANGED <<frames, st, held, ref, backs>>
  PROVE  /\ o \in 1 .. Len(objs) /\ Alive(o) /\ Len(objs') = Len(objs)
         /\ \A p \in 1 .. Len(objs) :
              /\ objs'[p].k = objs[p].k /\ objs'[p].of = objs[p].of
              /\ objs'[p].lib = objs[p].lib
              /\ objs'[p].gone = IF p = o THEN TRUE ELSE objs[p].gone
         /\ \A p : Lives(objs', p) <=> Alive(p) /\ p # o
         /\ \A p \in 1 .. Len(objs) : Alive(p) => objs[p].of # o
         /\ \A j \in AllJobs : j.hold # o
         /\ objs' \in Seq(ObjRec) /\ Alone'
         /\ \A p \in held' : Lives(objs', p)
         /\ \A c \in Cos : ref'[c] # 0 => Lives(objs', ref'[c])
         /\ \A p \in 1 .. Len(objs') : Lives(objs', p) /\ objs'[p].of # 0 => Lives(objs', objs'[p].of)
         /\ \A j \in AllJobs : Kept(j)' /\ (j.hold # 0 => Lives(objs', j.hold))
<1>1. /\ objs \in Seq(ObjRec) /\ Len(objs) \in Nat /\ DOMAIN objs = 1 .. Len(objs)
      /\ \A p \in 1 .. Len(objs) : objs[p] \in ObjRec
      /\ ref \in [Cos -> Nat]
  BY DEF WorkerInv, WorkerTypes
<1>2. o \in 1 .. Len(objs) /\ ~objs[o].gone /\ ~Holds(o)
  BY <1>1 DEF Unheld
<1>3. [objs[o] EXCEPT !.gone = TRUE] \in ObjRec
  BY <1>1, <1>2 DEF ObjRec
<1>4. /\ objs' \in Seq(ObjRec) /\ Len(objs') = Len(objs)
      /\ \A p \in 1 .. Len(objs) : objs'[p] = IF p = o THEN [objs[o] EXCEPT !.gone = TRUE] ELSE objs[p]
  BY <1>1, <1>2, <1>3
<1>5. \A p \in 1 .. Len(objs) :
        /\ objs'[p].k = objs[p].k /\ objs'[p].of = objs[p].of
        /\ objs'[p].lib = objs[p].lib
        /\ objs'[p].gone = IF p = o THEN TRUE ELSE objs[p].gone
  BY <1>1, <1>4 DEF ObjRec
<1>6. \A p : Lives(objs', p) <=> Alive(p) /\ p # o
  BY <1>4, <1>5 DEF Alive, Lives
<1>7. /\ \A p \in 1 .. Len(objs) : Alive(p) => objs[p].of # o
      /\ \A j \in AllJobs : j.hold # o
      /\ \A c \in Cos : ref[c] # o
      /\ o \notin held
  BY <1>1, <1>2 DEF Holds, Alive, Lives, AllJobs, Range
<1>8. /\ \A p \in held : Lives(objs', p)
      /\ \A c \in Cos : ref[c] # 0 => Lives(objs', ref[c])
      /\ \A j \in AllJobs : j.hold # 0 => Lives(objs', j.hold)
  BY <1>6, <1>7 DEF WorkerInv, RefInv
<1>9. \A p \in 1 .. Len(objs') : Lives(objs', p) /\ objs'[p].of # 0 => Lives(objs', objs'[p].of)
  BY <1>4, <1>5, <1>6, <1>7 DEF WorkerInv, RefInv
<1>10. \A j \in AllJobs : Kept(j)'
  BY <1>1, <1>4, <1>5 DEF WorkerInv, CallInv, Kept
<1>11. Alone'
  BY DEF WorkerInv, Alone, Crashed
<1>12. Alive(o)
  BY <1>2 DEF Alive, Lives
<1> QED
  BY <1>2, <1>4, <1>5, <1>6, <1>7, <1>8, <1>9, <1>10, <1>11, <1>12

LEMMA DestructStep ==
  ASSUME WorkerInv, NEW o, NEW op \in Ops, NEW hold \in Nat, Destruct(o, op, hold),
         hold # 0 => Lives(objs', hold)
  PROVE  /\ WorkerInv' /\ o \in 2 .. Len(objs) /\ o \in Unheld
         /\ \E j \in JobRec :
              /\ j.op = op /\ j.c = 0 /\ j.o = o /\ j.hold = hold /\ j.res = "none"
              /\ Range(jobs') = Range(jobs) \cup {j} /\ Range(backs') = Range(backs)
<1>1. /\ o \in Unheld /\ o # 1 /\ thread = "open"
      /\ objs' = [objs EXCEPT ![o].gone = TRUE]
      /\ jobs' = Append(jobs, Job(op, 0, o, hold))
      /\ UNCHANGED <<frames, st, calls, held, ref, backs, thread>>
  BY DEF Destruct
<1>2. /\ o \in 1 .. Len(objs) /\ Alive(o) /\ Len(objs') = Len(objs)
      /\ \A p \in 1 .. Len(objs) :
           objs'[p].k = objs[p].k /\ objs'[p].gone = IF p = o THEN TRUE ELSE objs[p].gone
      /\ objs' \in Seq(ObjRec) /\ Alone'
      /\ \A p \in held' : Lives(objs', p)
      /\ \A c \in Cos : ref'[c] # 0 => Lives(objs', ref'[c])
      /\ \A p \in 1 .. Len(objs') : Lives(objs', p) /\ objs'[p].of # 0 => Lives(objs', objs'[p].of)
      /\ \A j \in AllJobs : Kept(j)' /\ (j.hold # 0 => Lives(objs', j.hold))
  BY <1>1, ObjectEnds, ZenonT(60)
<1>3. Len(objs) \in Nat /\ Len(objs) >= 1 /\ o \in Nat /\ o \in 2 .. Len(objs)
  BY <1>1, <1>2 DEF WorkerInv, WorkerTypes
<1>4. \A i \in AllJobs : Key(i) # <<0, IF 0 = 0 THEN o ELSE 0>>
  <2> SUFFICES ASSUME NEW i \in AllJobs, i.c = 0, i.o = o PROVE FALSE
    BY DEF Key
  <2>1. objs[i.o].gone
    BY DEF WorkerInv, CallInv, Kept
  <2> QED BY <1>2, <2>1 DEF Alive, Lives
<1>5. PICK j \in JobRec :
        /\ j.op = op /\ j.c = 0 /\ j.o = o /\ j.hold = hold /\ j.res = "none"
        /\ Range(jobs') = Range(jobs) \cup {j} /\ Range(backs') = Range(backs)
        /\ Queues(jobs', backs')
  <2>1. Queues(jobs, backs)
    BY JobsTyped
  <2>0. o \in Nat
    BY <1>3
  <2>2. PICK c \in Cos \cup {0} : c = 0
    OBVIOUS
  <2>3. /\ \A i \in AllJobs : Key(i) # <<c, IF c = 0 THEN o ELSE 0>>
        /\ jobs' = Append(jobs, Job(op, c, o, hold)) /\ backs' = backs
    BY <1>1, <1>4, <2>2
  <2>4. \E j \in JobRec :
          /\ j.op = op /\ j.c = c /\ j.o = o /\ j.hold = hold /\ j.res = "none"
          /\ Range(jobs') = Range(jobs) \cup {j} /\ Range(backs') = Range(backs)
          /\ Queues(jobs', backs')
    BY <2>0, <2>1, <2>3, QAsked
  <2> QED BY <2>2, <2>4
<1>6. Kept(j)' /\ (j.hold # 0 => Lives(objs', j.hold))
  BY <1>2, <1>3, <1>5 DEF Kept
<1>7. \A i \in AllJobs' : Kept(i)' /\ (i.hold # 0 => Lives(objs', i.hold))
  BY <1>2, <1>5, <1>6 DEF AllJobs
<1>8. WorkerTypes'
  BY <1>1, <1>2 DEF WorkerInv, WorkerTypes
<1>9. RefInv' /\ CallInv'
  BY <1>2, <1>5, <1>7 DEF RefInv, CallInv, Alive
<1>10. ThreadInv'
  BY <1>1, <1>2, <1>3 DEF WorkerInv, ThreadInv
<1> QED
  BY <1>1, <1>2, <1>3, <1>5, <1>8, <1>9, <1>10 DEF WorkerInv

LEMMA CloseWorkStep ==
  ASSUME WorkerInv, CloseWork
  PROVE  WorkerInv' /\ 1 \in Unheld /\ UNCHANGED <<jobs, backs>>
<1>1. /\ 1 \in Unheld /\ thread' = "closing"
      /\ objs' = [objs EXCEPT ![1].gone = TRUE]
      /\ UNCHANGED <<frames, st, calls, held, ref, jobs, backs>>
  BY DEF CloseWork
<1>2. /\ Len(objs') = Len(objs) /\ objs'[1].gone /\ objs'[1].k = objs[1].k
      /\ objs' \in Seq(ObjRec) /\ Alone'
      /\ \A p \in held' : Lives(objs', p)
      /\ \A c \in Cos : ref'[c] # 0 => Lives(objs', ref'[c])
      /\ \A p \in 1 .. Len(objs') : Lives(objs', p) /\ objs'[p].of # 0 => Lives(objs', objs'[p].of)
      /\ \A j \in AllJobs : Kept(j)' /\ (j.hold # 0 => Lives(objs', j.hold))
  BY <1>1, ObjectEnds
<1>3. WorkerTypes'
  BY <1>1, <1>2 DEF WorkerInv, WorkerTypes
<1>4. AllJobs' = AllJobs
  BY <1>1 DEF AllJobs
<1>5. RefInv' /\ CallInv'
  BY <1>1, <1>2, <1>4 DEF WorkerInv, RefInv, CallInv, Alive
<1>6. ThreadInv'
  BY <1>1, <1>2 DEF ThreadInv
<1> QED
  BY <1>1, <1>2, <1>3, <1>5, <1>6 DEF WorkerInv

LEMMA MessageGoneStep ==
  ASSUME WorkerInv, NEW o \in 2 .. Len(objs), MessageGone(o)
  PROVE  WorkerInv' /\ o \in Unheld /\ objs' = [objs EXCEPT ![o].gone = TRUE] /\ UNCHANGED <<jobs, backs>>
<1>1. /\ o \in Unheld /\ objs' = [objs EXCEPT ![o].gone = TRUE]
      /\ UNCHANGED <<frames, st, calls, held, ref, jobs, backs, thread>>
  BY DEF MessageGone
<1>2. /\ Len(objs') = Len(objs) /\ objs'[1].gone = objs[1].gone /\ objs'[1].lib = objs[1].lib /\ objs'[1].k = objs[1].k
      /\ objs' \in Seq(ObjRec) /\ Alone'
      /\ \A p \in held' : Lives(objs', p)
      /\ \A c \in Cos : ref'[c] # 0 => Lives(objs', ref'[c])
      /\ \A p \in 1 .. Len(objs') : Lives(objs', p) /\ objs'[p].of # 0 => Lives(objs', objs'[p].of)
      /\ \A j \in AllJobs : Kept(j)' /\ (j.hold # 0 => Lives(objs', j.hold))
  <2>1. Len(objs) \in Nat /\ 1 \in 1 .. Len(objs) /\ o # 1
    BY DEF WorkerInv, WorkerTypes
  <2>2. /\ Len(objs') = Len(objs)
        /\ \A p \in 1 .. Len(objs) :
             /\ objs'[p].lib = objs[p].lib /\ objs'[p].k = objs[p].k
             /\ objs'[p].gone = IF p = o THEN TRUE ELSE objs[p].gone
    BY <1>1, ObjectEnds, ZenonT(60)
  <2>3. /\ objs' \in Seq(ObjRec) /\ Alone'
        /\ \A p \in held' : Lives(objs', p)
        /\ \A c \in Cos : ref'[c] # 0 => Lives(objs', ref'[c])
        /\ \A p \in 1 .. Len(objs') : Lives(objs', p) /\ objs'[p].of # 0 => Lives(objs', objs'[p].of)
        /\ \A j \in AllJobs : Kept(j)' /\ (j.hold # 0 => Lives(objs', j.hold))
    BY <1>1, ObjectEnds
  <2> QED BY <2>1, <2>2, <2>3
<1>3. WorkerTypes'
  BY <1>1, <1>2 DEF WorkerInv, WorkerTypes
<1>4. AllJobs' = AllJobs
  BY <1>1 DEF AllJobs
<1>5. RefInv' /\ CallInv'
  BY <1>1, <1>2, <1>4 DEF WorkerInv, RefInv, CallInv, Alive
<1>6. ThreadInv'
  BY <1>1, <1>2 DEF WorkerInv, ThreadInv
<1> QED
  BY <1>1, <1>2, <1>3, <1>5, <1>6 DEF WorkerInv

LEMMA DestroyWkStep ==
  ASSUME WorkerInv, DestroyWk
  PROVE  /\ WorkerInv' /\ UNCHANGED <<jobs, backs>> /\ jobs = <<>>
         /\ ~Alive(1) /\ ~Lives(objs', 1) /\ Len(objs') = Len(objs)
         /\ \A p \in 1 .. Len(objs) :
              /\ objs'[p].k = objs[p].k /\ objs'[p].of = objs[p].of
              /\ objs'[p].gone = objs[p].gone
              /\ objs'[p].lib = IF p = 1 THEN "freed" ELSE objs[p].lib
<1>1. /\ thread = "closing" /\ jobs = <<>> /\ thread' = "closed" /\ SetLib(1, "freed")
      /\ UNCHANGED <<frames, st, calls, held, ref, jobs, backs>>
  BY DEF DestroyWk
<1>2. WorkerTypes /\ 1 \in 1 .. Len(objs) /\ "freed" \in Libs
  BY DEF WorkerInv, WorkerTypes, Libs
<1>3. /\ Well /\ Len(objs') = Len(objs)
      /\ \A p \in 1 .. Len(objs) :
           /\ objs'[p].k = objs[p].k /\ objs'[p].of = objs[p].of
           /\ objs'[p].gone = objs[p].gone
           /\ objs'[p].lib = IF p = 1 THEN "freed" ELSE objs[p].lib
  BY <1>1, <1>2, LibSet
<1>4. ~Alive(1) /\ ~Lives(objs', 1)
  BY <1>1, <1>2, <1>3 DEF WorkerInv, ThreadInv, Alive, Lives
<1>5. \A p : Lives(objs', p) <=> Alive(p)
  BY <1>3 DEF Alive, Lives
<1>6. WorkerTypes'
  BY <1>1, <1>2, <1>3 DEF WorkerTypes, Well
<1>7. AllJobs' = AllJobs
  BY <1>1 DEF AllJobs
<1>8. RefInv'
  BY <1>1, <1>3, <1>5, <1>7 DEF WorkerInv, RefInv, Alive
<1>9. \A j \in AllJobs : Kept(j)'
  BY <1>1, <1>2, <1>3 DEF WorkerInv, WorkerTypes, CallInv, Kept
<1>10. CallInv' /\ ThreadInv' /\ Alone'
  BY <1>1, <1>2, <1>3, <1>7, <1>9 DEF WorkerInv, CallInv, ThreadInv, Alone, Crashed
<1> QED
  BY <1>1, <1>3, <1>4, <1>6, <1>8, <1>10 DEF WorkerInv

-----------------------------------------------------------------------------
(* Kafka and MongoDB: handles.                                             *)

LEMMA ClientLives ==
  ASSUME WorkerInv, HandleInv, NEW o, Alive(o)
  PROVE  Alive(1) /\ thread = "open" /\ 1 \in 1 .. Len(objs) /\ Len(objs) \in Nat
<1>1. /\ Len(objs) \in Nat /\ Len(objs) >= 1 /\ objs \in Seq(ObjRec)
      /\ \A p \in 1 .. Len(objs) : Alive(p) /\ objs[p].of # 0 => Alive(objs[p].of)
  BY DEF WorkerInv, WorkerTypes, RefInv
<1>2. Alive(1)
  <2>1. CASE o = 1
    BY <2>1
  <2>2. CASE o # 1
    <3>1. o \in 2 .. Len(objs) /\ objs[o].of \in 1 .. Len(objs)
          /\ (objs[o].of # 1 => objs[objs[o].of].of = 1)
      BY <1>1, <2>2 DEF HandleInv, Alive, Lives
    <3>2. Alive(objs[o].of)
      BY <1>1, <3>1
    <3>3. CASE objs[o].of = 1
      BY <3>2, <3>3
    <3>4. CASE objs[o].of # 1
      BY <1>1, <3>1, <3>2, <3>4
    <3> QED BY <3>3, <3>4
  <2> QED BY <2>1, <2>2
<1>3. thread = "open"
  BY <1>2 DEF WorkerInv, ThreadInv, Alive, Lives
<1> QED BY <1>1, <1>2, <1>3

LEMMA JobLives ==
  ASSUME WorkerInv, NEW j \in AllJobs, j.c # 0
  PROVE  Alive(j.o) /\ j.c \in Cos
<1>1. j \in JobRec
  BY JobsTyped
<1>2. j.c \in Cos /\ Kept(j)
  BY <1>1 DEF JobRec, WorkerInv, CallInv
<1> QED BY <1>2 DEF Kept, WorkerInv, RefInv

LEMMA HandleSame ==
  ASSUME WorkerInv, HandleInv, Len(objs') = Len(objs),
         \A p \in 2 .. Len(objs) :
           /\ objs'[p].of = objs[p].of /\ objs'[p].gone = objs[p].gone
           /\ objs'[p].lib = objs[p].lib,
         \A j : j.c = 0 => (j \in Range(jobs') <=> j \in Range(jobs))
  PROVE  HandleInv'
<1>1. Len(objs) \in Nat /\ Len(objs) >= 1
  BY DEF WorkerInv, WorkerTypes
<1>2. \A j \in Range(jobs) : j.c = 0 => j.o \in 2 .. Len(objs)
  BY DEF WorkerInv, CallInv, Kept, AllJobs
<1>3. \A p \in 2 .. Len(objs) : Lives(objs', p) <=> Alive(p)
  BY <1>1 DEF Alive, Lives
<1>4. ASSUME NEW o \in 2 .. Len(objs)
      PROVE  /\ Lives(objs', o) => objs'[o].lib = "live"
             /\ objs'[o].lib = "live" => Lives(objs', o) \/ \E j \in Range(jobs') : j.c = 0 /\ j.o = o
             /\ objs'[o].of \in 1 .. Len(objs')
             /\ objs'[o].of # 1 => objs'[objs'[o].of].of = 1
  <2>1. /\ Alive(o) => objs[o].lib = "live"
        /\ objs[o].lib = "live" => Alive(o) \/ \E j \in Range(jobs) : j.c = 0 /\ j.o = o
        /\ objs[o].of \in 1 .. Len(objs)
        /\ objs[o].of # 1 => objs[objs[o].of].of = 1
    BY DEF HandleInv
  <2>2. objs[o].of # 1 => objs[o].of \in 2 .. Len(objs)
    BY <1>1, <2>1
  <2> QED BY <1>3, <2>1, <2>2
<1>5. \A j \in Range(jobs') : j.c = 0 => objs'[j.o].lib = "live"
  BY <1>2 DEF HandleInv
<1> QED BY <1>4, <1>5 DEF HandleInv, Alive

LEMMA HandleMade ==
  ASSUME WorkerInv, HandleInv, Len(objs') = Len(objs) + 1,
         \A p \in 1 .. Len(objs) : objs'[p] = objs[p],
         objs'[Len(objs) + 1].lib = "live", ~objs'[Len(objs) + 1].gone,
         objs'[Len(objs) + 1].of \in 1 .. Len(objs),
         objs'[Len(objs) + 1].of # 1 => objs[objs'[Len(objs) + 1].of].of = 1,
         \A j : j.c = 0 => (j \in Range(jobs') <=> j \in Range(jobs))
  PROVE  HandleInv'
<1>1. Len(objs) \in Nat /\ Len(objs) >= 1
  BY DEF WorkerInv, WorkerTypes
<1>2. \A j \in Range(jobs) : j.c = 0 => j.o \in 2 .. Len(objs)
  BY DEF WorkerInv, CallInv, Kept, AllJobs
<1>3. \A p \in 1 .. Len(objs) : Lives(objs', p) <=> Alive(p)
  BY <1>1 DEF Alive, Lives
<1>4. ASSUME NEW o \in 2 .. Len(objs)
      PROVE  /\ Lives(objs', o) => objs'[o].lib = "live"
             /\ objs'[o].lib = "live" => Lives(objs', o) \/ \E j \in Range(jobs') : j.c = 0 /\ j.o = o
             /\ objs'[o].of \in 1 .. Len(objs')
             /\ objs'[o].of # 1 => objs'[objs'[o].of].of = 1
  <2>1. /\ Alive(o) => objs[o].lib = "live"
        /\ objs[o].lib = "live" => Alive(o) \/ \E j \in Range(jobs) : j.c = 0 /\ j.o = o
        /\ objs[o].of \in 1 .. Len(objs)
        /\ objs[o].of # 1 => objs[objs[o].of].of = 1
    BY DEF HandleInv
  <2>2. objs'[o] = objs[o] /\ objs'[objs[o].of] = objs[objs[o].of] /\ o \in 1 .. Len(objs)
    BY <1>1, <2>1
  <2>3. objs'[o].of \in 1 .. Len(objs')
    BY <1>1, <2>1, <2>2
  <2> QED BY <1>3, <2>1, <2>2, <2>3
<1>5. \A j \in Range(jobs') : j.c = 0 => objs'[j.o].lib = "live"
  <2>1. \A p \in 2 .. Len(objs) : objs'[p] = objs[p]
    BY <1>1
  <2> QED BY <1>2, <2>1 DEF HandleInv
<1>6. \A o \in 2 .. Len(objs') : o \in 2 .. Len(objs) \/ o = Len(objs) + 1
  BY <1>1
<1>7. Lives(objs', Len(objs) + 1)
  BY <1>1 DEF Lives
<1>8. objs'[Len(objs) + 1].of \in 1 .. Len(objs')
  BY <1>1
<1> QED BY <1>4, <1>5, <1>6, <1>7, <1>8 DEF HandleInv, Alive

(* The object of handle o ends, and asks for the end of the handle.        *)
LEMMA HandleEnds ==
  ASSUME WorkerInv, HandleInv, NEW o \in 2 .. Len(objs), o \in Unheld,
         objs' = [objs EXCEPT ![o].gone = TRUE], UNCHANGED <<frames, st, held, ref, backs>>,
         NEW j, j.c = 0, j.o = o, Range(jobs') = Range(jobs) \cup {j}
  PROVE  HandleInv' /\ \A p \in 1 .. Len(objs) :
                         objs'[p].k = objs[p].k /\ objs'[p].of = objs[p].of /\ objs'[p].lib = objs[p].lib
<1>1. Len(objs) \in Nat /\ Len(objs) >= 1
  BY DEF WorkerInv, WorkerTypes
<1>2. /\ Alive(o) /\ Len(objs') = Len(objs)
      /\ \A p \in 1 .. Len(objs) :
           /\ objs'[p].k = objs[p].k /\ objs'[p].of = objs[p].of
           /\ objs'[p].lib = objs[p].lib
      /\ \A p : Lives(objs', p) <=> Alive(p) /\ p # o
  BY ObjectEnds
<1>3. \A i \in Range(jobs) : i.c = 0 => i.o \in 1 .. Len(objs) /\ objs[i.o].lib = "live"
  <2>1. \A i \in Range(jobs) : i.c = 0 => i.o \in 2 .. Len(objs)
    BY DEF WorkerInv, CallInv, Kept, AllJobs
  <2> QED BY <1>1, <2>1 DEF HandleInv
<1>4. objs[o].lib = "live"
  BY <1>2 DEF HandleInv
<1>5. ASSUME NEW p \in 2 .. Len(objs)
      PROVE  /\ Lives(objs', p) => objs'[p].lib = "live"
             /\ objs'[p].lib = "live" => Lives(objs', p) \/ \E i \in Range(jobs') : i.c = 0 /\ i.o = p
             /\ objs'[p].of \in 1 .. Len(objs')
             /\ objs'[p].of # 1 => objs'[objs'[p].of].of = 1
  <2>1. p \in 1 .. Len(objs) /\ objs[p].of \in 1 .. Len(objs)
    BY <1>1 DEF HandleInv
  <2>2. /\ Alive(p) => objs[p].lib = "live"
        /\ objs[p].lib = "live" => Alive(p) \/ \E i \in Range(jobs) : i.c = 0 /\ i.o = p
        /\ objs[p].of # 1 => objs[objs[p].of].of = 1
    BY DEF HandleInv
  <2>3. /\ objs'[p].lib = objs[p].lib /\ objs'[p].of = objs[p].of
        /\ objs'[objs[p].of].of = objs[objs[p].of].of
    BY <1>2, <2>1
  <2>4. objs'[p].lib = "live" => Lives(objs', p) \/ \E i \in Range(jobs') : i.c = 0 /\ i.o = p
    BY <1>2, <2>2, <2>3
  <2> QED BY <1>2, <2>1, <2>2, <2>3, <2>4
<1>6. \A i \in Range(jobs') : i.c = 0 => objs'[i.o].lib = "live"
  BY <1>1, <1>2, <1>3, <1>4
<1> QED BY <1>2, <1>5, <1>6 DEF HandleInv, Alive

(* The thread serves that.                                                 *)
LEMMA HandleFreed ==
  ASSUME WorkerInv, HandleInv, NEW h \in Range(jobs), h.c = 0, SetLib(h.o, "freed"),
         Range(jobs') = Range(jobs) \ {h}
  PROVE  /\ HandleInv' /\ Well /\ h.o \in 2 .. Len(objs) /\ Len(objs') = Len(objs)
         /\ \A p \in 1 .. Len(objs) :
              /\ objs'[p].k = objs[p].k /\ objs'[p].of = objs[p].of
              /\ objs'[p].lib = IF p = h.o THEN "freed" ELSE objs[p].lib
<1>0. Len(objs) \in Nat /\ Len(objs) >= 1 /\ WorkerTypes
  BY DEF WorkerInv, WorkerTypes
<1>1. h.o \in 2 .. Len(objs) /\ objs[h.o].gone /\ h \in AllJobs
  BY DEF WorkerInv, CallInv, Kept, AllJobs
<1>2. thread # "closed" /\ h.o \in 1 .. Len(objs) /\ "freed" \in Libs
  <2>1. jobs # <<>>
    BY DEF Range
  <2> QED BY <1>0, <1>1, <2>1 DEF WorkerInv, ThreadInv, Libs
<1>3. /\ Well /\ Len(objs') = Len(objs)
      /\ \A p \in 1 .. Len(objs) :
           /\ objs'[p].k = objs[p].k /\ objs'[p].of = objs[p].of
           /\ objs'[p].gone = objs[p].gone
           /\ objs'[p].lib = IF p = h.o THEN "freed" ELSE objs[p].lib
  BY <1>0, <1>2, LibSet
<1>4. \A p : Lives(objs', p) <=> Alive(p)
  BY <1>3 DEF Alive, Lives
<1>5. ~Alive(h.o)
  BY <1>1 DEF Alive, Lives
<1>6. \A i \in Range(jobs) : i.c = 0 /\ i.o = h.o => i = h
  <2>1. \A i \in AllJobs : Key(i) = Key(h) => i = h
    BY <1>1, JobsTyped, OneEach DEF AllJobs
  <2> QED BY <2>1 DEF Key, AllJobs
<1>7. \A i \in Range(jobs) : i.c = 0 => i.o \in 1 .. Len(objs) /\ objs[i.o].lib = "live"
  <2>1. \A i \in Range(jobs) : i.c = 0 => i.o \in 2 .. Len(objs)
    BY DEF WorkerInv, CallInv, Kept, AllJobs
  <2> QED BY <1>0, <2>1 DEF HandleInv
<1>8. ASSUME NEW p \in 2 .. Len(objs)
      PROVE  /\ Lives(objs', p) => objs'[p].lib = "live"
             /\ objs'[p].lib = "live" => Lives(objs', p) \/ \E i \in Range(jobs') : i.c = 0 /\ i.o = p
             /\ objs'[p].of \in 1 .. Len(objs')
             /\ objs'[p].of # 1 => objs'[objs'[p].of].of = 1
  <2>1. p \in 1 .. Len(objs)
    BY <1>0
  <2> QED BY <1>3, <1>4, <1>5, <1>6, <2>1 DEF HandleInv
<1>9. \A i \in Range(jobs') : i.c = 0 => objs'[i.o].lib = "live"
  BY <1>3, <1>6, <1>7
<1> QED BY <1>1, <1>3, <1>8, <1>9 DEF HandleInv, Alive

LEMMA Heads ==
  ASSUME WorkerInv
  PROVE  /\ jobs # <<>> => Head(jobs) \in Range(jobs) /\ Head(jobs) \in AllJobs /\ Head(jobs) \in JobRec
         /\ backs # <<>> => /\ Head(backs) \in Range(backs) /\ Head(backs) \in AllJobs
                            /\ Head(backs) \in JobRec /\ Head(backs) \notin Range(jobs)
<1>1. Queues(jobs, backs) /\ Queues(backs, jobs)
  BY JobsTyped, OtherWay
<1> QED BY <1>1, QueuesTail DEF AllJobs

-----------------------------------------------------------------------------
(* Kafka.                                                                  *)

LEMMA KafkaParts ==
  ASSUME WorkerInv, KafkaInv, HandleInv', Len(objs') \in Nat, Len(objs') >= Len(objs),
         \A j \in AllJobs' : j \in AllJobs \/ KafkaJob(j)',
         thread' # "closed" => objs'[1].lib = "live"
  PROVE  KafkaInv'
<1>1. \A j \in AllJobs : KafkaJob(j) => KafkaJob(j)'
  <2>1. Len(objs) \in Nat
    BY DEF WorkerInv, WorkerTypes
  <2>2. \A o \in 2 .. Len(objs) : o \in 2 .. Len(objs')
    BY <2>1
  <2> QED BY <2>2 DEF KafkaJob
<1> QED BY <1>1 DEF KafkaInv

LEMMA KafkaServed ==
  ASSUME WorkerInv, KafkaInv, jobs # <<>>, Head(jobs).op # "destroy_message",
         NEW res \in Results, Served(res), UNCHANGED <<frames, st, objs, held, ref, thread>>
  PROVE  WorkerInv' /\ KafkaInv'
<1>1. Head(jobs) \in Range(jobs) /\ KafkaJob(Head(jobs)) /\ Head(jobs).c # 0
  BY Heads DEF KafkaInv, KafkaJob
<1>2. Well /\ Len(objs) \in Nat /\ Len(objs) >= 1
  BY SameObjects DEF WorkerInv, WorkerTypes
<1>3. WorkerInv'
  BY <1>2, ServedStep
<1>4. PICK j \in JobRec :
        /\ Like(j, Head(jobs)) /\ j.op = Head(jobs).op
        /\ Range(jobs') = Range(jobs) \ {Head(jobs)}
        /\ Range(backs') = Range(backs) \cup {j}
  BY JobsTyped, QServed
<1>5. HandleInv'
  BY <1>1, <1>4, HandleSame DEF KafkaInv
<1>6. KafkaJob(j)'
  BY <1>1, <1>4 DEF KafkaJob, Like
<1>7. \A i \in AllJobs' : i \in AllJobs \/ KafkaJob(i)'
  BY <1>4, <1>6 DEF AllJobs
<1> QED BY <1>2, <1>3, <1>5, <1>7, KafkaParts DEF KafkaInv

LEMMA KafkaFreed ==
  ASSUME WorkerInv, KafkaInv, DestroyMsgWk
  PROVE  WorkerInv' /\ KafkaInv'
<1>1. /\ jobs # <<>> /\ Head(jobs).op = "destroy_message" /\ Served("ok")
      /\ SetLib(Head(jobs).o, "freed") /\ UNCHANGED <<frames, st, calls, held, ref, thread>>
  BY DEF DestroyMsgWk, Serves
<1>2. Head(jobs) \in Range(jobs) /\ KafkaJob(Head(jobs)) /\ Head(jobs).c = 0
  <2>1. Head(jobs) \in Range(jobs) /\ KafkaJob(Head(jobs))
    BY <1>1, Heads DEF KafkaInv
  <2> QED BY <1>1, <2>1 DEF KafkaJob
<1>0. "ok" \in Results /\ Len(objs) \in Nat /\ Len(objs) >= 1
  BY DEF Results, WorkerInv, WorkerTypes
<1>4. PICK j \in JobRec :
        /\ Like(j, Head(jobs)) /\ j.op = Head(jobs).op
        /\ Range(jobs') = Range(jobs) \ {Head(jobs)}
        /\ Range(backs') = Range(backs) \cup {j}
  BY <1>0, <1>1, JobsTyped, QServed
<1>5. /\ HandleInv' /\ Well /\ Head(jobs).o \in 2 .. Len(objs) /\ Len(objs') = Len(objs)
      /\ objs'[1].lib = objs[1].lib
  BY <1>0, <1>1, <1>2, <1>4, HandleFreed DEF KafkaInv
<1>3. WorkerInv'
  BY <1>0, <1>1, <1>5, ServedStep
<1>6. KafkaJob(j)'
  BY <1>2, <1>4 DEF KafkaJob, Like
<1>7. \A i \in AllJobs' : i \in AllJobs \/ KafkaJob(i)'
  BY <1>4, <1>6 DEF AllJobs
<1>8. Len(objs') \in Nat /\ Len(objs') >= Len(objs)
  BY <1>0, <1>5
<1> QED BY <1>1, <1>3, <1>5, <1>7, <1>8, KafkaParts DEF KafkaInv

LEMMA KafkaAsked ==
  ASSUME WorkerInv, KafkaInv, NEW c \in Cos, KafkaAsk(c)
  PROVE  WorkerInv' /\ KafkaInv'
<1>0. Len(objs) \in Nat /\ Len(objs) >= 1
  BY DEF WorkerInv, WorkerTypes
<1>1. ASSUME NEW op \in {"produce", "flush", "consume", "consume_for", "commit"}, NEW hold \in Nat,
             Ask(c, op, 1, hold), hold # 0 => Alive(hold), op = "commit" => hold \in 2 .. Len(objs)
      PROVE  WorkerInv' /\ KafkaInv'
  <2>1. /\ Running(c) /\ 1 \in held /\ thread = "open"
        /\ jobs' = Append(jobs, Job(op, c, 1, hold))
        /\ ref' = [ref EXCEPT ![c] = 1] /\ Waits(c, "job")
        /\ UNCHANGED <<objs, held, backs, thread>>
    BY <1>1 DEF Ask, Call
  <2>2. Well /\ Alive(1) /\ op \in Ops /\ (hold # 0 => Lives(objs', hold))
    BY <1>1, <2>1, SameObjects DEF WorkerInv, RefInv, Ops, Alive
  <2>3. /\ WorkerInv'
        /\ \E j \in JobRec :
             /\ j.op = op /\ j.c = c /\ j.o = 1 /\ j.hold = hold /\ j.res = "none"
             /\ Range(jobs') = Range(jobs) \cup {j} /\ Range(backs') = Range(backs)
    <3>1. Asks(c, op, 1, hold) /\ thread # "closed" /\ 1 \in Nat
      BY <2>1 DEF Asks
    <3> QED BY <2>2, <3>1, AskedStep
  <2>4. PICK j \in JobRec :
          /\ j.op = op /\ j.c = c /\ j.o = 1 /\ j.hold = hold
          /\ Range(jobs') = Range(jobs) \cup {j} /\ Range(backs') = Range(backs)
    BY <2>3
  <2>5. j.c # 0
    BY <2>4, ScriptAssumption
  <2>6. HandleInv'
    BY <2>1, <2>4, <2>5, HandleSame DEF KafkaInv
  <2>7. KafkaJob(j)'
    BY <1>1, <2>1, <2>4, <2>5 DEF KafkaJob
  <2>8. \A i \in AllJobs' : i \in AllJobs \/ KafkaJob(i)'
    BY <2>4, <2>7 DEF AllJobs
  <2> QED BY <1>0, <2>1, <2>3, <2>6, <2>8, KafkaParts DEF KafkaInv
<1>2. CASE \E m \in held \ {1} : Ask(c, "commit", 1, m)
  <2>1. PICK m \in held \ {1} : Ask(c, "commit", 1, m)
    BY <1>2
  <2>2. Alive(m)
    BY DEF WorkerInv, RefInv
  <2>3. m \in Nat /\ m \in 2 .. Len(objs)
    BY <1>0, <2>2 DEF Alive, Lives
  <2> QED BY <1>1, <2>1, <2>2, <2>3
<1>3. CASE \E op \in {"produce", "flush", "consume", "consume_for"} : Ask(c, op, 1, 0)
  BY <1>1, <1>3
<1> QED BY <1>2, <1>3 DEF KafkaAsk, Consuming

LEMMA KafkaTaken ==
  ASSUME WorkerInv, KafkaInv, Loop, backs # <<>>, Head(backs).c # 0, NEW o, Returns1(o),
         \/ UNCHANGED objs /\ o = 0
         \/ objs' = Append(objs, Object("message", 1, "live")) /\ o = Len(objs) + 1
  PROVE  WorkerInv' /\ KafkaInv'
<1>0. Len(objs) \in Nat /\ Len(objs) >= 1 /\ WorkerTypes /\ held \in SUBSET Nat
  BY DEF WorkerInv, WorkerTypes
<1>1. /\ backs' = Tail(backs) /\ ref' = [ref EXCEPT ![Head(backs).c] = 0]
      /\ Resume(Head(backs).c, <<>>) /\ jobs' = jobs /\ thread' = thread
      /\ held' = IF o = 0 THEN held ELSE held \union {o}
  BY DEF Returns1
<1>2. Head(backs) \in AllJobs
  BY Heads
<1>3. Alive(1) /\ thread = "open"
  BY <1>2, JobLives, ClientLives DEF KafkaInv
<1>4. Range(jobs') = Range(jobs) /\ Range(backs') \subseteq Range(backs)
  BY <1>1, JobsTyped, QTaken
<1>5. /\ Well /\ HandleInv' /\ Len(objs') \in Nat /\ Len(objs') >= Len(objs)
      /\ \A p \in held' : p \in held \/ Lives(objs', p)
      /\ objs'[1].lib = objs[1].lib /\ o \in Nat
  <2>1. CASE UNCHANGED objs /\ o = 0
    <3>1. Well
      BY <1>0, <2>1, SameObjects
    <3>2. HandleInv'
      BY <1>4, <2>1, HandleSame DEF KafkaInv
    <3> QED BY <1>0, <1>1, <2>1, <3>1, <3>2
  <2>2. CASE objs' = Append(objs, Object("message", 1, "live")) /\ o = Len(objs) + 1
    <3>0. "message" \in Kinds /\ "live" \in Libs /\ 1 \in Nat
      BY DEF Kinds, Libs
    <3>1. /\ Well /\ Len(objs') = Len(objs) + 1
          /\ \A p \in 1 .. Len(objs) : objs'[p] = objs[p]
          /\ objs'[Len(objs) + 1].of = 1
          /\ objs'[Len(objs) + 1].lib = "live" /\ ~objs'[Len(objs) + 1].gone
      BY <1>0, <1>3, <2>2, <3>0, ObjectMade
    <3>2. HandleInv'
      BY <1>0, <1>4, <3>1, HandleMade DEF KafkaInv
    <3>3. Lives(objs', o) /\ objs'[1] = objs[1]
      BY <1>0, <2>2, <3>1 DEF Lives
    <3> QED BY <1>0, <1>1, <2>2, <3>1, <3>2, <3>3
  <2> QED BY <2>1, <2>2
<1>6. held' \in SUBSET Nat
  BY <1>0, <1>1, <1>5
<1>7. WorkerInv'
  BY <1>1, <1>5, <1>6, TakenStep
<1>8. \A i \in AllJobs' : i \in AllJobs
  BY <1>4 DEF AllJobs
<1>9. thread' # "closed" => objs'[1].lib = "live"
  BY <1>1, <1>3, <1>5 DEF KafkaInv
<1> QED BY <1>5, <1>7, <1>8, <1>9, KafkaParts

LEMMA KafkaCompleted ==
  ASSUME WorkerInv, KafkaInv,
         \/ \E op \in Consuming : ConsumeCbK(op)
         \/ \E op \in {"produce", "flush", "commit", "destroy_message", "destroy_error"} :
              DefaultCbK(op)
  PROVE  WorkerInv' /\ KafkaInv'
<1>0. Len(objs) \in Nat /\ Len(objs) >= 1 /\ WorkerTypes
  BY DEF WorkerInv, WorkerTypes
<1>1. ASSUME NEW op \in Consuming, Completes(op, "message"),
             objs' = Append(objs, Object("message", 1, "live")), Returns1(Len(objs) + 1)
      PROVE  WorkerInv' /\ KafkaInv'
  <2>1. Loop /\ backs # <<>> /\ Head(backs).op \in Consuming
    BY <1>1 DEF Completes
  <2>2. Head(backs).c # 0
    BY <2>1, Heads DEF KafkaInv, KafkaJob, Consuming
  <2> QED BY <1>1, <2>1, <2>2, KafkaTaken
<1>2. ASSUME NEW op \in Consuming, Completes(op, "timeout"), Returns1(0), UNCHANGED objs
      PROVE  WorkerInv' /\ KafkaInv'
  <2>1. Loop /\ backs # <<>> /\ Head(backs).op \in Consuming
    BY <1>2 DEF Completes
  <2>2. Head(backs).c # 0
    BY <2>1, Heads DEF KafkaInv, KafkaJob, Consuming
  <2> QED BY <1>2, <2>1, <2>2, KafkaTaken
<1>3. ASSUME NEW op \in Consuming, Completes(op, "error"), Requeue("destroy_error"),
             UNCHANGED <<objs, held>>
      PROVE  WorkerInv' /\ KafkaInv'
  <2>1. backs # <<>> /\ Head(backs).op \in Consuming /\ "destroy_error" \in Ops
    BY <1>3 DEF Completes, Ops
  <2>2. Head(backs) \in AllJobs /\ KafkaJob(Head(backs)) /\ Head(backs).c # 0
    BY <2>1, Heads DEF KafkaInv, KafkaJob, Consuming
  <2>3. Alive(1) /\ thread = "open"
    BY <2>2, JobLives, ClientLives DEF KafkaInv
  <2>4. Well
    BY <1>0, <1>3, SameObjects
  <2>5. WorkerInv'
    BY <1>3, <2>1, <2>3, <2>4, RequeuedStep
  <2>6. PICK j \in JobRec :
          /\ Like(j, Head(backs)) /\ j.op = "destroy_error"
          /\ Range(jobs') = Range(jobs) \cup {j}
          /\ Range(backs') = Range(backs) \ {Head(backs)}
    BY <1>3, <2>1, JobsTyped, QRequeued
  <2>7. HandleInv'
    BY <1>3, <2>2, <2>6, HandleSame DEF KafkaInv, Like
  <2>8. KafkaJob(j)'
    BY <2>2, <2>6 DEF KafkaJob, Like
  <2>9. \A i \in AllJobs' : i \in AllJobs \/ KafkaJob(i)'
    BY <2>6, <2>8 DEF AllJobs
  <2>10. thread' = thread
    BY <1>3 DEF Requeue
  <2> QED BY <1>0, <1>3, <2>5, <2>7, <2>9, <2>10, KafkaParts DEF KafkaInv
<1>4. ASSUME NEW op, DefaultCbK(op) PROVE WorkerInv' /\ KafkaInv'
  <2>1. Loop /\ backs # <<>> /\ UNCHANGED objs
    BY <1>4 DEF DefaultCbK, Completes
  <2>2. CASE Head(backs).c # 0
    <3>1. Returns1(0)
      BY <1>4, <2>2 DEF DefaultCbK
    <3> QED BY <2>1, <2>2, <3>1, KafkaTaken
  <2>3. CASE Head(backs).c = 0
    <3>1. backs' = Tail(backs) /\ UNCHANGED <<frames, st, calls, held, ref, jobs, thread>>
      BY <1>4, <2>3 DEF DefaultCbK
    <3>2. WorkerInv' /\ Range(backs') \subseteq Range(backs) /\ Range(jobs') = Range(jobs)
      BY <2>1, <3>1, DroppedStep
    <3>3. HandleInv'
      BY <2>1, <3>2, HandleSame DEF KafkaInv
    <3>4. \A i \in AllJobs' : i \in AllJobs
      BY <3>2 DEF AllJobs
    <3> QED BY <1>0, <2>1, <3>1, <3>2, <3>3, <3>4, KafkaParts DEF KafkaInv
  <2> QED BY <2>2, <2>3
<1> QED BY <1>1, <1>2, <1>3, <1>4 DEF ConsumeCbK

LEMMA KafkaStep ==
  ASSUME WorkerInv, KafkaInv, KafkaNext
  PROVE  WorkerInv' /\ KafkaInv'
<1>0. Len(objs) \in Nat /\ Len(objs) >= 1 /\ WorkerTypes
  BY DEF WorkerInv, WorkerTypes
<1>1. CASE (\E op \in Consuming : ConsumeWkK(op)) \/ PlainWk \/ CommitWk
  <2>1. PICK res \in Results :
          /\ Served(res) /\ jobs # <<>> /\ Head(jobs).op # "destroy_message"
          /\ UNCHANGED <<frames, st, objs, held, ref, thread>>
    BY <1>1 DEF ConsumeWkK, Consuming, PlainWk, CommitWk, Serves, Results
  <2> QED BY <2>1, KafkaServed
<1>2. CASE DestroyMsgWk
  BY <1>2, KafkaFreed
<1>3. CASE DestroyWk
  <2>1. /\ WorkerInv' /\ UNCHANGED <<jobs, backs>> /\ Len(objs') = Len(objs)
        /\ \A p \in 1 .. Len(objs) :
             /\ objs'[p].of = objs[p].of /\ objs'[p].gone = objs[p].gone
             /\ objs'[p].lib = IF p = 1 THEN "freed" ELSE objs[p].lib
    BY <1>3, DestroyWkStep
  <2>2. HandleInv'
    <3>1. \A p \in 2 .. Len(objs) : p \in 1 .. Len(objs) /\ p # 1
      BY <1>0
    <3> QED BY <2>1, <3>1, HandleSame DEF KafkaInv
  <2>3. AllJobs' = AllJobs /\ thread' = "closed"
    BY <1>3, <2>1 DEF AllJobs, DestroyWk
  <2> QED BY <1>0, <2>1, <2>2, <2>3, KafkaParts
<1>4. CASE \E c \in Cos : KafkaAsk(c)
  BY <1>4, KafkaAsked
<1>5. CASE \/ \E op \in Consuming : ConsumeCbK(op)
           \/ \E op \in {"produce", "flush", "commit", "destroy_message", "destroy_error"} :
                DefaultCbK(op)
  BY <1>5, KafkaCompleted
<1>6. CASE WorkerStep
  <2>1. WorkerInv' /\ UNCHANGED <<objs, jobs, backs, thread>>
    BY <1>6, IdleStep
  <2>2. HandleInv' /\ AllJobs' = AllJobs
    BY <2>1, HandleSame DEF KafkaInv, AllJobs
  <2> QED BY <1>0, <2>1, <2>2, KafkaParts DEF KafkaInv
<1>7. ASSUME NEW o \in Unheld, Destruct(o, "destroy_message", 1) PROVE WorkerInv' /\ KafkaInv'
  <2>1. /\ o # 1 /\ objs' = [objs EXCEPT ![o].gone = TRUE]
        /\ UNCHANGED <<frames, st, held, ref, backs, thread>>
    BY <1>7 DEF Destruct
  <2>2. /\ Alive(o) /\ o \in 1 .. Len(objs) /\ Len(objs') = Len(objs)
        /\ \A p : Lives(objs', p) <=> Alive(p) /\ p # o
    BY <2>1, ObjectEnds
  <2>3. Lives(objs', 1) /\ "destroy_message" \in Ops
    BY <2>1, <2>2, ClientLives DEF KafkaInv, Ops
  <2>4. /\ WorkerInv' /\ o \in 2 .. Len(objs)
        /\ \E j \in JobRec :
             /\ j.op = "destroy_message" /\ j.c = 0 /\ j.o = o /\ j.hold = 1
             /\ Range(jobs') = Range(jobs) \cup {j} /\ Range(backs') = Range(backs)
    <3>1. PICK op \in Ops, hold \in Nat : op = "destroy_message" /\ hold = 1
      BY <2>3
    <3>2. Destruct(o, op, hold) /\ (hold # 0 => Lives(objs', hold))
      BY <1>7, <2>3, <3>1
    <3>3. /\ WorkerInv' /\ o \in 2 .. Len(objs) /\ o \in Unheld
          /\ \E j \in JobRec :
               /\ j.op = op /\ j.c = 0 /\ j.o = o /\ j.hold = hold /\ j.res = "none"
               /\ Range(jobs') = Range(jobs) \cup {j} /\ Range(backs') = Range(backs)
      BY <3>2, DestructStep
    <3> QED BY <3>1, <3>3
  <2>5. PICK j \in JobRec :
          /\ j.op = "destroy_message" /\ j.c = 0 /\ j.o = o /\ j.hold = 1
          /\ Range(jobs') = Range(jobs) \cup {j} /\ Range(backs') = Range(backs)
    BY <2>4
  <2>6. /\ HandleInv'
        /\ \A p \in 1 .. Len(objs) : objs'[p].lib = objs[p].lib
    BY <2>1, <2>4, <2>5, HandleEnds DEF KafkaInv
  <2>7. KafkaJob(j)'
    BY <2>5 DEF KafkaJob
  <2>8. \A i \in AllJobs' : i \in AllJobs \/ KafkaJob(i)'
    BY <2>5, <2>7 DEF AllJobs
  <2> QED BY <1>0, <2>1, <2>2, <2>4, <2>6, <2>8, KafkaParts DEF KafkaInv
<1>8. CASE CloseWork
  <2>1. WorkerInv' /\ 1 \in Unheld /\ UNCHANGED <<jobs, backs>>
    BY <1>8, CloseWorkStep
  <2>2. /\ objs' = [objs EXCEPT ![1].gone = TRUE] /\ UNCHANGED <<frames, st, held, ref, backs>>
        /\ thread = "open"
    BY <1>8 DEF CloseWork
  <2>3. /\ Len(objs') = Len(objs)
        /\ \A p \in 1 .. Len(objs) :
             /\ objs'[p].of = objs[p].of /\ objs'[p].lib = objs[p].lib
             /\ objs'[p].gone = IF p = 1 THEN TRUE ELSE objs[p].gone
    BY <2>1, <2>2, ObjectEnds, ZenonT(60)
  <2>4. \A p \in 2 .. Len(objs) : p \in 1 .. Len(objs) /\ p # 1
    BY <1>0
  <2>5. HandleInv' /\ AllJobs' = AllJobs
    BY <2>1, <2>3, <2>4, HandleSame DEF KafkaInv, AllJobs
  <2> QED BY <1>0, <2>1, <2>2, <2>3, <2>5, KafkaParts DEF KafkaInv
<1> QED BY <1>1, <1>2, <1>3, <1>4, <1>5, <1>6, <1>7, <1>8 DEF KafkaNext

-----------------------------------------------------------------------------
(* MongoDB.                                                                *)

LEMMA MongoParts ==
  ASSUME WorkerInv, MongoInv, HandleInv', Len(objs') \in Nat, Len(objs') >= Len(objs),
         \A p \in 1 .. Len(objs) : objs'[p].k = objs[p].k /\ objs'[p].of = objs[p].of,
         \A p \in 1 .. Len(objs') :
           p \in 1 .. Len(objs) \/ (objs'[p].k = "collection" => objs'[p].of = 1),
         \A j \in AllJobs' : j \in AllJobs \/ MongoJob(j)',
         objs'[1].lib = "freed" => thread' = "closed",
         ~stale' /\ InUse' => objs'[1].lib = "live"
  PROVE  MongoInv'
<1>1. Len(objs) \in Nat /\ Len(objs) >= 1
  BY DEF WorkerInv, WorkerTypes
<1>2. ASSUME NEW j \in AllJobs PROVE MongoJob(j)'
  <2>1. MongoJob(j) /\ (j.c # 0 => j.o \in 1 .. Len(objs))
    BY JobLives DEF MongoInv, Alive, Lives
  <2> QED BY <2>1 DEF MongoJob
<1>3. objs'[1].k = "client"
  BY <1>1 DEF MongoInv
<1>4. \A p \in 1 .. Len(objs') : objs'[p].k = "collection" => objs'[p].of = 1
  BY DEF MongoInv
<1>5. \A j \in AllJobs' : MongoJob(j)'
  BY <1>2
<1> QED BY <1>3, <1>4, <1>5 DEF MongoInv

(* A collection or a cursor is used through its own handle.                *)
LEMMA MongoUses ==
  ASSUME WorkerInv, MongoInv, NEW j \in AllJobs, j.c # 0
  PROVE  /\ Alive(j.o) /\ Alive(1) /\ thread = "open"
         /\ j.o # 1 => j.o \in 2 .. Len(objs) /\ objs[j.o].lib = "live" /\ InUse
<1>1. Alive(j.o) /\ Alive(1) /\ thread = "open" /\ Len(objs) \in Nat
  BY JobLives, ClientLives DEF MongoInv
<1>2. ASSUME j.o # 1 PROVE j.o \in 2 .. Len(objs) /\ objs[j.o].lib = "live" /\ InUse
  <2>1. j.o \in 2 .. Len(objs)
    BY <1>1, <1>2 DEF Alive, Lives
  <2>2. objs[j.o].lib = "live"
    BY <1>1, <2>1 DEF MongoInv, HandleInv
  <2>3. j.o \in DOMAIN objs \ {1}
    <3>1. DOMAIN objs = 1 .. Len(objs)
      BY DEF WorkerInv, WorkerTypes
    <3> QED BY <1>1, <2>1, <3>1
  <2> QED BY <2>1, <2>2, <2>3 DEF InUse
<1> QED BY <1>1, <1>2

LEMMA MongoServed ==
  ASSUME WorkerInv, MongoInv, jobs # <<>>, Head(jobs).op # "close", NEW res \in Results,
         res \in {"handle", "document"} => Head(jobs).o # 1 \/ objs[1].lib = "live",
         Served(res), UNCHANGED <<frames, st, objs, held, ref, thread, stale>>
  PROVE  WorkerInv' /\ MongoInv'
<1>1. Head(jobs) \in Range(jobs) /\ Head(jobs) \in AllJobs /\ MongoJob(Head(jobs)) /\ Head(jobs).c # 0
  BY Heads DEF MongoInv, MongoJob
<1>2. Well /\ Len(objs) \in Nat /\ Len(objs) >= 1
  BY SameObjects DEF WorkerInv, WorkerTypes
<1>3. WorkerInv'
  BY <1>2, ServedStep
<1>4. PICK j \in JobRec :
        /\ Like(j, Head(jobs)) /\ j.op = Head(jobs).op /\ j.res = res
        /\ Range(jobs') = Range(jobs) \ {Head(jobs)}
        /\ Range(backs') = Range(backs) \cup {j}
  BY JobsTyped, QServed
<1>5. HandleInv'
  BY <1>1, <1>4, HandleSame DEF MongoInv
<1>6. MongoJob(j)'
  BY <1>1, <1>4 DEF MongoJob, Like
<1>7. \A i \in AllJobs' : i \in AllJobs \/ MongoJob(i)'
  BY <1>4, <1>6 DEF AllJobs
<1>8. ASSUME ~stale', InUse' PROVE objs'[1].lib = "live"
  <2>1. InUse \/ res \in {"handle", "document"}
    BY <1>4, <1>8 DEF InUse
  <2> QED BY <1>1, <1>8, <2>1, MongoUses DEF MongoInv
<1> QED BY <1>2, <1>3, <1>5, <1>7, <1>8, MongoParts DEF MongoInv

LEMMA MongoTaken ==
  ASSUME WorkerInv, MongoInv, Loop, backs # <<>>, Head(backs).c # 0,
         (Returns1(0) /\ UNCHANGED objs) \/ Fails, UNCHANGED stale
  PROVE  WorkerInv' /\ MongoInv'
<1>0. Len(objs) \in Nat /\ Len(objs) >= 1 /\ WorkerTypes /\ held \in SUBSET Nat
  BY DEF WorkerInv, WorkerTypes
<1>1. /\ backs' = Tail(backs) /\ ref' \in {ref, [ref EXCEPT ![Head(backs).c] = 0]}
      /\ Resume(Head(backs).c, <<>>) /\ UNCHANGED <<objs, jobs, thread, held>>
  BY DEF Returns1, Fails
<1>2. Well
  BY <1>0, <1>1, SameObjects
<1>3. WorkerInv'
  BY <1>0, <1>1, <1>2, TakenStep
<1>4. Range(jobs') = Range(jobs) /\ Range(backs') \subseteq Range(backs)
  BY <1>1, JobsTyped, QTaken
<1>5. HandleInv'
  BY <1>1, <1>4, HandleSame DEF MongoInv
<1>6. \A i \in AllJobs' : i \in AllJobs
  BY <1>4 DEF AllJobs
<1>7. InUse' => InUse
  BY <1>1, <1>4 DEF InUse
<1> QED BY <1>0, <1>1, <1>3, <1>5, <1>6, <1>7, MongoParts DEF MongoInv

LEMMA MongoMade ==
  ASSUME WorkerInv, MongoInv, NEW op \in {"collection", "find"}, NEW kind, NEW of, Made(op, kind, of),
         \/ op = "collection" /\ kind = "collection" /\ of = 1
         \/ op = "find" /\ kind = "cursor" /\ of = Head(backs).o,
         UNCHANGED stale
  PROVE  WorkerInv' /\ MongoInv'
<1>0. Len(objs) \in Nat /\ Len(objs) >= 1 /\ WorkerTypes /\ held \in SUBSET Nat
  BY DEF WorkerInv, WorkerTypes
<1>1. /\ Loop /\ backs # <<>> /\ Head(backs).op = op /\ Head(backs).res = "handle"
      /\ objs' = Append(objs, Object(kind, of, "live")) /\ Returns1(Len(objs) + 1)
  BY DEF Made, Completes
<1>2. /\ backs' = Tail(backs) /\ ref' = [ref EXCEPT ![Head(backs).c] = 0]
      /\ Resume(Head(backs).c, <<>>) /\ jobs' = jobs /\ thread' = thread
      /\ held' = held \union {Len(objs) + 1}
  BY <1>0, <1>1 DEF Returns1
<1>3. Head(backs) \in AllJobs /\ MongoJob(Head(backs)) /\ Head(backs).c # 0
  BY <1>1, Heads DEF MongoInv, MongoJob
<1>4. Alive(Head(backs).o) /\ Alive(1) /\ thread = "open"
  BY <1>3, MongoUses
<1>5. of \in 1 .. Len(objs) /\ Alive(of) /\ (of # 1 => objs[of].of = 1)
  <2>1. CASE of = 1
    BY <1>0, <1>4, <2>1
  <2>2. CASE op = "find" /\ of = Head(backs).o
    <3>1. objs[of].k = "collection" /\ of \in 1 .. Len(objs)
      BY <1>1, <1>3, <1>4, <2>2 DEF MongoJob, Alive, Lives
    <3> QED BY <1>4, <2>2, <3>1 DEF MongoInv
  <2> QED BY <2>1, <2>2
<1>6. /\ Well /\ Len(objs') = Len(objs) + 1
      /\ \A p \in 1 .. Len(objs) : objs'[p] = objs[p]
      /\ objs'[Len(objs) + 1].k = kind /\ objs'[Len(objs) + 1].of = of
      /\ objs'[Len(objs) + 1].lib = "live" /\ ~objs'[Len(objs) + 1].gone
  <2>1. kind \in Kinds /\ "live" \in Libs /\ of \in Nat
    BY <1>0, <1>5 DEF Kinds, Libs
  <2> QED BY <1>0, <1>1, <1>5, <2>1, ObjectMade
<1>7. Lives(objs', Len(objs) + 1) /\ held' \in SUBSET Nat
  <2>1. Len(objs) + 1 \in Nat /\ Len(objs) + 1 \in 1 .. Len(objs')
    BY <1>0, <1>6
  <2>2. Lives(objs', Len(objs) + 1)
    BY <1>6, <2>1 DEF Lives
  <2> QED BY <1>0, <1>2, <2>1, <2>2
<1>8. WorkerInv'
  BY <1>1, <1>2, <1>3, <1>6, <1>7, TakenStep
<1>9. Range(jobs') = Range(jobs) /\ Range(backs') \subseteq Range(backs)
  BY <1>1, <1>2, JobsTyped, QTaken
<1>10. HandleInv'
  BY <1>5, <1>6, <1>9, HandleMade DEF MongoInv
<1>11. \A i \in AllJobs' : i \in AllJobs
  BY <1>9 DEF AllJobs
<1>12. InUse /\ objs'[1] = objs[1]
  BY <1>0, <1>1, <1>3, <1>6 DEF InUse, AllJobs
<1>13. \A p \in 1 .. Len(objs') : p \in 1 .. Len(objs) \/ (objs'[p].k = "collection" => objs'[p].of = 1)
  <2>1. \A p \in 1 .. Len(objs') : p \in 1 .. Len(objs) \/ p = Len(objs) + 1
    BY <1>0, <1>6
  <2> QED BY <1>6, <2>1
<1>14. Len(objs') \in Nat /\ Len(objs') >= Len(objs)
  BY <1>0, <1>6
<1>15. objs'[1].lib = "freed" => thread' = "closed"
  BY <1>2, <1>12 DEF MongoInv
<1>16. ~stale' /\ InUse' => objs'[1].lib = "live"
  BY <1>12 DEF MongoInv
<1> QED BY <1>6, <1>8, <1>10, <1>11, <1>13, <1>14, <1>15, <1>16, MongoParts

LEMMA MongoRequeued ==
  ASSUME WorkerInv, MongoInv, backs # <<>>, UNCHANGED <<objs, held, stale>>,
         NEW op, Requeue(op),
         \/ op = "find_one_af" /\ Head(backs).op = "find_one"
         \/ op = "to_array" /\ Head(backs).op = "to_array"
  PROVE  WorkerInv' /\ MongoInv'
<1>0. Len(objs) \in Nat /\ Len(objs) >= 1 /\ WorkerTypes /\ op \in Ops
  BY DEF WorkerInv, WorkerTypes, Ops
<1>2. Head(backs) \in AllJobs /\ MongoJob(Head(backs)) /\ Head(backs).c # 0
  BY Heads DEF MongoInv, MongoJob
<1>3. Alive(1) /\ thread = "open"
  BY <1>2, MongoUses
<1>4. Well
  BY <1>0, SameObjects
<1>5. WorkerInv'
  BY <1>0, <1>3, <1>4, RequeuedStep
<1>6. PICK j \in JobRec :
        /\ Like(j, Head(backs)) /\ j.op = op /\ j.res = Head(backs).res
        /\ Range(jobs') = Range(jobs) \cup {j}
        /\ Range(backs') = Range(backs) \ {Head(backs)}
  BY <1>0, JobsTyped, QRequeued
<1>7. HandleInv'
  BY <1>2, <1>6, HandleSame DEF MongoInv, Like
<1>8. MongoJob(j)'
  BY <1>2, <1>6 DEF MongoJob, Like
<1>9. \A i \in AllJobs' : i \in AllJobs \/ MongoJob(i)'
  BY <1>6, <1>8 DEF AllJobs
<1>10. InUse' => InUse
  BY <1>2, <1>6 DEF InUse, AllJobs
<1>11. thread' = thread
  BY DEF Requeue
<1> QED BY <1>0, <1>5, <1>7, <1>9, <1>10, <1>11, MongoParts DEF MongoInv

LEMMA MongoConnected ==
  ASSUME WorkerInv, MongoInv, ConnectWk
  PROVE  WorkerInv' /\ MongoInv'
<1>0. Len(objs) \in Nat /\ Len(objs) >= 1 /\ WorkerTypes /\ 1 \in 1 .. Len(objs)
  BY DEF WorkerInv, WorkerTypes
<1>1. jobs # <<>> /\ ~Crashed /\ Head(jobs).op = "connect" /\ UNCHANGED <<calls, held, ref, thread, rows>>
  BY DEF ConnectWk, Serves
<1>2. Head(jobs) \in Range(jobs) /\ Head(jobs) \in AllJobs /\ MongoJob(Head(jobs)) /\ Head(jobs).c # 0
  BY <1>1, Heads DEF MongoInv, MongoJob
<1>3. thread = "open" /\ Head(jobs).o = 1
  BY <1>1, <1>2, MongoUses DEF MongoJob
<1>4. CASE Crashes /\ UNCHANGED <<objs, jobs, backs, stale>>
  <2>1. Alone' /\ st' = st
    BY <1>1, <1>4, CrashedNow DEF WorkerInv, Crashes
  <2>2. WorkerTypes' /\ RefInv' /\ CallInv' /\ ThreadInv'
    BY <1>1, <1>4, <2>1 DEF WorkerInv, WorkerTypes, RefInv, CallInv, ThreadInv, AllJobs, Alive, Kept
  <2>3. HandleInv' /\ InUse' = InUse /\ AllJobs' = AllJobs
    BY <1>4, HandleSame DEF MongoInv, InUse, AllJobs
  <2> QED BY <1>0, <1>1, <1>4, <2>1, <2>2, <2>3, MongoParts DEF WorkerInv, MongoInv
<1>5. ASSUME NEW lib \in {"live", "none"}, SetLib(1, lib), NEW res \in {"ok", "error"}, Served(res),
             stale' = (stale \/ (objs[1].lib = "live" /\ InUse)), UNCHANGED <<frames, st>>
      PROVE  WorkerInv' /\ MongoInv'
  <2>1. /\ Well /\ Len(objs') = Len(objs)
        /\ \A p \in 1 .. Len(objs) :
             /\ objs'[p].k = objs[p].k /\ objs'[p].of = objs[p].of
             /\ objs'[p].gone = objs[p].gone
             /\ objs'[p].lib = IF p = 1 THEN lib ELSE objs[p].lib
    BY <1>0, <1>3, <1>5, LibSet DEF Libs
  <2>2. res \in Results
    BY <1>5 DEF Results
  <2>3. WorkerInv'
    BY <1>1, <1>5, <2>1, <2>2, ServedStep
  <2>4. PICK j \in JobRec :
          /\ Like(j, Head(jobs)) /\ j.op = Head(jobs).op /\ j.res = res
          /\ Range(jobs') = Range(jobs) \ {Head(jobs)}
          /\ Range(backs') = Range(backs) \cup {j}
    BY <1>1, <1>5, <2>2, JobsTyped, QServed
  <2>5. \A p \in 2 .. Len(objs) : p \in 1 .. Len(objs) /\ p # 1
    BY <1>0
  <2>6. HandleInv'
    BY <1>2, <2>1, <2>4, <2>5, HandleSame DEF MongoInv
  <2>7. MongoJob(j)'
    BY <1>1, <1>2, <2>4 DEF MongoJob, Like
  <2>8. \A i \in AllJobs' : i \in AllJobs \/ MongoJob(i)'
    BY <2>4, <2>7 DEF AllJobs
  <2>9. InUse' => InUse
    <3>1. DOMAIN objs = 1 .. Len(objs) /\ DOMAIN objs' = 1 .. Len(objs')
      BY <2>3 DEF WorkerInv, WorkerTypes
    <3>2. \A o \in DOMAIN objs' \ {1} : o \in DOMAIN objs \ {1} /\ objs'[o].lib = objs[o].lib
      BY <2>1, <3>1
    <3> QED BY <1>5, <2>4, <3>2 DEF InUse
  <2>10. objs'[1].lib = lib
    BY <1>0, <2>1
  <2>11. ~stale' /\ InUse' => objs'[1].lib = "live"
    BY <1>5, <2>9, <2>10 DEF MongoInv
  <2> QED BY <1>0, <2>1, <2>3, <2>6, <2>8, <2>10, <2>11, MongoParts
<1>6. CASE /\ \/ SetLib(1, "live") /\ Served("ok")
              \/ SetLib(1, "none") /\ Served("error")
           /\ stale' = (stale \/ (Client.lib = "live" /\ InUse))
           /\ UNCHANGED <<frames, st>>
  BY <1>5, <1>6 DEF Client
<1> QED BY <1>4, <1>6 DEF ConnectWk

LEMMA MongoClosed ==
  ASSUME WorkerInv, MongoInv, CloseHandleWk
  PROVE  WorkerInv' /\ MongoInv'
<1>0. Len(objs) \in Nat /\ Len(objs) >= 1 /\ WorkerTypes /\ "ok" \in Results
  BY DEF WorkerInv, WorkerTypes, Results
<1>1. /\ jobs # <<>> /\ Head(jobs).op = "close" /\ Served("ok") /\ SetLib(Head(jobs).o, "freed")
      /\ UNCHANGED <<frames, st, held, ref, thread, stale>>
  BY DEF CloseHandleWk, Serves, MongoWk, mongoVars
<1>2. Head(jobs) \in Range(jobs) /\ MongoJob(Head(jobs)) /\ Head(jobs).c = 0
  <2>1. Head(jobs) \in Range(jobs) /\ MongoJob(Head(jobs))
    BY <1>1, Heads DEF MongoInv
  <2> QED BY <1>1, <2>1 DEF MongoJob
<1>4. PICK j \in JobRec :
        /\ Like(j, Head(jobs)) /\ j.op = Head(jobs).op /\ j.res = "ok"
        /\ Range(jobs') = Range(jobs) \ {Head(jobs)}
        /\ Range(backs') = Range(backs) \cup {j}
  BY <1>0, <1>1, JobsTyped, QServed
<1>5. /\ HandleInv' /\ Well /\ Head(jobs).o \in 2 .. Len(objs) /\ Len(objs') = Len(objs)
      /\ \A p \in 1 .. Len(objs) :
           /\ objs'[p].k = objs[p].k /\ objs'[p].of = objs[p].of
           /\ objs'[p].lib = IF p = Head(jobs).o THEN "freed" ELSE objs[p].lib
  BY <1>1, <1>2, <1>4, HandleFreed DEF MongoInv
<1>3. WorkerInv'
  BY <1>0, <1>1, <1>5, ServedStep
<1>6. MongoJob(j)'
  BY <1>2, <1>4 DEF MongoJob, Like
<1>7. \A i \in AllJobs' : i \in AllJobs \/ MongoJob(i)'
  BY <1>4, <1>6 DEF AllJobs
<1>8. InUse' => InUse
  <2>1. DOMAIN objs = 1 .. Len(objs) /\ DOMAIN objs' = 1 .. Len(objs')
    BY <1>3 DEF WorkerInv, WorkerTypes
  <2>2. \A o \in DOMAIN objs' \ {1} : o \in DOMAIN objs \ {1} /\ (objs'[o].lib = "live" => objs[o].lib = "live")
    BY <1>5, <2>1
  <2> QED BY <1>4, <2>2 DEF InUse
<1>9. objs'[1].lib = objs[1].lib
  BY <1>0, <1>5
<1> QED BY <1>0, <1>1, <1>3, <1>5, <1>7, <1>8, <1>9, MongoParts DEF MongoInv

LEMMA MongoAsked ==
  ASSUME WorkerInv, MongoInv, NEW c \in Cos, NEW o,
         NEW op \in {"connect", "collection", "write", "find_one", "find", "next", "to_array"},
         Ask(c, op, o, 0),
         op \in {"connect", "collection"} <=> o = 1,
         op = "find" => objs[o].k = "collection", UNCHANGED stale
  PROVE  WorkerInv' /\ MongoInv'
<1>0. Len(objs) \in Nat /\ Len(objs) >= 1 /\ WorkerTypes
  BY DEF WorkerInv, WorkerTypes
<1>1. /\ Asks(c, op, o, 0) /\ o \in held /\ thread = "open" /\ UNCHANGED <<objs, held, backs, thread>>
  BY DEF Ask, Asks, Call
<1>2. Well /\ Alive(o) /\ op \in Ops /\ o \in Nat /\ 0 \in Nat
  BY <1>0, <1>1, SameObjects DEF WorkerInv, WorkerTypes, RefInv, Ops
<1>3. /\ WorkerInv'
      /\ \E j \in JobRec :
           /\ j.op = op /\ j.c = c /\ j.o = o /\ j.hold = 0 /\ j.res = "none"
           /\ Range(jobs') = Range(jobs) \cup {j} /\ Range(backs') = Range(backs)
  BY <1>1, <1>2, AskedStep
<1>4. PICK j \in JobRec :
        /\ j.op = op /\ j.c = c /\ j.o = o /\ j.hold = 0 /\ j.res = "none"
        /\ Range(jobs') = Range(jobs) \cup {j} /\ Range(backs') = Range(backs)
  BY <1>3
<1>5. j.c # 0
  BY <1>4, ScriptAssumption
<1>6. HandleInv'
  BY <1>1, <1>4, <1>5, HandleSame DEF MongoInv
<1>7. MongoJob(j)'
  BY <1>1, <1>4, <1>5 DEF MongoJob
<1>8. \A i \in AllJobs' : i \in AllJobs \/ MongoJob(i)'
  BY <1>4, <1>7 DEF AllJobs
<1>9. InUse' => InUse
  BY <1>1, <1>4 DEF InUse
<1> QED BY <1>0, <1>1, <1>3, <1>6, <1>8, <1>9, MongoParts DEF MongoInv

LEMMA MongoStep ==
  ASSUME WorkerInv, MongoInv, MongoNext
  PROVE  WorkerInv' /\ MongoInv'
<1>0. Len(objs) \in Nat /\ Len(objs) >= 1 /\ WorkerTypes
  BY DEF WorkerInv, WorkerTypes
<1>1. CASE CollectionWk \/ CollectionOpWk \/ NextWk
  <2>1. PICK res \in Results :
          /\ Served(res) /\ jobs # <<>> /\ Head(jobs).op # "close"
          /\ UNCHANGED <<frames, st, objs, held, ref, thread, stale>>
          /\ res \in {"handle", "document"} =>
               Head(jobs).op # "connect" /\ (Head(jobs).op = "collection" => objs[1].lib # "none")
    BY <1>1 DEF CollectionWk, CollectionOpWk, NextWk, Serves, MongoWk, mongoVars, Results, Client
  <2>2. Head(jobs) \in AllJobs /\ MongoJob(Head(jobs))
    BY <2>1, Heads DEF MongoInv
  <2>3. Head(jobs).c # 0 /\ thread = "open"
    BY <2>1, <2>2, MongoUses DEF MongoJob
  <2>4. objs[1].lib # "none" => objs[1].lib = "live"
    <3>0. objs[1] \in ObjRec
      BY <1>0 DEF WorkerTypes
    <3>1. objs[1].lib \in Libs
      BY <3>0 DEF ObjRec
    <3> QED BY <2>3, <3>1 DEF MongoInv, Libs
  <2>5. res \in {"handle", "document"} => Head(jobs).o # 1 \/ objs[1].lib = "live"
    BY <2>1, <2>2, <2>3, <2>4 DEF MongoJob
  <2> QED BY <2>1, <2>5, MongoServed
<1>2. CASE DestroyWk /\ UNCHANGED mongoVars
  <2>1. /\ WorkerInv' /\ UNCHANGED <<jobs, backs>> /\ jobs = <<>> /\ ~Alive(1) /\ Len(objs') = Len(objs)
        /\ \A p \in 1 .. Len(objs) :
             /\ objs'[p].k = objs[p].k /\ objs'[p].of = objs[p].of
             /\ objs'[p].gone = objs[p].gone
             /\ objs'[p].lib = IF p = 1 THEN "freed" ELSE objs[p].lib
    BY <1>2, DestroyWkStep
  <2>2. \A p \in 2 .. Len(objs) : p \in 1 .. Len(objs) /\ p # 1
    BY <1>0
  <2>3. HandleInv'
    BY <2>1, <2>2, HandleSame DEF MongoInv
  <2>4. AllJobs' = AllJobs /\ thread' = "closed"
    BY <1>2, <2>1 DEF AllJobs, DestroyWk
  <2>5. Range(jobs) = {}
    BY <2>1 DEF Range
  <2>6. ~InUse'
    <3>1. DOMAIN objs' = 1 .. Len(objs')
      BY <2>1 DEF WorkerInv, WorkerTypes
    <3>2. ASSUME NEW o \in DOMAIN objs' \ {1}, objs'[o].lib = "live" PROVE FALSE
      <4>1. o \in 2 .. Len(objs) /\ o \in 1 .. Len(objs)
        BY <1>0, <2>1, <3>1
      <4>2. objs[o].lib = "live"
        BY <2>1, <3>2, <4>1
      <4>3. Alive(o)
        BY <2>5, <4>1, <4>2 DEF MongoInv, HandleInv
      <4> QED BY <2>1, <4>3, ClientLives DEF MongoInv
    <3>3. ASSUME NEW j \in Range(jobs') \union Range(backs'), j.res \in {"handle", "document"} PROVE FALSE
      <4>1. j \in AllJobs /\ MongoJob(j)
        BY <2>1 DEF AllJobs, MongoInv
      <4>2. j.c # 0
        BY <3>3, <4>1 DEF MongoJob
      <4> QED BY <2>1, <4>1, <4>2, MongoUses
    <3> QED BY <3>2, <3>3 DEF InUse
  <2> QED BY <1>0, <2>1, <2>3, <2>4, <2>6, MongoParts
<1>3. CASE \E c \in Cos : ClientAsk(c)
  <2>1. PICK c \in Cos, op \in {"connect", "collection"} : Ask(c, op, 1, 0) /\ UNCHANGED stale
    BY <1>3 DEF ClientAsk, mongoVars
  <2> QED BY <2>1, MongoAsked
<1>4. ASSUME NEW c \in Cos, NEW o \in held, CollectionAsk(c, o) \/ CursorAsk(c, o) PROVE WorkerInv' /\ MongoInv'
  <2>1. PICK op \in {"write", "find_one", "find", "next", "to_array"} :
          Ask(c, op, o, 0) /\ UNCHANGED stale /\ objs[o].k \in {"collection", "cursor"}
          /\ (op = "find" => objs[o].k = "collection")
    BY <1>4 DEF CollectionAsk, CursorAsk, mongoVars
  <2>2. o # 1
    BY <2>1 DEF MongoInv
  <2> QED BY <2>1, <2>2, MongoAsked
<1>5. CASE ConnectCbM \/ NextCb \/ \E op \in {"write", "find_one_af", "close"} : DefaultCbM(op)
  <2>1. Loop /\ backs # <<>> /\ UNCHANGED <<objs, stale>>
    BY <1>5 DEF ConnectCbM, NextCb, DefaultCbM, Completes, mongoVars, Fails
  <2>2. Head(backs) \in AllJobs /\ MongoJob(Head(backs))
    BY <2>1, Heads DEF MongoInv
  <2>3. CASE Head(backs).c # 0
    <3>1. Returns1(0) \/ Fails
      BY <1>5, <2>3 DEF ConnectCbM, NextCb, DefaultCbM
    <3> QED BY <2>1, <2>3, <3>1, MongoTaken
  <2>4. CASE Head(backs).c = 0
    <3>1. backs' = Tail(backs) /\ UNCHANGED <<frames, st, calls, held, ref, jobs, thread>>
      BY <1>5, <2>2, <2>4 DEF ConnectCbM, NextCb, DefaultCbM, Completes, MongoJob
    <3>2. WorkerInv' /\ Range(backs') \subseteq Range(backs) /\ Range(jobs') = Range(jobs)
      BY <2>1, <3>1, DroppedStep
    <3>3. HandleInv'
      BY <2>1, <3>2, HandleSame DEF MongoInv
    <3>4. (\A i \in AllJobs' : i \in AllJobs) /\ (InUse' => InUse)
      BY <2>1, <3>2 DEF AllJobs, InUse
    <3> QED BY <1>0, <2>1, <3>1, <3>2, <3>3, <3>4, MongoParts DEF MongoInv
  <2> QED BY <2>3, <2>4
<1>6. CASE CollectionCb \/ FindOneCb \/ CursorCb \/ ToArrayCb
  <2>1. CASE Made("collection", "collection", 1) /\ UNCHANGED stale
    BY <2>1, MongoMade
  <2>2. CASE Made("find", "cursor", Head(backs).o) /\ UNCHANGED stale
    BY <2>2, MongoMade
  <2>3. ASSUME NEW op \in {"collection", "find_one", "to_array"}, NEW res, Completes(op, res),
               Returns1(0), UNCHANGED <<objs, stale>>
        PROVE  WorkerInv' /\ MongoInv'
    <3>1. Loop /\ backs # <<>> /\ Head(backs).op = op
      BY <2>3 DEF Completes
    <3>2. Head(backs).c # 0
      BY <2>3, <3>1, Heads DEF MongoInv, MongoJob
    <3> QED BY <2>3, <3>1, <3>2, MongoTaken
  <2>4. CASE \/ Completes("find_one", "document") /\ Requeue("find_one_af")
             \/ Completes("to_array", "row") /\ Requeue("to_array")
    <3>1. UNCHANGED <<objs, held, stale>>
      BY <1>6, <2>4 DEF CollectionCb, FindOneCb, CursorCb, ToArrayCb, mongoVars, Completes, Made
    <3> QED BY <2>4, <3>1, MongoRequeued DEF Completes
  <2> QED BY <1>6, <2>1, <2>2, <2>3, <2>4 DEF CollectionCb, FindOneCb, CursorCb, ToArrayCb, mongoVars
<1>7. CASE WorkerStep /\ UNCHANGED mongoVars
  <2>1. WorkerInv' /\ UNCHANGED <<objs, jobs, backs, thread, stale>>
    BY <1>7, IdleStep DEF mongoVars
  <2>2. HandleInv' /\ AllJobs' = AllJobs /\ InUse' = InUse
    BY <2>1, HandleSame DEF MongoInv, AllJobs, InUse
  <2> QED BY <1>0, <2>1, <2>2, MongoParts DEF MongoInv
<1>8. ASSUME NEW o \in Unheld, Destruct(o, "close", 0), UNCHANGED mongoVars PROVE WorkerInv' /\ MongoInv'
  <2>1. /\ o # 1 /\ objs' = [objs EXCEPT ![o].gone = TRUE]
        /\ UNCHANGED <<frames, st, held, ref, backs, thread, stale>>
    BY <1>8 DEF Destruct, mongoVars
  <2>2. Len(objs') = Len(objs)
    BY <2>1, ObjectEnds
  <2>4. /\ WorkerInv' /\ o \in 2 .. Len(objs)
        /\ \E j \in JobRec :
             /\ j.op = "close" /\ j.c = 0 /\ j.o = o /\ j.hold = 0 /\ j.res = "none"
             /\ Range(jobs') = Range(jobs) \cup {j} /\ Range(backs') = Range(backs)
    <3>0. "close" \in Ops
      BY DEF Ops
    <3>1. PICK op \in Ops, hold \in Nat : op = "close" /\ hold = 0
      BY <3>0
    <3>2. Destruct(o, op, hold) /\ (hold # 0 => Lives(objs', hold))
      BY <1>8, <3>1
    <3>3. /\ WorkerInv' /\ o \in 2 .. Len(objs) /\ o \in Unheld
          /\ \E j \in JobRec :
               /\ j.op = op /\ j.c = 0 /\ j.o = o /\ j.hold = hold /\ j.res = "none"
               /\ Range(jobs') = Range(jobs) \cup {j} /\ Range(backs') = Range(backs)
      BY <3>2, DestructStep
    <3> QED BY <3>1, <3>3
  <2>5. PICK j \in JobRec :
          /\ j.op = "close" /\ j.c = 0 /\ j.o = o /\ j.hold = 0 /\ j.res = "none"
          /\ Range(jobs') = Range(jobs) \cup {j} /\ Range(backs') = Range(backs)
    BY <2>4
  <2>6. /\ HandleInv'
        /\ \A p \in 1 .. Len(objs) :
             objs'[p].k = objs[p].k /\ objs'[p].of = objs[p].of /\ objs'[p].lib = objs[p].lib
    BY <2>1, <2>4, <2>5, HandleEnds DEF MongoInv
  <2>7. MongoJob(j)'
    BY <2>5 DEF MongoJob
  <2>8. \A i \in AllJobs' : i \in AllJobs \/ MongoJob(i)'
    BY <2>5, <2>7 DEF AllJobs
  <2>9. InUse' => InUse
    <3>1. DOMAIN objs = 1 .. Len(objs) /\ DOMAIN objs' = 1 .. Len(objs')
      BY <2>4 DEF WorkerInv, WorkerTypes
    <3> QED BY <2>2, <2>5, <2>6, <3>1 DEF InUse
  <2>10. objs'[1].lib = objs[1].lib
    BY <1>0, <2>6
  <2> QED BY <1>0, <2>1, <2>2, <2>4, <2>6, <2>8, <2>9, <2>10, MongoParts DEF MongoInv
<1>9. CASE CloseWork /\ UNCHANGED mongoVars
  <2>1. WorkerInv' /\ 1 \in Unheld /\ UNCHANGED <<jobs, backs, stale>>
    BY <1>9, CloseWorkStep DEF mongoVars
  <2>2. /\ objs' = [objs EXCEPT ![1].gone = TRUE] /\ UNCHANGED <<frames, st, held, ref, backs>>
        /\ thread = "open"
    BY <1>9 DEF CloseWork
  <2>3. /\ Len(objs') = Len(objs)
        /\ \A p \in 1 .. Len(objs) :
             /\ objs'[p].k = objs[p].k /\ objs'[p].of = objs[p].of /\ objs'[p].lib = objs[p].lib
             /\ objs'[p].gone = IF p = 1 THEN TRUE ELSE objs[p].gone
    <3>1. PICK o \in Unheld : o = 1
      BY <2>1
    <3>2. objs' = [objs EXCEPT ![o].gone = TRUE] /\ UNCHANGED <<frames, st, held, ref, backs>>
      BY <2>2, <3>1
    <3>3. /\ Len(objs') = Len(objs)
          /\ \A p \in 1 .. Len(objs) :
               /\ objs'[p].k = objs[p].k /\ objs'[p].of = objs[p].of /\ objs'[p].lib = objs[p].lib
               /\ objs'[p].gone = IF p = o THEN TRUE ELSE objs[p].gone
      BY <3>2, ObjectEnds, ZenonT(60)
    <3> QED BY <3>1, <3>3
  <2>4. \A p \in 2 .. Len(objs) : p \in 1 .. Len(objs) /\ p # 1
    BY <1>0
  <2>5. HandleInv' /\ AllJobs' = AllJobs
    BY <2>1, <2>3, <2>4, HandleSame DEF MongoInv, AllJobs
  <2>6. InUse' => InUse
    <3>1. DOMAIN objs = 1 .. Len(objs) /\ DOMAIN objs' = 1 .. Len(objs')
      BY <2>1 DEF WorkerInv, WorkerTypes
    <3> QED BY <2>1, <2>3, <3>1 DEF InUse
  <2>7. objs'[1].lib = objs[1].lib /\ objs[1].lib # "freed"
    BY <1>0, <2>2, <2>3 DEF MongoInv
  <2>8. ~stale' /\ InUse' => objs'[1].lib = "live"
    BY <2>1, <2>6, <2>7 DEF MongoInv
  <2>9. /\ Len(objs') \in Nat /\ Len(objs') >= Len(objs)
        /\ \A p \in 1 .. Len(objs) : objs'[p].k = objs[p].k /\ objs'[p].of = objs[p].of
        /\ \A p \in 1 .. Len(objs') :
             p \in 1 .. Len(objs) \/ (objs'[p].k = "collection" => objs'[p].of = 1)
        /\ \A j \in AllJobs' : j \in AllJobs \/ MongoJob(j)'
        /\ objs'[1].lib = "freed" => thread' = "closed"
    <3>1. Len(objs') \in Nat /\ Len(objs') >= Len(objs)
      BY <1>0, <2>3
    <3>2. \A p \in 1 .. Len(objs) : objs'[p].k = objs[p].k /\ objs'[p].of = objs[p].of
      BY <2>3
    <3>3. \A p \in 1 .. Len(objs') : p \in 1 .. Len(objs)
      BY <2>3
    <3>4. \A j \in AllJobs' : j \in AllJobs
      BY <2>5
    <3>5. objs'[1].lib # "freed"
      BY <2>7
    <3> QED BY <3>1, <3>2, <3>3, <3>4, <3>5
  <2> QED BY <2>1, <2>5, <2>8, <2>9, MongoParts
<1> QED
  BY <1>1, <1>2, <1>3, <1>4, <1>5, <1>6, <1>7, <1>8, <1>9, MongoConnected, MongoClosed DEF MongoNext

-----------------------------------------------------------------------------
(* RabbitMQ.                                                               *)

LEMMA RabbitUses ==
  ASSUME WorkerInv, RabbitInv, NEW j \in AllJobs
  PROVE  j.c \in Cos /\ j.c # 0 /\ j.o = 1 /\ Alive(1) /\ thread = "open"
<1>1. j.c # 0 /\ j.o = 1
  BY DEF RabbitInv, RabbitJob
<1>2. Alive(1) /\ j.c \in Cos
  BY <1>1, JobLives
<1> QED BY <1>1, <1>2 DEF WorkerInv, ThreadInv, Alive, Lives

LEMMA RabbitSame ==
  ASSUME WorkerInv, RabbitInv, UNCHANGED <<jobs, backs>>, Len(objs') = Len(objs),
         \A p \in 2 .. Len(objs) : objs'[p].lib = objs[p].lib
  PROVE  RabbitInv'
<1>1. AllJobs' = AllJobs /\ \A j : Filled(j)' = Filled(j)
  BY DEF AllJobs, Filled
<1> QED BY <1>1 DEF RabbitInv, RabbitJob, Consumes

(* A coroutine asks; a consume with a message object of its own.           *)
LEMMA RabbitAsked ==
  ASSUME WorkerInv, RabbitInv, NEW j \in JobRec, j.c # 0, j.o = 1, j.op # "destroy_message",
         RabbitJob(j), \A i \in AllJobs : i.c # j.c,
         Range(jobs') = Range(jobs) \cup {j}, Range(backs') = Range(backs),
         \/ ~Consumes(j) /\ UNCHANGED objs
         \/ /\ Consumes(j) /\ j.hold = Len(objs) + 1 /\ Len(objs') = Len(objs) + 1
            /\ \A p \in 1 .. Len(objs) : objs'[p] = objs[p]
            /\ objs'[Len(objs) + 1].lib = "none"
  PROVE  RabbitInv'
<1>0. Len(objs) \in Nat /\ Len(objs) >= 1
  BY DEF WorkerInv, WorkerTypes
<1>1. AllJobs' = AllJobs \cup {j} /\ j \notin AllJobs
  BY DEF AllJobs
<1>2. (\A i \in AllJobs : Filled(i)' <=> Filled(i)) /\ ~Filled(j)'
  BY <1>1 DEF Filled, AllJobs
<1>3. /\ Len(objs') \in Nat /\ Len(objs') >= Len(objs)
      /\ \A p \in 2 .. Len(objs) : objs'[p].lib = objs[p].lib /\ p \in 2 .. Len(objs')
      /\ \A p \in 2 .. Len(objs') : p \in 2 .. Len(objs) \/ objs'[p].lib = "none"
      /\ Consumes(j) => j.hold \in 2 .. Len(objs') /\ j.hold \notin 2 .. Len(objs)
  BY <1>0
<1>4. \A i \in AllJobs' : RabbitJob(i)
  BY <1>1 DEF RabbitInv
<1>5. ASSUME NEW i \in AllJobs', Consumes(i)
      PROVE  /\ i.hold \in 2 .. Len(objs')
             /\ Filled(i)' => objs'[i.hold].lib = "live"
             /\ \A k \in AllJobs' : Consumes(k) /\ k.hold = i.hold => k.c = i.c
  <2>1. \A k \in AllJobs : Consumes(k) =>
          /\ k.hold \in 2 .. Len(objs)
          /\ Filled(k) => objs[k.hold].lib = "live"
          /\ \A m \in AllJobs : Consumes(m) /\ m.hold = k.hold => m.c = k.c
    BY DEF RabbitInv
  <2>2. CASE i = j
    BY <1>1, <1>2, <1>3, <1>5, <2>1, <2>2
  <2>3. CASE i # j
    BY <1>1, <1>2, <1>3, <1>5, <2>1, <2>3
  <2> QED BY <2>2, <2>3
<1>6. ASSUME NEW o \in 2 .. Len(objs'), objs'[o].lib = "live"
      PROVE  \E i \in AllJobs' : Consumes(i) /\ Filled(i)' /\ i.hold = o
  <2>1. o \in 2 .. Len(objs) /\ objs[o].lib = "live"
    BY <1>3, <1>6
  <2>2. PICK i \in AllJobs : Consumes(i) /\ Filled(i) /\ i.hold = o
    BY <2>1 DEF RabbitInv
  <2> QED BY <1>1, <1>2, <2>2
<1>7. \A i : RabbitJob(i)' = RabbitJob(i) /\ Consumes(i)' = Consumes(i)
  BY DEF RabbitJob, Consumes
<1> QED BY <1>4, <1>5, <1>6, <1>7 DEF RabbitInv

(* The thread serves: it fills the message, or it releases the envelope.   *)
LEMMA RabbitServed ==
  ASSUME WorkerInv, RabbitInv, jobs # <<>>, NEW res \in Results, Served(res), Well,
         UNCHANGED <<frames, st, held, ref, thread>>, Len(objs') = Len(objs),
         \A p \in 2 .. Len(objs) :
           objs'[p].lib = IF Consumes(Head(jobs)) /\ p = Head(jobs).hold
                          THEN IF Head(jobs).op = "destroy_message" THEN "freed"
                               ELSE IF res = "ok" THEN "live" ELSE objs[p].lib
                          ELSE objs[p].lib
  PROVE  WorkerInv' /\ RabbitInv'
<1>0. Len(objs) \in Nat /\ Len(objs) >= 1
  BY DEF WorkerInv, WorkerTypes
<1>1. WorkerInv'
  BY ServedStep
<1> DEFINE h == Head(jobs)
<1>2. PICK j \in JobRec :
        /\ Like(j, h) /\ j.op = h.op /\ j.res = res
        /\ Range(jobs') = Range(jobs) \ {h}
        /\ Range(backs') = Range(backs) \cup {j}
  BY JobsTyped, QServed
<1>3. h \in Range(jobs) /\ h \in AllJobs /\ h \notin Range(backs)
  <2>1. Queues(jobs, backs)
    BY JobsTyped
  <2> QED BY <2>1, QueuesTail DEF AllJobs
<1>4. \A i \in AllJobs : i = j => i = h
  <2>1. Key(j) = Key(h)
    BY <1>2 DEF Key, Like
  <2> QED BY <1>3, <2>1, JobsTyped, OneEach DEF AllJobs
<1> HIDE DEF h
<1>5. AllJobs' = (AllJobs \ {h}) \cup {j}
  BY <1>2, <1>3 DEF AllJobs
<1>6. \A i \in AllJobs \ {h} : Filled(i)' <=> Filled(i)
  BY <1>2, <1>4 DEF Filled
<1>7. Filled(j)' <=> h.op # "destroy_message" /\ res = "ok"
  <2>1. j \notin Range(jobs')
    BY <1>2, <1>4 DEF AllJobs
  <2> QED BY <1>2, <2>1 DEF Filled
<1>8. Filled(h) <=> h.op = "destroy_message"
  BY <1>3 DEF Filled
<1>9. Consumes(j) <=> Consumes(h)
  BY <1>2 DEF Consumes
<1>10. \A i \in AllJobs : Consumes(i) =>
         /\ i.hold \in 2 .. Len(objs)
         /\ Filled(i) => objs[i.hold].lib = "live"
         /\ \A m \in AllJobs : Consumes(m) /\ m.hold = i.hold => m.c = i.c
  BY DEF RabbitInv
<1>11. \A i \in AllJobs \ {h} : i.c # h.c
  <2>1. \A i \in AllJobs : i.c = h.c /\ i.c # 0 => i = h
    <3>1. \A i \in AllJobs : Key(i) = Key(h) => i = h
      BY <1>3, JobsTyped, OneEach DEF AllJobs
    <3> QED BY <3>1 DEF Key
  <2>2. \A i \in AllJobs : i.c # 0
    BY RabbitUses
  <2> QED BY <2>1, <2>2
<1>12. j.c = h.c /\ j.o = h.o /\ j.hold = h.hold
  BY <1>2 DEF Like
<1>13. \A p \in 2 .. Len(objs) :
         objs'[p].lib = IF Consumes(h) /\ p = h.hold
                        THEN IF h.op = "destroy_message" THEN "freed"
                             ELSE IF res = "ok" THEN "live" ELSE objs[p].lib
                        ELSE objs[p].lib
  BY DEF h
<1>14. ASSUME NEW i \in AllJobs', Consumes(i)
       PROVE  /\ i.hold \in 2 .. Len(objs')
              /\ Filled(i)' => objs'[i.hold].lib = "live"
              /\ \A k \in AllJobs' : Consumes(k) /\ k.hold = i.hold => k.c = i.c
  <2>1. CASE i = j
    <3>1. Consumes(h) /\ i.hold = h.hold /\ i.hold \in 2 .. Len(objs)
      BY <1>3, <1>9, <1>10, <1>12, <1>14, <2>1
    <3>2. Filled(i)' => objs'[i.hold].lib = "live"
      BY <1>7, <1>13, <2>1, <3>1
    <3>3. \A k \in AllJobs' : Consumes(k) /\ k.hold = i.hold => k.c = i.c
      BY <1>3, <1>5, <1>10, <1>12, <2>1, <3>1
    <3> QED BY <3>1, <3>2, <3>3
  <2>2. CASE i # j
    <3>1. i \in AllJobs \ {h} /\ i.hold \in 2 .. Len(objs)
      BY <1>5, <1>10, <1>14, <2>2
    <3>2. Consumes(h) => i.hold # h.hold
      BY <1>3, <1>10, <1>11, <1>14, <3>1
    <3>3. Filled(i)' => objs'[i.hold].lib = "live"
      BY <1>6, <1>10, <1>13, <1>14, <3>1, <3>2
    <3>4. \A k \in AllJobs' : Consumes(k) /\ k.hold = i.hold => k.c = i.c
      BY <1>5, <1>9, <1>10, <1>12, <1>14, <3>1, <3>2
    <3> QED BY <3>1, <3>3, <3>4
  <2> QED BY <2>1, <2>2
<1>15. ASSUME NEW o \in 2 .. Len(objs'), objs'[o].lib = "live"
       PROVE  \E i \in AllJobs' : Consumes(i) /\ Filled(i)' /\ i.hold = o
  <2>1. CASE Consumes(h) /\ o = h.hold /\ h.op # "destroy_message" /\ res = "ok"
    BY <1>5, <1>7, <1>9, <1>12, <2>1
  <2>2. CASE ~(Consumes(h) /\ o = h.hold /\ h.op # "destroy_message" /\ res = "ok")
    <3>1. objs[o].lib = "live" /\ ~(Consumes(h) /\ o = h.hold /\ h.op = "destroy_message")
      BY <1>13, <1>15, <2>2
    <3>2. PICK i \in AllJobs : Consumes(i) /\ Filled(i) /\ i.hold = o
      BY <3>1 DEF RabbitInv
    <3>3. i # h
      BY <1>8, <3>1, <3>2
    <3> QED BY <1>5, <1>6, <3>2, <3>3
  <2> QED BY <2>1, <2>2
<1>16. RabbitJob(j) /\ \A i \in AllJobs' : RabbitJob(i)
  BY <1>2, <1>3, <1>5, <1>12 DEF RabbitInv, RabbitJob
<1>17. \A i : RabbitJob(i)' = RabbitJob(i) /\ Consumes(i)' = Consumes(i)
  BY DEF RabbitJob, Consumes
<1> QED BY <1>1, <1>14, <1>15, <1>16, <1>17 DEF RabbitInv

LEMMA RabbitTaken ==
  ASSUME WorkerInv, RabbitInv, Loop, backs # <<>>,
         ~(Consumes(Head(backs)) /\ Filled(Head(backs))), NEW o \in Nat, o = 0 \/ Alive(o),
         (Returns1(o) /\ UNCHANGED objs) \/ Fails
  PROVE  WorkerInv' /\ RabbitInv'
<1>0. Len(objs) \in Nat /\ Len(objs) >= 1 /\ WorkerTypes /\ held \in SUBSET Nat
  BY DEF WorkerInv, WorkerTypes
<1>1. /\ backs' = Tail(backs) /\ ref' \in {ref, [ref EXCEPT ![Head(backs).c] = 0]}
      /\ Resume(Head(backs).c, <<>>) /\ UNCHANGED <<objs, jobs, thread>>
      /\ held' \subseteq held \cup {o} /\ (o = 0 => held' = held)
  BY DEF Returns1, Fails
<1>2. Well
  BY <1>0, <1>1, SameObjects
<1>3. Head(backs) \in AllJobs /\ Head(backs).c # 0
  BY Heads, RabbitUses
<1>4. held' \in SUBSET Nat /\ \A p \in held' : p \in held \/ Lives(objs', p)
  BY <1>0, <1>1 DEF Alive
<1>5. WorkerInv'
  BY <1>1, <1>2, <1>3, <1>4, TakenStep
<1>6. Range(jobs') = Range(jobs) /\ Range(backs') = Range(backs) \ {Head(backs)} /\ Head(backs) \notin Range(jobs)
  BY <1>1, JobsTyped, QTaken, Heads
<1>7. AllJobs' = AllJobs \ {Head(backs)} /\ \A i \in AllJobs' : Filled(i)' <=> Filled(i)
  BY <1>6 DEF AllJobs, Filled
<1>8. \A i : RabbitJob(i)' = RabbitJob(i) /\ Consumes(i)' = Consumes(i)
  BY DEF RabbitJob, Consumes
<1> QED BY <1>1, <1>5, <1>7, <1>8 DEF RabbitInv

LEMMA OfSet ==
  ASSUME WorkerTypes, NEW o \in 1 .. Len(objs), NEW p \in Nat, objs' = [objs EXCEPT ![o].of = p]
  PROVE  /\ objs' \in Seq(ObjRec) /\ Len(objs') = Len(objs)
         /\ \A q \in 1 .. Len(objs) :
              /\ objs'[q].k = objs[q].k /\ objs'[q].gone = objs[q].gone /\ objs'[q].lib = objs[q].lib
              /\ objs'[q].of = objs[q].of \/ objs'[q].of = p
<1>1. /\ objs \in Seq(ObjRec) /\ Len(objs) \in Nat /\ DOMAIN objs = 1 .. Len(objs)
      /\ \A q \in 1 .. Len(objs) : objs[q] \in ObjRec
  BY DEF WorkerTypes
<1>2. [objs[o] EXCEPT !.of = p] \in ObjRec
  BY <1>1 DEF ObjRec
<1>3. /\ objs' \in Seq(ObjRec) /\ Len(objs') = Len(objs)
      /\ \A q \in 1 .. Len(objs) : objs'[q] = IF q = o THEN [objs[o] EXCEPT !.of = p] ELSE objs[q]
  BY <1>1, <1>2
<1> QED BY <1>1, <1>3 DEF ObjRec

LEMMA RabbitRequeued ==
  ASSUME WorkerInv, RabbitInv, backs # <<>>, Head(backs).op \in {"consume", "consume_for"},
         Head(backs).res = "ok", Requeue("destroy_message"),
         objs' = [objs EXCEPT ![Head(backs).hold].of = 1], UNCHANGED held
  PROVE  WorkerInv' /\ RabbitInv'
<1> DEFINE h == Head(backs)
<1>0. /\ objs \in Seq(ObjRec) /\ Len(objs) \in Nat /\ Len(objs) >= 1 /\ DOMAIN objs = 1 .. Len(objs)
      /\ \A p \in 1 .. Len(objs) : objs[p] \in ObjRec
      /\ "destroy_message" \in Ops
  BY DEF WorkerInv, WorkerTypes, Ops
<1>1. h \in AllJobs /\ h \in Range(backs) /\ h \notin Range(jobs)
  BY Heads
<1>2. Alive(1) /\ thread = "open"
  BY <1>1, RabbitUses
<1>3. Consumes(h) /\ Filled(h) /\ h.hold \in 2 .. Len(objs) /\ h.hold \in 1 .. Len(objs)
  BY <1>0, <1>1 DEF Consumes, Filled, RabbitInv
<1>4. PICK j \in JobRec :
        /\ Like(j, h) /\ j.op = "destroy_message" /\ j.res = h.res
        /\ Range(jobs') = Range(jobs) \cup {j}
        /\ Range(backs') = Range(backs) \ {h}
  BY <1>0, JobsTyped, QRequeued
<1>5. \A i \in AllJobs : i = j => i = h
  <2>1. Key(j) = Key(h)
    BY <1>4 DEF Key, Like
  <2> QED BY <1>1, <2>1, JobsTyped, OneEach DEF AllJobs
<1>t. objs' = [objs EXCEPT ![h.hold].of = 1]
  OBVIOUS
<1> HIDE DEF h
<1>7. /\ objs' \in Seq(ObjRec) /\ Len(objs') = Len(objs)
      /\ \A p \in 1 .. Len(objs) :
           /\ objs'[p].k = objs[p].k
           /\ objs'[p].gone = objs[p].gone /\ objs'[p].lib = objs[p].lib
           /\ objs'[p].of = objs[p].of \/ objs'[p].of = 1
  <2>1. PICK m \in 1 .. Len(objs) : m = h.hold
    BY <1>3
  <2>2. PICK one \in Nat : one = 1
    OBVIOUS
  <2>3. objs' = [objs EXCEPT ![m].of = one] /\ WorkerTypes
    BY <1>t, <2>1, <2>2 DEF WorkerInv
  <2>4. /\ objs' \in Seq(ObjRec) /\ Len(objs') = Len(objs)
        /\ \A p \in 1 .. Len(objs) :
             /\ objs'[p].k = objs[p].k
             /\ objs'[p].gone = objs[p].gone /\ objs'[p].lib = objs[p].lib
             /\ objs'[p].of = objs[p].of \/ objs'[p].of = one
    BY <2>3, OfSet, ZenonT(60)
  <2> QED BY <2>2, <2>4
<1>9. Well
  <2>1. \A p : p \notin Len(objs) + 1 .. Len(objs')
    BY <1>0, <1>7
  <2> QED BY <1>0, <1>2, <1>7, <2>1 DEF Well
<1>10. WorkerInv'
  BY <1>0, <1>2, <1>9, RequeuedStep
<1>11. AllJobs' = (AllJobs \ {h}) \cup {j}
  BY <1>1, <1>4, <1>5 DEF AllJobs
<1>12. \A i \in AllJobs \ {h} : Filled(i)' <=> Filled(i)
  BY <1>4, <1>5 DEF Filled
<1>13. Filled(j)' /\ Consumes(j)
  BY <1>4 DEF Filled, Consumes
<1>14. j.c = h.c /\ j.o = h.o /\ j.hold = h.hold
  BY <1>4 DEF Like
<1>15. \A i \in AllJobs : Consumes(i) =>
         /\ i.hold \in 2 .. Len(objs)
         /\ Filled(i) => objs[i.hold].lib = "live"
         /\ \A m \in AllJobs : Consumes(m) /\ m.hold = i.hold => m.c = i.c
  BY DEF RabbitInv
<1>16. \A p \in 2 .. Len(objs) : objs'[p].lib = objs[p].lib
  BY <1>0, <1>7
<1>17. ASSUME NEW i \in AllJobs', Consumes(i)
       PROVE  /\ i.hold \in 2 .. Len(objs')
              /\ Filled(i)' => objs'[i.hold].lib = "live"
              /\ \A k \in AllJobs' : Consumes(k) /\ k.hold = i.hold => k.c = i.c
  <2>1. CASE i = j
    BY <1>1, <1>3, <1>7, <1>11, <1>14, <1>15, <1>16, <1>17, <2>1
  <2>2. CASE i # j
    BY <1>1, <1>3, <1>7, <1>11, <1>12, <1>14, <1>15, <1>16, <1>17, <2>2
  <2> QED BY <2>1, <2>2
<1>18. ASSUME NEW o \in 2 .. Len(objs'), objs'[o].lib = "live"
       PROVE  \E i \in AllJobs' : Consumes(i) /\ Filled(i)' /\ i.hold = o
  <2>1. PICK i \in AllJobs : Consumes(i) /\ Filled(i) /\ i.hold = o
    BY <1>7, <1>16, <1>18 DEF RabbitInv
  <2> QED BY <1>11, <1>12, <1>13, <1>14, <2>1
<1>19. \A i \in AllJobs' : RabbitJob(i)
  BY <1>1, <1>4, <1>11, <1>14 DEF RabbitInv, RabbitJob
<1>20. \A i : RabbitJob(i)' = RabbitJob(i) /\ Consumes(i)' = Consumes(i)
  BY DEF RabbitJob, Consumes
<1> QED BY <1>10, <1>17, <1>18, <1>19, <1>20 DEF RabbitInv

LEMMA RabbitWkStep ==
  ASSUME WorkerInv, RabbitInv, RabbitWk
  PROVE  WorkerInv' /\ RabbitInv'
<1>0. Len(objs) \in Nat /\ Len(objs) >= 1 /\ WorkerTypes /\ 1 \in 1 .. Len(objs)
      /\ \A p \in 2 .. Len(objs) : p \in 1 .. Len(objs) /\ p # 1
      /\ "freed" \in Libs /\ "live" \in Libs
  BY DEF WorkerInv, WorkerTypes, Libs
<1>a. ASSUME jobs # <<>>
      PROVE  /\ thread = "open" /\ Head(jobs) \in AllJobs
             /\ Consumes(Head(jobs)) => Head(jobs).hold \in 2 .. Len(objs)
  BY <1>a, Heads, RabbitUses DEF RabbitInv
<1>d. ASSUME Destroy, thread # "closed"
      PROVE  /\ Well /\ Len(objs') = Len(objs) /\ objs'[1].gone = objs[1].gone
             /\ \A p \in 2 .. Len(objs) : objs'[p].lib = objs[p].lib
  <2>1. SetLib(1, "freed")
    BY <1>d DEF Destroy, SetLib
  <2>2. /\ Well /\ Len(objs') = Len(objs)
        /\ \A p \in 1 .. Len(objs) :
             /\ objs'[p].gone = objs[p].gone
             /\ objs'[p].lib = IF p = 1 THEN "freed" ELSE objs[p].lib
    <3>0. PICK lib \in Libs : lib = "freed"
      BY DEF Libs
    <3>1. PICK o \in 1 .. Len(objs) : o = 1
      BY <1>0
    <3>2. SetLib(o, lib) /\ thread # "closed" /\ WorkerTypes
      BY <1>0, <1>d, <2>1, <3>0, <3>1
    <3>3. /\ Well /\ Len(objs') = Len(objs)
          /\ \A p \in 1 .. Len(objs) :
               /\ objs'[p].gone = objs[p].gone
               /\ objs'[p].lib = IF p = o THEN lib ELSE objs[p].lib
      BY <3>2, LibSet
    <3> QED BY <3>0, <3>1, <3>3
  <2> QED BY <1>0, <2>2
<1>1. ASSUME jobs # <<>>, NEW res \in Results, Served(res), UNCHANGED <<frames, st, held, ref, thread>>,
             Consumes(Head(jobs)) => Head(jobs).op # "destroy_message" /\ res # "ok",
             UNCHANGED objs \/ Destroy
      PROVE  WorkerInv' /\ RabbitInv'
  <2>1. Well /\ Len(objs') = Len(objs) /\ \A p \in 2 .. Len(objs) : objs'[p].lib = objs[p].lib
    BY <1>0, <1>a, <1>d, <1>1, SameObjects
  <2> QED BY <1>1, <2>1, RabbitServed
<1>2. CASE ProduceWk \/ FlushWk
  <2>1. PICK res \in Results :
          /\ Served(res) /\ jobs # <<>> /\ Head(jobs).op \in {"produce", "flush"}
          /\ UNCHANGED <<frames, st, held, ref, thread>> /\ (UNCHANGED objs \/ Destroy)
    BY <1>2 DEF ProduceWk, FlushWk, Serves, Results
  <2> QED BY <1>1, <2>1 DEF Consumes
<1>3. CASE DestroyMessageWk
  <2>1. /\ Served("ok") /\ jobs # <<>> /\ Head(jobs).op = "destroy_message"
        /\ SetLib(Head(jobs).hold, "freed") /\ UNCHANGED <<frames, st, held, ref, thread>>
        /\ "ok" \in Results
    BY <1>3 DEF DestroyMessageWk, Serves, Results
  <2>2. Consumes(Head(jobs)) /\ Head(jobs).hold \in 1 .. Len(objs)
    BY <1>0, <1>a, <2>1 DEF Consumes
  <2>3. /\ Well /\ Len(objs') = Len(objs)
        /\ \A p \in 1 .. Len(objs) :
             objs'[p].lib = IF p = Head(jobs).hold THEN "freed" ELSE objs[p].lib
    BY <1>0, <1>a, <2>1, <2>2, LibSet
  <2>4. \A p \in 2 .. Len(objs) :
          objs'[p].lib = IF Consumes(Head(jobs)) /\ p = Head(jobs).hold
                         THEN IF Head(jobs).op = "destroy_message" THEN "freed"
                              ELSE IF "ok" = "ok" THEN "live" ELSE objs[p].lib
                         ELSE objs[p].lib
    BY <1>0, <2>1, <2>2, <2>3
  <2>5. PICK res \in Results : res = "ok"
    BY <2>1
  <2> QED BY <2>1, <2>3, <2>4, <2>5, RabbitServed
<1>4. CASE HeartbeatFails
  <2>1. thread # "closed" /\ Destroy /\ UNCHANGED <<frames, st, held, ref, jobs, backs, thread>>
    BY <1>4 DEF HeartbeatFails
  <2>2. /\ Well /\ Len(objs') = Len(objs) /\ \A p \in 2 .. Len(objs) : objs'[p].lib = objs[p].lib
    BY <1>d, <2>1
  <2>3. WorkerInv'
    <3>1. Alone' /\ st' \in [Cos -> States] /\ ref' \in [Cos -> Nat] /\ held' \in SUBSET Nat
      BY <2>1 DEF WorkerInv, WorkerTypes, Alone, Crashed
    <3>2. \A o \in held' : Lives(objs', o)
      BY <2>1, <2>2, StillAlive DEF WorkerInv, RefInv
    <3>3. Queues(jobs', backs') /\ AllJobs' = AllJobs
      BY <2>1 DEF WorkerInv, CallInv, AllJobs
    <3>4. \A j \in AllJobs : Kept(j)' /\ (j.hold # 0 => Lives(objs', j.hold))
      <4> SUFFICES ASSUME NEW j \in AllJobs PROVE Kept(j)' /\ (j.hold # 0 => Lives(objs', j.hold))
        OBVIOUS
      <4>1. j \in JobRec /\ Like(j, j)
        BY JobsTyped DEF Like
      <4> QED BY <2>1, <2>2, <4>1, StillKept
    <3>5. thread' = thread /\ thread # "closed" /\ \A d \in Cos : ref'[d] \in {0, ref[d]}
      BY <2>1
    <3>6. \A j \in AllJobs' : Kept(j)' /\ (j.hold # 0 => Lives(objs', j.hold))
      BY <3>3, <3>4
    <3> QED BY <2>2, <3>1, <3>2, <3>3, <3>5, <3>6, Stepped
  <2> QED BY <2>1, <2>2, <2>3, RabbitSame
<1>5. ASSUME NEW op \in {"consume", "consume_for"}, ConsumeWk(op) PROVE WorkerInv' /\ RabbitInv'
  <2>1. /\ jobs # <<>> /\ Head(jobs).op = op /\ UNCHANGED <<frames, st, held, ref, thread>>
        /\ \/ \E res \in {"closed", "timeout", "error"} : Served(res) /\ (UNCHANGED objs \/ Destroy)
           \/ Served("ok") /\ SetLib(Head(jobs).hold, "live")
    BY <1>5 DEF ConsumeWk, Serves
  <2>2. CASE \E res \in {"closed", "timeout", "error"} : Served(res) /\ (UNCHANGED objs \/ Destroy)
    <3>1. PICK res \in Results : Served(res) /\ (UNCHANGED objs \/ Destroy) /\ res # "ok"
      BY <2>2 DEF Results
    <3> QED BY <1>1, <2>1, <3>1
  <2>3. CASE Served("ok") /\ SetLib(Head(jobs).hold, "live")
    <3>1. Consumes(Head(jobs)) /\ Head(jobs).hold \in 1 .. Len(objs)
      BY <1>0, <1>a, <2>1 DEF Consumes
    <3>2. /\ Well /\ Len(objs') = Len(objs)
          /\ \A p \in 1 .. Len(objs) :
               objs'[p].lib = IF p = Head(jobs).hold THEN "live" ELSE objs[p].lib
      BY <1>0, <1>a, <2>1, <2>3, <3>1, LibSet
    <3>3. PICK res \in Results : res = "ok"
      BY DEF Results
    <3>4. \A p \in 2 .. Len(objs) :
            objs'[p].lib = IF Consumes(Head(jobs)) /\ p = Head(jobs).hold
                           THEN IF Head(jobs).op = "destroy_message" THEN "freed"
                                ELSE IF res = "ok" THEN "live" ELSE objs[p].lib
                           ELSE objs[p].lib
      BY <1>0, <2>1, <3>1, <3>2, <3>3
    <3> QED BY <2>1, <2>3, <3>2, <3>3, <3>4, RabbitServed
  <2> QED BY <2>1, <2>2, <2>3
<1>6. ASSUME NEW op \in {"confirm", "reject"}, SettleWk(op) PROVE WorkerInv' /\ RabbitInv'
  <2>1. jobs # <<>> /\ ~Crashed /\ Head(jobs).op = op /\ UNCHANGED <<objs, held, ref, thread>>
    BY <1>6 DEF SettleWk, Serves
  <2>2. CASE Crashes /\ UNCHANGED <<jobs, backs>>
    <3>1. Alone' /\ st' = st
      BY <2>1, <2>2, CrashedNow DEF WorkerInv, Crashes
    <3>2. WorkerTypes' /\ RefInv' /\ CallInv' /\ ThreadInv'
      BY <2>1, <2>2, <3>1 DEF WorkerInv, WorkerTypes, RefInv, CallInv, ThreadInv, AllJobs, Alive, Kept
    <3> QED BY <2>1, <2>2, <3>1, <3>2, RabbitSame DEF WorkerInv
  <2>3. CASE (Served("ok") \/ Served("error")) /\ UNCHANGED <<frames, st>>
    <3>1. PICK res \in Results : Served(res)
      BY <2>3 DEF Results
    <3>2. ~Consumes(Head(jobs))
      BY <2>1 DEF Consumes
    <3> QED BY <1>1, <2>1, <2>3, <3>1, <3>2
  <2> QED BY <1>6, <2>2, <2>3 DEF SettleWk
<1>7. CASE DestroyWk
  <2>1. /\ WorkerInv' /\ UNCHANGED <<jobs, backs>> /\ Len(objs') = Len(objs)
        /\ \A p \in 1 .. Len(objs) : objs'[p].lib = IF p = 1 THEN "freed" ELSE objs[p].lib
    BY <1>7, DestroyWkStep
  <2> QED BY <1>0, <2>1, RabbitSame
<1> QED BY <1>2, <1>3, <1>4, <1>5, <1>6, <1>7 DEF RabbitWk

LEMMA RabbitMainStep ==
  ASSUME WorkerInv, RabbitInv, RabbitMain
  PROVE  WorkerInv' /\ RabbitInv'
<1>0. Len(objs) \in Nat /\ Len(objs) >= 1 /\ WorkerTypes
  BY DEF WorkerInv, WorkerTypes
<1>1. ASSUME NEW c \in Cos, NEW op \in {"produce", "flush", "confirm", "reject"}, NEW hold \in Nat,
             hold # 0 => Alive(hold), Ask(c, op, 1, hold)
      PROVE  WorkerInv' /\ RabbitInv'
  <2>1. /\ Asks(c, op, 1, hold) /\ 1 \in held /\ thread = "open" /\ UNCHANGED <<objs, held, backs, thread>>
    BY <1>1 DEF Ask, Asks, Call
  <2>2. /\ Well /\ Alive(1) /\ op \in Ops /\ 1 \in Nat /\ thread # "closed"
        /\ (hold # 0 => Lives(objs', hold))
    BY <1>0, <1>1, <2>1, SameObjects DEF WorkerInv, RefInv, Ops, Alive
  <2>3. /\ WorkerInv'
        /\ \E j \in JobRec :
             /\ j.op = op /\ j.c = c /\ j.o = 1 /\ j.hold = hold /\ j.res = "none"
             /\ Range(jobs') = Range(jobs) \cup {j} /\ Range(backs') = Range(backs)
        /\ \A i \in AllJobs : i.c # c
    BY <2>1, <2>2, AskedStep
  <2>4. PICK j \in JobRec :
          /\ j.op = op /\ j.c = c /\ j.o = 1
          /\ Range(jobs') = Range(jobs) \cup {j} /\ Range(backs') = Range(backs)
    BY <2>3
  <2>5. c # 0
    BY ScriptAssumption
  <2>6. RabbitJob(j) /\ ~Consumes(j) /\ j.op # "destroy_message"
    BY <2>4, <2>5 DEF RabbitJob, Consumes
  <2> QED BY <2>1, <2>3, <2>4, <2>5, <2>6, RabbitAsked
<1>2. ASSUME NEW c \in Cos, NEW op \in {"consume", "consume_for"}, Consume(c, op)
      PROVE  WorkerInv' /\ RabbitInv'
  <2>1. /\ Asks(c, op, 1, Len(objs) + 1) /\ 1 \in held
        /\ objs' = Append(objs, Object("message", 0, "none"))
    BY <1>2 DEF Consume, Asks, Call
  <2>2. /\ Well /\ Len(objs') = Len(objs) + 1
        /\ \A p \in 1 .. Len(objs) : objs'[p] = objs[p]
        /\ objs'[Len(objs) + 1].lib = "none" /\ ~objs'[Len(objs) + 1].gone
    <3>1. "message" \in Kinds /\ "none" \in Libs /\ 0 \in Nat
      BY DEF Kinds, Libs
    <3> QED BY <1>0, <2>1, <3>1, ObjectMade
  <2>3. PICK hold \in Nat : hold = Len(objs) + 1
    BY <1>0
  <2>4. Lives(objs', hold)
    BY <1>0, <2>2, <2>3 DEF Lives
  <2>5. Alive(1) /\ thread # "closed" /\ op \in Ops /\ 1 \in Nat
    BY <2>1 DEF WorkerInv, RefInv, ThreadInv, Alive, Lives, Ops
  <2>6. Asks(c, op, 1, hold) /\ (hold # 0 => Lives(objs', hold)) /\ Well
    BY <2>1, <2>2, <2>3, <2>4
  <2>7. /\ WorkerInv'
        /\ \E j \in JobRec :
             /\ j.op = op /\ j.c = c /\ j.o = 1 /\ j.hold = hold /\ j.res = "none"
             /\ Range(jobs') = Range(jobs) \cup {j} /\ Range(backs') = Range(backs)
        /\ \A i \in AllJobs : i.c # c
    BY <2>5, <2>6, AskedStep
  <2>8. PICK j \in JobRec :
          /\ j.op = op /\ j.c = c /\ j.o = 1 /\ j.hold = hold
          /\ Range(jobs') = Range(jobs) \cup {j} /\ Range(backs') = Range(backs)
    BY <2>7
  <2>9. c # 0
    BY ScriptAssumption
  <2>10. RabbitJob(j) /\ Consumes(j) /\ j.op # "destroy_message" /\ j.c # 0 /\ j.o = 1
         /\ j.hold = Len(objs) + 1 /\ \A i \in AllJobs : i.c # j.c
    BY <2>3, <2>7, <2>8, <2>9 DEF RabbitJob, Consumes
  <2>11. RabbitInv'
    BY <2>2, <2>8, <2>10, RabbitAsked
  <2> QED BY <2>7, <2>11
<1>3. ASSUME NEW c \in Cos, NEW m \in held, NEW op \in {"confirm", "reject"}, Settle(c, op, m)
      PROVE  WorkerInv' /\ RabbitInv'
  <2>1. Alive(m) /\ m \in Nat /\ Ask(c, op, 1, m)
    BY <1>3 DEF WorkerInv, WorkerTypes, RefInv, Settle
  <2> QED BY <1>1, <2>1
<1>4. ASSUME NEW op \in {"consume", "consume_for"}, ConsumeCb(op) PROVE WorkerInv' /\ RabbitInv'
  <2>1. Loop /\ backs # <<>> /\ Head(backs).op = op
    BY <1>4 DEF ConsumeCb, Completes
  <2>2. CASE /\ Completes(op, "ok") /\ Requeue("destroy_message")
             /\ objs' = [objs EXCEPT ![Head(backs).hold].of = 1] /\ UNCHANGED held
    <3>1. Head(backs).res = "ok" /\ Head(backs).op \in {"consume", "consume_for"}
      BY <2>1, <2>2 DEF Completes
    <3> QED BY <2>1, <2>2, <3>1, RabbitRequeued
  <2>3. ASSUME NEW res, res # "ok", Completes(op, res), (Returns1(0) /\ UNCHANGED objs) \/ Fails
        PROVE  WorkerInv' /\ RabbitInv'
    <3>1. Head(backs).res # "ok" /\ Head(backs) \notin Range(jobs)
      BY <2>1, <2>3, Heads DEF Completes
    <3>2. ~Filled(Head(backs))
      BY <3>1 DEF Filled
    <3> QED BY <2>1, <2>3, <3>2, RabbitTaken
  <2> QED BY <1>4, <2>2, <2>3 DEF ConsumeCb
<1>5. ASSUME NEW op \in {"produce", "flush", "confirm", "reject"}, ErrorCb(op) PROVE WorkerInv' /\ RabbitInv'
  <2>1. Loop /\ backs # <<>> /\ Head(backs).op = op /\ ((Returns1(0) /\ UNCHANGED objs) \/ Fails)
    BY <1>5 DEF ErrorCb, Completes
  <2>2. ~Consumes(Head(backs))
    BY <2>1 DEF Consumes
  <2> QED BY <2>1, <2>2, RabbitTaken
<1>6. CASE DestroyMessageCb
  <2>1. /\ Loop /\ backs # <<>> /\ Head(backs).op = "destroy_message"
        /\ Returns1(Head(backs).hold) /\ UNCHANGED objs
    BY <1>6 DEF DestroyMessageCb, Completes
  <2>2. Head(backs) \in AllJobs /\ Head(backs) \notin Range(jobs) /\ Head(backs).hold \in Nat
    BY <2>1, Heads DEF JobRec
  <2>3. ~Filled(Head(backs))
    BY <2>1, <2>2 DEF Filled
  <2>4. Head(backs).hold = 0 \/ Alive(Head(backs).hold)
    BY <2>2 DEF WorkerInv, RefInv
  <2> QED BY <2>1, <2>2, <2>3, <2>4, RabbitTaken
<1>7. CASE WorkerStep
  <2>1. WorkerInv' /\ UNCHANGED <<objs, jobs, backs, thread>>
    BY <1>7, IdleStep
  <2> QED BY <2>1, RabbitSame
<1>8. CASE \E c \in Cos : ProducerAsk(c)
  <2>1. PICK c \in Cos, op \in {"produce", "flush", "confirm", "reject"} : Ask(c, op, 1, 0)
    BY <1>8 DEF ProducerAsk
  <2> QED BY <1>1, <2>1
<1> QED BY <1>2, <1>3, <1>4, <1>5, <1>6, <1>7, <1>8 DEF RabbitMain

LEMMA RabbitStep ==
  ASSUME WorkerInv, RabbitInv, RabbitNext
  PROVE  WorkerInv' /\ RabbitInv'
<1>0. Len(objs) \in Nat /\ Len(objs) >= 1 /\ DOMAIN objs = 1 .. Len(objs)
      /\ \A p \in 2 .. Len(objs) : p \in 1 .. Len(objs)
  BY DEF WorkerInv, WorkerTypes
<1>1. ASSUME NEW o \in Unheld, objs' = [objs EXCEPT ![o].gone = TRUE],
             UNCHANGED <<frames, st, held, ref, jobs, backs>>
      PROVE  RabbitInv'
  <2>1. /\ Len(objs') = Len(objs)
        /\ \A p \in 1 .. Len(objs) : objs'[p].lib = objs[p].lib
    BY <1>1, ObjectEnds
  <2> QED BY <1>0, <1>1, <2>1, RabbitSame
<1>2. ASSUME NEW o \in DOMAIN objs, MessageGone(o) PROVE WorkerInv' /\ RabbitInv'
  <2>1. /\ o \in Unheld /\ objs[o].k = "message" /\ objs' = [objs EXCEPT ![o].gone = TRUE]
        /\ UNCHANGED <<frames, st, held, ref, jobs, backs>>
    BY <1>2 DEF MessageGone
  <2>2. o \in 2 .. Len(objs)
    BY <1>0, <2>1 DEF WorkerInv, WorkerTypes
  <2> QED BY <1>1, <1>2, <2>1, <2>2, MessageGoneStep
<1>3. CASE CloseWork
  <2>1. WorkerInv' /\ 1 \in Unheld
    BY <1>3, CloseWorkStep
  <2>2. /\ objs' = [objs EXCEPT ![1].gone = TRUE] /\ UNCHANGED <<frames, st, held, ref, jobs, backs>>
    BY <1>3 DEF CloseWork
  <2> QED BY <1>1, <2>1, <2>2
<1> QED BY <1>2, <1>3, RabbitWkStep, RabbitMainStep DEF RabbitNext

-----------------------------------------------------------------------------
(* The ticker.                                                             *)

LEMMA TickerStep ==
  ASSUME TickInv, TickNext
  PROVE  TickInv'
<1>1. CASE TickerGone
  BY <1>1 DEF TickerGone, TickSettled, KeepsTicker, TickInv
<1>2. CASE TickCb
  <2>1. PICK c \in Cos \ ticking : ticking' = ticking \union {c}
    BY <1>2 DEF TickCb
  <2>2. /\ tm_ = "on" /\ tm_' = (IF repeat THEN "on" ELSE "off")
        /\ UNCHANGED <<tick, repeat, self_, meddled>>
    BY <1>2 DEF TickCb
  <2>3. tick \notin {"none", "gone"} /\ (~meddled => self_)
    BY <2>2 DEF TickInv
  <2>4. ~meddled /\ ~repeat => ticking = {} /\ tm_' = "off"
    BY <2>2 DEF TickInv
  <2>5. ~meddled' /\ ~repeat' => \A d, e \in ticking' : d = e
    BY <2>1, <2>2, <2>4
  <2> QED BY <2>1, <2>2, <2>3, <2>4, <2>5 DEF TickInv
<1>3. ASSUME NEW c \in Cos, NewTicker(c) PROVE TickInv'
  BY <1>3 DEF NewTicker, TickInv
<1>4. ASSUME NEW c \in Cos, Start(c) PROVE TickInv'
  BY <1>4 DEF Start, CanTell, TickInv
<1>5. ASSUME NEW c \in Cos, Stop(c) PROVE TickInv'
  BY <1>5 DEF Stop, CanTell, TickInv
<1>6. ASSUME NEW c \in Cos, LetGo(c) PROVE TickInv'
  BY <1>6 DEF LetGo, TickInv
<1>7. ASSUME NEW c \in Cos, AfterCb(c) PROVE TickInv'
  <2>1. /\ c \in ticking /\ ticking' = ticking \ {c}
        /\ tick = "gone" \/ self_' = (self_ /\ repeat)
        /\ UNCHANGED <<tick, repeat, tm_, meddled>>
    BY <1>7 DEF AfterCb
  <2>2. CASE meddled
    BY <2>1, <2>2 DEF TickInv
  <2>3. CASE ~meddled
    <3>1. tick # "gone" /\ self_
      BY <2>1, <2>3 DEF TickInv
    <3>2. CASE repeat
      BY <2>1, <2>3, <3>1, <3>2 DEF TickInv
    <3>3. CASE ~repeat
      <4>1. ticking' = {} /\ tm_' = "off"
        BY <2>1, <2>3, <3>3 DEF TickInv
      <4> QED BY <2>1, <2>3, <3>1, <3>3, <4>1 DEF TickInv
    <3> QED BY <3>2, <3>3
  <2> QED BY <2>2, <2>3
<1>8. CASE UNCHANGED tickVars
  BY <1>8 DEF tickVars, TickInv
<1> QED BY <1>1, <1>2, <1>3, <1>4, <1>5, <1>6, <1>7, <1>8 DEF TickNext

-----------------------------------------------------------------------------
(* All clients.                                                            *)

LEMMA WorkerStarts ==
  ASSUME NEW kind \in {"consumer", "producer", "client"}, NEW h \in {"live", "none"},
         ScriptInit, WorkerInit(kind, h)
  PROVE  /\ WorkerInv /\ jobs = <<>> /\ AllJobs = {}
         /\ Len(objs) = 1 /\ objs[1].k = kind /\ objs[1].lib = h /\ thread = "open"
<1>1. /\ objs = <<[k |-> kind, of |-> 0, lib |-> h, gone |-> FALSE]>> /\ held = {1}
      /\ ref = [c \in Cos |-> 0] /\ jobs = <<>> /\ backs = <<>> /\ thread = "open"
      /\ frames = <<>> /\ st = [c \in Cos |-> "ready"]
  BY DEF WorkerInit, Object, ScriptInit
<1>2. PICK x : x = [k |-> kind, of |-> 0, lib |-> h, gone |-> FALSE]
  OBVIOUS
<1>3. x \in ObjRec /\ x.k = kind /\ x.of = 0 /\ x.lib = h /\ ~x.gone
  BY <1>2 DEF ObjRec, Kinds, Libs
<1>4. objs = <<x>> /\ Len(objs) = 1 /\ objs[1] = x /\ objs \in Seq(ObjRec)
  BY <1>1, <1>2, <1>3
<1>5. Range(jobs) = {} /\ Range(backs) = {} /\ AllJobs = {}
  BY <1>1 DEF Range, AllJobs
<1>6. WorkerTypes
  BY <1>1, <1>3, <1>4 DEF WorkerTypes, States
<1>7. Alone
  BY <1>1 DEF Alone
<1>8. Alive(1) /\ \A p \in 1 .. Len(objs) : p = 1
  BY <1>3, <1>4 DEF Alive, Lives
<1>9. RefInv
  BY <1>1, <1>3, <1>4, <1>5, <1>8 DEF RefInv
<1>10. CallInv
  <2>1. jobs \in Seq(JobRec) /\ backs \in Seq(JobRec) /\ Len(jobs) = 0 /\ Len(backs) = 0
    BY <1>1
  <2>2. \A i : i \notin 1 .. 0
    OBVIOUS
  <2> QED BY <1>5, <2>1, <2>2 DEF CallInv, Queues
<1>11. ThreadInv
  BY <1>1, <1>3, <1>4 DEF ThreadInv
<1> QED BY <1>1, <1>3, <1>4, <1>5, <1>6, <1>7, <1>9, <1>10, <1>11 DEF WorkerInv

LEMMA InitInv == Init => Inv
<1> SUFFICES ASSUME Init PROVE Inv
  OBVIOUS
<1>1. TickInv /\ tick = "none"
  BY DEF Init, TickInit, TickInv
<1>2. \A i : i \notin 2 .. 1
  OBVIOUS
<1>3. CASE used = "rabbitmq"
  <2>1. PICK kind \in {"consumer", "producer"} : WorkerInit(kind, "live")
    BY <1>3 DEF Init, RabbitInit
  <2>2. WorkerInv /\ AllJobs = {} /\ Len(objs) = 1
    BY <2>1, WorkerStarts DEF Init
  <2>3. RabbitInv
    BY <1>2, <2>2 DEF RabbitInv
  <2> QED BY <1>1, <1>3, <2>2, <2>3 DEF Inv, Worked, Init
<1>4. CASE used = "kafka"
  <2>1. PICK kind \in {"consumer", "producer"} : WorkerInit(kind, "live")
    BY <1>4 DEF Init, KafkaInit
  <2>2. WorkerInv /\ AllJobs = {} /\ Len(objs) = 1 /\ objs[1].lib = "live"
    BY <2>1, WorkerStarts DEF Init
  <2>3. Range(jobs) = {}
    BY <2>2 DEF AllJobs
  <2>4. KafkaInv
    BY <1>2, <2>2, <2>3 DEF KafkaInv, HandleInv
  <2> QED BY <1>1, <1>4, <2>2, <2>4 DEF Inv, Worked, Init
<1>5. CASE used = "mongodb"
  <2>1. WorkerInit("client", "none")
    BY <1>5 DEF Init, MongoInit
  <2>2. PICK kind, h : kind = "client" /\ h = "none"
    OBVIOUS
  <2>3. WorkerInv /\ AllJobs = {} /\ Len(objs) = 1 /\ objs[1].lib = "none" /\ objs[1].k = "client"
    <3>1. WorkerInit(kind, h) /\ kind \in {"consumer", "producer", "client"} /\ h \in {"live", "none"}
      BY <2>1, <2>2
    <3> QED BY <2>2, <3>1, WorkerStarts DEF Init
  <2>4. Range(jobs) = {} /\ Range(backs) = {}
    BY <2>3 DEF AllJobs
  <2>5. HandleInv
    BY <1>2, <2>3, <2>4 DEF HandleInv
  <2>6. ~InUse
    <3>1. DOMAIN objs = {1}
      <4>1. DOMAIN objs = 1 .. Len(objs)
        BY <2>3 DEF WorkerInv, WorkerTypes
      <4> QED BY <2>3, <4>1
    <3> QED BY <2>4, <3>1 DEF InUse
  <2>7. \A o \in 1 .. Len(objs) : objs[o].k # "collection"
    <3>1. \A o \in 1 .. Len(objs) : o = 1
      BY <2>3
    <3> QED BY <2>3, <3>1
  <2>8. MongoInv
    BY <2>3, <2>5, <2>6, <2>7 DEF MongoInv
  <2> QED BY <1>1, <1>5, <2>3, <2>8 DEF Inv, Worked, Init
<1>6. CASE used \in {"redis", "http", "ticker", "logger"}
  <2>1. WorkerInit("none", "none") /\ stale = FALSE
    BY <1>6 DEF Init
  <2> QED BY <1>1, <1>6, <2>1 DEF Inv, Worked, WorkerInit
<1> QED BY <1>3, <1>4, <1>5, <1>6 DEF Init

(* What the steps of the others leave alone.                               *)
LEMMA Untouched ==
  ASSUME UNCHANGED <<frames, st>>, UNCHANGED workerVars, stale' = stale
  PROVE  /\ WorkerInv => WorkerInv'
         /\ KafkaInv => KafkaInv'
         /\ MongoInv => MongoInv'
         /\ RabbitInv => RabbitInv'
<1>1. UNCHANGED <<objs, held, ref, jobs, backs, thread>>
  BY DEF workerVars
<1>2. /\ AllJobs' = AllJobs /\ \A o : Lives(objs', o) = Lives(objs, o)
      /\ (\A o : Alive(o)' <=> Alive(o)) /\ (InUse' <=> InUse)
      /\ (\A j : Kept(j)' <=> Kept(j)) /\ (\A j : Filled(j)' <=> Filled(j))
      /\ (\A j : KafkaJob(j)' <=> KafkaJob(j)) /\ (\A j : MongoJob(j)' <=> MongoJob(j))
  BY <1>1 DEF AllJobs, Alive, Lives, InUse, Kept, Filled, KafkaJob, MongoJob
<1>3. WorkerInv => WorkerInv'
  BY <1>1, <1>2 DEF WorkerInv, WorkerTypes, Alone, Crashed, RefInv, CallInv, ThreadInv
<1>4. HandleInv => HandleInv'
  BY <1>1, <1>2 DEF HandleInv
<1>5. KafkaInv => KafkaInv'
  BY <1>1, <1>2, <1>4 DEF KafkaInv
<1>6. MongoInv => MongoInv'
  BY <1>1, <1>2, <1>4 DEF MongoInv
<1>7. RabbitInv => RabbitInv'
  BY <1>1, <1>2 DEF RabbitInv, RabbitJob
<1> QED BY <1>3, <1>5, <1>6, <1>7

LEMMA StepInv == Inv /\ [Next]_vars => Inv'
<1> SUFFICES ASSUME Inv, [Next]_vars PROVE Inv'
  OBVIOUS
<1>t. ASSUME UNCHANGED tickVars PROVE TickInv' /\ tick' = tick
  BY <1>t DEF Inv, tickVars, TickInv
<1>1. CASE used = "ticker" /\ used' = used /\ TickNext /\ UNCHANGED dbVars
  <2>1. TickInv'
    BY <1>1, TickerStep DEF Inv
  <2> QED BY <1>1, <2>1 DEF Inv, Worked, dbVars
<1>2. CASE used = "logger" /\ used' = used /\ UNCHANGED tickVars /\ UNCHANGED dbVars
  BY <1>2, <1>t DEF Inv, Worked, dbVars
<1>3. CASE used = "rabbitmq" /\ used' = used /\ RabbitNext /\ UNCHANGED loopVars /\ UNCHANGED mongoVars
  <2>1. WorkerInv' /\ RabbitInv'
    BY <1>3, RabbitStep DEF Inv, Worked
  <2>2. UNCHANGED tickVars /\ stale' = stale
    BY <1>3 DEF loopVars, tickVars, mongoVars
  <2> QED BY <1>3, <1>t, <2>1, <2>2 DEF Inv, Worked
<1>4. CASE used = "kafka" /\ used' = used /\ KafkaNext /\ UNCHANGED loopVars /\ UNCHANGED mongoVars
  <2>1. WorkerInv' /\ KafkaInv'
    BY <1>4, KafkaStep DEF Inv, Worked
  <2>2. UNCHANGED tickVars /\ stale' = stale
    BY <1>4 DEF loopVars, tickVars, mongoVars
  <2> QED BY <1>4, <1>t, <2>1, <2>2 DEF Inv, Worked
<1>5. CASE used = "mongodb" /\ used' = used /\ MongoNext /\ UNCHANGED loopVars
  <2>1. WorkerInv' /\ MongoInv'
    BY <1>5, MongoStep DEF Inv, Worked
  <2>2. UNCHANGED tickVars
    BY <1>5 DEF loopVars, tickVars
  <2> QED BY <1>5, <1>t, <2>1, <2>2 DEF Inv, Worked
<1>6. CASE used \in {"redis", "http"} /\ used' = used /\ (UNCHANGED tickVars \/ UNCHANGED loopVars)
           /\ UNCHANGED workerVars /\ UNCHANGED mongoVars
  <2>1. UNCHANGED tickVars /\ UNCHANGED <<objs, jobs, thread, stale>>
    BY <1>6 DEF loopVars, tickVars, workerVars, mongoVars
  <2> QED BY <1>6, <1>t, <2>1 DEF Inv, Worked
<1>7. CASE UNCHANGED vars
  <2>1. /\ UNCHANGED <<frames, st, used, stale>> /\ UNCHANGED workerVars /\ UNCHANGED tickVars
        /\ UNCHANGED <<objs, jobs, thread>>
    BY <1>7 DEF vars, workerVars, tickVars
  <2>2. TickInv' /\ tick' = tick
    BY <1>t, <2>1
  <2>3. /\ WorkerInv => WorkerInv'
        /\ KafkaInv => KafkaInv'
        /\ MongoInv => MongoInv'
        /\ RabbitInv => RabbitInv'
    BY <2>1, Untouched
  <2>4. CASE Worked
    <3>1. Worked' /\ WorkerInv'
      BY <2>1, <2>3, <2>4 DEF Inv, Worked
    <3>2. /\ used' \in {"rabbitmq", "kafka", "mongodb", "redis", "http", "ticker", "logger"}
          /\ used' # "ticker" => tick' = "none"
          /\ used' # "mongodb" => stale' = FALSE
      BY <2>1, <2>2 DEF Inv
    <3>3. /\ used' = "kafka" => KafkaInv'
          /\ used' = "mongodb" => MongoInv'
          /\ used' = "rabbitmq" => RabbitInv'
      <4>1. used' = used
        BY <2>1
      <4>2. ASSUME used = "kafka" PROVE KafkaInv'
        BY <2>3, <4>2 DEF Inv
      <4>3. ASSUME used = "mongodb" PROVE MongoInv'
        BY <2>3, <4>3 DEF Inv
      <4>4. ASSUME used = "rabbitmq" PROVE RabbitInv'
        BY <2>3, <4>4 DEF Inv
      <4> QED BY <4>1, <4>2, <4>3, <4>4
    <3> QED BY <2>2, <3>1, <3>2, <3>3 DEF Inv
  <2>5. CASE ~Worked
    BY <2>1, <2>2, <2>5 DEF Inv, Worked
  <2> QED BY <2>4, <2>5
<1> QED BY <1>1, <1>2, <1>3, <1>4, <1>5, <1>6, <1>7 DEF Next

(* The conjuncts of UsedWhileAlive, for the clients with a thread.         *)
JobsFind ==
  \A j \in Range(jobs) :
    /\ j.o # 1 \/ j.op = "commit" => objs[IF j.o = 1 THEN j.hold ELSE j.o].lib = "live"
    /\ j.op = "destroy_message" /\ j.o = 1 => objs[j.hold].lib = "live"
ClientLast == \A o \in DOMAIN objs : objs[o].lib = "live" => Client.lib = "live"
NoneLeft   == thread = "closed" => \A o \in DOMAIN objs : objs[o].lib # "live"

LEMMA HandlesFreed ==
  ASSUME WorkerInv, HandleInv, thread = "closed"
  PROVE  NoneLeft
<1>1. /\ DOMAIN objs = 1 .. Len(objs) /\ Len(objs) \in Nat
      /\ objs[1].lib = "freed" /\ thread # "open"
  BY DEF WorkerInv, WorkerTypes, ThreadInv
<1>r. Range(jobs) = {}
  BY DEF WorkerInv, ThreadInv, Range
<1>2. \A o : ~Alive(o)
  BY <1>1, ClientLives
<1>3. \A o \in 2 .. Len(objs) : objs[o].lib # "live"
  BY <1>r, <1>2 DEF HandleInv
<1>4. \A o \in 1 .. Len(objs) : o = 1 \/ o \in 2 .. Len(objs)
  BY <1>1
<1> QED BY <1>1, <1>3, <1>4 DEF NoneLeft

LEMMA KafkaUsed ==
  ASSUME WorkerInv, KafkaInv
  PROVE  JobsFind /\ ClientLast /\ NoneLeft
<1>1. NoneLeft
  BY HandlesFreed DEF KafkaInv, NoneLeft
<1>2. ClientLast
  BY <1>1 DEF KafkaInv, ClientLast, NoneLeft, Client
<1>3. ASSUME NEW j \in Range(jobs)
      PROVE  /\ j.o # 1 \/ j.op = "commit" => objs[IF j.o = 1 THEN j.hold ELSE j.o].lib = "live"
             /\ ~(j.op = "destroy_message" /\ j.o = 1)
  <2>1. j \in AllJobs /\ KafkaJob(j)
    BY DEF AllJobs, KafkaInv
  <2>2. CASE j.c = 0
    <3>1. objs[j.o].lib = "live" /\ j.op = "destroy_message"
      BY <2>1, <2>2 DEF KafkaInv, HandleInv, KafkaJob
    <3>2. j.o # 1
      <4>1. Kept(j) /\ Len(objs) \in Nat
        BY <2>1 DEF WorkerInv, WorkerTypes, CallInv
      <4> QED BY <2>2, <4>1 DEF Kept
    <3> QED BY <3>1, <3>2
  <2>3. CASE j.c # 0
    <3>1. j.o = 1 /\ j.op # "destroy_message" /\ (j.op = "commit" => j.hold \in 2 .. Len(objs))
      BY <2>1, <2>3 DEF KafkaJob
    <3>2. ASSUME j.op = "commit" PROVE objs[j.hold].lib = "live"
      <4>1. j.hold \in 2 .. Len(objs) /\ j.hold # 0
        <5>1. Len(objs) \in Nat
          BY DEF WorkerInv, WorkerTypes
        <5> QED BY <3>1, <3>2, <5>1
      <4>2. Alive(j.hold)
        BY <2>1, <4>1 DEF WorkerInv, RefInv
      <4> QED BY <4>1, <4>2 DEF KafkaInv, HandleInv
    <3> QED BY <3>1, <3>2
  <2> QED BY <2>2, <2>3
<1> QED BY <1>1, <1>2, <1>3 DEF JobsFind

LEMMA MongoUsed ==
  ASSUME WorkerInv, MongoInv, ~stale
  PROVE  JobsFind /\ ClientLast /\ NoneLeft
<1>0. DOMAIN objs = 1 .. Len(objs)
  BY DEF WorkerInv, WorkerTypes
<1>1. NoneLeft
  BY HandlesFreed DEF MongoInv, NoneLeft
<1>2. ClientLast
  <2>1. ASSUME NEW o \in DOMAIN objs, objs[o].lib = "live" PROVE objs[1].lib = "live"
    <3>1. CASE o = 1
      BY <2>1, <3>1
    <3>2. CASE o # 1
      <4>1. InUse
        BY <2>1, <3>2 DEF InUse
      <4> QED BY <4>1 DEF MongoInv
    <3> QED BY <3>1, <3>2
  <2> QED BY <2>1 DEF ClientLast, Client
<1>3. ASSUME NEW j \in Range(jobs)
      PROVE  /\ j.o # 1 => objs[j.o].lib = "live"
             /\ j.op \notin {"commit", "destroy_message"}
  <2>1. j \in AllJobs /\ MongoJob(j)
    BY DEF AllJobs, MongoInv
  <2>2. CASE j.c = 0
    BY <2>1, <2>2 DEF MongoInv, HandleInv, MongoJob
  <2>3. CASE j.c # 0
    BY <2>1, <2>3, MongoUses DEF MongoJob
  <2> QED BY <2>2, <2>3
<1> QED BY <1>1, <1>2, <1>3 DEF JobsFind

LEMMA RabbitUsed ==
  ASSUME WorkerInv, RabbitInv
  PROVE  JobsFind /\ NoneLeft
<1>1. DOMAIN objs = 1 .. Len(objs) /\ Len(objs) \in Nat
  BY DEF WorkerInv, WorkerTypes
<1>2. ASSUME NEW j \in Range(jobs)
      PROVE  /\ j.o = 1 /\ j.op # "commit"
             /\ j.op = "destroy_message" => objs[j.hold].lib = "live"
  <2>1. j \in AllJobs /\ RabbitJob(j)
    BY DEF AllJobs, RabbitInv
  <2>2. j.op = "destroy_message" => Consumes(j) /\ Filled(j)
    BY DEF Consumes, Filled
  <2>3. j.op = "destroy_message" => objs[j.hold].lib = "live"
    BY <2>1, <2>2 DEF RabbitInv
  <2> QED BY <2>1, <2>3 DEF RabbitJob
<1>3. ASSUME thread = "closed" PROVE \A o \in DOMAIN objs : objs[o].lib # "live"
  <2>1. AllJobs = {}
    BY <1>3, RabbitUses
  <2>2. objs[1].lib = "freed"
    BY <1>3 DEF WorkerInv, ThreadInv
  <2>3. \A o \in 2 .. Len(objs) : objs[o].lib # "live"
    BY <2>1 DEF RabbitInv
  <2>4. \A o \in 1 .. Len(objs) : o = 1 \/ o \in 2 .. Len(objs)
    BY <1>1
  <2> QED BY <1>1, <2>2, <2>3, <2>4
<1> QED BY <1>2, <1>3 DEF JobsFind, NoneLeft

LEMMA InvUsed == Inv => UsedWhileAlive
<1> SUFFICES ASSUME Inv, ~stale PROVE UsedWhileAlive
  BY DEF UsedWhileAlive
<1>1. tick = "gone" /\ ~meddled => ticking = {}
  BY DEF Inv, TickInv
<1>2. JobsFind /\ NoneLeft /\ (used # "rabbitmq" => ClientLast)
  <2>1. CASE used = "rabbitmq"
    BY <2>1, RabbitUsed DEF Inv, Worked
  <2>2. CASE used = "kafka"
    BY <2>2, KafkaUsed DEF Inv, Worked
  <2>3. CASE used = "mongodb"
    BY <2>3, MongoUsed DEF Inv, Worked
  <2>4. CASE ~Worked
    <3>1. objs = <<Object("none", 0, "none")>> /\ jobs = <<>> /\ thread = "open"
      BY <2>4 DEF Inv
    <3>2. Range(jobs) = {}
      BY <3>1 DEF Range
    <3>3. DOMAIN objs = {1} /\ objs[1].lib = "none"
      BY <3>1 DEF Object
    <3> QED BY <3>1, <3>2, <3>3 DEF JobsFind, NoneLeft, ClientLast
  <2> QED BY <2>1, <2>2, <2>3, <2>4 DEF Worked
<1> QED BY <1>1, <1>2 DEF UsedWhileAlive, JobsFind, NoneLeft, ClientLast

(* Inv holds in every state, for any coroutines and any bounds: what is    *)
(* gone is referred to by nothing but the job that ends its handle, every  *)
(* job has a coroutine that waits and keeps its object alive, and ref_     *)
(* keeps a ticker that ticks (coroutine.cpp ref_, consumer.cpp, kafka      *)
(* message.cpp, collection.cpp, ticker.cpp).                               *)
THEOREM InvHolds == Spec => []Inv
BY InitInv, StepInv, PTL DEF Spec

(* Handles of the libraries are used by the threads while they live, none  *)
(* outlives its client's or the thread, and the ticker is there when its   *)
(* after_cb reads it, but for a MongoDB client connected again and a       *)
(* ticker stopped or started during a tick (collection.cpp line 21, kafka  *)
(* message.cpp line 29, rabbitmq consumer.cpp line 76, ticker.cpp line 32).*)
THEOREM HandlesUsedWhileAlive == Spec => []UsedWhileAlive
BY InvHolds, InvUsed, PTL

-----------------------------------------------------------------------------
(* Who waits, and who points to whom.  Of a client on the loop of the main *)
(* thread the whole object matters: the coroutines that run are on the     *)
(* stack once, the others wait for what points to them, and no place       *)
(* points to whom another one does.                                        *)

Things == [k : {"co", "crash", "timeout", "drop", "info"}, c : Nat]
Waitings == {"ready", "run", "ended", "redis", "subscribed", "http", "log"}

OnStack(f, s) ==
  /\ f \in Seq(Things) /\ s \in [Cos -> Waitings]
  /\ \A c \in Cos : \A i, n \in 1 .. Len(f) : f[i] = Frame(c) /\ f[n] = Frame(c) => i = n
  /\ \A c \in Cos : Frame(c) \in Range(f) => s[c] = "run"

(* Redis: the queues of the connections hold a request of a coroutine once.*)
CxStates == {"connecting", "up", "closing", "freeing", "freed", "failed"}
CxRequests == [k : {"default", "quit"}, c : Cos]
CxQueues == Seq(CxRequests)
CxRecords == [s : CxStates, q : CxQueues]
Connections(cxs) ==
  /\ cxs \in Seq(CxRecords)
  /\ \A i, m \in 1 .. Len(cxs) : \A j \in 1 .. Len(cxs[i].q), n \in 1 .. Len(cxs[m].q) :
       cxs[i].q[j].c = cxs[m].q[n].c => i = m /\ j = n
Asking(cxs) ==
  {c \in Cos : \E i \in 1 .. Len(cxs) : \E j \in 1 .. Len(cxs[i].q) : cxs[i].q[j].c = c}

(* At most one connection is made or up; when the object has been closed   *)
(* commands go to none.                                                    *)
ContextInv ==
  /\ context_ \in 0 .. Len(cx)
  /\ \A i, m \in 1 .. Len(cx) :
       cx[i].s \in {"connecting", "up"} /\ cx[m].s \in {"connecting", "up"} => i = m
  /\ \A i \in 1 .. Len(cx) :
       /\ cx[i].s = "closing" => timer = "gone"
       /\ cx[i].q # <<>> => cx[i].s \in {"up", "closing", "freeing"}
  /\ timer = "gone" => context_ = 0
  /\ \A x \in Range(frames) : x.k = "drop" =>
       x.c \in 1 .. Len(cx) /\ cx[x.c].s \in {"freeing", "freed"}

Making     == \E i \in 1 .. Len(cx) : cx[i].s = "connecting"
Connects   == connect_ # 0 /\ ~InTimeout
Subscribed == current_.k \in {"channels", "pattern"}
Connecting == IF Connects THEN {connect_} ELSE {}
Subscriber == IF Subscribed THEN {current_.c} ELSE {}

(* Who connects waits for the connection that is made, and so does the     *)
(* timer; but when it began during a timeout it will be forgotten.         *)
ConnectInv ==
  /\ connect_ \in Cos \cup {0}
  /\ Connects => /\ timer = "gone" \/ Making
                 /\ Making => connect_ \notin rlost
                 /\ timer = "timeout" => Is(context_, {"connecting"})
  /\ InTimeout => /\ \A i \in 1 .. Len(cx) : cx[i].s # "up"
                  /\ Making /\ connect_ # 0 => connect_ \in rlost

Subscriptions ==
  [k : {"none", "channels", "pattern", "deleted", "unheard"}, c : Cos \cup {0}, left : Nat, i : Nat,
   stop : BOOLEAN]
SubscriptionInv ==
  /\ current_ \in Subscriptions
  /\ current_.i \in 0 .. Len(cx)
  /\ current_.k \in {"none", "unheard"} => current_.i = 0
  /\ Subscribed => /\ current_.c \in Cos /\ current_.left >= 1
                   /\ Is(current_.i, {"up", "closing", "freeing"})

(* Who waits is in one of the places, or forgotten, and never both; r: the *)
(* forgotten, w: the queues and the log, b: the connection, u: the         *)
(* subscription.                                                           *)
Places(s, r, w, b, u) ==
  /\ \A c \in w \cup b : c \in Cos /\ s[c] = "redis"
  /\ \A c \in u : c \in Cos /\ s[c] = "subscribed"
  /\ w \cap b = {} /\ r \cap w = {} /\ r \cap u = {}
  /\ \A c \in r : c \in Cos /\ s[c] \in {"redis", "subscribed"}
  /\ \A c \in Cos : s[c] = "redis" => c \in r \cup w \cup b
  /\ \A c \in Cos : s[c] = "subscribed" => c \in r \cup u
  /\ \A c \in Cos : s[c] \notin {"http", "log"}

(* The log has the write requests of coroutines, one of each.              *)
Logging == Range(lreqs)
Writes == lreqs \in Seq(Cos) /\ \A i, n \in 1 .. Len(lreqs) : lreqs[i] = lreqs[n] => i = n

RedisInv ==
  /\ OnStack(frames, st) /\ Connections(cx) /\ Writes /\ Logging \cap Asking(cx) = {}
  /\ ContextInv /\ ConnectInv /\ SubscriptionInv
  /\ Places(st, rlost, Asking(cx) \cup Logging, Connecting, Subscriber)

(* HTTP: a request points to a coroutine while it is added to a client;    *)
(* the messages libcurl has for a client are of such requests.             *)
Request == [easy : {"idle", "added", "null"}, m : 0 .. 1, self : 0 .. 1, c : Cos \cup {0}]
Requests(rs) ==
  /\ rs \in Seq(Request)
  /\ \A r \in 1 .. Len(rs) : rs[r].easy = "added" <=> rs[r].c # 0
  /\ \A r, n \in 1 .. Len(rs) : rs[r].c = rs[n].c /\ rs[r].c # 0 => r = n
Fetching(rs) == {c \in Cos : \E r \in 1 .. Len(rs) : rs[r].c = c}

Told(m) == InfoCheck(m) \in Range(frames) /\ ~(m = 1 /\ ~own)
Messages ==
  \A m \in 0 .. 1 : Told(m) =>
    /\ msgs \in Seq(Added(m))
    /\ \A i, n \in 1 .. Len(msgs) : msgs[i] = msgs[n] => i = n

(* h: the forgotten, f: those whom a request points to.                    *)
Fetches(s, h, f) ==
  /\ \A c \in f : c \in Cos /\ s[c] = "http" /\ c \notin h
  /\ \A c \in h : c \in Cos /\ s[c] = "http"
  /\ \A c \in Cos : s[c] = "http" => c \in h \cup f
  /\ \A c \in Cos : s[c] \notin {"redis", "subscribed", "log"}

HttpInv ==
  /\ OnStack(frames, st)
  /\ Requests(reqs) /\ Messages /\ Fetches(st, hlost, Fetching(reqs))

(* The logger: the write requests.                                         *)
LogInv ==
  /\ OnStack(frames, st) /\ Writes
  /\ \A c \in Logging : st[c] = "log"
  /\ \A c \in Cos : st[c] = "log" => c \in Logging
  /\ \A c \in Cos : st[c] \notin {"redis", "subscribed", "http"}

(* A client with a thread: the queues; CallInv is the other half.          *)
Asked == \A c \in Cos : st[c] = "job" => \E j \in AllJobs : j.c = c

WaitInv ==
  /\ used # "redis" => rlost = {}
  /\ used # "http" => hlost = {}
  /\ used = "redis" => Crashed \/ RedisInv
  /\ used = "http" => Crashed \/ HttpInv
  /\ used = "logger" => Crashed \/ LogInv
  /\ used = "ticker" => st \in [Cos -> {"ready", "run", "ended"}]
  /\ IF Worked THEN Asked ELSE backs = <<>>

-----------------------------------------------------------------------------
(* The stack.                                                              *)

LEMMA Frames ==
  /\ \A c \in Cos : Frame(c) \in Things /\ Frame(c).k = "co" /\ Frame(c).c = c
  /\ Crash \in Things /\ Crash.k = "crash"
  /\ Rest("timeout") \in Things /\ Rest("timeout").k = "timeout"
  /\ \A i \in Nat : Dropping(i) \in Things /\ Dropping(i).k = "drop" /\ Dropping(i).c = i
  /\ \A m \in 0 .. 1 : InfoCheck(m) \in Things /\ InfoCheck(m).k = "info" /\ InfoCheck(m).c = m
BY ScriptAssumption DEF Frame, Crash, Rest, Dropping, InfoCheck, Things

LEMMA Fronted ==
  ASSUME NEW S, NEW f \in Seq(S), f # <<>>
  PROVE  /\ Len(f) \in Nat /\ Len(f) >= 1 /\ Last(f) = f[Len(f)] /\ Last(f) \in S
         /\ Front(f) \in Seq(S) /\ Len(Front(f)) = Len(f) - 1
         /\ \A i \in 1 .. Len(f) - 1 : Front(f)[i] = f[i]
         /\ Range(f) = Range(Front(f)) \cup {Last(f)}
<1>1. Len(f) \in Nat /\ Len(f) >= 1
  OBVIOUS
<1>2. \A i \in 1 .. Len(f) : f[i] \in S
  OBVIOUS
<1>3. SubSeq(f, 1, Len(f) - 1) \in Seq(S)
  <2>1. \A i \in 1 .. Len(f) - 1 : f[i] \in S
    BY <1>1, <1>2
  <2> QED BY <1>1, <2>1
<1>4. Len(SubSeq(f, 1, Len(f) - 1)) = Len(f) - 1
  <2>1. 1 \in Int /\ Len(f) - 1 \in Int /\ \A i \in 1 .. Len(f) - 1 : f[i] \in S
    BY <1>1, <1>2
  <2>2. Len(SubSeq(f, 1, Len(f) - 1)) = IF 1 <= Len(f) - 1 THEN (Len(f) - 1) - 1 + 1 ELSE 0
    BY <2>1, SubSeqProperties
  <2>3. \A n \in Nat : n >= 1 => (IF 1 <= n - 1 THEN (n - 1) - 1 + 1 ELSE 0) = n - 1
    OBVIOUS
  <2> QED BY <1>1, <2>2, <2>3
<1>5. \A i \in 1 .. Len(f) - 1 : SubSeq(f, 1, Len(f) - 1)[i] = f[i]
  BY <1>1
<1>6. /\ Front(f) \in Seq(S) /\ Len(Front(f)) = Len(f) - 1 /\ Last(f) = f[Len(f)]
      /\ \A i \in 1 .. Len(f) - 1 : Front(f)[i] = f[i]
  BY <1>3, <1>4, <1>5 DEF Front, Last
<1>7. /\ \A i : i \in 1 .. Len(f) <=> i \in 1 .. Len(f) - 1 \/ i = Len(f)
      /\ DOMAIN f = 1 .. Len(f) /\ DOMAIN Front(f) = 1 .. Len(f) - 1
  BY <1>1, <1>6
<1>8. Range(f) = Range(Front(f)) \cup {Last(f)}
  BY <1>6, <1>7 DEF Range
<1>9. Last(f) \in S
  BY <1>1, <1>2, <1>6
<1> QED
  BY <1>1, <1>6, <1>8, <1>9

LEMMA StackPush ==
  ASSUME NEW f, NEW s, OnStack(f, s), NEW x \in Things, x.k # "co"
  PROVE  OnStack(Append(f, x), s) /\ Range(Append(f, x)) = Range(f) \cup {x}
<1>1. f \in Seq(Things) /\ \A c \in Cos : Frame(c) # x
  BY Frames DEF OnStack
<1>2. /\ Append(f, x) \in Seq(Things) /\ Len(Append(f, x)) = Len(f) + 1
      /\ \A i \in 1 .. Len(f) + 1 : Append(f, x)[i] = IF i = Len(f) + 1 THEN x ELSE f[i]
      /\ Range(Append(f, x)) = Range(f) \cup {x} /\ Len(f) \in Nat
  BY <1>1, Appended
<1>3. \A i : i \in 1 .. Len(f) + 1 => i \in 1 .. Len(f) \/ i = Len(f) + 1
  BY <1>2
<1>4. ASSUME NEW c \in Cos, NEW i \in 1 .. Len(Append(f, x)), NEW n \in 1 .. Len(Append(f, x)),
             Append(f, x)[i] = Frame(c), Append(f, x)[n] = Frame(c)
      PROVE  i = n
  <2>1. i \in 1 .. Len(f) /\ n \in 1 .. Len(f) /\ f[i] = Frame(c) /\ f[n] = Frame(c)
    BY <1>1, <1>2, <1>3, <1>4
  <2> QED BY <2>1 DEF OnStack
<1>5. \A c \in Cos : Frame(c) \in Range(Append(f, x)) => s[c] = "run"
  BY <1>1, <1>2 DEF OnStack
<1>6. s \in [Cos -> Waitings]
  BY DEF OnStack
<1> QED
  BY <1>2, <1>4, <1>5, <1>6 DEF OnStack

LEMMA StackPop ==
  ASSUME NEW f, NEW s, OnStack(f, s), f # <<>>
  PROVE  /\ OnStack(Front(f), s) /\ Range(f) = Range(Front(f)) \cup {Last(f)}
         /\ \A c \in Cos : Last(f) = Frame(c) =>
              Frame(c) \notin Range(Front(f)) /\ s[c] = "run"
<1>1. f \in Seq(Things)
  BY DEF OnStack
<1>2. /\ Len(f) \in Nat /\ Len(f) >= 1 /\ Last(f) = f[Len(f)]
      /\ Front(f) \in Seq(Things) /\ Len(Front(f)) = Len(f) - 1
      /\ \A i \in 1 .. Len(f) - 1 : Front(f)[i] = f[i]
      /\ Range(f) = Range(Front(f)) \cup {Last(f)}
  BY <1>1, Fronted
<1>3. \A i \in 1 .. Len(f) - 1 : i \in 1 .. Len(f) /\ i # Len(f)
  BY <1>2
<1>4. OnStack(Front(f), s)
  BY <1>2, <1>3 DEF OnStack
<1>5. ASSUME NEW c \in Cos, Last(f) = Frame(c) PROVE Frame(c) \notin Range(Front(f)) /\ s[c] = "run"
  <2>1. \A i \in 1 .. Len(f) - 1 : Front(f)[i] # Frame(c)
    <3>1. Len(f) \in 1 .. Len(f)
      BY <1>2
    <3> QED BY <1>2, <1>3, <1>5, <3>1 DEF OnStack
  <2>2. \A y \in Range(Front(f)) : \E i \in 1 .. Len(f) - 1 : y = Front(f)[i]
    BY <1>2, InRange
  <2>3. Frame(c) \in Range(f)
    BY <1>2, <1>5
  <2> QED BY <2>1, <2>2, <2>3 DEF OnStack
<1> QED
  BY <1>2, <1>4, <1>5

(* A coroutine on top of the stack runs, and waits.                        *)
LEMMA StackWaits ==
  ASSUME OnStack(frames, st), NEW c \in Cos, Running(c), NEW w \in Waitings, w # "run", Waits(c, w)
  PROVE  /\ OnStack(frames, st)' /\ st[c] = "run" /\ ~Crashed /\ ~Loop
         /\ \A d \in Cos : st'[d] = IF d = c THEN w ELSE st[d]
         /\ \A x : x.k # "co" => (x \in Range(frames') <=> x \in Range(frames))
<1>1. /\ frames # <<>> /\ Last(frames) = Frame(c) /\ frames' = Front(frames)
      /\ st' = [st EXCEPT ![c] = w]
  BY DEF Running, Waits
<1>2. /\ OnStack(Front(frames), st) /\ Range(frames) = Range(Front(frames)) \cup {Last(frames)}
      /\ Frame(c) \notin Range(Front(frames)) /\ st[c] = "run"
  BY <1>1, StackPop
<1>3. st \in [Cos -> Waitings]
  BY DEF OnStack
<1>4. \A d \in Cos : st'[d] = IF d = c THEN w ELSE st[d]
  BY <1>1, <1>3
<1>5. st' \in [Cos -> Waitings]
  BY <1>1, <1>3
<1>6. OnStack(frames', st')
  BY <1>1, <1>2, <1>4, <1>5 DEF OnStack
<1>7. ~Crashed /\ ~Loop
  BY <1>1, Frames DEF Crashed, Loop
<1>8. \A x : x.k # "co" => (x \in Range(frames') <=> x \in Range(frames))
  BY <1>1, <1>2, Frames
<1> QED
  BY <1>2, <1>4, <1>6, <1>7, <1>8

(* It is resumed, on top of what is left of the stack.                     *)
LEMMA StackResumes ==
  ASSUME NEW below, OnStack(below, st), NEW c \in Cos, st[c] # "run", Resume(c, below)
  PROVE  /\ OnStack(frames, st)'
         /\ \A d \in Cos : st'[d] = IF d = c THEN "run" ELSE st[d]
         /\ \A x : x.k # "co" => (x \in Range(frames') <=> x \in Range(below))
<1>1. frames' = Append(below, Frame(c)) /\ st' = [st EXCEPT ![c] = "run"]
  BY DEF Resume
<1>2. below \in Seq(Things) /\ Frame(c) \in Things /\ Frame(c) \notin Range(below) /\ st \in [Cos -> Waitings]
  BY Frames DEF OnStack
<1>3. /\ frames' \in Seq(Things) /\ Len(frames') = Len(below) + 1
      /\ \A i \in 1 .. Len(below) + 1 : frames'[i] = IF i = Len(below) + 1 THEN Frame(c) ELSE below[i]
      /\ Range(frames') = Range(below) \cup {Frame(c)}
      /\ Len(below) \in Nat
  BY <1>1, <1>2, Appended
<1>4. /\ \A i : i \in 1 .. Len(below) + 1 => i \in 1 .. Len(below) \/ i = Len(below) + 1
      /\ \A i \in 1 .. Len(below) : below[i] \in Range(below) /\ i # Len(below) + 1
  BY <1>2, <1>3, InRange
<1>5. \A d \in Cos : st'[d] = IF d = c THEN "run" ELSE st[d]
  BY <1>1, <1>2
<1>6. st' \in [Cos -> Waitings]
  BY <1>1, <1>2 DEF Waitings
<1>7. ASSUME NEW d \in Cos, NEW i \in 1 .. Len(frames'), NEW n \in 1 .. Len(frames'),
             frames'[i] = Frame(d), frames'[n] = Frame(d)
      PROVE  i = n
  <2>1. CASE d = c
    <3>1. \A k \in 1 .. Len(below) : frames'[k] # Frame(d)
      BY <1>2, <1>3, <1>4, <2>1
    <3> QED BY <1>3, <1>4, <1>7, <3>1
  <2>2. CASE d # c
    <3>1. Frame(d) # Frame(c)
      BY <2>2, Frames
    <3>2. i \in 1 .. Len(below) /\ n \in 1 .. Len(below) /\ below[i] = Frame(d) /\ below[n] = Frame(d)
      BY <1>3, <1>4, <1>7, <3>1
    <3> QED BY <3>2 DEF OnStack
  <2> QED BY <2>1, <2>2
<1>8. ASSUME NEW d \in Cos, Frame(d) \in Range(frames') PROVE st'[d] = "run"
  <2>1. CASE d = c
    BY <1>5, <2>1
  <2>2. CASE d # c
    <3>1. Frame(d) # Frame(c)
      BY <2>2, Frames
    <3>2. Frame(d) \in Range(below)
      BY <1>3, <1>8, <3>1
    <3> QED BY <1>5, <2>2, <3>2 DEF OnStack
  <2> QED BY <2>1, <2>2
<1>9. OnStack(frames', st')
  BY <1>3, <1>6, <1>7, <1>8 DEF OnStack
<1>10. \A x : x.k # "co" => (x \in Range(frames') <=> x \in Range(below))
  BY <1>3, Frames
<1> QED
  BY <1>5, <1>9, <1>10

LEMMA EmptyStack ==
  ASSUME OnStack(frames, st), Loop
  PROVE  frames = <<>> /\ OnStack(<<>>, st) /\ Range(frames) = {} /\ ~InTimeout
<1>1. frames = <<>> /\ Range(frames) = {}
  BY DEF Loop, Range
<1> QED BY <1>1 DEF InTimeout

LEMMA StackCrashes ==
  ASSUME NEW below, OnStack(below, st), frames' = Append(below, Crash)
  PROVE  Crashed'
<1>1. below \in Seq(Things) /\ Crash \in Things
  BY Frames DEF OnStack
<1>2. frames' \in Seq(Things) /\ Len(frames') = Len(below) + 1 /\ frames'[Len(below) + 1] = Crash
      /\ Len(below) \in Nat
  BY <1>1, Appended
<1>3. frames' # <<>> /\ Last(frames') = Crash
  BY <1>2 DEF Last
<1> QED BY <1>3 DEF Crashed

-----------------------------------------------------------------------------
(* The write requests of the log.                                          *)

LEMMA WritesHave ==
  ASSUME Writes
  PROVE  /\ lreqs \in Seq(Cos) /\ Len(lreqs) \in Nat /\ \A c \in Logging : c \in Cos
<1>1. lreqs \in Seq(Cos) /\ Len(lreqs) \in Nat
  BY DEF Writes
<1> QED BY <1>1, InRange DEF Logging

LEMMA WritesAppend ==
  ASSUME Writes, NEW c \in Cos, c \notin Logging, lreqs' = Append(lreqs, c)
  PROVE  Writes' /\ Logging' = Logging \cup {c}
<1>1. lreqs \in Seq(Cos)
  BY DEF Writes
<1>2. /\ lreqs' \in Seq(Cos) /\ Len(lreqs') = Len(lreqs) + 1 /\ Len(lreqs) \in Nat
      /\ \A i \in 1 .. Len(lreqs) + 1 : lreqs'[i] = IF i = Len(lreqs) + 1 THEN c ELSE lreqs[i]
      /\ Range(lreqs') = Range(lreqs) \cup {c}
  BY <1>1, Appended
<1>3. ASSUME NEW i \in 1 .. Len(lreqs'), NEW n \in 1 .. Len(lreqs'), lreqs'[i] = lreqs'[n]
      PROVE  i = n
  <2>1. \A k : k \in 1 .. Len(lreqs') => k \in 1 .. Len(lreqs) \/ k = Len(lreqs) + 1
    BY <1>2
  <2>2. \A k \in 1 .. Len(lreqs) : lreqs'[k] = lreqs[k] /\ lreqs[k] # c /\ k # Len(lreqs) + 1
    <3>1. ASSUME NEW k \in 1 .. Len(lreqs) PROVE lreqs[k] \in Logging
      BY <1>1, InRange DEF Logging
    <3> QED BY <1>2, <3>1
  <2>3. lreqs'[Len(lreqs) + 1] = c
    BY <1>2
  <2>4. \A j, k \in 1 .. Len(lreqs) : lreqs[j] = lreqs[k] => j = k
    BY DEF Writes
  <2> QED BY <1>3, <2>1, <2>2, <2>3, <2>4
<1> QED BY <1>2, <1>3 DEF Writes, Logging

LEMMA WritesTail ==
  ASSUME Writes, lreqs # <<>>, lreqs' = Tail(lreqs)
  PROVE  /\ Writes' /\ Head(lreqs) \in Logging /\ Head(lreqs) \in Cos
         /\ Logging' = Logging \ {Head(lreqs)}
<1>1. lreqs \in Seq(Cos)
  BY DEF Writes
<1>2. PICK c : c = Head(lreqs)
  OBVIOUS
<1>3. /\ lreqs' \in Seq(Cos) /\ Len(lreqs) \in Nat \ {0} /\ Len(lreqs') = Len(lreqs) - 1
      /\ c = lreqs[1] /\ c \in Cos /\ c \in Range(lreqs)
      /\ \A i \in 1 .. Len(lreqs) - 1 : lreqs'[i] = lreqs[i + 1]
      /\ Range(lreqs) = Range(lreqs') \cup {c}
  BY <1>1, <1>2, Tailed
<1>4. \A j, k \in 1 .. Len(lreqs) : lreqs[j] = lreqs[k] => j = k
  BY DEF Writes
<1>5. ASSUME NEW i \in 1 .. Len(lreqs')
      PROVE  \E k \in 1 .. Len(lreqs) : k = i + 1 /\ k # 1 /\ lreqs'[i] = lreqs[k]
  BY <1>3
<1>6. ASSUME NEW i \in 1 .. Len(lreqs'), NEW n \in 1 .. Len(lreqs'), lreqs'[i] = lreqs'[n]
      PROVE  i = n
  <2>1. PICK u \in 1 .. Len(lreqs) : u = i + 1 /\ lreqs'[i] = lreqs[u]
    BY <1>5
  <2>2. PICK v \in 1 .. Len(lreqs) : v = n + 1 /\ lreqs'[n] = lreqs[v]
    BY <1>5
  <2>3. u = v
    BY <1>4, <1>6, <2>1, <2>2
  <2> QED BY <2>1, <2>2, <2>3
<1>7. c \notin Range(lreqs')
  <2>1. ASSUME NEW i \in 1 .. Len(lreqs') PROVE lreqs'[i] # c
    <3>1. PICK u \in 1 .. Len(lreqs) : u # 1 /\ lreqs'[i] = lreqs[u]
      BY <1>5
    <3> QED BY <1>3, <1>4, <3>1
  <2>2. PICK q \in Seq(Cos) : q = lreqs'
    BY <1>3
  <2>3. \A x \in Range(q) : \E i \in 1 .. Len(q) : x = q[i]
    BY InRange
  <2> QED BY <2>1, <2>2, <2>3
<1>8. Range(lreqs') = Range(lreqs) \ {c}
  BY <1>3, <1>7
<1>9. Writes'
  BY <1>3, <1>6 DEF Writes
<1> QED BY <1>2, <1>3, <1>8, <1>9 DEF Logging

-----------------------------------------------------------------------------
(* The connections: what changes one of them does to the requests.         *)

LEMMA CxType ==
  ASSUME NEW cxs, Connections(cxs)
  PROVE  /\ cxs \in Seq(CxRecords) /\ Len(cxs) \in Nat
         /\ \A i \in 1 .. Len(cxs) :
              /\ cxs[i] \in CxRecords
              /\ cxs[i].s \in CxStates /\ cxs[i].q \in CxQueues /\ Len(cxs[i].q) \in Nat
              /\ \A j \in 1 .. Len(cxs[i].q) :
                   /\ cxs[i].q[j].c \in Asking(cxs) /\ cxs[i].q[j].c \in Cos
                   /\ cxs[i].q[j] \in CxRequests
<1>1. cxs \in Seq(CxRecords) /\ Len(cxs) \in Nat
  BY DEF Connections
<1>2. ASSUME NEW i \in 1 .. Len(cxs)
      PROVE  /\ cxs[i] \in CxRecords
             /\ cxs[i].s \in CxStates /\ cxs[i].q \in CxQueues /\ Len(cxs[i].q) \in Nat
  <2>1. cxs[i] \in CxRecords
    BY <1>1, InRange
  <2>2. cxs[i].s \in CxStates /\ cxs[i].q \in CxQueues
    BY <2>1 DEF CxRecords
  <2>3. Len(cxs[i].q) \in Nat
    BY <2>2 DEF CxQueues
  <2> QED BY <2>1, <2>2, <2>3
<1>3. ASSUME NEW i \in 1 .. Len(cxs), NEW j \in 1 .. Len(cxs[i].q)
      PROVE  /\ cxs[i].q[j].c \in Asking(cxs) /\ cxs[i].q[j].c \in Cos
             /\ cxs[i].q[j] \in CxRequests
  <2>0. cxs[i].q \in Seq(CxRequests)
    BY <1>2 DEF CxQueues
  <2>1. cxs[i].q[j] \in CxRequests
    BY <2>0, InRange
  <2>2. cxs[i].q[j].c \in Cos
    BY <2>1 DEF CxRequests
  <2> QED BY <2>1, <2>2 DEF Asking
<1> QED BY <1>1, <1>2, <1>3

CxChanges(cxs, i, x, p, a, new) ==
  /\ new = [cxs EXCEPT ![i] = [s |-> x, q |-> p]]
  /\ \A j, n \in 1 .. Len(p) : p[j].c = p[n].c => j = n
  /\ a \notin Asking(cxs)
  /\ \A j \in 1 .. Len(p) : p[j].c = a \/ \E n \in 1 .. Len(cxs[i].q) : p[j] = cxs[i].q[n]

(* A connection changes to state x and queue p, the others stay; a request *)
(* of the new queue was one of the old, or is the one of coroutine a.      *)
LEMMA CxChange ==
  ASSUME NEW cxs, Connections(cxs), NEW i \in 1 .. Len(cxs),
         NEW x \in CxStates, NEW p \in CxQueues, NEW a, NEW new, CxChanges(cxs, i, x, p, a, new)
  PROVE  /\ Connections(new) /\ Len(new) = Len(cxs)
         /\ new[i].s = x /\ new[i].q = p
         /\ \A m \in 1 .. Len(cxs) : m # i => new[m] = cxs[m]
<1>1. /\ cxs \in Seq(CxRecords) /\ Len(cxs) \in Nat
      /\ \A m \in 1 .. Len(cxs) : \A j \in 1 .. Len(cxs[m].q) : cxs[m].q[j].c \in Asking(cxs)
  BY CxType
<1>0. /\ new = [cxs EXCEPT ![i] = [s |-> x, q |-> p]]
      /\ \A j, n \in 1 .. Len(p) : p[j].c = p[n].c => j = n
      /\ a \notin Asking(cxs)
      /\ \A j \in 1 .. Len(p) : p[j].c = a \/ \E n \in 1 .. Len(cxs[i].q) : p[j] = cxs[i].q[n]
  BY DEF CxChanges
<1>2. [s |-> x, q |-> p] \in CxRecords
  BY DEF CxRecords
<1>3. /\ new \in Seq(CxRecords) /\ Len(new) = Len(cxs)
      /\ \A m \in 1 .. Len(cxs) : new[m] = IF m = i THEN [s |-> x, q |-> p] ELSE cxs[m]
  <2>1. DOMAIN cxs = 1 .. Len(cxs) /\ \A m \in 1 .. Len(cxs) : cxs[m] \in CxRecords
    BY <1>1, InRange
  <2>2. \A m \in 1 .. Len(cxs) : new[m] = IF m = i THEN [s |-> x, q |-> p] ELSE cxs[m]
    BY <1>0, <2>1
  <2>3. new \in [1 .. Len(cxs) -> CxRecords]
    BY <1>0, <1>2, <2>1
  <2>4. new \in Seq(CxRecords) /\ Len(new) = Len(cxs)
    BY <1>1, <2>3
  <2> QED BY <2>2, <2>4
<1>4. /\ new[i].s = x /\ new[i].q = p
      /\ \A m \in 1 .. Len(cxs) : m # i => new[m] = cxs[m]
  <2>1. new[i] = [s |-> x, q |-> p]
    BY <1>3
  <2> QED BY <1>3, <2>1
<1>5. ASSUME NEW m \in 1 .. Len(cxs), m # i, NEW j \in 1 .. Len(p), NEW n \in 1 .. Len(cxs[m].q)
      PROVE  p[j].c # cxs[m].q[n].c
  <2>1. cxs[m].q[n].c \in Asking(cxs)
    BY <1>1
  <2>2. CASE p[j].c = a
    BY <1>0, <2>1, <2>2
  <2>3. CASE \E l \in 1 .. Len(cxs[i].q) : p[j] = cxs[i].q[l]
    BY <1>5, <2>3, SMTT(30) DEF Connections
  <2> QED BY <1>0, <2>2, <2>3
<1>6. ASSUME NEW l \in 1 .. Len(new), NEW m \in 1 .. Len(new),
             NEW j \in 1 .. Len(new[l].q), NEW n \in 1 .. Len(new[m].q),
             new[l].q[j].c = new[m].q[n].c
      PROVE  l = m /\ j = n
  <2>0. l \in 1 .. Len(cxs) /\ m \in 1 .. Len(cxs)
    BY <1>3
  <2>1. CASE l = i /\ m = i
    BY <1>0, <1>4, <1>6, <2>1
  <2>2. CASE l = i /\ m # i
    BY <1>4, <1>5, <1>6, <2>0, <2>2
  <2>3. CASE l # i /\ m = i
    BY <1>4, <1>5, <1>6, <2>0, <2>3
  <2>4. CASE l # i /\ m # i
    <3>1. new[l] = cxs[l] /\ new[m] = cxs[m]
      BY <1>4, <2>0, <2>4
    <3> QED BY <1>6, <2>0, <3>1, SMTT(30) DEF Connections
  <2> QED BY <2>1, <2>2, <2>3, <2>4
<1> QED BY <1>3, <1>4, <1>6 DEF Connections

Moved(cxs, i, x) == [cxs EXCEPT ![i].s = x]

LEMMA CxState ==
  ASSUME NEW cxs, Connections(cxs), NEW i \in 1 .. Len(cxs), NEW x \in CxStates
  PROVE  LET new == Moved(cxs, i, x) IN
         /\ Connections(new) /\ Len(new) = Len(cxs) /\ Asking(new) = Asking(cxs)
         /\ new[i].s = x /\ new[i].q = cxs[i].q
         /\ \A m \in 1 .. Len(cxs) : m # i => new[m] = cxs[m]
<1>1. PICK new : new = [cxs EXCEPT ![i].s = x]
  OBVIOUS
<1>2. PICK a : a \notin Asking(cxs)
  <2>1. 0 \notin Asking(cxs)
    BY ScriptAssumption DEF Asking
  <2> QED BY <2>1
<1>3. /\ cxs[i].q \in CxQueues /\ cxs[i] \in CxRecords
      /\ cxs \in Seq(CxRecords)
  BY CxType
<1>4. new = [cxs EXCEPT ![i] = [s |-> x, q |-> cxs[i].q]]
  <2>1. [cxs[i] EXCEPT !.s = x] = [s |-> x, q |-> cxs[i].q]
    BY <1>3 DEF CxRecords
  <2> QED BY <1>1, <1>3, <2>1
<1>5. \A j, n \in 1 .. Len(cxs[i].q) : cxs[i].q[j].c = cxs[i].q[n].c => j = n
  BY DEF Connections
<1>6. /\ Connections(new) /\ Len(new) = Len(cxs)
      /\ new[i].s = x /\ new[i].q = cxs[i].q
      /\ \A m \in 1 .. Len(cxs) : m # i => new[m] = cxs[m]
  <2>1. PICK p \in CxQueues : p = cxs[i].q
    BY <1>3
  <2>2. CxChanges(cxs, i, x, p, a, new)
    BY <1>2, <1>4, <1>5, <2>1 DEF CxChanges
  <2> QED BY <2>1, <2>2, CxChange
<1>7. \A m \in 1 .. Len(cxs) : new[m].q = cxs[m].q
  BY <1>6
<1>8. Asking(new) = Asking(cxs)
  BY <1>6, <1>7 DEF Asking
<1> QED BY <1>1, <1>6, <1>8 DEF Moved

LEMMA CxAsk ==
  ASSUME NEW cxs, Connections(cxs), NEW i \in 1 .. Len(cxs), NEW k \in {"default", "quit"},
         NEW c \in Cos, c \notin Asking(cxs)
  PROVE  LET new == Queue(cxs, i, k, c) IN
         /\ Connections(new) /\ Len(new) = Len(cxs) /\ Asking(new) = Asking(cxs) \cup {c}
         /\ new[i].s = cxs[i].s /\ new[i].q # <<>>
         /\ \A m \in 1 .. Len(cxs) : m # i => new[m] = cxs[m]
<1>1. PICK new : new = Queue(cxs, i, k, c)
  OBVIOUS
<1>2. PICK r : r = [k |-> k, c |-> c]
  OBVIOUS
<1>3. /\ cxs[i].q \in CxQueues /\ cxs[i] \in CxRecords /\ cxs[i].s \in CxStates
      /\ cxs \in Seq(CxRecords)
      /\ \A j \in 1 .. Len(cxs[i].q) : cxs[i].q[j].c \in Asking(cxs)
  BY CxType
<1>4. r \in CxRequests /\ r.c = c
  BY <1>2 DEF CxRequests
<1>p. PICK p : p = Append(cxs[i].q, r)
  OBVIOUS
<1>5. /\ p \in CxQueues /\ Len(p) = Len(cxs[i].q) + 1 /\ Len(cxs[i].q) \in Nat
      /\ \A j \in 1 .. Len(cxs[i].q) + 1 : p[j] = IF j = Len(cxs[i].q) + 1 THEN r ELSE cxs[i].q[j]
  <2>1. cxs[i].q \in Seq(CxRequests)
    BY <1>3 DEF CxQueues
  <2> QED BY <1>4, <1>p, <2>1, Appended DEF CxQueues
<1>6. new = [cxs EXCEPT ![i] = [s |-> cxs[i].s, q |-> p]]
  <2>1. [cxs[i] EXCEPT !.q = p] = [s |-> cxs[i].s, q |-> p]
    BY <1>3 DEF CxRecords
  <2>2. new = [cxs EXCEPT ![i].q = p]
    BY <1>1, <1>2, <1>p DEF Queue
  <2> QED BY <1>3, <2>1, <2>2
<1>7. \A j : j \in 1 .. Len(cxs[i].q) + 1 <=> j \in 1 .. Len(cxs[i].q) \/ j = Len(cxs[i].q) + 1
  BY <1>5
<1>8. \A j \in 1 .. Len(p) : p[j].c = c \/ \E n \in 1 .. Len(cxs[i].q) : p[j] = cxs[i].q[n]
  BY <1>4, <1>5, <1>7
<1>9. \A j, n \in 1 .. Len(p) : p[j].c = p[n].c => j = n
  <2>1. \A j, n \in 1 .. Len(cxs[i].q) : cxs[i].q[j].c = cxs[i].q[n].c => j = n
    BY DEF Connections
  <2>2. \A j \in 1 .. Len(cxs[i].q) : /\ j # Len(cxs[i].q) + 1 /\ cxs[i].q[j].c # c
                                       /\ p[j] = cxs[i].q[j]
    BY <1>3, <1>5, <1>7
  <2>3. p[Len(cxs[i].q) + 1].c = c
    BY <1>4, <1>5
  <2> QED BY <1>5, <1>7, <2>1, <2>2, <2>3
<1>10. /\ Connections(new) /\ Len(new) = Len(cxs)
       /\ new[i].s = cxs[i].s /\ new[i].q = p
       /\ \A m \in 1 .. Len(cxs) : m # i => new[m] = cxs[m]
  <2>1. PICK x \in CxStates : x = cxs[i].s
    BY <1>3
  <2>2. CxChanges(cxs, i, x, p, c, new)
    BY <1>6, <1>8, <1>9, <2>1 DEF CxChanges
  <2> QED BY <1>5, <2>1, <2>2, CxChange
<1>11. p # <<>>
  BY <1>5
<1>12. Asking(new) = Asking(cxs) \cup {c}
  <2>1. ASSUME NEW d \in Asking(new) PROVE d \in Asking(cxs) \cup {c}
    <3>0. PICK m \in 1 .. Len(cxs) : \E j \in 1 .. Len(new[m].q) : new[m].q[j].c = d
      BY <1>10, <2>1 DEF Asking
    <3>1. PICK j \in 1 .. Len(new[m].q) : new[m].q[j].c = d
      BY <3>0
    <3>2. CASE m = i
      BY <1>3, <1>8, <1>10, <3>1, <3>2
    <3>3. CASE m # i
      <4>1. new[m] = cxs[m]
        BY <1>10, <3>3
      <4> QED BY <3>1, <4>1, CxType
    <3> QED BY <3>2, <3>3
  <2>2. c \in Asking(new)
    <3>1. Len(cxs[i].q) + 1 \in 1 .. Len(p) /\ p[Len(cxs[i].q) + 1].c = c
      BY <1>4, <1>5
    <3> QED BY <1>10, <3>1 DEF Asking
  <2>3. ASSUME NEW d \in Asking(cxs) PROVE d \in Asking(new)
    <3>1. d \in Cos
      BY DEF Asking
    <3>a. PICK m \in 1 .. Len(cxs) : \E j \in 1 .. Len(cxs[m].q) : cxs[m].q[j].c = d
      BY DEF Asking
    <3>2. PICK j \in 1 .. Len(cxs[m].q) : cxs[m].q[j].c = d
      BY <3>a
    <3>3. CASE m = i
      <4>1. j \in 1 .. Len(p) /\ p[j] = cxs[i].q[j]
        BY <1>5, <1>7, <3>2, <3>3
      <4> QED BY <1>10, <3>1, <3>2, <3>3, <4>1 DEF Asking
    <3>4. CASE m # i
      <4>1. new[m] = cxs[m]
        BY <1>10, <3>4
      <4> QED BY <1>10, <3>1, <3>2, <4>1 DEF Asking
    <3> QED BY <3>3, <3>4
  <2> QED BY <2>1, <2>2, <2>3
<1> QED BY <1>1, <1>10, <1>11, <1>12

Shorter(cxs, i) == [cxs EXCEPT ![i].q = Tail(@)]

LEMMA CxAnswered ==
  ASSUME NEW cxs, Connections(cxs), NEW i \in 1 .. Len(cxs), cxs[i].q # <<>>
  PROVE  LET new == Shorter(cxs, i)
             c   == Head(cxs[i].q).c IN
         /\ Connections(new) /\ Len(new) = Len(cxs)
         /\ c \in Asking(cxs) /\ c \in Cos /\ Asking(new) = Asking(cxs) \ {c}
         /\ new[i].s = cxs[i].s
         /\ \A m \in 1 .. Len(cxs) : m # i => new[m] = cxs[m]
<1>1. PICK new : new = [cxs EXCEPT ![i].q = Tail(@)]
  OBVIOUS
<1>2. PICK a : a \notin Asking(cxs)
  <2>1. 0 \notin Asking(cxs)
    BY ScriptAssumption DEF Asking
  <2> QED BY <2>1
<1>3. /\ cxs[i].q \in CxQueues /\ cxs[i] \in CxRecords /\ cxs[i].s \in CxStates
      /\ cxs \in Seq(CxRecords)
      /\ \A j \in 1 .. Len(cxs[i].q) : cxs[i].q[j].c \in Asking(cxs) /\ cxs[i].q[j].c \in Cos
  BY CxType
<1>p. PICK p : p = Tail(cxs[i].q)
  OBVIOUS
<1>4. /\ p \in CxQueues /\ Len(p) = Len(cxs[i].q) - 1 /\ Len(cxs[i].q) \in Nat \ {0}
      /\ \A j \in 1 .. Len(cxs[i].q) - 1 : p[j] = cxs[i].q[j + 1]
      /\ Head(cxs[i].q) = cxs[i].q[1]
  <2>1. cxs[i].q \in Seq(CxRequests)
    BY <1>3 DEF CxQueues
  <2> QED BY <1>p, <2>1, Tailed DEF CxQueues
<1>5. PICK c : c = Head(cxs[i].q).c
  OBVIOUS
<1>6. c \in Asking(cxs) /\ c \in Cos /\ c = cxs[i].q[1].c
  BY <1>3, <1>4, <1>5
<1>7. /\ \A j \in 1 .. Len(p) : j + 1 \in 1 .. Len(cxs[i].q) /\ j + 1 # 1 /\ p[j] = cxs[i].q[j + 1]
      /\ \A j \in 1 .. Len(cxs[i].q) : j = 1 \/ (j - 1 \in 1 .. Len(p) /\ p[j - 1] = cxs[i].q[j])
  <2>1. \A n \in Nat \ {0} :
          /\ \A j \in 1 .. n - 1 : j + 1 \in 1 .. n /\ j + 1 # 1
          /\ \A j \in 1 .. n : j = 1 \/ (j - 1 \in 1 .. n - 1 /\ (j - 1) + 1 = j)
    OBVIOUS
  <2>2. PICK n : n = Len(cxs[i].q) /\ n \in Nat \ {0} /\ Len(p) = n - 1
    BY <1>4
  <2>3. \A j \in 1 .. n - 1 : p[j] = cxs[i].q[j + 1]
    BY <1>4, <2>2
  <2>4. \A j \in 1 .. n : j = 1 \/ (j - 1 \in 1 .. n - 1 /\ p[j - 1] = cxs[i].q[j])
    BY <2>1, <2>2, <2>3
  <2>5. \A j \in 1 .. n - 1 : j + 1 \in 1 .. n /\ j + 1 # 1
    BY <2>1, <2>2
  <2> QED BY <2>2, <2>3, <2>4, <2>5
<1>8. new = [cxs EXCEPT ![i] = [s |-> cxs[i].s, q |-> p]]
  <2>1. [cxs[i] EXCEPT !.q = p] = [s |-> cxs[i].s, q |-> p]
    BY <1>3 DEF CxRecords
  <2>2. new = [cxs EXCEPT ![i].q = p]
    BY <1>1, <1>p
  <2> QED BY <1>3, <2>1, <2>2
<1>9. \A j, n \in 1 .. Len(p) : p[j].c = p[n].c => j = n
  <2>1. \A j, n \in 1 .. Len(cxs[i].q) : cxs[i].q[j].c = cxs[i].q[n].c => j = n
    BY DEF Connections
  <2>2. ASSUME NEW j \in 1 .. Len(p), NEW n \in 1 .. Len(p), p[j].c = p[n].c PROVE j = n
    <3>1. /\ j + 1 \in 1 .. Len(cxs[i].q) /\ n + 1 \in 1 .. Len(cxs[i].q)
          /\ cxs[i].q[j + 1].c = cxs[i].q[n + 1].c
      BY <1>7, <2>2
    <3>2. PICK u, v : u = j + 1 /\ v = n + 1
      OBVIOUS
    <3>3. u = v
      BY <2>1, <3>1, <3>2
    <3> QED BY <3>2, <3>3
  <2> QED BY <2>2
<1>10. \A j \in 1 .. Len(p) : \E n \in 1 .. Len(cxs[i].q) : p[j] = cxs[i].q[n]
  BY <1>7
<1>11. /\ Connections(new) /\ Len(new) = Len(cxs)
       /\ new[i].s = cxs[i].s /\ new[i].q = p
       /\ \A m \in 1 .. Len(cxs) : m # i => new[m] = cxs[m]
  <2>1. PICK x \in CxStates : x = cxs[i].s
    BY <1>3
  <2>2. CxChanges(cxs, i, x, p, a, new)
    BY <1>2, <1>8, <1>9, <1>10, <2>1 DEF CxChanges
  <2> QED BY <1>4, <2>1, <2>2, CxChange
<1>12. Asking(new) = Asking(cxs) \ {c}
  <2>1. ASSUME NEW d \in Asking(new) PROVE d \in Asking(cxs) /\ d # c
    <3>0. PICK m \in 1 .. Len(cxs) : \E j \in 1 .. Len(new[m].q) : new[m].q[j].c = d
      BY <1>11, <2>1 DEF Asking
    <3>1. PICK j \in 1 .. Len(new[m].q) : new[m].q[j].c = d
      BY <3>0
    <3>2. CASE m = i
      <4>1. PICK n \in 1 .. Len(cxs[i].q) : n # 1 /\ d = cxs[i].q[n].c
        BY <1>7, <1>11, <3>1, <3>2
      <4>2. 1 \in 1 .. Len(cxs[i].q)
        BY <1>4
      <4> QED BY <1>3, <1>6, <4>1, <4>2 DEF Connections
    <3>3. CASE m # i
      <4>1. new[m] = cxs[m] /\ 1 \in 1 .. Len(cxs[i].q)
        BY <1>4, <1>11, <3>3
      <4>2. d # c
        BY <1>6, <3>1, <3>3, <4>1 DEF Connections
      <4> QED BY <3>1, <4>1, <4>2, CxType
    <3> QED BY <3>2, <3>3
  <2>2. ASSUME NEW d \in Asking(cxs), d # c PROVE d \in Asking(new)
    <3>1. d \in Cos
      BY DEF Asking
    <3>a. PICK m \in 1 .. Len(cxs) : \E j \in 1 .. Len(cxs[m].q) : cxs[m].q[j].c = d
      BY DEF Asking
    <3>2. PICK j \in 1 .. Len(cxs[m].q) : cxs[m].q[j].c = d
      BY <3>a
    <3>3. CASE m = i
      <4>1. j # 1
        BY <1>6, <2>2, <3>2, <3>3
      <4>2. j - 1 \in 1 .. Len(p) /\ p[j - 1].c = d
        BY <1>7, <3>2, <3>3, <4>1
      <4> QED BY <1>11, <3>1, <4>2 DEF Asking
    <3>4. CASE m # i
      <4>1. new[m] = cxs[m]
        BY <1>11, <3>4
      <4> QED BY <1>11, <3>1, <3>2, <4>1 DEF Asking
    <3> QED BY <3>3, <3>4
  <2> QED BY <2>1, <2>2
<1> QED BY <1>1, <1>5, <1>6, <1>11, <1>12 DEF Shorter

LEMMA CxMade ==
  ASSUME NEW cxs, Connections(cxs), NEW x \in CxStates
  PROVE  LET new == Append(cxs, [s |-> x, q |-> <<>>]) IN
         /\ Connections(new) /\ Len(new) = Len(cxs) + 1 /\ Asking(new) = Asking(cxs)
         /\ new[Len(cxs) + 1].s = x /\ new[Len(cxs) + 1].q = <<>>
         /\ \A m \in 1 .. Len(cxs) : new[m] = cxs[m]
<1>1. PICK y : y = [s |-> x, q |-> <<>>]
  OBVIOUS
<1>2. y \in CxRecords /\ y.s = x /\ y.q = <<>>
  BY <1>1 DEF CxRecords, CxQueues
<1>3. PICK new : new = Append(cxs, y)
  OBVIOUS
<1>4. cxs \in Seq(CxRecords) /\ Len(cxs) \in Nat
  BY CxType
<1>5. /\ new \in Seq(CxRecords) /\ Len(new) = Len(cxs) + 1
      /\ \A i \in 1 .. Len(cxs) + 1 : new[i] = IF i = Len(cxs) + 1 THEN y ELSE cxs[i]
  BY <1>2, <1>3, <1>4, Appended
<1>6. \A i : i \in 1 .. Len(cxs) + 1 <=> i \in 1 .. Len(cxs) \/ i = Len(cxs) + 1
  BY <1>4
<1>7. /\ new[Len(cxs) + 1] = y /\ \A m \in 1 .. Len(cxs) : new[m] = cxs[m] /\ m # Len(cxs) + 1
  BY <1>4, <1>5, <1>6
<1>8. \A j : j \notin 1 .. Len(y.q)
  BY <1>2
<1>9. \A m \in 1 .. Len(new) : \A j \in 1 .. Len(new[m].q) : m \in 1 .. Len(cxs) /\ new[m] = cxs[m]
  BY <1>5, <1>6, <1>7, <1>8
<1>10. Connections(new)
  <2>1. ASSUME NEW l \in 1 .. Len(new), NEW m \in 1 .. Len(new),
               NEW j \in 1 .. Len(new[l].q), NEW n \in 1 .. Len(new[m].q),
               new[l].q[j].c = new[m].q[n].c
        PROVE  l = m /\ j = n
    <3>1. l \in 1 .. Len(cxs) /\ m \in 1 .. Len(cxs) /\ new[l] = cxs[l] /\ new[m] = cxs[m]
      BY <1>9
    <3> QED BY <2>1, <3>1 DEF Connections
  <2> QED BY <1>5, <2>1 DEF Connections
<1>11. Asking(new) = Asking(cxs)
  BY <1>5, <1>6, <1>7, <1>9 DEF Asking
<1> QED BY <1>1, <1>2, <1>3, <1>5, <1>7, <1>10, <1>11

-----------------------------------------------------------------------------
(* The places: a coroutine is resumed, waits, or is forgotten.             *)

Sets(t, s, c, x) == \A d \in Cos : t[d] = IF d = c THEN x ELSE s[d]

LEMMA PlacesKept ==
  ASSUME NEW s, NEW t, NEW r, NEW w, NEW b, NEW u, Places(s, r, w, b, u),
         NEW c, NEW x, Sets(t, s, c, x), c \notin r
  PROVE  \A d \in r : t[d] = s[d]
BY DEF Places, Sets

LEMMA PlacesAnswer ==
  ASSUME NEW s, NEW t, NEW r, NEW w, NEW b, NEW u, Places(s, r, w, b, u),
         NEW c, Sets(t, s, c, "run"), c \in w
  PROVE  Places(t, r, w \ {c}, b, u)
<1>1. c \in Cos /\ s[c] = "redis" /\ c \notin r
  BY DEF Places
<1>2. \A d \in r : t[d] = s[d] /\ d \in Cos
  BY <1>1 DEF Places, Sets
<1> QED BY <1>1, <1>2 DEF Places, Sets

LEMMA PlacesConnected ==
  ASSUME NEW s, NEW t, NEW r, NEW w, NEW b, NEW u, Places(s, r, w, b, u),
         NEW c, Sets(t, s, c, "run"), c \in b, c \notin r
  PROVE  Places(t, r, w, b \ {c}, u)
<1>1. c \in Cos /\ s[c] = "redis"
  BY DEF Places
<1>2. \A d \in r : t[d] = s[d] /\ d \in Cos
  BY <1>1 DEF Places, Sets
<1> QED BY <1>1, <1>2 DEF Places, Sets

LEMMA PlacesUnsubscribed ==
  ASSUME NEW s, NEW t, NEW r, NEW w, NEW b, NEW u, Places(s, r, w, b, u),
         NEW c, Sets(t, s, c, "run"), c \in u
  PROVE  Places(t, r, w, b, u \ {c})
<1>1. c \in Cos /\ s[c] = "subscribed" /\ c \notin r
  BY DEF Places
<1>2. \A d \in r : t[d] = s[d] /\ d \in Cos
  BY <1>1 DEF Places, Sets
<1> QED BY <1>1, <1>2 DEF Places, Sets

(* c, which runs or is about to, is in none of the places.                 *)
LEMMA PlacesNone ==
  ASSUME NEW s, NEW r, NEW w, NEW b, NEW u, Places(s, r, w, b, u),
         NEW c, s[c] \in {"run", "ready"}
  PROVE  c \notin r /\ c \notin w /\ c \notin b /\ c \notin u
BY DEF Places

LEMMA PlacesQuiet ==
  ASSUME NEW s, NEW t, NEW r, NEW w, NEW b, NEW u, Places(s, r, w, b, u),
         NEW c, NEW x \in {"ready", "run", "ended"}, Sets(t, s, c, x), s[c] \in {"run", "ready"}
  PROVE  Places(t, r, w, b, u)
<1>1. c \notin r /\ c \notin w /\ c \notin b /\ c \notin u
  BY PlacesNone
<1>2. \A d \in Cos : t[d] = s[d] \/ (d = c /\ t[d] \in {"ready", "run", "ended"})
  BY DEF Sets
<1> QED BY <1>1, <1>2 DEF Places

LEMMA PlacesAsk ==
  ASSUME NEW s, NEW t, NEW r, NEW w, NEW b, NEW u, Places(s, r, w, b, u),
         NEW c \in Cos, Sets(t, s, c, "redis"), s[c] = "run"
  PROVE  /\ Places(t, r, w \cup {c}, b, u)
         /\ Places(t, r, w, b \cup {c}, u)
         /\ Places(t, r \cup {c}, w, b, u)
<1>1. c \notin r /\ c \notin w /\ c \notin b /\ c \notin u
  BY PlacesNone
<1>2. Places(t, r, w \cup {c}, b, u)
  BY <1>1 DEF Places, Sets
<1>3. Places(t, r, w, b \cup {c}, u)
  BY <1>1 DEF Places, Sets
<1>4. Places(t, r \cup {c}, w, b, u)
  BY <1>1 DEF Places, Sets
<1> QED BY <1>2, <1>3, <1>4

LEMMA PlacesSubscribed ==
  ASSUME NEW s, NEW t, NEW r, NEW w, NEW b, NEW u, Places(s, r, w, b, u),
         NEW c \in Cos, Sets(t, s, c, "subscribed"), s[c] = "run"
  PROVE  Places(t, r, w, b, u \cup {c})
<1>1. c \notin r /\ c \notin w /\ c \notin b /\ c \notin u
  BY PlacesNone
<1> QED BY <1>1 DEF Places, Sets

LEMMA PlacesUnheard ==
  ASSUME NEW s, NEW t, NEW r, NEW w, NEW b, NEW u, Places(s, r, w, b, u),
         NEW c \in Cos, Sets(t, s, c, "subscribed"), s[c] = "run"
  PROVE  Places(t, r \cup {c}, w, b, u)
<1>1. c \notin r /\ c \notin w /\ c \notin b /\ c \notin u
  BY PlacesNone
<1> QED BY <1>1 DEF Places, Sets

LEMMA PlacesForget ==
  ASSUME NEW s, NEW r, NEW w, NEW b, NEW u, Places(s, r, w, b, u), NEW c
  PROVE  /\ c \in b => Places(s, r \cup {c}, w, b, u)
         /\ c \in b => Places(s, r \cup {c}, w, b \ {c}, u)
         /\ c \in w => Places(s, r \cup {c}, w \ {c}, b, u)
         /\ c \in u => Places(s, r \cup {c}, w, b, u \ {c})
         /\ c \in b => Places(s, r, w \cup {c}, b \ {c}, u) \/ c \in r
<1>1. ASSUME c \in b PROVE Places(s, r \cup {c}, w, b, u)
  BY <1>1 DEF Places
<1>2. ASSUME c \in u PROVE Places(s, r \cup {c}, w, b, u \ {c})
  BY <1>2 DEF Places
<1>3. ASSUME c \in b, c \notin r PROVE Places(s, r, w \cup {c}, b \ {c}, u)
  BY <1>3 DEF Places
<1>4. ASSUME c \in b PROVE Places(s, r \cup {c}, w, b \ {c}, u)
  BY <1>4 DEF Places
<1>5. ASSUME c \in w PROVE Places(s, r \cup {c}, w \ {c}, b, u)
  BY <1>5 DEF Places
<1> QED BY <1>1, <1>2, <1>3, <1>4, <1>5

-----------------------------------------------------------------------------
(* Redis: the parts of the invariant that a step leaves alone.             *)

(* What a step may do to the rest of the stack.                            *)
SameRests == \A x : x.k # "co" => (x \in Range(frames') <=> x \in Range(frames))
NoRests   == \A x : x.k # "co" => x \notin Range(frames')

LEMMA TimeoutSame ==
  ASSUME SameRests
  PROVE  InTimeout' <=> InTimeout
BY Frames DEF SameRests, InTimeout

LEMMA NoTimeout ==
  ASSUME NoRests
  PROVE  ~InTimeout'
BY Frames DEF NoRests, InTimeout

LEMMA ContextSame ==
  ASSUME ContextInv, UNCHANGED <<cx, context_, timer>>,
         \A x \in Range(frames') : x.k = "drop" => x \in Range(frames)
  PROVE  ContextInv'
BY DEF ContextInv

(* Who connects: the connection is still made, or never will be; and who   *)
(* is forgotten is somebody else.                                          *)
LEMMA ConnectSame ==
  ASSUME ConnectInv, connect_' = connect_, InTimeout' <=> InTimeout,
         rlost \subseteq rlost', (rlost' \ rlost) \cap Connecting = {}, Making' <=> Making,
         timer = "gone" => timer' = "gone",
         timer' = "timeout" => timer = "timeout" /\ (Is(context_, {"connecting"}) => Is(context_, {"connecting"})'),
         InTimeout => \A i \in 1 .. Len(cx') : cx'[i].s # "up"
  PROVE  ConnectInv' /\ (Connects' <=> Connects) /\ Connecting' = Connecting
<1>1. (Connects' <=> Connects) /\ Connecting' = Connecting
  BY DEF Connects, Connecting
<1>2. ASSUME Connects PROVE connect_ \in rlost' => connect_ \in rlost
  BY <1>2 DEF Connecting
<1>3. ASSUME Connects'
      PROVE  /\ timer' = "gone" \/ Making'
             /\ Making' => connect_' \notin rlost'
             /\ timer' = "timeout" => Is(context_, {"connecting"})'
  BY <1>1, <1>2, <1>3 DEF ConnectInv
<1>4. ASSUME InTimeout'
      PROVE  /\ \A i \in 1 .. Len(cx') : cx'[i].s # "up"
             /\ Making' /\ connect_' # 0 => connect_' \in rlost'
  BY <1>4 DEF ConnectInv
<1>5. connect_' \in Cos \cup {0}
  BY DEF ConnectInv
<1> QED BY <1>1, <1>3, <1>4, <1>5 DEF ConnectInv

LEMMA SubscriptionSame ==
  ASSUME SubscriptionInv, current_' = current_, Len(cx') >= Len(cx), Len(cx) \in Nat, Len(cx') \in Nat,
         \A i \in 1 .. Len(cx) : cx'[i].s = cx[i].s \/ cx[i].s \notin {"up", "closing", "freeing"}
                                   \/ cx'[i].s \in {"up", "closing", "freeing"}
  PROVE  SubscriptionInv' /\ Subscriber' = Subscriber
<1>1. Subscribed' = Subscribed /\ Subscriber' = Subscriber
  BY DEF Subscribed, Subscriber
<1>2. current_ \in Subscriptions /\ current_.i \in 0 .. Len(cx)
  BY DEF SubscriptionInv
<1>3. current_'.i \in 0 .. Len(cx')
  BY <1>2
<1>4. ASSUME Subscribed PROVE Is(current_.i, {"up", "closing", "freeing"})'
  <2>1. Is(current_.i, {"up", "closing", "freeing"})
    BY <1>4 DEF SubscriptionInv
  <2>2. current_.i \in 1 .. Len(cx)
    BY <1>2, <2>1 DEF Is
  <2> QED BY <2>1, <2>2 DEF Is
<1> QED BY <1>1, <1>2, <1>3, <1>4 DEF SubscriptionInv

LEMMA RedisParts ==
  ASSUME RedisInv
  PROVE  /\ OnStack(frames, st) /\ st \in [Cos -> Waitings]
         /\ Connections(cx) /\ Len(cx) \in Nat /\ ContextInv /\ ConnectInv /\ SubscriptionInv
         /\ Places(st, rlost, Asking(cx) \cup Logging, Connecting, Subscriber)
         /\ Writes /\ Logging \cap Asking(cx) = {}
         /\ \A c \in Asking(cx) \cup Logging : c \in Cos /\ st[c] = "redis" /\ c \notin rlost
         /\ \A c \in Connecting : c \in Cos /\ st[c] = "redis"
         /\ \A c \in Subscriber : c \in Cos /\ st[c] = "subscribed" /\ c \notin rlost
         /\ \A c \in rlost : c \in Cos
<1>1. Len(cx) \in Nat
  BY CxType DEF RedisInv
<1>2. st \in [Cos -> Waitings]
  BY DEF RedisInv, OnStack
<1>3. Places(st, rlost, Asking(cx) \cup Logging, Connecting, Subscriber)
  BY DEF RedisInv
<1>4. /\ \A c \in Asking(cx) \cup Logging : c \in Cos /\ st[c] = "redis" /\ c \notin rlost
      /\ \A c \in Connecting : c \in Cos /\ st[c] = "redis"
      /\ \A c \in Subscriber : c \in Cos /\ st[c] = "subscribed" /\ c \notin rlost
      /\ \A c \in rlost : c \in Cos
  BY <1>3 DEF Places
<1> QED BY <1>1, <1>2, <1>3, <1>4 DEF RedisInv

LEMMA WritesSame ==
  ASSUME Writes, UNCHANGED lreqs
  PROVE  Writes' /\ Logging' = Logging
BY DEF Writes, Logging

LEMMA LoopResumes ==
  ASSUME OnStack(frames, st), Loop, NEW c \in Cos, st[c] # "run", Resume(c, <<>>)
  PROVE  OnStack(frames, st)' /\ Sets(st', st, c, "run") /\ NoRests /\ ~InTimeout
<1>1. OnStack(<<>>, st) /\ ~InTimeout
  BY EmptyStack
<1>2. Range(<<>>) = {}
  BY DEF Range
<1>3. PICK below : below = <<>>
  OBVIOUS
<1>4. /\ OnStack(frames, st)'
      /\ \A d \in Cos : st'[d] = IF d = c THEN "run" ELSE st[d]
      /\ \A x : x.k # "co" => (x \in Range(frames') <=> x \in Range(below))
  BY <1>1, <1>3, StackResumes
<1> QED BY <1>1, <1>2, <1>3, <1>4 DEF Sets, NoRests

LEMMA RunningWaits ==
  ASSUME OnStack(frames, st), NEW c \in Cos, Running(c), NEW w \in Waitings, w # "run", Waits(c, w)
  PROVE  OnStack(frames, st)' /\ Sets(st', st, c, w) /\ SameRests /\ st[c] = "run"
BY StackWaits DEF Sets, SameRests

LEMMA RunningCo ==
  ASSUME OnStack(frames, st), NEW c \in Cos, Running(c)
  PROVE  st[c] = "run"
BY StackPop DEF Running

LEMMA CoCrashes ==
  ASSUME OnStack(frames, st), Crashes
  PROVE  Crashed' /\ st' = st
BY StackCrashes DEF Crashes

(* What a step of redis has to show.                                       *)
RedisOnward == (\A c \in rlost : st'[c] = st[c]) /\ (Crashed' \/ RedisInv')

(* The coroutines move and the stack with them, nothing else does.         *)
LEMMA RedisQuiet ==
  ASSUME RedisInv, UNCHANGED <<cx, context_, connect_, timer, current_, rlost, lreqs>>,
         OnStack(frames, st)', SameRests,
         Places(st', rlost, Asking(cx) \cup Logging, Connecting, Subscriber)
  PROVE  RedisInv'
<1>1. /\ ContextInv /\ ConnectInv /\ SubscriptionInv /\ Connections(cx) /\ Len(cx) \in Nat
      /\ Writes /\ Logging \cap Asking(cx) = {}
  BY RedisParts
<1>2. InTimeout' <=> InTimeout
  BY TimeoutSame
<1>3. ContextInv'
  BY <1>1, ContextSame DEF SameRests
<1>4. /\ Making' <=> Making
      /\ Is(context_, {"connecting"})' <=> Is(context_, {"connecting"})
      /\ InTimeout => \A i \in 1 .. Len(cx') : cx'[i].s # "up"
  BY <1>1 DEF Making, Is, ConnectInv
<1>5. rlost \subseteq rlost' /\ (rlost' \ rlost) \cap Connecting = {}
  OBVIOUS
<1>6. ConnectInv' /\ Connecting' = Connecting
  BY <1>1, <1>2, <1>4, <1>5, ConnectSame
<1>7. SubscriptionInv' /\ Subscriber' = Subscriber
  BY <1>1, SubscriptionSame
<1>8. Writes' /\ Logging' = Logging
  BY <1>1, WritesSame
<1> QED BY <1>1, <1>3, <1>6, <1>7, <1>8 DEF RedisInv

LEMMA RedisScript ==
  ASSUME RedisInv, NEW c \in Cos, Begin(c) \/ Sleep(c) \/ End(c), UNCHANGED redisVars, UNCHANGED lreqs
  PROVE  RedisOnward
<1>1. OnStack(frames, st) /\ Places(st, rlost, Asking(cx) \cup Logging, Connecting, Subscriber)
  BY RedisParts
<1>2. UNCHANGED <<cx, context_, connect_, timer, current_, rlost, lreqs>>
  BY DEF redisVars
<1>3. CASE Begin(c)
  <2>1. Loop /\ st[c] = "ready" /\ Resume(c, <<>>)
    BY <1>3 DEF Begin
  <2>2. OnStack(frames, st)' /\ Sets(st', st, c, "run") /\ NoRests /\ Range(frames) = {}
    BY <1>1, <2>1, LoopResumes, EmptyStack
  <2>3. SameRests
    BY <2>2 DEF SameRests, NoRests
  <2>4. Places(st', rlost, Asking(cx) \cup Logging, Connecting, Subscriber)
    BY <1>1, <2>1, <2>2, PlacesQuiet
  <2>5. \A d \in rlost : st'[d] = st[d]
    BY <1>1, <2>1, <2>2 DEF Places, Sets
  <2> QED BY <1>2, <2>2, <2>3, <2>4, <2>5, RedisQuiet DEF RedisOnward
<1>4. CASE Sleep(c) \/ End(c)
  <2>1. PICK w \in {"ready", "ended"} : Running(c) /\ Waits(c, w)
    BY <1>4 DEF Sleep, End, Call
  <2>2. OnStack(frames, st)' /\ Sets(st', st, c, w) /\ SameRests /\ st[c] = "run"
    <3>1. w \in Waitings /\ w # "run"
      BY DEF Waitings
    <3> QED BY <1>1, <2>1, <3>1, RunningWaits
  <2>3. Places(st', rlost, Asking(cx) \cup Logging, Connecting, Subscriber)
    BY <1>1, <2>2, PlacesQuiet
  <2>4. \A d \in rlost : st'[d] = st[d]
    BY <1>1, <2>2 DEF Places, Sets
  <2> QED BY <1>2, <2>2, <2>3, <2>4, RedisQuiet DEF RedisOnward
<1> QED BY <1>3, <1>4

(* A context that takes commands; when it is up nobody connects.           *)
LEMMA OneContext ==
  ASSUME RedisInv
  PROVE  /\ context_ # 0 => context_ \in 1 .. Len(cx) /\ timer # "gone" /\ cx[context_].s \in CxStates
         /\ Is(context_, {"up"}) => ~Connects /\ ~InTimeout /\ Connecting = {}
         /\ \A i \in 1 .. Len(cx) : cx[i].s = "up" => ~Making /\ ~InTimeout
         /\ \A i \in 1 .. Len(cx) : cx[i].s \in {"up", "closing"} => ~Connects \/ timer = "gone"
<1>1. ContextInv /\ ConnectInv /\ Connections(cx) /\ Len(cx) \in Nat
  BY RedisParts
<1>2. context_ # 0 => context_ \in 1 .. Len(cx) /\ timer # "gone"
  BY <1>1 DEF ContextInv
<1>3. context_ # 0 => cx[context_].s \in CxStates
  BY <1>1, <1>2, CxType
<1>4. ASSUME NEW i \in 1 .. Len(cx), cx[i].s = "up" PROVE ~Making /\ ~InTimeout
  BY <1>1, <1>4 DEF ContextInv, ConnectInv, Making
<1>5. ASSUME NEW i \in 1 .. Len(cx), cx[i].s \in {"up", "closing"} PROVE ~Connects \/ timer = "gone"
  <2>1. CASE cx[i].s = "up"
    BY <1>1, <1>4, <2>1 DEF ConnectInv
  <2>2. CASE cx[i].s = "closing"
    BY <1>1, <2>2 DEF ContextInv
  <2> QED BY <1>5, <2>1, <2>2
<1>6. ASSUME Is(context_, {"up"}) PROVE ~Connects /\ ~InTimeout /\ Connecting = {}
  <2>1. context_ \in 1 .. Len(cx) /\ cx[context_].s = "up" /\ timer # "gone"
    BY <1>2, <1>6 DEF Is
  <2>2. ~Connects /\ ~InTimeout
    BY <1>4, <1>5, <2>1
  <2> QED BY <2>2 DEF Connecting
<1> QED BY <1>2, <1>3, <1>4, <1>5, <1>6

(* A request is queued on the connection that is up.                       *)
LEMMA ContextAsk ==
  ASSUME RedisInv, Is(context_, {"up"}), NEW k \in {"default", "quit"}, NEW c \in Cos,
         c \notin Asking(cx), cx' = Queue(cx, context_, k, c), UNCHANGED <<context_, timer>>,
         \A x \in Range(frames') : x.k = "drop" => x \in Range(frames)
  PROVE  /\ ContextInv' /\ Connections(cx') /\ Len(cx') = Len(cx)
         /\ Asking(cx') = Asking(cx) \cup {c}
         /\ \A i \in 1 .. Len(cx) : cx'[i].s = cx[i].s
<1>1. ContextInv /\ Connections(cx) /\ Len(cx) \in Nat
  BY RedisParts
<1>2. PICK m \in 1 .. Len(cx) : m = context_ /\ cx[m].s = "up"
  BY OneContext DEF Is
<1>3. /\ Connections(cx') /\ Len(cx') = Len(cx) /\ Asking(cx') = Asking(cx) \cup {c}
      /\ cx'[m].s = cx[m].s
      /\ \A i \in 1 .. Len(cx) : i # m => cx'[i] = cx[i]
  BY <1>1, <1>2, CxAsk
<1>4. \A i \in 1 .. Len(cx) : cx'[i].s = cx[i].s /\ (cx'[i].q = cx[i].q \/ cx[i].s = "up")
  BY <1>2, <1>3
<1>5. ContextInv'
  BY <1>1, <1>3, <1>4 DEF ContextInv
<1> QED BY <1>3, <1>4, <1>5

(* A coroutine waits: the connections keep their states, and nobody else   *)
(* is forgotten.                                                           *)
LEMMA RedisAsks ==
  ASSUME RedisInv, NEW c \in Cos, SameRests, st[c] = "run",
         UNCHANGED <<context_, connect_, timer, lreqs>>,
         Len(cx') = Len(cx), \A i \in 1 .. Len(cx) : cx'[i].s = cx[i].s,
         rlost' = rlost \/ rlost' = rlost \cup {c}
  PROVE  /\ ConnectInv' /\ Connecting' = Connecting /\ Writes' /\ Logging' = Logging
         /\ c \notin Asking(cx) \cup Logging
<1>1. /\ ConnectInv /\ Writes /\ \A d \in Connecting : st[d] = "redis"
      /\ \A d \in Asking(cx) \cup Logging : st[d] = "redis"
      /\ context_ # 0 => context_ \in 1 .. Len(cx)
  BY RedisParts, OneContext
<1>2. /\ InTimeout' <=> InTimeout
      /\ Making' <=> Making
      /\ Is(context_, {"connecting"}) => Is(context_, {"connecting"})'
      /\ InTimeout => \A i \in 1 .. Len(cx') : cx'[i].s # "up"
  BY <1>1, TimeoutSame DEF Making, Is, ConnectInv
<1>3. c \notin Connecting /\ c \notin Asking(cx) \cup Logging
  BY <1>1
<1>4. rlost \subseteq rlost' /\ (rlost' \ rlost) \cap Connecting = {}
  BY <1>3
<1>5. ConnectInv' /\ Connecting' = Connecting
  BY <1>1, <1>2, <1>4, ConnectSame
<1> QED BY <1>1, <1>3, <1>5, WritesSame

LEMMA RedisCommand ==
  ASSUME RedisInv, NEW c \in Cos, NEW k \in {"default", "quit"}, Command(c, k), UNCHANGED lreqs
  PROVE  RedisOnward
<1>1. /\ OnStack(frames, st) /\ Places(st, rlost, Asking(cx) \cup Logging, Connecting, Subscriber)
      /\ ContextInv /\ SubscriptionInv /\ Connections(cx) /\ Len(cx) \in Nat
      /\ Logging \cap Asking(cx) = {}
  BY RedisParts
<1>2. Running(c) /\ UNCHANGED <<context_, connect_, timer, stages, current_>>
  BY DEF Command, Call
<1>3. CASE Crashes
  <2>1. \A d \in rlost : st'[d] = st[d]
    BY <1>3 DEF Crashes
  <2> QED BY <1>1, <1>3, <2>1, CoCrashes DEF RedisOnward
<1>4. ASSUME Waits(c, "redis")
      PROVE  /\ OnStack(frames, st)' /\ Sets(st', st, c, "redis") /\ SameRests /\ st[c] = "run"
             /\ \A d \in rlost : st'[d] = st[d]
  <2>1. PICK w : w = "redis"
    OBVIOUS
  <2>2. w \in Waitings /\ w # "run" /\ Waits(c, w)
    BY <1>4, <2>1 DEF Waitings
  <2>3. OnStack(frames, st)' /\ Sets(st', st, c, "redis") /\ SameRests /\ st[c] = "run"
    BY <1>1, <1>2, <2>1, <2>2, RunningWaits
  <2> QED BY <1>1, <2>3 DEF Places, Sets
<1>5. CASE /\ Is(context_, {"up"}) /\ Waits(c, "redis") /\ cx' = Queue(cx, context_, k, c)
           /\ rlost' = rlost
  <2>1. c \notin Asking(cx) \cup Logging
    BY <1>4, <1>5, RedisParts
  <2>2. /\ ContextInv' /\ Connections(cx') /\ Len(cx') = Len(cx)
        /\ Asking(cx') = Asking(cx) \cup {c}
        /\ \A i \in 1 .. Len(cx) : cx'[i].s = cx[i].s
    BY <1>2, <1>4, <1>5, <2>1, ContextAsk DEF SameRests
  <2>3. ConnectInv' /\ Connecting' = Connecting /\ Writes' /\ Logging' = Logging
    BY <1>2, <1>4, <1>5, <2>2, RedisAsks
  <2>4. SubscriptionInv' /\ Subscriber' = Subscriber
    BY <1>1, <1>2, <2>2, SubscriptionSame
  <2>5. Places(st', rlost, (Asking(cx) \cup Logging) \cup {c}, Connecting, Subscriber)
    BY <1>1, <1>4, <1>5, PlacesAsk
  <2>6. /\ (Asking(cx) \cup Logging) \cup {c} = Asking(cx') \cup Logging
        /\ Logging \cap Asking(cx') = {}
    BY <1>1, <2>1, <2>2
  <2>7. RedisInv'
    BY <1>4, <1>5, <2>2, <2>3, <2>4, <2>5, <2>6 DEF RedisInv
  <2> QED BY <1>4, <1>5, <2>7 DEF RedisOnward
<1>6. CASE Waits(c, "redis") /\ cx' = cx /\ rlost' = rlost \cup {c}
  <2>1. ContextInv'
    BY <1>1, <1>2, <1>4, <1>6, ContextSame DEF SameRests
  <2>2. ConnectInv' /\ Connecting' = Connecting /\ Writes' /\ Logging' = Logging
    BY <1>2, <1>4, <1>6, RedisAsks
  <2>3. SubscriptionInv' /\ Subscriber' = Subscriber
    BY <1>1, <1>2, <1>6, SubscriptionSame
  <2>4. Places(st', rlost \cup {c}, Asking(cx) \cup Logging, Connecting, Subscriber)
    BY <1>1, <1>4, <1>6, PlacesAsk
  <2>5. RedisInv'
    BY <1>1, <1>4, <1>6, <2>1, <2>2, <2>3, <2>4 DEF RedisInv
  <2> QED BY <1>4, <1>6, <2>5 DEF RedisOnward
<1> QED
  <2>1. Is(context_, {"up", "freed", "failed"})
    BY DEF Command
  <2>2. cx[context_].s \in {"up", "freed", "failed"} /\ (cx[context_].s = "up" => Is(context_, {"up"}))
    BY <2>1 DEF Is
  <2> QED BY <1>3, <1>5, <1>6, <2>2 DEF Command

LEMMA RedisSubscribe ==
  ASSUME RedisInv, NEW c \in Cos, NEW k \in {"channels", "pattern"}, NEW n \in 1 .. 2,
         Subscribe(c, k, n), UNCHANGED lreqs
  PROVE  RedisOnward
<1>1. /\ OnStack(frames, st) /\ Places(st, rlost, Asking(cx) \cup Logging, Connecting, Subscriber)
      /\ ContextInv /\ SubscriptionInv /\ Connections(cx) /\ Len(cx) \in Nat
      /\ Logging \cap Asking(cx) = {}
  BY RedisParts
<1>2. PICK heard : heard = (cx[context_].s = "up")
  OBVIOUS
<1>3. /\ Running(c) /\ Waits(c, "subscribed") /\ current_ = None
      /\ context_ # 0 /\ cx[context_].s \in {"up", "failed"}
      /\ current_' = [k |-> IF heard THEN k ELSE "unheard", c |-> c, left |-> n,
                      i |-> IF heard THEN context_ ELSE 0, stop |-> FALSE]
      /\ rlost' = IF heard THEN rlost ELSE rlost \cup {c}
      /\ UNCHANGED <<cx, context_, connect_, timer, stages>>
  BY <1>2 DEF Subscribe, Call, Is
<1>4. OnStack(frames, st)' /\ Sets(st', st, c, "subscribed") /\ SameRests /\ st[c] = "run"
  <2>1. PICK w : w = "subscribed"
    OBVIOUS
  <2>2. w \in Waitings /\ w # "run" /\ Waits(c, w)
    BY <1>3, <2>1 DEF Waitings
  <2> QED BY <1>1, <1>3, <2>1, <2>2, RunningWaits
<1>5. context_ \in 1 .. Len(cx)
  BY <1>3, OneContext
<1>6. ContextInv'
  BY <1>1, <1>3, <1>4, ContextSame DEF SameRests
<1>7. ConnectInv' /\ Connecting' = Connecting /\ Writes' /\ Logging' = Logging
  BY <1>3, <1>4, RedisAsks
<1>8. Subscriber = {}
  BY <1>3 DEF None, Subscriber, Subscribed
<1>9. /\ current_'.k = (IF heard THEN k ELSE "unheard") /\ current_'.c = c
      /\ current_'.i = (IF heard THEN context_ ELSE 0) /\ current_'.left = n
      /\ current_' \in Subscriptions
  <2>1. current_' \in Subscriptions
    BY <1>1, <1>2, <1>3, <1>5 DEF Subscriptions
  <2> QED BY <1>3, <2>1
<1>10. \A d \in rlost : st'[d] = st[d]
  BY <1>1, <1>4 DEF Places, Sets
<1>11. CASE heard
  <2>1. Subscribed' /\ Subscriber' = {c}
    BY <1>9, <1>11 DEF Subscriber, Subscribed
  <2>2. SubscriptionInv'
    <3>1. current_'.i = context_ /\ current_'.k = k /\ current_'.left = n /\ current_'.c = c
      BY <1>9, <1>11
    <3>2. cx' = cx /\ context_ # 0 /\ cx[context_].s = "up"
      BY <1>2, <1>3, <1>11
    <3>3. Is(current_.i, {"up", "closing", "freeing"})'
      BY <3>1, <3>2 DEF Is
    <3>4. current_'.i \in 0 .. Len(cx') /\ k \notin {"none", "unheard"} /\ n >= 1
      BY <1>1, <1>5, <3>1, <3>2
    <3> QED BY <1>9, <3>1, <3>3, <3>4 DEF SubscriptionInv
  <2>3. Places(st', rlost, Asking(cx) \cup Logging, Connecting, Subscriber \cup {c})
    BY <1>1, <1>4, PlacesSubscribed
  <2>4. Places(st', rlost', Asking(cx') \cup Logging', Connecting', Subscriber')
    BY <1>3, <1>7, <1>8, <1>11, <2>1, <2>3
  <2>5. RedisInv'
    BY <1>1, <1>3, <1>4, <1>6, <1>7, <2>2, <2>4 DEF RedisInv
  <2> QED BY <1>10, <2>5 DEF RedisOnward
<1>12. CASE ~heard
  <2>1. ~Subscribed' /\ Subscriber' = {}
    BY <1>9, <1>12 DEF Subscriber, Subscribed
  <2>2. SubscriptionInv'
    <3>1. current_'.i = 0 /\ 0 \in 0 .. Len(cx')
      BY <1>1, <1>3, <1>9, <1>12
    <3> QED BY <1>9, <2>1, <3>1 DEF SubscriptionInv
  <2>3. Places(st', rlost \cup {c}, Asking(cx) \cup Logging, Connecting, Subscriber)
    BY <1>1, <1>4, PlacesUnheard
  <2>4. Places(st', rlost', Asking(cx') \cup Logging', Connecting', Subscriber')
    BY <1>3, <1>7, <1>8, <1>12, <2>1, <2>3
  <2>5. RedisInv'
    BY <1>1, <1>3, <1>4, <1>6, <1>7, <2>2, <2>4 DEF RedisInv
  <2> QED BY <1>10, <2>5 DEF RedisOnward
<1> QED BY <1>11, <1>12

LEMMA RedisStop ==
  ASSUME RedisInv, NEW c \in Cos, StopAll(c), UNCHANGED lreqs
  PROVE  RedisOnward
<1>1. /\ OnStack(frames, st) /\ Places(st, rlost, Asking(cx) \cup Logging, Connecting, Subscriber)
      /\ ContextInv /\ ConnectInv /\ SubscriptionInv /\ Connections(cx) /\ Len(cx) \in Nat
      /\ Writes /\ Logging \cap Asking(cx) = {}
  BY RedisParts
<1>2. UNCHANGED <<cx, context_, connect_, timer, stages, rlost>>
  BY DEF StopAll
<1>3. CASE Crashes
  BY <1>1, <1>3, CoCrashes DEF RedisOnward
<1>4. CASE current_' = [current_ EXCEPT !.stop = TRUE] /\ UNCHANGED <<frames, st>>
  <2>1. /\ current_' \in Subscriptions /\ current_'.k = current_.k /\ current_'.c = current_.c
        /\ current_'.i = current_.i /\ current_'.left = current_.left
    BY <1>1, <1>4 DEF SubscriptionInv, Subscriptions
  <2>2. Subscribed' = Subscribed /\ Subscriber' = Subscriber
    BY <2>1 DEF Subscriber, Subscribed
  <2>3. SubscriptionInv'
    BY <1>1, <1>2, <2>1, <2>2 DEF SubscriptionInv, Is
  <2>4. ContextInv'
    BY <1>1, <1>2, <1>4, ContextSame
  <2>5. /\ InTimeout' <=> InTimeout
        /\ Making' <=> Making
        /\ Is(context_, {"connecting"})' <=> Is(context_, {"connecting"})
        /\ InTimeout => \A i \in 1 .. Len(cx') : cx'[i].s # "up"
    BY <1>1, <1>2, <1>4 DEF InTimeout, Making, Is, ConnectInv
  <2>6. ConnectInv' /\ Connecting' = Connecting
    <3>1. rlost \subseteq rlost' /\ (rlost' \ rlost) \cap Connecting = {}
      BY <1>2
    <3> QED BY <1>1, <1>2, <2>5, <3>1, ConnectSame
  <2>7. Writes' /\ Logging' = Logging
    BY <1>1, WritesSame
  <2>8. RedisInv'
    BY <1>1, <1>2, <1>4, <2>2, <2>3, <2>4, <2>6, <2>7 DEF RedisInv
  <2> QED BY <1>4, <2>8 DEF RedisOnward
<1> QED BY <1>3, <1>4 DEF StopAll

(* Another connection is made, of the object that is not closed, or none   *)
(* comes of it.                                                            *)
LEMMA ContextMade ==
  ASSUME RedisInv, NEW x \in {"connecting", "failed"},
         x = "connecting" => \A i \in 1 .. Len(cx) : cx[i].s \notin {"up", "connecting"},
         cx' = Append(cx, [s |-> x, q |-> <<>>]), context_' = Len(cx) + 1,
         timer # "gone", timer' # "gone", current_' = current_,
         \A y \in Range(frames') : y.k = "drop" => y \in Range(frames)
  PROVE  /\ ContextInv' /\ Connections(cx') /\ Asking(cx') = Asking(cx)
         /\ SubscriptionInv' /\ Subscriber' = Subscriber
         /\ Len(cx') = Len(cx) + 1 /\ cx'[Len(cx) + 1].s = x
         /\ \A i \in 1 .. Len(cx) : cx'[i] = cx[i]
         /\ \A i : i \in 1 .. Len(cx') <=> i \in 1 .. Len(cx) \/ i = Len(cx) + 1
<1>1. ContextInv /\ SubscriptionInv /\ Connections(cx) /\ Len(cx) \in Nat
  BY RedisParts
<1>2. /\ Connections(cx') /\ Len(cx') = Len(cx) + 1 /\ Asking(cx') = Asking(cx)
      /\ cx'[Len(cx) + 1].s = x /\ cx'[Len(cx) + 1].q = <<>>
      /\ \A m \in 1 .. Len(cx) : cx'[m] = cx[m]
  <2>1. x \in CxStates
    BY DEF CxStates
  <2> QED BY <1>1, <2>1, CxMade
<1>3. \A i : i \in 1 .. Len(cx') <=> i \in 1 .. Len(cx) \/ i = Len(cx) + 1
  BY <1>1, <1>2
<1>4. ASSUME NEW i \in 1 .. Len(cx')
      PROVE  /\ cx'[i].s = "closing" => timer' = "gone"
             /\ cx'[i].q # <<>> => cx'[i].s \in {"up", "closing", "freeing"}
  <2>1. CASE i = Len(cx) + 1
    BY <1>2, <2>1
  <2>2. CASE i \in 1 .. Len(cx)
    BY <1>1, <1>2, <2>2 DEF ContextInv
  <2> QED BY <1>3, <2>1, <2>2
<1>5. ASSUME NEW i \in 1 .. Len(cx'), NEW m \in 1 .. Len(cx'),
             cx'[i].s \in {"connecting", "up"}, cx'[m].s \in {"connecting", "up"}
      PROVE  i = m
  <2>1. CASE x = "connecting"
    BY <1>2, <1>3, <1>5, <2>1
  <2>2. CASE x = "failed"
    <3>1. i \in 1 .. Len(cx) /\ m \in 1 .. Len(cx)
      BY <1>2, <1>3, <1>5, <2>2
    <3> QED BY <1>1, <1>2, <1>5, <3>1 DEF ContextInv
  <2> QED BY <2>1, <2>2
<1>6. ASSUME NEW y \in Range(frames'), y.k = "drop"
      PROVE  y.c \in 1 .. Len(cx') /\ cx'[y.c].s \in {"freeing", "freed"}
  <2>1. y.c \in 1 .. Len(cx) /\ cx[y.c].s \in {"freeing", "freed"}
    BY <1>1, <1>6 DEF ContextInv
  <2> QED BY <1>2, <1>3, <2>1
<1>7. ContextInv'
  <2>1. context_' \in 0 .. Len(cx')
    BY <1>1, <1>2
  <2> QED BY <1>4, <1>5, <1>6, <2>1 DEF ContextInv
<1>8. SubscriptionInv' /\ Subscriber' = Subscriber
  <2>1. Len(cx') >= Len(cx) /\ Len(cx') \in Nat
    BY <1>1, <1>2
  <2> QED BY <1>1, <1>2, <2>1, SubscriptionSame
<1> QED BY <1>2, <1>3, <1>7, <1>8

(* What connect() does, whether the connection can be made or not.         *)
LEMMA RedisConnects ==
  ASSUME RedisInv, NEW c \in Cos, CanConnect(c), Connected(c), timer # "gone"
  PROVE  /\ OnStack(frames, st)' /\ Sets(st', st, c, "redis") /\ SameRests /\ st[c] = "run"
         /\ timer' = "timeout" /\ ~Making /\ Connecting = {}
         /\ c \notin rlost /\ c \notin Asking(cx) \cup Logging
         /\ \A i \in 1 .. Len(cx) : cx[i].s \notin {"up", "connecting"}
         /\ \A d \in rlost : st'[d] = st[d]
<1>1. /\ OnStack(frames, st) /\ Places(st, rlost, Asking(cx) \cup Logging, Connecting, Subscriber)
      /\ Len(cx) \in Nat /\ cx \in Seq(CxRecords)
  BY RedisParts, CxType
<1>2. Running(c) /\ Waits(c, "redis") /\ timer' = "timeout" /\ (connect_ = 0 \/ InTimeout)
  BY DEF CanConnect, Connected, Call
<1>3. OnStack(frames, st)' /\ Sets(st', st, c, "redis") /\ SameRests /\ st[c] = "run"
  <2>1. PICK w : w = "redis"
    OBVIOUS
  <2>2. w \in Waitings /\ w # "run" /\ Waits(c, w)
    BY <1>2, <2>1 DEF Waitings
  <2> QED BY <1>1, <1>2, <2>1, <2>2, RunningWaits
<1>4. \A i \in 1 .. Len(cx) : cx[i].s \notin {"up", "connecting"}
  <2>1. DOMAIN cx = 1 .. Len(cx)
    BY <1>1
  <2> QED BY <2>1 DEF CanConnect
<1>5. ~Making /\ Connecting = {}
  BY <1>2, <1>4 DEF Making, Connecting, Connects
<1>6. c \notin rlost /\ c \notin Asking(cx) \cup Logging
  BY <1>1, <1>3, PlacesNone
<1>7. \A d \in rlost : st'[d] = st[d]
  BY <1>1, <1>3 DEF Places, Sets
<1> QED BY <1>2, <1>3, <1>4, <1>5, <1>6, <1>7

LEMMA RedisConnect ==
  ASSUME RedisInv, NEW c \in Cos, Connect(c)
  PROVE  RedisOnward
<1>1. /\ OnStack(frames, st) /\ Places(st, rlost, Asking(cx) \cup Logging, Connecting, Subscriber)
      /\ ConnectInv /\ Writes /\ Logging \cap Asking(cx) = {} /\ Len(cx) \in Nat
  BY RedisParts
<1>2. /\ CanConnect(c) /\ Connected(c) /\ context_' = Len(cx) + 1 /\ current_' = current_
      /\ cx' = Append(cx, [s |-> "connecting", q |-> <<>>]) /\ connect_' = c
      /\ rlost' = IF InTimeout THEN rlost \cup {c} ELSE rlost
      /\ UNCHANGED lreqs
  BY DEF Connect, Connected, logVars
<1>3. CASE timer = "gone"
  <2>1. Crashes
    BY <1>2, <1>3 DEF Connected
  <2> QED BY <1>1, <2>1, CoCrashes DEF RedisOnward
<1>4. CASE timer # "gone"
  <2>1. /\ OnStack(frames, st)' /\ Sets(st', st, c, "redis") /\ SameRests /\ st[c] = "run"
        /\ timer' = "timeout" /\ Connecting = {}
        /\ c \notin rlost
        /\ \A i \in 1 .. Len(cx) : cx[i].s \notin {"up", "connecting"}
        /\ \A d \in rlost : st'[d] = st[d]
    BY <1>2, <1>4, RedisConnects
  <2>2. PICK x \in {"connecting", "failed"} : x = "connecting"
    OBVIOUS
  <2>3. /\ ContextInv' /\ Connections(cx') /\ Asking(cx') = Asking(cx)
        /\ SubscriptionInv' /\ Subscriber' = Subscriber
        /\ Len(cx') = Len(cx) + 1 /\ cx'[Len(cx) + 1].s = x
        /\ \A i \in 1 .. Len(cx) : cx'[i] = cx[i]
        /\ \A i : i \in 1 .. Len(cx') <=> i \in 1 .. Len(cx) \/ i = Len(cx) + 1
    BY <1>2, <1>4, <2>1, <2>2, ContextMade DEF SameRests
  <2>4. InTimeout' <=> InTimeout
    BY <2>1, TimeoutSame
  <2>5. c # 0 /\ Len(cx) + 1 # 0
    BY <1>1, ScriptAssumption
  <2>6. ConnectInv'
    <3>1. Is(context_, {"connecting"})' /\ Making'
      BY <1>2, <2>2, <2>3, <2>5 DEF Is, Making
    <3>2. \A i \in 1 .. Len(cx') : cx'[i].s # "up"
      BY <2>1, <2>2, <2>3
    <3>3. Connects' => connect_' \notin rlost'
      BY <1>2, <2>1, <2>4 DEF Connects
    <3>4. InTimeout' => connect_' \in rlost'
      BY <1>2, <2>4
    <3> QED BY <1>2, <3>1, <3>2, <3>3, <3>4 DEF ConnectInv
  <2>7. Writes' /\ Logging' = Logging
    BY <1>1, <1>2, WritesSame
  <2>8. Places(st', rlost', Asking(cx') \cup Logging', Connecting', Subscriber')
    <3>1. /\ Places(st', rlost, Asking(cx) \cup Logging, Connecting \cup {c}, Subscriber)
          /\ Places(st', rlost \cup {c}, Asking(cx) \cup Logging, Connecting, Subscriber)
      BY <1>1, <2>1, PlacesAsk
    <3>2. CASE ~InTimeout
      <4>1. Connecting' = Connecting \cup {c} /\ rlost' = rlost
        BY <1>2, <2>1, <2>4, <2>5, <3>2 DEF Connecting, Connects
      <4> QED BY <2>3, <2>7, <3>1, <4>1
    <3>3. CASE InTimeout
      <4>1. Connecting' = Connecting /\ rlost' = rlost \cup {c}
        BY <1>2, <2>1, <2>4, <3>3 DEF Connecting, Connects
      <4> QED BY <2>3, <2>7, <3>1, <4>1
    <3> QED BY <3>2, <3>3
  <2>9. RedisInv'
    BY <1>1, <2>1, <2>3, <2>6, <2>7, <2>8 DEF RedisInv
  <2> QED BY <2>1, <2>9 DEF RedisOnward
<1> QED BY <1>3, <1>4

LEMMA RedisConnectFails ==
  ASSUME RedisInv, NEW c \in Cos, ConnectFails(c)
  PROVE  RedisOnward
<1>1. /\ OnStack(frames, st) /\ Places(st, rlost, Asking(cx) \cup Logging, Connecting, Subscriber)
      /\ ConnectInv /\ Writes /\ Logging \cap Asking(cx) = {} /\ Len(cx) \in Nat
  BY RedisParts
<1>2. /\ CanConnect(c) /\ Connected(c) /\ context_' = Len(cx) + 1 /\ current_' = current_
      /\ cx' = Append(cx, [s |-> "failed", q |-> <<>>]) /\ connect_' = connect_
      /\ (connect_ = 0 \/ InTimeout)
      /\ \/ rlost' = rlost \cup {c} /\ UNCHANGED lreqs
         \/ lreqs' = Append(lreqs, c) /\ rlost' = rlost
  BY DEF ConnectFails, Connected, CanConnect
<1>3. CASE timer = "gone"
  <2>1. Crashes
    BY <1>2, <1>3 DEF Connected
  <2> QED BY <1>1, <2>1, CoCrashes DEF RedisOnward
<1>4. CASE timer # "gone"
  <2>1. /\ OnStack(frames, st)' /\ Sets(st', st, c, "redis") /\ SameRests /\ st[c] = "run"
        /\ timer' = "timeout" /\ ~Making /\ Connecting = {}
        /\ c \notin rlost /\ c \notin Asking(cx) \cup Logging
        /\ \A i \in 1 .. Len(cx) : cx[i].s \notin {"up", "connecting"}
        /\ \A d \in rlost : st'[d] = st[d]
    BY <1>2, <1>4, RedisConnects
  <2>2. PICK x \in {"connecting", "failed"} : x = "failed"
    OBVIOUS
  <2>3. /\ ContextInv' /\ Connections(cx') /\ Asking(cx') = Asking(cx)
        /\ SubscriptionInv' /\ Subscriber' = Subscriber
        /\ Len(cx') = Len(cx) + 1 /\ cx'[Len(cx) + 1].s = x
        /\ \A i \in 1 .. Len(cx) : cx'[i] = cx[i]
        /\ \A i : i \in 1 .. Len(cx') <=> i \in 1 .. Len(cx) \/ i = Len(cx) + 1
    BY <1>2, <1>4, <2>1, <2>2, ContextMade DEF SameRests
  <2>4. InTimeout' <=> InTimeout
    BY <2>1, TimeoutSame
  <2>5. ~Connects' /\ Connecting' = Connecting
    BY <1>2, <2>1, <2>4 DEF Connecting, Connects
  <2>6. ConnectInv'
    <3>1. \A i \in 1 .. Len(cx') : cx'[i].s \notin {"up", "connecting"}
      BY <2>1, <2>2, <2>3
    <3>2. ~Making'
      BY <3>1 DEF Making
    <3> QED BY <1>1, <1>2, <2>5, <3>1, <3>2 DEF ConnectInv
  <2>7. /\ Places(st', rlost \cup {c}, Asking(cx) \cup Logging, Connecting, Subscriber)
        /\ Places(st', rlost, (Asking(cx) \cup Logging) \cup {c}, Connecting, Subscriber)
    BY <1>1, <2>1, PlacesAsk
  <2>8. /\ Writes' /\ Logging' \cap Asking(cx) = {}
        /\ Places(st', rlost', Asking(cx') \cup Logging', Connecting', Subscriber')
    <3>1. CASE rlost' = rlost \cup {c} /\ UNCHANGED lreqs
      <4>1. Writes' /\ Logging' = Logging
        BY <1>1, <3>1, WritesSame
      <4> QED BY <1>1, <2>3, <2>5, <2>7, <3>1, <4>1
    <3>2. CASE lreqs' = Append(lreqs, c) /\ rlost' = rlost
      <4>1. Writes' /\ Logging' = Logging \cup {c}
        BY <1>1, <2>1, <3>2, WritesAppend
      <4>2. (Asking(cx) \cup Logging) \cup {c} = Asking(cx') \cup Logging'
        BY <2>3, <4>1
      <4>3. Logging' \cap Asking(cx) = {}
        BY <1>1, <2>1, <4>1
      <4> QED BY <2>3, <2>5, <2>7, <3>2, <4>1, <4>2, <4>3
    <3> QED BY <1>2, <3>1, <3>2
  <2>9. RedisInv'
    BY <2>1, <2>3, <2>6, <2>8 DEF RedisInv
  <2> QED BY <2>1, <2>9 DEF RedisOnward
<1> QED BY <1>3, <1>4

(* write_cb of what connect() has logged.                                  *)
LEMMA RedisLogged ==
  ASSUME RedisInv, LogWriteCb, UNCHANGED redisVars
  PROVE  RedisOnward
<1>1. /\ OnStack(frames, st) /\ Places(st, rlost, Asking(cx) \cup Logging, Connecting, Subscriber)
      /\ ContextInv /\ ConnectInv /\ SubscriptionInv /\ Connections(cx) /\ Len(cx) \in Nat
      /\ Writes /\ Logging \cap Asking(cx) = {}
  BY RedisParts
<1>2. /\ Loop /\ lreqs # <<>> /\ lreqs' = Tail(lreqs) /\ Resume(Head(lreqs), <<>>)
      /\ UNCHANGED <<cx, context_, connect_, timer, current_, rlost>>
  BY DEF LogWriteCb, redisVars
<1>3. PICK c : c = Head(lreqs)
  OBVIOUS
<1>4. Writes' /\ c \in Logging /\ c \in Cos /\ Logging' = Logging \ {c}
  BY <1>1, <1>2, <1>3, WritesTail
<1>5. st[c] = "redis" /\ c \notin rlost
  BY <1>4, RedisParts
<1>6. OnStack(frames, st)' /\ Sets(st', st, c, "run") /\ NoRests /\ ~InTimeout /\ Range(frames) = {}
  BY <1>1, <1>2, <1>3, <1>4, <1>5, LoopResumes, EmptyStack
<1>7. ~InTimeout'
  BY <1>6, NoTimeout
<1>8. ContextInv'
  BY <1>1, <1>2, <1>6, ContextSame DEF NoRests
<1>9. ConnectInv' /\ Connecting' = Connecting
  <2>1. /\ Making' <=> Making
        /\ Is(context_, {"connecting"})' <=> Is(context_, {"connecting"})
    BY <1>2 DEF Making, Is
  <2>2. rlost \subseteq rlost' /\ (rlost' \ rlost) \cap Connecting = {}
    BY <1>2
  <2> QED BY <1>1, <1>2, <1>6, <1>7, <2>1, <2>2, ConnectSame
<1>10. SubscriptionInv' /\ Subscriber' = Subscriber
  BY <1>1, <1>2, SubscriptionSame
<1>11. Places(st', rlost, (Asking(cx) \cup Logging) \ {c}, Connecting, Subscriber)
  BY <1>1, <1>4, <1>6, PlacesAnswer
<1>12. (Asking(cx) \cup Logging) \ {c} = Asking(cx) \cup Logging' /\ Logging' \cap Asking(cx) = {}
  BY <1>1, <1>4
<1>13. RedisInv'
  BY <1>1, <1>2, <1>4, <1>6, <1>8, <1>9, <1>10, <1>11, <1>12 DEF RedisInv
<1>14. \A d \in rlost : st'[d] = st[d]
  BY <1>1, <1>5, <1>6, PlacesKept
<1> QED BY <1>13, <1>14 DEF RedisOnward

LEMMA RedisTimeoutRest ==
  ASSUME RedisInv, TimeoutRest, UNCHANGED lreqs
  PROVE  RedisOnward
<1>1. /\ OnStack(frames, st) /\ Places(st, rlost, Asking(cx) \cup Logging, Connecting, Subscriber)
      /\ ContextInv /\ ConnectInv /\ SubscriptionInv /\ Connections(cx) /\ Len(cx) \in Nat
      /\ Writes /\ Logging \cap Asking(cx) = {}
  BY RedisParts
<1>2. /\ frames # <<>> /\ Last(frames) = Rest("timeout") /\ frames' = Front(frames) /\ connect_' = 0
      /\ UNCHANGED <<st, calls, cx, context_, timer, stages, current_, rlost>>
  BY DEF TimeoutRest, Returns
<1>3. OnStack(Front(frames), st) /\ Range(frames) = Range(Front(frames)) \cup {Last(frames)}
  BY <1>1, <1>2, StackPop
<1>4. InTimeout
  BY <1>2, <1>3 DEF InTimeout
<1>5. ContextInv'
  BY <1>1, <1>2, <1>3, ContextSame
<1>6. Connecting = {} /\ Connecting' = {} /\ ~Connects'
  BY <1>2, <1>4 DEF Connecting, Connects
<1>7. ConnectInv'
  BY <1>1, <1>2, <1>4, <1>6 DEF ConnectInv
<1>8. SubscriptionInv' /\ Subscriber' = Subscriber
  BY <1>1, <1>2, SubscriptionSame
<1>9. Writes' /\ Logging' = Logging
  BY <1>1, WritesSame
<1>10. RedisInv'
  BY <1>1, <1>2, <1>3, <1>5, <1>6, <1>7, <1>8, <1>9 DEF RedisInv
<1> QED BY <1>2, <1>10 DEF RedisOnward

LEMMA RedisReconnect ==
  ASSUME RedisInv, Reconnect, UNCHANGED lreqs
  PROVE  RedisOnward
<1>1. /\ OnStack(frames, st) /\ Places(st, rlost, Asking(cx) \cup Logging, Connecting, Subscriber)
      /\ ContextInv /\ ConnectInv /\ SubscriptionInv /\ Connections(cx) /\ Len(cx) \in Nat
      /\ Writes /\ Logging \cap Asking(cx) = {}
  BY RedisParts
<1>2. /\ Loop /\ timer = "reconnect"
      /\ UNCHANGED <<st, calls, connect_, stages, current_, rlost>>
  BY DEF Reconnect
<1>3. Writes' /\ Logging' = Logging
  BY <1>1, WritesSame
<1>4. rlost \subseteq rlost' /\ (rlost' \ rlost) \cap Connecting = {}
  BY <1>2
<1>5. CASE frames' = <<Crash>>
  <2>1. frames' = Append(<<>>, Crash)
    BY <1>5
  <2>2. Crashed'
    BY <1>1, <1>2, <2>1, EmptyStack, StackCrashes
  <2> QED BY <1>2, <2>2 DEF RedisOnward
<1>6. CASE timer' = "off" /\ UNCHANGED <<frames, cx, context_>>
  <2>1. ContextInv'
    BY <1>1, <1>2, <1>6 DEF ContextInv
  <2>2. InTimeout' = InTimeout /\ Making' = Making /\ (InTimeout => \A i \in 1 .. Len(cx') : cx'[i].s # "up")
    BY <1>1, <1>2, <1>6 DEF InTimeout, Making, ConnectInv
  <2>3. ConnectInv' /\ Connecting' = Connecting
    BY <1>1, <1>2, <1>4, <1>6, <2>2, ConnectSame
  <2>4. SubscriptionInv' /\ Subscriber' = Subscriber
    BY <1>1, <1>2, <1>6, SubscriptionSame
  <2>5. RedisInv'
    BY <1>1, <1>2, <1>3, <1>6, <2>1, <2>3, <2>4 DEF RedisInv
  <2> QED BY <1>2, <2>5 DEF RedisOnward
<1>7. CASE /\ cx' = Append(cx, [s |-> "failed", q |-> <<>>])
           /\ context_' = Len(cx) + 1 /\ UNCHANGED <<frames, timer>>
  <2>1. PICK x \in {"connecting", "failed"} : x = "failed"
    OBVIOUS
  <2>2. /\ ContextInv' /\ Connections(cx') /\ Asking(cx') = Asking(cx)
        /\ SubscriptionInv' /\ Subscriber' = Subscriber
        /\ Len(cx') = Len(cx) + 1 /\ cx'[Len(cx) + 1].s = x
        /\ \A i \in 1 .. Len(cx) : cx'[i] = cx[i]
        /\ \A i : i \in 1 .. Len(cx') <=> i \in 1 .. Len(cx) \/ i = Len(cx) + 1
    BY <1>2, <1>7, <2>1, ContextMade
  <2>3. ~InTimeout /\ ~InTimeout'
    BY <1>1, <1>2, <1>7, EmptyStack DEF InTimeout
  <2>4. Making' <=> Making
    BY <2>1, <2>2 DEF Making
  <2>5. ConnectInv' /\ Connecting' = Connecting
    BY <1>1, <1>2, <1>4, <1>7, <2>3, <2>4, ConnectSame
  <2>6. RedisInv'
    BY <1>1, <1>2, <1>3, <1>7, <2>2, <2>5 DEF RedisInv
  <2> QED BY <1>2, <2>6 DEF RedisOnward
<1> QED BY <1>5, <1>6, <1>7 DEF Reconnect

(* One connection changes, and with it the one that commands go to.        *)
ContextMove(i) ==
  /\ Len(cx') = Len(cx) /\ \A m \in 1 .. Len(cx) : m # i => cx'[m] = cx[m]
  /\ context_' \in {0, context_}
  /\ cx'[i].s \in {"connecting", "up"} => cx[i].s \in {"connecting", "up"}
  /\ cx'[i].s = "closing" => timer' = "gone"
  /\ cx'[i].q # <<>> => cx'[i].s \in {"up", "closing", "freeing"}
  /\ timer = "gone" => timer' = "gone"
  /\ timer' = "gone" => context_' = 0
  /\ cx[i].s \in {"freeing", "freed"} => cx'[i].s \in {"freeing", "freed"}
  /\ \A x \in Range(frames') : x.k = "drop" =>
       x \in Range(frames) \/ (x.c = i /\ cx'[i].s \in {"freeing", "freed"})

LEMMA ContextMoves ==
  ASSUME ContextInv, Len(cx) \in Nat, NEW i \in 1 .. Len(cx), ContextMove(i)
  PROVE  ContextInv'
<1>1. /\ Len(cx') = Len(cx) /\ \A m \in 1 .. Len(cx) : m # i => cx'[m] = cx[m]
      /\ context_' \in {0, context_} /\ context_' \in 0 .. Len(cx)
  BY DEF ContextMove, ContextInv
<1>2. ASSUME NEW m \in 1 .. Len(cx')
      PROVE  /\ cx'[m].s \in {"connecting", "up"} => cx[m].s \in {"connecting", "up"}
             /\ cx'[m].s = "closing" => timer' = "gone"
             /\ cx'[m].q # <<>> => cx'[m].s \in {"up", "closing", "freeing"}
  <2>1. CASE m = i
    BY <2>1 DEF ContextMove
  <2>2. CASE m # i
    <3>1. cx'[m] = cx[m] /\ m \in 1 .. Len(cx)
      BY <1>1, <2>2
    <3> QED BY <3>1 DEF ContextMove, ContextInv
  <2> QED BY <2>1, <2>2
<1>3. ASSUME NEW x \in Range(frames'), x.k = "drop"
      PROVE  x.c \in 1 .. Len(cx') /\ cx'[x.c].s \in {"freeing", "freed"}
  <2>1. CASE x.c = i /\ cx'[i].s \in {"freeing", "freed"}
    BY <1>1, <2>1
  <2>2. CASE x \in Range(frames)
    <3>1. x.c \in 1 .. Len(cx) /\ cx[x.c].s \in {"freeing", "freed"}
      BY <1>3, <2>2 DEF ContextInv
    <3> QED BY <1>1, <3>1 DEF ContextMove
  <2> QED BY <1>3, <2>1, <2>2 DEF ContextMove
<1>4. timer' = "gone" => context_' = 0
  BY DEF ContextMove
<1>5. \A n, m \in 1 .. Len(cx') :
        cx'[n].s \in {"connecting", "up"} /\ cx'[m].s \in {"connecting", "up"} => n = m
  BY <1>1, <1>2 DEF ContextInv
<1> QED BY <1>1, <1>2, <1>3, <1>4, <1>5 DEF ContextInv

(* It is not the one that is made: not now, or no longer.                  *)
LEMMA MakingMoved ==
  ASSUME ContextInv, Len(cx) \in Nat, NEW i \in 1 .. Len(cx),
         Len(cx') = Len(cx), \A m \in 1 .. Len(cx) : m # i => cx'[m] = cx[m],
         cx'[i].s # "connecting"
  PROVE  /\ cx[i].s = "connecting" => ~Making'
         /\ cx[i].s # "connecting" => (Making' <=> Making)
         /\ Making' => Making
         /\ cx[i].s \in {"connecting", "up"} /\ cx'[i].s \notin {"connecting", "up"} =>
              \A m \in 1 .. Len(cx') : cx'[m].s \notin {"connecting", "up"}
<1>1. ASSUME cx[i].s = "connecting" PROVE ~Making'
  <2>1. ASSUME NEW m \in 1 .. Len(cx'), cx'[m].s = "connecting" PROVE FALSE
    <3>1. m # i /\ cx[m].s = "connecting" /\ m \in 1 .. Len(cx)
      BY <2>1
    <3> QED BY <1>1, <3>1 DEF ContextInv
  <2> QED BY <2>1 DEF Making
<1>2. ASSUME cx[i].s # "connecting" PROVE Making' <=> Making
  <2>1. \A m \in 1 .. Len(cx) : cx'[m].s = "connecting" <=> cx[m].s = "connecting"
    BY <1>2
  <2> QED BY <2>1 DEF Making
<1>3. ASSUME cx[i].s \in {"connecting", "up"}, cx'[i].s \notin {"connecting", "up"},
             NEW m \in 1 .. Len(cx')
      PROVE  cx'[m].s \notin {"connecting", "up"}
  <2>1. CASE m = i
    BY <1>3, <2>1
  <2>2. CASE m # i
    <3>1. cx'[m] = cx[m] /\ m \in 1 .. Len(cx)
      BY <2>2
    <3> QED BY <1>3, <2>2, <3>1 DEF ContextInv
  <2> QED BY <2>1, <2>2
<1> QED BY <1>1, <1>2, <1>3

LEMMA RedisTimeout ==
  ASSUME RedisInv, Timeout, UNCHANGED lreqs
  PROVE  RedisOnward
<1>1. /\ OnStack(frames, st) /\ Places(st, rlost, Asking(cx) \cup Logging, Connecting, Subscriber)
      /\ ContextInv /\ ConnectInv /\ SubscriptionInv /\ Connections(cx) /\ Len(cx) \in Nat
      /\ Logging \cap Asking(cx) = {}
  BY RedisParts
<1>2. /\ Loop /\ timer = "timeout" /\ timer' = "off"
      /\ UNCHANGED <<calls, connect_, current_, rlost>>
  BY DEF Timeout
<1>3. ~InTimeout /\ OnStack(<<>>, st) /\ Range(frames) = {}
  BY <1>1, <1>2, EmptyStack
<1>w. Writes' /\ Logging' = Logging
  BY RedisParts, WritesSame
<1>4. CASE connect_ = 0
  <2>1. UNCHANGED <<frames, st, cx, context_>>
    BY <1>4 DEF Timeout
  <2>2. ContextInv'
    BY <1>1, <1>2, <2>1 DEF ContextInv
  <2>3. ~InTimeout' /\ ~Connects /\ ~Connects' /\ Connecting' = Connecting
    BY <1>2, <1>3, <1>4, <2>1 DEF InTimeout, Connects, Connecting
  <2>4. ConnectInv'
    BY <1>1, <1>2, <2>1, <2>3 DEF ConnectInv
  <2>5. SubscriptionInv' /\ Subscriber' = Subscriber
    BY <1>1, <1>2, <2>1, SubscriptionSame
  <2>6. RedisInv'
    BY <1>1, <1>2, <1>w, <2>1, <2>2, <2>3, <2>4, <2>5 DEF RedisInv
  <2> QED BY <1>2, <2>1, <2>6 DEF RedisOnward
<1>5. CASE connect_ # 0
  <2>1. cx' = [cx EXCEPT ![context_].s = "freed"] /\ context_' = 0
    BY <1>5 DEF Timeout
  <2>2. PICK below : below = <<Rest("timeout")>>
    OBVIOUS
  <2>3. Resume(connect_, below)
    BY <1>5, <2>2 DEF Timeout, FailTo
  <2>a. Connects /\ connect_ \in Cos /\ Is(context_, {"connecting"})
    BY <1>1, <1>2, <1>3, <1>5 DEF ConnectInv, Connects
  <2>5. PICK m \in 1 .. Len(cx) : m = context_ /\ cx[m].s = "connecting" /\ cx[m].q = <<>>
    BY <1>1, <2>a DEF Is, ContextInv
  <2>4. connect_ \in Cos /\ connect_ \notin rlost
    BY <1>1, <2>a, <2>5 DEF ConnectInv, Making
  <2>6. /\ Connections(cx') /\ Len(cx') = Len(cx) /\ Asking(cx') = Asking(cx)
        /\ cx'[m].s = "freed" /\ cx'[m].q = cx[m].q
        /\ \A i \in 1 .. Len(cx) : i # m => cx'[i] = cx[i]
    <3>1. PICK x : x = "freed"
      OBVIOUS
    <3>2. x \in CxStates /\ cx' = Moved(cx, m, x)
      BY <2>1, <2>5, <3>1 DEF CxStates, Moved
    <3> QED BY <1>1, <3>1, <3>2, CxState
  <2>7. below = Append(<<>>, Rest("timeout"))
    BY <2>2
  <2>8. OnStack(below, st) /\ Range(below) = {Rest("timeout")}
    <3>1. Range(<<>>) = {}
      BY DEF Range
    <3>2. PICK x : x = Rest("timeout")
      OBVIOUS
    <3>3. x \in Things /\ x.k # "co"
      BY <3>2, Frames
    <3>4. PICK f : f = <<>>
      OBVIOUS
    <3>5. OnStack(Append(f, x), st) /\ Range(Append(f, x)) = Range(f) \cup {x}
      BY <1>3, <3>3, <3>4, StackPush
    <3> QED BY <2>7, <3>1, <3>2, <3>4, <3>5
  <2>9. /\ OnStack(frames, st)'
        /\ \A d \in Cos : st'[d] = IF d = connect_ THEN "run" ELSE st[d]
        /\ \A x : x.k # "co" => (x \in Range(frames') <=> x = Rest("timeout"))
    <3>1. st[connect_] # "run" /\ Connecting = {connect_}
      <4>1. Connecting = {connect_}
        BY <1>3, <1>5 DEF Connecting, Connects
      <4> QED BY <1>1, <4>1 DEF Places
    <3> QED BY <2>3, <2>4, <2>8, <3>1, StackResumes
  <2>10. Connecting = {connect_} /\ Sets(st', st, connect_, "run")
    BY <1>3, <1>5, <2>9 DEF Connecting, Connects, Sets
  <2>11. Rest("timeout").k # "drop" /\ InTimeout'
    <3>1. Rest("timeout").k # "drop" /\ Rest("timeout").k # "co"
      BY Frames
    <3> QED BY <2>9, <3>1 DEF InTimeout
  <2>12. Connecting' = {} /\ ~Connects'
    BY <2>11 DEF Connecting, Connects
  <2>13. Places(st', rlost, Asking(cx) \cup Logging, {}, Subscriber)
    BY <1>1, <2>4, <2>10, PlacesConnected
  <2>14. ContextInv'
    <3>1. \A x \in Range(frames') : x.k # "drop"
      BY <2>9, <2>11
    <3>2. ContextMove(m)
      BY <1>2, <2>1, <2>5, <2>6, <3>1 DEF ContextMove
    <3> QED BY <1>1, <3>2, ContextMoves
  <2>15. ConnectInv'
    <3>1. ~Making' /\ \A i \in 1 .. Len(cx') : cx'[i].s # "up"
      BY <1>1, <2>5, <2>6, MakingMoved
    <3> QED BY <1>1, <1>2, <2>12, <3>1 DEF ConnectInv
  <2>16. SubscriptionInv' /\ Subscriber' = Subscriber
    <3>1. \A i \in 1 .. Len(cx) : cx'[i].s = cx[i].s \/ cx[i].s \notin {"up", "closing", "freeing"}
      BY <2>5, <2>6
    <3> QED BY <1>1, <1>2, <2>6, <3>1, SubscriptionSame
  <2>17. RedisInv'
    BY <1>1, <1>2, <1>w, <2>6, <2>9, <2>12, <2>13, <2>14, <2>15, <2>16 DEF RedisInv
  <2>18. \A d \in rlost : st'[d] = st[d]
    BY <1>1, <2>4, <2>10, PlacesKept
  <2> QED BY <2>17, <2>18 DEF RedisOnward
<1> QED BY <1>4, <1>5

(* The next stage of connect(): it asks, is lost, or throws.               *)
Sends(c, below, cxs) ==
  \/ frames' = Append(below, Crash)
  \/ frames' = below /\ cx' = cxs /\ rlost' = rlost \cup {c}
  \/ /\ frames' = below /\ context_ # 0 /\ cxs[context_].s = "up"
     /\ cx' = Queue(cxs, context_, "default", c) /\ rlost' = rlost

LEMMA Stage ==
  ASSUME NEW c, NEW below, NEW cxs, NextStage(c, below, cxs)
  PROVE  \/ Resume(c, below) /\ cx' = cxs /\ rlost' = rlost
         \/ UNCHANGED st /\ Sends(c, below, cxs)
<1>1. CASE stages[c] = <<>>
  BY <1>1 DEF NextStage
<1>2. CASE stages[c] # <<>>
  <2>1. PICK s : s = (IF context_ = 0 THEN "null" ELSE cxs[context_].s)
    OBVIOUS
  <2>2. /\ cx' = IF s = "up" THEN Queue(cxs, context_, "default", c) ELSE cxs
        /\ rlost' = IF s = "failed" THEN rlost \cup {c} ELSE rlost
        /\ frames' = IF s \in {"up", "failed"} THEN below ELSE Append(below, Crash)
        /\ UNCHANGED st
    BY <1>2, <2>1 DEF NextStage
  <2>3. s = "up" => context_ # 0 /\ cxs[context_].s = "up"
    BY <2>1
  <2> QED BY <2>2, <2>3 DEF Sends
<1> QED BY <1>1, <1>2

(* cb_connect: with a coroutine that waits, or without.                    *)
LEMMA RedisConnected ==
  ASSUME RedisInv, NEW i \in 1 .. Len(cx), ConnectCb(i), UNCHANGED lreqs
  PROVE  RedisOnward
<1>1. /\ OnStack(frames, st) /\ Places(st, rlost, Asking(cx) \cup Logging, Connecting, Subscriber)
      /\ ContextInv /\ ConnectInv /\ SubscriptionInv /\ Connections(cx) /\ Len(cx) \in Nat
      /\ Logging \cap Asking(cx) = {}
  BY RedisParts
<1>2. /\ Loop /\ cx[i].s = "connecting" /\ connect_' = 0
      /\ UNCHANGED <<calls, context_, timer, current_>>
  BY DEF ConnectCb
<1>3. ~InTimeout /\ OnStack(<<>>, st) /\ Range(frames) = {}
  BY <1>1, <1>2, EmptyStack
<1>4. cx[i].q = <<>> /\ Making
  BY <1>1, <1>2 DEF ContextInv, Making
<1>w. Writes' /\ Logging' = Logging
  BY RedisParts, WritesSame
<1>5. ASSUME connect_ # 0
      PROVE  /\ connect_ \in Cos /\ connect_ \notin rlost /\ Connecting = {connect_}
             /\ st[connect_] = "redis" /\ connect_ \notin Asking(cx) \cup Logging
  <2>1. Connects /\ Connecting = {connect_}
    BY <1>3, <1>5 DEF Connects, Connecting
  <2>2. connect_ \in Cos /\ connect_ \notin rlost
    BY <1>1, <1>4, <1>5, <2>1 DEF ConnectInv
  <2> QED BY <1>1, <2>1, <2>2 DEF Places
<1>6. PICK up : up = [cx EXCEPT ![i].s = "up"]
  OBVIOUS
<1>7. PICK freed : freed = [cx EXCEPT ![i].s = "freed"]
  OBVIOUS
<1>8. /\ Connections(up) /\ Len(up) = Len(cx) /\ Asking(up) = Asking(cx)
      /\ up[i].s = "up" /\ up[i].q = cx[i].q
      /\ \A m \in 1 .. Len(cx) : m # i => up[m] = cx[m]
  <2>1. PICK x : x = "up"
    OBVIOUS
  <2>2. x \in CxStates /\ up = Moved(cx, i, x)
    BY <1>6, <2>1 DEF CxStates, Moved
  <2> QED BY <1>1, <2>1, <2>2, CxState
<1>9. /\ Connections(freed) /\ Len(freed) = Len(cx) /\ Asking(freed) = Asking(cx)
      /\ freed[i].s = "freed" /\ freed[i].q = cx[i].q
      /\ \A m \in 1 .. Len(cx) : m # i => freed[m] = cx[m]
  <2>1. PICK x : x = "freed"
    OBVIOUS
  <2>2. x \in CxStates /\ freed = Moved(cx, i, x)
    BY <1>7, <2>1 DEF CxStates, Moved
  <2> QED BY <1>1, <2>1, <2>2, CxState
<1>10. ~Connects' /\ Connecting' = {}
  BY <1>2 DEF Connects, Connecting
(* What is left to show of the new connections, stack and coroutines.      *)
<1>11. SUFFICES /\ \A d \in rlost : st'[d] = st[d]
                /\ \/ Crashed'
                   \/ /\ Connections(cx') /\ Len(cx') = Len(cx)
                      /\ cx'[i].s \in {"up", "freed"} /\ (cx'[i].q # <<>> => cx'[i].s = "up")
                      /\ \A m \in 1 .. Len(cx) : m # i => cx'[m] = cx[m]
                      /\ OnStack(frames, st)' /\ NoRests /\ Logging \cap Asking(cx') = {}
                      /\ Places(st', rlost', Asking(cx') \cup Logging, {}, Subscriber)
  <2>1. ASSUME /\ Connections(cx') /\ Len(cx') = Len(cx)
               /\ cx'[i].s \in {"up", "freed"} /\ (cx'[i].q # <<>> => cx'[i].s = "up")
               /\ \A m \in 1 .. Len(cx) : m # i => cx'[m] = cx[m]
               /\ OnStack(frames, st)' /\ NoRests /\ Logging \cap Asking(cx') = {}
               /\ Places(st', rlost', Asking(cx') \cup Logging, {}, Subscriber)
        PROVE  RedisInv'
    <3>1. ContextInv'
      <4>1. \A x \in Range(frames') : x.k # "drop"
        BY <2>1 DEF NoRests
      <4>2. timer = "gone" => context_ = 0
        BY <1>1 DEF ContextInv
      <4>3. ContextMove(i)
        BY <1>2, <1>4, <2>1, <4>1, <4>2 DEF ContextMove
      <4> QED BY <1>1, <4>3, ContextMoves
    <3>2. ConnectInv'
      BY <1>2, <1>10, <2>1, NoTimeout DEF ConnectInv
    <3>3. SubscriptionInv' /\ Subscriber' = Subscriber
      <4>1. \A m \in 1 .. Len(cx) : cx'[m].s = cx[m].s \/ cx[m].s \notin {"up", "closing", "freeing"}
        BY <1>2, <2>1
      <4> QED BY <1>1, <1>2, <2>1, <4>1, SubscriptionSame
    <3> QED BY <1>2, <1>10, <1>w, <2>1, <3>1, <3>2, <3>3 DEF RedisInv
  <2> QED BY <2>1 DEF RedisOnward
<1>12. ASSUME connect_ # 0, Resume(connect_, <<>>), rlost' = rlost
       PROVE  /\ OnStack(frames, st)' /\ NoRests /\ \A d \in rlost : st'[d] = st[d]
              /\ Places(st', rlost', Asking(cx) \cup Logging, {}, Subscriber)
  <2>1. OnStack(frames, st)' /\ Sets(st', st, connect_, "run") /\ NoRests
    BY <1>1, <1>2, <1>5, <1>12, LoopResumes
  <2>2. Places(st', rlost, Asking(cx) \cup Logging, {}, Subscriber)
    <3>1. Connecting \ {connect_} = {} /\ connect_ \in Connecting
      BY <1>5, <1>12
    <3>2. Places(st', rlost, Asking(cx) \cup Logging, Connecting \ {connect_}, Subscriber)
      BY <1>1, <1>5, <1>12, <2>1, <3>1, PlacesConnected
    <3> QED BY <3>1, <3>2
  <2> QED BY <1>1, <1>5, <1>12, <2>1, <2>2, PlacesKept
<1>13. ASSUME connect_ = 0, UNCHANGED <<frames, st, rlost>>
       PROVE  /\ OnStack(frames, st)' /\ NoRests /\ \A d \in rlost : st'[d] = st[d]
              /\ Places(st', rlost', Asking(cx) \cup Logging, {}, Subscriber)
  <2>1. Connecting = {}
    BY <1>13 DEF Connecting, Connects
  <2> QED BY <1>1, <1>3, <1>13, <2>1 DEF NoRests
<1>14. CASE /\ cx' = up /\ rlost' = rlost
            /\ IF connect_ = 0 THEN UNCHANGED <<frames, st>> ELSE Resume(connect_, <<>>)
  BY <1>1, <1>8, <1>12, <1>13, <1>14
<1>15. CASE /\ cx' = freed /\ rlost' = rlost
            /\ IF connect_ = 0 THEN UNCHANGED <<frames, st>> ELSE Resume(connect_, <<>>)
  BY <1>1, <1>4, <1>9, <1>12, <1>13, <1>15
<1>16. CASE connect_ # 0 /\ Sends(connect_, <<>>, up) /\ UNCHANGED st
  <2>0. frames' = <<>> => OnStack(frames, st)' /\ NoRests
    BY <1>1, <1>3, <1>16 DEF NoRests, Range
  <2>1. CASE frames' = Append(<<>>, Crash)
    <3>1. PICK below : below = <<>>
      OBVIOUS
    <3>2. Crashed'
      BY <1>3, <2>1, <3>1, StackCrashes
    <3> QED BY <1>16, <3>2
  <2>2. CASE frames' = <<>> /\ cx' = up /\ rlost' = rlost \cup {connect_}
    <3>1. Connecting \ {connect_} = {} /\ connect_ \in Connecting
      BY <1>5, <1>16
    <3>2. Places(st, rlost \cup {connect_}, Asking(cx) \cup Logging, Connecting \ {connect_}, Subscriber)
      BY <1>1, <3>1, PlacesForget
    <3> QED BY <1>1, <1>8, <1>16, <2>0, <2>2, <3>1, <3>2
  <2>3. CASE /\ frames' = <<>> /\ context_ # 0 /\ up[context_].s = "up"
             /\ cx' = Queue(up, context_, "default", connect_) /\ rlost' = rlost
    <3>0. context_ = i
      <4>1. context_ \in 1 .. Len(cx)
        BY <2>3, OneContext
      <4>2. context_ # i => cx[context_].s = "up"
        BY <1>8, <2>3, <4>1
      <4> QED BY <1>1, <1>2, <4>1, <4>2 DEF ContextInv
    <3>1. PICK k \in {"default", "quit"} : k = "default"
      OBVIOUS
    <3>2. /\ Connections(cx') /\ Len(cx') = Len(cx) /\ Asking(cx') = Asking(cx) \cup {connect_}
          /\ cx'[i].s = "up"
          /\ \A m \in 1 .. Len(cx) : m # i => cx'[m] = cx[m]
      <4>1. i \in 1 .. Len(up) /\ connect_ \in Cos /\ connect_ \notin Asking(up)
        BY <1>5, <1>8, <1>16
      <4>2. cx' = Queue(up, i, k, connect_)
        BY <2>3, <3>0, <3>1
      <4> QED BY <1>8, <4>1, <4>2, CxAsk
    <3>3. Places(st, rlost, (Asking(cx) \cup Logging) \cup {connect_}, Connecting \ {connect_}, Subscriber)
      BY <1>1, <1>5, <1>16, PlacesForget
    <3>4. /\ Connecting \ {connect_} = {} /\ Logging \cap Asking(cx') = {}
          /\ (Asking(cx) \cup Logging) \cup {connect_} = Asking(cx') \cup Logging
      BY <1>1, <1>5, <1>16, <3>2
    <3> QED BY <1>16, <2>0, <2>3, <3>2, <3>3, <3>4
  <2> QED BY <1>16, <2>1, <2>2, <2>3 DEF Sends
<1>17. \/ /\ cx' = up /\ rlost' = rlost
          /\ IF connect_ = 0 THEN UNCHANGED <<frames, st>> ELSE Resume(connect_, <<>>)
       \/ /\ cx' = freed /\ rlost' = rlost
          /\ IF connect_ = 0 THEN UNCHANGED <<frames, st>> ELSE Resume(connect_, <<>>)
       \/ connect_ # 0 /\ Sends(connect_, <<>>, up) /\ UNCHANGED st
  <2>1. CASE connect_ # 0 /\ NextStage(connect_, <<>>, up)
    BY <2>1, Stage
  <2>2. CASE connect_ = 0 \/ ~NextStage(connect_, <<>>, up)
    BY <1>6, <1>7, <2>2 DEF ConnectCb, FailTo
  <2> QED BY <2>1, <2>2
<1> QED BY <1>14, <1>15, <1>16, <1>17

LEMMA RedisClose ==
  ASSUME RedisInv, NEW c \in Cos, Close(c), UNCHANGED lreqs
  PROVE  RedisOnward
<1>1. /\ OnStack(frames, st) /\ Places(st, rlost, Asking(cx) \cup Logging, Connecting, Subscriber)
      /\ ContextInv /\ ConnectInv /\ SubscriptionInv /\ Connections(cx) /\ Len(cx) \in Nat
      /\ Writes /\ Logging \cap Asking(cx) = {}
  BY RedisParts
<1>2. /\ Running(c) /\ timer # "gone" /\ context_ # 0
      /\ UNCHANGED <<calls, connect_, stages, current_>>
  BY DEF Close
<1>3. PICK m \in 1 .. Len(cx) : m = context_
  BY <1>2, OneContext
<1>4. CASE Is(context_, {"freed"})
  <2>1. Crashes /\ rlost' = rlost
    BY <1>4 DEF Close
  <2> QED BY <1>1, <2>1, CoCrashes DEF RedisOnward
<1>5. CASE ~Is(context_, {"freed"})
  <2>1. context_' = 0 /\ timer' = "gone" /\ UNCHANGED st
    BY <1>5 DEF Close
  <2>2. rlost' = IF Is(context_, {"connecting"}) /\ connect_ # 0 /\ st[connect_] = "redis"
                 THEN rlost \union {connect_} ELSE rlost
    BY <1>5 DEF Close
  <2>3. PICK x : /\ x \in {"freed", "closing", "freeing"} /\ cx' = Moved(cx, m, x)
                 /\ frames' = frames \/ (frames' = Append(frames, Dropping(m)) /\ x = "freeing")
                 /\ x = "freed" => cx[m].s \in {"connecting", "failed"}
                 /\ cx[m].s = "freeing" => x = "freeing"
    <3>1. CASE Is(context_, {"connecting", "failed"}) /\ UNCHANGED frames
               /\ cx' = [cx EXCEPT ![context_].s = "freed"]
      BY <1>3, <3>1 DEF Moved, Is
    <3>2. CASE Is(context_, {"up"}) /\ UNCHANGED frames
               /\ cx' = [cx EXCEPT ![context_].s = "closing"]
      BY <1>3, <3>2 DEF Moved, Is
    <3>3. CASE Is(context_, {"up"}) /\ cx' = [cx EXCEPT ![context_].s = "freeing"]
               /\ frames' = Append(frames, Dropping(context_))
      BY <1>3, <3>3 DEF Moved, Is
    <3>4. CASE Is(context_, {"freeing"}) /\ UNCHANGED <<cx, frames>>
      <4>1. cx' = Moved(cx, m, "freeing")
        <5>1. cx \in Seq(CxRecords) /\ cx[m] \in CxRecords /\ cx[m].s = "freeing"
          BY <1>1, <1>3, <3>4, CxType DEF Is
        <5>2. [cx[m] EXCEPT !.s = "freeing"] = cx[m]
          BY <5>1 DEF CxRecords
        <5> QED BY <3>4, <5>1, <5>2 DEF Moved
      <4> QED BY <3>4, <1>3, <4>1 DEF Is
    <3> QED BY <1>5, <3>1, <3>2, <3>3, <3>4 DEF Close
  <2>4. /\ Connections(cx') /\ Len(cx') = Len(cx) /\ Asking(cx') = Asking(cx)
        /\ cx'[m].s = x /\ cx'[m].q = cx[m].q
        /\ \A i \in 1 .. Len(cx) : i # m => cx'[i] = cx[i]
    <3>1. PICK y \in CxStates : y = x
      BY <2>3 DEF CxStates
    <3>2. cx' = Moved(cx, m, y)
      BY <2>3, <3>1
    <3> QED BY <1>1, <3>1, <3>2, CxState
  <2>5. Dropping(m).k = "drop" /\ Dropping(m).c = m /\ Dropping(m) \in Things /\ Rest("timeout") # Dropping(m)
    <3>1. m \in Nat
      BY <1>1
    <3>2. "drop" # "timeout"
      OBVIOUS
    <3> QED BY <3>1, <3>2, Frames
  <2>6. /\ OnStack(frames, st)' /\ Range(frames') \subseteq Range(frames) \cup {Dropping(m)}
        /\ Dropping(m) \in Range(frames') => Dropping(m) \in Range(frames) \/ x = "freeing"
        /\ InTimeout' <=> InTimeout
    <3>1. CASE frames' = frames
      BY <1>1, <2>1, <3>1 DEF InTimeout
    <3>2. CASE frames' = Append(frames, Dropping(m)) /\ x = "freeing"
      <4>1. PICK d \in Things : d = Dropping(m) /\ d.k # "co"
        BY <2>5
      <4>2. OnStack(Append(frames, d), st) /\ Range(Append(frames, d)) = Range(frames) \cup {d}
        BY <1>1, <4>1, StackPush
      <4> QED BY <2>1, <2>5, <3>2, <4>1, <4>2 DEF InTimeout
    <3> QED BY <2>3, <3>1, <3>2
  <2>7. ContextInv'
    <3>1. cx'[m].q # <<>> => x \in {"closing", "freeing"}
      BY <1>1, <2>3, <2>4 DEF ContextInv
    <3>2. ASSUME NEW y \in Range(frames'), y.k = "drop"
          PROVE  y \in Range(frames) \/ (y.c = m /\ cx'[m].s \in {"freeing", "freed"})
      BY <2>4, <2>5, <2>6, <3>2
    <3>3. cx[m].s \in {"freeing", "freed"} => x \in {"freeing", "freed"}
      BY <1>3, <1>5, <2>3, <1>2 DEF Is
    <3>4. x \notin {"connecting", "up"}
      BY <2>3
    <3>5. ContextMove(m)
      BY <1>2, <1>3, <2>1, <2>4, <3>1, <3>2, <3>3, <3>4 DEF ContextMove
    <3> QED BY <1>1, <3>5, ContextMoves
  <2>8. (Connects' <=> Connects) /\ Connecting' = Connecting
    BY <1>2, <2>6 DEF Connects, Connecting
  <2>9. ConnectInv'
    <3>1. ASSUME Making' PROVE Making /\ rlost' = rlost
      <4>1. Making /\ cx[m].s # "connecting"
        BY <1>1, <2>3, <2>4, <3>1, MakingMoved
      <4> QED BY <1>3, <2>2, <4>1 DEF Is
    <3>2. InTimeout => \A i \in 1 .. Len(cx') : cx'[i].s # "up"
      BY <1>1, <2>3, <2>4 DEF ConnectInv
    <3> QED BY <1>1, <1>2, <2>1, <2>6, <2>8, <3>1, <3>2 DEF ConnectInv
  <2>10. SubscriptionInv' /\ Subscriber' = Subscriber
    <3>1. \A i \in 1 .. Len(cx) : cx'[i].s = cx[i].s \/ cx[i].s \notin {"up", "closing", "freeing"}
                                   \/ cx'[i].s \in {"up", "closing", "freeing"}
      BY <2>3, <2>4
    <3> QED BY <1>1, <1>2, <2>4, <3>1, SubscriptionSame
  <2>w. Writes' /\ Logging' = Logging
    BY <1>1, WritesSame
  <2>11. Places(st', rlost', Asking(cx') \cup Logging', Connecting', Subscriber')
    <3>1. CASE rlost' = rlost
      BY <1>1, <2>w, <2>1, <2>4, <2>8, <2>10, <3>1
    <3>2. CASE /\ rlost' = rlost \cup {connect_} /\ connect_ # 0
               /\ Is(context_, {"connecting"})
      <4>1. CASE connect_ \in Connecting
        <5>1. Places(st, rlost \cup {connect_}, Asking(cx) \cup Logging, Connecting, Subscriber)
          BY <1>1, <4>1, PlacesForget
        <5> QED BY <2>w, <2>1, <2>4, <2>8, <2>10, <3>2, <5>1
      <4>2. CASE connect_ \notin Connecting
        <5>1. InTimeout
          BY <3>2, <4>2 DEF Connecting, Connects
        <5>2. Making
          BY <1>3, <3>2 DEF Making, Is
        <5>3. rlost' = rlost
          BY <1>1, <3>2, <5>1, <5>2 DEF ConnectInv
        <5> QED BY <3>1, <5>3
      <4> QED BY <4>1, <4>2
    <3> QED BY <2>2, <3>1, <3>2
  <2>12. RedisInv'
    BY <1>1, <2>w, <2>4, <2>6, <2>7, <2>9, <2>10, <2>11 DEF RedisInv
  <2> QED BY <2>1, <2>12 DEF RedisOnward
<1> QED BY <1>4, <1>5

(* The first request of a connection is answered: its coroutine is resumed *)
(* or, in connect(), asks again.                                           *)
LEMMA RedisAnswered ==
  ASSUME RedisInv, NEW i \in 1 .. Len(cx), cx[i].q # <<>>,
         NEW c, c = Head(cx[i].q).c,
         \/ NextStage(c, frames, Popped(i))
         \/ FailTo(c, frames) /\ cx' = Popped(i) /\ UNCHANGED rlost,
         UNCHANGED <<context_, connect_, timer, current_, lreqs>>
  PROVE  RedisOnward
<1>1. /\ OnStack(frames, st) /\ Places(st, rlost, Asking(cx) \cup Logging, Connecting, Subscriber)
      /\ ContextInv /\ ConnectInv /\ SubscriptionInv /\ Connections(cx) /\ Len(cx) \in Nat
      /\ Writes /\ Logging \cap Asking(cx) = {}
  BY RedisParts
<1>2. PICK cxs : cxs = Popped(i)
  OBVIOUS
<1>3. /\ Connections(cxs) /\ Len(cxs) = Len(cx)
      /\ c \in Asking(cx) /\ c \in Cos /\ Asking(cxs) = Asking(cx) \ {c}
      /\ cxs[i].s = cx[i].s
      /\ \A m \in 1 .. Len(cx) : m # i => cxs[m] = cx[m]
  <2>1. cxs = Shorter(cx, i)
    BY <1>2 DEF Popped, Shorter
  <2> QED BY <1>1, <2>1, CxAnswered
<1>4. st[c] = "redis" /\ c \notin rlost
  BY <1>3, RedisParts
<1>5. cx[i].s \in {"up", "closing", "freeing"} /\ i # 0
  BY <1>1 DEF ContextInv
<1>n. c \notin Connecting /\ c \notin Logging
  BY <1>1, <1>3 DEF Places
(* What is left to show of the new connections, stack and coroutines.      *)
<1>6. ASSUME /\ Connections(cx') /\ Len(cx') = Len(cx)
             /\ \A m \in 1 .. Len(cx) : cx'[m].s = cx[m].s
             /\ \A m \in 1 .. Len(cx) : cx'[m].q = cx[m].q \/ cx[m].s \in {"up", "closing", "freeing"}
             /\ OnStack(frames, st)' /\ SameRests
             /\ rlost' = rlost \/ rlost' = rlost \cup {c}
             /\ Asking(cx') \subseteq Asking(cx)
             /\ Places(st', rlost', Asking(cx') \cup Logging, Connecting, Subscriber)
      PROVE  RedisInv'
  <2>1. InTimeout' <=> InTimeout
    BY <1>6, TimeoutSame
  <2>2. ContextInv'
    <3>1. \A x \in Range(frames') : x.k = "drop" => x \in Range(frames)
      BY <1>6 DEF SameRests
    <3> QED BY <1>1, <1>6, <3>1 DEF ContextInv
  <2>3. /\ Making' <=> Making
        /\ Is(context_, {"connecting"})' <=> Is(context_, {"connecting"})
        /\ InTimeout => \A m \in 1 .. Len(cx') : cx'[m].s # "up"
    <3>1. context_ # 0 => context_ \in 1 .. Len(cx)
      BY OneContext
    <3> QED BY <1>1, <1>6, <3>1 DEF Making, Is, ConnectInv
  <2>4. rlost \subseteq rlost' /\ (rlost' \ rlost) \cap Connecting = {}
    BY <1>6, <1>n
  <2>5. ConnectInv' /\ Connecting' = Connecting
    BY <1>1, <2>1, <2>3, <2>4, ConnectSame
  <2>6. SubscriptionInv' /\ Subscriber' = Subscriber
    BY <1>1, <1>6, SubscriptionSame
  <2>7. Writes' /\ Logging' = Logging
    BY <1>1, WritesSame
  <2>8. Logging \cap Asking(cx') = {}
    BY <1>1, <1>6
  <2> QED BY <1>6, <2>2, <2>5, <2>6, <2>7, <2>8 DEF RedisInv
<1>p. /\ \A m \in 1 .. Len(cx) : cxs[m].s = cx[m].s
      /\ \A m \in 1 .. Len(cx) : cxs[m].q = cx[m].q \/ cx[m].s \in {"up", "closing", "freeing"}
      /\ (Asking(cx) \cup Logging) \ {c} = Asking(cxs) \cup Logging
  BY <1>3, <1>5, <1>n
<1>7. CASE Resume(c, frames) /\ cx' = cxs /\ rlost' = rlost
  <2>1. /\ OnStack(frames, st)' /\ SameRests
        /\ \A d \in Cos : st'[d] = IF d = c THEN "run" ELSE st[d]
    <3>1. PICK below : below = frames
      OBVIOUS
    <3>2. /\ OnStack(frames, st)'
          /\ \A d \in Cos : st'[d] = IF d = c THEN "run" ELSE st[d]
          /\ \A x : x.k # "co" => (x \in Range(frames') <=> x \in Range(below))
      BY <1>1, <1>3, <1>4, <1>7, <3>1, StackResumes
    <3> QED BY <3>1, <3>2 DEF SameRests
  <2>2. Sets(st', st, c, "run")
    BY <2>1 DEF Sets
  <2>3. Places(st', rlost, (Asking(cx) \cup Logging) \ {c}, Connecting, Subscriber)
    BY <1>1, <1>3, <2>2, PlacesAnswer
  <2>4. \A d \in rlost : st'[d] = st[d]
    BY <1>1, <1>4, <2>2, PlacesKept
  <2>5. RedisInv'
    BY <1>3, <1>6, <1>7, <1>p, <2>1, <2>3
  <2> QED BY <2>4, <2>5 DEF RedisOnward
<1>8. CASE /\ UNCHANGED st /\ frames' = frames /\ rlost' = rlost
           /\ context_ # 0 /\ cxs[context_].s = "up"
           /\ cx' = Queue(cxs, context_, "default", c)
  <2>1. context_ \in 1 .. Len(cxs) /\ cx[context_].s = "up" /\ c \notin Asking(cxs)
    BY <1>3, <1>8, <1>p, OneContext
  <2>2. /\ Connections(cx') /\ Len(cx') = Len(cxs) /\ Asking(cx') = Asking(cxs) \cup {c}
        /\ cx'[context_].s = cxs[context_].s
        /\ \A m \in 1 .. Len(cxs) : m # context_ => cx'[m] = cxs[m]
    <3>1. PICK k \in {"default", "quit"} : k = "default"
      OBVIOUS
    <3>2. PICK n \in 1 .. Len(cxs) : n = context_
      BY <2>1
    <3>3. cx' = Queue(cxs, n, k, c)
      BY <1>8, <3>1, <3>2
    <3> QED BY <1>3, <2>1, <3>2, <3>3, CxAsk
  <2>3. Asking(cx') = Asking(cx)
    BY <1>3, <2>2
  <2>4. Places(st', rlost', Asking(cx') \cup Logging, Connecting, Subscriber)
    BY <1>1, <1>8, <2>3
  <2>5. SameRests /\ OnStack(frames, st)'
    BY <1>1, <1>8 DEF SameRests
  <2>6. ASSUME NEW m \in 1 .. Len(cx)
        PROVE  /\ cx'[m].s = cx[m].s
               /\ cx'[m].q = cx[m].q \/ cx[m].s \in {"up", "closing", "freeing"}
    <3>1. CASE m = context_
      BY <2>1, <2>2, <3>1, <1>p
    <3>2. CASE m # context_
      BY <1>3, <1>p, <2>2, <3>2
    <3> QED BY <3>1, <3>2
  <2>7. RedisInv'
    BY <1>3, <1>6, <1>8, <2>2, <2>3, <2>4, <2>5, <2>6
  <2> QED BY <1>8, <2>7 DEF RedisOnward
<1>9. CASE UNCHANGED st /\ frames' = frames /\ cx' = cxs /\ rlost' = rlost \cup {c}
  <2>1. Places(st', rlost', Asking(cx') \cup Logging, Connecting, Subscriber)
    <3>1. Places(st, rlost \cup {c}, (Asking(cx) \cup Logging) \ {c}, Connecting, Subscriber)
      BY <1>1, <1>3, PlacesForget
    <3> QED BY <1>9, <1>p, <3>1
  <2>2. SameRests /\ OnStack(frames, st)'
    BY <1>1, <1>9 DEF SameRests
  <2>3. RedisInv'
    BY <1>3, <1>6, <1>9, <1>p, <2>1, <2>2
  <2> QED BY <1>9, <2>3 DEF RedisOnward
<1>10. CASE UNCHANGED st /\ frames' = Append(frames, Crash)
  BY <1>1, <1>10, StackCrashes DEF RedisOnward
<1>11. CASE NextStage(c, frames, Popped(i))
  BY <1>2, <1>7, <1>8, <1>9, <1>10, <1>11, Stage DEF Sends
<1> QED BY <1>2, <1>7, <1>11 DEF FailTo

LEMMA RedisReply ==
  ASSUME RedisInv, NEW i \in 1 .. Len(cx), Reply(i), UNCHANGED lreqs
  PROVE  RedisOnward
<1>1. PICK c : c = Head(cx[i].q).c
  OBVIOUS
<1>2. /\ frames = <<>> /\ cx[i].q # <<>>
      /\ \/ NextStage(c, <<>>, Popped(i))
         \/ FailTo(c, <<>>) /\ cx' = Popped(i) /\ UNCHANGED rlost
      /\ UNCHANGED <<context_, connect_, timer, current_>>
  BY <1>1 DEF Reply, Loop
<1>3. \/ NextStage(c, frames, Popped(i))
      \/ FailTo(c, frames) /\ cx' = Popped(i) /\ UNCHANGED rlost
  BY <1>2
<1> QED BY <1>1, <1>2, <1>3, RedisAnswered

(* The connection ends: every frame below it has the connection freed.     *)
LEMMA DropFrame ==
  ASSUME RedisInv, NEW i \in 1 .. Len(cx), frames # <<>>, Last(frames) = Dropping(i)
  PROVE  cx[i].s \in {"freeing", "freed"} /\ ~Loop
<1>1. OnStack(frames, st) /\ ContextInv /\ Len(cx) \in Nat
  BY RedisParts
<1>2. Last(frames) \in Range(frames)
  BY <1>1, StackPop
<1>3. Dropping(i).k = "drop" /\ Dropping(i).c = i
  BY <1>1, Frames
<1> QED BY <1>1, <1>2, <1>3 DEF ContextInv, Loop

LEMMA RedisDropReply ==
  ASSUME RedisInv, NEW i \in 1 .. Len(cx), DropReply(i), UNCHANGED lreqs
  PROVE  RedisOnward
<1>1. OnStack(frames, st)
  BY RedisParts
<1>2. PICK c : c = Head(cx[i].q).c
  OBVIOUS
<1>3. cx[i].q # <<>> /\ UNCHANGED <<context_, connect_, timer, current_>>
  BY DEF DropReply
<1>4. CASE Crashes
  BY <1>1, <1>3, <1>4, CoCrashes DEF RedisOnward
<1>5. CASE NextStage(c, frames, Popped(i))
  BY <1>2, <1>3, <1>5, RedisAnswered
<1> QED BY <1>2, <1>4, <1>5 DEF DropReply

LEMMA RedisDrop ==
  ASSUME RedisInv, NEW i \in 1 .. Len(cx), Drop(i), UNCHANGED lreqs
  PROVE  RedisOnward
<1>1. /\ OnStack(frames, st) /\ Places(st, rlost, Asking(cx) \cup Logging, Connecting, Subscriber)
      /\ ContextInv /\ ConnectInv /\ SubscriptionInv /\ Connections(cx) /\ Len(cx) \in Nat
      /\ Writes /\ Logging \cap Asking(cx) = {}
  BY RedisParts
<1>w. Writes' /\ Logging' = Logging
  BY <1>1, WritesSame
<1>2. /\ Loop /\ cx[i].s \in {"up", "closing"} /\ frames' = <<Dropping(i)>>
      /\ UNCHANGED <<st, calls, context_, connect_, timer, stages, current_, rlost>>
  BY DEF Drop, Is
<1>3. ~InTimeout /\ OnStack(<<>>, st)
  BY <1>1, <1>2, EmptyStack
<1>4. /\ Connections(cx') /\ Len(cx') = Len(cx) /\ Asking(cx') = Asking(cx)
      /\ cx'[i].s = "freeing" /\ cx'[i].q = cx[i].q
      /\ \A m \in 1 .. Len(cx) : m # i => cx'[m] = cx[m]
  <2>1. PICK x : x = "freeing"
    OBVIOUS
  <2>2. x \in CxStates /\ cx' = Moved(cx, i, x)
    BY <2>1 DEF Drop, CxStates, Moved
  <2> QED BY <1>1, <2>1, <2>2, CxState
<1>5. PICK d : d = Dropping(i)
  OBVIOUS
<1>6. d \in Things /\ d.k = "drop" /\ d.c = i /\ d # Rest("timeout") /\ d.k # "co"
  <2>1. i \in Nat
    BY <1>1
  <2>2. d \in Things /\ d.k = "drop" /\ d.c = i
    BY <1>5, <2>1, Frames
  <2>3. Rest("timeout").k # "drop"
    BY Frames
  <2>4. "drop" # "co"
    OBVIOUS
  <2> QED BY <2>2, <2>3, <2>4
<1>7. OnStack(frames, st)' /\ Range(frames') = {d}
  <2>1. PICK f : f = <<>>
    OBVIOUS
  <2>2. OnStack(Append(f, d), st) /\ Range(Append(f, d)) = Range(f) \cup {d}
    BY <1>3, <1>6, <2>1, StackPush
  <2>3. frames' = Append(f, d) /\ Range(f) = {}
    BY <1>2, <1>5, <2>1 DEF Range
  <2> QED BY <1>2, <2>2, <2>3
<1>8. ~InTimeout'
  BY <1>6, <1>7 DEF InTimeout
<1>9. ContextInv'
  <2>1. cx'[i].s \notin {"connecting", "up", "closing"} /\ cx'[i].s \in {"freeing", "freed"}
    BY <1>4
  <2>2. \A x \in Range(frames') : x.c = i
    BY <1>6, <1>7
  <2>3. context_' = context_ /\ context_' \in {0, context_}
    BY <1>2
  <2>4. timer' = timer /\ (timer = "gone" => context_ = 0)
    BY <1>1, <1>2 DEF ContextInv
  <2>5. ContextMove(i)
    BY <1>4, <2>1, <2>2, <2>3, <2>4 DEF ContextMove
  <2> QED BY <1>1, <2>5, ContextMoves
<1>10. ConnectInv' /\ Connecting' = Connecting
  <2>1. Making' <=> Making
    BY <1>1, <1>2, <1>4, MakingMoved
  <2>2. Is(context_, {"connecting"}) => Is(context_, {"connecting"})'
    <3>1. context_ # 0 => context_ \in 1 .. Len(cx)
      BY OneContext
    <3> QED BY <1>2, <1>4, <3>1 DEF Is
  <2>3. rlost \subseteq rlost' /\ (rlost' \ rlost) \cap Connecting = {}
    BY <1>2
  <2> QED BY <1>1, <1>2, <1>3, <1>8, <2>1, <2>2, <2>3, ConnectSame
<1>11. SubscriptionInv' /\ Subscriber' = Subscriber
  <2>1. \A m \in 1 .. Len(cx) : cx'[m].s = cx[m].s \/ cx'[m].s \in {"up", "closing", "freeing"}
    BY <1>4
  <2> QED BY <1>1, <1>2, <1>4, <2>1, SubscriptionSame
<1>12. RedisInv'
  BY <1>1, <1>w, <1>2, <1>4, <1>7, <1>9, <1>10, <1>11 DEF RedisInv
<1> QED BY <1>2, <1>12 DEF RedisOnward

LEMMA RedisQuit ==
  ASSUME RedisInv, NEW i \in 1 .. Len(cx), CbQuit(i), UNCHANGED lreqs
  PROVE  RedisOnward
<1>1. /\ OnStack(frames, st) /\ Places(st, rlost, Asking(cx) \cup Logging, Connecting, Subscriber)
      /\ ContextInv /\ ConnectInv /\ SubscriptionInv /\ Connections(cx) /\ Len(cx) \in Nat
      /\ Writes /\ Logging \cap Asking(cx) = {}
  BY RedisParts
<1>w. Writes' /\ Logging' = Logging
  BY <1>1, WritesSame
<1>2. /\ Loop /\ cx[i].s \in {"up", "closing"} /\ cx[i].q # <<>>
      /\ context_' = 0 /\ timer' = "gone"
      /\ Resume(Head(cx[i].q).c, <<>>)
      /\ UNCHANGED <<calls, connect_, stages, current_, rlost>>
  BY DEF CbQuit, Is
<1>3. PICK c : c = Head(cx[i].q).c
  OBVIOUS
<1>4. PICK cxs : cxs = Shorter(cx, i)
  OBVIOUS
<1>5. /\ Connections(cxs) /\ Len(cxs) = Len(cx)
      /\ c \in Asking(cx) /\ c \in Cos /\ Asking(cxs) = Asking(cx) \ {c}
      /\ cxs[i].s = cx[i].s
      /\ \A m \in 1 .. Len(cx) : m # i => cxs[m] = cx[m]
  BY <1>1, <1>2, <1>3, <1>4, CxAnswered
<1>6. /\ Connections(cx') /\ Len(cx') = Len(cx) /\ Asking(cx') = Asking(cx) \ {c}
      /\ \A m \in 1 .. Len(cx) :
           /\ cx'[m].s \in {cx[m].s, "closing"} \/ (cx[m].s = "failed" /\ cx'[m].s = "freed")
           /\ cx'[m].q # <<>> => cx'[m].s \in {"up", "closing", "freeing"}
  <2>1. \A m \in 1 .. Len(cx) :
          /\ cxs[m].s = cx[m].s
          /\ cxs[m].q # <<>> => cx[m].s \in {"up", "closing", "freeing"}
    BY <1>1, <1>2, <1>5 DEF ContextInv
  <2>2. CASE context_ = 0
    <3>1. cx' = cxs
      BY <1>4, <2>2 DEF CbQuit, Popped, Shorter
    <3> QED BY <1>5, <2>1, <3>1
  <2>3. CASE context_ # 0
    <3>1. PICK n \in 1 .. Len(cx) : n = context_
      BY <2>3, OneContext
    <3>2. PICK x \in CxStates : x = IF cxs[n].s = "failed" THEN "freed" ELSE "closing"
      BY DEF CxStates
    <3>3. cx' = Moved(cxs, n, x) /\ n \in 1 .. Len(cxs)
      <4>1. cxs \in Seq(CxRecords) /\ DOMAIN cxs = 1 .. Len(cxs)
        BY <1>5, CxType
      <4> QED BY <1>4, <1>5, <2>3, <3>1, <3>2, <4>1 DEF CbQuit, Popped, Shorter, Moved
    <3>4. /\ Connections(cx') /\ Len(cx') = Len(cxs) /\ Asking(cx') = Asking(cxs)
          /\ cx'[n].s = x /\ cx'[n].q = cxs[n].q
          /\ \A m \in 1 .. Len(cxs) : m # n => cx'[m] = cxs[m]
      BY <1>5, <3>3, CxState
    <3> QED BY <1>5, <2>1, <3>2, <3>4
  <2> QED BY <2>2, <2>3
<1>7. st[c] = "redis" /\ c \notin rlost
  BY <1>5, RedisParts
<1>8. OnStack(frames, st)' /\ Sets(st', st, c, "run") /\ NoRests /\ ~InTimeout
  BY <1>1, <1>2, <1>3, <1>5, <1>7, LoopResumes
<1>9. Places(st', rlost, (Asking(cx) \cup Logging) \ {c}, Connecting, Subscriber)
  BY <1>1, <1>5, <1>8, PlacesAnswer
<1>n. (Asking(cx) \cup Logging) \ {c} = Asking(cx') \cup Logging /\ Logging \cap Asking(cx') = {}
  BY <1>1, <1>5, <1>6
<1>10. ~InTimeout' /\ (Connects' <=> Connects) /\ Connecting' = Connecting
  BY <1>2, <1>8, NoTimeout DEF Connects, Connecting
<1>11. ConnectInv'
  <2>1. Making' => Making
    BY <1>6 DEF Making
  <2> QED BY <1>1, <1>2, <1>8, <1>10, <2>1 DEF ConnectInv
<1>12. ContextInv'
  <2>1. \A x \in Range(frames') : x.k # "drop"
    BY <1>8 DEF NoRests
  <2>2. \A n, m \in 1 .. Len(cx') :
          cx'[n].s \in {"connecting", "up"} /\ cx'[m].s \in {"connecting", "up"} => n = m
    <3>1. \A m \in 1 .. Len(cx) : cx'[m].s \in {"connecting", "up"} => cx[m].s \in {"connecting", "up"}
      BY <1>6
    <3> QED BY <1>1, <1>6, <3>1 DEF ContextInv
  <2>3. context_' = 0 /\ 0 \in 0 .. Len(cx') /\ timer' = "gone"
    BY <1>1, <1>2, <1>6
  <2> QED BY <1>6, <2>1, <2>2, <2>3 DEF ContextInv
<1>13. SubscriptionInv' /\ Subscriber' = Subscriber
  <2>1. \A m \in 1 .. Len(cx) : cx'[m].s = cx[m].s \/ cx[m].s \notin {"up", "closing", "freeing"}
                                   \/ cx'[m].s \in {"up", "closing", "freeing"}
    BY <1>6
  <2> QED BY <1>1, <1>2, <1>6, <2>1, SubscriptionSame
<1>14. RedisInv'
  BY <1>w, <1>2, <1>6, <1>8, <1>9, <1>n, <1>10, <1>11, <1>12, <1>13 DEF RedisInv
<1>15. \A d \in rlost : st'[d] = st[d]
  BY <1>1, <1>7, <1>8, PlacesKept
<1> QED BY <1>14, <1>15 DEF RedisOnward

LEMMA RedisDropSubscribed ==
  ASSUME RedisInv, NEW i \in 1 .. Len(cx), DropSubscribed(i), UNCHANGED lreqs
  PROVE  RedisOnward
<1>1. /\ OnStack(frames, st) /\ Places(st, rlost, Asking(cx) \cup Logging, Connecting, Subscriber)
      /\ ContextInv /\ ConnectInv /\ SubscriptionInv /\ Connections(cx) /\ Len(cx) \in Nat
      /\ Writes /\ Logging \cap Asking(cx) = {}
  BY RedisParts
<1>w. Writes' /\ Logging' = Logging
  BY <1>1, WritesSame
<1>2. /\ current_.i = i /\ current_' = None
      /\ UNCHANGED <<calls, cx, context_, connect_, timer, rlost>>
  BY DEF DropSubscribed
<1>3. CASE current_.k = "deleted"
  BY <1>1, <1>2, <1>3, CoCrashes DEF RedisOnward, DropSubscribed
<1>4. CASE current_.k # "deleted"
  <2>1. Subscribed /\ current_.c \in Cos /\ Subscriber = {current_.c}
    <3>1. current_.k \in {"none", "channels", "pattern", "deleted", "unheard"} /\ i # 0
      BY <1>1 DEF SubscriptionInv, Subscriptions
    <3>0. current_.k \notin {"none", "unheard"}
      BY <1>1, <1>2, <3>1 DEF SubscriptionInv
    <3>2. Subscribed
      BY <1>4, <3>0, <3>1 DEF Subscribed
    <3> QED BY <1>1, <3>2 DEF SubscriptionInv, Subscriber
  <2>2. st[current_.c] = "subscribed" /\ current_.c \notin rlost
    BY <1>1, <2>1 DEF Places
  <2>3. PICK below : /\ Resume(current_.c, below)
                     /\ below = frames \/ below = Append(frames, Crash)
    BY <1>4 DEF DropSubscribed, FailTo
  <2>4. OnStack(below, st) /\ \A x : x # Crash => (x \in Range(below) <=> x \in Range(frames))
    <3>1. CASE below = frames
      BY <1>1, <3>1
    <3>2. CASE below = Append(frames, Crash)
      <4>1. PICK x \in Things : x = Crash /\ x.k # "co"
        <5>1. Crash \in Things /\ Crash.k # "co"
          BY Frames
        <5> QED BY <5>1
      <4>2. OnStack(Append(frames, x), st) /\ Range(Append(frames, x)) = Range(frames) \cup {x}
        BY <1>1, <4>1, StackPush
      <4> QED BY <3>2, <4>1, <4>2
    <3> QED BY <2>3, <3>1, <3>2
  <2>5. /\ OnStack(frames, st)'
        /\ \A d \in Cos : st'[d] = IF d = current_.c THEN "run" ELSE st[d]
        /\ \A x : x.k # "co" => (x \in Range(frames') <=> x \in Range(below))
    BY <2>1, <2>2, <2>3, <2>4, StackResumes
  <2>6. InTimeout' <=> InTimeout
    <3>1. Rest("timeout") # Crash /\ Rest("timeout").k # "co"
      BY Frames
    <3> QED BY <2>4, <2>5, <3>1 DEF InTimeout
  <2>7. ContextInv'
    <3>1. \A x : x.k = "drop" => x # Crash /\ x.k # "co"
      BY Frames
    <3>2. \A x \in Range(frames') : x.k = "drop" => x \in Range(frames)
      BY <2>4, <2>5, <3>1
    <3> QED BY <1>1, <1>2, <3>2, ContextSame
  <2>9. ConnectInv' /\ Connecting' = Connecting
    <3>1. /\ Making' <=> Making
          /\ Is(context_, {"connecting"})' <=> Is(context_, {"connecting"})
          /\ InTimeout => \A m \in 1 .. Len(cx') : cx'[m].s # "up"
      BY <1>1, <1>2 DEF Making, Is, ConnectInv
    <3>2. rlost \subseteq rlost' /\ (rlost' \ rlost) \cap Connecting = {}
      BY <1>2
    <3> QED BY <1>1, <1>2, <2>6, <3>1, <3>2, ConnectSame
  <2>10. SubscriptionInv' /\ Subscriber' = {}
    <3>1. current_' \in Subscriptions
      BY <1>2 DEF Subscriptions, None
    <3>2. ~Subscribed' /\ current_'.i = 0 /\ 0 \in 0 .. Len(cx')
      BY <1>1, <1>2 DEF Subscribed, None
    <3> QED BY <3>1, <3>2 DEF SubscriptionInv, Subscriber
  <2>11. Sets(st', st, current_.c, "run") /\ Subscriber \ {current_.c} = {}
    BY <2>1, <2>5 DEF Sets
  <2>12. Places(st', rlost, Asking(cx) \cup Logging, Connecting, Subscriber \ {current_.c})
    BY <1>1, <2>1, <2>11, PlacesUnsubscribed
  <2>13. RedisInv'
    BY <1>1, <1>w, <1>2, <2>5, <2>7, <2>9, <2>10, <2>11, <2>12 DEF RedisInv
  <2>14. \A d \in rlost : st'[d] = st[d]
    BY <1>1, <2>2, <2>11, PlacesKept
  <2> QED BY <2>13, <2>14 DEF RedisOnward
<1> QED BY <1>3, <1>4

LEMMA RedisDropped ==
  ASSUME RedisInv, NEW i \in 1 .. Len(cx), Dropped(i), UNCHANGED lreqs
  PROVE  RedisOnward
<1>1. /\ OnStack(frames, st) /\ Places(st, rlost, Asking(cx) \cup Logging, Connecting, Subscriber)
      /\ ContextInv /\ ConnectInv /\ SubscriptionInv /\ Connections(cx) /\ Len(cx) \in Nat
      /\ Writes /\ Logging \cap Asking(cx) = {}
  BY RedisParts
<1>w. Writes' /\ Logging' = Logging
  BY <1>1, WritesSame
<1>2. /\ frames # <<>> /\ Last(frames) = Dropping(i) /\ cx[i].q = <<>> /\ current_.i # i
      /\ frames' = Front(frames) /\ timer' = IF context_ = 0 THEN timer ELSE "reconnect"
      /\ UNCHANGED <<st, calls, context_, connect_, stages, current_, rlost>>
  BY DEF Dropped
<1>3. cx[i].s \in {"freeing", "freed"}
  BY <1>2, DropFrame
<1>4. /\ Connections(cx') /\ Len(cx') = Len(cx) /\ Asking(cx') = Asking(cx)
      /\ cx'[i].s = "freed" /\ cx'[i].q = cx[i].q
      /\ \A m \in 1 .. Len(cx) : m # i => cx'[m] = cx[m]
  <2>1. PICK y : y = "freed"
    OBVIOUS
  <2>2. y \in CxStates /\ cx' = Moved(cx, i, y)
    <3>1. cx' = [cx EXCEPT ![i].s = "freed"]
      BY DEF Dropped
    <3>2. Moved(cx, i, y) = [cx EXCEPT ![i].s = "freed"]
      BY <2>1 DEF Moved
    <3> QED BY <2>1, <3>1, <3>2 DEF CxStates
  <2>3. /\ Connections(Moved(cx, i, y)) /\ Len(Moved(cx, i, y)) = Len(cx)
        /\ Asking(Moved(cx, i, y)) = Asking(cx)
        /\ Moved(cx, i, y)[i].s = y /\ Moved(cx, i, y)[i].q = cx[i].q
        /\ \A m \in 1 .. Len(cx) : m # i => Moved(cx, i, y)[m] = cx[m]
    BY <1>1, <2>2, CxState
  <2> QED BY <2>1, <2>2, <2>3
<1>5. OnStack(frames, st)' /\ Range(frames) = Range(frames') \cup {Dropping(i)}
  BY <1>1, <1>2, StackPop
<1>6. InTimeout' <=> InTimeout
  <2>1. Rest("timeout") # Dropping(i)
    <3>1. i \in Nat /\ "drop" # "timeout"
      BY <1>1
    <3> QED BY <3>1, Frames
  <2> QED BY <1>5, <2>1 DEF InTimeout
<1>7. timer' = "gone" <=> timer = "gone"
  <2>1. timer = "gone" => context_ = 0
    BY <1>1 DEF ContextInv
  <2> QED BY <1>2, <2>1
<1>8. ContextInv'
  <2>1. timer' = "gone" => context_' = 0
    BY <1>1, <1>2, <1>7 DEF ContextInv
  <2>2. cx'[i].s \notin {"connecting", "up", "closing"} /\ cx'[i].s \in {"freeing", "freed"}
    BY <1>4
  <2>3. \A x \in Range(frames') : x \in Range(frames)
    BY <1>5
  <2>4. ContextMove(i)
    BY <1>2, <1>4, <1>7, <2>1, <2>2, <2>3 DEF ContextMove
  <2> QED BY <1>1, <2>4, ContextMoves
<1>10. ConnectInv' /\ Connecting' = Connecting
  <2>1. Is(context_, {"connecting"}) => Is(context_, {"connecting"})'
    <3>1. context_ # 0 => context_ \in 1 .. Len(cx)
      BY OneContext
    <3> QED BY <1>2, <1>3, <1>4, <3>1 DEF Is
  <2>2. Making' <=> Making
    BY <1>1, <1>3, <1>4, MakingMoved
  <2>3. InTimeout => \A m \in 1 .. Len(cx') : cx'[m].s # "up"
    BY <1>1, <1>4 DEF ConnectInv
  <2>4. timer' = "timeout" => timer = "timeout"
    BY <1>2
  <2>5. rlost \subseteq rlost' /\ (rlost' \ rlost) \cap Connecting = {}
    BY <1>2
  <2> QED BY <1>1, <1>2, <1>6, <1>7, <2>1, <2>2, <2>3, <2>4, <2>5, ConnectSame
<1>11. Subscriber' = Subscriber /\ Subscribed' = Subscribed
  BY <1>2 DEF Subscriber, Subscribed
<1>12. SubscriptionInv'
  <2>1. Is(current_.i, {"up", "closing", "freeing"}) => Is(current_.i, {"up", "closing", "freeing"})'
    <3>1. current_.i \in 0 .. Len(cx)
      BY <1>1 DEF SubscriptionInv
    <3> QED BY <1>1, <1>2, <1>4, <3>1 DEF Is
  <2> QED BY <1>1, <1>2, <1>4, <1>11, <2>1 DEF SubscriptionInv
<1>13. RedisInv'
  BY <1>1, <1>w, <1>2, <1>4, <1>5, <1>8, <1>10, <1>11, <1>12 DEF RedisInv
<1> QED BY <1>2, <1>13 DEF RedisOnward

(* Nothing but the subscription changes: who subscribed is forgotten, told *)
(* or has less to wait for.                                                *)
LEMMA RedisSubscription ==
  ASSUME RedisInv, UNCHANGED <<cx, context_, connect_, timer, lreqs>>,
         OnStack(frames, st)', NoRests, Loop,
         rlost \subseteq rlost', (rlost' \ rlost) \cap Connecting = {},
         SubscriptionInv', Places(st', rlost', Asking(cx) \cup Logging, Connecting, Subscriber')
  PROVE  RedisInv'
<1>1. /\ ContextInv /\ ConnectInv /\ Connections(cx) /\ OnStack(frames, st)
      /\ Writes /\ Logging \cap Asking(cx) = {}
  BY RedisParts
<1>2. ~InTimeout /\ ~InTimeout'
  BY <1>1, EmptyStack, NoTimeout
<1>3. ContextInv'
  BY <1>1, ContextSame DEF NoRests
<1>4. ConnectInv' /\ Connecting' = Connecting
  <2>1. (Making' <=> Making) /\ (Is(context_, {"connecting"})' <=> Is(context_, {"connecting"}))
    BY DEF Making, Is
  <2> QED BY <1>1, <1>2, <2>1, ConnectSame
<1>5. Writes' /\ Logging' = Logging
  BY <1>1, WritesSame
<1> QED BY <1>1, <1>3, <1>4, <1>5 DEF RedisInv

LEMMA RedisPattern ==
  ASSUME RedisInv, CbPattern, UNCHANGED lreqs
  PROVE  RedisOnward
<1>1. /\ OnStack(frames, st) /\ Places(st, rlost, Asking(cx) \cup Logging, Connecting, Subscriber)
      /\ ContextInv /\ ConnectInv /\ SubscriptionInv /\ Connections(cx) /\ Len(cx) \in Nat
      /\ Writes /\ Logging \cap Asking(cx) = {}
  BY RedisParts
<1>w. Writes' /\ Logging' = Logging
  BY <1>1, WritesSame
<1>2. /\ Loop /\ Is(current_.i, {"up"}) /\ current_.k \in {"pattern", "deleted"}
      /\ current_' = [current_ EXCEPT !.k = "deleted"]
      /\ rlost' = rlost \union {current_.c}
      /\ UNCHANGED <<st, calls, cx, context_, connect_, timer, stages>>
  BY DEF CbPattern
<1>3. OnStack(<<>>, st) /\ Range(<<>>) = {}
  BY <1>1, <1>2, EmptyStack DEF Range
<1>4. CASE current_.k = "deleted"
  <2>1. frames' = Append(<<>>, Crash)
    BY <1>4 DEF CbPattern
  <2> QED BY <1>2, <1>3, <2>1, StackCrashes DEF RedisOnward
<1>5. CASE current_.k = "pattern"
  <2>1. frames' = <<>>
    BY <1>5 DEF CbPattern
  <2>2. OnStack(frames, st)' /\ NoRests
    BY <1>2, <1>3, <2>1 DEF NoRests
  <2>3. rlost \subseteq rlost' /\ (rlost' \ rlost) \cap Connecting = {}
    <3>1. current_.c \in Subscriber
      BY <1>5 DEF Subscriber, Subscribed
    <3>2. current_.c \notin Connecting
      BY <3>1, RedisParts
    <3> QED BY <1>2, <3>2
  <2>4. Subscriber = {current_.c}
    BY <1>5 DEF Subscriber, Subscribed
  <2>5. current_' \in Subscriptions /\ current_'.k = "deleted" /\ current_'.i = current_.i
    BY <1>1, <1>2 DEF SubscriptionInv, Subscriptions
  <2>6. ~Subscribed' /\ Subscriber' = {}
    BY <2>5 DEF Subscriber, Subscribed
  <2>7. SubscriptionInv'
    BY <1>1, <1>2, <2>5, <2>6 DEF SubscriptionInv
  <2>8. Places(st, rlost \cup {current_.c}, Asking(cx) \cup Logging, Connecting, Subscriber \ {current_.c})
    BY <1>1, <2>4, PlacesForget
  <2>9. Subscriber \ {current_.c} = Subscriber'
    BY <2>4, <2>6
  <2>10. RedisInv'
    BY <1>2, <2>2, <2>3, <2>7, <2>8, <2>9, RedisSubscription
  <2> QED BY <1>2, <2>10 DEF RedisOnward
<1> QED BY <1>2, <1>4, <1>5

LEMMA RedisUnsubscribe ==
  ASSUME RedisInv, CbUnsubscribe, UNCHANGED lreqs
  PROVE  RedisOnward
<1>1. /\ OnStack(frames, st) /\ Places(st, rlost, Asking(cx) \cup Logging, Connecting, Subscriber)
      /\ ContextInv /\ ConnectInv /\ SubscriptionInv /\ Connections(cx) /\ Len(cx) \in Nat
      /\ Writes /\ Logging \cap Asking(cx) = {}
  BY RedisParts
<1>w. Writes' /\ Logging' = Logging
  BY <1>1, WritesSame
<1>2. /\ Loop /\ Is(current_.i, {"up"}) /\ current_.k = "channels"
      /\ UNCHANGED <<calls, cx, context_, connect_, timer, stages, rlost>>
  BY DEF CbUnsubscribe
<1>3. Subscribed /\ current_.c \in Cos /\ Subscriber = {current_.c} /\ current_.left >= 1
  BY <1>1, <1>2 DEF Subscribed, SubscriptionInv, Subscriber
<1>4. st[current_.c] = "subscribed" /\ current_.c \notin rlost
  BY <1>1, <1>3 DEF Places
<1>5. rlost \subseteq rlost' /\ (rlost' \ rlost) \cap Connecting = {}
  BY <1>2
<1>6. CASE current_.left = 1
  <2>1. current_' = None /\ Resume(current_.c, <<>>)
    BY <1>6 DEF CbUnsubscribe
  <2>2. OnStack(frames, st)' /\ Sets(st', st, current_.c, "run") /\ NoRests
    BY <1>1, <1>2, <1>3, <1>4, <2>1, LoopResumes
  <2>3. SubscriptionInv' /\ Subscriber' = {}
    <3>1. current_' \in Subscriptions
      BY <2>1 DEF Subscriptions, None
    <3>2. ~Subscribed' /\ current_'.i = 0 /\ 0 \in 0 .. Len(cx')
      BY <1>1, <1>2, <2>1 DEF Subscribed, None
    <3> QED BY <3>1, <3>2 DEF SubscriptionInv, Subscriber
  <2>4. Places(st', rlost, Asking(cx) \cup Logging, Connecting, Subscriber \ {current_.c})
    BY <1>1, <1>3, <2>2, PlacesUnsubscribed
  <2>5. Subscriber \ {current_.c} = Subscriber'
    BY <1>3, <2>3
  <2>6. RedisInv'
    BY <1>2, <1>5, <2>2, <2>3, <2>4, <2>5, RedisSubscription
  <2>7. \A d \in rlost : st'[d] = st[d]
    BY <1>1, <1>4, <2>2, PlacesKept
  <2> QED BY <2>6, <2>7 DEF RedisOnward
<1>7. CASE current_.left # 1
  <2>1. current_' = [current_ EXCEPT !.left = @ - 1] /\ UNCHANGED <<frames, st>>
    BY <1>7 DEF CbUnsubscribe
  <2>2. current_.left \in Nat /\ current_.left >= 2
    BY <1>1, <1>3, <1>7 DEF SubscriptionInv, Subscriptions
  <2>3. current_.left - 1 \in Nat /\ current_.left - 1 >= 1
    BY <2>2
  <2>4. /\ current_' \in Subscriptions /\ current_'.k = current_.k /\ current_'.i = current_.i
        /\ current_'.c = current_.c /\ current_'.left >= 1
    BY <1>1, <2>1, <2>3 DEF SubscriptionInv, Subscriptions
  <2>5. Subscribed' = Subscribed /\ Subscriber' = Subscriber
    BY <2>4 DEF Subscriber, Subscribed
  <2>6. SubscriptionInv'
    BY <1>1, <1>2, <1>3, <2>4, <2>5 DEF SubscriptionInv, Is
  <2>7. OnStack(frames, st)' /\ NoRests
    <3>1. Range(frames') = {}
      BY <1>1, <1>2, <2>1, EmptyStack
    <3> QED BY <1>1, <2>1, <3>1 DEF NoRests
  <2>8. RedisInv'
    BY <1>1, <1>2, <1>5, <2>1, <2>5, <2>6, <2>7, RedisSubscription
  <2> QED BY <2>1, <2>8 DEF RedisOnward
<1> QED BY <1>6, <1>7

(* A process that has crashed does nothing.                                *)
LEMMA CrashStays ==
  ASSUME Crashed
  PROVE  /\ ~Loop /\ ~Returns("timeout")
         /\ \A c \in Cos : ~Running(c)
         /\ \A i : Last(frames) # Dropping(i)
         /\ \A m : Last(frames) # InfoCheck(m)
<1>1. frames # <<>> /\ Last(frames) = Crash
  BY DEF Crashed
<1>2. \A c \in Cos : Frame(c) # Crash
  BY Frames
<1>3. Rest("timeout") # Crash
  BY Frames
<1>4. \A i : Crash # Dropping(i)
  BY DEF Crash, Rest, Dropping
<1>5. \A m : Crash # InfoCheck(m)
  BY DEF Crash, Rest, InfoCheck
<1> QED BY <1>1, <1>2, <1>3, <1>4, <1>5 DEF Loop, Returns, Running

LEMMA RedisStep ==
  ASSUME Crashed \/ RedisInv, RedisNext
  PROVE  RedisOnward
<1>1. ASSUME RedisInv PROVE DOMAIN cx = 1 .. Len(cx)
  <2>1. cx \in Seq(CxRecords)
    BY <1>1 DEF RedisInv, Connections
  <2> QED BY <2>1
<1>2. ASSUME NEW c \in Cos, UNCHANGED lreqs,
             \/ Close(c) \/ StopAll(c)
             \/ \E k \in {"default", "quit"} : Command(c, k)
             \/ \E n \in 1 .. 2 : Subscribe(c, "channels", n)
             \/ Subscribe(c, "pattern", 1)
             \/ (Begin(c) \/ Sleep(c) \/ End(c)) /\ UNCHANGED redisVars
      PROVE  RedisOnward
  <2>1. Running(c) \/ Loop
    BY <1>2 DEF Close, StopAll, Command, Subscribe, Begin, Sleep, End, Call
  <2>2. RedisInv /\ ~Crashed
    BY <2>1, CrashStays
  <2>4. CASE Close(c)
    BY <1>2, <2>2, <2>4, RedisClose
  <2>5. CASE StopAll(c)
    BY <1>2, <2>2, <2>5, RedisStop
  <2>6. CASE \E k \in {"default", "quit"} : Command(c, k)
    BY <1>2, <2>2, <2>6, RedisCommand
  <2>7. CASE \E n \in 1 .. 2 : Subscribe(c, "channels", n)
    <3>1. PICK n \in 1 .. 2 : Subscribe(c, "channels", n)
      BY <2>7
    <3>2. PICK k \in {"channels", "pattern"} : Subscribe(c, k, n)
      BY <3>1
    <3> QED BY <1>2, <2>2, <3>2, RedisSubscribe
  <2>8. CASE Subscribe(c, "pattern", 1)
    <3>1. PICK k \in {"channels", "pattern"} : Subscribe(c, k, 1)
      BY <2>8
    <3>2. PICK n \in 1 .. 2 : n = 1
      OBVIOUS
    <3>3. Subscribe(c, k, n)
      BY <3>1, <3>2
    <3> QED BY <1>2, <2>2, <3>3, RedisSubscribe
  <2>9. CASE (Begin(c) \/ Sleep(c) \/ End(c)) /\ UNCHANGED redisVars
    BY <1>2, <2>2, <2>9, RedisScript
  <2> QED BY <1>2, <2>4, <2>5, <2>6, <2>7, <2>8, <2>9
<1>3. ASSUME NEW i \in DOMAIN cx, UNCHANGED lreqs,
             \/ ConnectCb(i) \/ Reply(i) \/ CbQuit(i)
             \/ Drop(i) \/ DropReply(i) \/ DropSubscribed(i) \/ Dropped(i)
      PROVE  RedisOnward
  <2>1. Loop \/ (frames # <<>> /\ Last(frames) = Dropping(i))
    BY <1>3 DEF ConnectCb, Reply, CbQuit, Drop, DropReply, DropSubscribed, Dropped
  <2>2. RedisInv /\ i \in 1 .. Len(cx) /\ ~Crashed
    BY <1>1, <2>1, CrashStays
  <2>3. CASE ConnectCb(i)
    BY <1>3, <2>2, <2>3, RedisConnected
  <2>4. CASE Reply(i)
    BY <1>3, <2>2, <2>4, RedisReply
  <2>5. CASE CbQuit(i)
    BY <1>3, <2>2, <2>5, RedisQuit
  <2>6. CASE Drop(i)
    BY <1>3, <2>2, <2>6, RedisDrop
  <2>7. CASE DropReply(i)
    BY <1>3, <2>2, <2>7, RedisDropReply
  <2>8. CASE DropSubscribed(i)
    BY <1>3, <2>2, <2>8, RedisDropSubscribed
  <2>9. CASE Dropped(i)
    BY <1>3, <2>2, <2>9, RedisDropped
  <2> QED BY <1>3, <2>3, <2>4, <2>5, <2>6, <2>7, <2>8, <2>9
<1>4. ASSUME UNCHANGED lreqs, Timeout \/ TimeoutRest \/ Reconnect \/ CbPattern \/ CbUnsubscribe
      PROVE  RedisOnward
  <2>1. Loop \/ Returns("timeout")
    BY <1>4 DEF Timeout, TimeoutRest, Reconnect, CbPattern, CbUnsubscribe
  <2>2. RedisInv /\ ~Crashed
    BY <2>1, CrashStays
  <2> QED
    BY <1>4, <2>2, RedisTimeout, RedisTimeoutRest, RedisReconnect, RedisPattern, RedisUnsubscribe
<1>5. ASSUME NEW c \in Cos, Connect(c) \/ ConnectFails(c)
      PROVE  RedisOnward
  <2>1. Running(c)
    BY <1>5 DEF Connect, ConnectFails, CanConnect, Call
  <2>2. RedisInv
    BY <2>1, CrashStays
  <2> QED BY <1>5, <2>2, RedisConnect, RedisConnectFails
<1>6. ASSUME LogWriteCb, UNCHANGED redisVars
      PROVE  RedisOnward
  <2>1. RedisInv
    BY <1>6, CrashStays DEF LogWriteCb
  <2> QED BY <1>6, <2>1, RedisLogged
<1>7. CASE RedisCalls /\ UNCHANGED logVars
  <2>1. UNCHANGED lreqs
    BY <1>7 DEF logVars
  <2> QED BY <1>2, <1>3, <1>4, <1>7, <2>1 DEF RedisCalls
<1> QED BY <1>5, <1>6, <1>7 DEF RedisNext

-----------------------------------------------------------------------------
(* HTTP.                                                                   *)

LEMMA ReqType ==
  ASSUME NEW rs, Requests(rs)
  PROVE  /\ rs \in Seq(Request) /\ Len(rs) \in Nat /\ DOMAIN rs = 1 .. Len(rs)
         /\ \A r \in 1 .. Len(rs) :
              /\ rs[r] \in Request /\ rs[r].c \in Cos \cup {0}
              /\ rs[r].c # 0 => rs[r].c \in Fetching(rs)
<1>1. rs \in Seq(Request) /\ Len(rs) \in Nat /\ DOMAIN rs = 1 .. Len(rs)
  BY DEF Requests
<1>2. \A r \in 1 .. Len(rs) : rs[r] \in Request
  BY <1>1, InRange
<1>3. \A r \in 1 .. Len(rs) : rs[r].c \in Cos \cup {0}
  BY <1>2 DEF Request
<1>4. \A r \in 1 .. Len(rs) : rs[r].c # 0 => rs[r].c \in Fetching(rs)
  BY <1>3 DEF Fetching
<1> QED BY <1>1, <1>2, <1>3, <1>4

NoCo == 0 \notin Cos

LEMMA NoCoroutine == NoCo
BY ScriptAssumption DEF NoCo

LEMMA ReqMade ==
  ASSUME NEW rs, Requests(rs), NEW y \in Request, y.easy = "added" <=> y.c # 0,
         y.c \notin Fetching(rs)
  PROVE  /\ Requests(Append(rs, y)) /\ Len(Append(rs, y)) = Len(rs) + 1
         /\ \A r \in 1 .. Len(rs) : Append(rs, y)[r] = rs[r]
         /\ Fetching(Append(rs, y)) = Fetching(rs) \cup ({y.c} \ {0})
<1>1. /\ rs \in Seq(Request) /\ Len(rs) \in Nat
      /\ \A r \in 1 .. Len(rs) : rs[r].c # 0 => rs[r].c \in Fetching(rs)
  BY ReqType
<1>2. PICK new : new = Append(rs, y)
  OBVIOUS
<1>3. /\ new \in Seq(Request) /\ Len(new) = Len(rs) + 1
      /\ \A i \in 1 .. Len(rs) + 1 : new[i] = IF i = Len(rs) + 1 THEN y ELSE rs[i]
  BY <1>1, <1>2, Appended
<1>4. \A i : i \in 1 .. Len(rs) + 1 <=> i \in 1 .. Len(rs) \/ i = Len(rs) + 1
  BY <1>1
<1>5. new[Len(rs) + 1] = y /\ \A r \in 1 .. Len(rs) : new[r] = rs[r] /\ r # Len(rs) + 1
  BY <1>1, <1>3, <1>4
<1>6. \A r \in 1 .. Len(new) : new[r].easy = "added" <=> new[r].c # 0
  BY <1>3, <1>4, <1>5 DEF Requests
<1>7. \A r, n \in 1 .. Len(new) : new[r].c = new[n].c /\ new[r].c # 0 => r = n
  <2>1. ASSUME NEW r \in 1 .. Len(rs) PROVE new[r].c = y.c => new[r].c = 0
    BY <1>1, <1>5
  <2>2. \A r, n \in 1 .. Len(rs) : new[r].c = new[n].c /\ new[r].c # 0 => r = n
    BY <1>5 DEF Requests
  <2> QED BY <1>3, <1>4, <1>5, <2>1, <2>2
<1>8. y.c \in Cos \cup {0}
  BY DEF Request
<1>9. Fetching(new) = Fetching(rs) \cup ({y.c} \ {0})
  <2>1. ASSUME NEW c \in Cos
        PROVE  (\E r \in 1 .. Len(new) : new[r].c = c) <=> (c = y.c \/ \E r \in 1 .. Len(rs) : rs[r].c = c)
    BY <1>3, <1>4, <1>5
  <2> QED BY <1>8, <2>1, NoCoroutine DEF Fetching, NoCo
<1> QED BY <1>2, <1>3, <1>5, <1>6, <1>7, <1>9 DEF Requests

Given(rs, r, y) == [rs EXCEPT ![r] = y]

LEMMA ReqGiven ==
  ASSUME NEW rs, Requests(rs), NEW r \in 1 .. Len(rs), NEW y \in Request,
         y.easy = "added" <=> y.c # 0, y.c \notin Fetching(rs)
  PROVE  /\ Requests(Given(rs, r, y)) /\ Len(Given(rs, r, y)) = Len(rs)
         /\ Given(rs, r, y)[r] = y
         /\ \A n \in 1 .. Len(rs) : n # r => Given(rs, r, y)[n] = rs[n]
         /\ Fetching(Given(rs, r, y)) = (Fetching(rs) \ {rs[r].c}) \cup ({y.c} \ {0})
<1>1. /\ rs \in Seq(Request) /\ Len(rs) \in Nat /\ DOMAIN rs = 1 .. Len(rs)
      /\ \A n \in 1 .. Len(rs) : rs[n] \in Request
      /\ \A n \in 1 .. Len(rs) : rs[n].c # 0 => rs[n].c \in Fetching(rs)
  BY ReqType
<1>2. PICK new : new = Given(rs, r, y)
  OBVIOUS
<1>3. \A n \in 1 .. Len(rs) : new[n] = IF n = r THEN y ELSE rs[n]
  BY <1>1, <1>2 DEF Given
<1>4. new \in Seq(Request) /\ Len(new) = Len(rs)
  <2>1. new \in [1 .. Len(rs) -> Request]
    BY <1>1, <1>2 DEF Given
  <2> QED BY <1>1, <2>1
<1>5. \A n \in 1 .. Len(new) : new[n].easy = "added" <=> new[n].c # 0
  BY <1>3, <1>4 DEF Requests
<1>6. \A l, n \in 1 .. Len(new) : new[l].c = new[n].c /\ new[l].c # 0 => l = n
  <2>1. ASSUME NEW n \in 1 .. Len(rs), n # r PROVE new[n].c = y.c => new[n].c = 0
    BY <1>1, <1>3, <2>1
  <2>2. ASSUME NEW l \in 1 .. Len(rs), NEW n \in 1 .. Len(rs), l # r, n # r,
               new[l].c = new[n].c, new[l].c # 0
        PROVE  l = n
    <3>1. new[l] = rs[l] /\ new[n] = rs[n]
      BY <1>3, <2>2
    <3> QED BY <2>2, <3>1 DEF Requests
  <2>3. new[r].c = y.c
    BY <1>3
  <2> QED BY <1>4, <2>1, <2>2, <2>3
<1>7. y.c \in Cos \cup {0} /\ rs[r].c \in Cos \cup {0}
  BY <1>1 DEF Request
<1>8. Fetching(new) = (Fetching(rs) \ {rs[r].c}) \cup ({y.c} \ {0})
  <2>1. ASSUME NEW c \in Cos
        PROVE  (\E n \in 1 .. Len(new) : new[n].c = c)
               <=> (c = y.c \/ \E n \in 1 .. Len(rs) : n # r /\ rs[n].c = c)
    BY <1>3, <1>4
  <2>2. ASSUME NEW c \in Cos
        PROVE  (\E n \in 1 .. Len(rs) : n # r /\ rs[n].c = c)
               <=> (c # rs[r].c /\ \E n \in 1 .. Len(rs) : rs[n].c = c)
    <3>1. c # 0
      BY NoCoroutine DEF NoCo
    <3> QED BY <3>1 DEF Requests
  <2> QED BY <1>7, <2>1, <2>2, NoCoroutine DEF Fetching, NoCo
<1> QED BY <1>2, <1>3, <1>4, <1>5, <1>6, <1>8 DEF Requests

(* The messages stay those of requests that are added.                     *)
LEMMA MessagesKept ==
  ASSUME Messages, msgs' = msgs, SameRests,
         \A m \in 0 .. 1 : \/ m = 1 /\ ~own'
                           \/ (m = 0 \/ own' = own) /\ Added(m) \subseteq Added(m)'
  PROVE  Messages'
<1>1. ASSUME NEW m \in 0 .. 1, Told(m)'
      PROVE  /\ msgs' \in Seq(Added(m)')
             /\ \A i, n \in 1 .. Len(msgs') : msgs'[i] = msgs'[n] => i = n
  <2>1. InfoCheck(m).k # "co"
    BY Frames
  <2>2. Told(m) /\ Added(m) \subseteq Added(m)'
    BY <1>1, <2>1 DEF Told, SameRests
  <2>3. /\ msgs \in Seq(Added(m))
        /\ \A i, n \in 1 .. Len(msgs) : msgs[i] = msgs[n] => i = n
    BY <2>2 DEF Messages
  <2>4. msgs \in Seq(Added(m)')
    <3>1. PICK A, B : A = Added(m) /\ B = Added(m)'
      OBVIOUS
    <3>2. \A i \in 1 .. Len(msgs) : msgs[i] \in B
      BY <2>2, <2>3, <3>1, InRange
    <3> QED BY <2>3, <3>1, <3>2
  <2> QED BY <2>3, <2>4
<1> QED BY <1>1 DEF Messages

HttpOnward == (\A c \in hlost : st'[c] = st[c]) /\ (Crashed' \/ HttpInv')

LEMMA HttpScript ==
  ASSUME HttpInv, NEW c \in Cos, Begin(c) \/ Sleep(c) \/ End(c), UNCHANGED httpVars
  PROVE  HttpOnward
<1>1. OnStack(frames, st) /\ Requests(reqs) /\ Messages /\ Fetches(st, hlost, Fetching(reqs))
  BY DEF HttpInv
<1>2. UNCHANGED <<reqs, msgs, own, hlost>>
  BY DEF httpVars
<1>3. PICK w \in {"ready", "run", "ended"} :
        /\ OnStack(frames, st)' /\ Sets(st', st, c, w) /\ SameRests /\ st[c] \in {"run", "ready"}
  <2>1. CASE Begin(c)
    <3>1. Loop /\ st[c] = "ready" /\ Resume(c, <<>>)
      BY <2>1 DEF Begin
    <3>2. OnStack(frames, st)' /\ Sets(st', st, c, "run") /\ NoRests /\ Range(frames) = {}
      BY <1>1, <3>1, LoopResumes, EmptyStack
    <3> QED BY <3>1, <3>2 DEF SameRests, NoRests
  <2>2. CASE Sleep(c) \/ End(c)
    <3>1. PICK w \in {"ready", "ended"} : Running(c) /\ Waits(c, w)
      BY <2>2 DEF Sleep, End, Call
    <3>2. w \in Waitings /\ w # "run"
      BY DEF Waitings
    <3>3. OnStack(frames, st)' /\ Sets(st', st, c, w) /\ SameRests /\ st[c] = "run"
      BY <1>1, <3>1, <3>2, RunningWaits
    <3> QED BY <3>1, <3>3
  <2> QED BY <2>1, <2>2
<1>4. Fetches(st', hlost, Fetching(reqs)) /\ \A d \in hlost : st'[d] = st[d]
  BY <1>1, <1>3 DEF Fetches, Sets
<1>5. Messages'
  BY <1>1, <1>2, <1>3, MessagesKept DEF Added
<1> QED BY <1>1, <1>2, <1>3, <1>4, <1>5 DEF HttpInv, HttpOnward

LEMMA HttpRequest ==
  ASSUME HttpInv, NEW c \in Cos, NewRequest(c)
  PROVE  HttpOnward
<1>1. OnStack(frames, st) /\ Requests(reqs) /\ Messages /\ Fetches(st, hlost, Fetching(reqs))
  BY DEF HttpInv
<1>2. PICK y : y = [easy |-> "idle", m |-> 0, c |-> 0, self |-> 0]
  OBVIOUS
<1>3. y \in Request /\ y.easy = "idle" /\ y.c = 0 /\ 0 \notin Fetching(reqs)
  BY <1>2, NoCoroutine DEF Request, NoCo, Fetching
<1>4. reqs' = Append(reqs, y) /\ UNCHANGED <<frames, st, msgs, own, hlost>>
  BY <1>2 DEF NewRequest
<1>5. /\ Requests(reqs') /\ Len(reqs') = Len(reqs) + 1
      /\ \A r \in 1 .. Len(reqs) : reqs'[r] = reqs[r]
      /\ Fetching(reqs') = Fetching(reqs) \cup ({y.c} \ {0})
  BY <1>1, <1>3, <1>4, ReqMade
<1>6. Fetching(reqs') = Fetching(reqs)
  BY <1>3, <1>5
<1>7. \A m \in 0 .. 1 : Added(m) \subseteq Added(m)'
  <2>1. /\ DOMAIN reqs = 1 .. Len(reqs) /\ DOMAIN reqs' = 1 .. Len(reqs')
        /\ Len(reqs) \in Nat
    BY <1>1, <1>5, ReqType
  <2>2. DOMAIN reqs \subseteq DOMAIN reqs'
    BY <1>5, <2>1
  <2> QED BY <1>5, <2>1, <2>2 DEF Added
<1>8. Messages'
  BY <1>1, <1>4, <1>7, MessagesKept DEF SameRests
<1> QED BY <1>1, <1>4, <1>5, <1>6, <1>8 DEF HttpInv, HttpOnward

(* A running coroutine asks: request r, new or not, is its own from now.   *)
LEMMA HttpFetch ==
  ASSUME HttpInv, NEW c \in Cos, NEW m \in 0 .. 1, Fetch(c, m)
  PROVE  HttpOnward
<1>1. OnStack(frames, st) /\ Requests(reqs) /\ Messages /\ Fetches(st, hlost, Fetching(reqs))
  BY DEF HttpInv
<1>2. PICK y : y = [easy |-> "added", m |-> m, c |-> c, self |-> m]
  OBVIOUS
<1>3. /\ Running(c) /\ Waits(c, "http") /\ reqs' = Append(reqs, y)
      /\ UNCHANGED <<msgs, own, hlost>>
  BY <1>2 DEF Fetch, Call
<1>4. OnStack(frames, st)' /\ Sets(st', st, c, "http") /\ SameRests /\ st[c] = "run"
  <2>1. PICK w : w = "http"
    OBVIOUS
  <2>2. w \in Waitings /\ w # "run" /\ Waits(c, w)
    BY <1>3, <2>1 DEF Waitings
  <2> QED BY <1>1, <1>3, <2>1, <2>2, RunningWaits
<1>5. c \notin Fetching(reqs) /\ c \notin hlost /\ c # 0
  BY <1>1, <1>4, NoCoroutine DEF Fetches, NoCo
<1>6. y \in Request /\ y.easy = "added" /\ y.c = c
  BY <1>2 DEF Request
<1>7. /\ Requests(reqs') /\ Len(reqs') = Len(reqs) + 1
      /\ \A r \in 1 .. Len(reqs) : reqs'[r] = reqs[r]
      /\ Fetching(reqs') = Fetching(reqs) \cup ({y.c} \ {0})
  BY <1>1, <1>3, <1>5, <1>6, ReqMade
<1>8. Fetching(reqs') = Fetching(reqs) \cup {c}
  BY <1>5, <1>6, <1>7
<1>9. \A l \in 0 .. 1 : Added(l) \subseteq Added(l)'
  <2>1. /\ DOMAIN reqs = 1 .. Len(reqs) /\ DOMAIN reqs' = 1 .. Len(reqs')
        /\ Len(reqs) \in Nat
    BY <1>1, <1>7, ReqType
  <2>2. DOMAIN reqs \subseteq DOMAIN reqs'
    BY <1>7, <2>1
  <2> QED BY <1>7, <2>1, <2>2 DEF Added
<1>10. Messages'
  BY <1>1, <1>3, <1>4, <1>9, MessagesKept
<1>11. Fetches(st', hlost, Fetching(reqs) \cup {c})
  BY <1>1, <1>4, <1>5 DEF Fetches, Sets
<1>12. \A d \in hlost : st'[d] = st[d]
  BY <1>1, <1>4, <1>5 DEF Fetches, Sets
<1> QED BY <1>3, <1>4, <1>7, <1>8, <1>10, <1>11, <1>12 DEF HttpInv, HttpOnward

LEMMA HttpExec ==
  ASSUME HttpInv, NEW c \in Cos, NEW r \in DOMAIN reqs, NEW m \in 0 .. 1, Exec(c, r, m)
  PROVE  HttpOnward
<1>1. OnStack(frames, st) /\ Requests(reqs) /\ Messages /\ Fetches(st, hlost, Fetching(reqs))
  BY DEF HttpInv
<1>2. /\ r \in 1 .. Len(reqs) /\ reqs[r] \in Request /\ reqs[r].c \in Cos \cup {0}
      /\ reqs[r].c # 0 => reqs[r].c \in Fetching(reqs)
      /\ DOMAIN reqs = 1 .. Len(reqs)
  BY <1>1, ReqType
<1>3. PICK y : y = [easy |-> "added",
                    m |-> IF reqs[r].easy = "added" THEN reqs[r].m ELSE m, c |-> c, self |-> m]
  OBVIOUS
<1>4. /\ Running(c) /\ Waits(c, "http") /\ reqs' = Given(reqs, r, y)
      /\ hlost' = hlost \union ({reqs[r].c} \ {0}) /\ UNCHANGED <<msgs, own>>
  BY <1>3 DEF Exec, Call, Given
<1>5. OnStack(frames, st)' /\ Sets(st', st, c, "http") /\ SameRests /\ st[c] = "run"
  <2>1. PICK w : w = "http"
    OBVIOUS
  <2>2. w \in Waitings /\ w # "run" /\ Waits(c, w)
    BY <1>4, <2>1 DEF Waitings
  <2> QED BY <1>1, <1>4, <2>1, <2>2, RunningWaits
<1>6. c \notin Fetching(reqs) /\ c \notin hlost /\ c # 0
  BY <1>1, <1>5, NoCoroutine DEF Fetches, NoCo
<1>7. y \in Request /\ y.easy = "added" /\ y.c = c /\ (reqs[r].easy = "added" => y.m = reqs[r].m)
  BY <1>2, <1>3 DEF Request
<1>8. /\ Requests(reqs') /\ Len(reqs') = Len(reqs) /\ reqs'[r] = y
      /\ \A n \in 1 .. Len(reqs) : n # r => reqs'[n] = reqs[n]
      /\ Fetching(reqs') = (Fetching(reqs) \ {reqs[r].c}) \cup ({y.c} \ {0})
  <2>1. y.c \notin Fetching(reqs) /\ (y.easy = "added" <=> y.c # 0)
    BY <1>6, <1>7
  <2>2. PICK new : new = Given(reqs, r, y)
    OBVIOUS
  <2>4. r \in 1 .. Len(reqs) /\ y \in Request /\ Requests(reqs)
    BY <1>1, <1>2, <1>7
  <2>3. /\ Requests(new) /\ Len(new) = Len(reqs) /\ new[r] = y
        /\ \A n \in 1 .. Len(reqs) : n # r => new[n] = reqs[n]
        /\ Fetching(new) = (Fetching(reqs) \ {reqs[r].c}) \cup ({y.c} \ {0})
    BY <2>1, <2>2, <2>4, ReqGiven
  <2> QED BY <1>4, <2>2, <2>3
<1>9. Fetching(reqs') = (Fetching(reqs) \ {reqs[r].c}) \cup {c}
  BY <1>6, <1>7, <1>8
<1>10. \A l \in 0 .. 1 : Added(l) \subseteq Added(l)'
  <2>1. DOMAIN reqs' = 1 .. Len(reqs)
    BY <1>8, ReqType
  <2> QED BY <1>2, <1>7, <1>8, <2>1 DEF Added
<1>11. Messages'
  BY <1>1, <1>4, <1>5, <1>10, MessagesKept
<1>12. Fetches(st', hlost', Fetching(reqs'))
  <2>1. CASE reqs[r].c = 0
    <3>1. hlost' = hlost /\ Fetching(reqs') = Fetching(reqs) \cup {c}
      BY <1>4, <1>9, <2>1, NoCoroutine DEF Fetching, NoCo
    <3> QED BY <1>1, <1>5, <1>6, <3>1 DEF Fetches, Sets
  <2>2. CASE reqs[r].c # 0
    <3>1. PICK a : a = reqs[r].c /\ a \in Fetching(reqs) /\ a # c
      BY <1>2, <1>6, <2>2
    <3>2. hlost' = hlost \cup {a} /\ Fetching(reqs') = (Fetching(reqs) \ {a}) \cup {c}
      BY <1>4, <1>9, <2>2, <3>1
    <3> QED BY <1>1, <1>5, <1>6, <3>1, <3>2 DEF Fetches, Sets
  <2> QED BY <2>1, <2>2
<1>13. \A d \in hlost : st'[d] = st[d]
  BY <1>1, <1>5, <1>6 DEF Fetches, Sets
<1> QED BY <1>5, <1>8, <1>11, <1>12, <1>13 DEF HttpInv, HttpOnward

LEMMA HttpDropClient ==
  ASSUME HttpInv, NEW c \in Cos, DropClient(c)
  PROVE  HttpOnward
<1>1. OnStack(frames, st) /\ Requests(reqs) /\ Messages /\ Fetches(st, hlost, Fetching(reqs))
  BY DEF HttpInv
<1>2. /\ own' = FALSE /\ UNCHANGED <<frames, st, msgs>>
      /\ hlost' = hlost \union {reqs[r].c : r \in Added(1)}
  BY DEF DropClient
<1>3. /\ reqs \in Seq(Request) /\ Len(reqs) \in Nat /\ DOMAIN reqs = 1 .. Len(reqs)
      /\ \A r \in 1 .. Len(reqs) : reqs[r] \in Request /\ reqs[r].c \in Cos \cup {0}
      /\ \A r \in 1 .. Len(reqs) : reqs[r].c # 0 => reqs[r].c \in Fetching(reqs)
  BY <1>1, ReqType
<1>4. PICK y : y = [easy |-> "idle", m |-> 0, c |-> 0, self |-> 0]
  OBVIOUS
<1>5. y \in Request /\ y.easy = "idle" /\ y.c = 0
  BY <1>4 DEF Request
<1>6. PICK A : A = Added(1)
  OBVIOUS
<1>7. reqs' = [r \in 1 .. Len(reqs) |-> IF r \in A THEN y ELSE reqs[r]]
  BY <1>3, <1>4, <1>6 DEF DropClient
<1>8. /\ reqs' \in Seq(Request) /\ Len(reqs') = Len(reqs) /\ DOMAIN reqs' = 1 .. Len(reqs)
      /\ \A r \in 1 .. Len(reqs) : reqs'[r] = IF r \in A THEN y ELSE reqs[r]
  <2>1. reqs' \in [1 .. Len(reqs) -> Request]
    BY <1>3, <1>5, <1>7
  <2> QED BY <1>3, <1>7, <2>1
<1>9. Requests(reqs')
  <2>1. \A r \in 1 .. Len(reqs') : reqs'[r].easy = "added" <=> reqs'[r].c # 0
    BY <1>1, <1>5, <1>8 DEF Requests
  <2>2. ASSUME NEW r \in 1 .. Len(reqs'), NEW n \in 1 .. Len(reqs'),
               reqs'[r].c = reqs'[n].c, reqs'[r].c # 0
        PROVE  r = n
    <3>1. reqs'[r] = reqs[r] /\ reqs'[n] = reqs[n]
      BY <1>5, <1>8, <2>2
    <3> QED BY <1>1, <1>8, <2>2, <3>1 DEF Requests
  <2> QED BY <1>8, <2>1, <2>2 DEF Requests
<1>10. \A r \in A : r \in 1 .. Len(reqs) /\ reqs[r].c # 0
  BY <1>1, <1>3, <1>6 DEF Added, Requests
<1>11. PICK L : L = {reqs[r].c : r \in A}
  OBVIOUS
<1>12. Fetching(reqs') = Fetching(reqs) \ L /\ L \subseteq Fetching(reqs)
  <2>1. L \subseteq Fetching(reqs)
    BY <1>3, <1>10, <1>11
  <2>2. ASSUME NEW d \in Fetching(reqs') PROVE d \in Fetching(reqs) /\ d \notin L
    <3>1. PICK r \in 1 .. Len(reqs) : d \in Cos /\ reqs'[r].c = d
      BY <1>8, <2>2 DEF Fetching
    <3>2. d # 0 /\ r \notin A /\ reqs[r].c = d
      BY <1>5, <1>8, <3>1, NoCoroutine DEF NoCo
    <3>3. \A n \in A : reqs[n].c # d
      BY <1>1, <1>10, <3>2 DEF Requests
    <3> QED BY <1>11, <3>1, <3>2, <3>3 DEF Fetching
  <2>3. ASSUME NEW d \in Fetching(reqs), d \notin L PROVE d \in Fetching(reqs')
    <3>1. PICK r \in 1 .. Len(reqs) : d \in Cos /\ reqs[r].c = d
      BY <2>3 DEF Fetching
    <3>2. r \notin A
      BY <1>11, <2>3, <3>1
    <3> QED BY <1>8, <3>1, <3>2 DEF Fetching
  <2> QED BY <2>1, <2>2, <2>3
<1>13. Fetches(st', hlost', Fetching(reqs'))
  <2>1. hlost' = hlost \cup L
    BY <1>2, <1>6, <1>11
  <2> QED BY <1>1, <1>2, <1>12, <2>1 DEF Fetches
<1>14. Messages'
  <2>1. Added(0) \subseteq Added(0)'
    <3>1. \A r \in Added(0) : r \in 1 .. Len(reqs) /\ r \notin A
      BY <1>3, <1>6 DEF Added
    <3> QED BY <1>8, <3>1 DEF Added
  <2>2. \A m \in 0 .. 1 : \/ m = 1 /\ ~own'
                          \/ (m = 0 \/ own' = own) /\ Added(m) \subseteq Added(m)'
    BY <1>2, <2>1
  <2> QED BY <1>1, <1>2, <2>2, MessagesKept DEF SameRests
<1> QED BY <1>1, <1>2, <1>9, <1>13, <1>14 DEF HttpInv, HttpOnward

(* The messages of a set of requests are one for each.                     *)
LEMMA InSomeOrder ==
  ASSUME NEW S, IsFiniteSet(S)
  PROVE  /\ SetToSeq(S) \in Seq(S)
         /\ \A i, n \in 1 .. Len(SetToSeq(S)) : SetToSeq(S)[i] = SetToSeq(S)[n] => i = n
<1>1. PICK n : n = Cardinality(S)
  OBVIOUS
<1>2. n \in Nat /\ ExistsBijection(1 .. n, S)
  BY <1>1, FS_CardinalityType
<1>3. \E f \in [1 .. n -> S] : IsInjective(f)
  BY <1>2 DEF ExistsBijection, Bijection, Injection
<1>4. SetToSeq(S) = CHOOSE f \in [1 .. n -> S] : IsInjective(f)
  BY <1>1 DEF SetToSeq
<1>5. PICK q : q = SetToSeq(S)
  OBVIOUS
<1>6. q \in [1 .. n -> S] /\ IsInjective(q)
  BY <1>3, <1>4, <1>5
<1>7. q \in Seq(S) /\ Len(q) = n
  BY <1>2, <1>6
<1>8. \A i, k \in 1 .. Len(q) : q[i] = q[k] => i = k
  BY <1>6, <1>7 DEF IsInjective
<1> QED BY <1>5, <1>7, <1>8

LEMMA HttpTransfers ==
  ASSUME HttpInv, NEW m \in 0 .. 1, Transfers(m)
  PROVE  HttpOnward
<1>1. OnStack(frames, st) /\ Requests(reqs) /\ Messages /\ Fetches(st, hlost, Fetching(reqs))
  BY DEF HttpInv
<1>2. PICK done : done \subseteq Added(m) /\ msgs' = SetToSeq(done)
  BY DEF Transfers
<1>3. Loop /\ frames' = <<InfoCheck(m)>> /\ UNCHANGED <<st, reqs, own, hlost>>
  BY DEF Transfers
<1>4. done \subseteq 1 .. Len(reqs) /\ Len(reqs) \in Nat
  <2>1. DOMAIN reqs = 1 .. Len(reqs) /\ Len(reqs) \in Nat
    BY <1>1, ReqType
  <2> QED BY <1>2, <2>1 DEF Added
<1>5. IsFiniteSet(done)
  <2>1. IsFiniteSet(1 .. Len(reqs))
    BY <1>4, FS_Interval
  <2> QED BY <1>4, <2>1, FS_Subset
<1>6. /\ msgs' \in Seq(done)
      /\ \A i, n \in 1 .. Len(msgs') : msgs'[i] = msgs'[n] => i = n
  BY <1>2, <1>5, InSomeOrder
<1>7. msgs' \in Seq(Added(m))
  <2>1. PICK A : A = Added(m)
    OBVIOUS
  <2>2. \A i \in 1 .. Len(msgs') : msgs'[i] \in A
    BY <1>2, <1>6, <2>1, InRange
  <2> QED BY <1>6, <2>1, <2>2
<1>8. PICK d : d = InfoCheck(m) /\ d \in Things /\ d.k # "co"
  BY Frames
<1>9. OnStack(frames, st)' /\ Range(frames') = {d}
  <2>1. OnStack(<<>>, st)
    BY <1>1, <1>3, EmptyStack
  <2>2. PICK f : f = <<>>
    OBVIOUS
  <2>3. OnStack(Append(f, d), st) /\ Range(Append(f, d)) = Range(f) \cup {d}
    BY <1>8, <2>1, <2>2, StackPush
  <2>4. frames' = Append(f, d) /\ Range(f) = {}
    BY <1>3, <1>8, <2>2 DEF Range
  <2> QED BY <1>3, <2>3, <2>4
<1>10. Messages'
  <2>1. ASSUME NEW l \in 0 .. 1, Told(l)'
        PROVE  /\ msgs' \in Seq(Added(l)')
               /\ \A i, n \in 1 .. Len(msgs') : msgs'[i] = msgs'[n] => i = n
    <3>1. InfoCheck(l) = InfoCheck(m)
      BY <1>8, <1>9, <2>1 DEF Told
    <3>2. l = m
      BY <3>1, Frames
    <3>3. Added(m)' = Added(m)
      BY <1>3 DEF Added
    <3> QED BY <1>6, <1>7, <3>2, <3>3
  <2> QED BY <2>1 DEF Messages
<1> QED BY <1>1, <1>3, <1>9, <1>10 DEF HttpInv, HttpOnward

LEMMA HttpInfoRead ==
  ASSUME HttpInv, NEW m \in 0 .. 1, InfoRead(m)
  PROVE  HttpOnward
<1>1. OnStack(frames, st) /\ Requests(reqs) /\ Messages /\ Fetches(st, hlost, Fetching(reqs))
  BY DEF HttpInv
<1>2. frames # <<>> /\ Last(frames) = InfoCheck(m) /\ UNCHANGED <<own, hlost>>
  BY DEF InfoRead
<1>3. /\ OnStack(Front(frames), st) /\ Range(frames) = Range(Front(frames)) \cup {InfoCheck(m)}
  BY <1>1, <1>2, StackPop
<1>4. CASE ~own /\ (m = 1 \/ (msgs # <<>> /\ reqs[Head(msgs)].self = 1))
  <2>1. Crashes
    BY <1>4 DEF InfoRead
  <2> QED BY <1>1, <2>1, CoCrashes DEF HttpOnward
<1>5. CASE ~(m = 1 /\ ~own) /\ msgs = <<>>
  <2>1. frames' = Front(frames) /\ UNCHANGED <<st, reqs, msgs>>
    BY <1>5 DEF InfoRead
  <2>2. Messages'
    <3>1. ASSUME NEW l \in 0 .. 1, Told(l)' PROVE Told(l) /\ Added(l)' = Added(l)
      BY <1>2, <1>3, <2>1, <3>1 DEF Told, Added
    <3>2. ASSUME NEW l \in 0 .. 1, Told(l)'
          PROVE  /\ msgs' \in Seq(Added(l)')
                 /\ \A i, n \in 1 .. Len(msgs') : msgs'[i] = msgs'[n] => i = n
      BY <1>1, <2>1, <3>1, <3>2 DEF Messages
    <3> QED BY <3>2 DEF Messages
  <2> QED BY <1>1, <1>2, <1>3, <2>1, <2>2 DEF HttpInv, HttpOnward
<1>6. CASE ~(m = 1 /\ ~own) /\ msgs # <<>> /\ ~(~own /\ reqs[Head(msgs)].self = 1)
  <2>1. PICK r, y : r = Head(msgs) /\ y = Ended
    OBVIOUS
  <2>2. msgs' = Tail(msgs) /\ reqs' = Given(reqs, r, y) /\ Resume(reqs[r].c, frames)
    BY <1>6, <2>1 DEF InfoRead, Given
  <2>3. /\ msgs \in Seq(Added(m)) /\ \A i, n \in 1 .. Len(msgs) : msgs[i] = msgs[n] => i = n
    <3>1. Told(m)
      BY <1>3, <1>6 DEF Told
    <3> QED BY <1>1, <3>1 DEF Messages
  <2>4. /\ r \in Added(m) /\ r = msgs[1] /\ Len(msgs) \in Nat \ {0}
        /\ Tail(msgs) \in Seq(Added(m)) /\ Len(Tail(msgs)) = Len(msgs) - 1
        /\ \A i \in 1 .. Len(msgs) - 1 : Tail(msgs)[i] = msgs[i + 1]
    <3>1. PICK A : A = Added(m)
      OBVIOUS
    <3> QED BY <1>6, <2>1, <2>3, <3>1, Tailed
  <2>5. r \in 1 .. Len(reqs) /\ reqs[r].easy = "added" /\ DOMAIN reqs = 1 .. Len(reqs)
    <3>1. DOMAIN reqs = 1 .. Len(reqs)
      BY <1>1, ReqType
    <3> QED BY <2>4, <3>1 DEF Added
  <2>6. PICK c \in Cos : c = reqs[r].c /\ c \in Fetching(reqs) /\ c # 0
    <3>1. reqs[r].c # 0
      BY <1>1, <2>5 DEF Requests
    <3>2. reqs[r].c \in Fetching(reqs)
      BY <1>1, <2>5, <3>1, ReqType
    <3> QED BY <3>1, <3>2 DEF Fetching
  <2>7. y \in Request /\ y.easy = "null" /\ y.c = 0 /\ 0 \notin Fetching(reqs)
    BY <2>1, NoCoroutine DEF Request, NoCo, Fetching, Ended
  <2>8. /\ Requests(reqs') /\ Len(reqs') = Len(reqs) /\ reqs'[r] = y
        /\ \A n \in 1 .. Len(reqs) : n # r => reqs'[n] = reqs[n]
        /\ Fetching(reqs') = Fetching(reqs) \ {c}
    <3>1. PICK new : new = Given(reqs, r, y)
      OBVIOUS
    <3>2. y.c \notin Fetching(reqs) /\ (y.easy = "added" <=> y.c # 0)
      BY <2>7
    <3>3. r \in 1 .. Len(reqs) /\ y \in Request /\ Requests(reqs)
      BY <1>1, <2>5, <2>7
    <3>4. /\ Requests(new) /\ Len(new) = Len(reqs) /\ new[r] = y
          /\ \A n \in 1 .. Len(reqs) : n # r => new[n] = reqs[n]
          /\ Fetching(new) = (Fetching(reqs) \ {reqs[r].c}) \cup ({y.c} \ {0})
      BY <3>1, <3>2, <3>3, ReqGiven
    <3>5. Fetching(new) = Fetching(reqs) \ {c}
      BY <2>6, <2>7, <3>4
    <3> QED BY <2>2, <3>1, <3>4, <3>5
  <2>9. st[c] = "http" /\ c \notin hlost
    BY <1>1, <2>6 DEF Fetches
  <2>10. /\ OnStack(frames, st)' /\ Sets(st', st, c, "run") /\ SameRests
    <3>1. PICK below : below = frames
      OBVIOUS
    <3>2. /\ OnStack(frames, st)'
          /\ \A d \in Cos : st'[d] = IF d = c THEN "run" ELSE st[d]
          /\ \A x : x.k # "co" => (x \in Range(frames') <=> x \in Range(below))
      BY <1>1, <2>2, <2>6, <2>9, <3>1, StackResumes
    <3> QED BY <3>1, <3>2 DEF SameRests, Sets
  <2>11. Fetches(st', hlost, Fetching(reqs) \ {c}) /\ \A d \in hlost : st'[d] = st[d]
    BY <1>1, <2>6, <2>9, <2>10 DEF Fetches, Sets
  <2>12. Messages'
    <3>1. ASSUME NEW l \in 0 .. 1, Told(l)' PROVE Told(l)
      <4>1. InfoCheck(l).k # "co"
        BY Frames
      <4> QED BY <1>2, <2>10, <3>1, <4>1 DEF Told, SameRests
    <3>2. ASSUME NEW l \in 0 .. 1, Told(l)' PROVE Tail(msgs) \in Seq(Added(l)')
      <4>1. PICK A, B : A = Added(l) /\ B = Added(l)'
        OBVIOUS
      <4>2. msgs \in Seq(A)
        BY <1>1, <3>1, <3>2, <4>1 DEF Messages
      <4>3. A \ {r} \subseteq B
        <5>1. DOMAIN reqs' = 1 .. Len(reqs)
          BY <2>8, ReqType
        <5> QED BY <2>5, <2>8, <4>1, <5>1 DEF Added
      <4>4. \A i \in 1 .. Len(msgs) - 1 : Tail(msgs)[i] \in B
        <5>1. ASSUME NEW i \in 1 .. Len(msgs) - 1 PROVE msgs[i + 1] \in B
          <6>1. PICK n \in 1 .. Len(msgs) : n = i + 1 /\ n # 1
            BY <2>4
          <6>2. msgs[n] \in A
            BY <4>2, InRange
          <6>3. msgs[n] # r
            BY <2>3, <2>4, <6>1
          <6> QED BY <4>3, <6>1, <6>2, <6>3
        <5> QED BY <2>4, <5>1
      <4>5. PICK t, D : t = Tail(msgs) /\ D = Added(m)
        OBVIOUS
      <4>6. t \in Seq(D) /\ \A i \in 1 .. Len(t) : t[i] \in B
        BY <2>4, <4>4, <4>5
      <4>7. t \in Seq(B)
        BY <4>6
      <4> QED BY <4>1, <4>5, <4>7
    <3>3. \A i, n \in 1 .. Len(Tail(msgs)) : Tail(msgs)[i] = Tail(msgs)[n] => i = n
      <4>1. ASSUME NEW i \in 1 .. Len(msgs) - 1, NEW n \in 1 .. Len(msgs) - 1,
                   Tail(msgs)[i] = Tail(msgs)[n]
            PROVE  i = n
        <5>1. PICK u, v \in 1 .. Len(msgs) : u = i + 1 /\ v = n + 1
          BY <2>4
        <5>2. u = v
          BY <2>3, <2>4, <4>1, <5>1
        <5> QED BY <5>1, <5>2
      <4> QED BY <2>4, <4>1
    <3> QED BY <2>2, <3>2, <3>3 DEF Messages
  <2> QED BY <1>2, <2>8, <2>10, <2>11, <2>12 DEF HttpInv, HttpOnward
<1> QED BY <1>4, <1>5, <1>6

LEMMA HttpStep ==
  ASSUME Crashed \/ HttpInv, HttpNext
  PROVE  HttpOnward
<1>1. ASSUME NEW c \in Cos,
             \/ NewRequest(c) \/ DropClient(c)
             \/ \E m \in 0 .. 1 : Fetch(c, m) \/ \E r \in DOMAIN reqs : Exec(c, r, m)
             \/ (Begin(c) \/ Sleep(c) \/ End(c)) /\ UNCHANGED httpVars
      PROVE  HttpOnward
  <2>1. Running(c) \/ Loop
    BY <1>1 DEF NewRequest, DropClient, Fetch, Exec, Begin, Sleep, End, Call
  <2>2. HttpInv
    BY <2>1, CrashStays
  <2>3. CASE NewRequest(c)
    BY <2>2, <2>3, HttpRequest
  <2>4. CASE DropClient(c)
    BY <2>2, <2>4, HttpDropClient
  <2>5. CASE \E m \in 0 .. 1 : Fetch(c, m) \/ \E r \in DOMAIN reqs : Exec(c, r, m)
    <3>1. PICK m \in 0 .. 1 : Fetch(c, m) \/ \E r \in DOMAIN reqs : Exec(c, r, m)
      BY <2>5
    <3> QED BY <2>2, <3>1, HttpFetch, HttpExec
  <2>6. CASE (Begin(c) \/ Sleep(c) \/ End(c)) /\ UNCHANGED httpVars
    BY <2>2, <2>6, HttpScript
  <2> QED BY <1>1, <2>3, <2>4, <2>5, <2>6
<1>2. ASSUME NEW m \in 0 .. 1, Transfers(m) \/ InfoRead(m)
      PROVE  HttpOnward
  <2>1. Loop \/ Last(frames) = InfoCheck(m)
    BY <1>2 DEF Transfers, InfoRead
  <2>2. HttpInv
    BY <2>1, CrashStays
  <2> QED BY <1>2, <2>2, HttpTransfers, HttpInfoRead
<1> QED BY <1>1, <1>2 DEF HttpNext

-----------------------------------------------------------------------------
(* The logger.                                                             *)

LogOnward == Crashed' \/ LogInv'

LEMMA LogSame ==
  ASSUME LogInv, OnStack(frames, st)', UNCHANGED lreqs,
         NEW c \in Cos, NEW w \in {"ready", "run", "ended"}, Sets(st', st, c, w),
         st[c] \in {"run", "ready"}
  PROVE  LogInv'
<1>1. \A d \in Logging : d \in Cos
  BY WritesHave DEF LogInv
<1>2. Writes' /\ Logging' = Logging
  BY DEF LogInv, Writes, Logging
<1> QED BY <1>1, <1>2 DEF LogInv, Sets

LEMMA LogScript ==
  ASSUME LogInv, NEW c \in Cos, Begin(c) \/ Sleep(c) \/ End(c), UNCHANGED lreqs
  PROVE  LogOnward
<1>1. OnStack(frames, st)
  BY DEF LogInv
<1>2. CASE Begin(c)
  <2>1. Loop /\ st[c] = "ready" /\ Resume(c, <<>>)
    BY <1>2 DEF Begin
  <2>2. OnStack(frames, st)' /\ Sets(st', st, c, "run")
    BY <1>1, <2>1, LoopResumes
  <2> QED BY <2>1, <2>2, LogSame DEF LogOnward
<1>3. CASE Sleep(c) \/ End(c)
  <2>1. PICK w \in {"ready", "ended"} : Running(c) /\ Waits(c, w)
    BY <1>3 DEF Sleep, End, Call
  <2>2. w \in Waitings /\ w # "run"
    BY DEF Waitings
  <2>3. OnStack(frames, st)' /\ Sets(st', st, c, w) /\ st[c] = "run"
    BY <1>1, <2>1, <2>2, RunningWaits
  <2> QED BY <2>3, LogSame DEF LogOnward
<1> QED BY <1>2, <1>3

LEMMA LogWrites ==
  ASSUME LogInv, NEW c \in Cos, Running(c), Waits(c, "log"), lreqs' = Append(lreqs, c)
  PROVE  LogInv'
<1>1. OnStack(frames, st) /\ Writes /\ \A d \in Logging : d \in Cos /\ st[d] = "log"
  BY WritesHave DEF LogInv
<1>2. OnStack(frames, st)' /\ Sets(st', st, c, "log") /\ st[c] = "run"
  <2>1. PICK w : w = "log"
    OBVIOUS
  <2>2. w \in Waitings /\ w # "run" /\ Waits(c, w)
    BY <2>1 DEF Waitings
  <2> QED BY <1>1, <2>1, <2>2, RunningWaits
<1>3. Writes' /\ Logging' = Logging \cup {c}
  BY <1>1, <1>2, WritesAppend
<1> QED BY <1>1, <1>2, <1>3 DEF LogInv, Sets

LEMMA LogWritten ==
  ASSUME LogInv, LogWriteCb
  PROVE  LogInv'
<1>1. OnStack(frames, st) /\ Writes /\ \A d \in Logging : d \in Cos /\ st[d] = "log"
  BY WritesHave DEF LogInv
<1>2. Loop /\ lreqs # <<>> /\ lreqs' = Tail(lreqs) /\ Resume(Head(lreqs), <<>>)
  BY DEF LogWriteCb
<1>3. PICK c : c = Head(lreqs)
  OBVIOUS
<1>4. Writes' /\ c \in Logging /\ c \in Cos /\ Logging' = Logging \ {c}
  BY <1>1, <1>2, <1>3, WritesTail
<1>5. st[c] = "log"
  BY <1>1, <1>4
<1>6. OnStack(frames, st)' /\ Sets(st', st, c, "run")
  BY <1>1, <1>2, <1>3, <1>4, <1>5, LoopResumes
<1> QED BY <1>1, <1>4, <1>6 DEF LogInv, Sets

LEMMA LogStep ==
  ASSUME Crashed \/ LogInv, LogNext
  PROVE  LogOnward
<1>1. CASE SignalCb
  <2>1. LogInv
    BY <1>1, CrashStays DEF SignalCb
  <2>2. OnStack(frames, st) /\ UNCHANGED lreqs
    BY <1>1, <2>1 DEF SignalCb, LogInv
  <2>3. CASE Crashes
    BY <2>2, <2>3, CoCrashes DEF LogOnward
  <2>4. CASE UNCHANGED <<frames, st>>
    BY <2>1, <2>2, <2>4 DEF LogInv, Writes, Logging, LogOnward
  <2> QED BY <1>1, <2>3, <2>4 DEF SignalCb
<1>2. CASE LogWriteCb
  <2>1. LogInv
    BY <1>2, CrashStays DEF LogWriteCb
  <2> QED BY <1>2, <2>1, LogWritten DEF LogOnward
<1>3. ASSUME NEW c \in Cos,
             \/ SetOutput(c) \/ LogWrite(c)
             \/ (Begin(c) \/ Sleep(c) \/ End(c)) /\ UNCHANGED logVars
      PROVE  LogOnward
  <2>1. Running(c) \/ Loop
    BY <1>3 DEF SetOutput, LogWrite, Begin, Sleep, End, Call
  <2>2. LogInv
    BY <2>1, CrashStays
  <2>3. CASE SetOutput(c)
    BY <2>2, <2>3 DEF SetOutput, LogInv, Writes, Logging, LogOnward
  <2>4. CASE LogWrite(c)
    <3>1. CASE UNCHANGED <<frames, st, lreqs>>
      BY <2>2, <3>1 DEF LogInv, Writes, Logging, LogOnward
    <3>2. CASE lreqs' = Append(lreqs, c) /\ Waits(c, "log")
      <4>1. Running(c)
        BY <2>4 DEF LogWrite, Call
      <4> QED BY <2>2, <3>2, <4>1, LogWrites DEF LogOnward
    <3>3. CASE Crashes
      BY <2>2, <3>3, CoCrashes DEF LogInv, Writes, Logging, LogOnward
    <3> QED BY <2>4, <3>1, <3>2, <3>3 DEF LogWrite
  <2>5. CASE (Begin(c) \/ Sleep(c) \/ End(c)) /\ UNCHANGED logVars
    <3>1. UNCHANGED lreqs
      BY <2>5 DEF logVars
    <3> QED BY <2>2, <2>5, <3>1, LogScript
  <2> QED BY <1>3, <2>3, <2>4, <2>5
<1> QED BY <1>1, <1>2, <1>3 DEF LogNext

-----------------------------------------------------------------------------
(* A client with a thread: who waits has a job in one of the queues.       *)

LEMMA AskedIdle ==
  ASSUME Asked, jobs' = jobs, backs' = backs, \A c \in Cos : st'[c] = "job" => st[c] = "job"
  PROVE  Asked'
BY DEF Asked, AllJobs

LEMMA AskedBegins ==
  ASSUME Asked, WorkerInv, jobs' = jobs, backs' = backs, NEW c \in Cos,
         NEW w \in {"ready", "run", "ended"}, st' = [st EXCEPT ![c] = w]
  PROVE  Asked'
<1>1. st \in [Cos -> States]
  BY DEF WorkerInv, WorkerTypes
<1>2. \A d \in Cos : st'[d] = IF d = c THEN w ELSE st[d]
  BY <1>1
<1>3. \A d \in Cos : st'[d] = "job" => st[d] = "job"
  BY <1>2
<1> QED BY <1>3, AskedIdle

LEMMA AskedServed ==
  ASSUME Asked, WorkerInv, jobs # <<>>, NEW res \in Results, Served(res), st' = st
  PROVE  Asked'
<1>1. Queues(jobs, backs)
  BY DEF WorkerInv, CallInv
<1>2. PICK j \in JobRec :
        /\ Like(j, Head(jobs)) /\ Range(jobs') = Range(jobs) \ {Head(jobs)}
        /\ Range(backs') = Range(backs) \cup {j}
  BY <1>1, QServed
<1>3. ASSUME NEW c \in Cos, st'[c] = "job" PROVE \E i \in AllJobs' : i.c = c
  <2>1. PICK i \in AllJobs : i.c = c
    BY <1>3 DEF Asked
  <2>2. CASE i = Head(jobs)
    BY <1>2, <2>1, <2>2 DEF AllJobs, Like
  <2>3. CASE i # Head(jobs)
    BY <1>2, <2>1, <2>3 DEF AllJobs
  <2> QED BY <2>2, <2>3
<1> QED BY <1>3 DEF Asked

LEMMA AskedAsks ==
  ASSUME Asked, WorkerInv, NEW c \in Cos, NEW op, NEW o, NEW hold,
         jobs' = Append(jobs, Job(op, c, o, hold)), backs' = backs, Waits(c, "job")
  PROVE  Asked'
<1>1. jobs \in Seq(JobRec) /\ st \in [Cos -> States]
  BY DEF WorkerInv, CallInv, Queues, WorkerTypes
<1>2. PICK j : j = Job(op, c, o, hold)
  OBVIOUS
<1>3. j.c = c
  BY <1>2 DEF Job
<1>4. PICK S : S = JobRec \cup {j}
  OBVIOUS
<1>5. jobs \in Seq(S) /\ j \in S
  BY <1>1, <1>4
<1>6. Range(jobs') = Range(jobs) \cup {j}
  BY <1>2, <1>5, Appended
<1>7. \A d \in Cos : st'[d] = IF d = c THEN "job" ELSE st[d]
  BY <1>1 DEF Waits
<1>8. ASSUME NEW d \in Cos, st'[d] = "job" PROVE \E i \in AllJobs' : i.c = d
  <2>1. CASE d = c
    BY <1>3, <1>6, <2>1 DEF AllJobs
  <2>2. CASE d # c
    BY <1>6, <1>7, <1>8, <2>2 DEF Asked, AllJobs
  <2> QED BY <2>1, <2>2
<1> QED BY <1>8 DEF Asked

LEMMA AskedAppends ==
  ASSUME Asked, WorkerInv, NEW j, jobs' = Append(jobs, j), backs' = backs, st' = st
  PROVE  Asked'
<1>1. jobs \in Seq(JobRec)
  BY DEF WorkerInv, CallInv, Queues
<1>2. PICK S : S = JobRec \cup {j}
  OBVIOUS
<1>3. jobs \in Seq(S) /\ j \in S
  BY <1>1, <1>2
<1>4. Range(jobs') = Range(jobs) \cup {j}
  BY <1>3, Appended
<1> QED BY <1>4 DEF Asked, AllJobs

LEMMA AskedRequeued ==
  ASSUME Asked, WorkerInv, backs # <<>>, NEW op \in Ops, Requeue(op)
  PROVE  Asked'
<1>1. Queues(jobs, backs) /\ st' = st
  BY DEF WorkerInv, CallInv, Requeue
<1>2. PICK j \in JobRec :
        /\ Like(j, Head(backs)) /\ Range(jobs') = Range(jobs) \cup {j}
        /\ Range(backs') = Range(backs) \ {Head(backs)}
  BY <1>1, QRequeued
<1>3. ASSUME NEW c \in Cos, st'[c] = "job" PROVE \E i \in AllJobs' : i.c = c
  <2>1. PICK i \in AllJobs : i.c = c
    BY <1>1, <1>3 DEF Asked
  <2>2. CASE i = Head(backs)
    BY <1>2, <2>1, <2>2 DEF AllJobs, Like
  <2>3. CASE i # Head(backs)
    BY <1>2, <2>1, <2>3 DEF AllJobs
  <2> QED BY <2>2, <2>3
<1> QED BY <1>3 DEF Asked

(* A completion: whose job it was goes on, if it was anybody's.            *)
LEMMA AskedTaken ==
  ASSUME Asked, WorkerInv, backs # <<>>, backs' = Tail(backs), jobs' = jobs,
         \/ Resume(Head(backs).c, <<>>)
         \/ Head(backs).c = 0 /\ st' = st
  PROVE  Asked'
<1>1. Queues(jobs, backs) /\ st \in [Cos -> States]
  BY DEF WorkerInv, CallInv, WorkerTypes
<1>2. Range(backs') = Range(backs) \ {Head(backs)} /\ Range(jobs') = Range(jobs)
  BY <1>1, QTaken
<1>3. ASSUME NEW c \in Cos, st'[c] = "job" PROVE \E i \in AllJobs' : i.c = c
  <2>1. Head(backs).c # c
    <3>1. CASE Head(backs).c = 0
      BY <3>1, ScriptAssumption
    <3>2. CASE Resume(Head(backs).c, <<>>)
      <4>1. Head(backs).c = c => st'[c] = "run"
        BY <1>1, <3>2 DEF Resume
      <4> QED BY <1>3, <4>1
    <3> QED BY <3>1, <3>2
  <2>2. st[c] = "job"
    BY <1>1, <1>3, <2>1 DEF Resume
  <2>3. PICK i \in AllJobs : i.c = c
    BY <2>2 DEF Asked
  <2> QED BY <1>2, <2>1, <2>3 DEF AllJobs
<1> QED BY <1>3 DEF Asked

LEMMA AskedReturns ==
  ASSUME Asked, WorkerInv, NEW op, NEW res, Completes(op, res),
         NEW o, Returns1(o) \/ Fails
  PROVE  Asked'
BY AskedTaken DEF Completes, Returns1, Fails

LEMMA AskedStepW ==
  ASSUME Asked, WorkerInv, WorkerStep
  PROVE  Asked'
<1>1. PICK c \in Cos :
        \/ (Begin(c) \/ Sleep(c)) /\ UNCHANGED workerVars
        \/ EndCo(c)
        \/ \E o \in held : Release(c, o)
  BY DEF WorkerStep
<1>2. CASE Begin(c) /\ UNCHANGED workerVars
  BY <1>2, AskedBegins DEF Begin, Resume, workerVars
<1>3. CASE Sleep(c) /\ UNCHANGED workerVars
  BY <1>3, AskedBegins DEF Sleep, Waits, workerVars
<1>4. CASE EndCo(c)
  BY <1>4, AskedBegins DEF EndCo, End, Waits
<1>5. CASE \E o \in held : Release(c, o)
  BY <1>5, AskedIdle DEF Release
<1> QED BY <1>1, <1>2, <1>3, <1>4, <1>5

LEMMA AskedWk ==
  ASSUME Asked, WorkerInv, NEW op, Serves(op), NEW res \in Results, Served(res), st' = st
  PROVE  Asked'
BY AskedServed DEF Serves

LEMMA AskedAsk ==
  ASSUME Asked, WorkerInv, NEW c \in Cos, NEW op, NEW o, NEW hold, Ask(c, op, o, hold)
  PROVE  Asked'
BY AskedAsks DEF Ask

LEMMA AskedRabbit ==
  ASSUME Asked, WorkerInv, RabbitNext
  PROVE  Asked'
<1>1. CASE ProduceWk
  <2>1. Serves("produce") /\ st' = st /\ \E res \in {"closed", "ok", "error"} : Served(res)
    BY <1>1 DEF ProduceWk
  <2> QED BY <2>1, AskedWk DEF Results
<1>2. CASE FlushWk
  <2>1. Serves("flush") /\ st' = st /\ \E res \in {"closed", "ok", "error"} : Served(res)
    BY <1>2 DEF FlushWk
  <2> QED BY <2>1, AskedWk DEF Results
<1>3. CASE DestroyMessageWk
  <2>1. Serves("destroy_message") /\ st' = st /\ \E res \in {"ok"} : Served(res)
    BY <1>3 DEF DestroyMessageWk
  <2> QED BY <2>1, AskedWk DEF Results
<1>4. CASE \E op \in {"consume", "consume_for"} : ConsumeWk(op)
  <2>1. PICK op \in {"consume", "consume_for"} : ConsumeWk(op)
    BY <1>4
  <2>2. /\ Serves(op) /\ st' = st
        /\ \E res \in {"closed", "ok", "timeout", "error"} : Served(res)
    BY <2>1 DEF ConsumeWk
  <2> QED BY <2>2, AskedWk DEF Results
<1>5. CASE \E op \in {"confirm", "reject"} : SettleWk(op)
  <2>1. PICK op \in {"confirm", "reject"} : SettleWk(op)
    BY <1>5
  <2>2. CASE Crashes /\ UNCHANGED <<jobs, backs>>
    BY <2>2, AskedIdle DEF Crashes
  <2>3. CASE Serves(op) /\ st' = st /\ \E res \in {"ok", "error"} : Served(res)
    BY <2>3, AskedWk DEF Results
  <2> QED BY <2>1, <2>2, <2>3 DEF SettleWk
<1>6. CASE HeartbeatFails
  BY <1>6, AskedIdle DEF HeartbeatFails
<1>7. CASE DestroyWk
  BY <1>7, AskedIdle DEF DestroyWk
<1>8. CASE \E o \in DOMAIN objs : MessageGone(o)
  BY <1>8, AskedIdle DEF MessageGone
<1>9. CASE CloseWork
  BY <1>9, AskedIdle DEF CloseWork
<1>10. CASE \E c \in Cos : ProducerAsk(c)
  BY <1>10, AskedAsk DEF ProducerAsk
<1>11. CASE \E c \in Cos : \E op \in {"consume", "consume_for"} : Consume(c, op)
  BY <1>11, AskedAsks DEF Consume
<1>12. CASE \E c \in Cos : \E op \in {"confirm", "reject"}, m \in held : Settle(c, op, m)
  BY <1>12, AskedAsk DEF Settle
<1>13. CASE \E op \in {"consume", "consume_for"} : ConsumeCb(op)
  <2>1. PICK op \in {"consume", "consume_for"} : ConsumeCb(op)
    BY <1>13
  <2>2. CASE Completes(op, "ok") /\ Requeue("destroy_message")
    BY <2>2, AskedRequeued DEF Completes, Ops
  <2>3. CASE Completes(op, "timeout") /\ Returns1(0)
    BY <2>3, AskedReturns
  <2>4. CASE (Completes(op, "closed") \/ Completes(op, "error")) /\ Fails
    BY <2>4, AskedReturns
  <2> QED BY <2>1, <2>2, <2>3, <2>4 DEF ConsumeCb
<1>14. CASE \E op \in {"produce", "flush", "confirm", "reject"} : ErrorCb(op)
  BY <1>14, AskedReturns DEF ErrorCb
<1>15. CASE DestroyMessageCb
  BY <1>15, AskedReturns DEF DestroyMessageCb
<1>16. CASE WorkerStep
  BY <1>16, AskedStepW
<1> QED
  BY <1>1, <1>2, <1>3, <1>4, <1>5, <1>6, <1>7, <1>8, <1>9, <1>10, <1>11, <1>12, <1>13, <1>14,
     <1>15, <1>16 DEF RabbitNext, RabbitWk, RabbitMain

LEMMA AskedKafka ==
  ASSUME Asked, WorkerInv, KafkaNext
  PROVE  Asked'
<1>1. CASE \E op \in Consuming : ConsumeWkK(op)
  <2>1. PICK op \in Consuming : ConsumeWkK(op)
    BY <1>1
  <2>2. Serves(op) /\ st' = st /\ \E res \in {"message", "error", "timeout"} : Served(res)
    BY <2>1 DEF ConsumeWkK
  <2> QED BY <2>2, AskedWk DEF Results
<1>2. CASE PlainWk
  <2>1. "ok" \in Results
    BY DEF Results
  <2> QED BY <1>2, <2>1, AskedWk DEF PlainWk
<1>3. CASE CommitWk
  BY <1>3, AskedWk DEF CommitWk, Results
<1>4. CASE DestroyMsgWk
  BY <1>4, AskedWk DEF DestroyMsgWk, Results
<1>5. CASE DestroyWk
  BY <1>5, AskedIdle DEF DestroyWk
<1>6. CASE \E c \in Cos : KafkaAsk(c)
  BY <1>6, AskedAsk DEF KafkaAsk
<1>7. CASE \E op \in Consuming : ConsumeCbK(op)
  <2>0. PICK op \in Consuming : ConsumeCbK(op)
    BY <1>7
  <2>1. CASE Completes(op, "message") /\ Returns1(Len(objs) + 1)
    BY <2>1, AskedReturns
  <2>2. CASE Completes(op, "error") /\ Requeue("destroy_error")
    BY <2>2, AskedRequeued DEF Completes, Ops
  <2>3. CASE Completes(op, "timeout") /\ Returns1(0)
    BY <2>3, AskedReturns
  <2> QED BY <2>0, <2>1, <2>2, <2>3 DEF ConsumeCbK
<1>8. CASE \E op \in {"produce", "flush", "commit", "destroy_message", "destroy_error"} :
             DefaultCbK(op)
  <2>1. PICK op \in {"produce", "flush", "commit", "destroy_message", "destroy_error"} :
          DefaultCbK(op)
    BY <1>8
  <2>2. Completes(op, "ok") /\ backs # <<>>
    BY <2>1 DEF DefaultCbK, Completes
  <2>3. CASE Head(backs).c # 0
    BY <2>1, <2>2, <2>3, AskedReturns DEF DefaultCbK
  <2>4. CASE Head(backs).c = 0
    BY <2>1, <2>2, <2>4, AskedTaken DEF DefaultCbK
  <2> QED BY <2>3, <2>4
<1>9. CASE WorkerStep
  BY <1>9, AskedStepW
<1>10. CASE \E o \in Unheld : Destruct(o, "destroy_message", 1)
  BY <1>10, AskedAppends DEF Destruct
<1>11. CASE CloseWork
  BY <1>11, AskedIdle DEF CloseWork
<1> QED
  BY <1>1, <1>2, <1>3, <1>4, <1>5, <1>6, <1>7, <1>8, <1>9, <1>10, <1>11 DEF KafkaNext

LEMMA AskedMongo ==
  ASSUME Asked, WorkerInv, MongoNext
  PROVE  Asked'
<1>1. CASE ConnectWk
  <2>1. CASE Crashes /\ UNCHANGED <<jobs, backs>>
    BY <2>1, AskedIdle DEF Crashes
  <2>2. CASE Serves("connect") /\ st' = st /\ \E res \in {"ok", "error"} : Served(res)
    BY <2>2, AskedWk DEF Results
  <2> QED BY <1>1, <2>1, <2>2 DEF ConnectWk
<1>2. CASE CollectionWk
  <2>1. Serves("collection") /\ st' = st /\ \E res \in {"null", "handle"} : Served(res)
    BY <1>2 DEF CollectionWk, MongoWk
  <2> QED BY <2>1, AskedWk DEF Results
<1>3. CASE CollectionOpWk
  <2>1. st' = st
    BY <1>3 DEF CollectionOpWk, MongoWk
  <2>2. \E op \in {"write", "find", "find_one", "find_one_af"} : Serves(op)
    BY <1>3 DEF CollectionOpWk
  <2>3. \E res \in {"ok", "error", "handle", "document", "null"} : Served(res)
    BY <1>3 DEF CollectionOpWk
  <2> QED BY <2>1, <2>2, <2>3, AskedWk DEF Results
<1>4. CASE NextWk
  <2>1. /\ st' = st /\ \E op \in {"next", "to_array"} : Serves(op)
        /\ \E res \in {"end", "row"} : Served(res)
    BY <1>4 DEF NextWk, MongoWk
  <2> QED BY <2>1, AskedWk DEF Results
<1>5. CASE CloseHandleWk
  BY <1>5, AskedWk DEF CloseHandleWk, MongoWk, Results
<1>6. CASE DestroyWk
  BY <1>6, AskedIdle DEF DestroyWk
<1>7. CASE \E c \in Cos : ClientAsk(c)
  BY <1>7, AskedAsk DEF ClientAsk
<1>8. CASE \E c \in Cos : \E o \in held : CollectionAsk(c, o)
  BY <1>8, AskedAsk DEF CollectionAsk
<1>9. CASE \E c \in Cos : \E o \in held : CursorAsk(c, o)
  BY <1>9, AskedAsk DEF CursorAsk
<1>10. CASE ConnectCbM
  BY <1>10, AskedReturns DEF ConnectCbM
<1>11. CASE CollectionCb
  BY <1>11, AskedReturns DEF CollectionCb, Made
<1>12. CASE FindOneCb
  <2>1. CASE Completes("find_one", "document") /\ Requeue("find_one_af")
    BY <2>1, AskedRequeued DEF Completes, Ops
  <2>2. CASE Completes("find_one", "null") /\ Returns1(0)
    BY <2>2, AskedReturns
  <2> QED BY <1>12, <2>1, <2>2 DEF FindOneCb
<1>13. CASE CursorCb
  BY <1>13, AskedReturns DEF CursorCb, Made
<1>14. CASE NextCb
  BY <1>14, AskedReturns DEF NextCb
<1>15. CASE ToArrayCb
  <2>1. CASE Completes("to_array", "row") /\ Requeue("to_array")
    BY <2>1, AskedRequeued DEF Completes, Ops
  <2>2. CASE Completes("to_array", "end") /\ Returns1(0)
    BY <2>2, AskedReturns
  <2> QED BY <1>15, <2>1, <2>2 DEF ToArrayCb
<1>16. CASE \E op \in {"write", "find_one_af", "close"} : DefaultCbM(op)
  <2>1. PICK op \in {"write", "find_one_af", "close"} : DefaultCbM(op)
    BY <1>16
  <2>2. backs # <<>>
    BY <2>1 DEF DefaultCbM, Completes
  <2>3. CASE Head(backs).c # 0
    BY <2>1, <2>3, AskedReturns DEF DefaultCbM
  <2>4. CASE Head(backs).c = 0
    BY <2>1, <2>2, <2>4, AskedTaken DEF DefaultCbM
  <2> QED BY <2>3, <2>4
<1>17. CASE WorkerStep
  BY <1>17, AskedStepW
<1>18. CASE \E o \in Unheld : Destruct(o, "close", 0)
  BY <1>18, AskedAppends DEF Destruct
<1>19. CASE CloseWork
  BY <1>19, AskedIdle DEF CloseWork
<1> QED
  BY <1>1, <1>2, <1>3, <1>4, <1>5, <1>6, <1>7, <1>8, <1>9, <1>10, <1>11, <1>12, <1>13, <1>14,
     <1>15, <1>16, <1>17, <1>18, <1>19 DEF MongoNext

(* The ticker resumes nobody: its coroutines start.                        *)
LEMMA TickerWaits ==
  ASSUME st \in [Cos -> {"ready", "run", "ended"}], TickNext
  PROVE  st' \in [Cos -> {"ready", "run", "ended"}]
<1>1. CASE TickerGone
  BY <1>1 DEF TickerGone, scriptVars
<1>2. CASE TickCb
  BY <1>2 DEF TickCb
<1>3. ASSUME NEW c \in Cos, NewTicker(c) \/ Start(c) \/ Stop(c) \/ LetGo(c) \/ AfterCb(c)
      PROVE  st' = st
  BY <1>3 DEF NewTicker, Start, Stop, LetGo, AfterCb, Crashes, scriptVars
<1>4. ASSUME NEW c \in Cos, Begin(c) \/ Sleep(c) \/ End(c)
      PROVE  \E w \in {"ready", "run", "ended"} : st' = [st EXCEPT ![c] = w]
  BY <1>4 DEF Begin, Sleep, End, Waits, Resume
<1>5. CASE \E c \in Cos : Begin(c) \/ Sleep(c) \/ End(c)
  BY <1>4, <1>5
<1> QED BY <1>1, <1>2, <1>3, <1>5 DEF TickNext

-----------------------------------------------------------------------------
(* All clients.                                                            *)

LEMMA InitWait == Init => WaitInv
<1> SUFFICES ASSUME Init PROVE WaitInv
  OBVIOUS
<1>1. /\ frames = <<>> /\ st = [c \in Cos |-> "ready"] /\ rlost = {} /\ hlost = {}
      /\ cx = <<>> /\ context_ = 0 /\ connect_ = 0 /\ timer = "off" /\ current_ = None
      /\ reqs = <<>> /\ lreqs = <<>>
  BY DEF Init, ScriptInit, RedisInit, HttpInit, LogInit
<1>2. backs = <<>>
  BY DEF Init, WorkerInit, RabbitInit, KafkaInit, MongoInit
<1>3. Range(frames) = {} /\ Range(lreqs) = {} /\ \A i : i \notin 1 .. 0
  BY <1>1 DEF Range
<1>4. OnStack(frames, st)
  <2>1. frames \in Seq(Things) /\ Len(frames) = 0 /\ st \in [Cos -> Waitings]
    BY <1>1 DEF Waitings
  <2> QED BY <1>3, <2>1 DEF OnStack
<1>5. \A c \in Cos : st[c] = "ready"
  BY <1>1
<1>w. Writes
  <2>1. Len(lreqs) = 0 /\ lreqs \in Seq(Cos)
    BY <1>1
  <2> QED BY <1>3, <2>1 DEF Writes
<1>6. RedisInv
  <2>1. Len(cx) = 0 /\ cx \in Seq(CxRecords)
    BY <1>1
  <2>2. Connections(cx) /\ Asking(cx) = {}
    BY <1>3, <2>1 DEF Connections, Asking
  <2>3. ContextInv
    BY <1>1, <1>3, <2>1 DEF ContextInv
  <2>4. ConnectInv /\ Connecting = {}
    BY <1>1, <1>3 DEF ConnectInv, Connects, Connecting, InTimeout
  <2>5. current_ = [k |-> "none", c |-> 0, left |-> 0, i |-> 0, stop |-> FALSE]
    BY <1>1 DEF None
  <2>6. SubscriptionInv /\ Subscriber = {}
    BY <2>1, <2>5 DEF SubscriptionInv, Subscriptions, Subscribed, Subscriber
  <2>7. Places(st, rlost, Asking(cx) \cup Logging, Connecting, Subscriber)
    BY <1>1, <1>3, <1>5, <2>2, <2>4, <2>6 DEF Places, Logging
  <2> QED BY <1>3, <1>4, <1>w, <2>2, <2>3, <2>4, <2>6, <2>7 DEF RedisInv, Logging
<1>7. HttpInv
  <2>1. Len(reqs) = 0 /\ reqs \in Seq(Request)
    BY <1>1
  <2>2. Requests(reqs) /\ Fetching(reqs) = {}
    BY <1>3, <2>1 DEF Requests, Fetching
  <2>3. Messages
    BY <1>3 DEF Messages, Told
  <2>4. Fetches(st, hlost, Fetching(reqs))
    BY <1>1, <1>5, <2>2 DEF Fetches
  <2> QED BY <1>4, <2>2, <2>3, <2>4 DEF HttpInv
<1>8. LogInv
  BY <1>3, <1>4, <1>5, <1>w DEF LogInv, Logging
<1>9. st \in [Cos -> {"ready", "run", "ended"}] /\ Asked
  BY <1>1 DEF Asked
<1> QED BY <1>1, <1>2, <1>6, <1>7, <1>8, <1>9 DEF WaitInv

LEMMA WaitSame ==
  ASSUME WaitInv, UNCHANGED vars
  PROVE  WaitInv'
<1>1. UNCHANGED <<frames, st, jobs, backs, cx, context_, connect_, timer, current_, rlost,
                  reqs, msgs, own, hlost, lreqs, used>>
  BY DEF vars
<1>2. RedisInv => RedisInv'
  <2>1. /\ ContextInv' = ContextInv /\ ConnectInv' = ConnectInv
        /\ SubscriptionInv' = SubscriptionInv
        /\ Connecting' = Connecting /\ Subscriber' = Subscriber
        /\ Writes' = Writes /\ Logging' = Logging
    BY <1>1 DEF ContextInv, ConnectInv, SubscriptionInv, Connects, Making, InTimeout, Is,
                Subscribed, Connecting, Subscriber, Writes, Logging
  <2> QED BY <1>1, <2>1 DEF RedisInv
<1>3. HttpInv => HttpInv'
  <2>1. Messages' = Messages
    BY <1>1 DEF Messages, Told, Added
  <2> QED BY <1>1, <2>1 DEF HttpInv
<1>4. LogInv => LogInv'
  BY <1>1 DEF LogInv, Writes, Logging
<1>5. Asked' = Asked /\ Crashed' = Crashed /\ Worked' = Worked
  BY <1>1 DEF Asked, AllJobs, Crashed, Worked
<1>6. /\ Crashed \/ RedisInv => Crashed' \/ RedisInv'
      /\ Crashed \/ HttpInv => Crashed' \/ HttpInv'
      /\ Crashed \/ LogInv => Crashed' \/ LogInv'
  BY <1>2, <1>3, <1>4, <1>5
<1>7. (used # "redis" => rlost = {})' /\ (used # "http" => hlost = {})'
  BY <1>1 DEF WaitInv
<1>8. (used = "redis" => Crashed \/ RedisInv)'
  BY <1>1, <1>6 DEF WaitInv
<1>9. (used = "http" => Crashed \/ HttpInv)'
  BY <1>1, <1>6 DEF WaitInv
<1>10. (used = "logger" => Crashed \/ LogInv)'
  BY <1>1, <1>6 DEF WaitInv
<1>11. (used = "ticker" => st \in [Cos -> {"ready", "run", "ended"}])'
  BY <1>1 DEF WaitInv
<1>12. (IF Worked THEN Asked ELSE backs = <<>>)'
  BY <1>1, <1>5 DEF WaitInv
<1> QED BY <1>7, <1>8, <1>9, <1>10, <1>11, <1>12 DEF WaitInv

LEMMA WorkedWait ==
  ASSUME WaitInv, Worked, used' = used, UNCHANGED redisVars, UNCHANGED httpVars,
         Asked => Asked'
  PROVE  WaitInv' /\ rlost = {} /\ hlost = {}
<1>1. rlost' = rlost /\ hlost' = hlost /\ rlost = {} /\ hlost = {}
  BY DEF redisVars, httpVars, WaitInv, Worked
<1>2. Asked'
  BY DEF WaitInv
<1>3. Worked' /\ used' \notin {"redis", "http", "logger", "ticker"}
  BY DEF Worked
<1> QED BY <1>1, <1>2, <1>3 DEF WaitInv

(* A step keeps the invariant and resumes nobody who has been forgotten.   *)
Forgotten == rlost \cup hlost
StayForgotten == \A c \in Forgotten : st'[c] = st[c]

LEMMA StepWait == Inv /\ WaitInv /\ [Next]_vars => WaitInv' /\ StayForgotten
<1> SUFFICES ASSUME Inv, WaitInv, [Next]_vars PROVE WaitInv' /\ StayForgotten
  OBVIOUS
<1>1. CASE used = "ticker" /\ used' = used /\ TickNext /\ UNCHANGED dbVars
  <2>1. rlost' = rlost /\ hlost' = hlost /\ backs' = backs
    BY <1>1 DEF dbVars
  <2>2. st \in [Cos -> {"ready", "run", "ended"}] /\ rlost = {} /\ hlost = {} /\ backs = <<>>
    BY <1>1 DEF WaitInv, Worked
  <2>3. st' \in [Cos -> {"ready", "run", "ended"}]
    BY <1>1, <2>2, TickerWaits
  <2>4. ~Worked'
    BY <1>1 DEF Worked
  <2> QED BY <1>1, <2>1, <2>2, <2>3, <2>4 DEF WaitInv, StayForgotten, Forgotten
<1>2. CASE used = "logger" /\ used' = used /\ LogNext /\ UNCHANGED dbVars
  <2>1. rlost' = rlost /\ hlost' = hlost /\ backs' = backs
    BY <1>2 DEF dbVars
  <2>2. (Crashed \/ LogInv) /\ rlost = {} /\ hlost = {} /\ backs = <<>>
    BY <1>2 DEF WaitInv, Worked
  <2>3. Crashed' \/ LogInv'
    BY <1>2, <2>2, LogStep DEF LogOnward
  <2>4. ~Worked'
    BY <1>2 DEF Worked
  <2> QED BY <1>2, <2>1, <2>2, <2>3, <2>4 DEF WaitInv, StayForgotten, Forgotten
<1>3. CASE used = "rabbitmq" /\ used' = used /\ RabbitNext
           /\ UNCHANGED redisVars /\ UNCHANGED httpVars
  <2>1. Worked /\ WorkerInv
    BY <1>3 DEF Inv, Worked
  <2>2. Asked => Asked'
    BY <1>3, <2>1, AskedRabbit
  <2> QED BY <1>3, <2>1, <2>2, WorkedWait DEF StayForgotten, Forgotten
<1>4. CASE used = "kafka" /\ used' = used /\ KafkaNext
           /\ UNCHANGED redisVars /\ UNCHANGED httpVars
  <2>1. Worked /\ WorkerInv
    BY <1>4 DEF Inv, Worked
  <2>2. Asked => Asked'
    BY <1>4, <2>1, AskedKafka
  <2> QED BY <1>4, <2>1, <2>2, WorkedWait DEF StayForgotten, Forgotten
<1>5. CASE used = "mongodb" /\ used' = used /\ MongoNext
           /\ UNCHANGED redisVars /\ UNCHANGED httpVars
  <2>1. Worked /\ WorkerInv
    BY <1>5 DEF Inv, Worked
  <2>2. Asked => Asked'
    BY <1>5, <2>1, AskedMongo
  <2> QED BY <1>5, <2>1, <2>2, WorkedWait DEF StayForgotten, Forgotten
<1>6. CASE used = "redis" /\ used' = used /\ RedisNext /\ UNCHANGED workerVars
           /\ UNCHANGED httpVars
  <2>1. hlost' = hlost /\ backs' = backs
    BY <1>6 DEF httpVars, workerVars
  <2>2. (Crashed \/ RedisInv) /\ hlost = {} /\ backs = <<>>
    BY <1>6 DEF WaitInv, Worked
  <2>3. (\A c \in rlost : st'[c] = st[c]) /\ (Crashed' \/ RedisInv')
    BY <1>6, <2>2, RedisStep DEF RedisOnward
  <2>4. ~Worked'
    BY <1>6 DEF Worked
  <2> QED BY <1>6, <2>1, <2>2, <2>3, <2>4 DEF WaitInv, StayForgotten, Forgotten
<1>7. CASE used = "http" /\ used' = used /\ HttpNext /\ UNCHANGED workerVars
           /\ UNCHANGED redisVars
  <2>1. rlost' = rlost /\ backs' = backs
    BY <1>7 DEF redisVars, workerVars
  <2>2. (Crashed \/ HttpInv) /\ rlost = {} /\ backs = <<>>
    BY <1>7 DEF WaitInv, Worked
  <2>3. (\A c \in hlost : st'[c] = st[c]) /\ (Crashed' \/ HttpInv')
    BY <1>7, <2>2, HttpStep DEF HttpOnward
  <2>4. ~Worked'
    BY <1>7 DEF Worked
  <2> QED BY <1>7, <2>1, <2>2, <2>3, <2>4 DEF WaitInv, StayForgotten, Forgotten
<1>8. CASE UNCHANGED vars
  <2>1. st' = st
    BY <1>8 DEF vars
  <2> QED BY <1>8, <2>1, WaitSame DEF StayForgotten
<1> QED BY <1>1, <1>2, <1>3, <1>4, <1>5, <1>6, <1>7, <1>8 DEF Next

-----------------------------------------------------------------------------
(* What the invariant says of the pointers.                                *)

LEMMA PointerOf ==
  /\ \A at, c : Pointer(at, c).c = c
  /\ \A at, c, other, d : at = other /\ c = d => Pointer(at, c) = Pointer(other, d)
BY DEF Pointer

(* The properties, of any set of pointers: each waits, no two to the same, *)
(* and who waits is one of them.                                           *)
Once(ps) ==
  /\ \A p, q \in ps : p.c = q.c => p = q
  /\ \A p \in ps : st[p.c] \notin {"ready", "run", "ended"}
WaitsFor == {"job", "redis", "subscribed", "http", "log"}
Nobody(ps) ==
  \A c \in Cos : st[c] \in WaitsFor => c \in rlost \cup hlost \/ \E p \in ps : p.c = c

LEMMA WorkerOnce ==
  ASSUME WorkerInv, Asked
  PROVE  Once(WorkerPointers) /\ Nobody(WorkerPointers)
<1>1. /\ Queues(jobs, backs) /\ \A j \in AllJobs : Kept(j)
      /\ jobs \in Seq(JobRec) /\ backs \in Seq(JobRec) /\ st \in [Cos -> States]
  BY DEF WorkerInv, CallInv, Queues, WorkerTypes
<1>2. /\ DOMAIN jobs = 1 .. Len(jobs) /\ DOMAIN backs = 1 .. Len(backs)
      /\ \A i \in 1 .. Len(jobs) : jobs[i] \in AllJobs
      /\ \A i \in 1 .. Len(backs) : backs[i] \in AllJobs
      /\ \A j \in Range(jobs) : \E i \in 1 .. Len(jobs) : j = jobs[i]
      /\ \A j \in Range(backs) : \E i \in 1 .. Len(backs) : j = backs[i]
  <2>1. DOMAIN jobs = 1 .. Len(jobs) /\ DOMAIN backs = 1 .. Len(backs)
    BY <1>1
  <2>2. /\ \A i \in 1 .. Len(jobs) : jobs[i] \in Range(jobs)
        /\ \A j \in Range(jobs) : \E i \in 1 .. Len(jobs) : j = jobs[i]
    BY <1>1, InRange
  <2>3. /\ \A i \in 1 .. Len(backs) : backs[i] \in Range(backs)
        /\ \A j \in Range(backs) : \E i \in 1 .. Len(backs) : j = backs[i]
    BY <1>1, InRange
  <2> QED BY <2>1, <2>2, <2>3 DEF AllJobs
<1>3. ASSUME NEW p \in WorkerPointers
      PROVE  \/ \E i \in 1 .. Len(jobs) :
                  p = Pointer(<<"worker", i>>, jobs[i].c) /\ p.c = jobs[i].c /\ p.c # 0
             \/ \E i \in 1 .. Len(backs) :
                  p = Pointer(<<"master", i>>, backs[i].c) /\ p.c = backs[i].c /\ p.c # 0
  BY <1>2, PointerOf DEF WorkerPointers
<1>4. \A i, j : i.c = j.c /\ i.c # 0 => Key(i) = Key(j)
  BY DEF Key
<1>5. ASSUME NEW p \in WorkerPointers, NEW q \in WorkerPointers, p.c = q.c PROVE p = q
  <2>1. CASE \E i \in 1 .. Len(jobs) :
               p = Pointer(<<"worker", i>>, jobs[i].c) /\ p.c = jobs[i].c /\ p.c # 0
    <3>1. PICK i \in 1 .. Len(jobs) :
            p = Pointer(<<"worker", i>>, jobs[i].c) /\ p.c = jobs[i].c /\ p.c # 0
      BY <2>1
    <3>2. \A k \in 1 .. Len(backs) : backs[k].c # p.c
      BY <1>1, <1>4, <3>1 DEF Queues
    <3>3. PICK k \in 1 .. Len(jobs) : q = Pointer(<<"worker", k>>, jobs[k].c) /\ q.c = jobs[k].c
      BY <1>3, <1>5, <3>2
    <3>4. i = k
      BY <1>1, <1>4, <1>5, <3>1, <3>3 DEF Queues
    <3> QED BY <3>1, <3>3, <3>4
  <2>2. CASE \E i \in 1 .. Len(backs) :
               p = Pointer(<<"master", i>>, backs[i].c) /\ p.c = backs[i].c /\ p.c # 0
    <3>1. PICK i \in 1 .. Len(backs) :
            p = Pointer(<<"master", i>>, backs[i].c) /\ p.c = backs[i].c /\ p.c # 0
      BY <2>2
    <3>2. \A k \in 1 .. Len(jobs) : jobs[k].c # p.c
      BY <1>1, <1>4, <3>1 DEF Queues
    <3>3. PICK k \in 1 .. Len(backs) : q = Pointer(<<"master", k>>, backs[k].c) /\ q.c = backs[k].c
      BY <1>3, <1>5, <3>2
    <3>4. i = k
      BY <1>1, <1>4, <1>5, <3>1, <3>3 DEF Queues
    <3> QED BY <3>1, <3>3, <3>4
  <2> QED BY <1>3, <2>1, <2>2
<1>6. ASSUME NEW p \in WorkerPointers PROVE st[p.c] = "job"
  <2>1. PICK j \in AllJobs : p.c = j.c /\ j.c # 0
    BY <1>2, <1>3
  <2> QED BY <1>1, <2>1 DEF Kept
<1>7. ASSUME NEW c \in Cos, st[c] \in WaitsFor PROVE \E p \in WorkerPointers : p.c = c
  <2>1. st[c] = "job"
    BY <1>1, <1>7 DEF WaitsFor, States
  <2>2. PICK j \in AllJobs : j.c = c
    BY <2>1 DEF Asked
  <2>3. c # 0
    BY ScriptAssumption
  <2>4. CASE j \in Range(jobs)
    <3>1. PICK i \in 1 .. Len(jobs) : j = jobs[i]
      BY <1>2, <2>4
    <3>2. Pointer(<<"worker", i>>, jobs[i].c) \in WorkerPointers
      BY <1>2, <2>2, <2>3, <3>1 DEF WorkerPointers
    <3> QED BY <2>2, <3>1, <3>2, PointerOf
  <2>5. CASE j \in Range(backs)
    <3>1. PICK i \in 1 .. Len(backs) : j = backs[i]
      BY <1>2, <2>5
    <3>2. Pointer(<<"master", i>>, backs[i].c) \in WorkerPointers
      BY <1>2, <2>2, <2>3, <3>1 DEF WorkerPointers
    <3> QED BY <2>2, <3>1, <3>2, PointerOf
  <2> QED BY <2>2, <2>4, <2>5 DEF AllJobs
<1> QED BY <1>5, <1>6, <1>7 DEF Once, Nobody

(* The ticker: no queue, no pointer, and nobody waits.                     *)
LEMMA TickerOnce ==
  ASSUME st \in [Cos -> {"ready", "run", "ended"}], jobs = <<>>, backs = <<>>
  PROVE  Once(WorkerPointers) /\ Nobody(WorkerPointers)
<1>1. DOMAIN jobs = {} /\ DOMAIN backs = {}
  OBVIOUS
<1>2. WorkerPointers = {}
  BY <1>1 DEF WorkerPointers
<1>3. \A c \in Cos : st[c] \notin WaitsFor
  BY DEF WaitsFor
<1> QED BY <1>2, <1>3 DEF Once, Nobody

LEMMA HttpOnce ==
  ASSUME HttpInv
  PROVE  Once(HttpPointers) /\ Nobody(HttpPointers)
<1>1. Requests(reqs) /\ Fetches(st, hlost, Fetching(reqs)) /\ st \in [Cos -> Waitings]
  BY DEF HttpInv, OnStack
<1>2. reqs \in Seq(Request)
  BY <1>1 DEF Requests
<1>3. DOMAIN reqs = 1 .. Len(reqs) /\ \A r \in 1 .. Len(reqs) : reqs[r] \in Request
  BY <1>2
<1>4. \A r \in 1 .. Len(reqs) : reqs[r].c \in Cos \cup {0}
  BY <1>3 DEF Request
<1>5. ASSUME NEW p \in HttpPointers
      PROVE  \E r \in 1 .. Len(reqs) : p = Pointer(r, reqs[r].c) /\ p.c = reqs[r].c /\ p.c # 0
  BY <1>3, PointerOf DEF HttpPointers
<1>6. ASSUME NEW p \in HttpPointers, NEW q \in HttpPointers, p.c = q.c PROVE p = q
  BY <1>1, <1>5, <1>6 DEF Requests
<1>7. ASSUME NEW p \in HttpPointers PROVE st[p.c] = "http"
  <2>1. p.c \in Fetching(reqs)
    BY <1>4, <1>5 DEF Fetching
  <2> QED BY <1>1, <2>1 DEF Fetches
<1>8. ASSUME NEW c \in Cos, st[c] \in WaitsFor, c \notin hlost
      PROVE  \E p \in HttpPointers : p.c = c
  <2>1. st[c] = "http"
    BY <1>1, <1>8 DEF WaitsFor, Waitings, Fetches
  <2>2. c \in Fetching(reqs)
    BY <1>1, <1>8, <2>1 DEF Fetches
  <2>3. PICK r \in 1 .. Len(reqs) : reqs[r].c = c
    BY <2>2 DEF Fetching
  <2>4. c # 0
    BY ScriptAssumption
  <2>5. Pointer(r, reqs[r].c) \in HttpPointers
    BY <1>3, <2>3, <2>4 DEF HttpPointers
  <2> QED BY <2>3, <2>5, PointerOf
<1> QED BY <1>6, <1>7, <1>8 DEF Once, Nobody

LEMMA LogHas ==
  ASSUME Writes
  PROVE  /\ \A p \in LogPointers : p.c \in Logging
         /\ \A p, q \in LogPointers : p.c = q.c => p = q
         /\ \A c \in Logging : \E p \in LogPointers : p.c = c
<1>1. /\ DOMAIN lreqs = 1 .. Len(lreqs)
      /\ \A i \in 1 .. Len(lreqs) : lreqs[i] \in Logging
      /\ \A c \in Logging : \E i \in 1 .. Len(lreqs) : c = lreqs[i]
  BY InRange DEF Writes, Logging
<1>2. ASSUME NEW p \in LogPointers
      PROVE  \E i \in 1 .. Len(lreqs) : p = Pointer(i, lreqs[i]) /\ p.c = lreqs[i]
  BY <1>1, PointerOf DEF LogPointers
<1>3. ASSUME NEW p \in LogPointers, NEW q \in LogPointers, p.c = q.c PROVE p = q
  BY <1>2, <1>3 DEF Writes
<1>4. ASSUME NEW p \in LogPointers PROVE p.c \in Logging
  BY <1>1, <1>2
<1>5. ASSUME NEW c \in Logging PROVE \E p \in LogPointers : p.c = c
  <2>1. PICK i \in 1 .. Len(lreqs) : c = lreqs[i]
    BY <1>1
  <2>2. Pointer(i, lreqs[i]) \in LogPointers
    BY <1>1 DEF LogPointers
  <2> QED BY <2>1, <2>2, PointerOf
<1> QED BY <1>3, <1>4, <1>5

LEMMA LogOnce ==
  ASSUME LogInv
  PROVE  Once(LogPointers) /\ Nobody(LogPointers)
<1>1. st \in [Cos -> Waitings] /\ Writes /\ \A c \in Logging : st[c] = "log"
  BY DEF LogInv, OnStack
<1>2. ASSUME NEW c \in Cos, st[c] \in WaitsFor PROVE c \in Logging
  BY <1>1, <1>2 DEF WaitsFor, Waitings, LogInv
<1>3. \A p \in LogPointers : st[p.c] = "log"
  BY <1>1, LogHas
<1> QED BY <1>1, <1>2, <1>3, LogHas DEF Once, Nobody

(* The three kinds, without the sets they are collected in.                *)
Queued(i, j) == Pointer(<<"queue", i, j>>, cx[i].q[j].c)
ToSubscriber == current_.i \in Existing /\ current_.k # "deleted"
Subscription == Pointer(<<"subscription">>, current_.c)
ToConnecting == connect_ # 0 /\ ~InTimeout
Connection   == Pointer(<<"connect">>, connect_)

LEMMA RedisHas ==
  ASSUME NEW p
  PROVE  p \in RedisPointers <=>
           \/ \E i \in Existing : \E j \in DOMAIN cx[i].q : p = Queued(i, j)
           \/ ToSubscriber /\ p = Subscription
           \/ ToConnecting /\ p = Connection
<1>1. PICK Q : Q = UNION {QueuePointers(i) : i \in Existing}
  OBVIOUS
<1>2. p \in Q <=> \E i \in Existing : p \in QueuePointers(i)
  BY <1>1
<1>3. \A i : p \in QueuePointers(i) <=> \E j \in DOMAIN cx[i].q : p = Queued(i, j)
  BY Zenon DEF QueuePointers, Queued
<1>4. PICK U : U = {Pointer(<<"subscription">>, c) :
              c \in IF current_.i \in Existing /\ current_.k # "deleted" THEN {current_.c} ELSE {}}
  OBVIOUS
<1>5. p \in U <=> ToSubscriber /\ p = Subscription
  BY <1>4, Zenon DEF ToSubscriber, Subscription
<1>6. PICK B : B = {Pointer(<<"connect">>, c) :
              c \in IF connect_ = 0 \/ InTimeout THEN {} ELSE {connect_}}
  OBVIOUS
<1>7. p \in B <=> ToConnecting /\ p = Connection
  BY <1>6, Zenon DEF ToConnecting, Connection
<1>8. RedisPointers = (Q \cup U) \cup B
  BY <1>1, <1>4, <1>6, Zenon DEF RedisPointers
<1> QED BY <1>2, <1>3, <1>5, <1>7, <1>8

LEMMA RedisOnce ==
  ASSUME RedisInv
  PROVE  Once(RedisPointers \cup LogPointers) /\ Nobody(RedisPointers \cup LogPointers)
<1>1. /\ Connections(cx) /\ ContextInv /\ SubscriptionInv /\ st \in [Cos -> Waitings]
      /\ Places(st, rlost, Asking(cx) \cup Logging, Connecting, Subscriber)
      /\ Writes /\ Logging \cap Asking(cx) = {}
  BY DEF RedisInv, OnStack
<1>2. cx \in Seq(CxRecords)
  BY <1>1 DEF Connections
<1>3. /\ DOMAIN cx = 1 .. Len(cx) /\ \A i \in 1 .. Len(cx) : cx[i] \in CxRecords
      /\ Existing \subseteq 1 .. Len(cx)
  BY <1>2 DEF Existing
<1>4. \A i \in 1 .. Len(cx) : cx[i].q \in CxQueues
  BY <1>3 DEF CxRecords
<1>5. \A i \in 1 .. Len(cx) :
        /\ DOMAIN cx[i].q = 1 .. Len(cx[i].q)
        /\ \A j \in 1 .. Len(cx[i].q) : cx[i].q[j] \in CxRequests /\ cx[i].q # <<>>
  BY <1>4 DEF CxQueues
<1>6. \A i \in 1 .. Len(cx) : \A j \in 1 .. Len(cx[i].q) : cx[i].q[j].c \in Asking(cx)
  <2>1. \A x \in CxRequests : x.c \in Cos
    BY DEF CxRequests
  <2> QED BY <1>5, <2>1 DEF Asking
<1>7. ASSUME NEW p \in RedisPointers
      PROVE  \/ \E i \in 1 .. Len(cx) : \E j \in 1 .. Len(cx[i].q) :
                  p = Queued(i, j) /\ p.c = cx[i].q[j].c
             \/ p = Subscription /\ p.c = current_.c /\ ToSubscriber
             \/ p = Connection /\ p.c = connect_ /\ ToConnecting
  <2>1. CASE \E i \in Existing : \E j \in DOMAIN cx[i].q : p = Queued(i, j)
    <3>1. PICK i \in Existing : \E j \in DOMAIN cx[i].q : p = Queued(i, j)
      BY <2>1
    <3>2. PICK j \in DOMAIN cx[i].q : p = Queued(i, j)
      BY <3>1
    <3>3. p.c = cx[i].q[j].c
      BY <3>2, PointerOf DEF Queued
    <3>4. i \in 1 .. Len(cx) /\ j \in 1 .. Len(cx[i].q)
      BY <1>3, <1>5
    <3> QED BY <3>2, <3>3, <3>4
  <2>2. CASE ToSubscriber /\ p = Subscription
    BY <2>2, PointerOf DEF Subscription
  <2>3. CASE ToConnecting /\ p = Connection
    BY <2>3, PointerOf DEF Connection
  <2> QED BY <2>1, <2>2, <2>3, RedisHas
<1>8. /\ ToSubscriber => Subscriber = {current_.c}
      /\ Subscriber # {} => ToSubscriber
  <2>1. current_.k \in {"none", "channels", "pattern", "deleted", "unheard"}
    BY <1>1 DEF SubscriptionInv, Subscriptions
  <2>2. current_.i \in Existing => current_.i # 0
    BY <1>3
  <2>3. Subscribed => current_.i \in Existing /\ current_.i # 0
    <3>1. current_.i \in 0 .. Len(cx) /\ Len(cx) \in Nat
      BY <1>1, <1>2 DEF SubscriptionInv
    <3> QED BY <1>1, <1>3, <3>1 DEF SubscriptionInv, Is, Existing
  <2> QED BY <1>1, <2>1, <2>2, <2>3 DEF SubscriptionInv, Subscriber, Subscribed, ToSubscriber
<1>9. ToConnecting <=> connect_ \in Connecting
  BY DEF Connecting, Connects, ToConnecting
<1>10. /\ \A c \in Asking(cx) \cup Logging \cup Connecting : st[c] = "redis"
       /\ \A c \in Subscriber : st[c] = "subscribed"
       /\ Asking(cx) \cap Connecting = {} /\ Logging \cap Connecting = {}
  BY <1>1 DEF Places
<1>11. ASSUME NEW p \in RedisPointers
       PROVE  st[p.c] \in {"redis", "subscribed"} /\ p.c \notin Logging
  BY <1>1, <1>6, <1>7, <1>8, <1>9, <1>10
<1>12. ASSUME NEW p \in RedisPointers, NEW q \in RedisPointers, p.c = q.c PROVE p = q
  <2>1. CASE \E i \in 1 .. Len(cx) : \E j \in 1 .. Len(cx[i].q) :
               p = Queued(i, j) /\ p.c = cx[i].q[j].c
    <3>1. PICK i \in 1 .. Len(cx) : \E j \in 1 .. Len(cx[i].q) :
                 p = Queued(i, j) /\ p.c = cx[i].q[j].c
      BY <2>1
    <3>2. PICK j \in 1 .. Len(cx[i].q) :
                 p = Queued(i, j) /\ p.c = cx[i].q[j].c
      BY <3>1
    <3>3. p.c \in Asking(cx)
      BY <1>6, <3>2
    <3>4. \E m \in 1 .. Len(cx) : \E n \in 1 .. Len(cx[m].q) :
                 q = Queued(m, n) /\ q.c = cx[m].q[n].c
      <4>1. st[q.c] = "redis" /\ q.c \notin Connecting
        BY <1>10, <1>12, <3>3
      <4>2. ~(q.c = current_.c /\ ToSubscriber) /\ ~(q.c = connect_ /\ ToConnecting)
        BY <1>8, <1>9, <1>10, <4>1
      <4> QED BY <1>7, <4>2
    <3>5. PICK m \in 1 .. Len(cx) : \E n \in 1 .. Len(cx[m].q) :
                 q = Queued(m, n) /\ q.c = cx[m].q[n].c
      BY <3>4
    <3>6. PICK n \in 1 .. Len(cx[m].q) :
                 q = Queued(m, n) /\ q.c = cx[m].q[n].c
      BY <3>5
    <3>7. i = m /\ j = n
      BY <1>1, <1>12, <3>2, <3>6 DEF Connections
    <3> QED BY <3>2, <3>6, <3>7
  <2>2. CASE p = Subscription /\ p.c = current_.c /\ ToSubscriber
    <3>1. st[p.c] = "subscribed"
      BY <1>8, <1>10, <2>2
    <3>2. /\ \A i \in 1 .. Len(cx) : \A j \in 1 .. Len(cx[i].q) : q.c # cx[i].q[j].c
          /\ ~(q.c = connect_ /\ ToConnecting)
      BY <1>6, <1>9, <1>10, <1>12, <3>1
    <3> QED BY <1>7, <2>2, <3>2
  <2>3. CASE p = Connection /\ p.c = connect_ /\ ToConnecting
    <3>1. p.c \in Connecting /\ st[p.c] = "redis"
      BY <1>9, <1>10, <2>3
    <3>2. /\ \A i \in 1 .. Len(cx) : \A j \in 1 .. Len(cx[i].q) : q.c # cx[i].q[j].c
          /\ ~(q.c = current_.c /\ ToSubscriber)
      BY <1>6, <1>8, <1>10, <1>12, <3>1
    <3> QED BY <1>7, <2>3, <3>2
  <2> QED BY <1>7, <2>1, <2>2, <2>3
<1>13. ASSUME NEW c \in Cos, st[c] \in WaitsFor, c \notin rlost, c \notin Logging
       PROVE  \E p \in RedisPointers : p.c = c
  <2>1. c \in Asking(cx) \cup Connecting \cup Subscriber
    BY <1>1, <1>13 DEF WaitsFor, Waitings, Places
  <2>2. CASE c \in Asking(cx)
    <3>1. PICK i \in 1 .. Len(cx) : \E j \in 1 .. Len(cx[i].q) : cx[i].q[j].c = c
      BY <2>2 DEF Asking
    <3>2. PICK j \in 1 .. Len(cx[i].q) : cx[i].q[j].c = c
      BY <3>1
    <3>3. i \in Existing
      <4>1. cx[i].q # <<>>
        BY <1>5
      <4>2. cx[i].s \in {"up", "closing", "freeing"}
        BY <1>1, <4>1 DEF ContextInv
      <4> QED BY <1>3, <4>2 DEF Existing
    <3>4. Queued(i, j) \in RedisPointers
      BY <1>5, <3>3, RedisHas
    <3> QED BY <3>2, <3>4, PointerOf DEF Queued
  <2>3. CASE c \in Connecting
    <3>1. c = connect_ /\ ToConnecting
      BY <1>9, <2>3 DEF Connecting
    <3>2. Connection \in RedisPointers
      BY <3>1, RedisHas
    <3> QED BY <3>1, <3>2, PointerOf DEF Connection
  <2>4. CASE c \in Subscriber
    <3>1. c = current_.c /\ ToSubscriber
      BY <1>8, <2>4 DEF Subscriber
    <3>2. Subscription \in RedisPointers
      BY <3>1, RedisHas
    <3> QED BY <3>1, <3>2, PointerOf DEF Subscription
  <2> QED BY <2>1, <2>2, <2>3, <2>4
<1>14. /\ \A p \in LogPointers : p.c \in Logging /\ st[p.c] = "redis"
       /\ \A p, q \in LogPointers : p.c = q.c => p = q
       /\ \A c \in Logging : \E p \in LogPointers : p.c = c
  BY <1>1, <1>10, LogHas
<1>15. Once(RedisPointers \cup LogPointers)
  BY <1>11, <1>12, <1>14, Zenon DEF Once
<1>16. Nobody(RedisPointers \cup LogPointers)
  BY <1>13, <1>14 DEF Nobody
<1> QED BY <1>15, <1>16

LEMMA WaitOnce == Inv /\ WaitInv => ResumesOnce /\ NobodyForgotten
<1> SUFFICES ASSUME Inv, WaitInv, ~Crashed PROVE Once(Pointers) /\ Nobody(Pointers)
  BY DEF ResumesOnce, NobodyForgotten, Once, Nobody, WaitsFor
<1>1. CASE used = "redis"
  <2>1. Pointers = RedisPointers \cup LogPointers
    BY <1>1 DEF Pointers
  <2> QED BY <1>1, <2>1, RedisOnce DEF WaitInv
<1>2. CASE used = "http"
  <2>1. Pointers = HttpPointers
    BY <1>2 DEF Pointers
  <2> QED BY <1>2, <2>1, HttpOnce DEF WaitInv
<1>3. CASE used = "logger"
  <2>1. Pointers = LogPointers
    BY <1>3 DEF Pointers
  <2> QED BY <1>3, <2>1, LogOnce DEF WaitInv
<1>4. CASE used \in {"rabbitmq", "kafka", "mongodb", "ticker"}
  <2>1. Pointers = WorkerPointers
    BY <1>4 DEF Pointers
  <2>2. CASE used = "ticker"
    BY <2>1, <2>2, TickerOnce DEF WaitInv, Inv, Worked
  <2>3. CASE Worked
    BY <2>1, <2>3, WorkerOnce DEF WaitInv, Inv
  <2> QED BY <1>4, <2>2, <2>3 DEF Worked
<1> QED BY <1>1, <1>2, <1>3, <1>4 DEF Inv

LEMMA WaitHolds == Spec => []WaitInv
<1>1. Inv /\ WaitInv /\ [Next]_vars => WaitInv'
  BY StepWait
<1> QED BY InvHolds, InitWait, <1>1, PTL DEF Spec

(* Nobody is resumed twice: at any moment every pointer the queues, the    *)
(* libraries and the objects hold is to a coroutine that waits, and no two *)
(* are to the same, so that none of them can run a generator inside itself *)
(* or answer a later call (coroutine.cpp line 134; redis.cpp line 69,      *)
(* consume_cb, to_array_cb, find_one_cb).                                  *)
THEOREM WaitersResumedOnce == Spec => []ResumesOnce
<1>1. Inv /\ WaitInv => ResumesOnce
  BY WaitOnce
<1> QED BY <1>1, InvHolds, WaitHolds, PTL

(* And nobody who waits for a client is forgotten, whatever ends, is       *)
(* closed or is dropped, but at the places that rlost and hlost name       *)
(* (redis.cpp lines 114, 133, 163, 292, 410; client.cpp lines 194, 210).   *)
THEOREM NobodyIsForgotten == Spec => []NobodyForgotten
<1>1. Inv /\ WaitInv => NobodyForgotten
  BY WaitOnce
<1> QED BY <1>1, InvHolds, WaitHolds, PTL

(* Who is forgotten there waits for ever: a late reply, timer or           *)
(* connection resumes only who is pointed to, which they are not.          *)
THEOREM ForgottenWaitForEver == Spec => ForgottenForGood
<1>1. Inv /\ WaitInv /\ [Next]_vars =>
        [\A c \in rlost \cup hlost : st'[c] = st[c]]_vars
  BY StepWait DEF StayForgotten, Forgotten
<1> QED BY <1>1, InvHolds, WaitHolds, PTL DEF Spec, ForgottenForGood
=============================================================================
