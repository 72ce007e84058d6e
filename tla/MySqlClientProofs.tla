------------------------- MODULE MySqlClientProofs --------------------------
(***************************************************************************)
(* Proofs about MySqlClient, for any number of coroutines, calls and       *)
(* pings.  The inductive invariant Inv relates the queue of the worker to  *)
(* what the main thread still holds: each request under way to the         *)
(* coroutine that waits for it and to the object it keeps (CallInv), the   *)
(* objects to who holds them and the client to its worker (ObjectInv), the *)
(* rows of each result to the one who will free them (RowsInv), the        *)
(* connections to connected_ (LinkInv), and the ping requests to the timer *)
(* (PingInv).                                                              *)
(***************************************************************************)
EXTENDS MySqlClient, FiniteSetTheorems, TLAPS

Completed == Len(completed)
Served    == Len(served)
Submitted == Len(submitted)

\* The queue is one sequence, served and completed up to two points in it.
QueueInv ==
  /\ Completed <= Served /\ Served <= Submitted /\ Submitted <= MaxWork
  /\ \A i \in 1 .. Served : served[i] = submitted[i]
  /\ \A i \in 1 .. Completed : completed[i] = submitted[i]
  /\ stage \in {"retired", "finished"} => Served = Submitted
  /\ stage = "finished" => Completed = Submitted

CallInv ==
  /\ \A i \in 1 .. Submitted :
       IF submitted[i].op \in Calls THEN submitted[i].co \in Cos ELSE submitted[i].co = NoCo
  /\ \A i \in Completed + 1 .. Submitted : submitted[i].op \in Calls =>
       /\ co[submitted[i].co] = "wait" /\ ref[submitted[i].co] = submitted[i].id
       /\ submitted[i].op = "fetch" => submitted[i].id \in Ids
       /\ submitted[i].op # "fetch" => submitted[i].id = Client
       /\ \A j \in Completed + 1 .. Submitted : submitted[j].co = submitted[i].co => j = i

ObjectInv ==
  /\ php \subseteq {Client} \union sets
  /\ \A c \in Cos : ref[c] \in {Nothing, Client} \union sets
  /\ client = "destroyed" => php = {} /\ sets = {} /\ \A c \in Cos : ref[c] = Nothing
  /\ client = "destroyed" <=> timer \in {"closing", "closed"}
  /\ stage # "open" => timer = "closed" /\ two = 0

Uses  == {"fetch", "two", "close"}
Frees == {"two", "close"}
Unserved == Served + 1 .. Submitted

RowsInv ==
  /\ \A n \in sets \union ({two} \ {0}) :
       /\ rows[n] = "held" /\ n \in 1 .. Completed
       /\ \A i \in Unserved : submitted[i].op \in Frees => submitted[i].id # n
  /\ two \notin sets
  /\ \A i \in Unserved : submitted[i].op \in Frees =>
       /\ submitted[i].id \in 1 .. Completed /\ rows[submitted[i].id] = "held"
       /\ \A j \in Unserved : submitted[j].op \in Frees /\ submitted[j].id = submitted[i].id => i = j
  /\ \A n \in Ids : rows[n] = "held" =>
       \/ n \in sets \union {two}
       \/ n \in Completed + 1 .. Served /\ out[n] = "rows"
       \/ \E i \in Unserved : submitted[i].op \in Frees /\ submitted[i].id = n
  /\ \A n \in Ids : out[n] = "rows" =>
       n \in Completed + 1 .. Served /\ rows[n] = "held" /\ submitted[n].op \in {"query", "one"}
  /\ \A n \in Ids : n > Served => rows[n] = "none"

LinkInv ==
  /\ stage \in {"open", "closing"} => links = IF connected THEN 1 ELSE 0
  /\ stage \in {"retired", "finished"} => links = 0

Flying   == {i \in Ids : InFlight(i) /\ submitted[i].op = "ping"}
Connects == {i \in 1 .. Completed : submitted[i].op = "connect"}
Asked    == {i \in 1 .. Submitted : submitted[i].co # NoCo}

PingInv ==
  /\ KeepAlive
  /\ starts <= Cardinality(Connects)
  /\ Cardinality(Asked) <= MaxCalls

Inv == QueueInv /\ CallInv /\ ObjectInv /\ RowsInv /\ LinkInv /\ PingInv

-----------------------------------------------------------------------------
(* The queue.                                                              *)

WqTypes == {submitted, served, completed} \subseteq Seq(Request) /\ stage \in WQ!Stages

\* What a step does to the three lengths and to the requests.
Grows(r) ==
  /\ stage = "open" /\ UNCHANGED <<served, completed, stage>>
  /\ Submitted < MaxWork /\ Submitted' = Submitted + 1
  /\ submitted'[Submitted + 1] = r
  /\ \A i \in 1 .. Submitted : submitted'[i] = submitted[i]
Serves ==
  /\ stage \in {"open", "closing"} /\ Served < Submitted /\ Served' = Served + 1
  /\ UNCHANGED <<submitted, completed, stage>>
Completes ==
  /\ Completed < Served /\ Completed' = Completed + 1 /\ stage # "finished"
  /\ UNCHANGED <<submitted, served, stage>>

LEMMA Lengths ==
  ASSUME WqTypes
  PROVE  /\ Submitted \in Nat /\ Served \in Nat /\ Completed \in Nat
         /\ DOMAIN submitted = 1 .. Submitted
         /\ \A i \in 1 .. Submitted : submitted[i] \in Request
BY DEF WqTypes, Submitted, Served, Completed

LEMMA SubmitGrows ==
  ASSUME WqTypes, NEW r \in Request, WQ!Submit(r)
  PROVE  Grows(r) /\ WqTypes'
<1>1. submitted \in Seq(Request) /\ Len(submitted) \in Nat
  BY DEF WqTypes
<1>2. /\ stage = "open" /\ Len(submitted) < MaxWork /\ submitted' = Append(submitted, r)
      /\ UNCHANGED <<served, completed, stage>>
  BY DEF WQ!Submit
<1>3. /\ submitted' \in Seq(Request) /\ Len(submitted') = Len(submitted) + 1
      /\ submitted'[Len(submitted) + 1] = r
      /\ \A i \in 1 .. Len(submitted) : submitted'[i] = submitted[i]
  BY <1>1, <1>2
<1> QED BY <1>2, <1>3 DEF Grows, WqTypes, Submitted

LEMMA ServeServes ==
  ASSUME WqTypes, WQ!Serve
  PROVE  /\ Serves /\ WqTypes' /\ served'[Served + 1] = submitted[Served + 1]
         /\ \A i \in 1 .. Served : served'[i] = served[i]
<1>1. served \in Seq(Request) /\ Len(served) \in Nat /\ Len(submitted) \in Nat
      /\ submitted \in Seq(Request)
  BY DEF WqTypes
<1>2. /\ stage \in {"open", "closing"} /\ Len(served) < Len(submitted)
      /\ served' = Append(served, submitted[Len(served) + 1])
      /\ UNCHANGED <<submitted, completed, stage>>
  BY DEF WQ!Serve
<1>3. submitted[Len(served) + 1] \in Request
  BY <1>1, <1>2
<1> QED BY <1>1, <1>2, <1>3 DEF Serves, WqTypes, Served, Submitted

LEMMA CompleteCompletes ==
  ASSUME WqTypes, WQ!Complete
  PROVE  /\ Completes /\ WqTypes' /\ completed'[Completed + 1] = served[Completed + 1]
         /\ \A i \in 1 .. Completed : completed'[i] = completed[i]
<1>1. served \in Seq(Request) /\ Len(served) \in Nat /\ Len(completed) \in Nat
      /\ completed \in Seq(Request)
  BY DEF WqTypes
<1>2. /\ stage # "finished" /\ Len(completed) < Len(served)
      /\ completed' = Append(completed, served[Len(completed) + 1])
      /\ UNCHANGED <<submitted, served, stage>>
  BY DEF WQ!Complete
<1>3. served[Len(completed) + 1] \in Request
  BY <1>1, <1>2
<1> QED BY <1>1, <1>2, <1>3 DEF Completes, WqTypes, Completed, Served

\* The requests the main thread makes are of their type.
LEMMA RequestTypes ==
  ASSUME NEW op \in Calls \union {"two", "close", "ping"}, NEW c \in Cos \union {NoCo},
         NEW id \in 0 .. MaxWork
  PROVE  [op |-> op, co |-> c, id |-> id] \in Request
BY DEF Request

ObjTypes ==
  /\ php \subseteq {Client} \cup Ids /\ sets \subseteq Ids
  /\ co \in [Cos -> {"run", "wait", "end"}]
  /\ ref \in [Cos -> {Nothing, Client} \cup Ids]
  /\ client \in {"alive", "destroyed"} /\ main \in {"run", "crashed"}
  /\ timer \in {"off", "on", "closing", "closed"} /\ two \in 0 .. MaxWork
RowTypes ==
  /\ url \in BOOLEAN /\ connected \in BOOLEAN
  /\ rows \in [Ids -> {"none", "held", "freed"}]
  /\ out \in [Ids -> {"none", "ok", "rows", "error"}]

LEMMA BoundsFacts == MaxWork \in Nat /\ MaxCalls \in Nat /\ MaxCalls <= MaxWork
BY BoundsAssumption DEF MaxWork

\* What coroutine c asks of object x.
Asks(c, op, x) ==
  /\ Ask(c, op, x) /\ op \in Calls
  /\ main' \in {main, "crashed"} /\ url' \in {url, TRUE}
  /\ op = "fetch" => x \in Ids
  /\ op # "fetch" => x = Client

LEMMA NextCases ==
  ASSUME Next, ObjTypes
  PROVE  \/ \E c \in Cos, op \in Calls, x \in {Client} \union Ids : Asks(c, op, x)
         \/ \E c \in Cos : End(c)
         \/ \E x \in {Client} \union Ids : Drop(x)
         \/ \E n \in Ids : FreeSet(n)
         \/ Destruct \/ OneCbTwo \/ ConnectCb \/ OneCb \/ QueryCb \/ FetchCb \/ FreedCb
         \/ PingTimer \/ PingCb \/ Closing \/ Finish \/ Work \/ Retire \/ UNCHANGED vars
<1>1. ASSUME NEW c \in Cos, Connect(c) \/ Query(c) \/ One(c) \/ Fetch(c)
      PROVE  \E op \in Calls, x \in {Client} \union Ids : Asks(c, op, x)
  <2>1. CASE Connect(c) \/ Query(c) \/ One(c)
    BY <2>1 DEF Connect, Query, One, Asks, Calls
  <2>2. CASE Fetch(c)
    BY <2>2 DEF Fetch, Asks, Calls, ObjTypes
  <2> QED BY <1>1, <2>1, <2>2
<1> QED BY <1>1 DEF Next, PhpSteps, MainSteps, WorkerSteps, Gone

LEMMA AskEffect ==
  ASSUME WqTypes, ObjTypes, NEW c \in Cos, NEW op \in Calls, NEW x \in {Client} \union Ids,
         Asks(c, op, x)
  PROVE  /\ WQ!Submit([op |-> op, co |-> c, id |-> x])
         /\ Grows([op |-> op, co |-> c, id |-> x]) /\ WqTypes'
         /\ MayAsk /\ co[c] = "run" /\ x \in php
         /\ op = "fetch" => x \in Ids
         /\ op # "fetch" => x = Client
         /\ co' = [co EXCEPT ![c] = "wait"] /\ ref' = [ref EXCEPT ![c] = x]
         /\ UNCHANGED <<php, sets, client, two, timer, starts, connected, links, rows, out>>
<1>1. [op |-> op, co |-> c, id |-> x] \in Request
  BY RequestTypes, BoundsFacts DEF Ids, Client
<1>2. WQ!Submit([op |-> op, co |-> c, id |-> x])
  BY DEF Asks, Ask, Queue
<1>3. Grows([op |-> op, co |-> c, id |-> x]) /\ WqTypes'
  BY <1>1, <1>2, SubmitGrows
<1> QED BY <1>2, <1>3 DEF Asks, Ask, Php, ping, server

\* Requests the main thread makes of itself: to free rows, and pings.
LEMMA OwnEffect ==
  ASSUME WqTypes, ObjTypes, starts \in 0 .. MaxCalls, NEW op \in {"two", "close", "ping"},
         NEW id \in 0 .. MaxWork, Queue(op, NoCo, id)
  PROVE  /\ \E r \in Request : WQ!Submit(r)
         /\ Grows([op |-> op, co |-> NoCo, id |-> id]) /\ WqTypes'
<1>1. [op |-> op, co |-> NoCo, id |-> id] \in Request
  BY RequestTypes
<1> QED BY <1>1, SubmitGrows DEF Queue

\* The three steps that make one.
LEMMA OwnSteps ==
  ASSUME WqTypes, ObjTypes, starts \in 0 .. MaxCalls,
         (\E n \in Ids : FreeSet(n)) \/ OneCbTwo \/ PingTimer
  PROVE  /\ \E r \in Request : WQ!Submit(r)
         /\ WqTypes'
         /\ \A n \in Ids : FreeSet(n) => Grows([op |-> "close", co |-> NoCo, id |-> n])
         /\ OneCbTwo => Grows([op |-> "two", co |-> NoCo, id |-> two])
         /\ PingTimer => Grows([op |-> "ping", co |-> NoCo, id |-> starts])
<1>1. starts \in 0 .. MaxWork /\ two \in 0 .. MaxWork /\ Ids \subseteq 0 .. MaxWork
  BY BoundsFacts DEF ObjTypes, Ids
<1>2. ASSUME NEW n \in Ids, FreeSet(n)
      PROVE  /\ \E r \in Request : WQ!Submit(r)
             /\ Grows([op |-> "close", co |-> NoCo, id |-> n]) /\ WqTypes'
  BY <1>1, <1>2, OwnEffect DEF FreeSet
<1>3. ASSUME OneCbTwo
      PROVE  /\ \E r \in Request : WQ!Submit(r)
             /\ Grows([op |-> "two", co |-> NoCo, id |-> two]) /\ WqTypes'
  BY <1>1, <1>3, OwnEffect DEF OneCbTwo
<1>4. ASSUME PingTimer
      PROVE  /\ \E r \in Request : WQ!Submit(r)
             /\ Grows([op |-> "ping", co |-> NoCo, id |-> starts]) /\ WqTypes'
  BY <1>1, <1>4, OwnEffect DEF PingTimer
<1> QED BY <1>2, <1>3, <1>4

\* A callback completes the oldest request that was served.
LEMMA DoneEffect ==
  ASSUME WqTypes, QueueInv, NEW op, Done(op)
  PROVE  /\ Completes /\ WqTypes' /\ WQ!Complete
         /\ Nth = Completed + 1 /\ Nth \in 1 .. Submitted /\ Nth \in Ids
         /\ served[Nth] = submitted[Nth] /\ submitted[Nth].op = op /\ Back = submitted[Nth].co
         /\ out' = [out EXCEPT ![Nth] = "none"]
         /\ two = 0 /\ main = "run" /\ Unheld = {} /\ ~ClientUnheld
         /\ UNCHANGED <<connected, links, rows>>
<1>1. WQ!Complete /\ two = 0 /\ main = "run" /\ Unheld = {} /\ ~ClientUnheld
      /\ served[Nth].op = op /\ out' = [out EXCEPT ![Nth] = "none"]
      /\ UNCHANGED <<connected, links, rows>>
  BY DEF Done, Loop, Idle, Main, connection
<1>2. Completes /\ WqTypes' /\ Nth = Completed + 1
  BY <1>1, CompleteCompletes DEF Nth, Completed
<1>3. Nth \in 1 .. Served /\ Nth \in 1 .. Submitted /\ Nth \in Ids
  BY <1>2, Lengths, BoundsFacts DEF Completes, QueueInv, Ids
<1> QED BY <1>1, <1>2, <1>3 DEF QueueInv, Back

\* Every step is a step of the queue, or leaves it alone.
LEMMA QueueStep ==
  ASSUME WqTypes, ObjTypes, QueueInv, starts \in 0 .. MaxCalls, [Next]_vars
  PROVE  [WQ!WQNext]_(WQ!wqvars) /\ WqTypes'
<1> USE DEF WQ!wqvars
<1>1. CASE \E r \in Request : WQ!Submit(r) /\ WqTypes'
  BY <1>1 DEF WQ!WQNext
<1>2. CASE WQ!Complete /\ WqTypes'
  BY <1>2 DEF WQ!WQNext
<1>3. CASE UNCHANGED wq
  BY <1>3 DEF wq, WqTypes
<1>4. ASSUME NEW c \in Cos, NEW op \in Calls, NEW x \in {Client} \union Ids, Asks(c, op, x)
      PROVE  \E r \in Request : WQ!Submit(r) /\ WqTypes'
  <2>1. [op |-> op, co |-> c, id |-> x] \in Request
    BY RequestTypes, BoundsFacts DEF Ids, Client
  <2> QED BY <1>4, <2>1, AskEffect
<1>5. CASE (\E n \in Ids : FreeSet(n)) \/ OneCbTwo \/ PingTimer
  BY <1>1, <1>5, OwnSteps
<1>6. CASE ConnectCb \/ OneCb \/ QueryCb \/ FetchCb \/ FreedCb \/ PingCb
  <2>1. \E op : Done(op)
    BY <1>6 DEF ConnectCb, OneCb, QueryCb, FetchCb, FreedCb, PingCb
  <2> QED BY <1>2, <2>1, DoneEffect
<1>7. CASE Work
  <2>1. WQ!Serve /\ WqTypes'
    BY <1>7, ServeServes DEF Work
  <2> QED BY <2>1 DEF WQ!WQNext
<1>8. CASE Closing
  <2>1. WQ!Close
    BY <1>8 DEF Closing
  <2> QED BY <2>1 DEF WQ!WQNext, WQ!Close, WqTypes, WQ!Stages
<1>9. CASE Retire
  <2>1. WQ!Retire
    BY <1>9 DEF Retire
  <2> QED BY <2>1 DEF WQ!WQNext, WQ!Retire, WqTypes, WQ!Stages
<1>10. CASE Finish
  <2>1. WQ!Finish
    BY <1>10 DEF Finish
  <2> QED BY <2>1 DEF WQ!WQNext, WQ!Finish, WqTypes, WQ!Stages
<1>11. CASE (\E c \in Cos : End(c)) \/ (\E x \in {Client} \union Ids : Drop(x)) \/ Destruct
  BY <1>3, <1>11 DEF End, Drop, Destruct
<1>12. CASE UNCHANGED vars
  BY <1>3, <1>12 DEF vars, wq
<1> QED BY <1>1, <1>4, <1>5, <1>6, <1>7, <1>8, <1>9, <1>10, <1>11, <1>12, NextCases

LEMMA QueueInvStep ==
  ASSUME WqTypes, QueueInv, [WQ!WQNext]_(WQ!wqvars)
  PROVE  QueueInv'
<1>a. /\ Submitted \in Nat /\ Served \in Nat /\ Completed \in Nat /\ MaxWork \in Nat
      /\ submitted \in Seq(Request) /\ served \in Seq(Request)
  BY Lengths, BoundsFacts DEF WqTypes
<1>1. ASSUME NEW r \in Request, WQ!Submit(r) PROVE QueueInv'
  BY <1>a, <1>1, SubmitGrows DEF Grows, QueueInv, Served, Completed
<1>2. CASE WQ!Serve
  BY <1>a, <1>2, ServeServes DEF Serves, QueueInv, Submitted, Completed
<1>3. CASE WQ!Complete
  BY <1>a, <1>3, CompleteCompletes DEF Completes, QueueInv, Submitted, Served
<1>4. CASE WQ!Close
  BY <1>4 DEF WQ!Close, QueueInv, Submitted, Served, Completed
<1>5. CASE WQ!Retire
  BY <1>5 DEF WQ!Retire, QueueInv, Submitted, Served, Completed
<1>6. CASE WQ!Finish
  BY <1>6 DEF WQ!Finish, QueueInv, Submitted, Served, Completed
<1>7. CASE UNCHANGED WQ!wqvars
  BY <1>7 DEF WQ!wqvars, QueueInv, Submitted, Served, Completed
<1> QED BY <1>1, <1>2, <1>3, <1>4, <1>5, <1>6, <1>7 DEF WQ!WQNext

-----------------------------------------------------------------------------
(* Types.                                                                  *)

\* Who is resumed by a callback is a coroutine, when the request was a call.
LEMMA BackIsCo ==
  ASSUME WqTypes, QueueInv, CallInv, NEW op \in Calls, Done(op)
  PROVE  Back \in Cos /\ Nth \in Completed + 1 .. Submitted
<1>1. Nth = Completed + 1 /\ Nth \in 1 .. Submitted /\ submitted[Nth].op = op
      /\ Back = submitted[Nth].co
  BY DoneEffect
<1> QED BY <1>1, Lengths DEF CallInv

LEMMA ObjTypesStep ==
  ASSUME WqTypes, ObjTypes, QueueInv, CallInv, [Next]_vars
  PROVE  ObjTypes'
<1> USE DEF ObjTypes
<1>1. ASSUME NEW c \in Cos, NEW op \in Calls, NEW x \in {Client} \union Ids, Asks(c, op, x)
      PROVE  ObjTypes'
  <2>1. main' \in {"run", "crashed"}
    BY <1>1 DEF Asks
  <2>2. /\ co' = [co EXCEPT ![c] = "wait"] /\ ref' = [ref EXCEPT ![c] = x]
        /\ UNCHANGED <<php, sets, client, two, timer>>
    BY <1>1 DEF Asks, Ask, ping
  <2> QED BY <2>1, <2>2
<1>2. CASE (\E c \in Cos : End(c)) \/ (\E x \in {Client} \union Ids : Drop(x))
  BY <1>2 DEF End, Drop, ping
<1>3. CASE (\E n \in Ids : FreeSet(n)) \/ Destruct \/ OneCbTwo
  BY <1>3, BoundsFacts DEF FreeSet, Destruct, OneCbTwo, ping
<1>4. CASE ConnectCb
  <2>1. Back \in Cos
    BY <1>4, BackIsCo DEF ConnectCb, Calls
  <2> QED BY <1>4, <2>1 DEF ConnectCb, Next_, ping
<1>5. CASE OneCb
  <2>1. Back \in Cos /\ Nth \in 0 .. MaxWork /\ 0 \in 0 .. MaxWork
    BY <1>5, BackIsCo, DoneEffect, BoundsFacts DEF OneCb, Calls, Ids
  <2>2. two' \in {Nth, 0} /\ Next_(Back) /\ UNCHANGED <<php, sets, client, main, timer>>
    BY <1>5 DEF OneCb, ping
  <2> QED BY <2>1, <2>2 DEF Next_
<1>6. CASE QueryCb
  <2>1. Back \in Cos /\ Nth \in Ids
    BY <1>6, BackIsCo, DoneEffect DEF QueryCb, Calls
  <2> QED BY <1>6, <2>1 DEF QueryCb, Next_, ping
<1>7. CASE FetchCb
  <2>1. Back \in Cos
    BY <1>7, BackIsCo DEF FetchCb, Calls
  <2> QED BY <1>7, <2>1 DEF FetchCb, Next_, ping
<1>8. CASE FreedCb \/ PingTimer \/ PingCb \/ Closing \/ Finish \/ Work \/ Retire \/ UNCHANGED vars
  BY <1>8 DEF FreedCb, PingTimer, PingCb, Closing, Finish, Work, Retire, vars, object, ping
<1> QED BY <1>1, <1>2, <1>3, <1>4, <1>5, <1>6, <1>7, <1>8, NextCases

\* What the worker thread does to a connection and to the rows of request n.
LEMMA WorkEffect ==
  ASSUME WqTypes, QueueInv, Work
  PROVE  /\ Serves /\ WqTypes' /\ Served + 1 \in Ids /\ main = "run"
         /\ LET n == Served + 1
                r == submitted[n] IN
              /\ r \in Request
              /\ \/ r.op = "connect" /\ ConnectWk(n)
                 \/ r.op \in {"query", "one"} /\ QueryWk(n, r.op)
                 \/ r.op \in Frees /\ FreeWk(r.id)
                 \/ r.op \in {"fetch", "ping"} /\ UNCHANGED <<connected, links, rows, out>>
         /\ UNCHANGED <<php, co, ref, sets, client, two, main, timer, starts, url>>
<1>1. Serves /\ WqTypes'
  BY ServeServes DEF Work
<1>2. Served + 1 \in Ids /\ Served + 1 \in 1 .. Submitted
  BY <1>1, Lengths, BoundsFacts DEF Serves, QueueInv, Ids
<1>3. submitted[Served + 1] \in Request
  BY <1>2, Lengths
<1> QED BY <1>1, <1>2, <1>3 DEF Work, Served, Frees, server, object, ping

LEMMA RowTypesStep ==
  ASSUME WqTypes, ObjTypes, RowTypes, QueueInv, CallInv, [Next]_vars
  PROVE  RowTypes'
<1> USE DEF RowTypes
<1>1. ASSUME NEW c \in Cos, NEW op \in Calls, NEW x \in {Client} \union Ids, Asks(c, op, x)
      PROVE  RowTypes'
  BY <1>1 DEF Asks, Ask, server
<1>2. CASE (\E c \in Cos : End(c)) \/ (\E x \in {Client} \union Ids : Drop(x))
           \/ (\E n \in Ids : FreeSet(n)) \/ Destruct \/ OneCbTwo
  BY <1>2 DEF End, Drop, FreeSet, Destruct, OneCbTwo, server
<1>3. CASE ConnectCb \/ OneCb \/ QueryCb \/ FetchCb \/ FreedCb \/ PingCb
  <2>1. \E op : Done(op)
    BY <1>3 DEF ConnectCb, OneCb, QueryCb, FetchCb, FreedCb, PingCb
  <2>2. out' = [out EXCEPT ![Nth] = "none"] /\ UNCHANGED <<connected, links, rows>>
    BY <2>1, DoneEffect
  <2>3. UNCHANGED url
    BY <1>3 DEF ConnectCb, OneCb, QueryCb, FetchCb, FreedCb, PingCb
  <2> QED BY <2>2, <2>3
<1>4. CASE PingTimer \/ Closing \/ Finish \/ Retire \/ UNCHANGED vars
  BY <1>4 DEF PingTimer, Closing, Finish, Retire, vars, server
<1>5. CASE Work
  <2> DEFINE n == Served + 1
             r == submitted[n]
  <2>1. n \in Ids /\ url' = url
    BY <1>5, WorkEffect
  <2>2. \/ ConnectWk(n) \/ (\E op : QueryWk(n, op)) \/ FreeWk(r.id)
        \/ UNCHANGED <<connected, links, rows, out>>
    BY <1>5, WorkEffect
  <2> HIDE DEF n, r
  <2>3. CASE ConnectWk(n)
    BY <2>1, <2>3 DEF ConnectWk, Gives
  <2>4. ASSUME NEW op, QueryWk(n, op) PROVE RowTypes'
    BY <2>1, <2>4 DEF QueryWk, Gives
  <2>5. CASE FreeWk(r.id)
    BY <2>1, <2>5 DEF FreeWk
  <2> QED BY <2>1, <2>2, <2>3, <2>4, <2>5
<1> QED BY <1>1, <1>2, <1>3, <1>4, <1>5, NextCases

-----------------------------------------------------------------------------
(* Each call under way has its coroutine waiting, with a reference.        *)

\* The queue and the coroutines stay as they are.
LEMMA CallQuiet ==
  ASSUME CallInv, UNCHANGED <<submitted, completed, co, ref>>
  PROVE  CallInv'
BY DEF CallInv, Submitted, Completed

\* A request of the main thread's own.
LEMMA CallOwn ==
  ASSUME WqTypes, QueueInv, CallInv, NEW op \in {"two", "close", "ping"}, NEW id,
         Grows([op |-> op, co |-> NoCo, id |-> id]), UNCHANGED <<co, ref>>
  PROVE  CallInv'
<1>a. Submitted \in Nat /\ Completed \in Nat /\ Completed <= Submitted /\ Served \in Nat
      /\ Submitted' = Submitted + 1 /\ Completed' = Completed
  BY Lengths DEF QueueInv, Grows, Completed
<1>b. /\ \A i \in 1 .. Submitted : submitted'[i] = submitted[i]
      /\ submitted'[Submitted + 1].op \notin Calls /\ submitted'[Submitted + 1].co = NoCo
  BY DEF Grows, Calls
<1>1. ASSUME NEW i \in 1 .. Submitted'
      PROVE  IF submitted'[i].op \in Calls THEN submitted'[i].co \in Cos ELSE submitted'[i].co = NoCo
  BY <1>a, <1>b DEF CallInv
<1>2. ASSUME NEW i \in Completed' + 1 .. Submitted', submitted'[i].op \in Calls
      PROVE  /\ co[submitted'[i].co] = "wait" /\ ref[submitted'[i].co] = submitted'[i].id
             /\ submitted'[i].op = "fetch" => submitted'[i].id \in Ids
             /\ submitted'[i].op # "fetch" => submitted'[i].id = Client
             /\ \A j \in Completed' + 1 .. Submitted' : submitted'[j].co = submitted'[i].co => j = i
  <2>1. i \in Completed + 1 .. Submitted /\ i \in 1 .. Submitted
    BY <1>a, <1>b, <1>2
  <2>2. submitted[i].co \in Cos
    BY <1>b, <1>2, <2>1 DEF CallInv
  <2>3. submitted[i].co # NoCo
    BY <2>2, CosAssumption
  <2> QED BY <1>a, <1>b, <1>2, <2>1, <2>3 DEF CallInv
<1> QED BY <1>1, <1>2 DEF CallInv

\* The oldest call that was served comes back to its coroutine.
LEMMA CallBack ==
  ASSUME WqTypes, ObjTypes, QueueInv, CallInv, NEW op, Done(op),
         \/ op \in Calls /\ \E x : ref' = [ref EXCEPT ![Back] = x] /\ co' = [co EXCEPT ![Back] = "run"]
         \/ op \in Calls /\ co' = [co EXCEPT ![Back] = "run"] /\ ref' = ref
         \/ UNCHANGED <<co, ref>>
  PROVE  CallInv'
<1>a. /\ Submitted \in Nat /\ Completed \in Nat /\ Nth = Completed + 1 /\ Nth \in 1 .. Submitted
      /\ submitted[Nth].op = op /\ Back = submitted[Nth].co /\ submitted' = submitted
      /\ Completed' = Completed + 1 /\ Submitted' = Submitted
  BY Lengths, DoneEffect DEF Completes, Submitted
<1>b. co \in [Cos -> {"run", "wait", "end"}] /\ ref \in [Cos -> {Nothing, Client} \cup Ids]
  BY DEF ObjTypes
<1>1. ASSUME NEW i \in Completed + 2 .. Submitted, submitted[i].op \in Calls
      PROVE  co'[submitted[i].co] = "wait" /\ ref'[submitted[i].co] = submitted[i].id
  <2>1. i \in Completed + 1 .. Submitted /\ Nth \in Completed + 1 .. Submitted /\ i # Nth
    BY <1>a
  <2>2. submitted[i].co \in Cos /\ submitted[i].co # Back
    BY <1>1, <1>a, <2>1 DEF CallInv
  <2> QED BY <1>1, <1>b, <2>1, <2>2 DEF CallInv
<1> QED BY <1>1, <1>a DEF CallInv

LEMMA CallInvStep ==
  ASSUME WqTypes, ObjTypes, starts \in 0 .. MaxCalls, QueueInv, CallInv, [Next]_vars
  PROVE  CallInv'
<1>1. ASSUME NEW c \in Cos, NEW op \in Calls, NEW x \in {Client} \union Ids, Asks(c, op, x)
      PROVE  CallInv'
  <2> DEFINE q == [op |-> op, co |-> c, id |-> x]
  <2>g. Grows(q)
    BY <1>1, AskEffect
  <2>a. Submitted \in Nat /\ Completed \in Nat /\ Completed <= Submitted /\ Served \in Nat
        /\ Submitted' = Submitted + 1 /\ Completed' = Completed
    <3> HIDE DEF q
    <3> QED BY <2>g, Lengths DEF QueueInv, Grows, Completed
  <2>b. /\ \A i \in 1 .. Submitted : submitted'[i] = submitted[i]
        /\ submitted'[Submitted + 1] = [op |-> op, co |-> c, id |-> x]
    BY <2>g DEF Grows
  <2>c. /\ co' = [co EXCEPT ![c] = "wait"] /\ ref' = [ref EXCEPT ![c] = x] /\ co[c] = "run"
        /\ (op = "fetch" => x \in Ids) /\ (op # "fetch" => x = Client)
    BY <1>1, AskEffect
  <2>d. co \in [Cos -> {"run", "wait", "end"}] /\ ref \in [Cos -> {Nothing, Client} \cup Ids]
    BY DEF ObjTypes
  <2>1. \A i \in Completed + 1 .. Submitted : submitted[i].co # c
    <3>1. ASSUME NEW i \in Completed + 1 .. Submitted, submitted[i].co = c PROVE FALSE
      <4>1. i \in 1 .. Submitted
        BY <2>a
      <4>2. submitted[i].op \in Calls
        BY <3>1, <4>1, CosAssumption DEF CallInv
      <4> QED BY <2>c, <3>1, <4>2 DEF CallInv
    <3> QED BY <3>1
  <2>2. ASSUME NEW i \in 1 .. Submitted'
        PROVE  IF submitted'[i].op \in Calls THEN submitted'[i].co \in Cos ELSE submitted'[i].co = NoCo
    BY <2>a, <2>b DEF CallInv
  <2>3. ASSUME NEW i \in Completed + 1 .. Submitted, submitted[i].op \in Calls
        PROVE  /\ co'[submitted[i].co] = "wait" /\ ref'[submitted[i].co] = submitted[i].id
               /\ \A j \in Completed + 1 .. Submitted + 1 : submitted'[j].co = submitted[i].co => j = i
    <3>1. submitted[i].co \in Cos /\ submitted[i].co # c /\ i \in 1 .. Submitted
      BY <2>1, <2>3, <2>a DEF CallInv
    <3>2. co'[submitted[i].co] = "wait" /\ ref'[submitted[i].co] = submitted[i].id
      BY <2>3, <2>c, <2>d, <3>1 DEF CallInv
    <3> QED BY <2>3, <2>a, <2>b, <3>1, <3>2 DEF CallInv
  <2>4. /\ co'[c] = "wait" /\ ref'[c] = x
        /\ \A j \in Completed + 1 .. Submitted + 1 : submitted'[j].co = c => j = Submitted + 1
    <3>1. co'[c] = "wait" /\ ref'[c] = x
      BY <2>c, <2>d
    <3>2. ASSUME NEW j \in Completed + 1 .. Submitted + 1, j # Submitted + 1
          PROVE  submitted'[j].co # c
      <4>1. j \in Completed + 1 .. Submitted /\ j \in 1 .. Submitted
        BY <2>a, <3>2
      <4> QED BY <2>1, <2>b, <4>1
    <3> QED BY <3>1, <3>2
  <2>5. ASSUME NEW i \in Completed' + 1 .. Submitted', submitted'[i].op \in Calls
        PROVE  /\ co'[submitted'[i].co] = "wait" /\ ref'[submitted'[i].co] = submitted'[i].id
               /\ submitted'[i].op = "fetch" => submitted'[i].id \in Ids
               /\ submitted'[i].op # "fetch" => submitted'[i].id = Client
               /\ \A j \in Completed' + 1 .. Submitted' : submitted'[j].co = submitted'[i].co => j = i
    <3>1. CASE i = Submitted + 1
      BY <2>5, <2>a, <2>b, <2>c, <2>4, <3>1
    <3>2. CASE i \in Completed + 1 .. Submitted
      <4>1. submitted'[i] = submitted[i]
        BY <2>a, <2>b, <3>2
      <4> QED BY <2>5, <2>3, <2>a, <3>2, <4>1 DEF CallInv
    <3> QED BY <2>5, <2>a, <3>1, <3>2
  <2> QED BY <2>2, <2>5 DEF CallInv
<1>2. ASSUME NEW c \in Cos, End(c) PROVE CallInv'
  <2>1. co[c] = "run" /\ co' = [co EXCEPT ![c] = "end"] /\ ref' = [ref EXCEPT ![c] = Nothing]
        /\ UNCHANGED <<submitted, completed>>
    BY <1>2 DEF End, wq
  <2>2. UNCHANGED <<Submitted, Completed>> /\ Submitted \in Nat /\ Completed \in Nat
    BY <2>1, Lengths DEF Submitted, Completed
  <2>3. ASSUME NEW i \in Completed + 1 .. Submitted, submitted[i].op \in Calls
        PROVE  co'[submitted[i].co] = "wait" /\ ref'[submitted[i].co] = submitted[i].id
    <3>1. submitted[i].co \in Cos /\ submitted[i].co # c
      BY <2>1, <2>2, <2>3 DEF CallInv
    <3> QED BY <2>1, <2>3, <3>1 DEF CallInv, ObjTypes
  <2> QED BY <2>1, <2>2, <2>3 DEF CallInv
<1>3. CASE (\E n \in Ids : FreeSet(n)) \/ OneCbTwo \/ PingTimer
  <2>1. UNCHANGED <<co, ref>>
    BY <1>3 DEF FreeSet, OneCbTwo, PingTimer, object
  <2> QED BY <1>3, <2>1, OwnSteps, CallOwn
<1>4. CASE ConnectCb
  BY <1>4, CallBack DEF ConnectCb, Next_, Calls
<1>5. CASE OneCb
  BY <1>5, CallBack DEF OneCb, Next_, Calls
<1>6. CASE QueryCb
  BY <1>6, CallBack DEF QueryCb, Next_, Calls
<1>7. CASE FetchCb
  BY <1>7, CallBack DEF FetchCb, Next_, Calls
<1>8. CASE FreedCb \/ PingCb
  <2>1. (\E op : Done(op)) /\ UNCHANGED <<co, ref>>
    BY <1>8 DEF FreedCb, PingCb, object
  <2> QED BY <2>1, CallBack
<1>9. CASE (\E x \in {Client} \union Ids : Drop(x)) \/ Destruct \/ Closing \/ Finish \/ Work \/ Retire
           \/ UNCHANGED vars
  <2>1. UNCHANGED <<submitted, completed, co, ref>>
    BY <1>9 DEF Drop, Destruct, Closing, Finish, Work, Retire, WQ!Close, WQ!Finish, WQ!Serve,
       WQ!Retire, wq, object, vars
  <2> QED BY <2>1, CallQuiet
<1> QED BY <1>1, <1>2, <1>3, <1>4, <1>5, <1>6, <1>7, <1>8, <1>9, NextCases

-----------------------------------------------------------------------------
(* Objects, who holds them, and the client's worker.                       *)

\* While a call is under way the client is there, and so is its worker.
LEMMA CallMeansAlive ==
  ASSUME WqTypes, ObjTypes, QueueInv, CallInv, ObjectInv, NEW op \in Calls, Done(op)
  PROVE  client = "alive" /\ timer \notin {"closing", "closed"} /\ stage = "open" /\ Back \in Cos
<1>1. Back \in Cos /\ Back = submitted[Nth].co /\ submitted[Nth].op = op
      /\ Nth \in Completed + 1 .. Submitted
  BY BackIsCo, DoneEffect
<1>2. ref[Back] = submitted[Nth].id /\ submitted[Nth].id \in {Client} \union Ids
  BY <1>1 DEF CallInv
<1>3. ref[Back] # Nothing
  BY <1>2, BoundsFacts DEF Client, Nothing, Ids
<1>4. client = "alive"
  BY <1>1, <1>3 DEF ObjectInv, ObjTypes
<1> QED BY <1>1, <1>4 DEF ObjectInv

LEMMA ObjectInvStep ==
  ASSUME WqTypes, ObjTypes, starts \in 0 .. MaxCalls, QueueInv, CallInv, ObjectInv, [Next]_vars
  PROVE  ObjectInv'
<1>a. ref \in [Cos -> {Nothing, Client} \cup Ids] /\ sets \subseteq Ids
      /\ client \in {"alive", "destroyed"}
  BY DEF ObjTypes
<1>b. Client \notin Ids /\ Nothing \notin Ids /\ Nothing # Client
  BY DEF Client, Nothing, Ids
<1> USE DEF ObjectInv
<1>1. ASSUME NEW c \in Cos, NEW op \in Calls, NEW x \in {Client} \union Ids, Asks(c, op, x)
      PROVE  ObjectInv'
  <2>1. /\ ref' = [ref EXCEPT ![c] = x] /\ x \in php
        /\ UNCHANGED <<php, sets, client, two, timer>>
    BY <1>1, AskEffect
  <2>2. UNCHANGED stage
    BY <1>1, AskEffect DEF Grows
  <2> QED BY <1>a, <2>1, <2>2
<1>2. ASSUME NEW c \in Cos, End(c) PROVE ObjectInv'
  BY <1>a, <1>2 DEF End, wq, ping
<1>3. ASSUME NEW x \in {Client} \union Ids, Drop(x) PROVE ObjectInv'
  BY <1>3 DEF Drop, wq, ping
<1>4. ASSUME NEW n \in Ids, FreeSet(n) PROVE ObjectInv'
  <2>1. n \notin php /\ (\A c \in Cos : ref[c] # n) /\ sets' = sets \ {n}
        /\ UNCHANGED <<php, ref, client, two, timer>>
    BY <1>4 DEF FreeSet, Unheld, Held, ping
  <2>2. UNCHANGED stage
    BY <1>4, OwnSteps DEF Grows
  <2> QED BY <1>a, <1>b, <2>1, <2>2
<1>5. CASE Destruct
  <2>1. sets = {} /\ Client \notin php /\ (\A c \in Cos : ref[c] # Client) /\ client = "alive"
    BY <1>5 DEF Destruct, ClientUnheld, Held
  <2>2. client' = "destroyed" /\ timer' = "closing" /\ UNCHANGED <<php, ref, sets, two, stage>>
    BY <1>5 DEF Destruct, wq
  <2> QED BY <2>1, <2>2
<1>6. CASE OneCbTwo
  <2>1. UNCHANGED <<php, ref, sets, client, timer, stage>> /\ stage = "open"
    BY <1>6, OwnSteps DEF OneCbTwo, ping, Grows
  <2> QED BY <2>1
<1>7. CASE PingTimer
  <2>1. UNCHANGED <<php, ref, sets, client, two, stage>> /\ stage = "open"
    BY <1>7, OwnSteps DEF PingTimer, object, Grows
  <2>2. timer = "on" /\ timer' = "off"
    BY <1>7 DEF PingTimer
  <2> QED BY <2>1, <2>2
<1>8. ASSUME NEW op \in Calls, Done(op)
      PROVE  client = "alive" /\ timer \notin {"closing", "closed"} /\ stage = "open" /\ Back \in Cos
             /\ stage' = stage /\ Nth \in Ids
  BY <1>8, CallMeansAlive, DoneEffect DEF Completes
<1>9. CASE ConnectCb
  BY <1>a, <1>8, <1>9 DEF ConnectCb, Next_, ping, Calls
<1>10. CASE OneCb
  BY <1>a, <1>8, <1>10 DEF OneCb, Next_, ping, Calls
<1>11. CASE QueryCb
  BY <1>a, <1>8, <1>11 DEF QueryCb, Next_, ping, Calls
<1>12. CASE FetchCb
  BY <1>a, <1>8, <1>12 DEF FetchCb, Next_, ping, Calls
<1>13. CASE FreedCb \/ PingCb
  <2>1. \E op : Done(op)
    BY <1>13 DEF FreedCb, PingCb
  <2>2. UNCHANGED stage
    BY <2>1, DoneEffect DEF Completes
  <2>3. UNCHANGED <<php, ref, sets, client, two>>
    BY <1>13 DEF FreedCb, PingCb, object
  <2>4. timer' = timer \/ (client = "alive" /\ timer' = "on")
    BY <1>13 DEF FreedCb, PingCb, ping
  <2> QED BY <2>2, <2>3, <2>4
<1>14. CASE Closing
  BY <1>14 DEF Closing, object, WQ!Close, Loop
<1>15. CASE Finish \/ Work \/ Retire
  <2>1. UNCHANGED <<php, ref, sets, client, two, timer>>
    BY <1>15 DEF Finish, Work, Retire, object, ping
  <2>2. UNCHANGED stage \/ (stage # "open" /\ stage' # "open")
    BY <1>15 DEF Finish, Work, Retire, WQ!Finish, WQ!Serve, WQ!Retire
  <2> QED BY <2>1, <2>2
<1>16. CASE UNCHANGED vars
  BY <1>16 DEF vars
<1> QED BY <1>1, <1>2, <1>3, <1>4, <1>5, <1>6, <1>7, <1>9, <1>10, <1>11, <1>12, <1>13, <1>14,
        <1>15, <1>16, NextCases

-----------------------------------------------------------------------------
(* Who frees the rows.                                                     *)

\* The clauses of RowsInv by name: rows that are owned, the requests that
\* free them, that held rows have an owner, and what is not yet known.
Owned == sets \union ({two} \ {0})
RowsOwned ==
  /\ \A n \in Owned :
       /\ rows[n] = "held" /\ n \in 1 .. Completed
       /\ \A i \in Unserved : submitted[i].op \in Frees => submitted[i].id # n
  /\ two \notin sets
RowsFreed == \A i \in Unserved : submitted[i].op \in Frees =>
  /\ submitted[i].id \in 1 .. Completed /\ rows[submitted[i].id] = "held"
  /\ \A j \in Unserved : submitted[j].op \in Frees /\ submitted[j].id = submitted[i].id => i = j
RowsHeld == \A n \in Ids : rows[n] = "held" =>
  \/ n \in sets \union {two}
  \/ n \in Completed + 1 .. Served /\ out[n] = "rows"
  \/ \E i \in Unserved : submitted[i].op \in Frees /\ submitted[i].id = n
RowsOut == \A n \in Ids : out[n] = "rows" =>
  n \in Completed + 1 .. Served /\ rows[n] = "held" /\ submitted[n].op \in {"query", "one"}
RowsNew == \A n \in Ids : n > Served => rows[n] = "none"

LEMMA RowsParts == RowsInv <=> RowsOwned /\ RowsFreed /\ RowsHeld /\ RowsOut /\ RowsNew
BY DEF RowsInv, RowsOwned, RowsFreed, RowsHeld, RowsOut, RowsNew, Owned

LEMMA RowsPartsNext ==
  ASSUME RowsOwned', RowsFreed', RowsHeld', RowsOut', RowsNew'
  PROVE  RowsInv'
BY DEF RowsInv, RowsOwned, RowsFreed, RowsHeld, RowsOut, RowsNew, Owned

LEMMA RowsQuiet ==
  ASSUME RowsInv, UNCHANGED <<submitted, served, completed, sets, two, rows, out>>
  PROVE  RowsInv'
BY DEF RowsInv, Unserved, Submitted, Served, Completed

\* A new request that frees nothing.
LEMMA RowsAsk ==
  ASSUME WqTypes, QueueInv, RowsInv, NEW r, r.op \notin Frees, Grows(r),
         UNCHANGED <<sets, two, rows, out>>
  PROVE  RowsInv'
<1>a. Submitted \in Nat /\ Served \in Nat /\ Completed \in Nat /\ Served <= Submitted
      /\ Completed <= Served
  BY Lengths DEF QueueInv
<1>b. /\ Submitted' = Submitted + 1 /\ Served' = Served /\ Completed' = Completed
      /\ submitted'[Submitted + 1] = r /\ \A i \in 1 .. Submitted : submitted'[i] = submitted[i]
  BY DEF Grows, Served, Completed
<1>c. /\ \A i \in Unserved' : submitted'[i].op \in Frees => i \in Unserved
      /\ \A i \in Unserved : i \in Unserved' /\ submitted'[i] = submitted[i]
  BY <1>a, <1>b DEF Unserved
<1>1. RowsOwned'
  BY <1>b, <1>c, RowsParts DEF RowsOwned, Owned
<1>2. RowsFreed'
  BY <1>b, <1>c, RowsParts DEF RowsFreed
<1>3. RowsHeld'
  BY <1>b, <1>c, RowsParts DEF RowsHeld
<1>4. RowsOut'
  BY <1>a, <1>b, RowsParts DEF RowsOut
<1>5. RowsNew'
  BY <1>b, RowsParts DEF RowsNew
<1> QED BY <1>1, <1>2, <1>3, <1>4, <1>5, RowsPartsNext

\* The rows of n pass from their owner to a request that frees them.
LEMMA RowsGive ==
  ASSUME WqTypes, ObjTypes, QueueInv, RowsInv, NEW n \in Owned, NEW op \in Frees,
         Grows([op |-> op, co |-> NoCo, id |-> n]),
         \/ two' = two /\ sets' = sets \ {n}
         \/ two = n /\ two' = 0 /\ sets' = sets,
         Owned' = Owned \ {n}, UNCHANGED <<rows, out>>
  PROVE  RowsInv'
<1> DEFINE r == [op |-> op, co |-> NoCo, id |-> n]
<1>a. Submitted \in Nat /\ Served \in Nat /\ Completed \in Nat /\ Served <= Submitted
      /\ Completed <= Served
  BY Lengths DEF QueueInv
<1>b. /\ Submitted' = Submitted + 1 /\ Served' = Served /\ Completed' = Completed
      /\ submitted'[Submitted + 1] = r /\ \A i \in 1 .. Submitted : submitted'[i] = submitted[i]
  BY DEF Grows, Served, Completed
<1>c. /\ Unserved' = Unserved \union {Submitted + 1} /\ Submitted + 1 \notin Unserved
      /\ \A i \in Unserved : submitted'[i] = submitted[i]
      /\ submitted'[Submitted + 1].op \in Frees /\ submitted'[Submitted + 1].id = n
  BY <1>a, <1>b DEF Unserved
<1>d. rows[n] = "held" /\ n \in 1 .. Completed
      /\ \A i \in Unserved : submitted[i].op \in Frees => submitted[i].id # n
  BY RowsParts DEF RowsOwned
<1>e. 0 \notin sets
  BY DEF ObjTypes, Ids
<1>1. RowsOwned'
  <2>1. \A m \in Owned' : m \in Owned /\ m # n
    OBVIOUS
  <2>2. two' \notin sets'
    BY <1>e, RowsParts DEF RowsOwned
  <2> QED BY <1>b, <1>c, <2>1, <2>2, RowsParts DEF RowsOwned
<1>2. RowsFreed'
  <2>1. ASSUME NEW i \in Unserved', submitted'[i].op \in Frees
        PROVE  /\ submitted'[i].id \in 1 .. Completed /\ rows[submitted'[i].id] = "held"
               /\ \A j \in Unserved' : submitted'[j].op \in Frees /\ submitted'[j].id = submitted'[i].id => i = j
    <3>1. CASE i = Submitted + 1
      BY <1>c, <1>d, <3>1
    <3>2. CASE i \in Unserved
      BY <1>c, <1>d, <2>1, <3>2, RowsParts DEF RowsFreed
    <3> QED BY <1>c, <2>1, <3>1, <3>2
  <2> QED BY <1>b, <2>1 DEF RowsFreed
<1>3. RowsHeld'
  <2>1. ASSUME NEW m \in Ids, rows'[m] = "held"
        PROVE \/ m \in sets' \union {two'}
              \/ m \in Completed + 1 .. Served /\ out[m] = "rows"
              \/ \E i \in Unserved' : submitted'[i].op \in Frees /\ submitted'[i].id = m
    <3>1. CASE m = n
      BY <1>c, <3>1
    <3>2. CASE m # n
      BY <1>c, <2>1, <3>2, RowsParts DEF RowsHeld
    <3> QED BY <3>1, <3>2
  <2> QED BY <1>b, <2>1 DEF RowsHeld
<1>4. RowsOut'
  <2>1. \A m \in Completed + 1 .. Served : submitted'[m] = submitted[m]
    BY <1>a, <1>b
  <2> QED BY <1>b, <2>1, RowsParts DEF RowsOut
<1>5. RowsNew'
  BY <1>b, RowsParts DEF RowsNew
<1> QED BY <1>1, <1>2, <1>3, <1>4, <1>5, RowsPartsNext

\* The callback of a request takes over what its work_cb left.
LEMMA RowsBack ==
  ASSUME WqTypes, ObjTypes, RowTypes, QueueInv, RowsInv, NEW op, Done(op),
         \/ out[Nth] = "rows" /\ sets' = sets \union {Nth} /\ two' = two
         \/ out[Nth] = "rows" /\ sets' = sets /\ two' = Nth
         \/ out[Nth] # "rows" /\ sets' = sets /\ two' = two
  PROVE  RowsInv'
<1>a. Submitted \in Nat /\ Served \in Nat /\ Completed \in Nat /\ Served <= Submitted
  BY Lengths DEF QueueInv
<1>b. /\ Completed < Served /\ Completed' = Completed + 1 /\ Nth = Completed + 1 /\ Nth \in Ids
      /\ Submitted' = Submitted /\ Served' = Served /\ submitted' = submitted /\ two = 0
      /\ out' = [out EXCEPT ![Nth] = "none"] /\ rows' = rows /\ Unserved' = Unserved
  BY DoneEffect DEF Completes, Submitted, Served, Unserved
<1>c. out \in [Ids -> {"none", "ok", "rows", "error"}] /\ sets \subseteq Ids /\ 0 \notin Ids
  BY DEF RowTypes, ObjTypes, Ids
<1>d. Owned' = IF out[Nth] = "rows" THEN Owned \union {Nth} ELSE Owned
  BY <1>b, <1>c DEF Owned
<1>e. Nth \notin sets
  BY <1>a, <1>b, RowsParts DEF RowsOwned, Owned
<1>1. RowsOwned'
  <2>1. ASSUME NEW n \in Owned'
        PROVE  /\ rows[n] = "held" /\ n \in 1 .. Completed + 1
               /\ \A i \in Unserved : submitted[i].op \in Frees => submitted[i].id # n
    <3>1. CASE n \in Owned
      BY <1>a, <3>1, RowsParts DEF RowsOwned
    <3>2. CASE n = Nth /\ out[Nth] = "rows"
      <4>1. rows[n] = "held" /\ n \in 1 .. Completed + 1 /\ n \notin 1 .. Completed
        BY <1>a, <1>b, <3>2, RowsParts DEF RowsOut
      <4> QED BY <4>1, RowsParts DEF RowsFreed
    <3> QED BY <1>d, <2>1, <3>1, <3>2
  <2>2. two' \notin sets'
    BY <1>b, <1>c, <1>e
  <2> QED BY <1>b, <2>1, <2>2 DEF RowsOwned
<1>2. RowsFreed'
  BY <1>a, <1>b, RowsParts DEF RowsFreed
<1>3. RowsHeld'
  <2>1. ASSUME NEW n \in Ids, rows[n] = "held"
        PROVE  \/ n \in sets' \union {two'}
               \/ n \in Completed + 2 .. Served /\ out'[n] = "rows"
               \/ \E i \in Unserved : submitted[i].op \in Frees /\ submitted[i].id = n
    <3>1. CASE n = Nth /\ out[n] = "rows"
      BY <3>1
    <3>2. CASE n = Nth /\ out[n] # "rows"
      BY <1>b, <1>c, <2>1, <3>2, RowsParts DEF RowsHeld
    <3>3. CASE n # Nth
      <4>1. CASE n \in sets \union {two}
        BY <1>b, <1>c, <2>1, <4>1
      <4>2. CASE n \in Completed + 1 .. Served /\ out[n] = "rows"
        BY <1>a, <1>b, <1>c, <3>3, <4>2
      <4> QED BY <2>1, <4>1, <4>2, RowsParts DEF RowsHeld
    <3> QED BY <3>1, <3>2, <3>3
  <2>2. Completed' + 1 = Completed + 2
    BY <1>a, <1>b
  <2> QED BY <1>b, <2>1, <2>2 DEF RowsHeld
<1>4. RowsOut'
  <2>1. ASSUME NEW n \in Ids, out'[n] = "rows"
        PROVE  n \in Completed + 2 .. Served /\ rows[n] = "held" /\ submitted[n].op \in {"query", "one"}
    <3>1. n # Nth /\ out[n] = "rows"
      BY <1>b, <1>c, <2>1
    <3> QED BY <1>a, <1>b, <3>1, RowsParts DEF RowsOut
  <2>2. Completed' + 1 = Completed + 2
    BY <1>a, <1>b
  <2> QED BY <1>b, <2>1, <2>2 DEF RowsOut
<1>5. RowsNew'
  BY <1>b, RowsParts DEF RowsNew
<1> QED BY <1>1, <1>2, <1>3, <1>4, <1>5, RowsPartsNext

\* The worker serves request n: it may leave rows, free some, or neither.
LEMMA RowsWork ==
  ASSUME WqTypes, ObjTypes, RowTypes, QueueInv, RowsInv, Work
  PROVE  RowsInv'
<1> DEFINE n == Served + 1
           r == submitted[n]
<1>a. Submitted \in Nat /\ Served \in Nat /\ Completed \in Nat /\ Completed <= Served
  BY Lengths DEF QueueInv
<1>b. /\ Served < Submitted /\ Served' = Served + 1 /\ n \in Ids /\ n \in Unserved
      /\ Submitted' = Submitted /\ Completed' = Completed /\ submitted' = submitted
      /\ sets' = sets /\ two' = two /\ Owned' = Owned
  BY <1>a, WorkEffect DEF Serves, Submitted, Completed, Unserved, Owned
<1>c. /\ out \in [Ids -> {"none", "ok", "rows", "error"}] /\ rows \in [Ids -> {"none", "held", "freed"}]
      /\ sets \subseteq Ids /\ 0 \notin Ids
  BY DEF RowTypes, ObjTypes, Ids
<1>d. Unserved' = Unserved \ {n} /\ n \notin 1 .. Completed
  BY <1>a, <1>b DEF Unserved
<1>e. rows[n] = "none"
  BY <1>a, <1>b, RowsParts DEF RowsNew
<1>f. n \notin Owned /\ \A m \in Owned : m \in 1 .. Completed
  BY <1>d, RowsParts DEF RowsOwned
<1>g. 1 .. Completed \subseteq Ids
  BY <1>a, Lengths, BoundsFacts DEF QueueInv, Ids
<1> HIDE DEF n
<1>1. CASE /\ rows' = rows /\ r.op \notin Frees
           /\ out' = out \/ \E o \in {"ok", "error"} : out' = [out EXCEPT ![n] = o]
  <2>1. \A m \in Ids : out'[m] = "rows" => out[m] = "rows" /\ m # n
    BY <1>1, <1>b, <1>c, <1>e, RowsParts DEF RowsOut
  <2>2. \A m \in Ids : m # n => out'[m] = out[m]
    BY <1>1, <1>b, <1>c
  <2>3. RowsOwned'
    BY <1>1, <1>b, <1>d, <1>f, RowsParts DEF RowsOwned
  <2>4. RowsFreed'
    BY <1>1, <1>b, <1>d, RowsParts DEF RowsFreed
  <2>5. RowsHeld'
    <3>1. ASSUME NEW m \in Ids, rows[m] = "held"
          PROVE \/ m \in sets \union {two}
                \/ m \in Completed + 1 .. Served + 1 /\ out'[m] = "rows"
                \/ \E i \in Unserved' : submitted[i].op \in Frees /\ submitted[i].id = m
      BY <1>1, <1>a, <1>d, <1>e, <2>2, <3>1, RowsParts DEF RowsHeld
    <3> QED BY <1>1, <1>b, <3>1 DEF RowsHeld
  <2>6. RowsOut'
    BY <1>1, <1>a, <1>b, <2>1, RowsParts DEF RowsOut
  <2>7. RowsNew'
    BY <1>1, <1>a, <1>b, RowsParts DEF RowsNew, Ids
  <2> QED BY <2>3, <2>4, <2>5, <2>6, <2>7, RowsPartsNext
<1>2. CASE /\ rows' = [rows EXCEPT ![n] = "held"] /\ out' = [out EXCEPT ![n] = "rows"]
           /\ r.op \in {"query", "one"}
  <2>1. \A m \in Ids : m # n => rows'[m] = rows[m] /\ out'[m] = out[m]
    BY <1>2, <1>c
  <2>2. rows'[n] = "held" /\ out'[n] = "rows" /\ r.op \notin Frees
    BY <1>2, <1>b, <1>c DEF Frees
  <2>3. \A m \in 1 .. Completed : m \in Ids /\ m # n
    BY <1>d, <1>g
  <2>4. RowsOwned'
    BY <1>b, <1>d, <1>f, <2>1, <2>3, RowsParts DEF RowsOwned
  <2>5. RowsFreed'
    BY <1>b, <1>d, <2>1, <2>3, RowsParts DEF RowsFreed
  <2>6. RowsHeld'
    <3>1. ASSUME NEW m \in Ids, rows'[m] = "held"
          PROVE \/ m \in sets \union {two}
                \/ m \in Completed + 1 .. Served + 1 /\ out'[m] = "rows"
                \/ \E i \in Unserved' : submitted[i].op \in Frees /\ submitted[i].id = m
      <4>1. CASE m = n
        BY <1>a, <2>2, <4>1 DEF n
      <4>2. CASE m # n
        BY <1>a, <1>d, <2>1, <2>2, <3>1, <4>2, RowsParts DEF RowsHeld
      <4> QED BY <4>1, <4>2
    <3> QED BY <1>b, <3>1 DEF RowsHeld
  <2>7. RowsOut'
    <3>1. ASSUME NEW m \in Ids, out'[m] = "rows"
          PROVE m \in Completed + 1 .. Served + 1 /\ rows'[m] = "held" /\ submitted[m].op \in {"query", "one"}
      <4>1. CASE m = n
        BY <1>2, <1>a, <2>2, <4>1 DEF n
      <4>2. CASE m # n
        BY <1>a, <2>1, <3>1, <4>2, RowsParts DEF RowsOut
      <4> QED BY <4>1, <4>2
    <3> QED BY <1>b, <3>1 DEF RowsOut
  <2>8. RowsNew'
    BY <1>a, <1>b, <2>1, RowsParts DEF RowsNew, Ids, n
  <2> QED BY <2>4, <2>5, <2>6, <2>7, <2>8, RowsPartsNext
<1>3. CASE rows' = [rows EXCEPT ![r.id] = "freed"] /\ out' = out /\ r.op \in Frees
  <2>1. /\ r.id \in 1 .. Completed /\ r.id \notin Owned
        /\ \A i \in Unserved' : submitted[i].op \in Frees => submitted[i].id # r.id
    BY <1>3, <1>b, <1>d, RowsParts DEF RowsFreed, RowsOwned
  <2>2. r.id \in Ids
    BY <1>g, <2>1
  <2>3. rows'[r.id] = "freed" /\ \A m \in Ids : m # r.id => rows'[m] = rows[m]
    BY <1>3, <1>c, <2>2
  <2>4. \A m \in 1 .. Completed : m \in Ids
    BY <1>g
  <2>5. RowsOwned'
    BY <1>b, <1>d, <1>f, <2>1, <2>3, <2>4, RowsParts DEF RowsOwned
  <2>6. RowsFreed'
    BY <1>b, <1>d, <2>1, <2>3, <2>4, RowsParts DEF RowsFreed
  <2>7. RowsHeld'
    <3>1. ASSUME NEW m \in Ids, rows'[m] = "held"
          PROVE \/ m \in sets \union {two}
                \/ m \in Completed + 1 .. Served + 1 /\ out[m] = "rows"
                \/ \E i \in Unserved' : submitted[i].op \in Frees /\ submitted[i].id = m
      BY <1>a, <1>d, <2>3, <3>1, RowsParts DEF RowsHeld
    <3> QED BY <1>3, <1>b, <3>1 DEF RowsHeld
  <2>8. RowsOut'
    <3>1. \A m \in Ids : out[m] = "rows" => m # r.id
      BY <1>a, <2>1, RowsParts DEF RowsOut
    <3> QED BY <1>3, <1>a, <1>b, <2>3, <3>1, RowsParts DEF RowsOut
  <2>9. RowsNew'
    <3>1. \A m \in Ids : m > Served + 1 => m # r.id /\ m > Served
      BY <1>a, <2>1 DEF Ids
    <3> QED BY <1>b, <2>3, <3>1, RowsParts DEF RowsNew
  <2> QED BY <2>5, <2>6, <2>7, <2>8, <2>9, RowsPartsNext
<1> QED
  <2>1. \/ r.op = "connect" /\ ConnectWk(n)
        \/ r.op \in {"query", "one"} /\ QueryWk(n, r.op)
        \/ r.op \in Frees /\ FreeWk(r.id)
        \/ r.op \in {"fetch", "ping"} /\ UNCHANGED <<connected, links, rows, out>>
    BY WorkEffect DEF n
  <2> HIDE DEF r
  <2>2. CASE r.op = "connect" /\ ConnectWk(n)
    <3>1. rows' = rows /\ \E o \in {"ok", "error"} : out' = [out EXCEPT ![n] = o]
      BY <2>2, Zenon DEF ConnectWk, Gives
    <3>2. r.op \notin Frees
      BY <2>2 DEF Frees
    <3> QED BY <1>1, <3>1, <3>2, Zenon
  <2>3. CASE r.op \in {"query", "one"} /\ QueryWk(n, r.op)
    <3>1. \/ rows' = rows /\ \E o \in {"ok", "error"} : out' = [out EXCEPT ![n] = o]
          \/ rows' = [rows EXCEPT ![n] = "held"] /\ out' = [out EXCEPT ![n] = "rows"]
      BY <2>3, Zenon DEF QueryWk, Gives
    <3>2. r.op \notin Frees
      BY <2>3 DEF Frees
    <3> QED BY <1>1, <1>2, <2>3, <3>1, <3>2, Zenon
  <2>4. CASE r.op \in Frees /\ FreeWk(r.id)
    BY <1>3, <2>4 DEF FreeWk
  <2>5. CASE r.op \in {"fetch", "ping"} /\ UNCHANGED <<connected, links, rows, out>>
    BY <1>1, <2>5 DEF Frees
  <2> QED BY <2>1, <2>2, <2>3, <2>4, <2>5

LEMMA RowsInvStep ==
  ASSUME WqTypes, ObjTypes, RowTypes, starts \in 0 .. MaxCalls,
         QueueInv, CallInv, ObjectInv, RowsInv, [Next]_vars
  PROVE  RowsInv'
<1>a. sets \subseteq Ids /\ 0 \notin Ids /\ two \in 0 .. MaxWork
  BY DEF ObjTypes, Ids
<1>1. ASSUME NEW c \in Cos, NEW op \in Calls, NEW x \in {Client} \union Ids, Asks(c, op, x)
      PROVE  RowsInv'
  <2> DEFINE r == [op |-> op, co |-> c, id |-> x]
  <2>1. Grows(r) /\ UNCHANGED <<sets, two, rows, out>>
    BY <1>1, AskEffect
  <2>2. r.op \notin Frees
    BY DEF Calls, Frees
  <2> QED BY <2>1, <2>2, RowsAsk
<1>2. CASE PingTimer
  <2> DEFINE r == [op |-> "ping", co |-> NoCo, id |-> starts]
  <2>1. Grows(r) /\ UNCHANGED <<sets, two, rows, out>>
    BY <1>2, OwnSteps DEF PingTimer, object, server
  <2>2. r.op \notin Frees
    BY DEF Frees
  <2> QED BY <2>1, <2>2, RowsAsk
<1>3. ASSUME NEW n \in Ids, FreeSet(n) PROVE RowsInv'
  <2>1. Grows([op |-> "close", co |-> NoCo, id |-> n])
    BY <1>3, OwnSteps
  <2>2. n \in sets /\ sets' = sets \ {n} /\ two' = two /\ UNCHANGED <<rows, out>>
    BY <1>3 DEF FreeSet, Unheld, server
  <2>3. two \notin sets
    BY RowsParts DEF RowsOwned
  <2>4. n \in Owned /\ Owned' = Owned \ {n}
    BY <2>2, <2>3 DEF Owned
  <2> QED BY <2>1, <2>2, <2>4, RowsGive DEF Frees
<1>4. CASE OneCbTwo
  <2>1. Grows([op |-> "two", co |-> NoCo, id |-> two])
    BY <1>4, OwnSteps
  <2>2. two # 0 /\ two' = 0 /\ sets' = sets /\ UNCHANGED <<rows, out>>
    BY <1>4 DEF OneCbTwo, server
  <2>3. two \notin sets
    BY RowsParts DEF RowsOwned
  <2>4. two \in Owned /\ Owned' = Owned \ {two}
    BY <2>2, <2>3 DEF Owned
  <2> QED BY <2>1, <2>2, <2>4, RowsGive DEF Frees
<1>5. CASE OneCb
  <2>1. Done("one") /\ two' = (IF out[Nth] = "rows" THEN Nth ELSE 0) /\ sets' = sets
    BY <1>5 DEF OneCb
  <2> QED BY <2>1, RowsBack, DoneEffect
<1>6. CASE QueryCb
  <2>1. Done("query") /\ two' = two
    BY <1>6 DEF QueryCb
  <2>2. (out[Nth] = "rows" /\ sets' = sets \union {Nth}) \/ (out[Nth] # "rows" /\ sets' = sets)
    BY <1>6 DEF QueryCb
  <2> QED BY <2>1, <2>2, RowsBack
<1>7. CASE ConnectCb \/ FetchCb \/ FreedCb \/ PingCb
  <2>1. \E op : Done(op) /\ op \notin {"query", "one"}
    BY <1>7 DEF ConnectCb, FetchCb, FreedCb, PingCb
  <2>2. sets' = sets /\ two' = two
    BY <1>7 DEF ConnectCb, FetchCb, FreedCb, PingCb, object
  <2>3. out[Nth] # "rows"
    BY <2>1, DoneEffect, RowsParts DEF RowsOut
  <2> QED BY <2>1, <2>2, <2>3, RowsBack
<1>8. CASE Work
  BY <1>8, RowsWork
<1>9. CASE (\E c \in Cos : End(c)) \/ (\E x \in {Client} \union Ids : Drop(x)) \/ Destruct
           \/ Closing \/ Finish \/ Retire \/ UNCHANGED vars
  <2>1. UNCHANGED <<submitted, served, completed, sets, two, rows, out>>
    BY <1>9 DEF End, Drop, Destruct, Closing, Finish, Retire, WQ!Close, WQ!Finish, WQ!Retire,
       wq, object, server, vars
  <2> QED BY <2>1, RowsQuiet
<1> QED BY <1>1, <1>2, <1>3, <1>4, <1>5, <1>6, <1>7, <1>8, <1>9, NextCases

-----------------------------------------------------------------------------
(* The connection to the server.                                           *)

LEMMA LinkInvStep ==
  ASSUME WqTypes, ObjTypes, RowTypes, starts \in 0 .. MaxCalls, QueueInv, LinkInv, [Next]_vars
  PROVE  LinkInv'
<1>1. CASE UNCHANGED <<connected, links, stage>>
  BY <1>1 DEF LinkInv
<1>2. ASSUME NEW c \in Cos, NEW op \in Calls, NEW x \in {Client} \union Ids, Asks(c, op, x)
      PROVE  LinkInv'
  <2>1. UNCHANGED <<connected, links>>
    BY <1>2, AskEffect
  <2>2. UNCHANGED stage
    BY <1>2, AskEffect DEF Grows
  <2> QED BY <1>1, <2>1, <2>2
<1>3. CASE (\E n \in Ids : FreeSet(n)) \/ OneCbTwo \/ PingTimer
  BY <1>1, <1>3, OwnSteps DEF FreeSet, OneCbTwo, PingTimer, server, Grows
<1>4. CASE ConnectCb \/ OneCb \/ QueryCb \/ FetchCb \/ FreedCb \/ PingCb
  <2>1. \E op : Done(op)
    BY <1>4 DEF ConnectCb, OneCb, QueryCb, FetchCb, FreedCb, PingCb
  <2> QED BY <1>1, <2>1, DoneEffect DEF Completes
<1>5. CASE (\E c \in Cos : End(c)) \/ (\E x \in {Client} \union Ids : Drop(x)) \/ Destruct
           \/ UNCHANGED vars
  BY <1>1, <1>5 DEF End, Drop, Destruct, wq, server, vars
<1>6. CASE Work
  <2> DEFINE n == Served + 1
             r == submitted[n]
  <2>1. stage \in {"open", "closing"} /\ stage' = stage
    BY <1>6, WorkEffect DEF Serves
  <2>2. links = (IF connected THEN 1 ELSE 0) /\ connected \in BOOLEAN
    BY <2>1 DEF LinkInv, RowTypes
  <2>3. ConnectWk(n) \/ (\E op : QueryWk(n, op)) \/ FreeWk(r.id) \/ UNCHANGED <<connected, links>>
    BY <1>6, WorkEffect
  <2> HIDE DEF n, r
  <2>4. CASE ConnectWk(n)
    BY <2>1, <2>2, <2>4 DEF ConnectWk, LinkInv
  <2>5. CASE (\E op : QueryWk(n, op)) \/ FreeWk(r.id) \/ UNCHANGED <<connected, links>>
    BY <1>1, <2>1, <2>5 DEF QueryWk, FreeWk
  <2> QED BY <2>3, <2>4, <2>5
<1>7. CASE Closing
  BY <1>7 DEF Closing, WQ!Close, server, LinkInv
<1>8. CASE Retire
  BY <1>8 DEF Retire, WQ!Retire, LinkInv
<1>9. CASE Finish
  BY <1>9 DEF Finish, WQ!Finish, server, LinkInv
<1> QED BY <1>2, <1>3, <1>4, <1>5, <1>6, <1>7, <1>8, <1>9, NextCases

-----------------------------------------------------------------------------
(* The ping timer.                                                         *)

LEMMA FiniteCounts ==
  ASSUME WqTypes
  PROVE  /\ IsFiniteSet(Flying) /\ IsFiniteSet(Connects) /\ IsFiniteSet(Asked)
         /\ Cardinality(Flying) \in Nat /\ Cardinality(Connects) \in Nat /\ Cardinality(Asked) \in Nat
<1>1. IsFiniteSet(Ids) /\ IsFiniteSet(1 .. Completed) /\ IsFiniteSet(1 .. Submitted)
  BY FS_Interval, BoundsFacts, Lengths DEF Ids
<1>2. Flying \subseteq Ids /\ Connects \subseteq 1 .. Completed /\ Asked \subseteq 1 .. Submitted
  BY DEF Flying, Connects, Asked
<1>3. IsFiniteSet(Flying) /\ IsFiniteSet(Connects) /\ IsFiniteSet(Asked)
  BY <1>1, <1>2, FS_Subset
<1> QED BY <1>3, FS_CardinalityType

\* The sets that are counted, through the steps of the queue.
LEMMA GrowsCounts ==
  ASSUME WqTypes, QueueInv, NEW r \in Request, Grows(r)
  PROVE  /\ Submitted + 1 \notin Flying /\ Submitted + 1 \notin Asked
         /\ Flying' = IF r.op = "ping" THEN Flying \union {Submitted + 1} ELSE Flying
         /\ Connects' = Connects
         /\ Asked' = IF r.co # NoCo THEN Asked \union {Submitted + 1} ELSE Asked
<1>a. Submitted \in Nat /\ Completed \in Nat /\ Completed <= Submitted /\ Submitted + 1 \in Ids
      /\ Served \in Nat
  BY Lengths, BoundsFacts DEF QueueInv, Grows, Ids
<1>b. /\ Submitted' = Submitted + 1 /\ Completed' = Completed /\ submitted'[Submitted + 1] = r
      /\ \A i \in 1 .. Submitted : submitted'[i] = submitted[i]
  BY DEF Grows, Completed
<1>1. \A i : InFlight(i) <=> i \in Completed + 1 .. Submitted
  BY DEF InFlight, Completed, Submitted
<1>2. \A i : InFlight(i)' <=> i \in Completed + 1 .. Submitted + 1
  BY <1>b DEF InFlight, Completed, Submitted
<1>3. \A i : InFlight(i)' <=> InFlight(i) \/ i = Submitted + 1
  BY <1>a, <1>1, <1>2
<1>4. \A i : InFlight(i) => i \in 1 .. Submitted
  BY <1>a, <1>1
<1>5. Submitted + 1 \notin Flying /\ Submitted + 1 \notin Asked
  BY <1>a, <1>4 DEF Flying, Asked
<1>6. Flying' = IF r.op = "ping" THEN Flying \union {Submitted + 1} ELSE Flying
  BY <1>a, <1>b, <1>3, <1>4 DEF Flying
<1>7. Connects' = Connects
  BY <1>a, <1>b DEF Connects
<1>8. Asked' = IF r.co # NoCo THEN Asked \union {Submitted + 1} ELSE Asked
  BY <1>a, <1>b DEF Asked
<1> QED BY <1>5, <1>6, <1>7, <1>8

LEMMA CompletesCounts ==
  ASSUME WqTypes, QueueInv, NEW op, Done(op)
  PROVE  /\ Nth \in Ids /\ Nth \notin Connects
         /\ Flying' = Flying \ {Nth} /\ (op = "ping" => Nth \in Flying) /\ (op # "ping" => Nth \notin Flying)
         /\ Connects' = IF op = "connect" THEN Connects \union {Nth} ELSE Connects
         /\ Asked' = Asked
<1>a. /\ Submitted \in Nat /\ Completed \in Nat /\ Nth = Completed + 1 /\ Nth \in 1 .. Submitted
      /\ Nth \in Ids /\ submitted[Nth].op = op
      /\ submitted' = submitted /\ Completed' = Completed + 1 /\ Submitted' = Submitted
  BY Lengths, DoneEffect DEF Completes, Submitted
<1>1. \A i : InFlight(i) <=> i \in Completed + 1 .. Submitted
  BY DEF InFlight, Completed, Submitted
<1>2. \A i : InFlight(i)' <=> i \in Completed + 2 .. Submitted
  <2>1. \A i : InFlight(i)' <=> i \in Completed' + 1 .. Submitted'
    BY DEF InFlight, Completed, Submitted
  <2> QED BY <1>a, <2>1
<1>3. \A i : InFlight(i)' <=> InFlight(i) /\ i # Nth
  BY <1>a, <1>1, <1>2
<1>4. InFlight(Nth)
  BY <1>a, <1>1
<1>5. Flying' = Flying \ {Nth} /\ (op = "ping" => Nth \in Flying) /\ (op # "ping" => Nth \notin Flying)
  BY <1>a, <1>3, <1>4 DEF Flying
<1>6. Nth \notin Connects /\ Connects' = IF op = "connect" THEN Connects \union {Nth} ELSE Connects
  BY <1>a DEF Connects
<1>7. Asked' = Asked
  BY <1>a DEF Asked
<1> QED BY <1>a, <1>5, <1>6, <1>7

\* KeepAlive, and the count that bounds it, in terms of Flying.
LEMMA PingParts ==
  PingInv <=>
    /\ starts > 0 /\ client = "alive" => timer = "on" \/ Flying # {}
    /\ Cardinality(Flying) + (IF timer = "on" THEN 1 ELSE 0) <= starts
    /\ starts <= Cardinality(Connects)
    /\ Cardinality(Asked) <= MaxCalls
BY DEF PingInv, KeepAlive, Flying

LEMMA PingPartsNext ==
  PingInv' <=>
    /\ starts' > 0 /\ client' = "alive" => timer' = "on" \/ Flying' # {}
    /\ Cardinality(Flying') + (IF timer' = "on" THEN 1 ELSE 0) <= starts'
    /\ starts' <= Cardinality(Connects')
    /\ Cardinality(Asked') <= MaxCalls
BY DEF PingInv, KeepAlive, Flying

LEMMA PingInvStep ==
  ASSUME WqTypes, ObjTypes, starts \in 0 .. MaxCalls,
         QueueInv, CallInv, ObjectInv, PingInv, [Next]_vars
  PROVE  PingInv' /\ starts' \in Nat
<1>a. /\ starts \in Nat /\ MaxCalls \in Nat
      /\ IsFiniteSet(Flying) /\ IsFiniteSet(Connects) /\ IsFiniteSet(Asked)
      /\ Cardinality(Flying) \in Nat /\ Cardinality(Connects) \in Nat /\ Cardinality(Asked) \in Nat
  BY FiniteCounts, BoundsFacts
<1>b. timer \in {"off", "on", "closing", "closed"}
  BY DEF ObjTypes
<1>1. CASE UNCHANGED <<Flying, Connects, Asked, starts, timer>> /\ client' = client
  BY <1>1, <1>a, PingParts, PingPartsNext
<1>2. ASSUME NEW c \in Cos, NEW op \in Calls, NEW x \in {Client} \union Ids, Asks(c, op, x)
      PROVE  PingInv' /\ starts' \in Nat
  <2> DEFINE r == [op |-> op, co |-> c, id |-> x]
  <2>1. r \in Request /\ Grows(r) /\ MayAsk /\ UNCHANGED <<starts, timer, client>>
    BY <1>2, AskEffect, RequestTypes, BoundsFacts DEF Ids, Client
  <2>2. r.co # NoCo /\ r.op # "ping"
    BY CosAssumption DEF Calls
  <2> HIDE DEF r
  <2>3. /\ Flying' = Flying /\ Connects' = Connects
        /\ Asked' = Asked \union {Submitted + 1} /\ Submitted + 1 \notin Asked
    BY <2>1, <2>2, GrowsCounts
  <2>4. Cardinality(Asked) < MaxCalls
    BY <2>1 DEF MayAsk, Asked, Submitted
  <2>5. Cardinality(Asked') = Cardinality(Asked) + 1
    BY <1>a, <2>3, FS_AddElement
  <2> QED BY <1>a, <2>1, <2>3, <2>4, <2>5, PingParts, PingPartsNext
<1>3. CASE (\E n \in Ids : FreeSet(n)) \/ OneCbTwo
  <2>1. \E op \in {"close", "two"}, id \in 0 .. MaxWork : Grows([op |-> op, co |-> NoCo, id |-> id])
    BY <1>3, OwnSteps, BoundsFacts DEF Ids, ObjTypes
  <2>2. PICK op \in {"close", "two"}, id \in 0 .. MaxWork : Grows([op |-> op, co |-> NoCo, id |-> id])
    BY <2>1
  <2> DEFINE r == [op |-> op, co |-> NoCo, id |-> id]
  <2>3. r \in Request /\ Grows(r) /\ r.co = NoCo /\ r.op # "ping"
    BY <2>2, RequestTypes
  <2> HIDE DEF r
  <2>4. UNCHANGED <<Flying, Connects, Asked>>
    BY <2>3, GrowsCounts
  <2>5. UNCHANGED <<starts, timer, client>>
    BY <1>3 DEF FreeSet, OneCbTwo, ping
  <2> QED BY <1>1, <1>a, <2>4, <2>5
<1>4. CASE PingTimer
  <2> DEFINE r == [op |-> "ping", co |-> NoCo, id |-> starts]
  <2>1. Grows(r) /\ r \in Request /\ r.op = "ping" /\ r.co = NoCo
    BY <1>4, OwnSteps, RequestTypes, BoundsFacts
  <2>2. timer = "on" /\ timer' = "off" /\ UNCHANGED <<starts, client>>
    BY <1>4 DEF PingTimer, object
  <2> HIDE DEF r
  <2>3. /\ Flying' = Flying \union {Submitted + 1} /\ Submitted + 1 \notin Flying
        /\ UNCHANGED <<Connects, Asked>>
    BY <2>1, GrowsCounts
  <2>4. Cardinality(Flying') = Cardinality(Flying) + 1
    BY <1>a, <2>3, FS_AddElement
  <2> QED BY <1>a, <2>2, <2>3, <2>4, PingParts, PingPartsNext
<1>5. CASE ConnectCb
  <2>1. Done("connect") /\ client' = client
    BY <1>5 DEF ConnectCb
  <2>2. /\ Flying' = Flying /\ Connects' = Connects \union {Nth} /\ Nth \notin Connects /\ Asked' = Asked
    BY <2>1, CompletesCounts
  <2>3. Cardinality(Connects') = Cardinality(Connects) + 1
    BY <1>a, <2>2, FS_AddElement
  <2>4. UNCHANGED <<timer, starts>> \/ (timer' = "on" /\ starts' = starts + 1)
    BY <1>5 DEF ConnectCb, ping
  <2>5. CASE UNCHANGED <<timer, starts>>
    BY <1>a, <2>1, <2>2, <2>3, <2>5, PingParts, PingPartsNext
  <2>6. CASE timer' = "on" /\ starts' = starts + 1
    BY <1>a, <1>b, <2>1, <2>2, <2>3, <2>6, PingParts, PingPartsNext
  <2> QED BY <2>4, <2>5, <2>6
<1>6. CASE OneCb \/ QueryCb \/ FetchCb \/ FreedCb
  <2>1. \E op : Done(op) /\ op \notin {"connect", "ping"}
    BY <1>6 DEF OneCb, QueryCb, FetchCb, FreedCb
  <2>2. UNCHANGED <<Flying, Connects, Asked>>
    BY <2>1, CompletesCounts
  <2>3. UNCHANGED <<timer, starts, client>>
    BY <1>6 DEF OneCb, QueryCb, FetchCb, FreedCb, object, ping
  <2> QED BY <1>1, <1>a, <2>2, <2>3
<1>7. CASE PingCb
  <2>1. Done("ping") /\ UNCHANGED <<starts, client>>
    BY <1>7 DEF PingCb
  <2>2. Flying' = Flying \ {Nth} /\ Nth \in Flying /\ UNCHANGED <<Connects, Asked>>
    BY <2>1, CompletesCounts
  <2>3. Cardinality(Flying') = Cardinality(Flying) - 1
    BY <1>a, <2>2, FS_RemoveElement
  <2>4. CASE client = "alive" /\ timer' = "on"
    BY <1>a, <1>b, <2>1, <2>2, <2>3, <2>4, PingParts, PingPartsNext
  <2>5. CASE client = "destroyed" /\ timer' = timer
    BY <1>a, <1>b, <2>1, <2>2, <2>3, <2>5, PingParts, PingPartsNext
  <2> QED BY <1>7, <2>4, <2>5 DEF PingCb
<1>8. ASSUME UNCHANGED <<submitted, completed>> PROVE UNCHANGED <<Flying, Connects, Asked>>
  BY <1>8 DEF Flying, Connects, Asked, InFlight, Completed, Submitted
<1>9. CASE Destruct
  <2>1. UNCHANGED <<submitted, completed, starts>> /\ client' = "destroyed" /\ timer' = "closing"
    BY <1>9 DEF Destruct, wq
  <2> QED BY <1>8, <1>a, <1>b, <2>1, PingParts, PingPartsNext
<1>10. CASE Closing
  <2>1. UNCHANGED <<submitted, completed, starts, client>> /\ timer = "closing" /\ timer' = "closed"
    BY <1>10 DEF Closing, object, WQ!Close
  <2> QED BY <1>8, <1>a, <2>1, PingParts, PingPartsNext
<1>11. CASE (\E c \in Cos : End(c)) \/ (\E x \in {Client} \union Ids : Drop(x))
            \/ Finish \/ Work \/ Retire \/ UNCHANGED vars
  <2>1. UNCHANGED <<submitted, completed, starts, client, timer>>
    BY <1>11 DEF End, Drop, Finish, Work, Retire, WQ!Finish, WQ!Serve, WQ!Retire,
       wq, object, ping, vars
  <2> QED BY <1>1, <1>8, <1>a, <2>1
<1> QED BY <1>2, <1>3, <1>4, <1>5, <1>6, <1>7, <1>9, <1>10, <1>11, NextCases
-----------------------------------------------------------------------------
(* The theorems.                                                           *)

AllInv == WqTypes /\ ObjTypes /\ RowTypes /\ starts \in 0 .. MaxCalls /\ Inv

\* start() runs at most once for each call that PHP code makes.
LEMMA StartsBounded ==
  ASSUME WqTypes, QueueInv, CallInv, PingInv, starts \in Nat
  PROVE  starts \in 0 .. MaxCalls
<1>1. Connects \subseteq Asked
  <2> SUFFICES ASSUME NEW i \in 1 .. Completed, submitted[i].op = "connect"
               PROVE  i \in 1 .. Submitted /\ submitted[i].co # NoCo
    BY DEF Connects, Asked
  <2>1. i \in 1 .. Submitted
    BY Lengths DEF QueueInv
  <2>2. submitted[i].co \in Cos
    BY <2>1 DEF CallInv, Calls
  <2> QED BY <2>1, <2>2, CosAssumption
<1>2. Cardinality(Connects) <= Cardinality(Asked)
  BY <1>1, FiniteCounts, FS_Subset
<1> QED BY <1>2, FiniteCounts, BoundsFacts DEF PingInv

LEMMA StartsBoundedNext ==
  ASSUME WqTypes', QueueInv', CallInv', PingInv', starts' \in Nat
  PROVE  starts' \in 0 .. MaxCalls
<1>1. (WqTypes /\ QueueInv /\ CallInv /\ PingInv /\ starts \in Nat => starts \in 0 .. MaxCalls)'
  BY StartsBounded, PTL
<1> QED BY <1>1

LEMMA Initially ==
  ASSUME Init
  PROVE  AllInv
<1> USE DEF Init, WQ!WQInit, Submitted, Served, Completed
<1>a. MaxWork \in Nat /\ MaxCalls \in Nat /\ Client \notin Ids
  BY BoundsFacts DEF Ids, Client
<1>1. WqTypes /\ starts \in 0 .. MaxCalls
  BY <1>a DEF WqTypes, WQ!Stages
<1>2. ObjTypes /\ RowTypes
  <2>1. /\ php \subseteq {Client} \union Ids /\ sets \subseteq Ids /\ two \in 0 .. MaxWork
        /\ co \in [Cos -> {"run", "wait", "end"}] /\ ref \in [Cos -> {Nothing, Client} \union Ids]
    BY <1>a
  <2>2. client = "alive" /\ main = "run" /\ timer = "off"
    OBVIOUS
  <2>3. url = FALSE /\ connected = FALSE
    BY Zenon
  <2>4. rows = [n \in Ids |-> "none"] /\ out = [n \in Ids |-> "none"]
    OBVIOUS
  <2> HIDE DEF Init
  <2> QED BY <2>1, <2>2, <2>3, <2>4 DEF ObjTypes, RowTypes
<1>3. QueueInv /\ CallInv
  BY <1>a DEF QueueInv, CallInv
<1>4. ObjectInv /\ LinkInv
  BY DEF ObjectInv, LinkInv
<1>5. RowsInv
  BY <1>a DEF RowsInv, Unserved
<1>6. PingInv
  <2>1. Flying = {} /\ Connects = {} /\ Asked = {}
    BY DEF Flying, InFlight, Connects, Asked
  <2> QED BY <1>a, <2>1, FS_EmptySet, PingParts
<1> QED BY <1>1, <1>2, <1>3, <1>4, <1>5, <1>6 DEF AllInv, Inv

LEMMA OneStep ==
  ASSUME AllInv, [Next]_vars
  PROVE  AllInv' /\ [WQ!WQNext]_(WQ!wqvars)
<1> USE DEF AllInv, Inv
<1>1. [WQ!WQNext]_(WQ!wqvars) /\ WqTypes'
  BY QueueStep
<1>2. QueueInv' /\ ObjTypes' /\ RowTypes'
  BY <1>1, QueueInvStep, ObjTypesStep, RowTypesStep
<1>3. CallInv' /\ ObjectInv' /\ LinkInv'
  BY CallInvStep, ObjectInvStep, LinkInvStep
<1>4. RowsInv'
  BY RowsInvStep
<1>5. PingInv' /\ starts' \in 0 .. MaxCalls
  BY <1>1, <1>2, <1>3, PingInvStep, StartsBoundedNext
<1> QED BY <1>1, <1>2, <1>3, <1>4, <1>5

(* The inductive invariant holds throughout.                               *)
THEOREM InvHolds == Spec => []AllInv
<1>1. AllInv /\ [Next]_vars => AllInv'
  BY OneStep
<1> QED BY Initially, <1>1, PTL DEF Spec

(* The client drives its worker thread as the FIFO service of WorkQueue,   *)
(* which thread_worker implements (ThreadWorkerProofs): nothing is         *)
(* submitted once the worker is being closed, and nothing is served or     *)
(* called back out of turn.                                                *)
THEOREM DrivesTheQueue == Spec => WQ!WQSpec
<1>1. Init => WQ!WQInit
  BY DEF Init
<1>2. AllInv /\ [Next]_vars => [WQ!WQNext]_(WQ!wqvars)
  BY OneStep
<1> QED BY InvHolds, <1>1, <1>2, PTL DEF Spec, WQ!WQSpec

(* The types of the variables.  There is at most one connection to the     *)
(* server, and start() is called no more often than PHP code calls.        *)
THEOREM TypeCorrect == Spec => []TypeOK
<1>1. AllInv => TypeOK
  <2>1. AllInv => links \in 0 .. 1
    BY DEF AllInv, Inv, LinkInv, WqTypes, RowTypes, WQ!Stages
  <2> QED BY <2>1 DEF AllInv, WqTypes, ObjTypes, RowTypes, TypeOK
<1> QED BY InvHolds, <1>1, PTL

(* queue_work is called only while the worker is open.                     *)
THEOREM WorkerStaysOpen == Spec => []WorkerOpenWhileUsed
<1>1. AllInv => WorkerOpenWhileUsed
  <2> SUFFICES ASSUME ObjectInv, ObjTypes, stage # "open"
               PROVE  ~Held(Client) /\ sets = {} /\ two = 0 /\ timer \notin {"on", "closing"}
    BY DEF AllInv, Inv, WorkerOpenWhileUsed
  <2>1. timer = "closed" /\ two = 0 /\ client = "destroyed"
    BY DEF ObjectInv
  <2>2. sets = {} /\ ~Held(Client)
    BY <2>1 DEF ObjectInv, Held, Client, Nothing
  <2> QED BY <2>1, <2>2
<1> QED BY InvHolds, <1>1, PTL

(* A connected client that lives has its timer running or a ping under     *)
(* way, and no more pings than calls of start().                           *)
THEOREM PingsGoOn == Spec => []KeepAlive
<1>1. AllInv => KeepAlive
  BY DEF AllInv, Inv, PingInv
<1> QED BY InvHolds, <1>1, PTL

(* A request under way that belongs to a coroutine keeps the client alive  *)
(* and is the only one of that coroutine.                                  *)
THEOREM CallsKeepTheClient == Spec => []OnlyPingsOutliveTheClient
<1>1. AllInv => OnlyPingsOutliveTheClient
  <2> SUFFICES ASSUME AllInv, NEW i \in Ids, InFlight(i), submitted[i].op \in Calls
               PROVE  /\ client = "alive" /\ co[submitted[i].co] = "wait"
                      /\ \A j \in Ids : InFlight(j) /\ submitted[j].co = submitted[i].co => j = i
    BY DEF OnlyPingsOutliveTheClient
  <2>1. \A j : InFlight(j) <=> j \in Completed + 1 .. Submitted
    BY DEF InFlight, Completed, Submitted
  <2>2. i \in Completed + 1 .. Submitted /\ i \in 1 .. Submitted
    BY <2>1, Lengths DEF AllInv
  <2>3. /\ submitted[i].co \in Cos /\ co[submitted[i].co] = "wait"
        /\ ref[submitted[i].co] = submitted[i].id /\ submitted[i].id \in {Client} \union Ids
    BY <2>2 DEF AllInv, Inv, CallInv
  <2>4. ref[submitted[i].co] # Nothing
    BY <2>3, BoundsFacts DEF Client, Nothing, Ids
  <2>5. client = "alive"
    BY <2>3, <2>4 DEF AllInv, Inv, ObjectInv, ObjTypes
  <2> QED BY <2>1, <2>2, <2>3, <2>5 DEF AllInv, Inv, CallInv
<1> QED BY InvHolds, <1>1, PTL

(* The rows of a result are held whenever the worker is asked to use or to *)
(* free them, whoever frees them is the last to use them, and neither rows *)
(* nor a connection are left when the client has gone.                     *)
THEOREM RowsFreedOnce == Spec => []ResultsFreedOnce
<1>1. ASSUME AllInv, NEW i \in Len(served) + 1 .. Len(submitted),
             submitted[i].op \in {"fetch", "two", "close"}
      PROVE  /\ rows[submitted[i].id] = "held"
             /\ submitted[i].op # "fetch" =>
                  ~\E j \in i + 1 .. Len(submitted) :
                     submitted[j].op \in {"fetch", "two", "close"} /\ submitted[j].id = submitted[i].id
  <2> USE <1>1 DEF AllInv, Inv
  <2>a. /\ i \in Unserved /\ i \in Completed + 1 .. Submitted
        /\ Submitted \in Nat /\ Served \in Nat /\ Completed \in Nat
    BY <1>1, Lengths DEF Unserved, Submitted, Served, QueueInv
  <2>b. ASSUME NEW j \in Unserved, submitted[j].op = "fetch"
        PROVE  submitted[j].id \in sets
    <3>1. j \in Completed + 1 .. Submitted /\ j \in 1 .. Submitted
      BY <2>a, <2>b DEF Unserved, QueueInv
    <3>2. submitted[j].co \in Cos /\ ref[submitted[j].co] = submitted[j].id /\ submitted[j].id \in Ids
      BY <2>b, <3>1 DEF CallInv, Calls
    <3> QED BY <3>2, BoundsFacts DEF ObjectInv, Ids, Client, Nothing
  <2>1. CASE submitted[i].op = "fetch"
    BY <2>1, <2>a, <2>b DEF RowsInv
  <2>2. CASE submitted[i].op \in Frees
    <3>1. rows[submitted[i].id] = "held"
      BY <2>2, <2>a DEF RowsInv
    <3>2. ASSUME NEW j \in i + 1 .. Len(submitted), submitted[j].op \in {"fetch", "two", "close"},
                 submitted[j].id = submitted[i].id
          PROVE  FALSE
      <4>1. j \in Unserved /\ j # i
        BY <2>a, <3>2 DEF Unserved, Submitted
      <4>2. CASE submitted[j].op = "fetch"
        BY <2>2, <2>a, <2>b, <3>2, <4>1, <4>2 DEF RowsInv
      <4>3. CASE submitted[j].op \in Frees
        BY <2>2, <2>a, <3>2, <4>1, <4>3 DEF RowsInv
      <4> QED BY <3>2, <4>2, <4>3 DEF Frees
    <3> QED BY <2>2, <3>1, <3>2 DEF Frees
  <2> QED BY <1>1, <2>1, <2>2 DEF Frees
<1>2. ASSUME AllInv, stage = "finished"
      PROVE  links = 0 /\ \A n \in Ids : rows[n] # "held"
  <2> USE <1>2 DEF AllInv, Inv
  <2>1. links = 0 /\ Served = Submitted /\ Completed = Submitted /\ Submitted \in Nat
    BY <1>2, Lengths DEF LinkInv, QueueInv
  <2>2. sets = {} /\ two = 0
    BY <1>2 DEF ObjectInv
  <2>3. ASSUME NEW n \in Ids, rows[n] = "held" PROVE FALSE
    <3>1. n # 0 /\ Unserved = {}
      BY <2>1 DEF Ids, Unserved
    <3> QED BY <2>1, <2>2, <2>3, <3>1 DEF RowsInv
  <2> QED BY <2>1, <2>3
<1>3. AllInv => ResultsFreedOnce
  BY <1>1, <1>2 DEF ResultsFreedOnce
<1> QED BY InvHolds, <1>3, PTL
=============================================================================
