---------------------------- MODULE MySqlClient ----------------------------
(***************************************************************************)
(* flame\db\mysql (src/flame/db/mysql): the client object, the result sets *)
(* it hands out, their requests to the client's worker thread, the ping    *)
(* timer, and how all of it is taken down when PHP drops the last          *)
(* reference.  The worker thread is the FIFO service of WorkQueue, which   *)
(* ThreadWorker implements; its steps interleave with the main thread's.   *)
(*                                                                         *)
(* The main thread does one thing at a time: a destructor that is due      *)
(* (a reference count that has become zero) before anything else, then PHP *)
(* code, then the next callback of the loop.  While close_work joins the   *)
(* worker it does nothing.                                                 *)
(***************************************************************************)
EXTENDS Integers, Sequences, FiniteSets

CONSTANTS Cos,       \* coroutines, each with one request at a time
          NoCo,      \* the request of no coroutine
          MaxCalls,  \* bound: requests PHP code makes
          MaxPings   \* bound: pings sent

ASSUME CosAssumption == NoCo \notin Cos
ASSUME BoundsAssumption == MaxCalls \in Nat /\ MaxPings \in Nat

\* each call is followed by one request at most, to free its result
MaxWork == 2 * MaxCalls + MaxPings

Client  == 0                 \* objects: the client; a result set is named
Nothing == -1                \* by the number of the query it came from
Ids     == 1 .. MaxWork

Calls    == {"connect", "query", "one", "fetch"}
Request == [op : Calls \cup {"two", "close", "ping"}, co : Cos \cup {NoCo}, id : 0 .. MaxWork]

VARIABLES
  submitted, served, completed, stage,  \* of the thread_worker
  php,        \* objects that PHP variables hold
  co,         \* per coroutine: "run", "wait" (for its request) or "end"
  ref,        \* per coroutine: the object in ref_
  sets,       \* result_set objects that exist
  client,     \* "alive", or "destroyed" by its last reference
  timer,      \* ping_: "off", "on", "closing", "closed"
  starts,     \* calls of start(); the current ping_context is the last one's
  two,        \* the request one_cb still has to pass to two_wk, or 0
  url,        \* url_ is set
  connected,  \* connected_
  links,      \* connections to the server that are open
  rows,       \* per request: its MYSQL_RES is "none", "held", "freed"
  out,        \* per request: what its work_cb left in the context
  main        \* "run", or "crashed"

wq     == <<submitted, served, completed, stage>>
object == <<php, co, ref, sets, client, two, main>>
ping   == <<timer, starts>>
connection == <<connected, links, rows>>
server == <<connected, links, rows, out>>
vars   == <<submitted, served, completed, stage, php, co, ref, sets, client, two, main,
            timer, starts, url, connected, links, rows, out>>

WQ == INSTANCE WorkQueue WITH Reqs <- Request

Init ==
  /\ WQ!WQInit
  /\ php = {Client} /\ co = [c \in Cos |-> "run"] /\ ref = [c \in Cos |-> Nothing]
  /\ sets = {} /\ client = "alive" /\ two = 0 /\ main = "run"
  /\ timer = "off" /\ starts = 0
  /\ url = FALSE /\ connected = FALSE /\ links = 0
  /\ rows = [n \in Ids |-> "none"] /\ out = [n \in Ids |-> "none"]

-----------------------------------------------------------------------------
(* Reference counts.                                                       *)

Held(x) == x \in php \/ \E c \in Cos : ref[c] = x
Unheld  == {n \in sets : ~Held(n)}
ClientUnheld == client = "alive" /\ sets = {} /\ ~Held(Client)

Main == main = "run" /\ stage \in {"open", "retired"}
Idle == Main /\ Unheld = {} /\ ~ClientUnheld
Loop == Idle /\ two = 0

Queue(op, c, id) == WQ!Submit([op |-> op, co |-> c, id |-> id])

(* ~result_set queues close_wk; its reference to the client goes after it. *)
FreeSet(n) ==
  /\ Main /\ n \in Unheld
  /\ Queue("close", NoCo, n)
  /\ sets' = sets \ {n}
  /\ UNCHANGED <<php, co, ref, client, two, main, url>> /\ UNCHANGED ping /\ UNCHANGED server

\* mutant: the worker is closed at once, the timer is not stopped
Destruct_Unstopped ==
  /\ Main /\ ClientUnheld
  /\ client' = "destroyed"
  /\ WQ!Close
  /\ UNCHANGED <<php, co, ref, sets, two, main, url>> /\ UNCHANGED ping /\ UNCHANGED server

(* client::__destruct: the timer is stopped and its handle closed.         *)
Destruct ==
  /\ Main /\ ClientUnheld
  /\ client' = "destroyed"
  /\ timer' = "closing"
  /\ UNCHANGED wq
  /\ UNCHANGED <<php, co, ref, sets, two, main, starts, url>> /\ UNCHANGED server

-----------------------------------------------------------------------------
(* PHP code.  Inside one_cb it runs on behalf of the coroutine just        *)
(* resumed, before two_wk is queued.                                       *)

Php(c) == Idle /\ co[c] = "run" /\ (two # 0 => submitted[two].co = c)
MayAsk == Cardinality({i \in 1 .. Len(submitted) : submitted[i].co # NoCo}) < MaxCalls

\* mutant: async() does not keep the object
Ask_Unkept(c, op, x) ==
  /\ Php(c) /\ MayAsk /\ x \in php
  /\ Queue(op, c, x)
  /\ co' = [co EXCEPT ![c] = "wait"]
  /\ UNCHANGED <<php, ref, sets, client, two>> /\ UNCHANGED ping /\ UNCHANGED server

(* Every method queues its request and then returns async(this).           *)
Ask(c, op, x) ==
  /\ Php(c) /\ MayAsk /\ x \in php
  /\ Queue(op, c, x)
  /\ co' = [co EXCEPT ![c] = "wait"]
  /\ ref' = [ref EXCEPT ![c] = x]
  /\ UNCHANGED <<php, sets, client, two>> /\ UNCHANGED ping /\ UNCHANGED server

(* A new url replaces the one that connect_wk may be reading just now.     *)
Connect(c) ==
  /\ Ask(c, "connect", Client)
  /\ \/ UNCHANGED <<url, main>>
     \/ /\ url' = TRUE
        /\ \/ UNCHANGED main
           \/ /\ url /\ \E i \in Len(served) + 1 .. Len(submitted) : submitted[i].op = "connect"
              /\ main' = "crashed"

Query(c) == Ask(c, "query", Client) /\ UNCHANGED <<url, main>>

One(c)   == Ask(c, "one", Client) /\ UNCHANGED <<url, main>>

\* fetch_row and fetch_all
Fetch(c) == (\E n \in php \ {Client} : Ask(c, "fetch", n)) /\ UNCHANGED <<url, main>>

Drop(x) ==
  /\ Idle /\ x \in php
  /\ two # 0 => co[submitted[two].co] = "run"
  /\ php' = php \ {x}
  /\ UNCHANGED wq /\ UNCHANGED <<co, ref, sets, client, two, main, url>>
  /\ UNCHANGED ping /\ UNCHANGED server

\* the coroutine is deleted, and with it what fail() left in ref_
End(c) ==
  /\ Loop /\ co[c] = "run"
  /\ co' = [co EXCEPT ![c] = "end"]
  /\ ref' = [ref EXCEPT ![c] = Nothing]
  /\ UNCHANGED wq /\ UNCHANGED <<php, sets, client, two, main, url>>
  /\ UNCHANGED ping /\ UNCHANGED server

-----------------------------------------------------------------------------
(* The worker thread: what each work_cb does.                              *)

Gives(n, o) == out' = [out EXCEPT ![n] = o]

\* mutant: a connection that is open is not closed first
ConnectWk_Again(n) ==
  /\ \/ connected' = FALSE /\ UNCHANGED links /\ Gives(n, IF url THEN "error" ELSE "ok")
     \/ url /\ connected' = TRUE /\ links' = links + 1 /\ Gives(n, "ok")
  /\ UNCHANGED rows

\* without a url there is a message, but no error code
ConnectWk(n) ==
  LET rest == IF connected THEN links - 1 ELSE links IN
  /\ \/ connected' = FALSE /\ links' = rest /\ Gives(n, IF url THEN "error" ELSE "ok")
     \/ url /\ connected' = TRUE /\ links' = rest + 1 /\ Gives(n, "ok")
  /\ UNCHANGED rows

\* query_wk and one_wk: an error, a count (query only), or rows
QueryWk(n, op) ==
  /\ \/ Gives(n, "error") /\ UNCHANGED rows
     \/ connected /\ op = "query" /\ Gives(n, "ok") /\ UNCHANGED rows
     \/ connected /\ Gives(n, "rows") /\ rows' = [rows EXCEPT ![n] = "held"]
  /\ UNCHANGED <<connected, links>>

\* two_wk and close_wk
FreeWk(id) == rows' = [rows EXCEPT ![id] = "freed"] /\ UNCHANGED <<connected, links, out>>

Work ==
  LET n == Len(served) + 1
      r == submitted[n] IN
  /\ main = "run"
  /\ WQ!Serve
  /\ \/ r.op = "connect" /\ ConnectWk(n)
     \/ r.op \in {"query", "one"} /\ QueryWk(n, r.op)
     \/ r.op \in {"two", "close"} /\ FreeWk(r.id)
     \/ r.op \in {"fetch", "ping"} /\ UNCHANGED server
  /\ UNCHANGED object /\ UNCHANGED ping /\ UNCHANGED url

(* destroy_wk also deletes the current ping_context.                       *)
Retire ==
  /\ main = "run"
  /\ WQ!Retire
  /\ links' = IF connected THEN links - 1 ELSE links
  /\ UNCHANGED object /\ UNCHANGED ping /\ UNCHANGED <<url, connected, rows, out>>

-----------------------------------------------------------------------------
(* The after_work_cb of each request.                                      *)

Nth  == Len(completed) + 1
Back == served[Nth].co

\* the callback deletes the context
Done(op) ==
  /\ Loop /\ WQ!Complete /\ served[Nth].op = op
  /\ out' = [out EXCEPT ![Nth] = "none"]
  /\ UNCHANGED connection

\* next(): ref_ is cleared, the coroutine goes on
Next_(c) == co' = [co EXCEPT ![c] = "run"] /\ ref' = [ref EXCEPT ![c] = Nothing]

ConnectCb ==
  /\ Done("connect")
  /\ \/ /\ out[Nth] = "error"              \* fail() leaves ref_
        /\ co' = [co EXCEPT ![Back] = "run"]
        /\ UNCHANGED ref /\ UNCHANGED ping
     \/ /\ out[Nth] # "error"
        /\ timer' = "on"
        /\ starts' = starts + 1
        /\ Next_(Back)
  /\ UNCHANGED <<php, sets, client, two, main, url>>

\* mutant: rows are handed over but never freed
OneCb_NoTwo ==
  /\ Done("one")
  /\ Next_(Back)
  /\ UNCHANGED <<php, sets, client, two, main, url>> /\ UNCHANGED ping

OneCb ==
  /\ Done("one")
  /\ Next_(Back)
  /\ two' = IF out[Nth] = "rows" THEN Nth ELSE 0
  /\ UNCHANGED <<php, sets, client, main, url>> /\ UNCHANGED ping

\* the rest of one_cb, when the coroutine it resumed has yielded
OneCbTwo ==
  /\ Idle /\ two # 0
  /\ Queue("two", NoCo, two)
  /\ two' = 0
  /\ UNCHANGED <<php, co, ref, sets, client, main, url>> /\ UNCHANGED ping /\ UNCHANGED server

\* mutant: the waiting coroutine is not resumed after an error
QueryCb_Silent ==
  /\ Done("query")
  /\ IF out[Nth] = "rows"
     THEN sets' = sets \cup {Nth} /\ php' = php \cup {Nth} /\ Next_(Back)
     ELSE UNCHANGED <<sets, php, co, ref>>
  /\ UNCHANGED <<client, two, main, url>> /\ UNCHANGED ping

(* default_cb: the result set holds the client, PHP gets the result set.   *)
QueryCb ==
  /\ Done("query")
  /\ \/ /\ out[Nth] = "rows"
        /\ sets' = sets \cup {Nth}
        /\ php' = php \cup {Nth}
     \/ /\ out[Nth] # "rows"
        /\ UNCHANGED <<sets, php>>
  /\ Next_(Back)
  /\ UNCHANGED <<client, two, main, url>> /\ UNCHANGED ping

FetchCb ==
  /\ Done("fetch")
  /\ Next_(Back)
  /\ UNCHANGED <<php, sets, client, two, main, url>> /\ UNCHANGED ping

\* two_cb, and default_cb of a result set that has gone
FreedCb ==
  /\ Done("two") \/ Done("close")
  /\ UNCHANGED object /\ UNCHANGED ping /\ UNCHANGED url

-----------------------------------------------------------------------------
(* The ping timer, and the way down.                                       *)

Pings == Cardinality({i \in 1 .. Len(submitted) : submitted[i].op = "ping"})

PingTimer ==
  /\ Loop /\ timer = "on" /\ Pings < MaxPings
  /\ Queue("ping", NoCo, starts)
  /\ timer' = "off"
  /\ UNCHANGED object /\ UNCHANGED <<starts, url>> /\ UNCHANGED server

\* mutant: the timer is not started again
PingCb_Once ==
  /\ Done("ping")
  /\ UNCHANGED object /\ UNCHANGED ping /\ UNCHANGED url

(* It reads the client, and its context, which destroy_wk deleted if it is *)
(* the current one: after the client is destroyed, anything may happen,    *)
(* here nothing or a crash.                                                *)
PingCb ==
  /\ Done("ping")
  /\ \/ client = "alive" /\ timer' = "on" /\ UNCHANGED main
     \/ client = "destroyed" /\ main' \in {"run", "crashed"} /\ UNCHANGED timer
  /\ UNCHANGED <<php, co, ref, sets, client, two, starts, url>>

(* The handle is closed: close_work, which joins the worker.               *)
Closing ==
  /\ Loop /\ timer = "closing"
  /\ timer' = "closed"
  /\ WQ!Close
  /\ UNCHANGED object /\ UNCHANGED <<starts, url>> /\ UNCHANGED server

Finish ==
  /\ Loop /\ WQ!Finish
  /\ UNCHANGED object /\ UNCHANGED ping /\ UNCHANGED url /\ UNCHANGED server

-----------------------------------------------------------------------------
PhpSteps ==
  \/ \E c \in Cos : Connect(c) \/ Query(c) \/ One(c) \/ Fetch(c) \/ End(c)
  \/ \E x \in {Client} \cup Ids : Drop(x)

MainSteps ==
  \/ \E n \in Ids : FreeSet(n)
  \/ Destruct \/ OneCbTwo
  \/ ConnectCb \/ OneCb \/ QueryCb \/ FetchCb \/ FreedCb
  \/ PingTimer \/ PingCb \/ Closing \/ Finish

WorkerSteps == Work \/ Retire

Gone == (stage = "finished" \/ main = "crashed") /\ UNCHANGED vars

Next == PhpSteps \/ MainSteps \/ WorkerSteps \/ Gone

Spec == Init /\ [][Next]_vars

(* The loop and the worker thread run; PHP code does what it wants.        *)
FairSpec == Spec /\ WF_vars(MainSteps) /\ WF_vars(WorkerSteps)

-----------------------------------------------------------------------------
(* Properties.                                                             *)

TypeOK ==
  /\ {submitted, served, completed} \subseteq Seq(Request)
  /\ stage \in WQ!Stages
  /\ php \subseteq {Client} \cup Ids /\ sets \subseteq Ids
  /\ co \in [Cos -> {"run", "wait", "end"}]
  /\ ref \in [Cos -> {Nothing, Client} \cup Ids]
  /\ client \in {"alive", "destroyed"} /\ main \in {"run", "crashed"}
  /\ timer \in {"off", "on", "closing", "closed"}
  /\ starts \in 0 .. MaxCalls /\ two \in 0 .. MaxWork
  /\ url \in BOOLEAN /\ connected \in BOOLEAN /\ links \in 0 .. 1
  /\ rows \in [Ids -> {"none", "held", "freed"}]
  /\ out \in [Ids -> {"none", "ok", "rows", "error"}]

InFlight(i) == i \in Len(completed) + 1 .. Len(submitted)

(* The rows of a result are freed once, after every use of them, and none  *)
(* are left, nor a connection, when the client has gone: for every order   *)
(* of drops, fetches, ends and errors.                                     *)
ResultsFreedOnce ==
  /\ \A i \in Len(served) + 1 .. Len(submitted) :
       submitted[i].op \in {"fetch", "two", "close"} =>
         /\ rows[submitted[i].id] = "held"
         /\ submitted[i].op # "fetch" =>
              ~\E j \in i + 1 .. Len(submitted) :
                 submitted[j].op \in {"fetch", "two", "close"} /\ submitted[j].id = submitted[i].id
  /\ stage = "finished" => links = 0 /\ \A n \in Ids : rows[n] # "held"

(* queue_work throws after close_work, and most of its callers could not   *)
(* bear that (a destructor, a timer, an after_work_cb): whatever may still *)
(* call it finds the worker open.                                          *)
WorkerOpenWhileUsed ==
  (Held(Client) \/ sets # {} \/ two # 0 \/ timer \in {"on", "closing"}) => stage = "open"

(* docs/flame_db_mysql.md, option ping: after a connect the client pings   *)
(* periodically as long as it lives, and reconnecting does not multiply    *)
(* the pings beyond one per connect.                                       *)
KeepAlive ==
  LET flying == {i \in Ids : InFlight(i) /\ submitted[i].op = "ping"} IN
  /\ (starts > 0 /\ client = "alive") => timer = "on" \/ flying # {}
  /\ Cardinality(flying) + (IF timer = "on" THEN 1 ELSE 0) <= starts

(* What is under way when the client is destroyed does not touch it: only  *)
(* the freeing of rows, and (see PingCb) a ping.  Every other request has  *)
(* its coroutine waiting, with a reference.                                *)
OnlyPingsOutliveTheClient ==
  \A i \in Ids : (InFlight(i) /\ submitted[i].op \in Calls) =>
    /\ client = "alive"
    /\ co[submitted[i].co] = "wait"
    /\ \A j \in Ids : (InFlight(j) /\ submitted[j].co = submitted[i].co) => j = i

(* Every call returns to its coroutine, unless the process crashed.        *)
CallsReturn ==
  \A c \in Cos : (co[c] = "wait") ~> (co[c] # "wait" \/ main = "crashed")
=============================================================================
