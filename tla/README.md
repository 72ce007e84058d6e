# Verification of php-flame

php-flame is a PHP extension in C++: coroutines for PHP generators over libuv,
a cluster of worker processes, and clients and servers (HTTP, FastCGI, TCP,
UDP, MySQL, MongoDB, Redis, RabbitMQ, Kafka) built on both. This directory
holds TLA+ models of it, the TLC runs that check them, and proofs.

## The system

| component | state it keeps | operations | talks to |
|---|---|---|---|
| `thread_worker` | two deques with a mutex each, two async handles, the exit request | `queue_work`, `close_work`, `worker_cb`, `master_cb` | every database client (work callbacks on the thread, after-work callbacks on the main thread) |
| `coroutine` | stack of generators, `status_`, stages, one timer | `async`, `start`, `run`, `next`, `fail`, `close` | called back by every operation of the library |
| `process`, `worker` | the workers' objects, process handles, restart timers, signal handlers | start, exit, restart, SIGTERM, SIGUSR2, `run` | operating system, coroutines (the loop they stop) |
| MySQL client | connection, result sets, ping timer, references | `connect`, `query` and kin, `one`, `fetch`, destruction | its own `thread_worker`, coroutines |
| MongoDB, RabbitMQ, Kafka clients | connection, cursor / channel / consumer | as their protocols | a `thread_worker` each |
| Redis client | hiredis context, connect timer, subscription | `connect`, commands, `subscribe`, `quit` | the loop |
| HTTP client | requests, libcurl's transfers | `exec`, `get`, `post`, completion | the loop, coroutines |
| HTTP and FastCGI connections | parser, request, response, reference count | parse, write, close, keep-alive | sockets, session handlers, coroutines |
| response, handlers | progress of header, body and end; the before / handle / after chain | `write_header`, `write`, `end` | connection, coroutines (`after_`) |
| sockets, acceptor, stream reader and writer | buffers, the waiting coroutine | read by length, delimiter, to the end; write; close | loop, coroutines |
| UDP socket | queue of packets, the waiting receiver | bind, recv, send, close | loop, coroutines |
| messenger, cluster | parser of frames | send, parse, handle | master and workers over a pipe |
| child process, timers, logger | handle and exit state; ticks; file | spawn, kill, wait; start, stop; write, rotate | loop, coroutines |

What is hard in it: two threads that meet in queues with coalescing wake-ups;
coroutines that are resumed by callbacks which do not know which `yield` they
answer; one pending exception for a whole thread; objects whose destructor runs
when PHP drops the last reference, with requests still under way; processes
that end, restart and are signalled in any order. `PROJECT.json` lists these
points line by line under `hazards`, with the properties that cover them.

For each component, what makes it correct:

* `thread_worker`: every accepted request is served and completed once, in
  order; closing comes last, loses nothing, and nobody waits for ever.
* `coroutine`: a callback resumes the yield that waits for it; a forgotten
  yield is reported; exceptions travel to the parent generator; every coroutine
  ends; coroutines do not disturb each other.
* supervisor: at most one process per index; a crash is followed by a restart,
  a normal end is not; a shutdown reaches everyone and nothing starts after it.
* database clients: results are freed once, after their last use; nothing is
  queued on a closed worker; every call returns to its coroutine.
* connections, sockets, streams: each waiting coroutine is resumed exactly
  once, by data, error, or close; objects outlive their pending callbacks;
  bytes and messages come out in order and unchanged.

## The modules

| module | models | properties |
|---|---|---|
| `WorkQueue` | the FIFO service with shutdown that `thread_worker` promises | abstract |
| `ThreadWorker` | `thread_worker.cpp`, every critical section a step | in the module |
| `ThreadWorkerProofs` | theorems about `ThreadWorker` | |
| `Coroutine` | `coroutine.cpp`, `coroutine_switch.h`, the loop around them | in the module |
| `CoroutineProofs` | theorems about `Coroutine` | |
| `Supervision` | what the master promises about its workers | abstract |
| `Supervisor` | `process.cpp`, `worker.cpp` | in the module |
| `SupervisorProofs` | theorems about `Supervisor` | |
| `MySqlClient` | `db/mysql/client*.cpp`, `result_*.cpp`, over `WorkQueue` | in the module |
| `MySqlClientProofs` | theorems about `MySqlClient` | |
| `HttpServer` | one connection: `net/http/server_*`, `net/fastcgi/server_*` | in the module |
| `HttpServerProofs` | theorems about `HttpServer` | |
| `Script` | coroutines as the remaining modules see them: on the C stack, run at once by who resumes them | |
| `ByteStream` | what the reads of a socket promise | abstract |
| `StreamSocket` | `io/stream_reader.cpp`, `stream_writer.cpp`, `net/tcp_socket.cpp` (and `unix_socket.cpp`) | in `Net` |
| `UdpSocket` | `net/udp_socket.cpp` | in `Net` |
| `Acceptor` | `net/server_acceptor.h`, `tcp_server.cpp` (and `unix_server.cpp`) | in `Net` |
| `Net` | the three of them used by one script | in the module |
| `NetProofs` | theorems about `Net`, and the refinement of `ByteStream` | |
| `Messenger` | `os/cluster/messenger.cpp`, `cluster.cpp`: framing over a pipe | in `ChildProcess` |
| `ChildProcess` | `os/process.cpp`, with a `Messenger` to the child | in the module |
| `ChildProcessProofs` | theorems about `ChildProcess` and its `Messenger` | |
| `Worker` | a database client's thread as its scripts see it: jobs, completions, reference counts, `close_work` | |
| `RabbitMq`, `Kafka`, `MongoDb` | `db/rabbitmq`, `db/kafka`, `db/mongodb`, over `Worker` | in `Clients` |
| `Redis` | `db/redis.cpp` and what hiredis does under it | in `Clients` |
| `HttpClient` | `net/http/client.cpp`, `client_request.cpp` | in `Clients` |
| `Ticker`, `Logger` | `time/ticker.cpp`; `log/logger.cpp` | in `Clients` |
| `Clients` | a script that uses one of the clients, a ticker or a logger | in the module |
| `ClientsProofs` | theorems about `Clients` | |
| `MC*` | instances for TLC | |

Composition: `ThreadWorker` is shown to implement `WorkQueue`, and
`MySqlClient` is built on `WorkQueue`: every step of it that involves the
worker is a `WorkQueue` action together with what the client does in it.
`Worker` is the same service seen from a script, with the objects that own
handles of the library. `Net` and `ChildProcess` put components together that
run coroutines inside each other's calls. `StreamSocket` implements
`ByteStream`.

Definitions whose comment begins with "mutant" are deliberate bugs. They are
not part of any specification; each is substituted for the definition it
mutates to see that a property notices.

### ThreadWorker

`queue_worker`, `queue_master`, `exit_data`, `async_worker`, `async_master` and
`loop` are the C++ members; `pend_*` is libuv's pending flag of an async
handle; `mpc`, `call`, `wpc` are the places of the two threads. Each push and
pop is one step, as it is under a mutex; each `uv_async_send`, callback,
assertion and `uv_close` is a step of its own. `submitted`, `served`,
`completed` are histories. `queue_work` may be called with a context that is
still under way, as the MySQL ping does after two connects.

libuv and the thread library are modelled as the code uses them: sends
coalesce, the flag is cleared before the callback, close callbacks come in a
later phase, and a send on a handle whose loop has been closed aborts.

### Coroutine

`gen` is `gen_` with, for each generator, what it is doing; `status`, `stack`,
`after` are the members; `exc` is PHP's one pending exception, remembered by
the coroutine that raised it. `ctl` is the C++ call stack, so that PHP code can
call something that resumes another coroutine at once. `timerq` and `phase`
are the loop: timers due in the order in which they were started, then i/o,
then close callbacks; `uv_stop` takes effect after that.

PHP code is arbitrary: at each point it may call an asynchronous function
(disciplined or not), start a coroutine, yield the pointer, a generator or a
plain value, return, throw or catch. The properties that promise something to
disciplined code say so with the histories `forgot`, `logged` and `crossed`.

### Supervisor

`workers` is `workers_`, `pid` the pid in `proc_`, `timer` the restart timer.
`proc` follows each process from spawn to the `exit_cb` that reaps it; `signals`
and `pending` are the signals not yet delivered; `armed` is the worker's oneshot
SIGINT handler. `broken` remembers which processes stopped because of an
uncaught exception, `termed` that the master has handled SIGTERM. A worker that
boots handles SIGINT first ("hooked", `WorkerBoots`) and SIGUSR2 after it
(`WorkerLogs`, the constructor of the default logger), and signals may come
between the two; handlers run in the loop, and so only after both. `MasterEnds`
covers every way in which `uv_run` of the master returns: after SIGTERM, with
nothing left in the loop, and when a coroutine of the master's own script dies
of an exception (`coroutine.cpp:66`), which may be at any time.

### MySqlClient

`php` is what PHP variables hold, `ref` each coroutine's `ref_`; an object with
neither is destroyed before anything else happens on the main thread, by
`FreeSet` (`~result_set`) or `Destruct` (`client::__destruct`). `rows` follows
each `MYSQL_RES`; `links` counts connections to the server; `out` is what
`work_cb` left in the context. While `close_work` joins (`stage = "closing"`)
the main thread takes no step, as `ThreadWorker`'s `ClosedMeansServed`
justifies. `url_` replaced while `connect_wk` may read it, and a ping completed
after the client was destroyed, are undefined behaviour: the process crashes or
nothing is seen.

The coroutines here yield each request at once; forgotten yields are the
subject of `Coroutine`.

### HttpServer

`conn`, `is_closing`, `refer`, `reading` are the connection; `parser`, `keep`,
`n` the parser and the flags of the message it is at. `res` says who holds each
response, `stage` and `co` where its session is. A read is several steps
(`ReadData`, then the parser's callbacks, then `ReadParsed` or `ReadStops`) and
`inread` keeps the loop from calling anything between them. `wire` is what was
given to `uv_write`. A connection that `uv_accept` does not give is deleted
before its first read (`Accept`). A handler may keep a response after its session, which is
the one way a response outlives its coroutine.

### Script

`next` and `fail` run a coroutine at once, inside the function that calls them;
much of what goes wrong in the remaining components does so in the rest of that
function. `frames` is the C stack: a coroutine that runs, and below it the rest
of the function that resumed it (`Rest`). The stack is empty in the loop
(`Loop`); a null pointer, an assertion or a use of freed memory that the build
does not survive puts `Crash` on top and nothing happens any more. Where the
freed memory may still look intact, both outcomes are allowed.

Members that the constructors leave unset (`co_` of reader, UDP socket and
acceptor) are taken as null, as the allocator of PHP objects zeroes them.

### Net

`co`, `want`, `buf`, `rv`, `tm` are the reader's members, `wreqs` and `ureqs`
the requests libuv has, `inflight` what the peer has sent. `misused` notes that
a script broke a rule of `docs/flame_net.md` (two readers), or reads from
inside a `close()` that has already told the reader. `SocketClose` and
`SocketClosed` are the two halves of one function, around the coroutine that
runs in between.

Scripts connect before they read, bind a UDP socket once and before they use
it, and have one receiver at a time.

### ChildProcess

`wire` is the pipe, byte by byte (a byte of a string is known by its message;
a socket travels with its first byte), so every cut into reads is covered.
`Size0` and `Size1` are the arithmetic of `parse` on signed chars and a short.
`cb_type` is set by the receiver at any time; `unheard` notes that a message
came before it was. When `uv_spawn` fails the constructor throws and
`~process` follows in the same step (`Spawn`): it kills `proc_`, whose pid may
never have been set, so that the program may end there, and the pipe is closed.

### Clients

`objs` are PHP objects that own a handle of a library, with the reference each
keeps to its maker; `held` is what variables hold, `ref` each coroutine's
`ref_`. Destructors run as soon as nothing holds an object (`Settled`), and
queue the end of the handle to the thread (`Destruct`), or join it (`CloseWork`).
A job keeps the coroutine that waits for it; `jobs` and `backs` are the two
queues of `ThreadWorker`, which justifies their order.

`Redis` has one record for each connection hiredis has: what waits on it, and
whether its memory is freed, which `context_` does not know. `Dropping` is
hiredis' loop of null replies when a connection ends. `rlost` and `hlost`
collect the coroutines the code has forgotten, at the line that forgets them
(a `connect` made inside the timeout's callback is forgotten from the start,
since the rest of the callback clears `connect_`: `InTimeout`). A connection
that `redisAsyncConnect` could not even begin is "failed": hiredis keeps what it
is asked and never sends it, so that who sends a command to it waits for ever
(line 410). `connect()` logs this failure, and with a file as output the write's
callback resumes the coroutine after all (`ConnectFails`, `LogWriteCb`); so
`Redis` extends `Logger`, and the default logger may have had its output set.
The automatic reconnect fails at once in the same way and tries again later
(`Reconnect`), unless it has to log to a file, which it cannot outside of a
coroutine. `Pointers` are
the places that hold a coroutine: entries of queues, requests of a library,
fields of an object; what hiredis has freed holds none. In `HttpClient` the loop that
reads libcurl's messages is a frame (`InfoCheck`), since the coroutines it
resumes may change what it iterates over. `self` of a request is the client its
context names: another one than the client its transfer is on, when it was
executed again, and then possibly one that is gone (`InfoRead`). In `Kafka` only
a `consume` with a timeout ("consume_for") can run out of time. In `RabbitMq` a
confirm that fails keeps the message unacknowledged, and the heartbeat may fail
while `close_work` waits for the thread. In `Ticker` a tick is a coroutine
that is free, and `after_cb` a later step; in `Logger` `rotate` is the whole of
`close` and `open`, with the errors an open may return.

Scripts have one reader for each cursor and one consuming coroutine for each
consumer (`docs/flame_db_rabbitmq.md:109`, `docs/flame_db_kafka.md:76`);
they make one redis connection at a time, also after a `connect` was forgotten
while its connection is still being made, and send no command while it is being
made or is subscribed.

## The runs

| run | bounds | shows |
|---|---|---|
| `ThreadWorker` | 2 contexts, 4 submissions | the two assertions of the code, no lost wake-up, what `close_work` guarantees, that its racing send costs no request, refinement of `WorkQueue`, every request completes, `close_work` returns |
| `Coroutine` | 2 coroutines, generators 2 deep, 2 operations, 3 calls or yields | a callback meets its yield, closing is one's own doing, forgotten yields are told, sessions go on after success only, `flame\run` waits for all, exceptions reach the parent, every coroutine ends |
| `CoroutineExceptions` | the same | violation: coroutines are not independent (see below) |
| `Supervisor` | 2 workers, 3 processes | one process per index, no restart after a normal end, SIGTERM reaches everybody, refinement of `Supervision`, a shutdown completes, a crash leads to a restart |
| `SupervisorFinal` | 1 worker, 2 processes | violation: code 99 also after an exception (see below) |
| `HttpServer` | 2 requests, 1 `write` each, of 1 or 65536 bytes; no hooks, or both | a connection lives while a response refers to it, an answer is never cut off, each answer has its header first and nothing after its end, and to a client that waits for them answers leave in order |
| `HttpServerClose` | the same | violation: a connection nobody uses is not destroyed (see below) |
| `Net` | 2 coroutines, 4 calls, a stream of 4 bytes with a delimiter of 2 | types, the reads implement `ByteStream`, every call ends |
| `ChildProcess` | 2 coroutines, 3 calls, strings of 2 bytes, 2 sockets | messages whole and in order, no orphan, calls return |
| `ChildProcessLengths` | 2 calls, strings of 128 bytes | violation: they do not arrive (see below) |
| `Clients` | 2 coroutines, 4 calls; 3 objects and 1 row; 3 redis connections; 2 HTTP requests | a coroutine is resumed once for each wait, nobody is forgotten but where `rlost` and `hlost` say so, and these for good; handles and objects are used while they live, calls return |
| `MySqlClient` | 2 coroutines, 3 calls, 1 ping | results freed once and none left, the worker open to whatever may still queue, the keep-alive, what outlives the client, every call returns |

The type invariants of `ThreadWorker` and `Supervisor` are part of the inductive
invariants proved below and have no place in a run of their own.

The bounds are small but reach the cases that matter. Four submissions let
sends coalesce in both directions with a request submitted from inside a
completion and one left when the exit request is queued. Two operations allow a
forgotten one beside another, a second stage, or one for each coroutine; two
levels of generators give a parent and a child. Three processes for two workers
give a restart beside any state of the other worker. Three calls are a connect,
a query and a fetch, or two connects around a query; the one ping can be at any
place on its way.

Two requests are a pipelined or a kept-alive pair, with every state of the
first beside every state of the second. Four calls on sockets are two pending
ones, the `close()` that runs them and what they do inside it; four bytes with
the delimiter in the middle leave something in the buffer on either side of it.
Three objects are a client, a collection and a cursor, or a consumer and two
messages; three redis connections are one, the replacement that fails and the
one after it, so that the timers of each can meet the next; two HTTP requests can end in one event.

Bounds are constants: `MaxWork`, `MaxOps`, `MaxDepth`, `MaxSteps`, `MaxPid`,
`MaxCalls`, `MaxPings`, `MaxReq`,
`MaxWrites`, `MaxObjects`, `MaxRows`, `MaxContexts`, `MaxRequests`. Each cuts off only new submissions, spawns or decisions
of PHP code, never the completion of what was begun.

### Fairness

* `ThreadWorker`: each thread goes on with what it is doing (it is scheduled,
  its callbacks return). Nothing obliges PHP to submit or close.
* `Coroutine`: the system as a whole does not stop: the loop runs, an operation
  is answered, PHP code goes on to its next decision (`MaxSteps` bounds these).
* `Supervisor`: the master runs its constructor, its loop and its timers;
  a signal that was sent is delivered; a worker whose `flame\init` has begun to
  install handlers goes on to its loop, and one that stopped its loop exits.
  Nothing obliges anyone to send signals, or a worker to boot, end or crash.
* `MySqlClient`: the main loop and the worker thread run. PHP code is free.

* `Net`, `ChildProcess`, `Clients`: the system does not stop while it can go on
  (`WF_vars(Next)`). Behaviours of these models are finite: calls are
  bounded, and all that is left is the completion of what was begun; so this says that libuv, the thread, the server
  or the peer answers some day, or fails. Broker, server and peer may always
  answer with an error, or end.
* `HttpServer`: no liveness. A peer may stay silent for ever.

### What the runs found

* `CoroutinesIndependent` fails. `docs/index.md` says coroutines can be taken
  to run independently of each other. The exception a nested generator does not
  catch waits in `EG(exception)` for the 0 ms timer of `coroutine::close`; when
  another coroutine's callback is called in between, that one is not entered,
  is closed, or takes the exception itself.
* `OnlyNormalEndIsFinal` fails. The comment at `process.cpp:60` says a process
  with an exception has ended before `exit(99)`; but `close_cb` only calls
  `uv_stop`, `uv_run` returns, and the worker exits with 99: it counts as a
  normal end and is never restarted.

* `DestroyedWhenUnused` fails. The comment at `server_connection_base.cpp:19`
  says when a connection is destroyed. If the peer of a kept-alive connection
  leaves while a handler runs, `close_ex` waits for the response, and the
  response's `close()` only gives its reference back: the connection stays.
* `MessagesArrive` fails. `docs/flame_os.md:99` allows strings up to 65535
  bytes; a length whose low byte is 128 or more is read as 65280 and more, and
  what follows is swallowed.

Other things the models make visible are exceptions written into the
properties: a forgotten yield inside a generator that ends with an exception is
not reported, and its operation may outlive the coroutine (`forgot` in
`WakesOwnYield`, `told` in `ForgottenYieldReported`); a log line written during
a coroutine's callback resumes it too early (`logged`); a ping under way when
the client is dropped touches freed memory (`PingCb`); `close_work` may abort
the process when the worker is very quick (`CloseWorkSend`).

And in the newer modules:

* `HttpServer`: a URL that arrives in two reads makes a second response, and
  destroying the first may close the connection under the second (`split`). A
  string of 65536 bytes is written as a chunk of length 0, the end of the body
  (`LastChunk`). Pipelined requests are answered in any order and, with FastCGI,
  under the id of the latest one (`piped`).
* `Net`: a socket closed from inside its own `close()` is used as null; a read
  made there is never answered (`misused`); `read_all` after the end of file
  uses a timer that is gone (`ReadAllEnded`); a failed `send` never returns
  (`ulost`); `close()` of a UDP socket nobody receives on does nothing
  (`UdpCloseEx`).
* `ChildProcess`: `kill` with any signal marks the child as ended, so `wait`
  returns at once and dropping the object leaves the child alone (`signalled`);
  a coroutine that drops the object it waited for makes `exit_cb` write to freed
  memory (`ExitCbEnds`); a spawn that fails kills a pid nobody has set (`Spawn`);
  `stderr` as a pipe uses the object of `stdout`
  (`StderrCrashes`); strings that come before there is a callback are glued
  together (`OnString`).
* `Redis`: after a connection is lost the automatic reconnect runs outside of
  any coroutine, and commands use the freed context; an error at once
  that is not logged to a file, a command sent to such a connection, a retry
  made inside the timeout's callback, `close()` while connecting and
  `psubscribe` leave a coroutine waiting for ever (`rlost`); a null reply for
  each of several channels deletes the subscription more than once.
* `RabbitMq`: `confirm` after the connection was destroyed uses null;
  `consume()` without timeout while a message waits to be confirmed blocks the
  thread (`Starved`). `Kafka`: the callback of a commit may come after its
  request is gone (`ctx_`). `MongoDb`: a second `connect` destroys the client
  under its collections (`stale`).
* `HttpClient`: a request executed again while it is on its way, and a client
  dropped during transfers, forget a coroutine (`hlost`); the context of a request
  executed again on another client may name one that is gone (`InfoRead`).
* `Ticker`: stopped, or started again, during a tick and held by no variable, it
  is gone when `after_cb` reads it (`meddled`). `Logger`: an output that cannot
  be opened leaves the error code as file, and the next write uses a null pipe;
  on SIGUSR2 the exception leaves a callback of libuv.

## The proofs

All proofs are checked by TLAPS for every value of the constants, from the
assumptions named in the modules (constants that stand for "none" are not
among the values; bounds are naturals).

`ThreadWorkerProofs` rests on the inductive invariant `IInv` of
`ThreadWorker`:

* `ControlInv`, which places of the two threads and states of the two handles
  go together (for instance: once the exit request is taken from the deque, the
  worker never again has a request in hand);
* `RequestInv`, the equation *submitted = served, then the request in the
  worker's hands, then `queue_worker`*, with the exit request at the very end;
* `ReplyInv`, the same from the worker to the main thread;
* `NoLostWakeup`.

The safety properties are not inductive by themselves: that the deque is empty
when the exit request is popped needs the equation of lengths, which needs the
order of elements, which needs the control part. One lemma per action shows
that it preserves `IInv`; `Invariance` puts them together, and `TypeCorrect`,
`AssertsHold`, `WakeupsArrive`, `CloseJoins`, `AbortIsLate` follow.
`Refinement` shows that the initial states and every step of `ThreadWorker` map
to `WorkQueue`; it needs `IInv` to know, for instance, that what `MasterPop`
takes is the next request served.

`SupervisorProofs` rests on the inductive invariant `IInv` of `Supervisor`
(TLC finds it to hold in the instance of `MCSupervisor`):

* `OwnerInv`: `pid` and `owner` are inverse to each other for every process not
  yet reaped, and a process has an exit code exactly when it has ended;
* `MasterInv`: an index has a pid exactly when its object was made, and SIGTERM
  is only ever handled in the main loop;
* `EndInv`: the restart timer runs only for an index whose process was reaped
  after a premature end, `workers_` holds exactly the indices not retired, and a
  retired index keeps its last pid;
* `NobodyForgotten`.

That SIGTERM reaches everybody needs all of them: a process that is alive has
an owner (`OwnerInv`), the owner is not retired and so is in `workers_`
(`EndInv`), and no process appears afterwards because a restart needs
`master = "run"` (`MasterInv`). The steps of the worker processes are first
summarised in one formula (`WorkerStep`), the steps of the master that move
nothing but its own place in another (`Quiet`). From `Invariance` follow
`TypeCorrect`, `OnePerIndex`, `NormalEnd` and `ShutdownReachesAll`;
`Refinement` maps `StartWorker` and `OnWorkerRestart` to `Start`, `OnWorkerExit`
to `Retire` or `Fail`, `MasterExitCb` to `Shut` and every other step to a
stutter of `Supervision`. The assumptions are `WorkersAssumption` (indices are
positive: 0 stands for "none") and `PidAssumption`.

`CoroutineProofs` rests on `Inv`, a conjunction over the coroutines of parts
that say little and need each other:

* `StackInv`: no coroutine is on the C++ stack twice, those below the top are in
  PHP code, and the pending exception is of the one on top unless it crossed;
* `LifeOf`: which use of `timer_` goes with which `status_`;
* `GenOf`: every generator but the top one is suspended at the yield of the one
  above it;
* `WakeOf`: a coroutine that has not spoilt its count (`Spoilt`: it forgot a
  yield, or a log line resumes it) has at most one operation that is not done,
  the one it last asked for, and `status_` counts it until it is yielded;
* `EndOf`: an exception nobody caught stays pending until `close`.

`WakesOwnYield` is `WakeOf` at the moment of the callback; the rest of the
invariant is there because `status_` alone does not say whether the coroutine
is on the stack, in `run()` or in PHP code. `FailureReachesParent` is an action
property and follows from the same invariant, which does not mention the order
in which timers fire.

`MySqlClientProofs` sees the three sequences of `WorkQueue` as one, served and
completed up to two points (`QueueInv`), so that every step of the client is a
shift of one of them (`DrivesTheQueue`: each step is one of `WorkQueue`, which
`ThreadWorker` implements). On it stand `CallInv` (a request of a coroutine that
is not completed is that coroutine's only one, and keeps its object),
`ObjectInv` (the worker leaves "open" only after the client's destruction has
closed the timer), `RowsInv` (rows that are held belong to exactly one of: an
object, a result on its way back, a request to free them) and `LinkInv`,
`PingInv`. `RowsInv` is what makes "freed once" inductive: it has to say who
will free the rows before anybody has asked for it.

`HttpServerProofs`: `refer_` is the number of live responses (`CountInv`, a
cardinality), who waits for a write is in `pending` once (`TurnInv`), and
`res`, `stage` and the coroutine of each request go together (`RequestInv`).
From these `LivesWhileUsed`, `AnswersNotCutOff` and `InOrder` follow; the first
two unless a URL came in two reads (`split`). Of `InOrder` the header, the end
and what may follow hold for every client, the order of the answers and their ids
for one that waits for each answer (`~piped`).

`ChildProcessProofs`: `NoOrphan` needs only that an `exit_` that is set comes
from the exit or from `kill`. `MessagesInOrder` is about bytes cut anywhere: the
invariant says there is a way to cut everything ever written into messages
(`Stream`: positions, and how many strings and sockets lie before each) such
that the receiver stands at a place of it that `stat_`, `size_` and `data_`
describe (`Reading`, `Strings`). It holds as long as all lengths sent can be read
(`Readable`: the low byte is below 128; the run `ChildProcessLengths` shows that
this is needed, and `docs/flame_os.md:99` promises more). `MessagesComeInOrder`
turns it into a condition on the lengths the script uses. `ReadableArrive` says
that under the same condition nothing is lost either. That a short is filled
from signed chars is in the lemmas about `Size0` and `Size1`.

`NetProofs`: `Types` says that coroutines, stack, pointers and queues agree: who
is "run" is on the stack, once, and who an object or libuv points to waits for
what that object answers. Every action is summarised by `Turn(ws)`: it moves only
coroutines that run or wait for something in `ws`, so that the objects it does
not touch keep their part of the invariant. `ReadInv` is about the reader while
the script keeps the rules (`~misused`): either the timer runs, the stream is
not read, and `rv` is the answer to the read that waits, or `rv` is empty; and
nobody reads before `close()` has returned. TLC found it to hold in the instance
of `MCNet`, before it was proved. `Refinement` then maps `Read` to `Ask`, every
step that resumes the reader to `Answer`, and a step that cuts or moves bytes
between `inflight`, `buf` and `rv` to a stutter. The lemmas below it are about
`read_from_buf` on a buffer and on the whole stream: a delimiter found in a
prefix is the first one of the stream (`DelimInPrefix`, `EnoughAnswers`; the
least element exists by well-foundedness of the naturals), and cutting at that
place loses nothing (`Cut`, `Dropped`). The assumptions are `ScriptAssumption`
and `StreamAssumption`: 0 is no coroutine, the delimiter is not empty and
lengths are positive, as `read()` throws otherwise.

`ClientsProofs`: `UsedWhileAlive` is about objects that end in any order, and is
not inductive. `WorkerInv` is what the three clients with a thread have in
common: an object that is gone is referred to by no variable, coroutine, live
object or job (`RefInv`), and a job in either queue belongs to exactly one
coroutine that waits and keeps the job's object, or to an object that is gone
and ends its handle, once (`CallInv`). On top of it `KafkaInv`, `MongoInv` and
`RabbitInv` say where the handles are: a live object has a live one, a handle
without its object has a job that ends it, and the thread can only have closed
after that. For RabbitMQ a message's envelope belongs to the one request that
consumes until `destroy_message` has been served; for MongoDB the client's
handle lives while one made from it is on its way, unless it was connected again
(`stale`). `TickInv` is why a ticker is safe without a variable: while nobody
stops or starts it during a tick, `ref_` is set as long as a tick is under way.
TLC found the invariant to hold in the instance of `MCClients`, and with 3
coroutines, 5 calls, 4 objects and 2 rows, before it was proved. The lemmas
below it are about the moves of a job between the queues (`QAsked` to
`QRequeued`) and about each operation of `Worker`, once for all clients.

`ResumesOnce` and `NobodyForgotten` are the two halves of one fact, that the
coroutines which wait and the pointers to coroutines match, and each is needed
to keep the other. `WaitInv` says so of every client. With a thread it is
`CallInv` in one direction and `Asked` in the other. On the loop of the main
thread the stack comes in as well: a resumed coroutine runs inside the loop of
hiredis or libcurl that resumed it and may queue, repeat or drop what is being
iterated over. `OnStack`: a coroutine is on the stack once, and then it runs.
`RedisInv` gives each waiting coroutine its place (`Places`): one request of one
connection, `connect_`, the subscription, a write of the logger, or `rlost`. It needs that no
connection but `context_` is being made or up (`ContextInv`), that `connect_`
waits for that one, unless the timeout is about to clear it (`ConnectInv`), and
that a subscription goes when its connection does (`SubscriptionInv`). `HttpInv`:
a request has a coroutine exactly while libcurl has it, and the messages still
to be read are different requests that do (`Messages`), whatever the coroutines
resumed for the earlier ones did, as long as their client is there. `LogInv` is
about the write requests. A step that keeps all this leaves the coroutines of
`rlost` and `hlost` where they are (`ForgottenForGood`), since no callback
resumes one of them. The proofs of `RedisStep`, `HttpStep` and `LogStep` have
one lemma for each operation of the client, over lemmas about the moves of a
coroutine between stack, queues and places. TLC found `WaitInv` to hold with 3
coroutines, 5 calls and 3 connections and requests first.

Every theorem about a component assumes only what its module assumes, and
nothing about the sizes of the constants. Only model-checked: liveness, as it
needs fairness and `ENABLED`, and the violations. Every invariant and every
action property of the passing runs is a theorem, and so is each refinement.

## Hazards no property covers

Where the code has no defence against a hazard, no property about it can hold;
the model contains the behaviour, a property excludes it by name, and so says
that the rest is free of it. In `PROJECT.json` these hazards list no property:
a yield forgotten before an exception (`forgot`), a ping that outlives the
client (`PingCb`), the sender of a UDP packet that fails (`ulost`), the write to
a child's object that was dropped (`ExitCbEnds`), a URL that arrives in two reads
(`split`), a chunk of 65536 bytes (`LastChunk`), the callback of a Kafka commit
that comes after its request is gone (`ctx_`), what redis does with a
connection hiredis has freed (`Reconnect`, `Command`), a logger whose file
cannot be opened, and the `consume()` that holds RabbitMQ's thread (`Starved`).

## Not modelled

Text and data: SQL, URLs, headers, BSON, row conversion, log format. Vendored
libraries, beyond what the code sees of them. Registration of classes,
environment and command line of workers, user and group of child processes,
`panic()` of the logger. A fatal PHP error inside the master. Exceptions other
than those passed to a waiting coroutine are the subject of `Coroutine` alone.
Nothing here says anything about time except the order of timers. Two paths
change no state and are no steps: `connect` of the MySQL client with a URL that
cannot be parsed throws before it does anything, and `cb_subscribe` is never
given an error or a value that is no array, since hiredis itself ends a
connection that answers so to a SUBSCRIBE (that end is `Drop`). Data races on
memory (the `MYSQL` handle while a value is escaped, the heartbeat timer of
RabbitMQ started from the main thread, a BSON document read while its cursor
moves on) appear only where a module says so.

## Plan

1. Done: `WorkQueue`, `ThreadWorker` and `Supervisor` with proofs, `Coroutine`,
   `MySqlClient`; `HttpServer`; `Net` with `ByteStream`; `ChildProcess` with
   `Messenger`; `Clients`.
2. Done: proofs about `HttpServer`, `MySqlClient`, `ChildProcess`, `Coroutine`
   and `Net`, with the refinement of `ByteStream`; `UsedWhileAlive` of `Clients`.
3. Done: `ResumesOnce`, `NobodyForgotten` and `ForgottenForGood` of `Clients`,
   for all its clients, with the pointers as a set instead of a sequence.
4. Done: what `redis::connect` logs, failed connections, spawn and accept that
   fail, overlapping answers in `InOrder`, and the proofs again.
