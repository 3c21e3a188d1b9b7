# Mosec: a TLA+ verification project

Mosec serves machine-learning models over HTTP. A Rust process takes the
requests, batches them and hands the batches over Unix sockets to Python worker
processes; a request goes through the stages (workers) of its route one after
the other. A Python server process starts and supervises both. This directory
holds TLA+ modules translated from that code, the TLC configurations that check
them on small instances, and TLAPS proofs of the main invariants.

## Inventory

| component | code | state | operations | talks to |
|---|---|---|---|---|
| task manager | `src/tasks.rs` | `table`, `notifiers`, `stream_senders` (three maps, each behind its own mutex), `current_id`, one bounded queue per stage, the `shutdown` flag | add, queue, update, notify, delete a task; drain | shared by handlers and connection tasks |
| HTTP handlers | `src/routes.rs`, `submit_task`, `submit_sse_task`, `wait_sse_finish` | one future per request, a oneshot receiver, a stream channel | admit, read the body, submit, await completion or timeout, answer | clients (may leave), task manager |
| connection tasks | `src/protocol.rs` | the batch in hand, its payloads and codec bits | collect a batch, fetch, write, read replies and stream events, update, forward, notify; resend after a failed write | worker processes (may die), task manager |
| service process | `src/main.rs` | start barrier, signal handler | bind once every stage has a worker, drain on SIGTERM | Python server |
| coordinator | `mosec/coordinator.py`, `mosec/protocol.py` | socket, `current_ids`, stream queue, semaphore, SIGALRM timer | receive, decode, forward, encode, send; a second thread sends stream events; reconnect | connection task, user code |
| wire protocol | `mosec/protocol.py`, `send_message` and `read_message` of `src/protocol.rs` | bytes under way in both directions, fields read so far | write and read a message in whatever pieces the socket takes and gives | both ends of a socket |
| codecs, mixins, errors | `mosec/worker.py`, `mosec/mixin/`, `mosec/errors.py` | a shared store of objects, a shared counter, an id kept by each process | decode, encode, store, fetch and delete; the status of an exception | coordinator, Redis or Plasma |
| supervision | `mosec/runtime.py`, `mosec/server.py`, `mosec/env.py` | a pool of processes per runtime, the daemons, two events, the environment | start, check and restart workers, halt | operating system, service process |
| SIEVE cache, multi-model worker | `mosec/cache.py`, `mosec/worker.py` | linked list, map, hand; loaded models | get, put, remove, evict; group a batch by model, load, unload | user code, SIGALRM |
| registration | `mosec/server.py`, `mosec/runtime.py` | router, runtimes, a counter of runtimes, the configuration | make a runtime, append, register, validate, write the configuration | the user's program, the service |
| settings | `mosec/args.py`, `mosec/env.py`, `mosec/log.py` | the options; the log level in the environment | parse and convert options, choose the level | command line, environment |
| OpenAPI | `mosec/openapi.py`, `mosec/utils.py` | the types of the boundaries | resolve annotations, register types, refuse conflicts | registration |
| dry run | `mosec/dry_run.py` | pipes, processes, one event | run one example through every stage | registration, user code |

What is hard here. No thread holds two of the task manager's mutexes, so every
operation that touches two maps can be interrupted between them; a request is
known to its handler, to a queue or a connection task and to the maps at once,
and each of a completion, a timeout, a full queue, a client that leaves, a
worker that dies and a termination signal may come first. In a worker process
two threads share one byte stream and the timer may raise anywhere; its peer
may end in the middle of a message. The server process changes state it does
not own (environment, sockets, child processes) and must leave it in order
whatever fails. `PROJECT.json` lists these hazards with the line where each
bites.

What makes the components correct:

* a task is in one place at a time and visits the stages of its route in order;
* a worker can decode what it is handed, and a client gets its own result;
* a handler that waits has its task in the table; one that has answered leaves
  nothing behind;
* the events of a stream arrive at their own client in order;
* nobody waits for ever on a full queue, if the routes agree on an order of
  the stages; every submitted request is answered;
* a drain that ends leaves nobody waiting;
* one thread of a worker process writes to its socket at a time, and an event
  goes to the request it was emitted for, before that request's reply, as long
  as replies wait for the events before them;
* a batch and a reply arrive as they were sent, in whatever pieces; neither side
  waits for the other for ever, and a worker that is to leave does;
* a process is handed the object that was made for its task, nothing is left in
  the store, and the client is blamed for its own mistakes only;
* the cache stays within its size, its list, map and hand agree, and its
  eviction ends; a batch loads a model at most once;
* a dead worker is replaced, a running one never is; each starts in its own
  environment, and everything that can end does once it is to stop;
* the service is started with a configuration it can resolve, logs at the level
  of the Python processes, and documents typed routes as they are annotated;
* a dry run that exits with zero has tried everything, and every dry run ends.

## Modules

| module | models | extends |
|---|---|---|
| `TaskManager` | the maps, queues and critical sections of `tasks.rs` | |
| `Routes` | handlers, watchers of streams and their clients | `TaskManager` |
| `Controller` | connection tasks; worker processes as seen through the socket | `TaskManager` |
| `Service` | the composition with the start barrier and the shutdown; the properties | `Routes`, `Controller` |
| `Coordinator` | the process of an SSE worker: main thread, streaming thread, semaphore, connection, warmup | |
| `Wire` | the byte streams of one socket with both its ends | |
| `Exchange` | codecs, mixins and statuses: what a task is encoded as on its way through two stages | |
| `SieveParameters` | keys, values and size of a cache | |
| `SieveCache` | what the cache promises, one step per operation | `SieveParameters` |
| `SieveList` | the cache as it is written, one step per statement; implements `SieveCache` | `SieveParameters`, instance of `SieveCache` |
| `MultiModel` | the multi-model worker over the statements of its cache | `SieveList` |
| `Supervisor` | the server process: service, daemons, worker pools, environment, signals, halt | |
| `Settings` | options, their sources and conversions, log levels (operators) | |
| `Schema` | types of annotations and the OpenAPI document (operators) | |
| `DryRun` | the dry run: its runner, processes, pipes and shared event | `Schema` |
| `Launch` | a user's program from the import of mosec to the service or the dry run | `DryRun`, `Settings` |
| `MCService`, `MCCoordinator`, `MCWire`, `MCExchange`, `MCSieve`, `MCModels`, `MCSupervisor`, `MCLaunch` | the instances TLC checks | |
| `ServiceProofs` | theorems about `Service`, each resting on the one before | `Service` |
| `SieveProofs` | theorems about `SieveCache` and `MultiModel` | `MultiModel`, `SieveCache` |
| `ListProofs` | theorems about `SieveList`, with its refinement of `SieveCache` | `SieveList` |
| `CoordinatorProofs` | theorems about `Coordinator` | `Coordinator` |
| `SupervisorProofs` | theorems about `Supervisor` | `Supervisor` |
| `ExchangeProofs` | theorems about `Exchange` | `Exchange` |
| `LaunchProofs` | theorems about `Launch`, `DryRun`, `Settings` and `Schema` | `Launch` |
| `WireProofs` | theorems about `Wire` | `Wire` |

The modules meet at these places. `Controller` sees a worker process through
its socket: it may reply, send an event, fail or end. `Coordinator` is that
process seen from inside, with the socket's other end external and whole
messages on it; `Wire` is the socket, with as much of the two ends as moves
bytes; `Exchange` is what the payloads mean to the workers. `Supervisor`
treats the service and the workers as processes that run and end; `Service` is
why a drain ends, `Coordinator` and `Wire` why a worker ends with its
connection. `MultiModel` is one `forward` of a coordinator, and its timer the
same SIGALRM. `Launch` ends where `Supervisor` begins, and composes the
settings, the registration, the document and the dry run; the configuration it
hands over is what the constants of `Service` stand for.

### The service

How the state corresponds. A map of the code is a total function on ids where
`None` means "no entry". `queue[s]` is the bounded channel of a runtime.
`rx[r]` is the oneshot receiver of a request: `pending`, `sent` (the completion
is in it), `closed` (dropped, or consumed). `stream[r]` is its mpsc channel.
`hpc[r]` says where a handler stands, `conn[c]` is a connection slot: the
program counter and the local variables of one run of the inner loop of
`communicate`. A payload is abstracted to its owner, the number of stages that
processed it and its encoding.

How the steps correspond. One action is the code between two points where
another task can interfere: a critical section, an await, a channel operation.
Where no other task can see the difference they are joined: `Submit` takes the
id and fills both maps, because nobody knows the id before it is queued;
`TrySend` on a full queue removes it from both. `notify_task_done` is four
actions (take the notifier, look at the receiver, send, clean up) because the
receiver can be dropped between any two. `delete_task` is one action per lock.
A handler is a future and is dropped at an await when its client leaves
(`Disconnect` at `body` and `wait`); the watcher of a stream is a spawned task
and is not. `Timeout` may fire although the completion is already in the
receiver: tokio polls the receiver first, and a completion sent after that poll
is dropped with it. A failed read after a stream event leaves the inner loop
only, with the code and the tasks read so far (`ReadErrorInLoop`). The start
barrier: the listener of a stage waits after its first connection until every
stage has one (`Accept`, `Serving`).

### The worker process

`Coordinator` has the two threads as two program counters, `pc` and `spc`.
`current` is `current_ids`, `sem` the count of the semaphore, `stream` the queue
between the threads, `wire` the messages the socket took, `sock` the one socket
object that `Protocol` ever makes. A request is its batch and its index; an
event carries the request it was emitted for, which stands for its text, and
the index, which is all the streaming thread has. `send_stream_event` is three
actions, because the timer may raise between its acquire and its put (`Alarm`,
which the warmup does not have). The reply's acquire may time out whenever there
is no permit (`AcquireTimeout`), and the reply goes out all the same. `late`, a
history variable, counts the replies for which it did so while an event was on
its way (`EventPending`); `OneWriter`, `EventOwner` and `ReplyIsLast` say what
holds before the first of them, and `v_event` what happens after it. An
exception in the streaming thread ends it (`dead`). A worker that is no SSE worker is the
case `MaxEvents = 0`: its semaphore does nothing.

`SieveCache` keeps the keys as a sequence from the newest to the oldest, a set
of visited keys and the hand as a key. Where an eviction stops is defined
without a loop: the key without the bit that the hand comes to first, counted
by `Distance`. `SieveList` has nodes, links, map and hand, and a step per
assignment that another statement could see half done; `Contents` reads the
list as `keys()` does. Its refinement mapping is `Contents` between operations
and the contents before the operation (`before`, a history variable) inside
one, so an operation takes effect when it ends.

`MultiModel` serves groups by model, over the variables of `SieveList`: `at` is
the statement of `forward` or `_ensure_model`, and while it is at an `evict` or a
`put` the cache takes its own statements (`CacheRuns`). The timer may raise
between any two of them (`Timeout`); what it does to the cache is `Alarm` of
`SieveList`, counted by `strikes`. `InCache` is `_map`, which is what `in` and
`len` look at and so what `forward` goes by, also when the list is not in step
with it. An `evict` whose victim is not in the map raises `KeyError`
(`EvictEnds`). `hits` is fixed when the batch comes, as in the code; `loads` and
`open` record the calls of user code, `lost` what an exception or the timer took
in the moment a model was in nobody's hands.

`Wire` has bytes. `down` and `up` are what the kernel holds of each direction,
at most `Buffer` bytes. The service reads every field with `read_exact`
(`ReadSome`, `ReadPart`); the worker reads each header field with one `recv`,
which takes what is there (`Recv`), and only the payload in a loop
(`RecvPayload`). Three history variables say when a message went wrong for
reasons the code does not handle: `short` (a header field came in two pieces),
`stalled` (a timeout after part of a message was taken) and `torn` (an event
was cut, or the reply was begun inside of it). They appear only in the
properties, as their exceptions. When the acquire of the semaphore gives up is
left open here; `Coordinator` has its rules. So is the end of a delivery to the
channel of a stream (`Delivered`), which is `EventSend` of `Controller`.
`WholeBatches` has two parts: what
`forward` gets is always a batch the service wrote, item by item, and it is the
last one the service sent unless `torn`: a reply that follows a torn event is
read as the rest of the event, and what is left of it may look like a reply more,
upon which the service sends a further batch. `WireAssumption` gives the sizes the two-byte and four-byte fields
can hold.

`Exchange` has tasks in two stages, a class of worker per behaviour (`worker`,
one of `Workers`: the mixin of each of the four codecs), and a store. A body is
`valid`, `invalid` (it decodes, and fails the check of its type), `empty` or
`garbage`. `forward` may raise any of the classes of `errors.py`, at either
stage (`Forward`); `raised`, a history variable, keeps the flag its batch got
from it, so that `Blame` can tell the user's code, which may blame the client,
from the codecs, which may do so only for a body that does not decode. `next_id` is the id a process has taken in advance, `counter` the
value in Redis. The two commands of a pipeline are one action: Redis runs them
as one transaction. The items of a batch are decoded and encoded in any order.
A class whose two stages use different mixins is a user's mistake the code does
not refuse; `Blame` speaks of the others.

### The server process

`Supervisor`: `slot` is `_pool` with a number for each process ever started,
`alive` the processes that run, so a pool can hold a process that has died and
not been noticed. A check of a stage is the snapshot (`Check`) and one
`StartWorker` per missing id. The graceful period has no length: `Drained` or
`Kill` may come first. `stuck` are the workers that the end of the service
caught in the middle of a payload (`ServiceGone`): any of those that run then.
They spin in `_recv_all` and look at neither the socket nor the event. `environ` is one variable of the server's own
environment, which `env_var_context` sets and puts back around a start.

`Launch`: a program is a sequence of calls, `source` its command line and
environment; an exception ends the program or is ignored by it. The level is
computed at the import (`Import`), the options again by `NewServer`.
`object` holds the runtimes by id, `router` the routes in the order of their
first registration; `_register_route` extends a route before the next one is
looked at, so what was done before an exception stays (`Accepted`). `conf` is
what the service reads. `Schema` decides about each boundary of a route in the
order of `generate_openapi`. `DryRun`: pipe `k` leaves stage `k`, pipe 0 is the
one the example enters; `notify` is the one event with three meanings.

Definitions whose comment starts with "Mutation of" are not part of the model:
each is a plausible slip in the definition that follows it, and shows that the
property it is paired with in `PROJECT.json` notices that slip.

## Runs

### Service

The instances are in `MCService`. Route `/ab` goes through `a` and `b`, route
`/b` through `b` alone, so `b` is a last stage for one request and a first and
last stage for another; `feed` is a route of one SSE stage `z`. Two requests
are enough for two tasks to meet in a batch, a queue of one, a shared stage and
a race between one request's timeout and the other's batch; queues hold one id
so that they are full as often as they can be. `IdSpace` is one more than the
number of requests, so that ids do not wrap (an assumption, see below).
Deadlock is not checked: the requests are finite in number, and an idle service
stops.

| run | instance | shows |
|---|---|---|
| `pipeline` | two routes, batches of 2, one death, one impatient client, a termination signal; timers may fire and need not | `SingleCustody`, `StageDiscipline`, `CodecMatch`, `OwnAnswer`, `WaitingIsTabled`, `DrainIsQuiet`; `Completes`: with routes that agree on an order of the stages, full queues block nobody for ever, while no worker dies and no connection task panics (each loses its batch) |
| `streams` | two streams in one batch, an event of the worker in one of them and the error events of a failed batch in both, a channel of one event, one death, also in the middle of a message; clients may stop reading | `TypeOK`, `StreamOrder`, `CleanAfterResponse`; `Answered`: a dead worker, or one blocked on a full channel, does not keep a request waiting: its watcher ends (a connection that waits for room holds a sender of the channel until the client reads or leaves) |

The safety part of `pipeline` also holds with batches that fail (900000 states),
and the proofs below have every code. `Answered` holds on its instance without
the signal too.
The safety part of `streams` also holds with two events in a stream and a client
that leaves (about a million states); with the liveness part that instance takes
too long to be kept.

### Worker and server processes

| run | instance | shows |
|---|---|---|
| `coordinator` | two batches of up to two requests, two events each, an example, an acquire that may time out whenever it has to wait, the timer, failed sends, a broken connection, a shutdown | `OneWriter`, `EventOwner`, `ReplyIsLast`; `Replied`: a lost permit or a dead thread costs one timeout and no more; `EventSent` |
| `wire` | a batch of two that is larger than the buffer of 20 bytes, a batch of one, an event, a broken connection, a shutdown | `WholeBatches`, `RightReplies`, `Served`: a batch is answered, or its connection given up, or it waits for ever for the client of a stream; `Leaves` |
| `exchange` | three tasks with every combination of bodies, two processes at the first stage and one at the second, six classes of worker, one death, failing calls, a `forward` that may raise any class at either stage | `OwnObject`, `NothingLeft`, `Blame` |
| `sieve` | four keys, a cache of three | `Consistent`, `Terminates`, `Refines` |
| `models` | four models, one not loadable, a cache of two statement by statement, batches of up to three, exceptions, the timer, once inside of the cache | `LoadOnce`, `ServedWhileLoaded`, `NoStrayModel` |
| `supervisor` | a stage of two workers and a stage of one with its own environment, three deaths, a service and a daemon that may exit, a service that may hang, that may leave any of its workers stuck when it ends, a start that may fail, a signal | `Tracked`, `OwnEnvironment`, `Recovers`, `Stops`: everything ends but workers that are stuck |
| `launch` | eleven programs, eight command lines and environments, dry runs with exceptions, deaths and a signal | `RoutesResolve`, `LevelsAgree`, `TypedFirst`, `SuccessIsReal`, `Terminates` |

A buffer of 20 bytes splits the first batch (32 bytes) at a place inside an
item and holds the second one whole; its ids need one and two bytes.
Two processes race for ids, and the third task makes one of them use the id it
had kept. The programs have a stage used twice, a route list that fails half
way, a registration that is tried again, invalid arguments, and routes whose
annotations compete, are vague or raise; the sources contradict each other in
every pair of places.
Two batches are enough for a batch to meet what is left of the one before it;
the example of `coordinator` emits no event, those of `v_event` and of the proofs
may.
A cache of three has a head, a tail and
a node between them, and a fourth key keeps it full. One strike of the timer inside
of it takes list and map apart for good; the theorems have any number. The three
models that can be loaded are interchangeable (`SYMMETRY`). A stage of two can lose one
worker and be repaired, or lose both and end the service; a stage of one cannot
be repaired. An endpoint of three stages has a first, a middle and a last one.
Deadlock is checked where the process goes on for ever (`sieve`, `models`) and
not where it ends (the other runs).

### Disagreements

Three runs show a disagreement between the code and what the code or its
documents say; TLC finds each in a few steps, and `PROJECT.json` quotes the
line.

* `v_panic`: the receiver is dropped between `is_closed` and `send`; the
  `unwrap` panics and the connection task dies with the rest of its batch.
* `v_alarm`: the timer of `forward` raises inside an eviction, after the node
  has left the list and before its key leaves the map. With the list empty the
  loop of the next eviction finds no node and goes on until the next timeout.
  `AlarmSpec` is `Spec` with the exception between any two statements.
* `v_event`: the acquire before a reply times out while an event of its batch is
  still on its way (a send that blocks longer than the worker's timeout, which
  the user sets, is enough). The reply goes out, the next batch replaces
  `current_ids`, and the event is sent under an id of that batch.

The other properties are stated so that they hold in spite of these: for
instance `SingleCustody` counts no id of a task that panicked.

### Further observations

Modelling showed these too. No run is kept for them; each follows from the
definitions named.

* `Completes` needs its premise `Ordered`. `register_runtime` accepts a route that
  visits a stage twice and routes through the same stages in opposite orders. In
  both, a connection task that awaits room in a queue (`Push`, `send_task`) is
  the one that would have made it, or waits for one that waits for it: with two
  requests, queues of one, a route `<<b, b>>` and a route `<<b>>`, TLC finds the
  connection of `b` in `push` for ever, also after all timers have fired. The
  requests are answered by their timers, their ids stay in the queue, and the
  stage takes no batch any more. With queues of the default capacity (1024) it
  takes about that many requests at once.
* A timeout that races a completion decrements `remaining_task` twice
  (`Timeout` between `NotifyTake` and `NotifyCheck`, then `NotifyCleanup` and
  `DeleteTask`): the gauge can be negative on an idle service.
* A client that leaves after the completion was sent and before its handler
  runs again (`NotifySend`, then `Disconnect`) leaves its task in the table; a
  later drain runs into its timeout.
* An id is queued before its stream is registered (`TrySend`, then
  `RegisterStream`), so the first events of a fast worker find no sender and
  are dropped.
* An event that the warmup emits has an example for its owner, and `current_ids`
  is empty then; when the streaming thread is slow it looks the event up in the
  first batch and sends it to a client (`StreamLookup`; `OwnIds` speaks of the
  events of requests).
* One failed send or one index out of range ends the streaming thread
  (`StreamFails`, `StreamLookup`); the worker goes on serving and loses every
  event.
* An example that emits two events blocks its worker for ever: `current_ids` is
  empty during the warmup, so the first event ends the streaming thread with
  its permit, and the second `acquire` has no timeout (`AcquireEvent`).
* `run` says it reconnects, but the socket object is closed by then (`Open`
  needs `sock = "new"`): the process ends and the supervisor starts another.
* A header field that arrives in two pieces, or a message whose rest comes later
  than the socket timeout, is not noticed: an id of fewer bytes is
  kept, a length is read from the wrong place, or the loop begins anew in the
  middle of a message (`short`, `stalled`). An event that is cut leaves the
  service reading the reply as the event's rest (`torn`).
* When the service ends in the middle of a payload, `_recv_all` spins, since an
  empty read adds nothing and raises nothing; the process sees neither the end
  nor the shutdown event (the exception in `Leaves`). The server does not kill
  its workers, so such a worker outlives the halt (`stuck` in `Stops`).
* A connection task that delivers an event waits for room in the channel of the
  stream without a limit (`Delivered`, `EventSend`), and with it the other
  requests of the batch; the watcher's timer ends the request, and only a client
  that reads or leaves ends the wait.
* A drain may end while a handler is past its test of the shutdown flag and
  before `add_new_task` (`body`, `submit`); what waits for it is axum.
* The batch size is cut to 16 bits on the wire (`Digits`), and nothing bounds
  `max_batch_size`.
* What `forward` raises for one item is the status of its whole batch, at any
  stage (`Forward`): a client may be answered 400 or 422 for a good request.
* One request that does not decode fails its whole batch with 400 or 422; the
  objects its batch had taken from the store are gone, and those it had stored
  for the next stage stay (`Fail`). `TypedMsgPackMixin` answers a body that is
  not msgpack with 500, although `errors.py:21-22` says a body that cannot be
  deserialized is a `DecodingError`. `NumBinIPCMixin` blames the client with 400
  when the stage before it does not send arrays (`LoadError`).
* A worker that dies leaves the objects of its batch in Redis; nothing expires.
  If Redis is restarted without its data the counter starts again and ids kept
  by processes may meet new ones; the model has no such restart.
* `env_var_context` puts a variable that was not set back as an empty string
  (`Restored`), which the next worker sees.
* `MOSEC_DEBUG=0` and `MOSEC_DRY_RUN=false` are true (`Convert`: `bool` of a
  text). `MOSEC_DEBUG` wins over `--log-level`, although `env.py:56` says "CLI >
  env > default value". An unknown `MOSEC_LOG_LEVEL` is a `KeyError` at the
  import of mosec (`LevelKnown`).
* A program that catches the exception for a reserved endpoint and goes on has
  routes that name a worker the service does not know (`ignored` in
  `RoutesResolve`), and `init_from_config` panics; trying `register_runtime`
  again extends the routes a second time, so a stage comes twice.
* `openapi.py:103` says "Only collisions between typed boundaries can fail
  startup"; a typed annotation that does not resolve, and an exception of
  another class, fail it too (`GenerateOpenapi`).
* The dry run sends an example before it looks at its processes; one larger
  than the pipe blocks it when the first process has died.
* The dry run takes a stage that has finished normally, while a later one still
  works, for one that failed (`Probe` looks for any exit code).
* The dry run forgets a signal that comes while it joins its processes: `run`
  itself has set the event (`ReleaseWorkers`) and clears it (`NextEndpoint`).

### Fairness

`FairSpec` assumes weak fairness of every handler and of every connection task:
tokio runs a task that can run. It assumes that a worker replies, because
`forward` runs under the SIGALRM timer of `set_mosec_timeout`, and that a worker
that died is replaced and connects again, which is what the supervisor does
every `GUARD_CHECK_INTERVAL`. It does not assume that a client reads its stream
or that a request times out. `Answered` has the fairness of the timers of
`submit_task` and `wait_sse_finish`, which tokio does fire, as its hypothesis;
`Completes` has not, so that it speaks of the queues and not of the timers.

`SieveList!FairSpec`: an operation that began goes on; whether one is called is
open. `CFairSpec`: both threads run, both timers fire (an acquire that keeps waiting
times out), and the service comes to listen; the service need not write a batch, nor drop the connection. User code
is not assumed to return where the timer covers it; in the warmup, which has no
timer, it is. `SFairSpec`: the server process runs, its clock passes the
graceful period, and a worker that was let go and is not stuck ends. The last is
an assumption about user code too: a worker that never comes back from its
warmup does not see the event. The service is not assumed to drain. `WFairSpec`:
both processes run, the socket timeout passes, and `forward` returns (its timer
sees to that). It does not assume that a stream event is ever delivered, which
takes a client that reads; whether a send waits for room or times out is open,
as are the end of the service and the shutdown. `LFairSpec`: the
program makes its calls, the runner and the processes of a dry run run, and
user code returns.

## Proofs

The theorems hold for every finite set of requests, every set of routes, stages
and connections, every capacity, batch size and bound. They assume
`ConstantsAssumption`, `ConnsAssumption` and the like (constants have their
types, `None` is none of the values it stands beside) and
`IdSpaceAssumption`: fewer requests than ids, that is, fewer than 2^32 requests
in one life of the process. TLC evaluates all of them on every run.

* `ServiceProofs`: `TypeInvariant` proves `Spec => []TypeInv`. `TypeOK` alone is
  not inductive: a step reads `stream_senders[k.cur]`, `table[rid[r]]` or
  `rx[k.snd]` and needs to know that `cur`, `rid` or `snd` is not `None` there.
  `TypeInv` adds what each program counter says of these locals. There is one
  lemma per component and one step per action; `TypeCorrect` is the corollary
  `Spec => []TypeOK`.
* `ServiceProofs` also holds `SingleCustodyHolds`, which proves `Spec => []SingleCustody`. The
  argument: `current_id` equals the number of ids given out and does not wrap
  (`IdInv`), so a new id is in no queue and in no batch; every other step moves
  an id from one place to another or drops it. The strengthening `CustodyInv`
  says that the places (positions of queues and batches) are disjoint and hold
  only ids that were given out, that an id whose handler has still to queue it
  is in no place, and that the current id of a loop is not among those left.
  Lemmas `CustodyShrink`, `CustodyRecv`, `CustodyNew` and `CustodyPush` are the
  four ways a step can change the places; each action is an instance of one.
* `ServiceProofs`, the maps: `MapsInvariant`, and from it `WaitingIsTabledHolds`,
  `CleanAfterResponseHolds` and the action property `DrainIsQuietHolds`. Neither
  invariant is inductive alone, because `update_multi_tasks` and the
  notification take the sender out of the map in one critical section and use it
  in a later one. `NotifierInv` says where the sender of a request may be: in
  the notifiers, in the hands of one connection task (`SenderOK`), or used up;
  two connection tasks cannot have it, since no id is in two batches
  (`CustodyInv`). `StreamerInv` and `PurgeInv` are what `delete_task` has already
  cleared between its locks.
* `ServiceProofs`, the tasks: `TaskInvariant` and its corollaries `OwnAnswerHolds`,
  `StageDisciplineHolds` and `CodecMatchHolds`. `TaskInv` relates every copy of a
  task to the table: the ids of a queue or of a batch wait for that stage
  (`Waiting`), a payload in a batch belongs to the request the id was given to
  and is encoded as the ingress bit says (`Carries`), the results of a normal
  reply are the payloads processed once more (`Answers`), and a completion is
  sent for a finished task only (`Finished`). A task may leave the table at any
  moment, so each part speaks of `None` too. `StreamInvariant` proves the same
  for events: what is in the channel of a stream is later than what its client
  has read and not later than the last event produced; `StreamOrderHolds`
  follows.

* `SieveProofs`: `CacheWellFormed` proves `CacheSpec => []WellFormed` for every
  set of keys and every capacity (the runs have its counterpart for the linked list,
  `Consistent`). The invariant is `WellFormed` with the type of
  the cache (`GoodCache`), and there is a lemma for each operation. The one that
  takes work is `EvictGood`: that the first key without the bit exists, in the
  order of `Distance`, is the least element of a nonempty set of naturals
  (`LeastExists`). `LoadsOnce`, `ServedWhileLoadedHolds` and
  `NoStrayModelHolds` prove `ModelsSpec => []...` for every batch, cache size and
  set of models, and for any number of strikes of the timer inside of the cache.
  They cannot rest on the list being well formed, which it is not after a strike.
  They rest on the map: an operation writes it in one statement, the last of
  `evict` and of `put` (`CallPlaces`), and `put` is reached only with room left
  (`Room`). `LoadOnce` is not inductive alone: `ServingInv` adds that no miss is
  served while a hit is left and that the hits left are cached (`HitsFirst`), and
  that a model that was loaded is the current one or already served
  (`LoadedServed`). The other two follow from `ModelInv`, which says what
  `forward` has in hand at each of its steps (`HandOK`) and that the groups it is
  done with have their results (`ResultsOK`).
* `ListProofs`: `ListInvariant`, `ConsistentHolds`, `WrapFindsVictimHolds` and
  `RefinesHolds`, for every size of the cache, all keys and values and every
  finite set of nodes larger than the cache (`ListAssumption`). The nodes of the
  list are a sequence without repetition (`Chains`), which no variable holds:
  `ListInv` says that there is one for which `Phase` holds. `Phase` gives each
  value of `pc` its own part: `Whole` between operations; `Scanning`, in which
  the positions the hand has passed (`Legs`) had their bit in the contents from
  which the operation began and have it no more (`Swept`); `Unlinking` to
  `Forgetting`, in which one node at position `p` is on its way out of the prev
  links, the next links, the hand and the map; `Inserting` to `Joined`, in which
  one is on its way in. Each part carries what the operation still has to reach:
  `Leaving` says that the list without its victim is the contents SieveCache
  prescribes (`Goal`), so that the last statement of the operation is the
  abstract step and all others stutter (`Shows`). That `_evict` stops at the
  abstract victim is `VictimIs`; that the recursive `Walk` meets the nodes of
  the chain is `WalkIs`, an induction over a set of numbers (`SetInduction`)
  that also yields `Length`, `Linked` and `Contents` (`ContentsNow`). The
  theorems are about `Spec`: with the timer inside operations (`AlarmSpec`) the
  list is left half updated, and TLC shows `WrapFindsVictim` violated (Disagreements).
* `CoordinatorProofs`: `CoordinatorTypes` proves `CSpec => []CTypeOK` for all
  bounds and all failures. The other three theorems assume nothing about when the
  acquire of a reply gives up. `NeverTwoWriters` proves `CSpec => []OneWriter`
  from `OnePermit`: the permits of the semaphore, of the main thread and of the
  events on their way add up to at most one, and one more for every late reply,
  since the timer and the death of the streaming thread only lose permits, and a
  reply that times out with no event left puts back one that was lost.
  `EventsReachOwner` proves `CSpec => []EventOwner`: before the first late reply
  an event of a request, in the queue or in hand, is one of the batch that
  `current_ids` names (`OwnerInv`), because the main thread cannot get past its
  reply while there is one; events of the warmup may be there too (`OfRequest`).
  `RepliesAreLast` proves `CSpec => []ReplyIsLast`: an event in the queue or in
  hand is of a batch that is not answered yet (`LastInv`), and replies are
  numbered as the batches are. That `late = 0` is needed is what `v_event` shows.

* `SupervisorProofs`: `WorkersTracked` and `EnvironmentIsOwn`, from `PoolInv`: a
  worker that is still to be started is not running (`ToStart`), since it was
  found dead, or absent, and the server is the only process that starts any.
* `ExchangeProofs`: `ObjectIsOwn`, `NothingIsLeft` and `ClientBlamedRightly`, for
  any number of tasks and processes, any set of worker classes and any number of
  deaths. `ExchangeInv` adds to them that an id is the payload of one task, or
  kept by one process, or neither (`IdInv`); that the object of a task stays in
  the store until the second stage has decoded it, and is gone from then on
  (`StoreInv`); and that the counter is at most the number of encoded tasks, of
  kept ids and of deaths (`CountInv`), which is why `ObjectIds` is large enough
  and bounds nothing that the code does not bound. `forward` may raise any class;
  `Blame` excepts the flags it raised, and everybody else's 400 or 422 is traced
  to a request of the same batch that does not decode (`Fail`, `Failed`). Lemmas `Advance`, `Put` and
  `End` are the three things a step does to a batch; each action is an instance
  of one. `ExchangeAssumption` and `AbsentAssumption` are about types only.

* `LaunchProofs`: `LevelsAgreeHolds`, `RoutesResolveHolds`, `TypedFirstHolds` and
  `SuccessIsRealHolds`, for all programs, command lines, environments, worker
  classes and routes; `ProgramsAssumption` says that a program is a sequence of
  calls with arguments of the right types. `LevelInv` says that the level and
  the configuration come from the same sources, and `SameLevel` that the three
  computations then agree. `RegistryInv` says that routes have distinct
  endpoints, none of them reserved, and lead to registered runtimes unless a
  refused endpoint was ignored. The routes are the result of a loop
  (`AddStages`), and the document that of a recursion over the boundaries
  (`TrySchemaType`): what these compute is shown in `AddStagesType` and
  `Acceptance` by an induction over sets of numbers (`SetInduction`), which needs
  no theorem with an operator as parameter and gives both that the recursive
  function exists and what its values are. For `SuccessIsReal`, `DryInv` says that
  the example is a token, in one pipe or in the hands of one process
  (`TokenInv`), and that a failure is not forgotten: a process is dead, or the
  event is set at a point where nobody else would have set it (`FailureInv`).

* `WireProofs`: `WholeBatchesHold` and `RightRepliesHold`, for every sequence of
  batches that meets `WireAssumption`, every buffer size and every way the
  socket cuts the bytes. Neither property says where in a message the two sides
  are, so each direction has an invariant that does. `DownInv`: what receive has
  of the current field (`Piece`), what is in the socket and what is still to be
  written are, joined, the rest of the current batch (`Ahead`) and the batches
  after it (`Splits`), and the fields already received are those of that batch
  (`Known`). `UpInv`: the same for `read_message` (`Partway`, `Onward`) and the
  messages of the two threads, of which the end may be lost when `sendall`
  fails; it holds until the worker's end is closed. `Heard` is what the service
  has heard, and `Asked` that it sends a batch only after a reply to each one
  before it, which makes the batch in `DownInv` the last one sent. Underneath,
  `NumberTwo`, `NumberFour`, `DigitsTwo` and `DigitsFour` say that a number
  survives its bytes, and `MessageLays` that a message is its header and then
  its items one by one: both are recursions over sequences, shown by an
  induction over a set of numbers (`SetInduction`). `++` is concatenation under
  a name that the provers leave alone. TLC finds `WholeBatches` violated without
  `stalled` and `RightReplies` without `torn`; `short`, and `torn` in
  `WholeBatches`, are there for contents that read as headers, which the
  instance does not have.

Only model-checked, and why:

* `Completes`, `Answered`, `Terminates`, `Replied`, `EventSent`, `Recovers`,
  `Stops`, `Served`, `Leaves`: liveness under fairness is out of the prover's
  reach.

## What is left out

Metrics of the dry run, latency histograms and counters (written, never read);
the text of log lines, error messages and of the OpenAPI document, and the files
it is served from; the search for the service's binary; compression of bodies
(a layer of the HTTP library); the parsing of the configuration file by the
service; accept errors of a listener; reuse of ids after 2^32 requests; a store
that loses its data; an example larger than a pipe in the dry run.

## Plan

Done: the modules above with their runs; every invariant and action property of
every component proved, and the linked list of the cache proved to implement
what the cache promises.

Next, in this order:

1. An instance of `Service` with reused ids, to say what 2^32 requests change.
