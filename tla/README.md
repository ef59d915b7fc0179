# A TLA+ project for kkdg

kkdg is a Go library for game and distributed servers: a network layer
(`kknet`), remote communication (`remotes`: RPC, NATS cluster messaging,
discovery, event bus), an actor application framework (`kkapp`) with gate/logic
transports, a module tree (`kkappm`), and utilities (`utils`). This directory
models the parts of it whose correctness depends on the order of steps, checks
the models with TLC on small instances and proves theorems about them with
TLAPS. `PROJECT.json` relates every definition to the source lines it models.

Contents: [Inventory](#inventory) · [Hazards](#where-it-is-hard) · [Modules](#modules)
· [Runs](#runs) · [Results](#what-the-runs-say-about-the-code)
· [Proofs](#proofs) · [Limits](#limits)

## Inventory

State is what a component keeps between calls; "peers" are the components it
calls or is called by. The last column says what would make it correct.

### remotes

| Component | State | Operations | Peers | Correct when |
|---|---|---|---|---|
| `kkrpc` pending table (`pending.go`) | 256 locked shards of channels and callbacks keyed by request id, an atomic counter, a closed flag, a global pool of one-slot channels | `addCh`, `delCh`, `addCallback`, `takeCallback`, `delCallback`, `deliver`, `closeAll` | the invokers, the receiver, `Client.Stop` / `Server.Stop` | a request gets its own answer or an error, once; nothing is left behind after close; the limit of in-flight requests holds |
| `kkrpc` invokers (`invoker_*.go`), method table, receiver | method ↔ type tables; statistics | `Invoke`, `InvokeAsync`, `InvokeOneWay`, `OnRaw` | pending table, `kknet` connections | every invocation returns; statistics add up |
| `kkdiscovery`, `dnats` | member table and type index, last-seen times, NATS subscriptions | join/heartbeat/leave messages, member request, expiry check, `Stop` | NATS, `kkcluster`, gate/game transports | the member table converges to the live nodes; listeners see joins and leaves in the table's order |
| `kkcluster`, `cnats` | handler tables, pending requests (pooled channels), NATS subscriptions, reconnect state | `Send`, `Publish`, `Request`, `RequestAsync`, `Start`, `Stop`, resubscribe | NATS, discovery | each request completes once; `Stop` leaves nothing pending |
| `kkeventbus` (`buslocal`, `busnats`, `internal`) | per-topic listener lists | `Publish`, `Subscribe`, `Unsubscribe`, `Close` | NATS | a listener subscribed during a publish is not lost; none runs after it was removed, beyond one publish in progress |

### kknet

| Component | State | Operations | Peers | Correct when |
|---|---|---|---|---|
| write processors (`kkprocessor/write_*.go`) | bounded queue, pending counter, wake signal, closed flag, writer goroutine or worker job | `SendBuffer` (drop / retry when full), `Stop`, write loop, write retry | connections, task queue | each accepted buffer is written once and in order, or released at close; the writer never sleeps on a non-empty queue |
| read processors (`read_*.go`), `PacketSpliter` | receive buffer, queue, consumer | `OnRecvBytes`, `EnqueuePacket`, `Stop` | packet handlers | packets are handled in order, by one handler at a time; the bound of the queue is kept |
| `kktcp`, `kktcptls`, `kkws`, `kkgws` client and server | connection, stop flag, reconnect loop, statistics | `Connect`, `Close`, reconnect, `OnOpen`/`OnClose` | processors, handlers | one reconnect loop at a time; nothing reconnects after `Close`; OnConnect/OnClose alternate |
| `ConnManager`, `Stats`, `status.go` | connection map and count | add, remove, kick, range | servers | the count is the size of the map |
| `kkpacket` | packet formats, message router, message registry | pack / unpack, route | processors | unpack inverts pack, also when the stream is cut anywhere |

### kkapp and kkappm

| Component | State | Operations | Peers | Correct when |
|---|---|---|---|---|
| `component` (application, watcher) | application state, component pids, fault rules | `Start`, `Stop`, `AddComponent`, actor messages, supervision | protoactor, `faultreport` | components start in order and stop in reverse; a fault is handled once |
| `kkactor` (local manager, framework) | local nodes and actors, remote transport | add/remove, `Send`, `Request` | transports | a request to a local or remote actor completes once |
| `registry` (hub client and server) | request map, owned actors; actors by node and by connection | register, find, list, resend after reconnect, close | `kktcp`, discovery | after a reconnect the hub knows the client's actors, and a stale close does not remove them |
| `transport/atransrelay`, `atransnats` | sessions by node, pending replies | register, relay, request/reply, close | `kktcp`, NATS | a reply goes to its request; a re-bound node is reached on its new session |
| `transport/gatetrans/*` (gate side) | logic servers and their shard connections, client sessions | register, unregister, forward, close | `kkrpc`, NATS, `kktcp` | a message goes to a connected shard; a reconnected shard stays registered |
| `transport/gametrans/*` (logic side) | session table with pooled entries and an online counter, gateway connections | add/remove session, forward to client | `gatetrans` | the counter is the size of the table; a session's messages reach one worker in order |
| `kkmodule` | tree of modules and an ancestor's id index | add, release, get | — | the index is exactly the modules of the tree; release is bottom-up |
| `achecker`, `faultreport`, `ptotrans` | rule table | validation, rules, wire types | `component` | — |

### utils, tools, examples

| Component | State | Operations | Correct when |
|---|---|---|---|
| queues (`bbqueue`, `dqueue`, `rbqueue`, `taskqueue`), `kkring`, `kkbuffer`, `byteslice` | ring buffers, pools | push, pop, grow, release | FIFO; a buffer is released once |
| `timingwheel`, `delayqueue`, `kktime`, `kkpool` | buckets, clock, heap | add, stop, expire | a timer fires once, not before it is due, and not after a successful stop |
| `kkevent`, `xcall`, `kkoption`, `kksort`, `kkstat` | listener lists | add, remove, notify | the snapshot semantics of notify |
| `kkcodec*`, `xconv`, other `x*`, `kklog`, `kkerrors`, `kkmetrics`, `proto`, `tools` | — | conversion, logging, generated code | conversions are right; outside the reach of these models |
| `zothers` (demo, examples, tests) | demo gate and game: bindings of users to connections, feed limits | — | example code |

## Where it is hard

`PROJECT.json` lists the hazards with their lines and the properties that watch
them. In short:

* *locks held for one shard and released between two steps of one operation*:
  the pending tables of `kkrpc` and `cnats`, the discovery table and its
  last-seen map, the session tables;
* *a value taken from a shared structure and used after the lock is gone*
  (`deliver`, `closeAll`, expiry checks, connection close handlers);
* *objects that are pooled and reused while an old user still holds them*
  (response channels, session records, buffers);
* *a timeout or a stop racing a late answer*, *a reconnect racing the close of the
  old connection*;
* *wake-up signals of one slot* between producers and a consumer.

## Modules

Every model takes the grain of the code: one action per locked section, atomic
operation, channel operation or write, so that two steps of one call can be
separated by steps of others. Program counters, where a goroutine has several
steps, are functions from the goroutine to the name of its next step. Definitions
that are a changed version of the one beside them (their comment begins with
"Mutant" or "A change", or their name ends in `Mutant`, `Blindly`, `Half`, `Twice` or
the like) are used by no specification; `PROJECT.json` says which property each of
them must break.

| Module | Code | What it holds |
|---|---|---|
| `RpcPending` | `remotes/kkrpc` pending table, invokers | calls, readers, the sweep of `closeAll` |
| `OnceTable` | — | the abstract promise of a request table |
| `SendQueue`, `WriteProcessor`, `WorkerWriteProcessor` | `kknet/kkprocessor/write_*.go`, `taskqueue` | producers, the writer or the worker's jobs, `Stop` |
| `Packets`, `ReadPath` | `kknet/kkpacket`, `packet_spliter.go`, `read_*.go` | framing; three processors from bytes to handler |
| `NetClient` | `kktcptls`, `kkws`, `kkgws` clients | `Connect`, `Close`, reconnect loop |
| `GnetClient` | `kktcp` client | the same promise over gnet's event loop |
| `StreamConn` | connections of `kktcp` and `kkgws` | send queue, hand-over, flush at close |
| `NetServer` | the four servers, `ConnManager`, `Stats` | ways in and out of a connection, `Stop` |
| `Options` | `kknet` options | defaults, checks, back-off |
| `NatsDiscovery` | `remotes/kkdiscovery/dnats` | one node's member table |
| `ClusterRequests` | `remotes/kkcluster/cnats` | requests, records, `Stop`, resubscription |
| `EventBus` | `utils/kkevent`, `remotes/kkeventbus` | listener lists and publications |
| `GateShards` | `gatetrans/transshard`, `gametrans/gametransshard` | logic servers, shard connections, order of messages |
| `NodeTable` | `gatetrans/transrpc/member_mgr.go` | the two maps of nodes and connections |
| `GateSessions` | sessions in all three transports | session table, pooled records, forwarding |
| `GateTables` | `zothers/internal/demo1/comps/ccgate` | the tables of the demo gate and its limit of error callbacks |
| `ActorHub` | `kkapp/kkactor/registry` | the directory and its clients |
| `ActorRelay` | `kkapp/kkactor/transport/atransrelay` | relayed requests, registration |
| `Owners` | — | `GnetClient` and `ActorRelay` together: who has a connection, at its two ends |
| `AppLife` | `kkapp/component` | start, faults, stop of an application |
| `ModuleTree` | `kkappm/kkmodule` | adding and releasing modules |
| `RingBuffer`, `FifoQueues`, `LinkedDeque` | `kkring`, `bbqueue`, `rbqueue`, `dqueue` | containers beside the sequence they stand for |
| `TimingWheel` | `utils/timingwheel`, `utils/kktime` | wheels, delay queue, buckets, timers |
| `Conversions` | `utils/xconv` | chains of conversions |

### Suites

A run of TLC covers one *suite*: an `MC…` module that puts several components side by
side. Its variable `unit` is chosen in the initial state; every behaviour is one of that unit,
and the variables of the others keep their initial value. The state graph is thus the
union of the graphs of the units, not their product, and a property of a unit is checked
in each of its states. A suite EXTENDS the components that have theorems, so that
the run and the theorem speak of the same definition, and takes the others
by INSTANCE, with their variables renamed where two components use one name.

| Suite | Extends | Instances | Units |
|---|---|---|---|
| `MCTables` | `MCRpcPending` (`RpcPending`), `GateTables` | — | rpc, gate |
| `MCRequests` | `NatsDiscovery`, `ClusterRequests`, `AppLife`, `ModuleTree` | `RpcPending` | disc, cluster, rpc, app, tree |
| `MCConnections` | `Owners` (`GnetClient`, `ActorRelay`), `ReadPath` | `NetClient` | net, reads, gnet, relay |
| `MCWriters` | `WriteProcessor`, `StreamConn` | `WorkerWriteProcessor` | thread, worker, stream |
| `MCTransports` | `GateShards`, `EventBus`, `NodeTable`, `NetServer`, `ActorHub`, `GateSessions` | — | shards, bus, nodes, server, hub, link |
| `MCUtils` | `Conversions`, `RingBuffer`, `FifoQueues`, `LinkedDeque`, `TimingWheel` | `Packets`, `Options` | conv, ring, fifo, deque, wheel, packets, options |

`MCTables`, `MCRequests`, `MCConnections` and `MCWriters` have a step `Terminated` (in
`MCTables` for the gate: a stutter), a stutter at the states in which a unit has come to
its end, so that every other state without a successor is a deadlock and is reported.
`MCTransports` and `MCUtils` do not check deadlock: their components come to rest
wherever the bounds of the environment are used up. Neither do the runs that
expect a violation, except `rpc_own_response`.
`MCTables` uses symmetry of blocking calls, channels and game nodes, and `FirstIsFirst`, which
breaks the symmetry of clients and of users by hand: the first to connect is `c1` and the
first to log in `u1`. It has no liveness property; the liveness of the calls is
checked by `MCRequests`, without symmetry.

### RpcPending, OnceTable

`RpcPending` models `remotes/kkrpc/pending.go` with the operations of the invokers
that use it.

* A *call* is one use of `Invoke` (`SyncCalls`) or `InvokeAsync` (`AsyncCalls`); its
  program counter `pc` names the next step. A *reader* is a connection's goroutine
  running `deliver`; one stopper runs `closeAll`.
* `chMap` and `cbMap` are the unions of the shards' maps: the entry of a call is its
  channel, or its callback. `ShardOf` says which entries share a lock, which matters only to
  the sweep of `closeAll`.
* `buf`, `shut` and `pool` give each pooled channel its buffer (one slot), whether it is
  closed and how often it lies in the pool. The pool is `sync.Pool`: it may give any
  channel it holds, or a new one.
* A response carries the request it answers, so that "my own response" can be
  stated. The network below is the set of awaited requests: a response may come
  once, late or never.

`OnceTable` is the abstract promise: an outstanding call is completed at most once,
by one taker, and none is added after the close. `ImplementsOnceTable` maps an entry
of those maps to an outstanding call.

### SendQueue, WriteProcessor, WorkerWriteProcessor

The two write processors share their producer side, and `SendQueue` is that side:
`SendBuffer` with its size limit, the drop or retry of a full queue, and the wake-up
of the consumer. The options (strict size, retry, flush at stop) are one
variable chosen at `Init`, so that one run covers all combinations. A buffer is
`<<s, i>>`, the i-th buffer of producer `s`.

`WriteProcessor` (`write_thread.go`) adds the goroutine that sleeps on a channel of
one slot, pops a batch under the lock, writes it outside, retries a failed
write, and ends by a drain or by a fatal error; and `Stop` with its optional flush
and its wait for the goroutine. `WorkerWriteProcessor` (`write_worker.go` over
`utils/queues/taskqueue/workerqueue.go`) has no goroutine: it queues a job on a
task queue of one worker, and the job decides at its end whether to queue the
next. Which buffers fit in one write is chosen freely: the byte limits only decide
how many are popped.

### Packets, ReadPath

`Packets` is the framing: a byte is a number below `Base`, a length field has
`LengthBytes` of them, a body is any short sequence. Packing, unpacking, the splitter over a
stream and the router are operators; its one action registers a message with the
router. `ReadPath` puts the splitter before the three read processors:
a goroutine of its own with queue and wake-up, the jobs of a worker, or the handler
called in place. The stream of the peer arrives cut anywhere. `Reused` says whether the
pool gives a buffer that was just put back to the next who asks, which `sync.Pool`
does when nothing else runs on that processor; the findings need `TRUE`, the other properties are
checked with `FALSE`.

### NetClient, GnetClient

The reconnecting client of `kknet/kktcptls/client.go`; those of `kkws` and `kkgws` are the
same program step by step. *Users* call `Connect` and `Close` in any order; a
`Connect` starts a loop goroutine (or a watcher if there is no reconnecting), and each
dial that succeeds starts a session with a reader. `stopCh` is a generation number:
`Connect` makes a new channel, `Close` closes the one it finds. The status, the
connection and `stopCh` are separate variables because the code writes them in
separate steps. A dial may fail, and a session may be lost at any step.

`GnetClient` is the client of `kktcp`, which has another shape: gnet's engine opens and
closes connections on its event loop, and each closed connection leaves a goroutine that may
start a reconnect loop. Each loop, each `OnOpen`, each `OnClose` and the two callers are
actors. `conns` says how far each connection is: `OnOpen` loads the status, stores the new one,
publishes the connection and tells who waits, each a step of the event loop, which runs one handler
at a time, while callers and loops go on between them. Two things the code does undo its promise, and
histories record them: `crossed`, a `Connect` that met what was left of an earlier life (a
loop, a connection on its way), and `missedOpening`, a `Close` that found no connection because
one was about to be published, or over whose Closed `OnOpen` then stored Connected, and left the
connection open.

### StreamConn, NetServer, Options

`StreamConn` is a connection without a write processor: a sender pushes and drains itself
if nobody does, a callback of the write drains on, and `Close` lets the queue empty until
a deadline and then stops the reader. `NetServer` follows each connection through
`phase`, from the backlog to its end, for each of the four servers (their orders of
`AddConn`, counting and telling differ), with `KickConn` and every stage of
`Stop`. `Options` applies `With…` functions in any order, checks as often as connections are made, and
computes the back-off from the result.

### NatsDiscovery, ClusterRequests, EventBus

`NatsDiscovery` is one node's view of the others: `remotes/kkdiscovery/dnats/nats_discovery.go` with the
table of `member_mgr.go`. The other nodes are an environment that announces
(`publishSelf`), leaves, and restarts with another type; announcements may be lost.
*Receivers* are subscriptions: after a reconnect the new one delivers while a
callback of the old one may still be at work, so two callbacks can be in
`addMemberInfo` at once. `check` is `checkMemberTimeout` with its two locks. Time is
a mark on each entry of `memberTimes`, fresh or stale, which only ages and becomes
fresh again by an announcement: the code compares with one threshold, so nothing else
about a time can be observed. `told` is the number of additions notified less
the number of removals.

`ClusterRequests` has the two tables of requests (a channel of its own, or a pooled
record with the callback), the responses, the wheel that expires them, `Start`, `Stop` and
the loss of the connection. Whoever finds an entry ends its request.

`EventBus` has the manager of `kkevent` and the two buses over it (`kind`). A list of
listeners is an array that is read by publications and replaced, never written, by
subscribers; the properties hold because of that, and a mutant that appends in place
breaks them. Over NATS, `busConn` is the connection: given by its owner, who may drain or close
it at any time (`ConnEnds`), or none, for a bus that connects by itself (see the deviations). Every
call to NATS may return an error: a `Subscribe` then changes nothing
(`SubscribeFails`), an `Unsubscribe` leaves the consumer, without listeners, and its subscription
(`DropConsumer`), `UnsubscribeAll` forgets the consumers and leaves any of the
subscriptions. The history `failed` names the subscriptions NATS kept.

### GateShards, NodeTable, GateSessions, GateTables

`GateShards` is a gate and a logic node: the gate's table of logic servers and shard connections
(`gatetrans/transshard`), the node's client per shard
(`gametrans/gametransshard`), and `kktcp` between them as far as they depend on it (the
reader drains what it accepted before `OnClose` runs, on either end; a client dials again
only after that). The ends of a connection learn of its loss independently, and each
loses what its reader had not accepted. The gate's steps are those of the reader of
a connection (`OnRaw`), of its `OnClose`, and of the goroutine that forwards a
client's message; the node's are the register goroutine of each connection,
`Stop`, and a restart as a new process. A `LogicServer` is an object with an
identity, because the code looks it up, releases the lock, and writes into the
object it found. `crashed` says that the gate dereferenced a nil connection: nothing
follows it.

`NodeTable` is the same question for the rpc transport, where two `sync.Map`s are changed
one after the other. `GateSessions` follows a client's session from the gate to the logic
node in all three transports (rpc, shard, NATS): who is told of its end, which record of the pool
serves it, and what is forwarded. `overlap`, `doubled`, `misled` and `untold` note the interleavings in
which the code loses track; the property says that there are no others.
`GateTables` has the tables of the demo's gate component, each with its lock, and the goroutines
that walk through them: a client's reader, its close, and the hooks of logins and logouts. Each of them,
and the network that finds a client's queue full, may call `feedCallback`; `feed` says which call is where,
since it looks at the connection, then at the limit (`IsLimited`), and writes the limit in
two more sections of its lock (`IsLimitedSets`, `Reset`), around which the client may close. An entry may have expired, so a
client that was told may be told again. The three errors of a reader are one, as it waits for the end
of each; `errCallback` is whether the application set a callback, whose body is its own. `late` notes what
was stored after the close had passed the table, `displaced` the sessions that lost their user to another one.

### ActorHub, ActorRelay, AppLife, ModuleTree

`ActorHub` is the directory of actors: nodes that register, lose their connection and
register again before the hub has noticed; `connRegs` and `actorOwner` decide whose
close removes an actor. `ActorRelay` is requests between actors through a hub, each node's
`Transport` over a `kktcp` client that dials again, the pending replies, and `Close` and
`Start` in turn. `AppLife` has `Start`, `Stop` and the watcher of component faults as goroutines
and actors beside each other; the actor library (what runs when, restarts of a panicking start) is
external. `ModuleTree` is sequential but re-entrant: `OnInit` and `OnStart` may add modules and
fail, so the calls under way form a stack.

### Containers, TimingWheel, Conversions

`RingBuffer`, `FifoQueues` and `LinkedDeque` keep the arrays, positions and links of the
code next to the sequence the caller means; their properties relate the two after every
legal call. `TimingWheel` has callers that add and stop timers, the goroutine that
polls the delay queue and the one that flushes buckets; clocks and expirations are
atomics, buckets have locks. `Conversions` chains conversions of scalars and slices with
widths scaled down, so that every limit can be crossed.

## Runs

The numbers are those of TLC with two workers.

| Run | Module | States | Properties |
|---|---|---|---|
| `tables` | `MCTables` | 2.16 M | `ChanExclusive`, `NothingLeftBehind`, `AsyncEndsOnce`, `CountCoversEntries`, `CrossTalkNeedsGiveUp`, `ImplementsOnceTable`, `GateTablesHold` |
| `requests` | `MCRequests` | 456 k | `IndexConsistent`, `CountsSettle`, `NodesFollowed`, `ClusterEndsOnce`, `ClusterAnswers`, `AppsHold`, `AppSettles`, `CallsEnd` |
| `connections` | `MCConnections` | 331 k | `ReadStops`, `OwnersHold`, `CloseWins`, `ClientGoesOn`, `ReadSettles`, `DialsSettle` |
| `write` | `MCWriters` | 581 k | `NoLostWakeup`, `NothingLostInOrder`, `DrainedMeansSent`, `BuffersKept`, `ConnFlushes`, `WritesSettle`, `ConnSettles` |
| `transports` | `MCTransports` | 1.81 M | `AttachedIsLive`, `ActiveIsCount`, `InOrder`, `HubKnowsActors`, `EventsReachListeners`, `ServerAccounts`, `SessionsHold`, `NodesAgree` |
| `utils` | `MCUtils` | 392 k | `ContainersHold`, `TimersRunOnceInTime`, `ValuesHold`, `TimersFire` |

Six more runs check one statement each that a comment or document of the
repository makes and the code does not keep (`findings` in `PROJECT.json`):
`rpc_own_response` (`MCRpcPending`), `net_closed` (`NetClient`), `disc_times`
(`NatsDiscovery`), `gate_attached` (`GateShards`), `wheel_lock` (`TimingWheel`) and
`split_intact` (`MCReadPath`).

**Why the bounds are enough.** *rpc*: two `Invoke`s are needed for a channel to be reused,
a third call for the limit to bind; one reader, which is between its two steps while every
call and the sweep go on (the theorems are of any number of readers). *gate tables*: two sessions, users and nodes give every pair of
"same or another"; two hooks let a login meet a logout; two messages let a client be told twice of
one error, or of two at once. By symmetry, only the second client's queue is ever full; a gate without a
callback, which skips `feedCallback` and the kicks, is run with the larger limit only. *write*: a queue of one buffer is full
whenever it is not empty, so a second producer meets a full queue and a third a queue that
was just emptied. *clients*: one session lost and one replacing it is every pair "old loop, new
connection" the client can have: its state holds one connection and one `stopCh`, and a
goroutine of an earlier generation compares itself only with the current one. *relay*: the one node
that asks may be closed and started again once, with one loss, so that each end sees an old and a
new connection. *discovery*: a second restart and a second reconnect allow a node to come back while
its first return is being removed, and both receivers to be busy with announcements of
different lives. *cluster*: two requests that run at once and one later share two
records. *shards*: two are needed for `Stop` to be between two shards; two connections are
shared by both: an old and a new connection of one, or one of each. *nodes*: three
connections and two processes give an old one, its successor and the first of the next process.
*bus*: three closures of which two share their code, four operations: subscribe twice,
unsubscribe one, publish; the connection may end, and a call fail, at any of them. *servers*: two connections, one on its way in while the other is kicked
or closed. *reading*: three packets, of which one does not fit a read buffer, cut
everywhere. *utils*: buffers that are full after two or three items, two timers of which one
goes through the overflow wheel.

Larger instances were run by hand and hold: `RpcPending` with two readers, `NetClient` with two users who both
connect and close (607 k states), `NatsDiscovery` with two nodes and inbox, restarts
and reconnects of one (4.5 M), the order of messages in `GateShards` with three messages
(2.1 M), `NetServer` with three connections and two kicks (4.9 M), and, under weak fairness of the
gate's and node's goroutines and one shard (187 k), that a lost connection is detached, a
register attaches and a node that stopped is no longer offered. The inductive
invariants of the proofs were checked by TLC in the same way before they were proved.

**Fairness.** Goroutines that can take a step are scheduled: weak fairness of each
call, reader, producer, writer, worker, stopper, session, receiver, checker, loop and
actor. That is Go's scheduler; a locked section is one step of the models, so nobody waits for
a lock between steps. Timers fire (they are steps of their calls), deadlines pass, and a write
ends. Beyond the scheduler, three things are assumed of the environment, and only where the
property needs them: a dial that is attempted again and again succeeds at last (strong
fairness of `DialSucceeds`), announcements of a running node are not all lost
(fairness of `Announce`: strong in `NatsDiscovery`; weak in `MCRequests`, where there is one
node and the inbox stays open until it announces), and time passes (weak fairness of `Age` and of
the clock of the wheel). A write processor whose connection is closed is stopped: the read
loop notices the closed socket and calls `closeWithError`, which calls `Stop`; without that a
producer that retries without limit on the queue of a dead writer would be freed by nothing.
A response need not come, nobody need start a call or stop anything, and the
transports run assumes no fairness at all.

**What the mutants show.** For every property of a passing run one definition is
replaced by a version with a plausible bug (a dropped recheck, a missing wake-up, a batch
popped from the wrong end, an inverted comparison, a handler that does not wait for the
reader) and TLC must find the property violated under the same configuration. A bound
too small for the interesting case would show there.

## What the runs say about the code

Confirmed by a counterexample (the `findings`):

1. A late response can reach another call (`rpc_own_response`): `deliver` takes the
   entry and sends later, the caller times out in between and its channel
   is pooled and reused, and `Invoke` does not compare the id. `CrossTalkNeedsGiveUp`,
   which is proved, says that this is the only way.
2. A `Close` can be overwritten by `Connected` (`net_closed`).
3. A member can lose its time and then never expires (`disc_times`).
4. The `OnClose` of a lost shard connection throws out its replacement
   (`gate_attached`).
5. A bucket of the timing wheel can be flushed into itself, and the wheel's goroutine
   waits for its own lock for ever (`wheel_lock`).
6. The rest of a partial packet can be copied over packets that are still to be handled
   (`split_intact`).

Seen while reading, with no run of their own. Where a property of a model holds only but for one of these, the
model notes the case in a variable or a guard and the property excludes exactly it.

*rpc*
* Asynchronous timeouts never give their slot of `curPendingCount` back (`takeCallback`,
  `pending.go:134`), so the limit is exhausted in the end; the limit is checked and then
  counted (`:61`, `:64`), so n concurrent calls exceed it by up to n − 1; `closeAll` stores 0 while
  calls it overtook still decrement.
* `InvokeAsync` may run its callback twice when the send fails while `Stop` sweeps
  (`invoker_reqrsp.go:267` against `:180`); `CallbackOnceIfSent` excludes exactly this. It counts
  successes and failures but not starts (`stats.go:46`).
* `newOneWay` looks into `method2typeReqRsp` where it means `method2typeOneWay`: a second
  registration is never refused (`method_mgr.go`).

*connections*
* A writer that dies of a fatal error leaves what is queued, and what producers go on queueing, until `Stop`
  (`write_thread.go:257`); `closeCh` is seen only between two drains (`:170`, `:229`);
  a retry sends the whole batch again (`:283`, `:305`).
* `kktcptls` and `kkws`: a local `Close` or `KickConn` delivers no `OnClose` (`conn.go:61`); two
  `Close`s can both find `stopCh` open (`client.go:122`). The `Stop` of a WebSocket server misses a
  connection that is being upgraded.
* `kktcp` client: a `Close` that finds no connection stops neither engine nor waiters, so a dial in
  progress later sets Connected over Closed; a connection published after `Close` stays open; a
  `Connect` while an old loop runs waits for ever (`openCh` is overwritten) or loses a connection;
  without reconnecting a lost connection leaves the status Connected and `Connect` is a silent no-op.
* `kktcp` and `kkgws` connections: a handler that closes its own connection waits for itself
  (`gnet_conn.go:308`, `kkgws/conn.go:157`), while it holds `closeOnce` and, with gnet, blocks the event
  loop; a flush on the event loop waits for its whole timeout.
* `EnqueuePacket` calls `RecvQueueFullCallback` under its lock; `EncodeStream` checks neither
  `maxPacketSize` nor the width of a field, so `PartUint16/32/64` cut silently; `DecodePacket` unmarshals
  into an `any`, which the proto codec refuses.
* Options: a raised `PingInterval` can exceed `ReadTimeout`; a back-off may shrink; every new
  connection rewrites the shared options without a lock (`ws_conn.go:43`).

*remotes*
* Discovery: listeners run after the lock is released (`member_mgr.go:108`), so a removal can
  be told after the addition that followed it; a heartbeat may follow the `Offline` of
  `Stop` (`nats_discovery.go:367`); with `RetryOnFailedConnect` a start without a server
  succeeds and subscribes to nothing (`nats_option.go:25`).
* Cluster: a record that `Stop` freed is put back once more when its publish is refused; two later
  requests may then share it, and one of them stays in `reqMap` for ever.
* Event bus: `busnats` keeps the built-in connection in local options, so `eb.opts.conn` stays nil;
  `IsSameFunc` compares code only, so two closures of one literal are one listener. An `Unsubscribe` that NATS
  refuses leaves a consumer that accepts new listeners (`busnats/eventbus.go:106`), to whom no message
  comes once the connection has ended; after an `UnsubscribeAll` nobody can give back a subscription NATS kept.

*gate and logic nodes*
* An `Attach` of an old connection that comes late replaces a newer one in the
  slot; `server.go:96` reads `sconn.conn` without the lock, after `clear()` may have set
  it to nil (`crashed` in the model).
* rpc transport: it registers once per process and not after a reconnect; a `register`
  handled after `OnClose` leaves a stale entry; the "unregister" of an old connection deletes a newer
  registration.
* Sessions: a forward may overtake or follow `NotifyClientDisconnect`, and the session stays;
  `AddSessionWithShard` checks and then acts, so the count doubles; a record goes back to the pool while a
  handler holds it; the NATS `ForwardToClients` stops at its first error.
* Demo gate: `localDis` is not decremented at a disconnection, `userTable` is never read when a node is
  chosen, `OnConnect` counts the connection that asks (so `MaxConnCount` − 1 fit), and a nil
  error callback leaves a kicked session heard. `feedCallback` looks for the connection before it writes the
  limit, so that an entry written after the close of a client stays for ever (`feedlimit.go:35`).

*actors, applications, modules*
* Relay: a `Close` while the client dials again leaves a client that reconnects for ever and
  registers the closed transport anew; an `OnClose` from before a `Close` and `Start` clears `registered`
  of the new connection (`transport.go:371`); a relay before the register gets an error without a tag, so its
  request waits for the timeout.
* Application: a timer past its state check may publish a fault twice (`app_watcher.go:37` says once);
  `AddActor` late in `Start` (`app.go:168`) makes a stopped node local again; a `Stop` during
  a fault's stop returns `ErrAppNotStarted` at once; a stop for a fault of an earlier start is refused
  and not scheduled again, or stops an application that has recovered.
* Modules: an `OnInit` that fails after adding modules leaves them known and unreachable; if it
  added to its parent, the wrong child is dropped (`module.go:95`); a release through another than the parent
  leaves the module in its parent's list (`:128`); `kkappm/README.md` says closing is the reverse of
  adding, but a parent's `OnStop` runs before its children's.

## Proofs

Eight modules hold theorems; TLAPS proves them to the last leaf. They assume the named
`ASSUME`s of the modules they extend (numbers are naturals, sets that are counted
are finite, "none" values are not members) and nothing else; theorems about
`ClusterRequests`, `EventBus`, `NodeTable` and `GateSessions` name theirs (`ConstantsOK`, `BusOK`,
`NodesOK`, `LinksOK`) as a hypothesis. Of `ReadPath` two are more than types: the peer sends what `Pack`
accepts (`ReadSizes`), and the length field holds the length of any such message (`LengthsFit`), which
`NewLengthFieldStreamPacket` sees to (`packet_lfstream.go:34`) and `encoding/binary` does. The sets of calls, channels, producers, nodes, types,
subscriptions, clients, listeners, users, connections and the numbers of everything counted are
arbitrary. Each module is laid out alike: named parts of the inductive invariant, small lemmas on
the operators, a lemma or a step per action, and a theorem per property closed by PTL.

| Property | Theorem | Module |
|---|---|---|
| `ChanExclusive`, `NothingLeftBehind`, `AsyncEndsOnce` | `ChannelsExclusive`, `CloseIsComplete`, `AsyncEndsOnceHolds` | `TableProofs` |
| `CountCoversEntries`, `ImplementsOnceTable`, `CrossTalkNeedsGiveUp` | `CounterCovers`, `TableImplementsOnce`, `CrossTalk` | `TableProofs` |
| `NoLostWakeup`, `NothingLostInOrder`, `DrainedMeansSent`, `BuffersKept`, `ConnFlushes` | `…Holds` | `WriteProcessorProofs` |
| `IndexConsistent`, `CountsSettle` | `…Holds` | `RemotesProofs` |
| `AttachedIsLive`, `ActiveIsCount`, `InOrder` | `…Holds` | `ServerProofs` |
| `ClusterEndsOnce`, `EventsReachListeners` | `RequestsEndOnce`, `EventsReachListenersHolds` | `RemotesProofs` |
| `NodesAgree`, `GateTablesHold` | `NodesAgreeHolds`, `GateTablesAgree` | `TableProofs` |
| `ServerAccounts` | `ServerAccountsHolds` | `ServerProofs` |
| `HubKnowsActors`, `SessionsHold` | `HubKnowsActorsHolds`, `SessionsHoldAlways` | `TransportProofs` |
| `TimersRunOnceInTime` | `TimersRunOnceInTimeHolds` | `TableProofs` |
| `AppsHold` | `AppsHoldAlways`, from `AppHoldsAlways` and `TreeHoldsAlways` | `AppProofs` |
| `OwnersHold` | `OwnersHoldAlways`, from `GnetOwnsAlways` and `RelayAlways` | `ConnectionProofs` |
| `ReadStops` | `ReadStopsAlways`, while `~Reused` | `ReadPathProofs` |

* **TableProofs**, requests. `Typed` (types, what a reader holds, which channels were
  made) is inductive by itself. `Owned` says who may refer to a channel: the pool
  once, or one live `Invoke`, possibly with a reader that is about to send; from it
  `ChanExclusive`. A call that passed the first closed check
  and not the second has an entry a later sweep meets or a recheck removes;
  `NothingLeftBehind` follows with `SweepAfterClosed`. `OnceInv` follows the *token* of an async
  call: exactly one of its entry, a taker or a finished run has it, whence
  `ClosureRunsOnce` and, while the send succeeded, `CallbackOnceIfSent`.
  Three more statements follow an entry through the table. `Closing` and `Alone` say who can still touch
  an entry; `Covers` that every entry that is counted has its unit in the counter, and every
  caller that will decrement has one of its own. The refinement maps an entry to `OnceTable`'s
  outstanding; `InTable` and the lemmas `TakesAway` and `TableTaker` show that each step that
  removes entries settles them, each that inserts enters a new one, and the others stutter.
  `CrossInv` follows a response from `deliver`'s take to its send: as long as no call has
  given up, the channel still belongs to the call it answers.
* **WriteProcessorProofs.** `NoLostWakeup` is inductive with the types alone: the push
  that makes the queue non-empty leaves its producer before the wake-up, and the
  writer waits only after it saw the queue empty. `NothingLostInOrder` is "wire,
  batch and queue, appended, are what was accepted", which each step preserves as
  an equation on sequences; it needs `WriteLoop`, which says where the writer may hold a batch,
  where a write has failed, and that a drained queue is empty and closing.
  `DrainedIsFinalHolds` is the action property behind `DrainedMeansSent`: nothing
  is accepted once the writer has declared the queue drained.
  `BuffersKept` is proved of the suite's specification, whose units run one at a time. `Places` says
  that a buffer offered waits once, or is in the batch, or was put back once; it holds of both
  processors, whose steps on the queue are of four kinds (`Offering`, `Takes`, `GivesBack`,
  `GivesBatch`). For the processor without a goroutine, `JobsInv` says which job may run when: Stop's job
  is pushed before anybody waits for it, the batch is empty between writes, and a finished
  processor has no work; `FlushKept` that a flush asked for and not aborted drops nothing; and
  `LeftInv`, the strengthening `QueuedHasJob` needs, that what a drain leaves behind while `again`
  is false has a job, a producer about to push one, or Stop.
  `ConnFlushes` is of a connection without a writer, where any sender, the callback of a write
  or the goroutine that closes may find itself draining. `StreamInv` is the types and five parts: one
  goroutine, the posted batch or its callback drains, and a queue that is not empty has it or is
  closing (`DrainInv`); who drops the queue or waits for it has stopped the writers, and one
  goroutine closes (`ClosersInv`); the packets queued are those written, in flight and waiting, or the queue was
  dropped, or a batch was lost and nobody drains any more (`OrderInv`); the first of these three
  holds on a connection nothing has happened to, where who shuts finds nobody draining
  (`FlushInv`); one goroutine stops the reader and one tells the handler (`OnceInv`).
* **ServerProofs**, shards. `MadeInOrder` and `Stages` tie connections, servers and the
  stages of readers and closers together; `SlotsSound` says what a slot of any
  `LogicServer`, also of one no longer in the table, may hold. `AttachedIsLive` and
  `ActiveIsCount` follow. For the order (`OrderInv`), each shard has one connection at a time
  that can still deliver, and the others hold no message (`OneServes`); a forwarder uses only
  connections of its client's shard (`Aimed`, from `SlotsSound`); a client's messages are
  ascending in a queue (`Ascending`), above what was processed and below what its
  forwarder works on (`Waiting`, `Behind`). So the messages of a client that wait all wait
  in one queue, in order, and `InOrder` is a step property. `Dial` waiting for the old reader is
  the step that needs `OneServes`, and the mutant that drops the wait breaks it.
* **RemotesProofs.** Of discovery: `Index` says that `typeMap` lists each member once, under
  its type; its lemmas are about removing one element of an injective sequence.
  `Told` and `Counted` give, for every callback and for the checker, what it still
  owes to the listeners and to the counter; the sum over receivers is a cardinality,
  and `CountsSettle` is the case in which nobody owes anything. Of requests: `Stopping` and `InTime` say what cannot happen before a `Stop`;
  until there was one, each record is held by one caller, lies in the table or is pooled once
  (`Own`, `Pooled`), and each request has one end before it (`Ends`). Of buses: an array of
  listeners is never written once a publication may read it (`FreshIsFree`, `ListChanged`);
  no two listeners of a list share an id or a code (`Listed`, `Given`); a publication has run or
  started as many tasks as listeners it reached (`Called`); and each step, those that fail included, keeps the
  subscriptions of the consumers among those NATS has, and the others among the failed (`SubscribedIfWanted`).
* **TableProofs**, gate. Of nodes: only the last connection may be open, and a process asks before it
  says anything else (`Lines`); as long as no steps overlapped that must not, a registration that stores is
  alone, whoever removes found his own connection (`Registering`, `Leaving`), and a node in one
  table is in the other or on its way (`Tables`). Of clients: the tables of users agree after each
  hook (`UsersInv`), the stage of a client says which tables may have it (`Connected`), and what a table still has
  of a closed client was put there too late (`Stored`, `Spoken`, `Logged`), an entry of the limit included
  (`ToldInv`: a call of `feedCallback` writes for a client it saw). A displaced session that is still
  heard is about to be removed by its own close or by a hook (`KickInv`, `Pursued`), so at rest there is none.
* **ServerProofs**, servers. For each connection, what its phase says of its socket, the table, its
  `closeOnce` and the handler (`Conn`), and what a `Stop` that did not expire has waited
  for (`Waited`). The counter is the connections counted in and not out, less those a close
  counted out before they were counted in (`Counted`): `KickConn` and `Stop` find a connection in the
  table one step before `OnConnect` counts it. A lemma (`Touches`) reduces every step that
  moves one connection to that connection and the counter.
* **TransportProofs.** Of actors: before a connection is authenticated its wire holds the password and
  nothing else (`SessionsInv`); `directory`, `actorOwner` and `connRegs` agree and name only
  authenticated connections (`HubInv`); a request number belongs to one actor, so a retry
  timer sends again only what the hub refused (`NumbersInv`). The core is `WantedInv`: the last word
  about an actor on the wire, or what the hub knows if the wire has none, is what the node
  wants, where a call under way counts from the moment it sends. With the wire empty
  that is the property. It holds of an actor until a call overlaps a resend (`overlapped`) or the hub
  reads an older connection's word after a newer one's (`overtaken`), which the property exempts.
  Of sessions: `Alone` says that two handlers are at one session, or one adds what is in the table
  already, only if their channels crossed; `Owned` that an object of the pool belongs to the
  session it is stored at, and to no other that is about to be stored; the counter follows. `ToldInv` is
  about a client that is gone: as long as the logic node has its session, a handler at it, or a
  message of it on the way, the news waits at the gate or is on a channel with no message of the client
  behind it. `SentInv` says that what a client was sent is delivered, or in a message that waits, or
  the client is gone. On a settled link nothing waits, and the three parts of `SessionsHold` are left.
* **TableProofs**, timers. A timer is in one place, a bucket or the hands of one process that adds it
  (`OnePlace`), and in none before it is made, after it ran or after a `Stop` that returned true
  (`Ends`): that is most of the property. The rest, that no timer runs before its time, needs the clock
  of the lowest wheel to be no later than now, hence that the bucket the runner gets has
  expired and still has the expiration it was queued with. `Onward` follows a bucket with an
  expiration from the add that set it to the delay queue, to `Poll` and to the runner: it is in one of
  these places only, until an add gives it another expiration (`overtaken`). `AddLoad` needs that
  the wheel it goes on to exists and that the last one has room for every delay (`WheelSizes`).

* **AppProofs.** Of an Application: its state says how far its actor is (`AppWay`), the components up to
  the one being started exist (`AppSpawned`), and `finishStart` tells `Start` what is true then and stays
  true (`AppResults`). A component that exists is watched, and its end is handled, or the message or the
  timer that will handle it is there (`AppFollowed`); a fault is marked when it is
  published, so a second publication is of a timer that had looked before `onStopped` forgot the marks
  (`AppOnce`). Of modules: the root knows those that run and those that are being added
  (`TreeKnown`); a module being added is the last child of its parent and has no children
  (`TreeFresh`), so that taking it back off leaves the list as it was; every list of children names, once,
  the modules whose parent is its owner (`TreeLists`), and nothing closed under children holds the
  root and not all the others (`TreeRooted`). `Released`, what a release takes, is the least closed set, and `DeleteFunc`
  a recursive function; that it has a value, and which, follows from the least number for which it had not.
* **ConnectionProofs**, the client. At most one connection is on its way in or open, or one goroutine is
  about to dial, never both (`Alone`): each status says which goroutines and connections there may be
  (`ByStatus`: while it is Reconnecting, one loop that works, or a dial that a loop waits for; while
  it is Connected, no loop that still does something). `c.conn` is the connection that is open, up to a
  `Close` that has taken it (`Held`); the loops stop by the `stopCh` of their time (`Stops`), and what a dial
  makes belongs to the engine a `Close` stops (`Engines`). All of it holds while `crossed` and
  `missedOpening` are false (`Clean`). Without the first, TLC finds two connections or a false status
  within the bounds of `connections`; without the second, a false status there, and with a second
  retry two connections: a loop a `Close` told to give up finds the client Connected by the handler
  it missed, and dials again.
* **ConnectionProofs**, the relay. The session the hub has of a node has registered and not ended (`Dead`), and
  every other that registered is dead or will be closed (`Replaced`); the connection a node uses is that
  session, or its `OnConnect` or its registration on the wire is still to come (`Known`). Connections
  are numbered as they are made, one per dial (`Ordered`, `OwnDials`), and nobody knows one not made
  (`Fresh`). A request is on one wire once, going up or down, until it is served (`Once`, `Unserved`); an answer
  is on a wire, in a channel or returned only after that (`Replied`, `Served`). The lemmas on queues and
  wires (`AppendHolds`, `TailHolds`, `Grown`, `Dropped`, `Cleared`) reduce a step to what one
  wire gains or loses. The theorem is of `GnetSpec` and `RelaySpec` side by side; in the suite
  one of them moves while the other rests.

* **ReadPathProofs.** The stream has its borders (`Ends`), where one packet ends and the next begins;
  that they exist, and that `Number`, `FlattenSeq` and `Split` are what their recursive equations say, follows
  from the least number (`NumberExists`, `FlatExists`, `SplitExists`). In the bytes between a border and
  any later place `Split` finds the packets whose ends have arrived, and `SplitSR` the first of them
  (`SplitFinds`, `SplitSRFinds`); neither meets a length field it refuses. So each read leaves what
  lies behind the last border (`SplittedCuts`, `PeeledCuts`), and what was accepted with what is about to be handed
  over is the packets up to there, until the reader fails or `Stop` comes (`Followed`). From there `handled`,
  the batch and the queue are what was accepted (`Flow`), and `Stopped` says who waited for whom: the
  consumer is done only with its queue empty and the processor closing, when nothing is accepted any more.
  Nothing is assumed of how the stream is cut, of limits and batches, or of what the peer sends but its size.

The proof of `OwnersHold` changed the model and the property. The handler of a connection that never opened
goes on after it has told who waits (`refused`), so no other handler runs before its
`startReconnect`; the model had let one. The exemption was a `Close` without a
connection while anything was under way; it is now one that found a handler about to publish, or whose
Closed such a handler stored over (`missedOpening`). And that at most one connection is open, stated
before without that exemption, holds for one retry, as the run has, and not for two.

What stays with TLC. Liveness under fairness and ENABLED are outside the prover's reach. What a
recursive definition computes for every input needs induction over data: where it is a single recursive function it
can be had from the least number (`DeleteFunc`, the ticks of the wheels, `Split`). The containers
(`ContainersHold`) and the conversions, packets and options (`ValuesHold`) rest on RECURSIVE operators or on several
functions of digits, whose powers the provers do not know, and are model-checked. With `Reused`
`ReadStops` is false, and `split_intact` shows how.

## Limits

* Data is identities: requests, buffers, messages and nodes have no content, except in `Packets` and
  `Conversions`, whose subject it is. The byte limits of a batch and the weights of members are not
  modelled.
* `RpcPending` has one table and one stop; the table of a `Server` and that of a
  `Client` are the same code.
* `GateShards` takes `kktcp` as external: that `Connect` may race with `Close` in its
  client is in `GnetClient`; that a node's process may die without `Stop` is not modelled, nor are
  several logic nodes (they share no state but the map) and the stop of the gate.
* `NatsDiscovery` leaves out the stop of the watching node, weight and status; the
  subscription delivers in order and drops at its limit, as nats.go does.
* NATS, gnet, gws, gorilla, `net/http` and protoactor are external and modelled from how the
  code uses them.
* Data races proper (reads without a lock of fields another goroutine writes) are
  modelled where the value matters (`count`, `status`, `sconn.conn`) as steps at any
  point; torn values are not possible for words and pointers on Go's platforms.
* Not modelled: the method table and wire format of `kkrpc` (filled before `Start`, read
  afterwards), network interfaces and connection ids, the actor framework over protoactor (names
  and forwarding), transport messages and protocol definitions (wire types), errors and metrics,
  codecs, logging, hashing and other utilities without an order of steps, the tools, and the
  business code of the demo and examples. `kkpool`'s `RefPool` (`refpool.go:18`) checks its count and
  then acts, so two `Put`s can put one object twice; nothing in the program uses it.
