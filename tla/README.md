# Pluster in TLA+

Pluster is a Redis Cluster proxy: clients speak to one endpoint, and the proxy
routes each request to the node that holds its slot. These modules model the
parts of it where replies can be lost, swapped or never sent, check them with
TLC on small instances, and prove the safety of seven of them with TLAPS for
every size: the response queue, the multiplexer, the two pools, the pub/sub
hub, the topology manager and the admission of clients.

## The system and its parts

Client connections live on gnet event loops (`pkg/engine`). All handlers of a
client, of the shared backend connections of its loop and of its dedicated
backend connections run on that loop, one at a time; goroutines reach it only
by queueing closures with `EventLoop().Execute`, which run in order.

| part | source | module | status |
|---|---|---|---|
| response queue of a client | `handler.go` 564-725 | `RespSlots`, `RespQueue`, `OrderedReplies` | modelled, proved |
| backend multiplexer | `backend_mux.go`, `handler_routing.go` 471-526, 553-715 | `BackendMux` | modelled, proved |
| client session: MULTI, WATCH, blocking | `handler.go`, `handler_tx.go`, `handler_blocking.go`, `handler_routing.go` | `ClientSession` | modelled |
| blocking connection pool | `blocking_pool.go` | `ClientSession` | partly |
| pub/sub hub | `pubsub_hub.go`, `handler_pubsub.go` | `PubSubHub` | modelled, proved |
| connection pool | `pool/pool.go`, `router.go` 257-296 | `Pool` | modelled, proved |
| pipelined pool, registry | `pool/pipeline.go`, `pool/registry.go` | `Pipeline` | modelled, proved; registry partly |
| topology manager | `cluster/topology.go`, hook of `server.go` | `Topology` | modelled, proved |
| router | `router/router.go` | `Router`, `Pipeline`, `Pool`, `Topology` | partly |
| hash slots | `proto/crc16.go` | `HashTags` | modelled |
| RESP codec | `proto/resp.go` | `RespParser` | partly (requests) |
| admission of clients | `handler.go` 265-315 | `Frontend` | modelled, proved |
| statistics, administrative commands | `stats.go`, `handler_routing.go` | `Frontend` | partly |
| server lifecycle | `server.go`, `main.go` | hook in `Topology` | partly |
| command table, configuration | `proto/command.go`, `config/` | none | not modelled |

A request of a client takes one of five ways: it is answered at once; it goes
through the multiplexer to one node, or to several whose replies are merged;
it goes to a goroutine of the router, which uses the pipelined pools and, for
ASK, the connection pool; it is held on a dedicated connection; or it goes to
the loop's pub/sub hub. On the first four the reply comes back through the
response queue. The topology manager supplies everyone with the slot map and
removes the pools of nodes that are gone.

## Modules

**RespSlots** holds the operators on the queue of response slots:
`TakeReady` is the loop that takes the ready slots off the front,
`FillInLoop`, `AccumulateSlot` and `AccumulateSub` are the three functions that
store a reply. A reply is represented by the request, and the sub-request, that
it answers.

**RespQueue** is one client with that queue. Dispatching, a closure, a reply in
`onTraffic` and the flush of the write accumulator are the actions; `owed` is
the set of holders of a slot index, which may answer in any order.
**OrderedReplies** is what the client relies on; RespQueue implements it with
`accepted <- nreq` and the requests of `out` for `delivered`.

**BackendMux** composes the response queues of several clients with the shared
connections of a loop: `pending`, `writeBuf`, the dialling queue, and per node
the commands on the wire, which it answers in order, with a value, MOVED or
ASK. `onTraffic` is a run of reply steps closed by `EndTraffic`; no other
handler runs in between. `Errors` is the set that holds the one list of closures
which `onClose` and `failDialing` queue: written so, and not with `SelectSeq`, it
can be reasoned about.

**ClientSession** is one client with its state (normal, multi, watch, watch and
multi, blocking), the commands it holds back, and its dedicated connections
with their pending callbacks. Handlers call one another, so each is an operator
from the loop's state `w` to the next. The multiplexer is reduced to a reply
that comes later (`MuxReply`).

**Pool** has a program counter per goroutine; a step is what runs between two
acquisitions of the mutex. A connection carries the replies not yet read from
it, so that what one borrower leaves behind reaches the next; one that `put` is
about to drop is forgotten (`Put`), as nobody reads from it again. **Pipeline** has
the callers (`execOnNode` with its retries), the channels, the loop of each
connection, and how often the node carried each request out. **PubSubHub** has
the two maps of the hub, the shared connection in its phases and the node's own
subscriptions (`NodeStep`, with `Acks` for what it acknowledges). Requests are
numbered, so that an acknowledgement is told from one that another client caused;
an entry remembers the request that made it, and a published message the requests
before it and the copies that the node sent of it. **Topology** has the manager's
refresh as the steps between its network calls, router goroutines that read the
snapshot, and an external cluster whose nodes have views of their own.

**HashTags** is `hashTag` beside the rule of the cluster. **Router** is one
call of `Execute` or `ExecScript`, or a client's whole SCAN loop. The call
becomes sub-requests, one per slot of its keys or one per master; each follows
MOVED and ASK and is retried on its own, and the results are merged when all
are done. The cluster is external: slots migrate key by key, and masters join
and leave, between any two steps.

**RespParser** is `ParseRequest` on a buffer that holds what has arrived. A byte
is a class and a number, and the digits of a length are one with the type byte
before them; a length fits an int64. **Frontend** has several event loops that
admit clients, parse what they write, submit to the goroutine pool and count
commands; the steps of a handler are its accesses to what the loops share. The
pool holds calls of the router, which end by themselves (`WorkerDone`), and
goroutines that wait for a dialled connection, which end when the loop of their
client takes it in between two handlers (`Register`) or the dial fails.

Some parameters make one configuration cover several kinds of behaviour, and are
chosen once, in `Init`: `kinds` of BackendMux is the set of redirections that the
nodes of a behaviour use, `use` of ClientSession is what the client sends, which
commands it does not pipeline with others (`serial`) and what may fail, `job` of
Router is the call, `plan` of Frontend what the clients write. `used`
of PubSubHub records which commands each client has sent so far, and `w.lapses` of
ClientSession what the session has let slip: a blocking command after WATCH
(`"watch"`), one left without its AUTH (`"auth"`), commands left held back
(`"held"`).

`MCBackendMux`, `MCClientSession`, `MCRouter` and `MCFrontend` define the loads,
uses, calls and plans that a configuration cannot write, `MCPubSubHub` the symmetry
of the hub's clients; the other modules are checked as they are.

## What the runs check

Runs that pass:

| run | shows |
|---|---|
| `resp_queue` | replies are written in order (`InOrder`), nothing ready is left at the front (`HeadNotReady`), the abstract specification is implemented, and every request is answered |
| `mux` | `pending` and the wire stay in step, each client gets its own replies in order and merged ones complete, ASKING stays next to its request, and every request is answered, over dials, redirections, lost connections and write buffers |
| `session` | six clients: two pipeline blocking commands (over failing connections; behind a password), one uses transactions, one WATCH, one WATCH and blocking commands, one pipelines WATCH. Order kept, nothing overtakes a blocking command, nothing of a transaction executed early, EXEC on the connection that watches, dedicated connections alive and the client's own, everything answered, what was held back included |
| `pool` | `numConns` is exact, no waiter is forgotten, a waiter is woken, a borrower reads its own replies |
| `pipeline` | a caller gets its own reply or an error and returns; no reply crosses a failed batch; removing the node loses only what the closing loop was collecting; a request is executed at most once per attempt |
| `hub` | the hub's maps and the state of each client agree, each SUBSCRIBE is acknowledged to who sent it, channels stay subscribed, every copy of a message that the node sends is written exactly once to every entry |
| `topology` | no trigger is lost, the snapshot converges, entry points and pools follow it |
| `router` | a successful merged reply is true of every key and every master, no group is refused as CROSSSLOT, SCAN goes through all keys, every call returns |
| `frontend` | requests are the same however their bytes are cut, every command is counted once, clients stay near their limit, a loop that waits for the goroutine pool goes on unless the loops' own dials fill it |

Runs that find a disagreement with what the repository says of itself, each
quoted under `findings` in `PROJECT.json`:

| run | disagreement |
|---|---|
| `mux_mixed` | a request redirected by ASK overtakes one redirected by MOVED, and replies are attributed to the wrong requests |
| `session_watch` | commands are held back until the watching connection opens, not until WATCH is answered, so that a later one overtakes an earlier |
| `hub_ack` | acknowledgements of a channel go to its entries, and UNSUBSCRIBE has removed the client's |

### Where the guarantees stop

Several properties hold only under a condition, which is part of the property or
of the `use` they are checked for. The modelled code does the following outside
it (lifting the condition makes TLC show it):

| condition | outside it |
|---|---|
| `serial` has `"exec"` | pipelined transactions share `multiBackend` (`handler_tx.go` 136, 309): `Answered` and `DedicatedConns` fail; the reply to an empty EXEC is written past the queue (163): `InOrder` fails |
| `serial` has `"reset"` | RESET drops a blocking command whose slot stays unanswered (`handler.go` 727): `Answered` fails |
| `serial` has `"watch"` (`WaitsForWatch`) | the window of `session_watch`; a MULTI in it is undone by the reply to WATCH (`handler.go` 418) |
| `fails` without `"loss"` in transactions and WATCH | `onBackendClose` clears the client's field and answers nothing, so that EXEC is left unanswered or runs without its watch (`handler.go` 447-454), and the closure that starts a transaction meets a nil context (`handler_tx.go` 309): `Answered`, `Guarded`, `DedicatedConns` fail |
| `fails` without `"dial"` with WATCH | a failed dial leaves later commands held back (`handler.go` 780): `Answered` fails |
| `moved = 0` in `Guarded` | a WATCH that is redirected drops the connection of an earlier one |
| no `"watch"` lapse, in `Guarded` | a blocking command between WATCH and MULTI ends in the normal state, and EXEC runs on a new connection without the watch (`handler_blocking.go` 16-48, 168-189) |
| `BlockingEnded`, in `Answered` and `InOrderAfterWatch` | MOVED of a blocking command to an address that does not resolve or register leaves what was held back behind it (`handler_blocking.go` 102-107, 119-124); a refused AUTH on its connection is reported to the slot of the last WATCH, and the client stays blocked (`handler.go` 369-376, 816) |
| `~Stuck`, in `Served` | goroutines that wait for dialled connections fill the pool in which the loops that should take them in wait for a place (`handler.go` 780, `handler_blocking.go` 126, `handler_tx.go` 298) |
| lengths below 2^63, in `SameRequests` | a longer length wraps (`resp.go` 797) |
| pool not closed, in `Accounting` | `Get` dials after `Close` has set `numConns` to 0 (`pool.go` 101) |
| node not removed, in `Returns` | a batch that meets the closed channel is never answered, a sender may panic (`pipeline.go` 109, 189) |
| no UNSUBSCRIBE, in `StillSubscribed` | one client's UNSUBSCRIBE ends the node's subscription for all (`pubsub_hub.go` 84) |
| `Tracked(c)`, in `Indexed` and `OnlySubscribed` | UNSUBSCRIBE without arguments and RESET leave records of the client behind (`pubsub_hub.go` 287) |
| no `"bare"`, in the second half of `OnlySubscribed` | SUBSCRIBE without channels makes the client a subscriber of nothing (`pubsub_hub.go` 46) |
| only SUBSCRIBE, in `SubscribeAcknowledged` | of a name that is already in the map PSUBSCRIBE makes no entry (`addSub`, 253), and the entry's kind decides which acknowledgements it gets; for UNSUBSCRIBE see `hub_ack` |
| copies the node sends, in `DeliveredOnce` | a pattern's entry gets the copy for the channel and one for each pattern of the node, the hub's own included (`pubsub_hub.go` 211-249): the property counts what is sent, so a client may get several copies of one message |
| no ASKING refused, in `OwnReply` of `Pool` | the reply of the command behind it stays on the connection for the next borrower (`router.go` 286) |
| no error reply, in `KeyedReplyTrue` and `AllMastersReplyTrue` | DEL, EXISTS, DBSIZE and KEYS leave out a node that answered an error (`router.go` 616, 959) |
| `resent`, in `KeyedReplyTrue` | a DEL or MSETNX that is sent again after it was carried out answers for the second time only (`router.go` 205) |
| no node failed, for SCRIPT LOAD in `AllMastersReplyTrue` | one success is the answer though other nodes lack the script (`router.go` 1000) |
| no nested or empty tag, in `GroupsOfOneSlot` | `hashTag` and the cluster hash different parts of the key (`crc16.go` 55) |
| `~left`, in `ScanComplete` | the indices of the masters shift, and keys are passed over (`router.go` 369) |
| `Fits`, in `ScanComplete` and `Replies` | a cursor loses its high bits, keys are passed over or the loop never ends (`router.go` 403) |
| `rejected` and the other loops, in `ClientsBounded` | they are part of the bound: a refused connection is counted out (`handler.go` 288), and loops compare before they count (266); `max-clients` itself (`config/replica-reads.conf` 22) is not kept |
| no node leaves, in `Converges` | a node that was reset lists itself alone and becomes the only entry point (`topology.go` 332) |

## Bounds

- `RespQueue`: 3 requests, fan-in of up to 2: enough for a slot to be filled
  before, after and between others and for a merge in the middle. The theorems
  remove the bound.
- `BackendMux`: two clients with one request each (one may fan out to both
  nodes), or one client with two, alone; two nodes of which one is a replica; one
  redirection per request (the code allows `maxMuxRedirects`), MOVED or ASK in a
  behaviour, both in `mux_mixed`. More requests of one kind only lengthen queues
  that are handled from the front.
- `ClientSession`: 4 requests with blocking commands, so that two are held
  back behind one; 5 with WATCH, with and without blocking commands, which fits WATCH, MULTI, a command, EXEC and one
  more; 6 with transactions, which fits two of them; two nodes; one MOVED; one
  idle blocking connection.
- `Pool`: 3 goroutines over 2 connections, so that one waits; one refused ASKING.
- `Pipeline`: 2 callers over 2 connections with batches of 2 and channels of
  capacity 1, so that callers share a batch or use two connections; the code's
  retry counts reduced to 1 after errors and 2 after CLUSTERDOWN, keeping their
  order.
- `Router`: 3 masters, 2 slots, up to 3 keys of every shape of tag; 2
  redirections, 1 retry; a cursor of 4 bits with 2 for the index (64 and 16 in
  the code), so that some nodes' cursors fit and some do not; 3 events
  (`MaxEvents`: failed attempts, errors of nodes, changes of the cluster).
- `Frontend`: 2 loops; 4 connections at limits of 1 and 2, or none and 1; up to
  4 messages per client, cut anywhere; a goroutine pool of 1, so that one call or
  one dial fills it; 2 turns of the clock.
- `PubSubHub`: 2 clients (symmetric), 1 channel and the pattern `*`, 3 requests, 1
  message: enough for one client to act while another's request is under way. The
  theorems remove the bounds.
- `Topology`: 3 nodes, one slot, 2 changes of the cluster, 1 request of 1
  redirection.

Deadlock is checked for `Topology`, whose cluster never stops. In the others it
is off because the system may stop: the clients have sent what they send and
everything is answered (that it is answered is a property of its own).

## Fairness

Weak fairness, and only for steps something in the process or a node is bound
to take: the event loop runs the closures queued on it and finishes the
`onTraffic` it is in; goroutines of the router, of the pipelined connections and of
the pool keep running, and their dials end by their timeouts; in `Topology` the
refresh loop runs (it has a ticker), crashed nodes come back and views spread; in
`Frontend` each loop finishes its handler. The one strong fairness is that of a
goroutine waiting on `Pool`'s channel of tokens: Go hands a channel's values to its
receivers in the order they came, so a waiter cannot be passed over forever.
Clients are never required to send, and failures are never required to happen.

One assumption is about the nodes and not about the code: a node that has been
asked answers, or its connection is lost. No read of the proxy has a deadline
(`read-timeout` is parsed and not used), neither in the multiplexer and on the
dedicated connections nor in the pools, the router and the refresh; without the
assumption `Answered`, `Woken`, `Returns`, `Replies`, `Converges` and `Served` could
not be promised.

## What is proved

Each theorem holds for every value of the constants that satisfies the named
assumption of its module. `X` stands for `Spec => []X` below.

| module | assumption | theorems |
|---|---|---|
| `RespQueueProofs` | `BoundsAssumption` | `TypeCorrect` (`TypeOK`), `RepliesInOrder` (`InOrder`), `FrontOfQueueWaits` (`HeadNotReady`), `Refinement` (`Spec => ImplementsOrderedReplies`) |
| `BackendMuxProofs` | `MuxAssumption` | `AskingKept` (`AskingAdjacent`), `PendingKept` (`Unmixed => PendingMatchesWire`), `OwnReplies` (`Unmixed => OwnRepliesInOrder`) |
| `PoolProofs` | `PoolAssumption` | `ConnectionsCounted` (`Accounting`), `WakeupsKept` (`NoLostWakeup`), `RepliesOwn` (`OwnReply`) |
| `PipelineProofs` | `PipelineAssumption` | `OwnReplies` (`OwnReply`), `RequestsKept` (`NoRequestLost`), `ExecutionsBounded` (`RetriesBounded`) |
| `TopologyProofs` | `TopologyAssumption` | `EntryPointsKept` (`EntryPointsFollow`), `TriggersKept` (`TriggerNotLost`), `PoolsGone` (`PoolsRemoved`) |
| `PubSubHubProofs` | `HubAssumption` | `IndexesAgree` (`Indexed`), `SubscribedClients` (`OnlySubscribed`), `NodeSubscribed` (`StillSubscribed`) |
| `PubSubReplyProofs` | `HubAssumption` | `WrittenOnce` (`DeliveredOnce`), `SubscribesAcknowledged` (`SubscribeAcknowledged`) |
| `FrontendProofs` | `FrontendAssumption` | `ClientsWithinLimit` (`ClientsBounded`) |

But for `TriggerNotLost`, none of the properties is inductive as it stands. Each module has an inductive
invariant and a theorem that it holds (`Invariance`, `MuxInvariance`,
`PoolInvariance`, `PipelineInvariance`, `TopologyInvariance`, `MapsInvariance`,
`NodeInvariance`, `FrontendInvariance`); lemmas about the operators come first,
then one per action. The invariants were checked with TLC before they were
proved.

**Response queue.** What is written next depends on slots, and slots are filled
by holders of indices taken long before. `IInv` says that the replies written,
those in the accumulator and the slots are, end to end, the requests `1..nreq`;
that the front slot is not ready; and that whoever holds an index holds one
already passed, which will be ignored, or the one at its request's place. The
refinement uses that each step either appends nothing to `out` or the next
requests in line.

**Multiplexer.** The invariant has three layers. `MuxInv`: every entry that is
not skipped names the request and the slot of one client, and in the dialling
queue, the write buffer and the wire each ASKING stands directly before its
request (`Paired`). That is enough for `AskingAdjacent`, whatever the nodes
answer. `WireInv`: the commands of `pending` are those of the wire followed by
those of the write buffer. `sendAsk` writes past the buffer, so this is kept only
if the buffer is empty whenever `sendAsk` is used; it is when the nodes of a
behaviour do not send both MOVED and ASK (`Unmixed`). The condition is the
code's, not the proof's: `mux_mixed` shows what happens without it. `ReplyInv`:
no two entries wait for the same sub-request, no sub-reply is both stored in a
slot and still waited for, the slots of a connected client go on where what was
written to it ends, and every queued closure answers the request of its slot.
Hence a fan-in of two that has two sub-replies has both, and is merged complete.

**Connection pool.** `Accounting` and `NoLostWakeup` are inductive together with
the types: a full channel holds `MaxSize` tokens, and `Accounting` bounds by
`MaxSize` the connections that could be had, so a token that is dropped is not
needed. `CountMoves` says what one goroutine's move does to the number at a set
of places. `OwnReply` needs more: `Exchange` says, for each place of a borrower,
what it has read and what is unread on its connection, and `Idle` that a
connection goes back whole and empty.

**Pipelined pool.** `QueueInv` says that a connection's channel and batch hold
exactly the callers that wait on it, each once, and `LoopInv` that the wire holds
what the batch still waits for, and nothing between batches; so replies can be
given out by position. `ExecInv` bounds the executions before and after an
answer: one counter serves two limits, and what is kept is that attempts whose
fate is unknown are `MaxRetry` at most. `PipelineAssumption` asks that no caller is
called `None` or `Err`, which stand for the absence of a reply and for an error.

**Topology manager.** A node lists itself (`SelfListed`), so no snapshot that was
read is empty and the entry points never run out; while `onTopologyChanged` runs,
a pool of a node that left is one the hook has yet to be called for (`PoolsInv`).

**Pub/sub hub.** `MapsInv` relates the two maps, the clients' states, the requests
that wait for the connection and those on their way. A client has one entry for a
name at most (`OneEntry`), so that removing the first of them removes all; and what
is said of one client is kept whatever the others send (`Kept`). `NodeInv` builds
on it. `Delivered`: of each message, what was written to an entry and the copies
still unread are together what the node sent. It needs that the unread copies are
of messages published (so a new one starts from nothing) and that no entry is
younger than a message it is counted for. `Expected`: for each request that a
client waits for, one that only sends SUBSCRIBE, the request or its
acknowledgement is on its way and the client has the entry that will get it.

**Admission of clients.** `CountExact`: the count is the number of clients less
the refused connections. `RoomLeft`: the clients, with the loops that have
compared but not yet counted, are within the bound. A loop enters that state
only if it saw the count below the limit, and then even all loops being in it
exceeds the bound by nothing. `HoldsNew`: the connection such a loop is about to
count is new and its own, so no two loops count one connection.

`PipelineProofs`, `PubSubReplyProofs` and `BackendMuxProofs` bring in the library's
theorems on finite sets at their end. Where earlier lemmas need a fact of theirs it
is a hypothesis (`SetFacts`, `PlacesFact`), discharged there before the theorems.

Only model-checked:

- liveness (`Answered`, `Woken`, `Returns`, `Converges`, `Replies`, `Served`), which is
  out of the prover's reach, as is `ENABLED`;
- `SameRequests` of `Frontend`: what a parser does with every buffer is an induction
  over data;
- `Counted` of `Frontend`: it is a sum over loops, a fold with an operator as
  parameter, of which the provers cannot use the library's facts;
- `Router`: its groups, merges and cursors are folds, sums and selections of the
  same kind, over results of every shape;
- `ClientSession`: handlers call one another through a recursive function that
  drains the held-back commands, and through operators passed as parameters.

## What is not modelled

Bytes of replies: `ScanValue`, `ParseValue`, the `Reader` and the encoders; a
handler gets whole replies. Time: timeouts and backoffs are steps that may
happen. HELLO, AUTH, CLIENT, CLUSTER, INFO and most of PROXY, which write one
immediate reply. Read modes (which replica is chosen), except that a replica's
connection starts with READONLY. CRC16 itself, which is a parameter of
`Router`. `ExecPipeline`, which nothing in the proxy calls. `Server.Start` and
`Stop`, which run once and in order. The CPU and memory figures of the
statistics; that commands which were held back are counted twice
(`handler_blocking.go` 212 dispatches them again, and `handler_routing.go` 20
counts each dispatch). Several clients on one blocking pool. The command table
and configuration, which are constants after start. Errors of `conn.Write` on
the loop, which the code ignores. A node that accepts a request on a shared
connection and never answers: the code has no timeout there.

The modules meet at interfaces instead of being composed: `ClientSession` sees
the multiplexer as a reply that comes later, `Router` sees `execOnNode` as an
attempt that is answered or fails, before or after it was carried out.
