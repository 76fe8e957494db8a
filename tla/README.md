# originnet: TLA+ models, checks and proofs

originnet is a Go framework for game and back-end servers. A process is a
*node*; a node runs *services*; a service is an event loop that handles RPC
requests, answers, timers and events; below a service hangs a tree of *modules*.
Nodes of a subnet call each other's services over TCP.

The repository has almost no tests of its own (only the ring queue and the
timers have some), and most of its code runs in several goroutines. This
directory models that code in TLA+, checks the models with TLC on small
instances, and proves with TLAPS, for every number of goroutines, calls, timers
or elements and every channel capacity, every safety invariant that the passing
runs check, the two refinements and the action properties that are not about
progress (one theorem, that of the cron search, has a hypothesis about the time
zone, and one about the number of goroutines, section 6). Liveness is
model-checked.

`PROJECT.json` lists the components, the runs, the mutants, the source lines of
every definition, the findings, the hazards and the theorems.

## 1. Inventory

| Component | State | Operations | Interacts with | Hard because | Right when |
|---|---|---|---|---|---|
| TCP connection, `network/tcp_conn.go` | socket, `writeChan`, `closeFlag`, mutex | `Write`, `Close`, `Destroy`, writer goroutine | agents write to it; server and client close it | the writer runs without the mutex; a channel may be closed once and not sent to afterwards; a peer may stop reading | no panic, no send that blocks under the mutex, order kept, a graceful close flushes, the writer ends |
| Framing, `network/tcp_msg.go` | width, order and limits of the length field | `SetMsgLen`, `SetByteOrder`, `Write`, `Read` | called by the connection | limits at the edge of the field's width; bytes arrive in pieces | the reader gets what was written |
| TCP server, `network/tcp_server.go` | listener, `conns`, two wait groups | `Start`, accept loop, agents, `Close` | makes connections and agents | `Close` races the accept loop and the agents | no write to a nil map, the limit holds, `Close` ends and is complete |
| TCP client, `network/tcp_client.go` | `conns`, `closeFlag`, wait group | `Start`, dial, reconnect, `Close` | `rpc.Client` embeds it | a dial may succeed after `Close` | as above |
| Remote RPC, `rpc/client.go`, `rpc/server.go` | `pending`, sequence numbers, the connection | `Go`, `AsycGo`, `Run`, `RpcAgent.Run` | the TCP client and server, the handler of the called service | replies overtake, requests share one parameter object, the connection breaks | a reply completes its own call, callbacks run, calls of one caller keep their order |
| RPC handler and service loop, `rpc/rpchandler.go`, `service/service.go` | request and answer channels, methods, loop goroutines | go, call, async call, `Run`, stop | services call each other, themselves and other nodes | a synchronous call blocks the loop; the select chooses freely; several loop goroutines stop | calls return, callbacks run once, `OnRelease` is last |
| Cluster configuration, `cluster/*.go` | maps of subnets, nodes, services and clients | `InitCfg`, `Init`, `GetRpcClient` | the RPC handler routes through it | tables built from several files, private services | a route leads to a node that offers the service and has a client |
| Node, `node/node.go`, `service/servicemgr.go` | set-up services, `sigs`, `closeSig` | `Setup`, `Init`, `Start` | configures the cluster, starts and stops every service | services named in the configuration, set up twice or not at all; signal handling | what is routed here is set up, installed once, initialised before it starts; a signal stops the node |
| Timers, `util/timer/timer.go`, `service/module.go` | timers, dispatcher channel, `mapActiveTimer`, `mapActiveCron` | `AfterFunc`, `CronFunc`, `Stop`, `ReleaseModule` | the service loop runs the callbacks | firing races stopping | released modules have no live timers |
| Cron expressions, `util/timer/cronexpr.go` | none | `NewCronExpr`, `Next` | crons | carries between units | the next match, and an end |
| Module tree, `service/module.go` | `child`, `descendants`, ids | `AddModule`, `ReleaseModule` | services | `OnInit` re-enters and fails | the maps agree |
| Ring queue, `util/queue/queue.go` | `buf`, `head`, `tail`, `count` | `Add`, `Peek`, `Get`, `Pop` | `SyncQueue` | full and empty look alike | first in, first out |
| Database executors, `sysmodule/DBModule.go` | executor channels, result channels | `SyncQuery`, `SyncExec`, `AsyncQuery`, `AsyncExec`, `Get`, `OnRelease` | any goroutine | test of the length and send are not atomic; timeouts; two-part answers | order per hash, own results, everything ends |
| Database connections and rows, `sysmodule/DBModule.go` | open connections and transactions; rows of a result, their names and index | `Query`, `Exec`, `Begin`, `Commit`, `Rollback`, `Ping`, `UnMarshal` | executors, any goroutine | failure between taking and returning a connection; a scan buffer shared by rows; an index kept between calls | no connection lost, a row decodes into what it belongs to |
| Redis module, `sysmodule/RedisModule.go` | task channel, pool, `RetError`; the data | `Go...`, `Get`; string, hash, list and sorted set operations, transactions, time to live | any goroutine | full channel, exhausted pool, interleaved connections, lost replies | own results, order, snapshots, whole writes |
| Event processor, `event/event.go` | `eventChan`, made on first use | `SetEventChanNum`, `GetEventChan`, `NotifyEvent` | the service loop receives; anybody sends, handlers too | lazy creation; a handler that sends into the channel it drains | one channel, in order, senders return |
| HTTP client pool, `sysmodule/HttpClientPoolModule.go` | one channel per request | `Init`, `SyncRequest`, `Get` | net/http | a timeout races the late answer | answered once, with the whole body or an error |
| Synchronised queue, `util/queue/syncqueue.go` | ring queue, `sync.RWMutex` | `Add`, `Peek`, `Get`, `Pop`, `RLockRange`... | any goroutine | a read lock is taken twice while a writer waits | a range is a snapshot, order kept, locks given back |
| Concurrent maps, `util/umap` | striped maps with a lock each | `Set`, `Del`, `LockSet`, `TestAndSet`, `Len`, `ClearMap`, ranges | any goroutine | operations on the whole map go stripe by stripe | no lost update, a clear leaves nothing older than it |
| Coroutine helpers, `util/coroutine` | the number of restarts left | `Go`, `GoRecover` | | restart after a panic | the number given |
| TCP service, semaphore, logging, codecs, examples | see section 7 | | | | |

What `PROJECT.json` calls hazards is the list of what a test would hardly reach
in this code, each at its line; every property below was chosen for one of them.

## 2. Modules

Each module starts with a comment that says what it models and what it leaves
out; variables and actions carry the names of the source.

| Module | Models | Run |
|---|---|---|
| `Pipe` | abstract: an ordered pipe that can be shut | |
| `TCPConn` | the write side of a connection, implementing `Pipe` | `Network` |
| `TCPServer`, `TCPClient` | accept loop, agents, `Close`; dial, reconnect, `Close`, restart | `Network` (`MCNetwork`) |
| `RpcRemote` | composes `rpc.Client`, `RpcAgent` and `RpcHandler` over one connection | `RpcRemote`, `RpcRemoteStrobe`*, `RpcRemoteReconnect`* (`MCRpcRemote`) |
| `ServiceRpc` | composes the loops, bounded channels and local calls of the services of a node | `ServiceRpc`, `ServiceRpcSelfAsync`* (`MCServiceRpc`) |
| `ModuleTimer`, `EventProcessor` | timers, crons and their bookkeeping; the event channel and the event arm of the loop | `Loop` (`MCLoop`) |
| `Node` | the main goroutine: signals and stop | `Node`* |
| `ClusterCfg`, `NodeSetup` | configuration tables and routing; `NodeSetup` extends them with `Setup`, `Init` and `Start` of the services | `Safe` (`MCSafe`) |
| `ModuleTree`, `MsgParser`, `HttpClientPool`, `CronExpr` | the tree of modules; framing; requests, answers and timeouts; parsing of cron fields and `Next` | `Safe` |
| `Fifo` | abstract: the queue that the comments of `queue.Queue` describe, panics included | |
| `RingQueue` | the ring buffer, implementing `Fifo` but for the panics | `Safe` |
| `RWMutex`, `SyncQueue`, `UMap` | Go's lock as the code uses it (external); the queue and the maps behind it | `Safe` |
| `DBExecute`, `DBTx`, `DBRows` | executors; connections, transactions, `Ping`; scanning and decoding rows | `DB` (`MCDB`) |
| `RedisTask`, `RedisData`, `RedisZSet` | task channel, routers, pool, results; string, hash and list commands and transactions on interleaved connections; sorted sets | `Redis` (`MCRedis`) |
| `Coroutine` | `Go`, `GoRecover`, the recovery of `F` | `CoroutineForever`* |
| `ProofLemmas` | lemmas that the proofs share: counting, queues, induction over the numbers, division, orders | |
| `NetworkProofs` | proofs about `TCPConn`, `TCPServer`, `TCPClient`, and `NodeSetup` with `ClusterCfg` | |
| `RpcRemoteProofs` | proofs about `RpcRemote` and `MsgParser` | |
| `ServiceRpcProofs` | proofs about `ServiceRpc` | |
| `LoopProofs` | proofs about `EventProcessor`, `ModuleTimer`, `ModuleTree` and `CronExpr` | |
| `QueueProofs` | proofs about `RingQueue`, `SyncQueue` and `UMap` | |
| `SysmoduleProofs` | proofs about `HttpClientPool`, `RedisTask`, `RedisData` and `RedisZSet` | |
| `DBProofs` | proofs about `DBExecute`, `DBTx` and `DBRows` | |

\* the run shows that the code does something else than one of its comments
or messages says (section 5).

`MCNetwork`, `MCLoop`, `MCSafe`, `MCDB` and `MCRedis` put parts side by side that
share no state. A step of one part requires the others to be as they were
created, so that the reachable states are the union, not the product, of those
of the parts. No action with a fairness condition is enabled in a part that is
as created, so one part's fairness takes no behaviour away from another.

How state and actions correspond to the code: a goroutine is a program counter;
a step is a stretch of code that no other goroutine can see the inside of (code
under a mutex is merged, a channel operation, a socket operation or a test whose
result is used after other goroutines may have run is a step of its own). Data is
reduced to what the properties tell apart: a frame, a value or a statement is a
model value or the number of the call it belongs to. What the environment will
do to a call (the database refuses it, the argument does not encode) is its
*fate*, chosen when the call is made. Code outside the repository (sockets,
package time, the Redis and SQL servers, agents) is marked external in the map.

Operators whose names say what is wrong with them (`CloseChanUnguarded`,
`RegisterLate`...) are not part of the specification: each is a
definition of the model with a plausible mistake in it, and putting it in the
place of the real one makes TLC report the property it is listed with.

## 3. What the runs show

* **Network.** The connection: two goroutines call `Write`, `Close` and `Destroy`
  against the writer, with three frames and two slots: the channel fills, a sentinel
  queues behind frames, both goroutines are inside a call. `NoChannelPanic`: no
  order of calls and failures sends on a closed channel or closes it twice.
  `SendHasRoom`: the send that follows the length test never blocks with the mutex
  held. `GracefulFlush`: a writer that ends without an error has written everything
  accepted. `PipePromise`: refinement of `Pipe`. `CloseEndsWriter`: after `Close`
  the writer ends, unless the peer stops reading and nobody calls `Destroy`. The
  server, three connections over a limit of one: `ServerInv`: the set dropped by
  `Close` is not written (`NoNilMapWrite`), the limit holds (`AgentsBounded`), and
  when `Close` has returned nothing more is accepted and every agent has had its
  `OnClose` (`CloseIsComplete`). The client, three dialling goroutines and two
  starts, with and without `AutoReconnect`: `ClientInv`: the same for its map
  (`NeverFatal`), `Close` can reach every connection in use (`RunningIsTracked`) and
  leaves nothing running (`StoppedIsQuiet`). `CloseReturns`, `BacklogServed`: the
  end of `Close`, and progress of accept.
* **RpcRemote.** Two callers, two calls of every kind and fate, one service
  goroutine, a connection that is dialled while calls are made and may break.
  `PendingInv`: types, and a reply finds its call registered (`ReplyFindsCall`).
  All requests of a method are decoded into one object and answered from another,
  and nothing resets either, so the model follows one field of them, any one, which a
  request may send or omit and a method may assign or not. `ServingInv`: a request that
  had the objects to itself is answered with its own value if it sent the field and the
  method assigned it, and otherwise with nothing but what requests that ran before it
  left there (`ReplyIsOwn`); while no call asks for mutiCoroutine, every request has them
  to itself (`OneAtATime`); the requests of one caller are served in order
  (`CallerOrder`). So the property does not say that sharing is harmless: it says what
  the sharing can do. Requests that overlap, through mutiCoroutine, race for the
  objects, and nothing is promised of their answers.
  `CallbackRuns`: answered asynchronous calls run their callback.
* **ServiceRpc.** Three services, A calling B in every way, B calling C and
  itself, C (two loop goroutines) calling itself; queues of two, so that they
  fill; a stop at any time. `LoopInv`: types, a call to another service runs its
  method at most once and, unless its arguments are nil, its callback at most once
  (`OtherOnce`), `OnRelease` after the last goroutine (`ReleaseIsLast`).
  `ProgramOrder`: a Go takes effect before the answer of a later Call.
  `CallsComplete`: synchronous calls return and callbacks run, and `StopCompletes`:
  the stop ends, each with its exceptions stated: a goroutine that waits on a
  service that had stopped before (`Excused`), and services that wait for each
  other in a cycle of synchronous calls or full queues (`Jammed`), which the code
  does nothing to prevent: the loop that would drain a queue is the one that sends.
* **Loop.** Three timers, one cron, a dispatcher channel of one slot so that senders
  wait. `TrackInv`: a cron's handle is its live timer, also while a callback runs;
  `mapActiveTimer` holds no finished one; a stop before the timer is due is final,
  and only a later one lets the loop come to the cleared callback (`StopIsFinal`);
  after the release only plain timers, and timers re-armed by a cron that had run,
  are armed (`ReleaseDisarms`). `TimerRuns`: a timer that is not stopped runs.
  Events, one sender and two loop goroutines with handlers that send: `EventInv`:
  everybody uses one channel whoever asked for it first (`OneEventChan`), and takes
  from it in order (`EventsInOrder`). `NotifyReturns`: a send returns, unless there
  was no channel yet, the service has stopped, or every loop goroutine is itself
  inside a send (`SelfSending`).
* **Safe.** Parts with safety properties and small state.
  `TreeInv` (three modules): children are registered where the service looks, a
  release by the parent finds what it needs, and what is registered is reachable
  unless an `OnInit` failed.
  `NodeInv` (every configuration of two subnets and three node ids, with every
  order of up to three calls of `Setup`): a route leads to a node that offers the
  service (`RoutesToOffers`) and to a client (`RouteHasClient`), a local route to
  a service this node installs (`LocalRouteIsInstalled`) and that is started
  once the node is, if it was set up before `Init` (`LocalRouteServed`); only
  configured services are installed, the first object of each name and after its
  `OnInit` (`InstalledInOrder`); `OnInit` runs for everything set up before `Init`
  and for nothing set up later (`InitRunsForAll`).
  `FrameInv` (bytes of two values, so the three widths hold lengths to 1, 3 and 15
  and every limit is crossed): for every order of settings the reader gets what
  was written.
  `HttpInv`: the answer is returned by one `Get` or waits in the channel,
  also when it comes after a timeout
  (`AnsweredOnce`), an answer without an error has the whole body (`NoErrIsWhole`),
  and the goroutine of the request never blocks (`SendFindsRoom`).
  `RingInv`, `FifoPromise` (smallest length 2, up to 5 elements): two doublings,
  both shrinkings, wraps; refinement of `Fifo`. `Fifo` panics where the comments do
  (`Peek` and `Pop` of an empty queue, `Get` of an invalid index) and the code returns
  nil there; the refinement mapping (`DocRes`) takes that nil for the panic, so what is
  shown is that this is the only difference, that it occurs for exactly those calls,
  and that they leave the queue as it was (section 5).
  `SyncInv`: a range sees one state of the queue (`RangeIsSnapshot`), order is kept
  (`SyncFifo`), every lock held belongs to somebody inside an operation
  (`LockAccounted`), and the only way to stand still is a range whose second read lock
  waits behind a writer (`JamIsRangeAndWriter`).
  `MapInv`: updates under the lock are not lost (`NoLostUpdate`), a walk counts
  or visits each key that stays and none that never was (`WalkIsRegular`), a clear
  leaves nothing older than it in the stripes it has passed (`ClearIsComplete`), and
  only `ClearMap` with too few stripes can panic (`PanicsOnlyInClear`).
  `SearchInv`, `SearchEnds` (two-second minutes, two-minute hours, two-hour
  days, three-day weeks, two months, one with a leap day): `Next` returns the next
  match and ends. It only asks package time for fields and sums, so the lengths of the
  units are parameters, and each carry happens within a few steps.
* **DB.** Two requests of every kind on two executors with one slot each, so that
  the test of the length and the send come apart; a release at any time.
  `ResultInv`: `Get` returns its own result, and statements of one non-negative hash
  keep their order (`HashOrder`). `CallersReturn`: the `Get` of a
  `SyncQuery` returns, and so does whoever submits a statement, until a release. It leaves
  out the `Get` of a `SyncExec`: one that takes the error of a failed statement then
  waits for ever for a result, and for a successful one no error ever comes, so that it
  always times out (and `ResultInv` has nothing to say of its outcome). `ExecutorsStop`:
  the executors end after a release, with functions left in their channels.
  Two sessions on two connections: `TxInv`: every connection is free or owned by a
  statement or an open transaction on every error path (`ConnectionsAccounted`), and
  what panics is a use of a nil object (`PanicsAreNil`); most of what is accounted for
  there is database/sql's, which is external, and the code's part is which path ends
  what it began. `RowsInv`, for results of
  different shapes with NULLs and names that differ in case only: a list without an
  error is what the server sent, or its beginning if the connection broke
  (`ListIsBeginning`); rows decode to their own values, except for columns of equal
  names (`ListRowsAreOwn`) and after a NULL of a `DBResult` (`ResultRowsAreOwn`);
  only a second `UnMarshal` of a list panics (`PanicsOnReuse`). The exceptions are
  defects of the code (section 5), which the property does not catch but bounds.
* **Redis.** Three calls, two clients, one router, two task slots, a pool of one:
  `TaskInv`: `Get` returns its own outcome and one router keeps a client's order
  (`QueueOrder`). `GetReturns`: for accepted tasks. The clients use a `RetError` for one
  call each; a second Go on one before the first `Get` overwrites its channel, so that
  the `Get` returns the other call's outcome, which no property speaks of.
  Operations on two keys, repeated ones in the slices, over two
  connections that may break: `RepliesInv`: types; success is reported only for
  what happened (`NilIsApplied`), except by `SetStringJSONExpire` and by the transactions
  of `SetMuchStringExpire` and `SetMuchHashJSON` when the server refuses their
  commands inside `EXEC` (`DoExecRefused`); reads of several keys are snapshots
  (`SnapshotReads`), where `GetMuchString` does not tell a key of another type from a
  missing one and `DelMuchString` calls a key it was given twice not deleted; values of
  one push arrive together (`PushedTogether`); and what a sorted set operation returns
  describes the set, in order, as it was at one moment of the call (`ZSetReads`). The
  text of a member counts: `makeListJson` only concatenates, so a member that is a list
  (`1,2`) is listed as as many elements as it has values, or refused when scores are
  asked for, and of a range with a member that is neither JSON nor a list nothing is
  promised (`Elements`: two members that are JSON, one that is two values, one that is
  none). `WholeWrites`: transactions happen whole.

Further bounds of `Redis`: keys of another type (`Other`) exist only from the start,
for one of the keys (`OtherKeys`), and then with two operations (`Bounded`); goroutines
are alike, so the first step of all is of one of them (`FirstStarts`, `FirstClient`). A
text that `json.Unmarshal` refuses is not told from another.

Bounds (`Max...`, channel lengths, sets of clients) are constants with a comment;
each is the smallest at which the competition it is about takes place, plus one
where time allowed. Deadlock checking is off where the bound on calls or the end
of the program lets the system stop.

## 4. Fairness

Nobody is obliged to make a call, send a signal, close anything or break a
connection. Goroutines that can run do run (weak fairness; in `ServiceRpc`, where
every goroutine has finitely much to do, one condition for all of them
together). Strong fairness is assumed in two places, each for a guarantee of
Go: the mutex does not starve the writer's last `Lock` (`TCPConn`), and a select
with two ready cases takes each of them now and then (`DBExecute`). Blocked senders
on a channel are served in turn: `EventProcessor` keeps them in a line, as the
channel does, and in `ModuleTimer` each timer sends once, so that weak fairness is
enough in both. Sockets: a read or write on a
closed socket returns, a dial after `Close` returns, statements come to an end.

## 5. Where the code differs from what it says

Five runs end with a counterexample; each has an entry in `findings`.

1. A reply to a synchronous remote call panics the client (`RpcRemoteStrobe`).
2. After a read error the RPC client waits for itself and does not connect again
   (`RpcRemoteReconnect`).
3. An asynchronous call to the own service runs twice (`ServiceRpcSelfAsync`).
4. A stop signal does not stop a node (`Node`).
5. A callback that is to be restarted for ever is restarted once
   (`CoroutineForever`).

Met while modelling, present in the models unless said otherwise, and without a
run of their own; the properties above are stated so that they hold beside these:

* `rpc/rpchandler.go`: a Go call to the own service does not run; the answer to
  a call of an unknown method does not run the callback; a request whose arguments
  are nil is answered with an error and then once more (line 163); the parameter
  and result objects of a method are never reset (lines 160, 178), so a remote request
  gets what earlier ones left in the fields its text omits, and an answer what they
  left in the fields the method does not assign, also with one goroutine, and with
  several, or `mutiCoroutine`, requests race for them; a local call that passes no
  reply writes the same result object (not modelled: `RpcRemote` has remote calls only,
  `ServiceRpc` has no values);
* `service/service.go`: `Run` calls `OnEventHandler` and `OnRelease` of the embedded
  `Service`, so what a service overrides is not invoked;
* `cluster/parsecfg.go`: only the last node that offers a service is listed (line 144);
* `example/main.go` calls `node.Init` before `node.Setup`, so nothing it sets up is
  initialised (the example is not modelled, both orders of the calls are);
* `service/module.go`, `util/timer/timer.go`: a cron that has run survives the
  release of its module; a stopped timer that is already queued calls nil, and one of
  `AfterFuncEx` still runs its callback (`StopIsFinal` exempts a late stop);
* `service/module.go`: a module released by a stranger breaks the release of its
  parent; a failing `OnInit` leaves its children registered;
* `util/queue/queue.go`: `Peek` and `Pop` of an empty queue and `Get` of an invalid index
  return nil, where the comments (lines 61-62, 71-72, 87-88: "This call panics if the
  queue is empty", "the call will panic") and the three `...OutOfRangePanics` tests of
  `queue_test.go` demand a panic. The tests do not tell: they call `New()` and `q.Remove()`,
  which do not exist, so they do not compile. `RingQueue` returns nil as the code does,
  `Fifo` panics as the comments do;
* `util/queue/syncqueue.go`: `RLockRange` takes the read lock a second time in `Get`
  and stands still with a writer that asked in between;
* `util/umap`: `ClearMap` counts to the constant and not to the number of stripes:
  it panics with fewer and misses the rest with more;
* `util/timer/cronexpr.go`: in zones with a half-hour offset `Next` skips matches;
* `sysmodule/DBModule.go`: `Get` of a failed `SyncExec`, once it has the error, ignores its
  timeout and never returns; that of a successful one always times out;
  `CheckArgs` is given the arguments as one slice and refuses nothing; the goroutine
  of `RunPing` is never stopped; `DataSetList.UnMarshal` does not reset its index;
  in a `DBResult` the columns from a NULL on keep the values of an earlier row;
  names that are equal in lower case shift the columns after them; `rows.Err` is
  logged and not returned;
* `sysmodule/RedisModule.go`: `ListPop` loses what it pops, `RPOPListValue` pops up to
  100 records, `SetStringJSONExpire` reports every failure as success;
  errors of single commands inside `EXEC` are ignored: `SetMuchStringExpire` with an
  expiry of 0 and `SetMuchHashJSON` on a key of another type return nil with nothing
  stored (lines 325-331, 772-776), and `GetMuchString` reports such a key as an empty
  string (439-442); `DelMuchString` says of a key that it was given twice that it was not
  deleted (627-636); `makeListJson` joins the texts of members unchecked (1214-1239), so
  that `1,2` becomes two elements and other texts break the list;
  `ZRangeByScore` in descending order passes its limits unswapped, and
  `SetMuchHashJSON` and `SetMuchListJSONRpush` drop a value that does not encode where
  `SetMuchListJSONLpush` returns an error;
* `sysmodule/HttpClientPoolModule.go`: the goroutine of a request uses the caller's
  header map, which the caller may change meanwhile (not modelled: headers are data).

## 6. Proofs

A theorem `Spec => []Inv` below makes no use of fairness and is about
every value of the constants that the named assumption of the model allows
(finite sets where the code counts, capacities above zero where the code's are).
Its proof follows one pattern: an inductive invariant, found by asking of each
counterexample to induction what the code relies on, checked by TLC on the
instance of the run, then proved with one lemma per action or group of actions,
and last the step from it to the property.

**`NetworkProofs`**. The connection: `Invariance` (`Spec => []IInv`); `TypeCorrect`,
`NeverPanics`, `SendNeverBlocks`, `CloseFlushes`, the four invariants about the
connection that the run `Network` checks; `ImplementsPipe`, the refinement of `Pipe`.
`IInv` says who holds the mutex (`LockInv`), which makes everyone else idle and so lets
the length test and the send be read together; that `closeFlag` is unset inside
`doWrite` and there is room at its send (`CallInv`), because other senders need the
mutex and the writer only takes; that a closed channel or a queued sentinel implies
`closeFlag` and that the sentinel is last (`FlagInv`), so nothing is sent or closed
again; that what was written is a prefix of what was accepted (`PrefixInv`); where the
rest is while the writer loops: in its hand and in the channel (`FlowInv`); and that a
writer which left without an error left nothing (`EndInv`). `Pipe`'s steps follow from
`PrefixInv` and `FlowInv`: a write of the writer delivers the next accepted frame.

Server and client: `ServerSafe` (`ServerInv`) for any finite set of connections and
any limit, `ClientSafe` (`ClientInv`) for any number of dialling goroutines and
restarts. The wait groups are counters in the code and in the model; the
invariants say whom they count (`WaitInv`), so that a `Wait` that returns means
nobody is left. For the server: what is in `conns` is exactly what has an agent or
is about to have one (`ConnsInv`); the connection `run` holds between `Accept` and
its goroutine has no agent yet and is in `conns` once registered (`HeldInv`); how far
`Close` is, and that the map is dropped only when `run` is out of the way
(`ClosingInv`). The limit follows because the length is tested and the set written
under one lock. For the client: the state of the owner decides the map and the flag
(`OwnerInv`): the map exists from `Start` to `Close`, the flag is unset until `Close`
sets it, so a goroutine that finds the flag unset finds the map too.

The node: `NodeSafe` (`NodeInv`) for any files, subnets, services and objects. While
the loop of `InitCfg` runs, the tables stand for the nodes it has passed: their ids,
the services configured here, and for each service one of the passed nodes that
list it (`LoadInv`, with `FreshInv` before and `ClientsInv`, the clients of the nodes
connected so far, after it); at the end of the loop this is the property. `Init` has
passed a beginning of the list of objects: each has run its `OnInit`, and the name of
each that is configured is taken (`PassedInv`), by the first of that name
(`InstalledInOrder`), so whatever is routed here is there when `Start` begins.

**`RpcRemoteProofs`**: `PendingSafe` (`PendingInv`) and `AnswersSafe` (`ReplyIsOwn`) for
any callers, calls and goroutines of the called service, with and without
`mutiCoroutine`; `ServingSafe` (`ServingInv`) for one goroutine in the called service,
which is the default (`service/service.go:52`) and the hypothesis of the theorem. A call
is registered before its request is written, is at one place only (with its caller, on
the wire, in the request channel, in a handler, in a reply) and is pending at all of
them (`PlaceInv`). For `AnswersSafe`: a value in the shared objects is from a request
that ran or is just about to (`KnownInv`); a request that no other has overlapped is
alone with the objects (`AloneInv`), so before its method runs they hold its own value,
where it sent one, and otherwise an older one (`ParamInv`), and after it the answer
(`AnswerInv`), which goes with the reply (`ValueInv`). Nothing stronger holds, since
nothing resets the objects. `ServingSafe` adds that the stages of a request are queues
in the order of sending (`OrderInv`) with at most one request in a handler (`ServeInv`),
so that without `mutiCoroutine` calls, which get a goroutine each, no request overlaps
another (`OneAtATime`) and `AnswersSafe` is about all of them.

The framing: `FrameSafe` (`FrameInv`) for any base of the bytes, widths, limits and
messages, whichever way the bytes arrive. `StreamInv`: on what has arrived and what is
on the wire the unread messages stand one behind the other, each as its length and
its bytes, which `Cuts` says by the positions at which they end; the reader is in
front of a length or behind one (`ReaderInv`). The digits of a number in a base give
the number back (`RoundTripOf`), so the length that is read is the one that
was written, because a message that does not fit was refused.

**`ServiceRpcProofs`**: `LoopSafe` (`LoopInv`) and `OrderSafe` (`ProgramOrder`) for any
services, call graph, numbers of goroutines and capacities. `PlaceInv`: a request is
at one place, with the goroutine that pushes it, once in a channel, or with the
goroutine that handles it. `FreshInv`: a request not yet handled has run at most as
the start of a call of a service to itself. `OnceInv`: beyond that a method runs at
most once, and the answers in the response channel and the callbacks run are at most
one, or two with nil arguments. `LaterInv`: nothing has happened to calls not made.
`StopInv`: `gorouterNum` counts the goroutines that have not left the loop. `OrderInv`:
a channel holds the requests of one goroutine in the order of their making, and one
that was taken means that the earlier ones were handled, which gives `ProgramOrder`
when the called service has one goroutine.

**`LoopProofs`**. `EventSafe` (`EventInv`) for any goroutines, capacities and number of
events; `TimerSafe` (`TrackInv`) for any crons, number of timers and capacity of
`ChanTimer`. Events: an event that is not accepted is with the one goroutine that
sends it, later than all of that goroutine that are (`SenderInv`); the line of the
channel holds each waiting sender once (`LineInv`); accepted is handled followed by the
buffer (`FlowInv`). Timers: a timer is at one place (`PlaceInv`); the timers of a
cron come one after the other, and only the last, `Cron.t`, can still come (`CronsInv`),
which survives the moment when Cb re-arms because the timer being called has left
the channel; until the release the maps lead to every armed timer, except those
of crons that have run (`ArmedInv`): `EndCb` takes a cron out of its map while its
next timer is armed, the exception `ReleaseDisarms` states.

The tree: `TreeSafe` (`TreeInv`) for any modules and ids, with calls of `AddModule`
nested to any depth by `OnInit` and failing at any of them. `ReleaseModule` walks the
child maps recursively; the walk is what is reached in some number of steps, and the
lemmas say that it is closed, and what a new or a removed edge does to it.
`IdsInv`: an id is given once. `AddingInv`: a module being added is not in the tree and
the parents of the calls around it are not below it, so a release in `OnInit` cannot
take away what a call in progress needs. `ForestInv`: while modules are released by
their parents only, each has one parent and the child maps list registered modules.
`ReachInv`: every registered module is reached from the root or from a module that is
out of the tree, whoever releases what, which with `ForestInv` means that the release
from the top meets all of them.

The cron search: `SearchSafe` (`SearchInv`), for any calendar (months and leap years of
any lengths), any number of seconds, minutes, hours and days of the week, any
expression that `NewCronExpr` accepts and any argument. `Next` zeroes the fields below
the current one only when the first loop moves (`initFlag`) and after that trusts every
later step to leave them at their beginnings; the property is that this trust is
justified. `StageInv`: the loops that were left found a match. `ClearedInv`: from the
first move on, everything below a field that does not match is at its beginning.
`PassedInv`: no time between the argument and `t` matches, `YearInv` that the search
stays in the calendar. The lemmas: the dates are numbered in their order (`DaysNumbered`,
by counting predecessors), a month is an interval of them (`DaysOfMonth`), seconds,
minutes, hours and the day nest (`UnitsNest`), and a move passes only times whose field
is the one that did not match (`SearchOn`). The hypothesis is that the offset of the
location is a number of hours: `Truncate` counts from the zero time of UTC, and in a
half-hour zone the property is false (section 5).

**`QueueProofs`**: `SyncSafe` (`SyncInv`) for any finite set of goroutines and any
number of elements; `RingImplementsFifo` (`FifoPromise`), the refinement of `Fifo` by
the ring buffer, for any `MinQueueLen`, with nil taken for the panics of `Fifo`;
`RingSafe` (`RingInv`) for any `MinQueueLen` that is a power of two; `MapSafe`
(`MapInv`) for any goroutines, finite set of keys and number of stripes. The
synchronised queue needs the lock's counts as sets of goroutines (`HeldInv`), what a
call can be at each place (`ShapeInv`), and that a range has read a beginning of the
queue that nobody changes. The ring needs that `tail` is `count` slots after `head`
(`TailInv`); its lemmas say that the remainder is a step around the ring (`SlotIsRest`)
and that `resize` copies the elements in order (`CopiedIs`). That its length stays a
power of two is not inductive: halving needs that a length above the minimum is at least
twice the minimum, which holds because the length is the minimum times a power of two
(`DoubledMin`); that the free slots hold nil is said from `count` on around the ring
(`RestIsNil`). In the maps an update is what it read until it stores, because no two
goroutines hold one stripe except to read (`UpdateSane`, `Exclusive`); a walk has passed
the keys of the stripes below the one it is at (`RangeSane`, `CountSane`, `ClearSane`),
which is said about the keys that were there all the time and those that were there at
some time (`WalkSane`).

**`SysmoduleProofs`**. `HttpSafe` (`HttpInv`) for any requests, callers and timeouts: a
response is filled in before it is sent, so those in the channel and those returned
are sound (`ResponsesInv`).

The Redis tasks: `TaskSafe` (`TaskInv`) for any clients, routers and capacities. A call
with a `RetError` keeps its client in `Get` while the task is queued or with a router
(`WaitsInv`), a task is with one router (`RoutersInv`), so an answer finds the client that
asked on an empty channel and is about its call (`ClientsInv`); with one router
the order of the calls goes through queue, router and database (`TasksInOrder`);
connections that are out are those of commands under way (`PoolInv`).

The Redis data: `DataSafe` (`DataInv`), `WholeWritesHold` (`WholeWrites`, an action
property), `ZSetSafe` (`ZSetInv`) and `RepliesSafe`, the two invariants as the run has
them, for any connections, keys, members and operations. What a session has sent and has
yet to send are the two parts of what its operation sends (`ScriptInv`), so `EXEC` finds
a whole transaction; what an operation was told is true of a content that the server had
(`ToldInv`), for keys given twice because each command is answered on what those before
it left and the map keeps the last reply of a key; the exceptions of `NilIsApplied`
(section 3) are those of the theorem; what one push put on the list is one block of it,
forwards or backwards, through every trim and pop (`ListInv`). Members of a sorted set
are numbered in their order by counting those before them, so a range of ranks is an
interval and `ZRank` is the place in the whole range (`Ranking`); a call in progress has
seen the content as it is (`SeenInv`).

**`DBProofs`**. `ResultSafe` (`ResultInv`) for any clients, hashes, statements and
capacities: the hash of a request decides its executor (`IdsInv`); each executor gets,
holds and has run the requests of a client in order (`OrderInv`, with `SendInv` for the
one the client has yet to send), and an answer is that of its own
statement, which has run (`AnswersInv`). `TxSafe` (`TxInv`) for any finite set of
goroutines and any limit: a goroutine that asks for another transaction or another
result has ended the one before (`HandleInv`), and the connections in use are as many
as the statements, open transactions, results being read and pings. `RowsSafe`
(`RowsInv`) for any results, columns and values: what was listed is what the first sets
of the result have (`ListInv`), with the index of a set the number of arguments that were
filled; each string that is scanned into holds the value of some row so far
(`ScanInv`), which is why a NULL, which is not scanned, leaves an earlier one.

Induction: the library states it for an operator, which the provers cannot
instantiate. `ProofLemmas` has it for sets of numbers (`InductionSet`), from
the minimal element that a well-founded relation gives every set: the numbers of
which a fact holds are one.

Only model-checked, because fairness and ENABLED are outside the prover's reach:
`CloseEndsWriter`, `CloseReturns`, `BacklogServed`, `CallbackRuns`, `CallsComplete`,
`StopCompletes`, `TimerRuns`, `NotifyReturns`, `SearchEnds`, `CallersReturn`,
`ExecutorsStop` and `GetReturns`. The five runs of section 5 are counterexamples and
have no theorem.

## 7. Not modelled, and the plan

* `sysservice/tcpservice.go`: `OnInit` always ends in an error, because
  `GetServiceCfg` is always nil (`InitCfg` never reads service.json,
  `cluster/parsecfg.go:162`), so its server is never started; and `NewClient` writes
  `mapClient`, which no code creates. No behaviour is left to check.
  `sysservice/wsservice.go` is empty.
* The semaphore: one buffered channel with two one-line operations and no user.
* No control of their own: logging, codecs, encryption, hashes, random numbers,
  deep copies, and the examples.
* Registration of methods by reflection, and the decoding of typed parameters.

What is left: `ServingSafe` is about one goroutine in the called service and
`SearchSafe` about zones of whole hours, since with more goroutines and in other zones
the code does not do what the properties say. Liveness stays with TLC.
