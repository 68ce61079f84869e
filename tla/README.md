# graphize: a verification development

graphize runs a request through a DAG of *services*: a configuration file names
the nodes and the edges, every node runs as soon as all its inputs have run,
on bthreads, and services that talk to the outside (redis, brpc, http) hand the
control back when their answer arrives. There are no locks around the graph: the
whole synchronisation is a set of atomic counters and a few conventions about
who may call what. This directory holds TLA+ models of that
synchronisation, TLC configurations that check them on small instances, and
TLAPS proofs that the most important properties hold for every instance.

Paths below are relative to the repository's `src/`; `frame/graph.cpp:38` is a line
of that file.

## 1. Inventory of the system

| component | state it keeps | operations | what makes it correct | model |
|---|---|---|---|---|
| graph construction: `frame/graph_manager.cpp`, `frame/graph.h` | per graph: nodes, `out_nodes`, `input_num`, `input_num_4_check`, ids, root | `GraphManager::init`, `Node::add_output`, `Graph::init`, `Graph::check` | an edge counts once however it is declared; exactly the runnable graphs are accepted; ids fit the counters | `GraphBuild` |
| graph execution: `frame/graph.cpp`, `graph.h`, `graph_context.h` | per request: `node_input_num_map` (atomic counters), the stacks of the bthreads | `Graph::run`, `Node::run`, `Node::notify`, `Node::run_output_nodes_if_ready` | a node runs once, after everything it depends on; the graph runs to the end | `GraphRun`, `DagRun` |
| concurrent service: `service/base/concurrent_service.cpp` | per request: `count_cnd` | `do_service`, the slices' bthreads | one merge, after all slices, then one notification | `ConcurrentService`, `IoNode` |
| redis service: `service/base/redis_service.{h,cpp}` | per request: `cond`, one `item_size_cond` per fetch_info, `cache_data_vec`, the promise, `result_map`; per service: the template `fetch_info_vec` | `do_service`, the callbacks, `parse_cached_data`, `make_up_fetch_info_vec`, `check_suc_rpc_response`, `merge_cache_data` | the request is completed once, after every batch and after the cached values; the outputs are notified; every wanted key is served, under its own name, and a batch stays in one slot | `RedisService`, `RedisKeys`, `IoNode` |
| connection pool: `frame/client/redis/connect_pool.h` | `_conn_list`, `_borrow_size`, `_busy` under a mutex | constructor, `borrow`, `release` | counters are accurate; a channel is lent once; the pool's size is bounded and goes back | `ConnectPool` |
| redis client and channel pool: `frame/client/redis/redis_client.cpp`, `redis_client.h`, `channel_pool.cpp` | two `ChannelPool`s and `pool_index`, a refresh thread, per pool the parsed lines, the slot map and a ConnectPool per server | constructor, `update_channel_pool`, `init_channel_pool`, `is_channel_pool_changed`, `fetch`, `multi_fetch`, `GetConnection`, `FreeConnection` | a channel goes back to the ConnectPool it came from; the switch does not take a pool away from its users; every key is asked of the owner of its slot | `ChannelPools` |
| redis client manager: `frame/client/redis/redis_client_manager.cpp` | map from id to client | `init`, `get_client` | set up before use | in `Server` |
| brpc and http services: `service/base/brpc_service.cpp`, `http_service.cpp`, `frame/call_mothod_util.h` | the call | `do_service`, `call_rpc_method`, `handle_response`, `service_cb` | the outputs are notified once, after the response is processed, on every path | `Server`, `IoNode` |
| cache manager: `frame/cache_manager.cpp` | libshmcache | `Get`, `Set` | the value of a key is the value of that key | a function in `RedisKeys` |
| startup: `main.cpp`, `frame/node_manager.cpp`, `gtransport_manager.cpp`, `register.h` | registries filled once | `init`s in an order | nothing is used before it is set up | `Server` |
| echo server, start and done nodes: `server/server_impl.cpp`, `service/*.cpp` | the request context | `Echo`, `do_service` | a context is read only when it is final | `Server` |
| thread pool: `frame/ThreadPool.h` | task queue, sleepers, `stop` | constructor, `enqueue`, destructor | tasks start once and in order, no wakeup is lost, nothing accepted is left behind | `ThreadPool` |
| utilities, protocol, unit tests | | | | not modelled: stateless conversions and drivers |

How they interact. `GraphManager` builds the graphs at startup and never changes them
afterwards. For a request, the server calls `Graph::run`, which sets the counters
of a fresh context and runs the root on the calling thread. A node with
`type() == "cpu"` notifies its outputs when `do_service` returns; every other node
calls `run_output_nodes_if_ready` itself, possibly from an rpc callback, possibly
before its own `do_service` has returned. Nodes share results through their
service contexts, which carry no lock: that a node runs strictly after its inputs is the
only protection. A `RedisService` sends through a `RedisClient`, which borrows a
channel from a `ConnectPool` for the time it takes to start the call; which ConnectPool
that is depends on the pool in use, which the refresh thread replaces meanwhile. A
`BrpcService` or `HttpService` sends through a channel of `GtransportManager`, and its
callback runs on a thread of brpc.

What is hard here: the inputs of a node finishing at the same time on several
threads; the last ready output being run on the notifying thread while the earlier ones
get a bthread each; ignored results of `bthread_start_background`; callbacks that
race with the loop that still sends; refused calls that are counted by the sender;
exceptions thrown from the completion itself; a promise that one thread keeps and another
waits for; a section of the configuration read in an unspecified order; pools that are
rebuilt and switched under their users; notifications sent after the lock is released. The list
with lines is `hazards` in `PROJECT.json`; the hazards without a property, and those a property
covers only in part, say in their notes why.

## 2. The modules

    GraphTopology        reference operators on graphs (reachable, acyclic, runnable)
      DagRun             abstract: run every node once, after its parents
      GraphRun           the counters and threads; implements DagRun
        GraphRun_proofs, MCGraphRun
      GraphBuild         from a section of graph.conf to an accepted graph
        GraphBuild_proofs, MCGraphBuild
      Server             GraphRun's actions + the rpc services as IoNodes + startup
        Server_proofs, MCServer
    IoNode               abstract: what Node::run expects of a non-cpu node
      ConcurrentService  implements IoNode;  ConcurrentService_proofs
      RedisService       implements IoNode;  RedisService_proofs, MCRedisService
    RedisKeys            RedisKeys_proofs, MCRedisKeys
    ChannelPools         RedisClient_proofs, MCChannelPools
    ConnectPool          RedisClient_proofs
    ThreadPool           ThreadPool_proofs

The modules fit together at four seams. *GraphBuild to GraphRun*: GraphRun assumes
`WellFormed` of its graphs (no parallel edge, only the root has no parent, edges
stay inside `all_nodes`, no cycle) and takes the initial counters to be the in-degrees;
`AcceptedFeedsGraphRun` of GraphBuild states the same `WellFormed` and the same counters of what
`Graph::check` accepts. *IoNode to GraphRun*: GraphRun sees a non-cpu node as
`IssueIo` followed by `IoCallback`, or as `RunAndNotify` if it notifies before
`do_service` returns; the header of IoNode gives the correspondence, and each io service is
shown to implement IoNode. *Server* is the composition: its actions call those of GraphRun and put the steps
of the services between them, so that it is a behaviour of GraphRun by its definition; what has to be shown
is that each of its rpc nodes keeps IoNode (`ServicesImplementIoNode`). *ChannelPools to ConnectPool*: ConnectPool's counters
rely on a channel coming back to the pool it was borrowed from, which is `ReturnedHome`.

A definition whose comment starts with "Mutant of" is not part of the
model: it is a plausible bug in the operator it names (a dropped guard, a swapped order), and
putting it in that operator's place makes one of the properties fail. They are
kept to show that the properties can fail.

### GraphRun: `frame/graph.cpp`, `Graph::run`

`pc[n]` says where `Node::run` of node n stands; a thread is not named, because the
bthread that makes n ready either starts another for it or goes on as n's thread.
A step is one access to the shared counters: `NotifyWaiting` and `NotifyReady` are one
iteration of the loop of `run_output_nodes_if_ready` each (the `fetch_sub` of
`Node::notify` found a value other than 1, or 1), `FinishNotify` is the code after the loop. `RunGraph`
is `Graph::run` with its loop over the counters, which nobody else can see yet.
`lost` is a failed `bthread_start_background`. What `do_service` computes is left out;
a skipped node is `RunAndNotify`.

### GraphBuild: `GraphManager::init`, `Graph::init`, `Graph::check`

`todo` is a set because hocon's `key_set` has no order the code relies on. The
strings `"children"` and `"parents"` are sequences of names; splitting and trimming is
left out. `all_nodes` is a set because nothing depends on its order, and `zero_input_node`, the
list of `Graph::check`, is one that is worked off in any order: the verdict is the same for each. A `LOG(FATAL)`
aborts the process with glog's defaults; GraphBuild calls the outcome `rejected` either
way, as the program does not start.

### IoNode, ConcurrentService, RedisService

IoNode has three variables: `returned`, `complete` (nothing changes the service context
any more) and `outputs`. Its `Notify` requires `complete`: implementing it means that
the outputs are notified at most once and never early.

ConcurrentService follows `do_service` and its bthreads; `count_cnd` is stored
before the first spawn, so the slices race with the loop (`SpawnSlice`).

RedisService takes the result of `make_up_fetch_info_vec` as its input: fetch_infos with
a number of keys that missed the cache, and whether values were found in it. Threads
are the callbacks and the thread in `do_service`. `deep_cond_finish_func` and
`cond_finish_func` are the actions from `CountItem` to `Notify`, with the difference the
parameter `send_rpc` makes expressed by the thread (`do_service` or a
callback). A callback may run as soon as its batch is sent. `guarded` says whether a
callback is inside the `try` of line 262, because its `catch` (298) counts down a second time
(`Throw`). `merge_cache_data` throws when it does not find the key of a value any more
(`keys.at`, line 554), which takes another request that has rewritten the keys; here that is a constant,
`KeysMayBeGone`, and RedisKeys shows that it takes nothing less (`StuckOnlyIfDisturbed`). In a callback the
exception is caught and counted, and the request is neither completed nor the program over; in `do_service`
nobody catches it.

### RedisKeys

The other half of RedisService: which keys the batches hold, for several requests at a service.
The fetch_infos belong to the service. `make_up_fetch_info_vec` casts their const away,
writes the request's keys into them (`MakeUpInfo`), and appends a fetch_info for every further slot
to the vector itself (`Send`), so that the vector grows and each appended fetch_info
generates all its keys again for the next request. A batch is a fetch_info, a start and, as
history, the keys it was sent with; its callback (`Answer`) and `merge_cache_data` (`Merge`)
look the keys up again. `disturbed` is history too: the requests whose fetch_infos were rewritten
while they still needed them.

What is abstracted: one request at a time is between the start of
`make_up_fetch_info_vec` and the end of the sending loop, and sending is one step; two there
would race on the vector. A value is the key it belongs to, or
`Other`. The slots come in any order, as from the `unordered_map`. A `keys.at` that throws
makes the request `stuck`. The cache is a function of keys; an entry that expires is a miss like
any other and is not modelled. In `merge_cache_data` the answers come in any order (the result map
has none that matters), so the last of several values for a key is any of them. A refused call, and what
it does to the counters, is in RedisService.

### ChannelPools

`refresher` says where the thread in `update_channel_pool` stands. A round begins with
`Answered` (the lines of "cluster nodes" are kept in the pool that is not in use, `Backup`) or
`Unanswered` (`init_channel_pool` returns early, after which the pools are compared all the same), and
goes on, if the pools differ, with `SetSlots`, `ResizeChannels`, `InitChannels` and `Switch`; the
requests run in between. `fetch` and `multi_fetch` are the same here: `LoadIndex`,
`GetConnection` (or `Refuse`), `FreeConnection`. A line of an answer is its server, its slots, its
configuration epoch, and whether it shows slots on the move, since `ParseSlotString` reads those
markers as slot 0 (`ParsedSlots`). The code neither compares epochs (`Compared`) nor looks at them when
several lines claim a slot: the last one gets it (`LastClaim`). Who should get it, the claim with the highest
epoch (`redis_client.h:37-39`), is `Owners`, and `AsksOwner` says that the owner is asked exactly unless a
claim is listed after its own (`Overruled`). `slot_index` is resized and never cleared, so `SlotNodeMap`
keeps the old entry of a slot nobody claims. Of a line without a host `InitChannel` would make no
ConnectPool (`redis_client.cpp:199`); lines of connected nodes have an address, and one that is a port alone is given
127.0.0.1 first, so `Built` makes one for every line.

A ConnectPool is the pair of its server and the round that built it; the channels in it are
ConnectPool's matter. Time appears only as `slept` and `outlived`: which calls are older than the
sleep the refresher is in, or than a sleep that is over. The sleep is a minute, the calls time out much
earlier, but nothing in the code relates the two; so the properties speak of calls that are not
in `outlived`, and the others are in the model all the same. The line that starts the
refresh thread is commented out (`redis_client.cpp:28`); the model is of a client whose application starts it.

### ThreadPool

One step per critical section, per notification and per end of a task. A task stands for the
call of `enqueue` that submits it. `notify_one` and `notify_all` are called after the mutex is released,
so they are actions of their own, and wakeups may be spurious.

### Server

`phase` is how far `main` and `init_graph_frame` are. `RegisterTransport` is what
`GtransportManager::init` inserts; the program itself never calls it, an application may, so any
set of channels may be registered before the rest. `InitNodes` is the check of `NodeManager::init`.
A request is one execution of the graph: `Echo` runs it (`Run!RunGraph`), `DoCpu` is
`do_service` of a cpu node, `Threads` is what GraphRun does between nodes, and an rpc node
is `Call`, `ReturnIo`, `ProcessResponse` and `CallbackNotify` in either order of the callback and
the end of `do_service`, or `RefusedNotify` when `get_transport` finds no channel. `settled` and
`start_context` are the service contexts, as far as others read them: final or not. A node that does
not override `call_rpc_method` is `mute`: the default of BrpcService drops the callback. No node is skipped
(`graph.cpp:24`): no class of the repository overrides `skip`, whose default is to skip nothing.

### ConnectPool

`borrow` and `release` hold the pool's mutex, so each is one action per path. The
counters are unsigned: `CounterMod` is 2^32 in the code. A `borrow` whose build fails
returns `nullptr`, and its users (`redis_client.cpp:283`, `321`) then release
nothing: `BorrowNothing`. `most_lent` is history: the most channels lent at the same time (`Lend`).

## 3. What TLC checks

| run | instance | shows |
|---|---|---|
| `graph_run` | all rooted DAGs of 5 nodes, outputs in rising and falling order, 2 io nodes, spawns may fail; 52,934 states | counters exact (`ReadinessInv`), `RunOnce`, `RunsAfterAncestors`, `StarvedOnlyBelowLost`, `Completes`, and `ImplementsDagRun` |
| `graph_build` | every section of 3 entries: any set of 7 possible edges (one a self-loop) declared at the source, plus up to one at the target; root given, missing or doubled; one unknown name; 97,336 states | `EdgesCountedOnce`, `CheckIsExact`, `AcceptedFeedsGraphRun`, `OrderDoesNotMatter`, `InitEnds` |
| `concurrent_service` | 0 to 4 slices, spawns may fail; 835 states | `SliceInv`, `MergeOnceAfterAll`, `NotifiesUnlessLost`, `ImplementsIoNode` |
| `redis_service` | up to 2 fetch_infos of up to 4 keys, `batch_size` 2, refused calls, exceptions, values whose keys are gone; 204,571 states | `CompletedOnceAfterAll`, `CachedParsedOnce`, `CompletedAtRest`, `NotifiesUnlessThrown`, `ImplementsIoNode` |
| `redis_keys` | 2 requests, 3 fetch_infos (cached; appending `key_gen_func`; no client), 3 keys in 2 slots, `batch_size` 2, multi-get on and off; 130,119 states up to symmetry | `OneSlotPerBatch`, `EverythingServed`, `UndisturbedIsTrue`, `StuckOnlyIfDisturbed` |
| `connect_pool` | 4 threads, `pool_size` 2, `max_size` 3, 2 failed builds; 320,964 states | `PoolInv`, `LiveAtMostDemand`, `PressureEnds` |
| `channel_pools` | 2 threads that fetch, 3 rounds of the refresher, 3 slots, 5 topologies of 2 servers (slots moving, a slot claimed twice before and after an epoch changes, a server lost, slots unserved), failed queries; 460,865 states | `PoolInUseFits`, `ReturnedHome`, `NewestUnlessFailed`, `AsksOwner` |
| `thread_pool` | 2 workers, 4 calls of `enqueue`, the destructor at any time, spurious wakeups; 122,348 states | `QueueInv`, `NothingLeftBehind`, `Drains` |
| `server` | graphs of 5 nodes with "start", a DoneService and 2 rpc nodes, one transport, one redis client, every configuration, spawns may fail; 122,044 states | `ReadsSettled`, `StopsOnlyBelowSilent`, `ServicesImplementIoNode`, `CompletesUnlessSilent` |
| three more | | the disagreements of section 5 |

Why the bounds are enough. Five nodes give every local shape the counters
distinguish: a node with up to four inputs, one that makes up to four outputs
ready (so `last_ready_node` is overwritten three times), diamonds, chains and
shortcuts, in both orders of the outputs; theorems cover all other sizes. Three entries
with a self-loop contain every kind of cycle, a second source, an
unreachable cycle and a double declaration; the search and the elimination treat
each node alike. Four slices let two finish before and two after `do_service`
returns; the theorems cover any number. Two fetch_infos with up to two batches each
let every pair of {callback, refusal, skipped fetch_info} meet at each counter;
four keys with `batch_size` 2 include a last batch that is full and one
that is not, and with `enable_multi_get` off there is a batch per key. Two requests and two slots
contain a fetch_info that is split and generates its keys again, a second request that hits the
cache, one that overlaps the first with fewer, more or other keys, and lists of one slot that are never split; a third request
would repeat what the second does. The requests are symmetric because the set of what they want is. Four threads on
a pool of two, bounded by three, reach both sides of every comparison in `release`;
four channels lent at once are more than `max_size`, which `connect_pool_size` needs; `CounterMod` 16 is above what the counters can reach, which is also an
assumption of the theorems. Three rounds let a pool be built, left, and rebuilt while a call of the
first round still holds a channel of it, with a failure at any of the three; two calls are enough
because calls do not write what others read; three slots suffice for one that moves between
servers, one that stays and slot 0; the two topologies in which both servers claim a slot have the owner listed last and first; the theorems cover everything larger. Two workers and four tasks have
a sleeper while the other works, more tasks than workers, and notifications that are overtaken by
other tasks. Five nodes leave, around the two rpc nodes, the source, "start" and the DoneService: an rpc
node before, beside and after "start", and one behind the other.

Deadlock is checked in every run; `Terminated` and `Ended` are the states in
which the program is legitimately at rest (in Server also `Hanging`: a graph below a callback
that was dropped). ConnectPool and ChannelPools never rest.

Fairness. `NodeStep(n)`, the slices and `ThreadStep(t)` are weakly fair:
the bthread scheduler runs every bthread that was started, nobody disables
another's step for good, and brpc runs the callback of every asynchronous call it accepted,
with a failed controller if there is no answer. A call that was refused, and a bthread that could not be started, get
nothing, in the models as in the code. `do_service` is sequential code and does
not block (except in the promise, which is an action with a guard). In ThreadPool the
threads are scheduled and every task returns; nobody has to enqueue, to destroy the pool, or to wake
spuriously. In Server, as in GraphRun, the threads run and brpc runs every callback it was given.
ConnectPool, ChannelPools and RedisKeys need no fairness: none of their properties is a liveness property. The
properties with "Unless" in their names state what the code delivers; the cases
they leave out are described in section 5.

## 4. What is proved

`tlapm` checks the `_proofs` modules. The theorems hold for every value of the
constants that satisfies the named assumptions (`NodeAssumption`,
`GraphsAssumption`, `NameAssumption`, `ConfigsAssumption`, `SliceAssumption`, the
`PoolAssumption`s of ConnectPool and ThreadPool, `ChannelPoolsAssumption`, `ServerAssumption`,
`RunAssumption`, `RedisServiceAssumption`, `RedisKeysAssumption`): finite sets, sane bounds, graphs
that are well-formed. No theorem assumes that spawns, builds or queries succeed. Every safety invariant and
action property of a passing run in section 3, and each of the four refinements, is a theorem.

* **GraphRun_proofs.** The invariants are not inductive by themselves: that a node runs
  once needs to know what its counter means. `ReadinessInv` says it: a counter
  is the number of edges into its node still to be delivered; a node is held as
  somebody's `last_ready_node` or has been started exactly when none is left; and a
  held node is held by one thread. `NextReadiness` proves it
  preserved, with one lemma per kind of step (`DeliverOne` is the arithmetic of one
  `fetch_sub`; `QuietReadiness` covers the steps that do not touch the
  counters). From it follow `RunOnce`, `NeverTooManyNotify`, `StarvedOnlyBelowLost` and, through
  `ParentsFinishedFirst` (the parents of a started node have finished), `RunsAfterAncestors`
  and the refinement of DagRun. The step from parents to ancestors needs no
  induction: an unfinished node together with all unfinished nodes that have not been
  entered is a set that no edge leaves, so it holds everything the node reaches. Nor does
  `StarvedOnlyBelowLost` need one: a node that starves without a lost node above it has a parent
  that starves likewise, and in a graph without cycles a non-empty set has a member without a
  parent in it.
* **GraphBuild_proofs.** `BuildInv` follows the phases. While the section is read, `CountsExact`:
  no parallel edge, and both counters of a node are the number of its parents (`StoreEdge`,
  `CountEdge`: what one `add_output` does). During the search, `SearchInv`: what is collected or
  queued is reachable, and the outputs of a collected node are collected or queued, so that an empty queue
  means that `all_nodes` is what the root reaches. During the elimination, `EliminationInv`: the
  second counter is the number of parents not yet deleted, the deleted nodes and those in the list are
  those whose parents are all deleted, and the deleted nodes have no cycle. `VerdictExact` reads the
  verdict off: if everything is deleted the graph can run, and if it could run, the nodes left would
  have a first one, which has no parent left and hence is not left. From `BuildInv` follow
  `EdgesCountedOnce`, `CheckIsExact` and `AcceptedFeedsGraphRun`, which is what GraphRun assumes; with
  `EdgesRead` (stored edges and rest of the lists are what the entries read so far declare)
  `OrderDoesNotMatter`. That an accepted node other than the root has a parent needs no loop either: without
  one, `all_nodes` less that node would be closed, and the root would not reach it.
* **ConcurrentService_proofs.** `SliceInv` (with the types and `MergingInv`: the counter is the
  number of slices that have not counted down, and whoever is merging is alone) is
  inductive; `MergeOnceAfterAll` and the refinement of IoNode follow.
* **RedisService_proofs.** First the arithmetic: the loop of `do_service` takes its stride from the
  number of batches, with a rounding of its own, and `Strides` shows that it takes that many steps all the
  same, whatever the keys and `batch_size`; `BatchFacts` turns this into the number of batches,
  `NextBatch` into the batch the loop is at. Then three invariants, each inductive with the ones
  before it. `PlaceInv`: a batch has left "none" exactly when the loops have passed it. `CacheInv`:
  the cached values are left or have been parsed once, and the promise says which; with it
  `CachedParsedOnce`. `CountInv`: `item_size_cond` of an opened fetch_info is the number of its batches that
  wait to be counted, `cond` the number of fetch_infos that are open or whose end a thread is about to count,
  at most one thread each; and whoever completes the request does so with none left, alone. After
  `process_response` or `merge_cache_data` has thrown, the catch of its batch counts once more: the counter is 0 then,
  so it finds 0 and not 1, and completes nothing (the requests brought to an end are counted as `Ends`:
  the calls of `process_response`, and the merge that threw). From these follow the ranges of the counters,
  `CompletedOnceAfterAll`, and the refinement of IoNode (`CompletedMeans`: the results are complete exactly
  when `process_response` has been called). A fourth invariant, `RestInv`, says that nobody is left behind: who
  brought `cond` to zero is there until `process_response` has been called or `merge_cache_data` has thrown, `do_service` waits for the promise
  only if it has kept it itself, and has kept it when it returns. At rest it has returned, so all is counted and
  somebody has completed the request or thrown on the way: `CompletedAtRest`, the part of `NotifiesUnlessThrown` that needs no fairness.
* **RedisKeys_proofs.** First the operators. `KeepKeeps`: the keys of a sequence that are kept are
  those in the set; `Keep` chooses an enumeration of their places in order, and `EnumerationExists`
  says there is one (a smallest set of places without one would lose its greatest member and have one).
  `GroupsSplit`: splitting by slots loses no key and leaves parts of one slot. `BatchesCover`: for any number
  of keys and any stride the batches are non-empty stretches of the keys, where they say
  they are, and hold all of them (`Stretch`, `StretchOf`). Then one invariant, `KeysInv`, which TLC
  also finds to hold on the instance of `redis_keys`. The properties are not inductive: that
  a batch is of one slot needs to know that everything `make_up_fetch_info_vec` has passed is
  (`SplitInv`; nothing is known of the fetch_infos it has not reached, which hold the keys of all the slots of
  earlier requests); that a request is served needs to know at each moment where its keys are (`DueInv`: before
  the position, in a fetch_info it is done with, among those to be appended, in a batch not yet answered, or
  served); that a value is parsed under its own key, and that `keys.at` does not throw, needs to know that an
  undisturbed request finds the keys of its batches where it left them (`PlacesInv`). One lemma per action shows
  `KeysInv` preserved, and the four properties follow.
* **RedisClient_proofs**, about ConnectPool and ChannelPools. `PoolInv` (types, `BorrowsAccounted`,
  `LentOnce`) is inductive. It gives that no counter wraps, `PressureEnds`, and, with a case for each
  path of `borrow`, `LiveAtMostDemand`. `PoolInUseFits` is inductive with its own parts for the backup: half-built
  pools are never in use, and a round without change leaves a backup behind that is not switched to.
  `SlotNodeMap` chooses the last claim of a slot, so the proof first shows that a claimed slot has
  one (`HasGreatest`, by well-founded induction on the library's theorem for Nat). `NewestUnlessFailed`
  needs `FreshInv`: inside a round the backup holds the newest answer. `ReturnedHome` and `AsksOwner` are about calls; their
  invariant `CallInv` says that a call that has not outlived a sleep has a pool that is in use, or was
  until the refresher fell asleep and is not being written (`PoolKept`), hence that what it
  found there when it borrowed is still there (`ChannelKept`).
* **ThreadPool_proofs.** `QueueInv` is inductive: what was accepted is what was started followed by the
  queue, and while somebody sleeps there are at least as many notifying callers and workers about to
  look as there are queued tasks. A worker that falls asleep does so with an empty queue, one that
  takes a task takes itself and the task out of the inequality, a notification replaces a caller by
  a worker. `NothingLeftBehind` follows at the end of the destructor.
* **Server_proofs.** Every step of a service contains one step of GraphRun for its node or none
  (`ServiceStepRuns`), and the startup none, so that `ReadsSettled` can take GraphRun's invariant over: GraphRun_proofs is instantiated as `Engine`, whose
  assumptions are shown to follow from Server's (`EngineAssumptions`), so that `ReadinessKept` is
  `Engine!NextReadiness` for Server's steps. `ContextsInv` adds that the context of a finished node is
  final, and that of an rpc node exactly when its response has been processed or it was refused; since
  a node starts after its ancestors have finished, what it reads is settled. `ServicesImplementIoNode` maps every step of every rpc
  node to IoNode (`NextIoStep`): the call that returns, the callback or the refusal that completes, the notification, or
  a stutter. `StopsOnlyBelowSilent` needs `CallsInv`, which ties the state of a call to where the thread of
  its node stands: a node that is neither done nor idle at rest waits for a callback that was dropped.

Only model-checked: all liveness (`Completes`, `InitEnds`, `NotifiesUnlessLost`,
`NotifiesUnlessThrown`, `Drains`, `CompletesUnlessSilent`), which needs fairness and ENABLED.

## 5. Where the code and its documents disagree

Each is a run in which TLC finds the property violated by what the code does.

| run | property | what happens |
|---|---|---|
| `graph_build_ids` | `IdsInsideCounters` | the counters are as many as the reachable nodes, ids are given to all (`graph.h:196`, `graph_manager.cpp:53`): a reachable node created after an unreachable one has an id past the end |
| `redis_keys_overlap` | `ParsedUnderOwnKey` | the next request rewrites the keys (`redis_service.cpp:52`) under which the answers of the first are about to be parsed and cached |
| `connect_pool_size` | `BoundedOrGoesBack` | both promises of `connect_pool.h:9-10` fail in one trace: an empty list makes `borrow` build without a look at `max_size` (`connect_pool.h:42`), so four channels are lent where three are the most; and failed builds count as borrowed for ever (line 43), so that after `pool_size` of them a thread that borrows alone does not end the shortage |

Seen on the way, reached by the models but contradicting no document in so many
words: a DAG in which a reachable node also has an unreachable parent is refused with
the message that it is not a DAG (`graph_manager.cpp:136`); an entry whose node is
unknown ends the loop over the entries, so that later ones are dropped
(`graph_manager.cpp:71`); a section without a root passes `nullptr` to `Graph::init`; with zero slices a
ConcurrentService never notifies its outputs (`concurrent_service.cpp:35`; the
exception is spelled out in `NotifiesUnlessLost`); an exception of `process_response` in a callback is
answered by another count-down instead of the notification
(`redis_service.cpp:298`; spelled out in `NotifiesUnlessThrown`), and so is one of `merge_cache_data` when the
request's keys have been rewritten (554), after which it is not completed either (spelled out in `CompletedAtRest`); the vector of fetch_infos
grows with every request whose keys lie in several slots and never shrinks
(`redis_service.cpp:111`); the refusal of a first batch leaves a `fetch_info_ptr` null, which `merge_cache_data`
dereferences (`redis_service.cpp:538`; `Crash` in RedisService); `multi_fetch` builds its command from
pointers into strings that are gone (`redis_client.cpp:310`), so that a value may be that of
another key than it is parsed under (`Replies` in RedisKeys). What bounds a ConnectPool in place of `max_size`
is `LiveAtMostDemand`.

Of the channel pools: of several claims of a slot the last one in the answer wins, whatever the epochs of
its lines say, although `redis_client.h:37-39` says that "the one with higher configuration epoch wins"
(`AsksOwner` is exact about it: another server than the owner is asked just when a claim is listed after the owner's;
the topologies of `channel_pools` have both orders); a query that fails still ends in a comparison of the pools, so that the client may
go back to an older topology or to an empty pool (`redis_client.cpp:46`; `NewestUnlessFailed` excepts it); the
markers of moving slots claim slot 0 for the server that shows one (part of `Overruled`); a slot nobody serves keeps the position
of an earlier topology or goes to the first server; a call that outlives a sleep of the refresher may
give its channel to another ConnectPool, or dereference a null one. Not modelled there: a channel that cannot be
initialised throws a string literal that nobody catches (`redis_client.cpp:122`).

Of the server: a client is never answered, since nothing runs `done` (`server_impl.cpp:29`); the
program never calls `GtransportManager::init`; the default `call_rpc_method` drops the
callback and with it everything below the node (`brpc_service.cpp:30`; spelled out in
`CompletesUnlessSilent`); a node that needs a channel passes the check with the name of a redis
client and is refused a channel at run time. A ThreadPool made with no threads keeps its tasks
(`NothingLeftBehind` excepts it).

Not reached by the models: `check_suc_rpc_response` resets `response` and
then calls it (`redis_service.cpp:400`), in a branch that an answer from brpc does not take.

## 6. Not modelled

Nothing that synchronises or fails in the repository is left without a module. What remains outside:

- the cache manager: a stateless wrapper of libshmcache, which RedisKeys has as a function
  from keys to values, and Server as an initialisation that may fail without consequence;
- `register.h`: the classes of the known names of GraphBuild are registered; one that is not is a
  `LOG(FATAL)` while the graph is built (`graph_manager.cpp:46-49`), which ends the program;
- nodes that are skipped (`graph.cpp:24-29`) with their services: no class of the repository skips. GraphRun has them,
  as nodes that notify;
- two requests at once in one graph: contexts belong to a request, so requests meet only in
  the redis service's fetch_infos (RedisKeys), in the ConnectPools and in the channel pools;
- the sending part of two requests of one RedisService at once, which is a data race on a
  vector (RedisKeys lets one request at a time in);
- the answer to the client, which no code sends; gflags, glog and the unit tests.

Left out on purpose: the formatting of redis commands, HTTP and protobuf payloads, latencies and logs,
`util.cpp` (pure conversions) and the external libraries (brpc, hocon, libshmcache),
which appear only through what the code relies on.
