# A TLA+ model of DRIFT-LLM

DRIFT-LLM runs a large language model over a swarm: each server holds some of
the transformer blocks, a client routes hidden states through a chain of servers
that together hold all of them. This directory holds TLA+ modules that model the
parts of the program where processes, threads, sessions and failures meet, the
TLC configurations that check them on small instances, and TLAPS proofs for every
instance. `PROJECT.json` maps each definition to the lines it models.

## The system

| Part | State | Operations | What makes it correct |
| --- | --- | --- | --- |
| Attention cache (`server/memory_cache.py`, class MemoryCache) | byte counters shared by processes, a lock, an event, a pipe to the runtime, tensors by handle | handlers allocate (with a timeout) and free; the runtime drains the pipe and uses tensors | counters exact on every exit path, budget kept, no lost wake-up, a step finds its tensors, every request ends |
| Paged cache (class PagedKVPool, `backend._paged_inference_step`) | stack of free pages, block table of each slot, page contents | register, free, gather, scatter, reorder | a slot reads back what an unpaged cache would hold; pages are not shared |
| Paged admission (`allocate_paged_slots`, `use_paged_pool`) | published page count, event, pipe | wait for room, register, free; drain, step | open sessions are usable, the pages of closed ones come back, the published count is exact |
| Task pools and runtime (`task_pool.py`, `block_functions.py`, hivemind Runtime) | submitted and ordered tasks, tokens, published priority, dispatched tasks | submit, order, choose, load, process, send | own result or exception for each request; the runtime never waits for a task that does not come |
| Inference session (`client/inference_session.py`, `iterate_rpc_inference`) | position, chain of server sessions with position and history; on servers prefix and cache | step, retry with replacement, go back, close | outputs are those of the whole prefix, whatever failed; a step ends |
| Connection handler (`handler.py`) | session queues, owner of each session, event queues, requests under way | open/close session, push, listen; forward, backward, time out | a step is processed once and in order; pushes reach only live sessions; ended sessions are forgotten |
| Routing (`sequence_manager.py`, `sequence_info.py`, `dht.py`) | block infos, spans, bans, ready flag, update thread | update, make_sequence, report failure or success | routes cover the blocks without gaps; an update is not lost |
| Forward/backward (`sequential_autograd.py`, `remote_forward_backward.py`) | spans done and their inputs | forward, backward, retries | every block once, gradients from the inputs of the spans used |
| Server life cycle (`server.py`, `run_server.py`) | announced state, blocks, container, announcer threads, p2p daemon | start, choose blocks, announce, rebalance, shut down | announcements follow the blocks that are served; nothing outlives the process |
| Registry (`server_registry.py`, `run_down.py`, `process_lifetime.py`) | records on disk, processes, pids | register, unregister, classify, stop, force | only servers are stopped; what is reported as stopped is gone |
| Disk cache (`disk_cache.py`, `file_lock.py`, `from_pretrained.py`, `peft.py`, the file of `throughput.py`) | links and blobs, shared and exclusive lock, throughput file | look up, download, evict, retry; measure | no file goes while it is loaded; the limit is kept as far as the look at the space reaches; the host is measured once; every load ends for which there is a way |
| API (`api/server.py`, `remote_generation.py`) | semaphore, streams, executor threads, sessions | request, stream, fail, disconnect | streams complete and in order, sessions not shared, every request answered |
| Block selection (`block_selection.py`) | throughputs of the swarm | choose blocks, decide to move | moving improves the weakest block and settles |
| Models, quantisation, tensor parallelism, reachability, argument parsing | | | numerical code, probes and formatting |

Parts meet as follows. A handler process accepts a client's stream, allocates the
cache (shared counters, lock and pipe of MemoryCache), and submits each step to a
task pool; the runtime, one thread of the main process, takes tasks from pools,
drains the pipe of the cache and runs the blocks. The client's session holds one
stream per server and the history of inputs it sent to it. Servers announce
themselves in the DHT, clients read it to route.

Hard behaviours: admission from several processes with timeouts and cancellation;
work and memory messages that travel separately; failure in the middle of a
chain; going back while servers keep longer caches; exhaustion of pages half-way
through an operation; steps that come twice and events that overtake one another;
a routing table that is stale while it is used; signals at any step of a server's
life and pids that are used again; processes that share files; polls that race
with the generation they poll. `PROJECT.json` lists them as hazards with their
lines.

## Modules

`MemoryCache` models `allocate_cache` at the grain of its awaits and of the
statements that other processes can see. `pc[r]` is the coroutine of a request,
`th[r]` its executor thread (which goes on when the coroutine is cancelled). A
handler process has one event loop, so between two awaits no other coroutine of
that process moves (`LoopFree`). Requests have a zero, a finite (`timed`) or no
(`unlimited`) timeout; a finite one may expire at any await. `Free` and
`SignalFreed` are `_free`; `SubmitStep` to `UseCache` the runtime. Taking the
lock in a thread is hivemind's `enter_asynchronously` (external): the thread is
not stopped by a cancellation once it has started.

`KVStore` says what a cache promises: rows, permuted, cut to a prefix, extended.
`PagedKVPool` models the pages, the stack they come from, block tables and the
three operations of a step, failures half-way included; `ImplementsKVStore` maps
`gather` to the rows of KVStore.

`PagedAdmission` keeps only the number of pages of each session and models the
protocol: published count, event, pipe, and the order of the statements of
`use_paged_pool`. The pages that a reorder had taken when the pool ran dry
(`ReorderRunsDry`) are in no block table: `lost` counts them, they stay in
`num_used_pages` and nothing brings them back.

`TaskPool` takes requests from `rpc_forward`, `rpc_backward` and their streaming
variants (checks, answer, `request_timeout` at any await) and inference steps
through the merged inference pool and a forward and a backward pool for each
block. An inference step is one task for all its blocks, or, when it has too many
tokens for that (`Merged`), a chain of one task for each block; these go through the
same pool, since `merge_inference_pools_inplace` puts it in the place of each
backend's own. A token and the task it stands for go different ways; the published
priority is tested and set in two steps; the task of a request that timed out
runs on. Hidden states are the list of blocks passed, a gradient the block and
the input it was computed from, so that a mixed-up result shows. What is wrong
with a request, or long about it (`quirk`), is chosen at first. Timestamps are left out: tasks of
equal priority come in any order.

`InferenceSession` models `step()` of the client with its chain of server
sessions, and the servers' side in the same record. A block maps the hidden state
of a position to the sequence of all states up to it, so an output shows
everything it was computed from. Routing is any assignment of blocks to servers
that are up. Server sessions end by timeout or exception (`EndSession`), requests
time out, servers crash and come back. With `ReuseAfterError` the user goes on
with a session after `step()` raised (finite `max_retries`).

`HandlerSessions` models the handler processes of a server: `_managed_session`,
the event queues between handlers (`events[from][to]`, in order for each pair
only), `_listen_to_event_queue`, `_iterate_inference_steps` with its two pending
reads, `rpc_push` and `shutdown`. A request is its step and the step its further
tensors belong to.

`SequenceManager` has the swarm (servers that crash, restart, move, announce and
whose records expire) and the client's view of it: `_update` in its two parts,
before and under the lock, the thread that runs it, bans, `ready`. Its actions
leave the batches alone. `SequentialAutograd` EXTENDS it with the coroutines of
`sequential_forward` and `sequential_backward`: each batch is a record with the
spans to go, those done, and the inputs kept; `Cut`, `AddSpan`, `Popped` and
`Returned` are the code's manipulations of these lists.

`ServerLifecycle` is one server process: the main thread by its place in
`serve`, `Server.run` and `ModuleContainer`, an announcer thread for each
container, the shared `server_info`, the daemon, the DHT's records. `Interrupt`
says what SIGTERM does at each place. `ServerHost` EXTENDS it with the host:
pids that are used again (`born` counts), records on disk, other processes, and
`drift down` step by step. It asks twice about a pid: is it alive (`FindAlive`), and
what is its command line (`ReadCommandLine`). Behind the pid there may be another
process by then, or the command line cannot be found out; then the pid counts as a
server, and `down.blind` remembers it.

`DiskCache` models processes that start on one host: the throughput file and its
lock (a save may fail, `SaveFails`), the index or the weights of a model that is not
sharded, each shard and adapter with its attempt under the shared lock and its
attempts under the exclusive one, removal of link and contents as two steps. The
Hub's cache (`IsCached`, `Download`, `Scanned`) is external: a look at the space does
not see a repository one of whose links is broken, which is the state that the
removal of a shared blob leaves. Nor does it ask for a file whose size the Hub does
not tell (`SizeUnknown`): a shard is downloaded without it, an adapter is tried again
and again. The histories `unchecked` and `misled` have what was downloaded without a
look at the space and after one that missed a repository. Access times are left out:
any cached file may be the oldest. A crash releases the locks and the process starts
again.

`ApiServer` models the event loop's handlers, the executor threads that run
`generate()` and the polls, the streamer's queue, the semaphore, and the
ContextVar of each thread.

The `*Proofs` modules hold the theorems about the module they are named after, and
the inductive invariants, and add nothing to the model (SequentialAutogradProofs
speaks of SequenceManager too, ServerHostProofs of ServerLifecycle). PagedProofs
is about PagedKVPool and PagedAdmission, SessionProofs about HandlerSessions and
InferenceSession, whose names are kept apart so that both can be extended (hence
`PoolNext`, `InferenceNext` and the like). The `MC*` modules only give values to constants. Definitions marked "Mutant", and
in DiskCache and ApiServer the ones just before the definition whose name they
extend, are plausible mistakes, used to see that each property can fail.

## Runs

| Run | Question | Result |
| --- | --- | --- |
| MemoryCacheSafety | two processes, three requests (zero, timed, unlimited), budget 2: counters, overshoot, steps find their tensors | holds |
| MemoryCacheLiveness | one process, unlimited requests: budget, device memory, no lost wake-up, every request ends | holds |
| PagedKVPool | two slots, two rows, pages of two tokens, three pages: no sharing, refinement of KVStore | holds |
| PagedAdmission | three sessions, four pages, reorders that run dry: the published count, open sessions, pages that come back | holds |
| TaskPool | an inference step in one task or block by block, a forward, a streamed backward over two blocks, with any flaw | holds |
| InferenceSession | two replicas of two blocks, three tokens, two failures: outputs, caches, first steps end, a misplaced session is never stepped | holds |
| InferenceSessionFailover | does every step complete? | violated |
| HandlerSessions | two handlers, a session with an id and one without, two steps, pushes, a shutdown: once and in order, none lost, none kept | holds |
| SequentialAutograd | two batches, two blocks, a server with both and one with either, which may move to the other, one fault: both passes right and finished | holds |
| ServerHost | two spans, one move, two pids, two births, one `drift down` without `--force`: announcements, stopping, orphans | holds |
| DiskCache | two servers, a sharded or another model, an adapter, files of unknown size, one failure of the Hub or of a save, one crash: locks, limit, measurement, end | holds |
| ApiServer | two requests, two threads, one permit, two pieces, one failure: streams, sessions, answers | holds |

Further configurations ask questions the program answers with no; each is a
finding in `PROJECT.json`, or a hazard, and is run by hand
(`tlc -config X.cfg MCmodule`):

| Configuration | Question (violated) |
| --- | --- |
| MemoryCacheBudgetRace | is the budget kept with two processes? |
| MemoryCacheLeakedLock | does every request end when timeouts expire? |
| PagedKVPoolLeak | are pages conserved? |
| PagedAdmissionStuckPool | does a server without sessions get room again? |
| InferenceSessionReuse | are outputs right when a session is used after an exception? |
| HandlerSessionsInputs | has a step answered from a push its own prompts and hypo_ids? |
| ServerHostOffline | does no record say ONLINE once a container is closed? |
| DiskCacheCorrupt | does a load end when a cached file is corrupt? |
| DiskCacheNeedless | is nothing removed for a file that is cached already? |
| DiskCacheOverLimit | does every download that looked at the space keep the limit? |
| ApiServerGate | do at most `max_concurrent` generations hold a session? |
| ApiServerHasty | does a stream stop at an empty poll only after a failure? |

Bounds. Two processes and three requests are the fewest in which one request
holds memory, one waits and a third races. Three pages of two tokens make both
growing and reordering run dry, and leave a page partly filled. In PagedAdmission
four pages, of which a session may need three, are the fewest with which a session
finds no room, runs dry and loses pages while another one still gets in. Three positions
let a session go back to a middle position and step again; two failures let a
replacement fail too. Two handlers are the fewest between which events travel,
two steps the fewest that can be mixed up. One server that may move from a block to
the other beside one that holds both makes every route of one and of two spans,
and records of before and after the move. Two births on two pids let a pid be
used by a server and by a stranger in either order. Two servers whose shards do
not fit together, one of them with two links, make eviction find what the other
one loads and a blob that is gone, and the broken link then hides the repository; with
a volume of four units the second shard has room once the first is removed, but not
beside blobs that no look at the space can see. Two requests for one permit and two threads
let a poll wait for a thread that a generation whose client left still has.
`MaxFailures`, `MaxFaults`, `MaxCrashes`, `MaxMoves`, `MaxBirths`, `MaxDowns`,
`MaxLength`, `MaxStep`, `NumSteps`, `PipeCapacity` and the sets of requests,
sessions and processes are the only bounds.

Fairness. Weak fairness of each coroutine, executor thread and the runtime: an
event loop or thread that can run does so. No fairness is assumed for clients:
they need not close a session, submit a step or go back (in MemoryCacheLiveness
sessions that hold memory are assumed to end, since a waiter depends on that). In
`InferenceSession` crashed servers come back, which the retries of the client
rely on; giving up has no fairness. Locks are assumed to be granted to someone,
not in order. `TaskPool` only assumes that something goes on while something can
(requests take finitely many steps), and counts on no timeout. In
`SequentialAutograd` servers come back and announce themselves, stale records
expire and faults are finitely many; without that no retry helps. No ban is
assumed to end: a block whose servers are all banned keeps them. In `ServerHost`
a `drift down` that was started goes on; nothing is assumed of the server it stops. In `DiskCache` every process goes
on, crashes and failures of the Hub and of saves are finitely many; taking
blocks.lock is strongly fair: flock queues those that wait, and a server whose
attempts fail sleeps without the lock. In `ApiServer` the event
loop and the executor's threads run, and `generate()` ends; clients may stay or
leave.

What the violated configurations show. (1) `_lock_acquire_memory` is released before the
size is committed, so two processes can pass the test. (2) A timeout that expires
in `enter_asynchronously` can leave the lock taken for good; later requests,
those with timeout 0 included, hang. (3) A reorder that runs out of pages loses
those it took. (4) Pages of a closed session come back only with another
session's step; a full pool whose last session closes admits nobody. (5) A
replacement for a server that fails after the first step starts at position 0,
and the position assertion rejects it on every retry, so attention caches are
never regenerated; by `MisplacedNeverSteps` no route and no retry helps, and no
step passes the replacement. (6) After an exception the history of the failed step stays;
a step of the same length is then answered from the old tokens. (7) A step
answered from a push runs with the prompts and hypo_ids of the session's first
step. (8) OFFLINE may be set after the announcer declared ONLINE and before it
tests the state: the record stays until it expires. (9) A corrupt file in the
cache is found again by every attempt and never downloaded again. (10) Space is
freed for a file that another server has downloaded meanwhile. (11) A client
that leaves gives its permit back while its generation goes on. (12) An empty
poll just before the normal end drops the last pieces of a stream. (13) A blob that
two revisions link is removed with one of them; the other's link hides the whole
repository from the next look at the space, and the next download exceeds
`max_disk_space`.

What holds only with exceptions. `NoOrphanPages` and `ClosedSessionReclaimed` are
about the pages in block tables; the pages of (3) are in none and never come back.
`HarmsOnlyWhatItSaw` excludes the pids whose command line could not be found out,
for which the code goes by liveness alone, as the docstring of `process_command_line` says: a
stranger that has such a pid is ended. `LimitKept` is about what was downloaded after
a look at the space that missed nothing; `MeasuredOnce` allows one more measurement
for each crash, forced evaluation and failed save. `EveryLoadEnds` leaves out a server
for whose file there is no way (`NoWay`): the adapter of unknown size, for which the
sum in `load_peft` raises TypeError on each attempt; a shard of unknown size for which
nobody makes room; and a file that does not fit beside the blobs that no look at the
space can see, and so none can remove. Each of the three is needed: without it TLC
finds a server that tries for ever.

## Proofs

Theorems hold for all values of the constants that satisfy the named ASSUME of
their module (finite sets of processes, requests or files, numbers in range)
and, where it is said, a hypothesis of the theorem. Every safety invariant of a
module is derived from an inductive one, called `Inv` (`AdmissionInv` and
`InferenceInv` for the second component of PagedProofs and SessionProofs, `IInv`
in SequentialAutogradProofs; in MemoryCacheProofs there are three, one on top of
the other; MeasuredInv and LimitInv in DiskCacheProofs are beside it). A proof
has a lemma for each action, or for actions of one effect, and a lemma that puts
them together (`NextKeepsInv`, `NextInv`, `InferenceNextInv`).

`MemoryCacheProofs`:

- `AccountingIsExact`: both counters are the bytes of the requests in certain
  states. The bytes of a set of requests are a set of pairs, so that a sum is a
  cardinality, and the lemmas `BytesAdd` and `BytesRemove` say how it changes
  when one request enters or leaves the set.
- `OvershootIsBounded`: not inductive as it stands, since what has been promised
  is not yet counted. `AccountInv` adds that whoever waits for memory has the
  lock (`LockInv`), that a process has at most one request between its check and
  its commit (`OnePerProcess`: between the two its loop yields only while it
  waits with the lock), and that the memory in use and the memory promised
  together stay within the bound (`PromiseInv`). A request that passes the check
  saw `current_size` within the budget; the other requests with a promise are of
  other processes, one each (`BytesOfDistinctProcs`).
- `OneProcessKeepsBudget`: the same with one process, where nothing is added.
- `HeldCacheAlwaysUsable`: `CacheInv` says that handles of two requests differ
  and lie below the counter (`HandleInv`), that the handles of a request that
  holds its cache are in the tensors or in one creation in the pipe, with no
  deletion of them there (`UsableInv`), and that only requests that got a cache
  have steps (`StepInv`).
- `OneProcessKeepsDevice` and `DeviceOvershootIsBounded`: what the runtime has
  on its device is what the requests held some time ago. `DeviceInv` keeps a
  history of sets of requests, one for each message in the pipe: the first is
  what the device has, the last what the requests hold now, each step of it one
  message, and each of them kept the bound when it was the present.

`PagedProofs`, PagedKVPool: `NoPageShared` and the refinement `PoolImplementsStore`.
`Inv` says that no page occurs twice on the stack (`Once`) or in a block table
(`Separate`), that no two slots have one in common (`Apart`), that the stack has
none of them (`Unused`), and that the pages of an open slot hold a token for each
position of its prefix (`Holds`). `free_slot` and `reorder` give the pages of several
rows back in one sequence, which `FlattenSeq` makes by a recursive function (as
`Through` is). That such a function exists and what it is is shown by induction over
natural numbers, done with sets: a set of numbers that is not empty has a least
element (`LeastNumber`), so one that has 0 and with each number the next has all of
them (`NumbersByInduction`). For the refinement, `Kv` maps each open slot to what
`gather` returns for it. A step reorders, grows and writes: after `reorder` each row
gathers the row it was told to copy, cut to the prefix, after `scatter` the new
tokens follow; nothing else is touched (`KvElsewhere`), so that the whole step is
one of KVStore. A step that runs out of pages is KVStore's `Lose`.
`PoolTypeCorrect` is the type invariant.

`PagedProofs`, PagedAdmission: `TotalPages` never exceeds the pool, and the published
count is `TotalPages` unless the runtime is in a step (`CountExact`); both count
the pages that reorders lost. For each
session `PipeOK` says what the pipe may hold of it: nothing before it is
admitted, no `paged_free` before it is closed, and then no registration after
the last `paged_free`. With `SessionOK` (an open session is registered or its
registration is in the pipe; a closed one that is registered has its
`paged_free` there) follow `OpenSessionsServed` and `PagesComeBack`: a closed session
that still has pages in its block table has its `paged_free` on the way, and pages
that are in no block table are those that a reorder running dry has left.

`TaskPoolProofs`: a task is in at most one place of one pool (`OnePlace`);
tokens and the tasks between `put` and the token are together what waits
(`Balanced`), and the runtime holds a token for the task it is about to load
(`RuntimeInv`), which gives `RuntimeNeverStarves`. `ResultsAreRight` needs
`ChainInv`: the inputs and gradients a request has in hand are those of the
blocks it has passed, and its task asks for the next one; `OutputsInv` says that
a dispatched task has one outcome. A task whose request timed out runs on with
its own inputs.

`SessionProofs`, HandlerSessions: `AnswersInOrder` is not inductive because a step may
come twice, from the client and as a push, by any handler and late. The
invariant says that what waits for a session, in its stream, its queue or an
event on its way, is at most its next step (`Timely`, in `SessionOK` and
`EventInv`), that `processed` is the set 1..n of the n responses, and that a
handler that takes a session for its own serves it and has a queue for it
(`OwnerInv`).

`SessionProofs`, InferenceSession: `InferenceInv` is `InferenceTypes`, `OutputsRight`
and `Progress`. Between steps every session rests: its position is that of the
client, its history is `Through(tokens, start)`, its server, if it is up, has cached
that, and nothing is asked or on its way (`Resting`). In a step the inputs are the
hidden states of the step at the block reached, the sessions before the one in turn
have `Passed`, those after it rest, and the one in turn (`InTurn`) has the history of
before or after the step, and a request or an answer only if it is the right one
(`Working`). Or a session was replaced after the first step: then the one in turn is
at position 0, and silent (`Stuck`); that this case is needed for the invariant to be
inductive is finding (5). What a server computes from its cut cache and the inputs is
`Through` of the whole prefix because a block maps a prefix to a prefix
(`ThroughPrefix`) and blocks compose (`ThroughThrough`), both by the induction
described above. A new route is a chain over the same blocks (`SpansOfRoute`,
`ReplaceChain`) on servers that hold them (`SpansServe`). This gives `SessionOutputs`,
`SessionCaches`, `InferenceTypeCorrect` (with `Routed` on top of the invariant) and the
action property `MisplacedNeverSteps` (`SessionDeadEnd`): a misplaced session is one
that is stuck, its replacement starts from 0 again, and no other action touches its
position. All of them have the hypothesis `~ReuseAfterError`, the user leaves the
session after an exception; without it `OutputsRight` is false (InferenceSessionReuse,
finding (6)).

`SequentialAutogradProofs`: `TableInv` says that the table is one set of spans,
each listed under each of its blocks, as `compute_spans` and `_sort_spans` leave
it; so a span that is not listed at the next block ends there, and another one
starts or goes on there (`SearchNeverStuck`). `RouteInv` says that the route
being made is connected and short of the end. For each batch `Path` leads from
`index` to its end over the spans to go, `Chain` over those done, each with all
blocks before it as inputs, and the gradients are those of the last blocks in
descending order; while forward runs again for a backward pass (`replay`), the
requests done before and the new ones after them lead to `index`.
`RoutesAreConnected` and `PassesAreRight` follow.

`ServerHostProofs`: `AnnouncerInv` (only the announcer of the present container
runs, with the blocks of the present span), `DaemonInv` (where there is a guard,
it is armed before the daemon is started), `DownInv` (what `drift down` knows of
a pid holds for as long as the pid has not been used again: what it took for live
was a server when it looked, or its command line was not found out). They give the
three invariants, and the action property `DownHarmsOnlyWhatItSaw`.

`DiskCacheProofs`: `LockInv` (readers or one writer, by the places of processes)
gives `LocksProtectFiles`, which is part of the invariant. `HostMeasuredOnce`
rests on `MeasuredInv`: a key was measured as often as there were crashes,
evaluations and failed saves, and once more only if it is known, to the file or to
the server that rewrites it. `DiskLimitKept` rests on `RoomFor`: the file a server
makes room for fits beside what counts and is not about to be removed, unless its
size is unknown or the look at the space missed a repository, and then its contents
do not count. It has the
hypothesis `IndexAlone`: no other file has the contents of the index. The index
is downloaded under no exclusive lock and without a look at the space, so a file
that shared its contents could be counted among what is freed and be there
again; TLC finds that when the hypothesis is dropped. Files of a checkpoint
other than the index are tensors, and contents are named by their hash.

`ApiServerProofs`: a request has at most one generation and at most one poll in
the executor (`JobsOK`); what was sent, what a poll brings and what is in the
streamer is, in this order, what was generated, unless the stream stopped at an
empty poll (`StreamOK`); permits and the streams that have one add up to
`max_concurrent` (`PermitInv`); the session in a thread's context is that of the
request it runs (`SessionInv`).

TLC only: liveness, whose proof needs ENABLED: `WaiterIsServed`,
`EveryRequestResolves`, `ClosedSessionReclaimed`, `EveryRequestAnswered`,
`FirstStepCompletes`, `EndedSessionsForgotten`, `RequestsAnswered` (of HandlerSessions
and of ApiServer), `AllPassesEnd`, `DownStopsServers` and `EveryLoadEnds`. Every
invariant and every other action property of a run that holds is a theorem. The type
invariants are theorems and in no run.

## Plan

Left: what `InferenceSession` keeps when the user goes on after an exception (the
invariant above without its hypothesis, with histories that may be those of a step
that failed); block selection over integer throughputs, to ask whether servers that
move settle; the prompts and hypo_ids of a step beside its hidden states, which
HandlerSessions tells apart only for finding (7).

## Not modelled

Numerical code (blocks, quantisation, tensor parallelism, adapters), measurements
and network probes, argument parsing, logging and formatting. Block selection is
arithmetic on floating-point throughputs with tolerances: the server chooses any
span, and whether a swarm settles is not asked. The search for a route of least
latency is left out, any route of the graph may be taken. `Server.__init__` is
two steps: what starts the daemon, and the rest. On Windows SIGTERM ends a
process at once, which is the kill of the model. Deep prompts,
per-layer inputs and shared keys and values are passed along with hidden states
and left out. Sizes are natural numbers: `c_int64` counters hold bytes of device
memory and do not overflow, the handle counter is noted in the code to be allowed
to. `KVStore` leaves the tokens that a step appends arbitrary, so that the refinement
compares what a cache retains, not whether the new tokens are the step's. The
timestamps of task pools are left out, so that the order among tasks of equal
priority is any; every task of a pool has the same priority, and that inference goes
before forward and backward is the Runtime's choice (external) by two constants, of
which no property is stated. `PagedAdmission` lets the runtime read the pipe at the
start of a task only, not again between its blocks.
