# Verification of kube-rs

This directory is a TLA+ development of [kube](../src/README.md): the concurrent core
of `kube-runtime` that keeps controllers going, the client with its configuration,
credentials, methods, discovery and websockets (`kube-client`), and what `kube-core`
and `kube-derive` contribute to them. The modules translate the Rust source, the
configurations (`*.cfg`) check them with TLC on small instances, and the `*Proofs`
modules prove the most important properties for every value of the constants with
TLAPS. `PROJECT.json` maps each definition to the source lines it stands for and lists
runs, mutants, hazards and theorems.

## The system

A controller is a pipeline of streams, almost all of it inside one task:

```
 API server --LIST/WATCH--> watcher --Event--> reflector --> EventFlatten --> trigger_self --+
                                                  |                                          |
                                                Store <---- run_msg reads the object         |
                                                  |                                          v
 other watches --> EventFlatten --> trigger_owners / trigger_others ------------> select (inner)
                                                  |                                  ^       |
                                             ready gate                reschedule    |       v
                                                  v                    channel       |   SplitCase
 consumer <--- select(errs, via) <------------- Runner <--- Scheduler <--------------|-- Ok  Err
                                                  |  one future per object           |
                                                  +---> reconciler ---> Action ------+
```

| component (source) | state | operations | what is hard | what makes it correct |
|---|---|---|---|---|
| `scheduler.rs` | DelayQueue, map message -> metadata, set of held messages | `schedule_message`, `poll_pop_queue_message`, polls of `Scheduler` and `HoldUnless` | queue and map kept in step by hand, slab keys are reused, predicates change between polls | deduplication, earliest request wins, nothing lost, emitted once and never early |
| `controller/runner.rs`, `future_hash_map.rs` | slots, readiness gate, flags | `poll_next` | looks at four sources that change under it, must leave a waker with each | one future per message, gate respected, no lost wakeup, drains at the end |
| `watcher.rs`, `client/mod.rs` (`request_events`) | `State` (Empty, InitListed, Watching), resource version | `step_trampolined` | reconnects, expired versions, bookmarks, undecodable events, stale lists | no change is skipped or resurrected, progress after every error |
| `reflector/`, `utils/event_flatten.rs` | the map behind the `Store`, the queue of a restart | `apply_watcher_event`, `EventFlatten::poll_next` | a restart replaces the map at once and is handed out piece by piece | store = one version of the collection, what is cached is reported |
| `controller/mod.rs`, `utils/mod.rs` | `select`s, `Peekable`, `SplitCase`s, reschedule channel, shutdown | `applier`, `trigger_*`, `RescheduleReconciliation`, `Controller::run` | several streams and channels in one task, wakers, ordering of store and trigger, shutdown | level triggering, retries kept, shutdown completes, errors get out |
| `utils/delayed_init.rs` | receiver or memoized value under a mutex | `init`, `get` | many readers of a channel with one waker | a reader that waits is released |
| `finalizer.rs` | none; the object's finalizer list at the server | `finalizer` | stale object, concurrent writers, JSON patches by index | cleanup before deletion completes |
| `utils/stream_backoff.rs`, `backoff_reset_timer.rs` | sleep / given up / awake; last backoff | `poll_next`, `next_backoff` | time | a failing stream is not polled early and is resumed |
| `wait.rs` | none | `await_condition`, `delete_and_finalize` | deletion and recreation between calls | Ok means gone, and it is returned |
| `api/entry.rs` (client) | cached object, dirtiness | `get`, `and_modify`, `commit` | conflicting writers | lost update is detected |
| `api/portforward.rs`, `api/remote_command.rs` | channels over one websocket | message loops | closing handshakes, back pressure | loops end, nothing misrouted |
| `api/core_methods.rs`, `api/subresource.rs`, `api/util/`, `client/mod.rs`; `kube-core`: `request.rs`, `params.rs`, `subresource.rs` | none; the object at the server | some 45 methods, each a request, an answer and a decoder | options that travel in query or body, lost answers, proxies, stale reads | carries out what was asked, and says what happened |
| `client/auth/` | token and expiry under a lock | `Auth::try_from`, `to_header` | tasks that refresh together, rotated refresh tokens, dropped futures | an expired token is never sent when it can be refreshed, nobody waits for ever |
| `config/` | the merged kubeconfig | `Config::infer`, `merge`, `load` | entries of equal names, fallbacks | the first file wins |
| `discovery/`; `kube-core`: `version.rs`, `discovery.rs`, `crd.rs`; `kube-derive` | the cache of groups | `run`, the oneshots, the queries of `ApiGroup`; `crd()`, `merge_crds` | a sequence of requests against a server that changes | the cache is what was served; queries agree |
| `utils/stream_subscribe.rs`, `utils/predicate.rs`, `events.rs` and others | | | | not modelled, see below |

`PROJECT.json` lists every component with its status; the hazards listed there are the reason for the
properties below.

## Modules

| module | models | built on |
|---|---|---|
| `Scheduler` | state and operations of the Scheduler | |
| `DueQueue` | abstract: what the Scheduler promises | |
| `Runner` | the Runner with its slots, gate and wakers, and the polls of the Scheduler inside it; implements `DueQueue` | `Scheduler` |
| `ApiServer` | external: a collection as a log of changes | |
| `Watcher` | watcher and `request_events` | `ApiServer` |
| `Reflector` | store and `EventFlatten` behind a watcher | `Watcher` |
| `DelayedInit` | a value that is written once, and its readers | |
| `Readiness` | a reflector and the tasks that wait for its store | `Reflector`, `DelayedInit` |
| `Controller` | the whole task of a `Controller`: triggers, `SplitCase`, Runner, reschedule channel, shutdown | `Runner` |
| `StreamBackoff` | `StreamBackoff` with `ResetTimerBackoff` | |
| `Triggers` | the trigger streams of a Controller in one `SelectAll` behind one backoff | `StreamBackoff` |
| `Finalizer` | `finalizer()` against a server and other writers | |
| `Wait` | `delete_and_finalize` while the finalizer's controller works | `Finalizer` |
| `Entry` | `Api::entry`, `OccupiedEntry::commit` against a server and other clients | |
| `Portforward` | the loops of a `Portforwarder` | |
| `RemoteCommand` | the loop and the handle of an `AttachedProcess` (exec, attach) | |
| `Requests` | `Request`'s builders and the parameters of calls (operators only) | |
| `ApiMethods` | the methods of `Api` and the decoders of `Client`, against a server that others write to | `Requests` |
| `Config` | `Config::infer` | |
| `Auth` | `Auth::try_from`, refreshable tokens, the auth layer | |
| `Client` | `Client::try_default`: configuration, building, the requests of several tasks | `Config`, `Auth` |
| `Versions` | parsing and orders of API versions (operators only) | |
| `Crds` | derived definitions, `merge_crds`, `ApiResource` (operators only) | |
| `Discovery`, `MCDiscovery` | `Discovery::run`, the oneshots, the queries, while definitions change | `Versions`, `Crds` |
| `ControllerProofs` | theorems on the Runner and on the Controller, lemmas on the operations of `Scheduler` | `Controller` |
| `StreamProofs` | theorems on the watcher with its store, and on the trigger streams | `Reflector`, `Triggers` |
| `ApiProofs` | theorems on the methods of `Api`, and on the order of versions | `ApiMethods`, `Versions` |
| `WaitProofs`, `EntryProofs`, `ClientProofs`, `PortforwardProofs`, `RemoteCommandProofs` | theorems | the module of the same name |

Conventions. A poll runs on one thread, but what it looks at belongs to others; a
`poll_next` is therefore cut into one step per look at shared state (a request
drained, a slot polled, the gate polled, an expired entry popped), and `phase`
records where it stands. A definition `X_Something` is a wrong variant of `X`, a
slip the code might have had; `PROJECT.json` pairs each with a property that must
notice it.

### Scheduler, DueQueue

`queue` is tokio_util's `DelayQueue` (external): a slab `Key -> item` that hands out
any item whose deadline has passed, in any order. `scheduled` is the metadata map and
`pending` the `HashSet` of messages that expired when they could not be taken. `now`
is tokio's clock. The refinement mapping to `DueQueue` sends a held message to due
time 0, a scheduled one to its `run_at`.

### Runner

`slots[m]` is the future of message `m`: `running`, or `done` when it has finished
and was not polled since. `wakers` is the set of sources that hold the task's waker;
a source that fires uses it up, and `woken` says that the executor owes the task a
poll. `PollNext` is also enabled when the task was not woken: a Runner shares its
task with other streams. `gate` is `ready_to_execute_after` (fused after it is
consumed).

### ApiServer, Watcher, Reflector, DelayedInit, Readiness

The collection is the `log` of its changes; a resource version is an index in it, and
a change of another collection (`Foreign`) only moves the version. `Compact` closes
the watch window from below. An object of the collection is represented by the version
that wrote it, which is all that the properties distinguish. The actions of `Watcher`
are the branches of `step_trampolined`, with `request_events`' treatment of the HTTP
body: a refusal is a stream as well, an unexpected end of file is no error, a line
that does not decode is an error of that line only. `GoneAs` selects how the server
refuses an expired version: as an event of the stream (what the Kubernetes server
does for most requests) or as an HTTP status. `Reflector` applies each item to the
store in the poll that yields it, and `EventFlatten` hands the objects of a restart out
before it polls again. `Readiness` adds who waits for the store: the first event resolves
the oneshot of `DelayedInit`, the drop of the Writer fails it. `Get::poll` holds the mutex
throughout, so each poll is one step, by what it finds: nothing yet, a value in the oneshot,
a memoized value. The oneshot (futures) hands its value out once and keeps the waker of its last
poll. A reader is outside of `get`, asleep or woken; polls may also be spurious, and a reader may
give up.

### Controller, Triggers

One task: `select` polls `errs` and `via` in turns, both are `SplitCase`s on one
`Peekable` (`peeked`), and `via` is a Runner whose requests are the Ok items.
`InnerYields` is one item of `inner`: an event of the watches (`feed`) passed through
store and `EventFlatten`, a related object mapped to its owners or to others, a stream of
`reconcile_on` or `reconcile_all_on`, or a message of the reschedule channel (`requests`).
An error of the feed starts the trigger backoff, during which only the channel is read.
`FinishReconcile` frees the slot and sends what the Action or the error policy asked
for. `Shutdown` is `graceful_shutdown_on`, `ForcefulShutdown` the outer `take_until`.
`seen`, `owed` and `version` are history variables.

`Triggers` has the detail that `Controller` abstracts to one pause: the `SelectAll` of the
streams (futures, external) with its line of woken streams, inside `StreamBackoff`.

### Finalizer, Wait

The server keeps every version of the object (`versions`); the reconciler works on
`obj`, the version that the store held when it was called, which may be old. The
function is cut at its awaits: `applying` and `cleaning` are the user's closures,
`patching` the request. A patch is a list of tests and one change, evaluated by the
server when it gets to it. When the call is interrupted (`Interrupted`: crash, dropped
future, lost answer) its patch is lost or stays on its way (`Orphan`), to be handled at any
later time, after any number of deletions and recreations. `dirty` records the incarnations
whose Apply was started and whose Cleanup has not succeeded since, `stripped` those whose
finalizer was taken by a patch made for an earlier incarnation. `Preset` are the finalizers
that users may list when they create the object. `Wait` adds one caller of
`delete_and_finalize`, who sees the object through `watch_object`: the latest version when the
watch starts, then the next ones, or again the latest if the watch expired.

### StreamBackoff

One step per poll. A clock that ticks, the inner stream answers what it likes. The
strategy is the `ExponentialBackoff` that `DefaultBackoff` configures, in small numbers
(the interval doubles from 1 to 2, the reset duration is 5, more than the longest delay of
4, as 120 s is more than 60 s); it may also give up, which other strategies do.
`quiet_until`, `streak` and `last_error` are history variables.

### Entry

Objects carry the set of edits that went into them, so that a lost update is an edit
that was acknowledged and is missing. A commit is a validation, a request (`requests`,
handled by the server in any order, perhaps after the commit was cancelled) and an
answer. Dry runs answer without storing.

### Portforward

Bytes are numbered chunks. `channel` is the bounded channel between the loops (one
place per sender besides the buffer); the three kinds of loops take one step per
message. `task` is the `try_join3`: the first loop to fail ends it.

### RemoteCommand

One task selects between the server's messages, stdin and terminal sizes; `loop` says
where it stands: in the `select!`, in a `write_all` to an output's pipe (byte by byte, as
the pipe has room) or in a send. In the last two it looks at nothing else. `ends` is the
client's side of each stream: still in the handle, taken, or dropped. `join` consumes the
handle but keeps what was not taken in it alive until the task ends. `got`, `sent` and
`produced` are history variables.

### Requests, ApiMethods

`Requests` keeps of an HTTP request what the server can tell apart: verb, collection, name,
subresource, the query as a set of pairs, accepted and sent types, body. Parameters are
records that the builders' methods change, and each builder validates them (`Invalid`
otherwise). `ApiMethods` has one operator per method of `Api`, which gives the request, the
decoder and, for the properties, what the caller asked for (`wants`; `unheeded` are the wishes
that the server cannot read, which only `evict` has). A call is sent, handled by the
server (external: it reads the request and nothing else), answered by the server or by a
proxy (with a failing status of `ProxyStatus` and no Status object), decoded; the connection may break before or after it was handled, and others create
and delete objects between any two steps.

### Config, Auth, Client

`Config` reads file after file (`docs`), merges each into `kubeconfig`, and loads the context
that the options or the files select, with the cluster and the user of the context unless the
options name others; every failure falls back to the pod's configuration. Entries are told apart
by the file they come from. `kind` stands for `kind` and `apiVersion`, which `merge` compares
alike. `Auth` makes the credentials of an
`AuthInfo` of every kind; a request of a task is cut at its awaits (the lock, the plugin, the
provider's endpoint, its answer), may be dropped at any of them, and several tasks share the
token. Expiry is a time on a discrete clock. `idp` is an OpenID provider (external) that
rotates refresh tokens, `disk` the token file, which the kubelet rotates. `Client` composes
both: what was loaded decides how the client authenticates.

### Versions, Crds, Discovery

A version string is given by what the parser looks at. `Crds` has the definitions that the
derive macro generates for a type's attributes and their merge; the types that are merged may
differ in plural, singular, status and scale. `Discovery` runs request by
request (`ListApiGroups`, `ListResources` for each version of each group, the core group
last), any of which may fail, while an operator applies merged definitions and deletes them;
`served` and `kept` are history variables. `pinned_kind` and `pinned_group` are one
request each.

## Runs

| run | instance | question | result |
|---|---|---|---|
| `runner` | 2 messages, 2 keys, clock 0..1, 2 requests in flight | do queue and metadata agree? is a running future ever replaced, or dropped after it was polled? does anything start before the gate, does a Runner sleep that has work? does the stream implement `DueQueue`, do due messages run? | safe; live under fairness |
| `reflector` | 2 objects, 2 changes, undecodable objects, bookmarks, quorum lists, 2 readers | is the store always one version of the collection, never an older one than before, and does it converge? is what it caches reported, is the reader that polled last released? | yes; live under fairness |
| `controller` | 1 object, 1 feed item at a time, versions to 2 | is an update, a touch or a retry ever lost? does a graceful shutdown complete, and does an error ever hold the watches up for good? | never; yes under fairness |
| `finalizer` | 3 writes of others, stale objects, interruptions, 1 patch that outlives its call, 1 `delete_and_finalize` | is an object ever gone uncleaned (unless its finalizer was taken by a patch for an earlier one), another's finalizer removed? does a deletion complete, and does Ok mean that it has? | never; yes under fairness |
| `triggers` | 2 streams, clock 0..10, interval 1 to 2, reset after 5 | is a failing stream polled during its pause, can an item reset the interval, does a failing stream starve another? | never |
| `entry` | 2 clients, 2 edits each, 3 versions | is an acknowledged edit ever lost, does a clean entry differ from what was stored, is another object written? | never |
| `portforward` | 2 ports, 2 chunks, 2 frames, pipes of 1 | do chunks stay in order, is the Close last? does every port see the pod close, does `join` return? | yes; live under fairness |
| `remote_command` | pipes and connection of 1, 2 bytes of output, 1 of input, 1 resize, all valid `AttachParams` | is output ever lost or out of place before the status, or input before the Close? does `join` return once all attached output was taken? | never; yes under fairness |
| `api` | 2 namespaces, 2 writes, all methods, parameters made by up to two builder calls, evictions with both kinds of options | does a dry run change anything, does a call write what it was not meant for (`delete_options` of `evict` excepted), does a Result say what did not happen, is a read older than asked for? | never |
| `client` | 2 files, 2 users, options for context, cluster and user, 2 tasks, clock 0..6, tokens that live 3 at most | does another file than the first win, is a stale token sent or a rotated one lost, can tasks wait for ever? | never; live under fairness |
| `discovery` | 3 versions of two kinds, one of them beyond `u32`, types with equal and with other plurals, an aggregated group, 2 changes | does the cache hold what was never served or miss what always was, do queries, priority and oneshots disagree, does a merged definition not serve a type under the stored type's plural? | never |
| `gcp_refresh` | 1 task, a gcp provider with a cached token and no command | does the kind of credentials never change, as the comment says? | it does (finding) |

**Bounds.** `MaxTime` caps the clock. When the clock has stopped nothing more is
delayed, so a request for "one millisecond from now" is due at once; the same
behaviour is reached with a tick between the two steps, so no order of events is
added. Two messages and two keys are what reuse of slab keys and interference between
messages need: the code never relates three. Two requests in flight allow a request
to arrive for a message that is scheduled, held or running. Two changes of two
objects contain the cases the watcher distinguishes: changed, deleted, recreated,
moved on by another collection, skipped. Three changes were checked once with one reader
(223,000 states), and once with two readers and one object (234,000): same result. Two readers
are one that has the waker and one that lost it. The Controller is checked with one object
(two exceed 25 million states); what happens between objects is the Runner's and the
Scheduler's part, where two are used and the theorems cover any number. One feed item is
in the pipe besides the one peeked; items arrive again and again. `reflector`
uses quorum lists because `NeverGoesBack` needs them; that the store is one version
also with lists from caches is part of the theorem `StoreIsAccurate`. Three writes are
as many as a deletion, a recreation and a change by another controller (or the second deletion)
take; one late patch is enough to meet the wrong incarnation. In
`Triggers` two errors reach the longest interval, and the clock goes past a reset
duration after that; two streams are one that fails and one that waits. Two clients with two edits each, and two requests
in flight, contain every conflict: create against create, replace against replace, delete and
recreation, a late request against a later one. Two chunks over two ports are two on
one port or one on each; the channel has 2 places, as many as block its senders (the
4 of the code were checked once: 10 million states, same result). In `RemoteCommand` a
message of two bytes does not fit into a pipe of one, and one message blocks the
connection, so every await of the loop does block. In `ApiMethods` every sequence of calls is
reached since a call leaves nothing but the server's state behind; two writes replace an object
by another one between a read and a write. In `Client` margins and lives keep the order of the
code's (10 s < 60 s < a token's life), two tasks are enough to hold and to wait for a lock, and
two rotations let a task use a token that the other has replaced. Two changes in `Discovery`
let a definition vanish and another appear within one run; `U32Max` is 8, so that version 9
stands for the ones that do not fit.

**Deadlock** is checked where the system never stops. `CHECK_DEADLOCK FALSE` for the
Runner, the Controller, Portforward and RemoteCommand, whose streams and tasks end, for `Wait`,
`Entry`, `ApiMethods` and `Discovery`, where nothing need be left to do once writes and changes
are used up, and for `Client`, which ends when it cannot be built and when the clock stops.

**Fairness.** The executor polls a woken task (`WF` of the woken poll) and a poll runs
to its return (`WF` of its steps): this is what tokio provides for a task that does
not block. Time passes. A reconciler that was started returns, and the gate resolves:
these are obligations of the user's code and of the server, without which no stream
could end. For the watcher, a LIST, the start of a WATCH and the delivery of an event
that are tried again and again succeed in the end (`SF`): the server is not down for
ever. An event at a given position of the log counts as delivered also if it does not
decode. Nothing is assumed of the arrival of watch events in the Controller. For the
finalizer, the reconciler is called again while something is due, its closures return,
Cleanup succeeds if it is tried again and again, and the server handles requests. For
port forwarding, the loops run, a client reads what its open stream holds or drops it, and
the server answers a Close. For a remote command, the loop runs, a client reads what it
took or drops it, the server reads, and the process exits. Readers of
`DelayedInit` that were woken are polled, the sleeping ones need not be; that their value comes is
no assumption but follows for the reflector. The pause of the trigger
backoff ends, and `Triggers` is polled. For the client, the locks of tokio are fair (`SF` of
`Acquire`), a plugin ends, and a provider answers or the connection to it breaks.
`DueMessagesRun` also assumes polls that return, because the drain loop in `HoldUnless`
has no budget.

## Finding

*A gcp token that was cached in the kubeconfig cannot be refreshed* (`gcp_refresh`). A gcp
provider with `access-token` and `expiry` and without `cmd-path` becomes
`RefreshableToken::Exec` while that token is valid. When it expires, `to_header` builds the
credentials anew from the same `AuthInfo`; with the `oauth` feature the result is now
`GcpOauth`, which the match declares `unreachable!()` "because the token source does not
change" (`client/auth/mod.rs:221-224`). In all other runs `GcpCacheOnly` is `FALSE`.

## Where the code falls short of its docs

Other places where the models show that a promise does not hold in general. Each property named
here is stated so that it says exactly how far the code keeps the promise; without its exception
or condition TLC finds the counterexample that is told here.

- *A late patch of `finalizer()`.* "If `Event::Apply` is ever started then `Event::Cleanup` must
  succeed before the Kubernetes object deletion completes" (`finalizer.rs:75`). The patch that
  removes the finalizer tests the name at an index (`finalizer.rs:133-146`), neither uid nor
  resource version. If the call that sent it is dropped while the patch is on its way, Cleanup runs
  again, a second patch lets the object go, the object is created again and gets the finalizer
  and its Apply, and then the first patch arrives: it takes the finalizer of the new object,
  whose deletion completes without a Cleanup. `CleanedBeforeGone` and `FinalizedMeansGone` except
  the incarnations that this happened to (`stripped`), and nothing else.
- *End of the Runner.* "All running reconciliations are allowed to finish"
  (`controller/mod.rs:1093`). `poll_next` reads `has_active_slots` before its loop starts new
  futures; a poll that starts one and then sees the end of its requests ends the stream and
  drops that future (`runner.rs:91`, `:122`). The Controller spawns its reconcilers
  (`controller/mod.rs:1206`) with a handle that aborts when it is dropped
  (`utils/mod.rs:167-171`). `FuturesAreKept` says that a started future is never replaced, and
  never dropped once it was polled.
- *Several readers of one store.* The first event is to release "any calls to
  `Store::wait_until_ready()`" (`reflector/store.rs:86`). The oneshot keeps one waker
  (`delayed_init.rs:82`), and the reader that is woken wakes nobody: if one task waits, and
  another one polls after it, only the second is woken. `ReadersAreReleased` is stated of a
  reader until another one takes its place in the channel.
- *Options of `evict`.* A dry run "indicates that modifications should not be persisted"
  (`params.rs:637`), preconditions "must be fulfilled before a deletion is carried out"
  (`params.rs:659`). `Request::evict` puts its `DeleteParams` into a field `delete_options`
  (`kube-core/src/subresource.rs:109`), which the server does not know: a dry run in them evicts
  the pod, and preconditions and grace period are ignored. Only the dry run of `post_options`
  counts. `DryRunLeavesNoTrace` and `WritesOnlyWhatIsMeant` except just these (`unheeded`).
- *Plurals in `merge_crds`.* Its doc has group, scope and kind to be identical, and "This is always
  true for `CustomResource` derives" (`crd.rs:65-70`); nothing is said of plurals, which derives
  may set, and which are not compared (`crd.rs:113-128`). Types with different plurals are merged,
  and those that do not agree with the stored one are not served at the path that their own
  `ApiResource` names. `TypesAreServed` says which are. It also says that a scale of a type
  without a status is left out silently (`custom_resource.rs:436-447`).
- *Groups without versions.* "These queriers ignore groups with empty versions"
  (`apigroup.rs:75`). `query_apis` returns `EmptyApiGroup` for one (`:82-84`), which ends the whole
  run: one aggregated group without versions makes discovery of all others fail. `CacheIsTrue`
  is about runs that succeed.
- *A peeked error before the store is ready.* `SplitCase` leaves no waker when it rejects an
  item (`utils/mod.rs:94`). If its sibling was polled before the item was read, and nothing
  else holds a waker because the gate is closed, the task sleeps with the error peeked and the
  list behind it unread. `ErrorsHoldNothingUp` is therefore stated for the time after the gate
  has opened.
- *An HTTP status that nobody reads.* `request_stream` (`log_stream`, `client/mod.rs:244-252`) and
  `request_events` (`watch`) do not look at the status: the text of an error is read as a log, or
  as an event that does not decode. `OutcomeIsTrue` leaves both out. With `GoneAs = "http"` (the
  server refuses an expired version by an HTTP status and not by an event of the stream)
  `Converges` fails: the watcher resumes from the same version for ever.
- *Outputs that are not taken.* `JoinEnds` fails without its condition: an output that is attached
  but not taken stays, unread, in the handle that `join` consumes; more output than its pipe holds
  blocks the loop, and `join` waits for ever.
- `ListParams::timeout` is not sent by a list.
- `RefreshTokenKept` excepts an answer that was lost or whose receiver was dropped (`idp.cut`):
  a provider that rotates refresh tokens then honours one that the client never saw.

## Proofs

| theorem | statement | argument |
|---|---|---|
| `ControllerProofs!TypeCorrect`, `QueueAndMetadataAgree` | `Spec => []TypeOK`; queue, metadata and held set agree (Runner) | one lemma per operation of the Scheduler; types and agreement together are inductive (`StateInv`) |
| `ControllerProofs!OneFuturePerMessage`, `FuturesSurvive`, `FuturesKept`, `GateRespected`, `NoWakeupLost`, `OnlyStartConsumes` | the invariants of the run `runner`, and that a message only leaves the Scheduler by being started | `IInv`: types, `StateInv`, the gate's history (`GateInv`), which wakers exist at each phase of a poll (`FutureWakers`, `Watched`) |
| `ControllerProofs!Refinement` | `Spec => ImplementsDueQueue` | each step is a step of `DueQueue` or leaves `Due` alone, given `StateInv` (without it an expired item could be another message's) |
| `ControllerProofs!NothingIsMissed`, `ReconciliationsAreExclusive` | `CSpec => []NoMissedReconciliation`; the Runner's exclusiveness and gate inside the Controller | `CInv`: the Runner's `StateInv` and gate, the types of the streams; each step moves a request one place further (feed, flattening, peek, Scheduler, slot), never out of all of them |
| `ControllerProofs!ControllerRefinement` | `CSpec => ImplementsDueQueue` | as for the Runner alone; the steps of the other streams leave `Due` alone |
| `StreamProofs!TypeCorrect`, `StoreIsAccurate`, `NothingUnreported`, `NoTimeTravel` | the safety properties of the run `reflector` | `IInv`: an open watch has read exactly up to the resource version or over events that did not decode; a list is at least as recent as its start |
| `StreamProofs!ErrorsSlowDown`, `ErrorsPause` | the safety properties of the run `triggers`, for any number of streams and any times | `TInv`: the pause that is kept (`PauseIsKept`), the reset timer measured from the last error (`TimerIsOfErrors`); `IntervalAfter` is defined by recursion, its equation is proved (`IntervalAfterDef`) |
| `WaitProofs!CleanupComesFirst`, `FinalizeIsTrue`, `OtherFinalizersAreKept` | the safety properties of the run `finalizer`, for any number of writes and late patches and whatever finalizers users list | `IInv` on the versions of the object; `WatchIsAfter` for the call of `delete_and_finalize` |
| `EntryProofs!CommitReportsTheTruth`, `NoUpdateIsLost` | the properties of the run `entry` | `IInv`: entries and requests descend from what was stored at the version they carry |
| `ApiProofs!ResultsAreTrue`, `ReadsHaveTheVersion`, `DryRunsAreDry`, `OnlyWhatIsMeant` | all properties of the run `api`, with the exceptions that they state (`log_stream` and `watch` in `OutcomeIsTrue`, the `delete_options` of `evict` in the last two), for any namespaces, field managers, proxies and numbers of writes | first of the methods alone (`CallsSound`): the request of each carries what its parameters want (`Carries`, `Versioned`), and its decoder fits what the server answers such a request with (`Fits`); then `CallInv`: an answer is one the method understands (`Good`), or a refusal (`Bad`) |
| `ApiProofs!PriorityIsTotal` | `priority` puts stability first and is a strict total order of the versions that strings parse to | the lexicographic order of four numbers, which determine the version |
| `ClientProofs!RefreshTokenIsKept`, `TokensStayFresh`, `SourceIsStable` | the safety properties of the run `client` that speak of credentials; that the finding `gcp_refresh` is the only case of its kind | `IInv`: who refreshes holds the lock, and where the current refresh token and token file are known |
| `ClientProofs!FirstFileIsUsed` | `Spec => []FirstFileWins` | `ConfigInv`: every entry of the merged kubeconfig is that of the first document that has its name (`Merged`), kept by one lemma per merged list; what is loaded is selected from it |
| `PortforwardProofs!PodGetsAll` | `Spec => []DataThenClose`, for any number of ports, any sizes and any number of chunks | `IInv`: per port, the chunks sent and those in the channel are, one after the other, all that was read from the client (`Ordered`); a port is closed behind its data (`Finished`), the socket when all ports are (`SocketLast`) |
| `RemoteCommandProofs!OutputArrives`, `InputBeforeClose` | the safety properties of the run `remote_command` | `IInv`: runs of consecutive bytes, from the process to the client and from the client to the server |

Why strengthenings are needed:

- `NoLostWakeup` speaks of a sleeping Runner only, but holds because at every intermediate
  phase the sources already looked at either hold the waker or have fired since (`Watched`).
- `StoreIsSnapshot` needs to know how far the stream has been read (`WatchKeepsUp`), since the
  next event is applied to the store relative to that position; `NoTimeTravel` needs that
  `oldest` of a quorum list was the latest version when the list began (`ListIsRecent`).
- `CleanedBeforeGone` holds although `finalizer()` works with an old version from the store and
  its patches arrive late. `StillGuarded` says that an incarnation which listed the finalizer
  lists it still, unless it was stripped of it or the store has seen it deleting;
  `PatchesAreSafe` says what every patch on its way was made for, whether its caller still waits
  or not, so that one which meets its own incarnation does no harm.
  `VersionsInOrder` is what lets an old version tell anything about the object of now: a deletion
  is never taken back, and an incarnation that is gone does not return.
- `NoLostUpdate` is about two versions of the server's object, but what makes it true is where
  a client's object comes from: a stored version (`VersionsAreUnique`), with edits added
  (`EntriesDescend`, `RequestsDescend`). A replace is accepted only at its own version, so that
  it contains everything stored so far.
- `RefreshTokenKept` is stated while the lock is free; in between, the token that the provider
  honours is in an answer that the lock's holder will read (`ReplyPending`, `RefreshKnown`).
  `FileKnown` bounds how long a replaced token file can stay unread. `ExecRenews` says which
  `AuthInfo` an Exec token can come from, so that building the credentials anew yields an Exec
  token again or an error.
- `StatusMeansComplete` speaks of what has arrived, but depends on what is still on its way:
  the messages of the connection take each output from the number of bytes that have arrived
  to the number produced (`OutputLinked`), and the status is the last message (`LastWords`).
  `CloseAfterInput` needs that the bytes sent, being sent and in the pipe are all that was
  written (`InputRuns`), and that nothing can be written any more when the Close is taken up
  (`ClosingIsLast`).

- `DataThenClose` speaks of what was sent, but a chunk passes a pipe and a channel that all ports
  share. `Ordered` follows the chunks of one port through them; `Finished` and `SocketLast` are
  what makes the Close the last message: it is sent when every port was closed, behind its data.
- `SlowedByStreak` is a statement about the interval after the next error, so it needs to know
  that the timer which resets it runs from the last error and not from an item.
- `OutcomeIsTrue` and `ReadsAreFresh` look at the end of a call. What makes them true is settled
  when the request is built, and a call in flight is one of those (`InFlight`).

Assumptions: the bounds are naturals, the model value `None` is no message, entry or
time, messages are not confused with the other wake sources, and the streak of errors is counted
as far as the interval grows (`StreakAssumption`). All are `ASSUME`s of the modules
and evaluated by TLC in each run. Some theorems have a hypothesis on a constant instead:
`NoTimeTravel` that lists are quorum reads, `SourceIsStable` that no gcp provider has a cached
token only (`~GcpCacheOnly`; *Finding* says what happens otherwise). Proxies answer with any
statuses from 400 to 599 (`ApiMethodsAssumption`). No bound is assumed
on the number of messages, keys, objects, clients, tasks, ports, streams, namespaces or changes,
nor on the sizes of pipes and windows; kubeconfig files are three at most. Each inductive
invariant was first checked by TLC on the run's instance, except `ConfigInv` and `CallInv`: they
are slow to evaluate, and TLC saw no violation in as many states as it reached in five minutes.

Only model-checked:

- liveness: fairness and `ENABLED` are out of reach of the prover;
- the properties of the run `discovery`: the server's lists and the cache are built with sorting,
  filtering and flattening of sequences, which the provers know nothing of; of sorting,
  `PriorityIsTotal` says that its order is one.

Induction over data is done by hand where it is needed: `StreamProofs` derives the recursion of
`IntervalAfter` from the least number with a property (`LeastNat`). Elsewhere sequences are
described by their positions, so that a step adds or removes one of them.

What `Readiness` adds to `Reflector` touches none of the variables that the theorems of
`StreamProofs` speak of.

## Not modelled

- `utils/stream_subscribe.rs`: a thin wrapper; what there is to get wrong is tokio's broadcast
  channel. `utils/predicate.rs`, `utils/event_modify.rs`, `utils/watch_ext.rs`: map or filter
  the items of one stream.
- `events.rs`: fills in one Event and creates it (the namespace of an event about a
  cluster-scoped object is `kube-system` in the code and `default` in the doc of
  `Recorder::new`).
- `reflector/object_ref.rs`, and the lookups of `Store`: plain data and a read under a lock.
- Wire formats: YAML, JSON and PEM (de)serialisation, URLs as text, `duration.rs`,
  `schema.rs`, admission and conversion review types; one document per kubeconfig file.
- TLS connectors, the upgrade handshake, tower layers, `base_uri` and `extra_headers`.
- The parsing and the code generation of `kube-derive`; examples, end-to-end tests, the facade.
- Within the modelled parts: logging and tracing; `metadata_watcher` (the same state
  machine with another decoder); objects without a name in `finalizer`; the conditions of
  `wait.rs` other than `is_deleted`.

## Plan

1. Proofs: `CacheIsTrue` and `TypesAreServed` of Discovery, which need its lists as sets.
2. `PredicateFilter` in a chain of adaptors over the `Watcher`: its cache has no uid and
   forgets nothing, so an object that is recreated with the same hash needs a look.
3. The event recorder, and the Store's lookups with their fallback.
