# Verification of the BACnet/IP multi-interface add-on

TLA+ modules, TLC runs and TLAPS proofs about the Python program under
`src/bacnetinterface/rootfs/usr/bin` (called `bin/` below).

    tlc -config CommandRpc_safety.cfg MC_CommandRpc      # a run
    tlapm CommandRpcProofs.tla                           # the proofs

The inventory (1) names the parts of the program, then come the modules (2),
the runs (3), the proofs (4), what is left out (5) and what could follow (6).

## 1. Inventory

The program is one *supervisor* process (an asyncio loop with FastAPI) and one
*worker* process per network interface (an asyncio loop with a bacpypes3
application). They share two `multiprocessing` queues per worker and one sqlite
file.

| Component (code) | State it keeps | Operations | Talks to |
|---|---|---|---|
| Supervisor request/response (`main.py` 60-150, 164-344; `ipc.py`) | `_pending_responses`, `WorkerHandle.is_alive`, the queues | `send_and_wait`, `route_*`, `broadcast_*`, `data_collector`, `_check_worker_health`, `shutdown_workers` | workers through `cmd_queue` / `data_queue` |
| Worker life cycle and command listener (`worker.py`) | the command in hand, `shutdown_event` | `run_worker`, `_worker_main`, `_command_listener` | supervisor queues; BACnet application |
| Ownership and merged view (`ipc.py` 68-103, `main.py` 114-162, `worker.py` 433-466, `BACnetIOHandler.py` 134-166, 787-918) | `bacnet_device_dict`, `update_event`, `worker_dicts`, `_device_to_worker`, `merged_device_dict`, `/config/bacnet.sqlite` | `dict_updater`, `deep_update`, `_dict_sync_task`, `update_devices`, `_rebuild_merged_dict`, `sqlite_restore`, `sqlite_updater` | workers to supervisor to web API; the file between workers |
| Home Assistant write bridge (`BACnetIOHandler.py` 1171-1270, 1448-1488, 1746-1787) | `write_to_api`, `write_to_api_queue` | `do_WritePropertyRequest`, `data_write_task` | BACnet clients; Home Assistant's REST API |
| CoV subscriptions (`BACnetIOHandler.py` 268-306, 920-1143, `worker.py` 311-342) | `subscription_tasks` | create, refresh, cancel, end all | BACnet devices |
| Discovery, task generation, polling (`BACnetIOHandler.py` 168-403, 696-832) | `device_configurations`, `poll_tasks`, `init_discovery_complete` | `discover_devices`, `do_IAmRequest`, `config_to_tasks`, `object_poll_task` | BACnet devices; CoV subscriptions |
| Property reads (`BACnetIOHandler.py` 405-680) | `read_semaphore` | single and multiple reads | BACnet devices; `dict_updater` |
| Device configuration (`utils.py` 31-118) | lists of objects per device | `all_to_objects`, `remove_duplicate_*` | discovery |
| Time synchronisation (`main.py` 234-249, `worker.py` 240-310, `utils.py` 121-176) | none | fan-out of one command | all workers |
| Entity mirror (`BACnetIOHandler.py` 1273-1744) | entity lists, local BACnet objects | object creation, state websocket, read-back after a write | Home Assistant; BACnet clients |
| Interface resolution and start (`interface_discovery.py`, `main.py` 60-110, 461-580) | the resolved interfaces, `DeviceRouter._workers` | eligible adapters, unique identifiers, fallback, spawn, register, stop | operating system, HA Supervisor |
| Proxy and forwarders (`main.py` 347-458) | web API's queues | `SupervisorProxy`, three forwarders | web API to supervisor |
| Web API (`webAPI.py`, `models.py`) | sockets, EDE files, events | REST, websocket push | supervisor, browser |
| Packaging, services, proxy, pages | none | start scripts, nginx, templates | |

What is hard here: calls that outlive their timeout in another process; workers
that die with commands and responses under way; shutdown while calls are open;
reports of several workers about the same device; state restored from a file
all workers write; coroutines that interleave at every `await` around shared
lists, events and a shared queue; list entries added after the task they stand
for has ended. `PROJECT.json` lists each hazard at its line.

What makes each component correct:
- *request/response*: a call returns once, with its own answer; success implies
  the effect; commands are served in order; no future leaks; shutdown ends.
- *ownership and view*: what is listed is addressable; nothing disappears or
  goes back; readings arrive; commands go to the network the device is on.
- *write bridge*: acknowledgement and rejection tell the truth about that
  write; every write is answered; the task survives.
- *CoV*: one task per object, the list mirrors the live tasks, cancelling one
  subscription leaves the others alone, ending all of them terminates.
- *discovery*: every device that answers gets its configuration and its tasks,
  once; permits of the semaphore come back; discovery gets through or fails.
- *interfaces*: no two workers are the same BACnet device; what is enabled and
  there runs, on its own adapter, reached by the router; all of it ends.
- *entity mirror*: an object shows its entity, or the change was lost in a way
  that is known; nobody but a client writes to an object out of service.
- *websocket push*: every client comes to see the latest view, and the view
  does not go back.

## 2. Modules

| Module | What it is | Run by | Proved in |
|---|---|---|---|
| `CallContract` | abstract specification of `send_and_wait` | `CommandRpc` | |
| `CommandRpc` | the request/response protocol; implements `CallContract` | `MC_CommandRpc` | `CommandRpcProofs` |
| `DeviceRouting` | ownership, merged view, shared file | `MC_DeviceRouting` | `DeviceRoutingProofs` |
| `HaWriteBridge` | WriteProperty to Home Assistant through one queue and one event | `MC_HaWriteBridge` | `HaWriteBridgeProofs` |
| `EntityMirror` | the objects of Home Assistant's entities; extends `HaWriteBridge` and implements its `Spec` | `MC_EntityMirror` | `EntityMirrorProofs` |
| `CovSubscriptions` | subscription tasks of one worker and the list of them | `MC_CovSubscriptions` | `CovSubscriptionsProofs` |
| `DeviceConfig` | what the options ask for, device by device (operators) | `Discovery` | `DiscoveryProofs` |
| `PropertyReads` | reads of objects under `read_semaphore` (actions) | `Discovery` | |
| `Discovery` | `discover_devices`, `config_to_tasks`, I-Am; extends the two above | `MC_Discovery` | `DiscoveryProofs` |
| `Startup` | interface resolution, spawn, registration, end | `MC_Startup` | `StartupProofs` |
| `WebSocketPush` | `/ws`: the merged view to its clients | `MC_WebSocketPush` | `WebSocketPushProofs` |

`MC_X` gives the constants of `X` their values for TLC, and the cfg files are
named after `X`. Operators whose comment says *Fault* or *Mutant* are not part
of a specification: each is a plausible bug in the definition that follows it,
put in its place to see that a property notices.

### CommandRpc

A command with a request id is identified with the call that made it
(`Requests`), one without with an element of `Posts`. `cmdQueue` and
`dataQueue` are the multiprocessing queues, `pending` and `future` are
`_pending_responses` and its futures, `proc`, `current` and `acted` say where a
worker is in `_worker_main` and in a handler. `sent`, `handled` and `executed`
are history.

- *Atomicity in the supervisor.* Its coroutines run on one loop: `Send` is
  `send_and_wait` up to its `await`, `CollectorPass` a whole pass of
  `data_collector` with the health check. `get_nowait` on a multiprocessing
  queue may report Empty while a put is being flushed, so a pass takes some
  prefix of each queue, not all of it.
- *The race of timer and answer.* `Timeout` is enabled as long as the call
  waits, also when its future is already set; which of the two wins depends on
  the event loop and the Python version.
- *Death.* `Crash` ends a worker at any point; responses its feeder thread had
  not flushed are lost, the command in hand is gone, and nothing is purged:
  commands may still be sent to the dead worker.
- *Shutdown.* `Stop` puts SHUTDOWN on every queue and blocks the loop in
  `join`: no call resumes and nothing is collected until all workers are down.
  `Terminate` is the force-kill after 5 s.
- *Abstraction.* Payloads are "the command of this call, carried out or not".
  Each handler has one effect, at some moment between taking the command and
  answering; `Reply(w, FALSE)` covers errors before and after the effect.

### DeviceRouting

A dictionary maps each device to `None` or to the number of changes it had gone
through when read. `Observe` is `dict_updater` whatever caused the reading;
`SyncDict` is one round of `_dict_sync_task` (clearing the event, copying and
putting happen without an `await`); `CollectUpdate` is one DEVICE_DICT_UPDATE
in `data_collector`. `Save` and `Restart` are the file: all workers write it,
each restores all of it. `Reach` says which device answers on which interface.

### HaWriteBridge

One handler coroutine per write and `data_write_task`, on one loop. An action
is what runs between two suspensions: `put` on an unbounded queue and `get` on
a non-empty one do not suspend, and `requests.post` / `requests.get` block the
whole loop, so `Serve` is one step. `ServeResponse`, `PostRaises` and
`FetchFails` are the three ways the task ends by an exception. The branches of
`do_WritePropertyRequest` that answer locally touch none of this state.
`clients`, chosen at the start and never changed, is how many clients write at
the same time: with one the bridge is honest (`HonestToOneClient`), with two it
is not (`bridge_ack`), and one run has behaviours of both kinds.

### EntityMirror

The state of an entity is the number of the change that led to it, and whether
it is a value the object can show, "unavailable", one that does not fit, or the
entity was removed. Three parties write to an object: `HandleEvent` is one
iteration of `data_websocket_task`, `ServeMirrored` is `Serve` of the write
bridge with the post and the read-back, and `WriteLocally` is a BACnet client
that has put the object out of service (`WriteOutOfService`). `ApplyEvent`,
`SkipEvent` and `EventRaises` are the branches of the loop: an exception is
caught outside it, so the connection is given up with the events on it
(`Drop`). A refused subscription (`ws = "deaf"`) is waited on like an accepted
one. `missed` is history: the entities whose last change was lost, entered
exactly where the code drops a change, so that `NothingLostSilently` says that
there is no other way to lose one. Blocking HTTP calls keep the loop, so that
an event never comes between post and read-back; it comes before or after.
Which entity gets which object (`ObjectType`, `Index`) is the table that
`process_entity_list` builds, and `EntityOf` the way back that
`data_write_task` takes; it finds analog and binary values only.

### CovSubscriptions

One action per stretch between two suspensions of the coroutines of a worker:
creators (`config_to_tasks` run by discovery and I-Am handlers, the command
listener) and subscription tasks. `making[c]` is the `sleep` of
`create_subscription_task` between the creation of the task and its `append`;
a new task runs before its creator wakes, so it may have ended by then.
`cancelled[t]` is a `cancel()` the task has not noticed, and `Cancelled(t)` its
effect, which depends on where the task is: the third branch is the
`CancelledError` that hits `await self.request(...)` inside an `except` clause.
`Rejected`, `Fails` and `UnsubscribeRaises` are the ways a device fails.
`PopMatching` is the loop that pops from the list it iterates over, as the
entries at the places it leaves (`Only`); it has no recursion, so that it can be
proved about, and `PopMatchingIsTheLoop`, an assumption evaluated by each run,
compares it with the loop on all lists of up to 6 entries.
`Subscribe` is SUBSCRIBE from either API, `Delete` the v2 DELETE, which only
looks into `SupervisorProxy.subscription_tasks`. Names that end in
`,confirmed` and `,unconfirmed` contain one another only if equal, so only
UNSUBSCRIBE, which leaves the end out, confuses objects (`Covers`).
`ClientNames` are the names clients subscribe to: the worker creates as many
tasks of such a name as it is asked for, so the properties are about the other
names, while clients may cancel those too. When passes overlap, each may find
the list without the task the other is making, so an object may have two, and
the end of one takes the entry of the other with it. `raced` is history: the
names for which that has happened, entered when a pass begins to make a task of
a name another pass has in hand. `OneTaskPerName` and `UnfinishedIsListed` say
that there is no other way to a second task, or to one that cannot be found.

### DeviceConfig, PropertyReads and Discovery

`DeviceConfig` is `get_config_dict`, `generate_config` with `utils.py`, and the
selection `config_to_tasks` makes. A list is how often each item is written in
it (`ListOfItems`); the order is abstracted, since nothing depends on it but
the order of tasks, and they are made in any. The code never removes a
repetition within one list: `Without` takes out what another list has,
`WithoutFirst` is `list.remove`, which takes one writing of the device object,
and what is written twice in a poll list gets two poll tasks (`Wanted`). `Raises`
is a list that has "all" beside identifiers, or more than once (`Mixed`): it is
not `["all"]`, "all" stays in it and is no identifier, so the removal fails.

`PropertyReads` has one sequence, `requests`, for all that wait for a permit of
`read_semaphore` or hold one: the first `Permits` of it have been sent, and a
permit freed goes to the next (asyncio's semaphore is first come, first
served). A list property that is too long is read size first, then element by
element; an unexpected exception ends the read while what was asked for beside
it goes on, with nobody waiting (`Unnoticed`).

`Discovery` runs one `handle_device` per I-Am heard, all at once, then the
tasks. A device may answer twice, and part of the network may be restored from
the file. `gather` has no `return_exceptions`: the first that fails is the end
of `discover_devices` (`HandleFails`) and the others go on by themselves.
`config_to_tasks` sleeps after each task, so passes of I-Am handlers interleave
with the main one. Two facts of the code shape it: while the handlers run,
`init_discovery_complete` is not set, so `handle_device` never takes the branch
that uses `retrieved_configs`, and it is not modelled; and a poll task is looked
up under a name that `create_poll_task` gives to none, so every I-Am with
`reread_on_iam` adds poll tasks, whatever the check is for; `NoExtraPolls` says how many
there may be in the end. The object list of a device is a set: its identifiers
are distinct.

### Startup

`ResolveNext` is one turn of the loop over the configured interfaces,
`FallBack` what happens when none can be resolved, `Spawn` one turn of
`spawn_workers` with `register_worker`. The router is keyed by adapter name:
a second worker on the same adapter takes the place of the first, which is then
never told to end and dies as a daemonic process when the program ends
(`UntoldWasReplaced`, `NothingOutlives`). That the second worker cannot bind the
port of the first is one of the ends `WorkerEnds` allows. A missing
`objectIdentifier` does not occur: the schema of the options makes it
mandatory. Interfaces the Supervisor reports are only logged and left out.

### WebSocketPush

Every connection has an endpoint and a writer, and every writer that finds the
event set sends to ALL sockets and clears the event. `Send` is one
`await send_json`, and what `Wake` sends is the view at that moment. Three
things can go wrong and are told apart: an update that comes during the sends
has its event cleared by them (`excuse` "overtaken"), a socket removed from the
list shifts the others under the loop ("skipped"), and a client that is gone
makes a writer, not only its own, end. The first send of a new writer is one
step with the start of its loop, since nothing it does before depends on
anything that may change. `BadMessage` is the inner `except` of the endpoint,
which cancels the writer and goes on to receive: the client hears nothing more
("deaf").

## 3. Runs

| Run | Instance | Distinct states | Shows |
|---|---|---|---|
| `rpc_safety` | 2 workers, 2 calls, 1 post, symmetry | 661,038 | `PendingExact`, `AnswerIsOwn`, `AnswerMeansServedInOrder`, `ClosesWithNothingUnserved`, refinement of `CallContract` |
| `rpc_liveness` | 2 workers, 1 call, 1 post, fair | 38,018 | `EveryCallReturns`, `EveryCommandServed`, `DeathNoticed`, `StopCompletes` |
| `routing_shared` | 2 workers, 2 devices, one on both networks, 2 reports in flight, 1 restart, no changes | 131,145 | `TypeOK`, `ViewMatchesRouting`, `ViewNeverForgets` |
| `routing_separate` | a device per network, 1 change each, 2 reports in flight, fair | 82,337 | `RoutedToReachingWorker`, `ViewNeverGoesBack`, `ReadingsReachTheView` |
| `routing_restored` | the same with 1 restart | violation | `RoutedToReachingWorker` fails |
| `mirror` | 2 writes of 1 or 2 clients, 2 changes, 2 events, failures, fair | 356,856 | `NothingLostSilently`, `OutOfServiceHeld`, `MirrorCatchesUp`, and of the bridge `HonestToOneClient`, `RequestsOnly`, `OneItemPerHandler`, `RejectionsAreRefusals`, `EveryWriteAnswered` |
| `bridge_ack` | 2 writes of 2 clients | violation | `HonestAnswer` fails |
| `cov` | 2 objects, 2 passes that may overlap, 2 requests of any kind, 3 tasks, failures, fair | 303,220 | `OneTaskPerName`, `UnfinishedIsListed`, `OnlyOwnEntries`, `EndsUnlessBlocked` |
| `cov_resub` | 1 object, 1 pass run twice, failures | violation | `PassReestablishes` fails |
| `discovery` | 2 I-Ams, of two devices or both of a third, 2 objects, one written twice, 1 later I-Am, 2 permits, lists of 2, fair | 410,194 | `DiscoveryTypeOK`, `CompleteIsConfigured`, `NoExtraPolls`, `EverythingAskedIsServed`, `DiscoveryEnds` |
| `startup` | 3 hosts, up to 2 entries of all kinds, fair | 72,513 | `DistinctIdentity`, `DisabledOnlyAsFallback`, `RunsAsConfigured`, `UntoldWasReplaced`, `NothingOutlives` |
| `push` | 3 connections, 3 updates, fair | 1,291,102 | `Settled`, `GoesBackOnlyIfOvertaken`, `UpdatesArrive` |

*Bounds.* Each bound is a constant or the size of a set.
- Two calls suffice for an answer to reach the wrong caller, a post between
  them for an order that matters, two workers for broadcasts and for a crash
  next to a healthy worker.
- Two reports in flight suffice for one to overtake the other; two devices for
  a dictionary that has one and lacks the other; one change for an older and a
  newer reading. `routing_shared` needs no changes: its properties look at keys.
- Two open writes let one handler take what another has put; two changes an
  event be out of date when it comes; two events one be lost with the other.
  The second entity has no object, but its events and its removal come on the
  same connection.
- Two passes follow one another or overlap. Three tasks let one pass subscribe two
  objects and the other, or a client, replace one that ended or race for it;
  lists of three have a run of entries of one name and another beside it.
- Two permits for two reads with fallbacks and list elements make requests wait
  in line; one device has an entry of its own in the options (slow polls, one
  quick one written twice, reread on I-Am), the two others that for all, with
  every object in all three lists, and one of these has only an object that
  cannot be subscribed to. One later I-Am may interleave with the main pass and
  find a device that has configured itself or not.
- Two entries are enough to clash in identifier, adapter or address; the hosts
  have two adapters that can be used, one listed twice, and none.
- Three connections let a writer skip the third when the first leaves; three
  updates let two overtake a send.

Deadlock is not checked: every one of these systems really stops, after
shutdown, after the last crash, when all writes are answered, when a worker has
closed, when discovery is through, or when no client is there.

The type invariants of `DeviceRouting` and `Discovery` are also checked in a
run; those of all modules are proved (4).

*What the violations say.* `routing_restored`: w1 reads a device and saves it;
after a restart w2 restores it, reports it and owns it, on a network where it
cannot be reached. Later reports of w1 and w2 take it from one another.
`bridge_ack`: two handlers put their requests, the task serves the first, and
the first handler takes the second's request out of the queue: a tuple is
truthy, so it acknowledges, whatever Home Assistant said. Going on, a
second request behind an answer that was not fetched yet makes the task unpack
`True` or `False`; the `TypeError` ends it, the event stays set, and both
handlers and all later ones poll for ever. `cov_resub`: a task rejected before
its creator appends it stays in the list, and every later I-Am skips the object;
an unsubscribe request that fails, or a second `cancel()` while it is awaited,
leaves the same trace.

*What passing properties concede.* Several say what holds instead of what one
might wish, and the difference is how the code behaves: `OutOfServiceHeld` lets
a write that was queued before be served after, where several clients write at a
time (its read-back does not look at `outOfService`); `OneTaskPerName` and
`UnfinishedIsListed` except an object for which two passes raced, as the check
in `create_cov_tasks` ("task already exists") cannot see a task its creator has
not put in the list; `NoExtraPolls` counts a poll task for each writing of an
object, each answer of its device and each reread, although the code looks for a
poll task of the same name before it makes one (it asks for a name none of them
has); `Settled` excuses an update that came while a writer awaited a send, whose
event that writer clears; `GoesBackOnlyIfOvertaken` says when a client may be
sent an older state after a newer one, which nothing in the code prevents;
`NothingLostSilently` lists four ways to lose a change, none of which the code
repairs by reading the state again; `EverythingAskedIsServed` excepts an object
listed for CoV whose type cannot be subscribed to, if it is in the quick polls
as well, which the subscription it does not get has taken away, or not in the
slow ones; `DiscoveryEnds` allows discovery to end with the first device that
fails; `UpdatesArrive` allows that no writer is left; `DisabledOnlyAsFallback`
that a disabled entry gets a worker when nothing else can be resolved.

*Fairness*, all of it weak:
- `CommandRpc`: a live worker's loop starts it, polls its queue every 0.5 s and
  ends every handler, since BACnet requests time out after `apduTimeout`; the
  collector runs every 0.1 s; timers fire; `shutdown_workers` kills what does
  not end in 5 s. Nothing makes anybody call, crash or exit cleanly.
- `DeviceRouting`: the sync task and the collector run; nothing makes a worker
  read a device or stay alive.
- `HaWriteBridge`, `EntityMirror`: ready coroutines run; a handler that polls
  the event is only promised a step while the event stays cleared, and events
  that have come are handled. Home Assistant need not change, accept a
  subscription or keep a connection.
- `CovSubscriptions`: ready coroutines run and requests to a device end, with an
  answer or the APDU timeout; a subscribed task is not obliged to fail, and
  nobody to send an I-Am, a request or SHUTDOWN.
- `Discovery`: one condition for all: something that is ready runs, requests
  included, which end with an answer or a timeout. It suffices since each such
  step brings discovery closer to its end. I-Ams need not come.
- `Startup`: `Exit` and `Terminate` only. Joins have a timeout; no worker needs
  to do as it is told, and nobody to stop the program.
- `WebSocketPush`: one condition for writers and endpoints that are told of a
  disconnect. Clients come, go and misbehave as they like.

## 4. Proofs

The theorems hold for all values of the constants that satisfy the named
assumptions: any number of workers, calls, devices, writes, entities, tasks,
connections and updates, and any options.

`CommandRpcProofs`, under `CommandsAssumption` and `NoAnswerAssumption` (ids are
distinct, `SHUTDOWN` and `None` are none of them):

| Theorem | States |
|---|---|
| `TypeCorrect` | `Spec => []TypeOK` |
| `PendingCorrect` | `Spec => []PendingExact` |
| `AnswerIsOwnCorrect` | `Spec => []AnswerIsOwn` |
| `ServedInOrderCorrect` | `Spec => []AnswerMeansServedInOrder` |
| `ClosesCorrect` | `Spec => []ClosesWithNothingUnserved` |
| `ContractCorrect` | `Spec => KeepsContract`, i.e. refinement of `CallContract` |

The inductive invariant `IInv` adds to the types what the properties rest on:
`QueuesInOrder` (what was sent is what was handled, then the command in hand,
then the queue, unless the worker is down), `ShutdownIsLast` (SHUTDOWN is sent
only when the supervisor stops, once, and nothing after it), `SentOnce` (a call
is in one queue at one place), `ExecutedInTurn` (an effect belongs to a command
handled or in hand, once), `ResponsesHonest` and `FuturesHonest` (a response,
or a future, of a call carries that call's own answer, after the command was
handled, and success only after the effect). None of the properties is
inductive alone: that an answer is one's own depends on what was put on the
queue in another process several steps earlier. Each action has a lemma per
part it can disturb; facts about sequences are separate lemmas.

`DeviceRoutingProofs`, for all workers, devices and networks (`Reach` any
function) and all bounds, under `RoutingAssumption` and `DictAssumption`
(`None` is no number, no worker and no dictionary):

| Theorem | States |
|---|---|
| `TypeCorrect` | `Spec => []TypeOK` |
| `ViewMatchesRoutingCorrect` | `Spec => []ViewMatchesRouting` |
| `ViewNeverForgetsCorrect` | `Spec => ViewNeverForgets` |
| `RoutedWithoutRestarts` | `MaxRestarts = 0` implies `Spec => []RoutedToReachingWorker` |
| `ViewNeverGoesBackCorrect` | `MaxRestarts = 0` and `SeparateNetworks` imply `Spec => ViewNeverGoesBack` |

`update_devices` first drops what a worker owned, so a device missing from its
next report would be without an owner while another worker's dictionary still
shows it. The inductive invariant therefore has `KeysGrow`: each report of a
worker has the keys of all before it, and the worker knows them all; with
`OrderExact`, `MergedExact`, `OwnersReport` and `ReportsOwned` view and routing
table both follow the last reports. Without restarts a worker knows only what
it read itself (`KnownInReach`), which gives `RoutedToReachingWorker`; the run
`routing_restored` shows that the hypothesis is needed. That the merge of a
worker's dictionary takes the last position of a non-empty set of positions
uses the library's `WFMin`.

That the view goes back in no step needs more than the view: a worker's reports
are ordered among themselves (`ReadingsGrow`: the dictionary that was merged
last, those in flight, in their order, and what the worker knows now are each no
newer than the next), but the reports of two workers are not. Both hypotheses
are the code's: of a device on two networks the view shows the copy of
whichever worker first reported anything, and the file a restarted worker
starts from may be older than what the view showed.

`HaWriteBridgeProofs`, for any finite set of writes, under `BridgeAssumption`
(no request is a Boolean; the set is finite so that handlers can be counted):

| Theorem | States |
|---|---|
| `TypeCorrect` | `Spec => []TypeOK` |
| `OneItemPerHandlerCorrect` | `Spec => []OneItemPerHandler` |
| `SerialHonest` | `Spec => []HonestToOneClient` |
| `SerialRequestsOnly` | `Spec => []RequestsOnly` |
| `RejectionsAreRefusalsCorrect` | `Spec => []RejectionsAreRefusals` |

The invariant `Count` adds `NoSurplus` (a dead task may have taken an item with
it, never left one too many), because the bound on the queue in `TypeOK` has to
survive the death of the task. `Serial` says where the write of the one open
handler is: `Waiting` in the queue, `Lost` with the task, or `Answered` by the
item in the queue. `bridge_ack` shows that two open handlers break it. `Tally`
counts rejections and the `False`s still in the queue against refusals, for any
number of clients; it needs `Fresh`, that a request waiting in the queue is there
once and has not been served, so that serving it is one refusal more.

`EntityMirrorProofs`, for any options, changes and events, under
`MirrorAssumption` and `TargetAssumption` (writes are for objects there are):

| Theorem | States |
|---|---|
| `MirrorImplementsBridge` | `MirrorSpec => Spec` of `HaWriteBridge` |
| `MirrorHonest`, `MirrorOneItem` | what is proved of the bridge, of the mirror |
| `MirrorTypeCorrect` | `MirrorSpec => []MirrorTypeOK` |
| `NothingLostSilentlyCorrect` | `MirrorSpec => []NothingLostSilently` |
| `OutOfServiceHeldCorrect` | `MirrorSpec => OutOfServiceHeld` |

Every step of the mirror is one of the bridge or leaves it alone, so the
invariants of the bridge carry over. `NothingLostSilently` is not inductive: an
event that is out of date may be applied, and then it takes `Overtaken`, that a
later event of the same entity tells its last change, and `Quiet`, that without
a subscription there are no events (`LostInv`). `OutOfServiceHeld` looks
at who may write to the object: a client, an event, which looks at
`outOfService`, and the read-back of a write, which does not. With several
clients that is the exception the property names; with one, `InService`
excludes it: the client did not put an object out of service while a write to
it was under way.

`CovSubscriptionsProofs`, for any configuration, clients, failures and number of
passes, under
`CovAssumption` and `NameAssumption`:

| Theorem | States |
|---|---|
| `UnfinishedIsListedCorrect` | `Spec => []UnfinishedIsListed` |
| `OneTaskPerNameCorrect` | `Spec => []OneTaskPerName` |
| `OnlyOwnEntriesCorrect` | `Spec => OnlyOwnEntries` |
| `TypeCorrect` | `Spec => []TypeOK` |

The two invariants need one another: a task that ends takes all entries of its
name along, so that another task stays listed only if there is no other of that
name; and that there is none is known, when a pass creates one, only because
what has not finished is listed. `CovInv` speaks of `Known` tasks, listed or
being made, finished ones included (`OneKnown`), and says that the listener
makes only tasks of names clients use. That the loop that pops leaves the other
names alone is `EndsListed`, from `OnlyKept`: places that stay have ranks, each
rank belongs to one of them (`FS_PigeonHole`).

`TypeOK` includes that no task is in the list twice: for it `ListInv` has that
the list is injective (`ListedOnce`), that a task somebody is about to append is
not in it and in nobody else's hands (`MakingApart`), and that a task in use has a name (`Named`).

`DiscoveryProofs`, for any network, contents, options and reads, under
`DiscoveryAssumption` and `ConfigAssumption` (finitely many I-Ams, objects and
handlers, since tasks are counted; `None` is no pass over a configuration):

| Theorem | States |
|---|---|
| `CompleteIsConfiguredCorrect` | `DiscoverySpec => []CompleteIsConfigured` |
| `DiscoveryTypeCorrect` | `DiscoverySpec => []DiscoveryTypeOK` |
| `NoExtraPollsCorrect` | `DiscoverySpec => []NoExtraPolls` |
| `EverythingAskedIsServedCorrect` | `DiscoverySpec => []EverythingAskedIsServed` |

`DiscoveryInv` says that discovery is complete only after every `handle_device`
has returned, and who has returned has left a configuration. Of `DeviceConfig`
it proves that the entry that applies exists (`FirstExists`), that what is
generated is a configuration, and which lists share no object (`GeneratedFacts`:
CoV and quick polls, quick and slow polls, but not CoV and slow polls), and that
a poll list has an object at most `Times`, as often as the options write it in
the list that has it more often (`TimesFacts`).

- *Types* (`TypesInv`). The line in front of the permits is a sequence without
  duplicates. That a request which a fallback adds is not in line already needs
  `ReadsInv`: a read that has not started, or whose list has come, has nothing in
  line, and two requests of one read that are in line together are of kinds that
  may be (`Beside`).
- *No extra polls.* `PollsCounted` adds to the tasks there are those still to
  come, in the passes that are under way (`Pending` numbers them): together they
  are at most `Times` the configurations of the device that have been taken up,
  and the rereads. `PollsApart` is why a pass adds no more than `Times` though an
  object may be in several lists, `PollsBounded` why not more in either, and
  `OneForEach` why there is at most one configuration for each I-Am.
- *Everything asked is served.* `ServedInv`: what a configuration that was taken
  up asks for exists already or waits in the pass that took it up. `UpToDate`:
  of a device that is configured, some configuration comes from its newest
  object list, or another `handle_device` of it is still to make one, or failed.
  When all have returned, and none failed, the second case is gone; `GeneratedServes` then says which
  objects a configuration generated from the lists of the options leaves out.

`StartupProofs`, for any host and options, under `StartupAssumption`:

| Theorem | States |
|---|---|
| `TypeCorrect` | `Spec => []TypeOK` |
| `DistinctIdentityCorrect` | `Spec => []DistinctIdentity` |
| `DisabledOnlyAsFallbackCorrect` | `Spec => []DisabledOnlyAsFallback` |
| `UntoldWasReplacedCorrect` | `Spec => []UntoldWasReplaced` |
| `RunsAsConfiguredCorrect` | `FirstAddressesDiffer => (Spec => []RunsAsConfigured)` |

`IInv` adds to the types `ResolvedInv` (resolved interfaces come from different
enabled entries in their order, or are the one of the fallback, after nothing
matched), `RouterInv` (under each name the last worker of that name) and
`ToldInv` (who was told is who was in the router). `RunsInv` adds that each
enabled entry seen so far has its interface if its adapter is there
(`EveryMatched`), that an interface is what its entry resolves to (`OfItsEntry`),
and that all entries were seen and all interfaces spawned before serving
(`AllThrough`). `ApartResolved` is the step from entries that are apart to
interfaces that are; that two adapters do not have the same first address is
what a network requires of a host, and an assumption since the code does not
look.

`WebSocketPushProofs`, for any number of connections and updates, under
`PushAssumption`:

| Theorem | States |
|---|---|
| `GoesBackOnlyIfOvertakenCorrect` | `PushSpec => GoesBackOnlyIfOvertaken` |
| `WritersAreListedCorrect` | `PushSpec => []WritersAreListed` |
| `PushTypeCorrect` | `PushSpec => []PushTypeOK` |
| `SettledCorrect` | `PushSpec => []Settled` |

`PushInv` adds `NothingFromTheFuture`, that nobody has or sends a view that has
not been shown; `LateIsOvertaken`, that a writer sends an older view than the
latest only after an update came among sends; and `AloneIsFresh`, that a writer
beside which no other has been at work sends no older view than any client has.
`OpenIsListed` is the invariant of the second. `Settled` looks at a moment when nobody sends, but whoever clears
the event does so at the end of a round others may have begun. `SettledInv`
follows the rounds: as long as there is no excuse, whoever sends, sends the
latest view, and everyone it has passed has it (`SendersCurrent`); with the event
clear, so has everyone on the list (`ListCurrent`).

Every invariant and every action property of a passing run is a theorem, or, of
the bridge inside the mirror, follows from one by `MirrorImplementsBridge`.
Only model-checked are the liveness properties, since fairness and ENABLED are
outside the prover's reach, and that `PopMatching` is the loop of the code,
which is recursion over data. What the three violation runs refute is no
theorem; two of them have one beside it that says when the statement does hold
(`RoutedWithoutRestarts`, `SerialHonest`).

## 5. Not modelled

See `components` in `PROJECT.json`.
- The web pages, packaging and the reverse proxy keep no state of the program's
  own. Request parsing, rendering and EDE files are data handling.
- `SupervisorProxy` and the forwarders hand requests on; that its list of
  subscriptions stays empty is in `CovSubscriptions`. READ_ALL is a command
  whose handler does nothing.
- Time synchronisation sends one command to each worker in turn and drops the
  answers: `CommandRpc` has the calls, and nothing but the success message says
  what should come of them.
- What a poll task does after it was created: it reads its object periodically
  and may die of an exception; nothing looks at it again.
- The values notified by a subscription, units, names, rates, lifetimes, and
  prefix lengths. Data inside a dictionary is one value per device, so
  interleaved partial updates of one device are not seen.
- What happens between reading a device and storing the reading: `Observe` is
  both in one step, so `ViewNeverGoesBack` is about what a worker has stored.
  Two reads of one device whose answers are stored in the other order are not
  seen.
- The handlers of SUBSCRIBE and UNSUBSCRIBE are one effect and one answer in
  `CommandRpc`, however many tasks they start or cancel; those are in
  `CovSubscriptions`.
- `DeviceRouter.remove_worker` and `Supervisor.get_subscriptions` have no
  caller.

Four hazards have no property because no text of the repository says what should
hold: which copy of a device in several dictionaries the view shows, and which
one the file keeps; which subscription an unsubscribe request is meant to
cancel; and what a time synchronisation of all interfaces owes when one fails.

## 6. Plan

1. `Supervisor`: `CommandRpc` and `DeviceRouting` together, so that the target
   of a call is the owner the router names at that moment.
2. Poll tasks: their periodic reads through `PropertyReads`, their deaths, and
   the readings through `DeviceRouting`.
3. `Discovery` with `CovSubscriptions` in place of `subscribed`.
4. Proofs: that `CommandRpc` still keeps its contract inside `Supervisor`;
   the invariants of `CovSubscriptions` carried over to `Discovery`.
