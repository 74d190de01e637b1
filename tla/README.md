# Verification of the node server

This directory holds TLA+ models of the node server, TLC configurations that check
them on small instances, and TLAPS proofs about every component
for instances of any size. File and line references are to `src/`.

Contents: [the system](#1-the-system) · [the modules](#2-the-modules) ·
[the runs](#3-the-runs) · [disagreements and known races](#4-what-the-models-show-about-the-code) ·
[the proofs](#5-the-proofs) · [what is not modelled](#6-what-is-not-modelled) · [the plan](#7-the-plan)

## 1. The system

The node server is one asyncio process between the gateway (the product's API), a
PostgreSQL ledger, and *nodes*: worker machines that dial in, keep one long-lived
bidirectional HTTP/2 stream (`NodeConnect`) open, and run sessions (agents), upgrades,
builds and installs. The server pushes commands down that stream and waits for
acks on the same stream. Handlers run on one event loop: code between two awaits is
uninterrupted, and every interleaving happens at an await. That fact decides the
grain of every model here: **an action is one stretch of code between two awaits, or
one database statement**.

| Component | State it keeps | Operations | Talks to |
|---|---|---|---|
| NodeConnect stream (`connect_stream.py`) | per handler: phase, hello time, node id, the row read | hello, authenticate, upsert, ack, register, configure, pump, read frames, tear down | ledger, replay cache, registry, service callbacks |
| Registry and Connection (`registry.py`) | node id → Connection; per connection a bounded downstream queue, ack waiters, job snapshots, heartbeat time and active sessions, tunnel/terminal/tool-run queues | register, unregister, close, send, wait ack, deliver ack, reap | stream handlers, every RPC |
| Replay cache (`crypto.py`) | claimed ⟨node, TOTP code⟩ pairs with a lifetime | claim, release, prune | stream handlers, disconnect hook |
| Ledger and administration (`store.py`, `service.py`) | node rows (status, labels, last seen), bindings session → node, TOTP secrets | onboard, approve, revoke, delete, revoke onboarding, label writes | PostgreSQL, registry |
| Session dispatch (`service.py` from 3320) | per call: the selected node, its ack waiter; binding rows | create, delete, config update, input; node selection by label, capacity, liveness | registry, store, node |
| Upgrade progress (`upgrade_progress.py`) | per node and step (runtime, node): frame id, status, stage | dispatch, ack, event, timeout, restart, reconnect | service upgrade calls, stream, console polls |
| Task messages (`task_message_status.py`) | `mc_task_messages` rows: status and attempt | conditional updates from status and error frames | stream, gateway |
| Task finalization (`task_finalize.py`) | `mc_tasks` status, its proxy principal and API key | conditional transition, withdrawal of grants, notification | stream, gateway |
| Node jobs (`registry.py`, `service.py` 2560–3000) | a snapshot per job, on the Connection | start, ack, event, result, cancel, poll | node, console |
| Labels (`service.py` 1600–1960, `store.py` 540–620) | the `capabilities` column | install editor/tool, refresh, registration, public-ip patch | node, ledger |
| Node configuration (`service.py` 770–910, `store.py` 450–530) | two rows with revisions: public-ip lookup services, a node's egress-proxy binding | update and push, snapshot on connect | ledger, registry, node |
| One-shot calls (`service.py`) | a future per call in a table of the Connection | host commands, upload chunks, terminal list, environment, iOS and child relays | node, console |
| Host terminals (`terminal_bridge.py`, `terminal_gateway.py`) | terminal id → bridge: session, recv queue, pump, replay buffer, watching browser | open, attach, detach, close, delete, reap, rebind after a reconnect | node, browsers, registry |
| Agent commands (`terminal_commands.py`, `terminal_gateway.py`) | terminal id → entry: session to type into, lock, collector of the running command | run, observe output, interrupt, time out, adopt, retire | bridges, browsers, agents |
| Tunnels (`tunnel.py`, `node_proxy_gateway.py`, `node_connect_manager.py`), follow streams (`stream_follow*.py`) | a bounded queue, or a sink, per request in a table of the Connection | open, deliver, read, time out, leave, end | registry, browser, node |
| Event log, stage and history (`task_event_log.py`, `task_message_store.py`, `task_stage.py`, `task_status_history.py`) | ClickHouse contents, PostgreSQL index rows and their sequence, the connection pool | append, refer or carry, number | stream, task finalization |
| Envelope, git proxy, unary API, app wiring, binaries, protobuf | none of their own | parsing, routing, I/O | — |

### Hard behaviours, and what makes each component correct

* **Supersession.** A node that redials before the server noticed its old stream is gone has two
  handlers at once. The new one takes the registry entry and closes the old
  connection; the old handler tears down later and must not remove its successor, nor
  release its replay claim. *Correct when* the open connections are exactly the registered ones,
  and every registered one still has a handler.
* **Closing.** `close()` wakes the pump through the very queue that may be full. *Correct when* every
  closed connection's stream ends, and a silent one is closed in the end.
* **Administration against connecting.** Revoke, delete and revoke-onboard write the row
  and then disconnect, with awaits in between; authentication reads the row, awaits, and registers.
* **Acks.** An ack arrives after its caller timed out, after the connection was
  replaced, or out of order with those of other commands. *Correct when* a waiter belongs to a waiting
  caller, a caller gets the answer to its own frame and every call ends.
* **Placement.** The binding row of a session is written some awaits after the ack, by
  several writers, while the node may be deleted.
* **Upgrades.** A node acks, streams events and then kills its own process; the reconnect may
  be the only evidence of success. Frames of an older run arrive during a newer one.
* **Delayed and replayed frames.** Status, error and result frames are replayed after a
  reconnect and handled by two handlers at once.
* **Partial failure.** Statements that belong together are separate transactions.
* **Lost updates.** Six writers of one JSON column read, await and write it whole.
* **Jobs across reconnects.** Snapshots are per connection, jobs are not.
* **Terminals across reconnects, browsers and commands.** A shell outlives the node's stream, the bridge
  outlives the browsers, and the entry an agent's command runs on is kept apart from the bridge. *Correct when* one id has
  one live bridge, a reconnect takes it over without losing or repeating output, closing it never hangs, and a
  command that waits can be reached, is spared by the reaper, and is told when its shell is gone.

* **Exchanges over one stream.** Followers, tunnels and calls share a connection that can be superseded or lost at any
  await, their queues drop what they cannot hold, some of their keys are chosen by callers. *Correct when* no entry outlives
  its handler, what ends as complete is complete, an end reaches every reader, and every request ends.
* **Configuration against reconnects.** An update commits, reads back and pushes while the node registers and is sent a
  snapshot. *Correct when* a node that all pushes have reached runs what the ledger holds.
* **Two stores.** Content goes to ClickHouse, its index to PostgreSQL, from several stream loops and over one pool.

`PROJECT.json` lists the main hazards at their lines, with the properties that cover them.

## 2. The modules

```
NodeDirectory  <--refines--  NodeConnect  <--  NodeConnectProofs
     (abstract registry)         |
                             MCNodeConnect
SessionDispatch  <- MCSessionDispatch, SessionDispatchProofs
UpgradeTracker   <- MCUpgradeTracker, UpgradeTrackerProofs
TaskMessages     <- MCTaskMessages, TaskMessagesProofs
TaskFinalize     <- SessionFrames  <- MCSessionFrames, SessionFramesProofs
NodeJobs         <- MCNodeJobs, NodeJobsProofs
NodeConfig       <- MCNodeConfig, NodeConfigProofs
NodeLabels       <- MCNodeLabels, TaskMessagesProofs
NodeStreams      <- MCNodeStreams, SessionFramesProofs
HostTerminals    <- MCHostTerminals, HostTerminalsProofs
TerminalCommands <- MCTerminalCommands, NodeConfigProofs
```

Three proof modules extend two components each (NodeConfig and TerminalCommands, TaskMessages and NodeLabels, SessionFrames and
NodeStreams). The second component of a pair shares no name with the first, so its specification is `CommandsSpec`,
`LabelsSpec` or `StreamsSpec`, as SessionFrames' is `SFSpec` beside TaskFinalize's `Spec`; the two parts of such a module are independent.

Each component module declares its parameters as CONSTANTS with a named assumption, its
state as VARIABLES, one action per stretch of code, and its properties at the end.
An operator directly above a modelled one, commented as a variation ("An unregister that
…"), is a plausible wrong version of it: no specification uses it; it exists so that
each property can be shown to be sensitive to the code. `PROJECT.json` maps every definition
to the lines it models. The MC modules add the symmetry sets, where a run may use one.

### NodeConnect and NodeDirectory
`connect_stream.py`, `registry.py` (Registry, Connection, reaper), `crypto.py`,
and the administrative RPCs that change a row's status.

| Model | Code |
|---|---|
| `pc[s]` | where the handler of stream `s` is: before hello, row read, insert or update, reread, ack, configure, serving, stopping |
| `conns` | `Registry._conns`; a Connection is named by the stream that created it |
| `life`, `frames`, `sentinel` | `Connection._closed`, its downstream queue and the `None` at the queue's end |
| `seen`, `clock`, `serverStep` | `ReplayCache._seen` and TOTP time; a code is its step |
| `ledger`, `lastSeen`, `rec` | the row's status, whether it has ever connected, the status the handler has read |
| `admin` | what a revoke/delete/purge request still has to do after its first statement |
| `fresh` | connections heard of within the liveness timeout |

`Authenticate`, `UpsertWrite` and `UpsertReread` are three actions because `upsert_node` is
several statements; `RegisterConnection` does registration, close of the predecessor and the first
frames without an await, as the code does. `Pump` ends a stream by the sentinel or by a write
failure. `Teardown` unregisters only when the registry still names this connection.
`NodeDirectory` is the abstract promise: a node has at most one current connection,
a join replaces it, and a retired connection never returns.

### SessionDispatch
`create_session`, `delete_session`, `update_session_config`, `session_input`, the selection of a node,
the ack waiters, the binding rows, `delete_node`. A request sends one frame with
a fresh id, so the frame, its waiter and its revision are named by the request. `down`/`up` are the two
directions of the stream; `acks[n]` are the connection's waiters; `fut[r]` is the caller's future;
`binding[s]` is the placement row with the revision of its config snapshot. The node is external: it
answers ok, exists, or an error, in order or not at all.

### UpgradeTracker
The runtime, node and combined upgrade RPCs and the tracker's snapshot per step. A frame is
⟨run, kind⟩. The node is external: it works detached from the stream, reports events, acks, and
replaces its process for a node step. Calls overlap, as nothing serializes them. `crossed` is history: the frames whose snapshot
was finished by the answer to another frame, which `finalize_from_ack` cannot tell from its own.

### TaskMessages and TaskFinalize
The conditional UPDATEs, as functions from row and frame to row, fed by frames that are delayed,
truncated by a reconnect and handled by two handlers. In TaskFinalize `pc[f]` is the next statement of the
finalizer that handles frame `f`; any statement may raise, and `skipped` (history) keeps the grants that were then left in force.
`Success` are the result frames that report success: a node may report a session twice with different results.
The gateway's transitions (external) are those `src/` relies on: queue, dispatch, cancel, retry,
finalize, resume, delete.

### SessionFrames
What the stream loops of one session's node do with its frames, around TaskFinalize: a loop takes one frame at a time, an item
(`content`, `number`, `row`), a stage (`stageNumber`, `stageRow`) or the result (`finalize`, `history`, `grants`, `notify`);
`at[l]` is the statement it is about to run. Each handler takes one of `PoolSize` connections (`holds`); the finalizer gives it
back before the notification, which takes another. `content` is the ClickHouse table, keyed by the runtime's frame number, whose later
insert replaces an earlier one; `rows` are the index rows with their number of the shared sequence. An insert into ClickHouse
succeeds, fails, or fails after the row has arrived. A second loop starts at any frame: the node sends again what it
does not know to have arrived. The columns a stage sets in the task's row are left out.

### NodeStreams
One reader is one request, of a kind: `session` or `toolrun` follower, `tunnel` (reverse proxy), `proxy` (forward proxy), `upload`,
or `call` (host command, terminal list, the environment, iOS and child relays, which differ in their frames only).

| Model | Code |
|---|---|
| `live` | what `Registry.lookup` finds; 0 while the node is offline |
| `table[c]` | the readers registered in the dictionaries of connection `c`: `_sinks`, `_tunnels`, `_tool_runs`, `_acks`, `_host_execs`, `_file_uploads`, `_terminal_lists` |
| `queue[r]`, `lost` | the request's queue, or its future as a queue read once; readers whose full queue dropped a frame (history) |
| `phase[r]`, `conn[r]`, `first[r]` | waiting for the first frame, holding it while the response starts, reading the body; the connection and frame it holds |
| `got[r]`, `how[r]` | the chunks passed on, and how the exchange ended |
| `asked`, `sent[r]` | the node (external): what it may still answer, the frames it has sent |
| `ousted` | history: readers whose key another one with the same key took or removed |

Lookup, registration and send have no await between them, so starting is one action, with three outcomes: rejected before
anything is registered, refused by a full downstream queue, sent. Followers of a session or run and chunks of an upload share the key their
caller chose: registering takes the key over and ending removes it, whoever holds it by then.

### NodeConfig
Both families are one row with a revision: `stored[f]` is the list of the contents it has had, and its length the revision. `pc[u]` steps an update through
validation, the locked transaction, the read-back and the push; `greet` steps the connection's handler through the two
snapshots, a binding's in two steps: its row is read, then its pool entry is resolved (`ResolveSafe`). A lookup update pushes the row it
read back; a binding pushes the revision it read back with the content it was asked for. The node (external) applies a configuration above
the revision it runs.

Each of these steps can fail: the read-back of a committed row (`ReadBackFails`, nothing is pushed), the reading of a snapshot
(`GreetReadFails`, which the handler swallows), and the resolution, which then makes the binding direct under the row's revision. Three
history variables say to which revisions something happened: `mixed` (pushed with another update's content), `degraded` (sent as direct
by a snapshot) and `missed` (not sent to this connection, because its queue was full or a read failed).

### NodeJobs
iOS WDA jobs, builds and host-tool installs share one protocol: the call creates a snapshot on the
node's Connection, registers the waiter and sends, with no await between; the node acks, sends
events and one result on *whatever stream it has then*; polls read the current connection's snapshot.
They differ in what a frame does to the snapshot, and the model keeps those differences:

* reading `event.retryable` (`registry.py:562`) raises for a WDA event, whose message has no such
  field, after the stage was set: a WDA snapshot shows stages and lists no events;
* reading `ack.error_message` of a rejected start (`service.py:2621`, `2795`, `2923`; the field is
  `error`) raises, so a rejected, failed or timed-out start leaves a "running" snapshot behind.

### NodeLabels
Every writer of the label column as read – await – write. `labels.ver[k]` is the version listed for an
editor or tool, `labels.providers` the listed providers, `labels.addr` which registration's address is stored.
The history variable `raced` records that some write was based on labels that had been overwritten.

### HostTerminals
One terminal id of one node. `host` is `NodeHostTerminalRegistry._terminals` at that id; bridges are numbered in the order
they are opened, and `sess[t]`, `sconn[t]`, `recv[t]`, `last[t]`, `replay[t]`, `sub[t]` are a bridge's session state, its
connection, its receive queue, its resume point, its replay buffer and its browser; `pump` are the bridges whose
pump task runs. A chunk is ⟨shell, sequence⟩. `greeting` are the connections
whose `fire_node_connected` hook has not run: registration and hook are separated by two database round trips, so
browsers can open a bridge in between, while the stream itself moves no frame yet. The node is external: it
keeps its shells over a reconnect or loses them in a restart, and replays what follows the resume point.
How full a browser's queue is stays open: at each batch it may overflow, and the browser is let go.
`unsent` and `lossy` are history: bridges whose attach frame could not be queued, and bridges whose queue overflowed.

### TerminalCommands
The same id, its stream staying up, with the agent's side: `active` is the id's `ActiveTerminal` entry, `esess[e]` the bridge whose
session it types into, `slot[e]` the command it collects for, `agent[b]` the entry a browser's output loop feeds.
A command `k` is `notify` (its start is announced), `waiting`, `leaving` (its end is announced, the lock held) and done;
`fut[k]` is the collector's future. A marker is named by its command; `replay` and `bq` hold the markers in a bridge's
replay buffer and in a browser's queue. Four ways end a shell (`ShellExits`, `CloseFrame`, `Delete`, `Reap`), three retire
an entry (`Finished`, `FireRetired`, `EndBridge`).

## 3. The runs

| Run | Instance | Shows |
|---|---|---|
| ConnectReconnect | 1 node, 2 streams, queue of 2, TOTP steps 0–1 | The registry invariants, replay claims survive a reconnect, the refinement of NodeDirectory, `SentinelEndsStream`, `SilentIsDropped` |
| DispatchRaces | 2 nodes (one deletable), 1 session, 2 requests of any of 4 operations, queue of 1 | Waiters, answers, placement, double binding; every call ends |
| UpgradeProgress | 2 runs that may overlap, 2 versions, queue of 1 | A finished step says what became of its own frame, or of the one whose ack finished it; node step after runtime; a swap is confirmed |
| MessageDelivery | 1 message, 2 attempts, 2 streams, 3 unread frames | No status of an earlier attempt; ended messages stay ended |
| FrameRecords | 2 loops, each 1 stage, 1 item and the result (one a success), 1 resume, 2 pooled connections, any statement may fail | One notification per ending, no grant outlives the task but those a failure skipped, references have content, numbers order the rows, no handler is stuck on the pool |
| JobProgress | one WDA job and one tool install, 2 connections, 2 events each, 1 listed | Polls are true, results reach their snapshot, the newest events are listed |
| LabelWriters | 2 calls, 1 editor, 1 tool, 2 versions, 2 registrations | Nothing is lost but through an overwritten read |
| TerminalReattach | 2 browsers, 2 connections, 2 bridges, 2 chunks a shell; queues and replay buffer of 2 | One live bridge per id, no gap in the replay, every live bridge reattached, a closed one's pump wakes |
| AgentCommands | 2 browsers, 2 commands, 2 bridges, 3 entries | A waiting command is addressable, spared by the reaper, told when its shell is gone, and ended by its own marker only |
| StreamReaders | 2 requests of every pair of kinds, 2 connections, responses of 3 frames, queues of 1 | No entry outlives its handler, only overrun queues lose chunks, the end of a connection reaches its readers, requests end |
| ConfigPush | 2 updates of either family, 3 registrations, queue of 2 | A settled node runs the ledger, no content under another's revision, a connected node catches up; with the exceptions that failing steps make |
| RevokeRace | 1 stream, 1 administrator | A disagreement with what the code states, section 4 |

**Why the bounds are enough.** Supersession, a stale teardown and a full queue need two streams of
one node and a queue a sender can fill; a third stream or a second node adds only repetition, and
the safety part is proved for any number of both. Two requests suffice for every race between two callers
for one session or node; two nodes let a session be placed, rebound and its
first node deleted. Two runs give each stale frame a newer run to hit, and two calls at
once give each ack the other's snapshot to finish; the node runs `Installed` at first, and calls are numbered as they start, which loses
nothing but names. In JobProgress an event list of
length 1 truncates at the second event (20 in the code), and two connections are one reconnect. In
LabelWriters two calls, a heartbeat and a registration give four concurrent writers. One message
and two attempts suffice in MessageDelivery: a frame that names no message, or an earlier attempt, only has to arrive
late. Two bridges of one id give every late end of one a newer one to hit; a queue of two chunks overflows
at the third frame; a second browser takes over from the first; and a second command follows one that was given up. A third entry exists
for the one made after two have been retired.
In StreamReaders two requests are enough for one to take the other's key; three frames make a first, a middle and a last one, and a
queue of one overruns at the second; a second connection is where a late answer or a new follower arrives. In ConfigPush two updates
overlap in every order with a snapshot; three registrations are a first one and two reconnects; a queue of two holds one
snapshot of each family and overruns at the third push. In FrameRecords two loops are the two streams of a reconnect; two pooled connections are as
many as the loops, so that a handler that took a second one would block the other.
The counters `MaxStep`, `MaxAttempt`, `MaxStreams`, `MaxFrames`, `MaxResume`, `MaxConn`, `MaxEvents`,
`MaxFlight`, `MaxInFlight`, `MaxVersion`, `MaxJoin`, `MaxTerm`, `MaxOut`, `MaxEntry`, `MaxConns`, `Chunks` and `Items` are bounds of the models, guards of the actions that
would pass them; `Buffer`, `DownstreamBuffer`, `OutCap`, `ReplayCap`, `EventCap` and `PoolSize` are capacities of the code, shrunk.
With the TOTP clock at 0–1 and `StepWindow` 0, no claim expires in the run; expiry is covered by the
theorem only.

**Deadlock.** It is checked where the system cannot stop (ConnectReconnect, DispatchRaces,
UpgradeProgress, RevokeRace: nodes can always go and come back). In the other models the bounded inputs run out, so
a final state is legal.

**Fairness.**
* ConnectReconnect: weak fairness of each handler's own stretches (`Progress(s)`: the event loop resumes a
  coroutine whose await is over), of the disconnect that follows a committed revocation or deletion, and of the reaper,
  a periodic task. Nothing is assumed of nodes: no fairness for frames, heartbeats or EOF.
* DispatchRaces: weak fairness of each request's steps, among them the timeout, because every wait is
  an `asyncio.wait_for`. Node and connection are not fair.
* UpgradeProgress: weak fairness of `Redial` only. The node client dials again for ever when
  it has no stream. `SwapIsConfirmed` says nothing without it: the reconnect is the evidence.
* StreamReaders: weak fairness of each reader's own steps: the event loop hands it what its queue holds, and its timers
  expire (followers have none, and `ExchangesEnd` leaves them out). Nothing is assumed of node, network or client.
* ConfigPush: weak fairness of an update that has been validated, of the connection's handler, and of the connected node's reading;
  whether the node connects at all is open.
* FrameRecords: weak fairness of each loop: a statement returns or raises, and the pool serves whoever waits. Weak fairness
  is enough because every handler gives its connection back, which is what `HandlersEnd` shows.

**Type invariants** (`TypeOK`, `FramesTypeOK`) are stated in every module; those of the modules with a proof module are proved
(section 5), and the runs spend their time on the others.

**Sensitivity.** For each property of a passing run `PROJECT.json` names a definition and a wrong version of
it (a dropped guard, an off-by-one, a reset that is missing) under which the run finds the property
violated.

## 4. What the models show about the code

One of these is a run whose one property states a line of the repository and is violated:

* **RevokeRace** – "Drop any live connection so the node stops receiving work immediately"
  (`service.py:1343`). A stream that has read its row and registers after the disconnect stays online.

More disagreements follow from the models; no run is kept for them, and the properties of the passing runs say
where they stop:

* "neither grant can be reused after the task ends", with the gateway as "second chance"
  (`task_finalize.py:140-143`). If a statement after the status fails, every later finalizer
  finds a terminal status and returns: the grants stay in force until the gateway resumes or deletes the task. `OnlySkippedGrantsLeft`
  says that these are the only ones left (`skipped`).
* "A terminal whose operator closed the tab still has its entry, so an agent command can
  start (or keep running) there" (`terminal_gateway.py:340`). Only an attached browser's output loop feeds the
  collector (`terminal_gateway.py:456`), so a command that prints its marker while nobody watches waits for its whole timeout,
  is sent a Ctrl-C and is told it timed out. (The module's own docstring, `terminal_commands.py:19`, still says that
  such a command "fails rather than silently running unobserved".)
* A dropped tunnel chunk is to be "treated as a failed proxy by the handler" (`registry.py:43-46`, `375-378`). The handler cannot tell: it
  goes on with the next chunk and ends as complete at the last one, with a hole. `WholeUnlessOverrun` speaks of queues that never overran.
* "Configuration is a durable authoritative snapshot … every reconnect catches up" (`connect_stream.py:212`). Two overlapping
  binding updates can push one revision with different contents (`service.py:837-844`); the node keeps the first it gets, and the snapshot of
  a reconnect, which has the same revision, is dropped by its gate. A snapshot whose binding cannot be resolved at that moment goes out as
  direct *under the live revision* (`service.py:382-397`, `796`): the gate then drops the real content at that revision, and the node stays direct
  until the next update of the binding. A snapshot that cannot be read is skipped with a debug line (`connect_stream.py:215-222`), and the
  connection serves on without it. `SettledIsLedger` and `RunsWhatWasStored` name such revisions (`mixed`, `degraded`, `missed`) and hold of all others.
* The index row is to refer to its content by "`message_ref`→CH id" (`task_event_log.py:164`); the INSERT writes no such
  column, and rows and contents are joined by `logical_event_id` alone.
* "close() woke us" (`stream_follow_toolrun.py:175`): a follower of a run whose queue was full when the connection closed is not woken, nor is one whose
  key a second follower took. `ClosedWakes` leaves out both.
* `close()` is to "wake the downstream pump with a sentinel so it exits its await" (`registry.py:816`). With the queue
  full the sentinel is dropped; the pump drains the queue and waits for ever, and the handler ends only when the
  node closes the stream. `SentinelEndsStream` speaks of queued sentinels for that reason.
* "The server keeps an in-memory snapshot per job for polling" (`proto/agentcompose_v2.proto:3642`), but the snapshot
  belongs to the connection: after a reconnect the result is dropped and polls answer NOT_FOUND. `ResultReachesSnapshot` speaks of the
  connection that dispatched the job.
* "the next ListNodes reflects the install" (`service.py:1925`), but another writer that had read the row earlier
  erases it: `LostOnlyByRace`.

Further races seen while modelling. They are allowed by the models, and no property claims
otherwise:

* A claim is released per node, so the end of an old connection releases the claim of a stream still
  registering; a set-up that fails after its claim keeps it until it expires (`crypto.py:107-110`).
* A node deleted while it is connecting is recreated by its upsert (`store.py:614`), and a purge in
  `revoke_onboard` deletes the row without a disconnect (`service.py:3285`).
* A binding insert that loses to another writer retries as an update; if the row is unbound in between and a third
  writer inserts one again, the retry fails on the primary key and the dispatch the node accepted is
  answered with an error (`store.py:826-850`). `SecondWriterHarmless` says that it takes an unbinding. A dispatch that waits for its ack while its node is deleted writes a binding to a
  node that is gone (`store.py:790`).
* Capacity is judged by the last heartbeat, so concurrent dispatches overbook a node (`service.py:3605`).
* Two upgrades of one node at once: acks carry no frame id into the tracker, and one run's ack finishes the
  other's step (`upgrade_progress.py:106`, `136`), which then shows what became of a frame it was not created for until its own
  result arrives. `FinishedByOwnRun` allows this for the frames in `crossed`, and asks that some other call's step ended so.
* A configuration row that cannot be read back after its commit (`store.py:486`, `524`) ends the update with an error and no push: it is in
  force, but a connected node runs the one before until it reconnects. `CatchesUp` leaves out such a revision.
* A replayed error frame names a message and no attempt, and fails the attempt in flight
  (`task_message_status.py:118`).
* A resume between the transition and the withdrawal of grants loses its new grants (`task_finalize.py:222`).
* A terminal whose queue is full when its connection closes gets no sentinel (`registry.py:858`): its pump waits on
  the dead connection, and every later `rebind_all` skips it. `ReattachFindsAll` leaves out such bridges, and those whose
  attach frame found the node's queue full.
* A `terminal_exit` names an id and no generation: the late exit of a closed shell ends the bridge that was re-opened under the
  id while its shell runs on (`terminal_bridge.py:175`).
* A bridge that ends late, a deletion or the reaper retires whatever entry the id has by then (`terminal_gateway.py:507`,
  `terminal_bridge.py:661`, `775`). Browsers of the re-opened terminal go on feeding the retired entry, and a command in the
  entry made next times out.
* A command interrupted while its start is announced is typed into the shell all the same (`terminal_commands.py:487`).
* The first message to a browser is sent outside the `try` (`terminal_gateway.py:432`): when it fails, the browser stays
  subscribed and the terminal is never reaped.
* `wait_for` cancels the collector's future, so the grace period that `_interrupt` describes ends at once
  (`terminal_commands.py:493`, `535-546`).
* A session's follower hears nothing when its connection ends: `close()` does not touch the sinks. It waits until its client
  leaves, and its cleanup unbinds by session id, a later follower's sink included (`registry.py:248`). A result, or the exit of
  a run, that meets a full follower queue is dropped, and the follower waits for ever.
* A refused `start_tool_run` and the end of any follower of a run remove the run's queue, whoever opened it (`service.py:727`, `761`).
* A body that stalls, or whose connection goes, just ends: the client sees a response that ended, not one that failed; `tunnel.py` ignores an
  error frame in the middle of a body altogether.
* The entry of a tunnel stays in the table when the client goes before the body iterator starts (`tunnel.py:103`, `node_proxy_gateway.py:75`).
* A retried upload chunk is answered by the late answer of the one that timed out (`service.py:3579`): answers carry no offset.
* A binding update of a node that is deleted and created again while it reconnects finds revision 1 again: its node drops pushes
  until the row's revision is above the one it runs.
* An insert into ClickHouse that fails after its row has arrived leaves the content in both stores; a runtime that numbers from
  the start again overwrites the contents of earlier frames (`task_message_store.py:252`).
* A number drawn earlier can be inserted later than a larger one, and a reader that pages by the cursor in between skips it
  (`task_event_log.py:280`).
* A label refresh started before a registration puts back the old server-seen address (`service.py:1765`).

## 5. The proofs

A theorem holds for every value of the constants that its module's named assumption allows; where one needs more, its
statement says so. No theorem is about a fixed number of nodes, streams, calls, jobs or frames.

| Module | Theorem | States |
|---|---|---|
| NodeConnectProofs | `TypeCorrect` | `Spec => []TypeOK` |
| | `OneLiveConnection` | `Spec => []OpenIsRegistered` |
| | `NoAbandonedConnection` | `Spec => []RegisteredIsHandled` |
| | `ImplementsDirectory` | `Spec => RefinesDirectory` |
| | `ClaimsSurviveReconnect` | `Spec => ClaimsDropOnDisconnect` |
| NodeConfigProofs | `ConfigTypeCorrect` | `Spec => []TypeOK` |
| | `RunsAsStored` | `Spec => []RunsWhatWasStored` |
| | `RunsTheRow` | `Spec => []SettledIsLedger` |
| | `CommandsTypeCorrect` | `CommandsSpec => []CommandsTypeOK` |
| | `AddressableCommands` | `CommandsSpec => []RunningIsAddressable` |
| | `GoneCommandsTold` | `CommandsSpec => []GoneIsTold` |
| | `OkCommandsFinished` | `CommandsSpec => []OkIsFinished` |
| | `SparedWork` | `CommandsSpec => WorkIsSpared` |
| SessionDispatchProofs | `DispatchTypeCorrect` | `Spec => []TypeOK` |
| | `NoOrphanWaiter` | `Spec => []WaitersAreCallers` |
| | `OwnAnswer` | `Spec => []AnswerIsOwn` |
| | `AckedPlacement` | `Spec => []PlacementWasAcked` |
| | `HarmlessRetry` | `Spec => []SecondWriterHarmless` |
| TaskMessagesProofs | `MessageTypeCorrect` | `Spec => []TypeOK` |
| | `StatusOfAttempt` | `Spec => []StatusIsOfThisAttempt` |
| | `EndedMessages` | `Spec => EndedStaysEnded` |
| | `LabelsTypeCorrect` | `LabelsSpec => []LabelsTypeOK` |
| | `LabelsKept` | `LabelsSpec => []LostOnlyByRace` |
| SessionFramesProofs | `LoopsFinalize` | `SFSpec => Spec` of TaskFinalize: the stream loops implement the finalizers |
| | `OneNotification` | `Spec => []NotifiedPerEnding` |
| | `GrantsWithdrawn` | `Spec => []OnlySkippedGrantsLeft` |
| | `FramesTypeCorrect` | `SFSpec => []FramesTypeOK` |
| | `ReferencedContent` | `SFSpec => []ReferenceHasContent` |
| | `OrderedIndex` | `SFSpec => []CursorOrdersRows` |
| | `StreamsTypeCorrect` | `StreamsSpec => []StreamsTypeOK` |
| | `EntriesAreRead` | `StreamsSpec => []RegisteredIsReading` |
| | `ResponsesWhole` | `StreamsSpec => []WholeUnlessOverrun` |
| | `CloseIsHeard` | `StreamsSpec => []ClosedWakes` |
| UpgradeTrackerProofs | `UpgradeTypeCorrect` | `Spec => []TypeOK` |
| | `OrderedSteps` | `Spec => []NodeStepAfterRuntime` |
| | `OwnOutcome` | `Spec => []FinishedByOwnRun` |
| NodeJobsProofs | `JobsTypeCorrect` | `Spec => []TypeOK` |
| | `TrueVerdicts` | `Spec => []PollIsTruth` |
| | `ResultsReachSnapshots` | `Spec => []ResultReachesSnapshot` |
| | `NewestListed` | `Spec => []NewestEventsListed` |
| HostTerminalsProofs | `TerminalsTypeCorrect` | `Spec => []TypeOK` |
| | `OneLiveBridge` | `Spec => []LiveIsRegistered` |
| | `EveryBridgeReattached` | `Spec => []ReattachFindsAll` |
| | `ClosedPumpsEnd` | `Spec => []ClosedPumpWakes` |
| | `NoGapInReplay` | `Spec => []ReplayIsContiguous` |

Each proof has the same three parts: the initial states satisfy the inductive invariant, every action preserves
it (a lemma per action, and in the larger modules per action and conjunct), and it implies the property. Each inductive
invariant was first checked by TLC on the instance of the module's run. What each one adds to the property, and why:

* **NodeConnect**, `IInv == TypeOK /\ PhaseInv /\ MapInv`. `OpenIsRegistered` alone is not inductive: a handler that is about to
  register must be known to have no connection yet, and a teardown must know whose connection the registry names.
  `PhaseInv` ties a handler's phase to the life of its connection, `MapInv` says that the registry and the open
  connections name each other. The refinement and the action property follow step by step: every step is a join, a
  leave of a set of nodes (the reaper and administrators), or a stutter of the directory.
* **NodeConfig**, `ConfigInv` and `ReachInv`. What the node will run is already on its way in the queue, in the handler's
  hand or in an update's; `ConfigInv` says of each that it is `Genuine`: a revision the row has had, with the content it had then,
  an earlier binding at a mixed revision, or direct at a degraded one. `ReachInv` says where the *last* revision is while the node does
  not run it: queued, carried by an update that has committed, still before the handler, or among the missed ones. When all of
  these are through, the node runs a genuine content of the last revision, which is the row unless that revision was mixed or degraded.
* **SessionDispatch**, `DispatchInv`. A frame on its way is unanswered, targets its own node and is there once; the
  phases before the send have no answer; a create that binds has its session recorded at the node; a call that lost an insert
  knows of an unbinding by the time its retry finds no row. An acknowledged placement is then a matter of which phases write it.
* **TaskMessages**, `MessageInv`. A queued frame that names a status carries a fact the runtime or gateway established, of a
  message with a row, however many reconnects ago it was sent. The status of a message changes to facts of its present attempt only.
* **TaskFinalize and SessionFrames**, `GrantInv` and `FramesInv`. Grants of an ended task are in force only while somebody has
  still to withdraw them (`Pending`), or because a statement that failed left them (`skipped`). The proof that the status
  and the count of finalizers past the transition match is arithmetic over a finite set of frames (`IsFiniteSet(Frame)`).
  `FramesInv` says where the content of an item in hand went, and that a drawn number is nobody else's and above those of the
  loop's earlier rows.
* **UpgradeTracker**, `StepInv` and `SnapInv`. `StepInv` says that what is on the wire, and the answer a call has got, is
  what became of a step, and that a call sends its node step after its runtime step ended well. `SnapInv` says of each snapshot what
  the property says, and that a step failed without being sent stays unsent. No relation between a call and the snapshot it
  finishes is assumed: where the two are of different frames, the snapshot's is recorded in `crossed` and the answer tells of the call's.
* **NodeJobs**, `JobInv`, one conjunct `JobFine(j)` per job: it has one snapshot, on the connection of its dispatch; its start is sent once;
  what is on the wire is what the node did; events on that connection follow the one shown without a gap (`InOrder`), and the
  list is a function of the last event shown (`Listed`).
* **HostTerminals**, `BridgeInv` and `FlowInv`. `BridgeInv` says that an open bridge is the registry's, on a connection the node
  has had, that its queue carries no end mark if that is the live one, that it is pumped once the live connection's hook has run, and
  that a pump whose bridge is closed has a mark to wake it.
  `FlowInv` speaks of the `Line` of each bridge that lost no chunk: its replay buffer, its queue and what is still on the stream
  follow each other without a gap (`Fine`) and, while the node relays to it, end where the shell is (`Tip`). A line starts anew with a reattach, and
  three conjuncts say when that is safe: an attach frame is the only one, names what its bridge has, and nothing has arrived
  since it was sent (`AttachFirst`); the bridge that an open frame asks for still pumps (`AskedBy`); and a new connection moves nothing
  before its hook has run (`HookFirst`). The type invariant has its own part: the node starts a shell for every open frame it takes, so
  `OrderInv` names the bridge each open frame on its way was sent for, in the order of their making, and `StartInv` says that no chunk
  is of a shell to come.
* **TerminalCommands**, `CmdFine`. `CmdInv` holds a command and its entry together: from its start to its last message a
  command has an entry to itself (`OneHolder`, the entry's lock), the entry collects for it until it ends, and while it waits that entry
  is the registry's. `OpenFine` says that an open bridge is the registry's and that an attached browser's bridge was made;
  `TellingFine`, that a command whose bridge closed has a retirement or a leaving browser to come; it is stronger than `GoneIsTold`, since
  the end of a pump, which the property also allows, comes too late once another bridge is registered. `MarkersFine` follows a marker from the shell
  over replay buffers and browser queues to the command it ends.
* **NodeLabels**, `LabelInv`. Labels wait in a call, in an ack, in the registration and in the heartbeat before they are written.
  All of them list only what is installed (`AllReal`); an ack on its way, and an answer not yet stored, hold what the call will need:
  the version it installed, or all that a refresh would otherwise drop (`Answerable`). A write based on the current labels then loses nothing.
* **NodeStreams**, `StreamInv`. Entries: a reader is registered where it reads, and only a session's follower stays on a
  connection that was closed, so that the place where a tool run's follower cleans up (the live connection) is the place of its entry. Ends: `WakeFine`
  is `ClosedWakes` of one reader. Contents: a tunnel that lost nothing has passed on the chunks `1 .. n`, its queue continues them up to an end, and
  while the node may still feed it they reach to the last chunk the node sent (`LineFine`). This is where the order of frames, the queue's
  bound and the two places a first frame can be in come together.

The assumptions are the code's: capacities are positive, a response has a chunk, there is something to install, editors are not host tools, the null value is no node, request, version or frame, the families of jobs
are disjoint, deletable nodes are nodes. Some sets are finite (updates, result frames), because the proof counts their
members or a property does.

**Only model-checked.** Liveness (`SilentIsDropped`, `SentinelEndsStream`, `CallsEnd`, `SwapIsConfirmed`, `CatchesUp`, `ExchangesEnd`, `HandlersEnd`), which needs
fairness and ENABLED; the sensitivity of the properties to the code.

## 6. What is not modelled

* Of NodeConnect: the limit on connections and HTTP/2.
* Manager nodes: ownership, moving, the hosted nodes marked offline; the remembered upgrade proxy.
* `sync_task_provider_thread`.
* Of tunnels: `RemoteNodeConnectManager`, which reaches the gateway over HTTP from another process; its 120 s read timeout
  (`node_proxy_gateway.py:129`) ends streams to which the gateway grants 3600 s. Of follow streams: the pass-through to another control plane.
* Frames sent without waiting for an answer (terminal interrupt, stop of a tool run, iOS discovery): they change nothing on the server.
* Of terminals: the editor-workspace registry (the same bridge, aged by inactivity, without rebind and commands), the limit per node, resizing, input from browsers, the wrapper's and marker's bytes, cancellation of
  the request that runs a command, the websocket proxy. TerminalCommands leaves out the overflow of a browser's queue, which drops the markers
  in it and lets the browser go (`terminal_bridge.py:436-446`); HostTerminals has it. HostTerminals leaves agent commands out; TerminalCommands has them, on a stream that stays up.
* Which frames are stored at all, and in what shape (`task_event_log.py:182-235`); connecting to ClickHouse.
* The envelope (`envelope.py`), a length-prefixed format whose decoder keeps no state.
* Per-job event queues and result futures (`open_*_job`, `await_*_result`), which no code in the repository opens.
* Of NodeConfig: the deletion of a node's row while it is connected (the snapshot then has revision 0, which the gate drops), and edits of
  a pool entry under a binding, which change no revision: a content is the binding, not what the pool makes of it.
* The ocr tool of `manage_editor`, and failing statements, in NodeLabels.
* Git proxy, unary routing, configuration, wiring of the application, binaries, scripts, generated protobuf
  code: no protocol state.

## 7. The plan

Done: NodeConnect with its abstraction and proofs, then SessionDispatch, UpgradeTracker, TaskMessages,
TaskFinalize, NodeJobs, NodeLabels, HostTerminals, TerminalCommands, NodeStreams, NodeConfig and SessionFrames. Left:

1. *The editor-workspace terminals*, as a variant of HostTerminals, and *manager ownership*: hosted nodes, the move, and the
   offline marking that races the manager's reconnect.
