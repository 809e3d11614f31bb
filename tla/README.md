# A verification model of the AI agent framework

This directory holds TLA+ models of the concurrent and stateful parts of the
agent framework, the TLC configurations that check them on small instances, and
TLAPS proofs of the properties that should hold for every instance.

Run `tlc -config X.cfg M` on the module and configuration of a row below, and
`tlapm M.tla` on a proof module.

## 1. The system

The gateway (`gateway/server.py`) is one asyncio program (FastAPI). Its handlers
run on one event loop; a handler changes shared state freely between two
suspensions (`await`) and never in the middle of somebody else's step. Some
parts run on threads: the cron and heartbeat schedulers have thread pools of
their own, and the tools of an agent run on executor threads of the agent library.

| Component | State it keeps | Operations | Modelled by |
|---|---|---|---|
| Lane queue (`gateway/lane.py`) | a lock and a last-activity stamp per session key | acquire, release, is_locked, cleanup_stale | `LaneQueue`, `FifoLanes` |
| MCP client (`harness/mcp/client.py`) | connection flag, session, owner task, command queue, ready future | connect, call_tool, disconnect, owner loop | `McpClient` |
| MCP manager (`harness/mcp/manager.py`, `config.py`) | config file, table of clients, table of wrapped tools | initialize, add, remove, toggle, connect, disconnect, shutdown | `McpManager` |
| Task board and member pool (`harness/team`) | tasks with status, dependencies, assignee; members with status | create, claim, submit, spawn, claim for member, shut down | `TaskBoard` |
| Background tasks (`harness/multi_agent/background.py`) | task table, queue, worker task | submit, worker loop, start, stop | `Jobs` |
| Cron and heartbeat (`harness/scheduler`) | task and callback tables, jobs of the scheduler | add, remove, register callback, fire | `Jobs` (the cron part) |
| Chat turns and session log (`ws_chat` and the HTTP chats of `gateway/server.py`, `gateway/session.py`) | one JSONL file per session, the turn's events | a turn, append, a crash | `AgentTurn` |
| Approval chain (`harness/security/approval.py`) | table of pending approvals | check L0..L4, approve, reject, list | `ToolGate`, inside `AgentTurn` |
| Role permissions (`harness/security/rbac.py`) | the YAML file, two derived caches | load, save, set roles of a skill or server | `Rbac` |
| Sandbox (`harness/sandbox`, `middleware/sandbox.py`) | the manager's session table, the back end's table of containers | ensure a session, run, kill on timeout | `ToolGate`, inside `AgentTurn` |
| Memory (`harness/memory`, two middlewares) | markdown files per user, rows in PostgreSQL, coroutines that wait for the loop | create, append, write, archive, heartbeat extraction | `Memory` |
| Expert agents (`harness/expert`) | registry in memory, a JSON file and a SOUL.md per agent, deployed profiles | create, update, delete, scan | `Experts` |
| Context flush (`harness/context`) | set of flushed sessions | flush once per session | not modelled (section 7) |
| Sub-agents, evolution, skills, the external agents' protocols, auth, frontend | results of model calls, file scans | sequential or pure I/O | not modelled (section 7) |

How they interact: the HTTP chat handlers and the DingTalk callback take the
session's lane, run an agent and release it. The WebSocket chat does not take a
lane. An agent's tools are filtered by role and checked by the approval chain;
wrapped MCP tools call back into the MCP client on the event loop; team tools
work on a task board. The admin API changes the MCP manager, the experts and
the permissions while agents run.

What is hard here: operations that read a table, suspend, and write it (MCP
manager); two tasks that hand a resource over through a queue and futures (MCP
client); a wake-up that is scheduled but not yet executed (lane queue);
statuses that have to follow other statuses (task board); threads beside the
event loop (schedulers, tools); files rewritten in place. `PROJECT.json` lists
the hazards one by one with the properties that cover them.

### What makes each component correct

* Lane queue: one request per session at a time, in order of arrival; nobody
  waits for ever; release frees only its caller's lock.
* MCP client: one connection at a time, opened and closed by the same task;
  every caller gets an answer; disconnect means closed, whichever connections break.
* MCP manager: the two tables agree with each other, with the clients that nobody asked
  to close and with the store; nothing stays open after shutdown.
* Task board: a task is blocked exactly while a dependency is open; it is
  claimed once; a member works on one task.
* Background and cron: an accepted task runs once and ends; a listed task has
  a job; a removed one no longer runs.
* Chat and log: what the user saw is in the log, in order, whatever fails.
* Memory: what was written stays, once, in the file first and then in the row; the
  archive of a turn never keeps the event loop.
* Experts: the registry is what the files say; a deleted agent leaves nothing; an
  agent has only what its role may use.
* Approval, sandbox and permissions: a dangerous call reaches its handler only with an
  approving verdict, and runs in the container of its own session or not at all; what
  an administrator set is what is enforced afterwards.

## 2. The modules

**LaneQueue** models `LaneQueue` and the part of `asyncio.Lock` it relies on: the
flag, the deque of waiters, the wake-up that `release` schedules and that takes
effect when the waiter's task runs. A request is one run of a handler; it goes
from `"new"` through `"waiting"`/`"woken"` to `"holding"` and `"done"`, and may be
cancelled while it waits (`"cancelled"`, `"cancelledWoken"`). A lock object is named
after the request whose `acquire` created it. `AcquireNow`, `AcquireWait` and
`Resume` are the pieces of `acquire` between suspensions, `Release` is `release` in
the handler's `finally`, `CleanupStale` is `cleanup_stale`. Time is abstracted to
whether a session's stamp is older than `max_age_seconds`. The constant
`QuietStale` says whether a stamp may get old while somebody holds or waits for
the lane. At present the handlers call the synchronous `agent.invoke` between
acquire and release, so the lane is seldom contended in the gateway; the model
checks the contract of the class for handlers that suspend there, as
`tests/unit/test_lane.py` uses it.

**FifoLanes** is what the module comment of `lane.py` promises: of a session's requests at
most one is active, and a request becomes active when nobody is left of those that were
waiting when it came. Its state is who waits, who waits ahead of whom, and who is active.
The end of `LaneQueue` maps the lane queue to it (the queued requests that are not being
cancelled wait, and those before them in the same deque are ahead); TLC checks the
refinement and `LaneQueueProofs` proves it.

**McpClient** models one `MCPClient`. Each action is what one task does between two
suspensions: the pieces of `connect` (`StartOwner`, `FindsConnected`, `Ready`,
`ConnectRaises`), of `call_tool` (`CallTool`, `CallReturns`), of `disconnect`
(`Disconnect`, `DisconnectIdle`, `DisconnectAnswered`, `DisconnectReturns`) and of the
owner task (`OwnerReady`, `OwnerFails`, `OwnerTakes`, `OwnerAnswers`, `OwnerCloses`).
Futures, queues and owner tasks are named after the caller that made them, so the model
can tell the queue an owner waits on from the queue that is in `_command_queue` now. Its
callers are the manager's connect and disconnect and any number of wrapped tools. (The
wrapper in `manager.py` blocks its own thread while it waits; the model checks the
client's contract for tasks of the loop, which is what the comment in `_run_connection`
states.) The variable `lossy`, chosen at the start, says whether connections break
(`OwnerLoses`: the SDK cancels the task that entered the transport, whichever call opened
it); `CallersReturn` (`QueuedCallAnswered` and `ReturnsUnlessStranded`) and
`DisconnectEnds` are stated for behaviours in which none does.

Two things happen when a connection breaks. The owner task may end cancelled, and a
`CancelledError` passes `suppress(Exception)`, so that a disconnect that awaits that task
raises it (`Broken`, `DisconnectIdle`, `DisconnectAnswered`, `DisconnectReturns`). And a
disconnect may forget an owner (`ForgotOwner`): it was answered, found the owner task of a
call that had reconnected and waited for it; that connection broke; before the disconnect
woke up another call reconnected; then `_owner_task = None` (`client.py:179`) dropped the
newest owner. When that owner fails, its `connect` finds no task to wait for
(`client.py:50`) and gives the lock back at once, a third call starts an owner beside it,
and whichever closes first takes the other's session away. `LeavesOwnContexts` and
`ConnectedIsServed` name this as their only exception; without it TLC shows the behaviour
just described, in 23 and 24 states.

**McpManager** models `MCPManager` under the admin endpoints and the gateway's shutdown. A
client is named after the request that opens it and is abstracted to a status. A
connection breaks by itself (`Breaks`), and a wrapped tool that is in the table or still
held by an agent connects its client again, also one that was asked to close and is in no
table any more (`Reopens`); nobody finds that connection, and the properties about open
connections speak of clients that nobody asked to close (`InUse`). The disconnect of a
client returns (`Returns`) or raises the `CancelledError` of a broken connection's owner
(`Cancels`), which `disconnect_server` and `shutdown` let pass: the request ends before it
has swept the tools (`DisconnectCancelled`, and `CutShort` in the properties), and the
shutdown stops with servers left (`ShutdownCancelled`). `PopClient`, `Await`,
`SweepTools`, `Connecting` and `Adding` are the pieces the operations share;
`Disconnected` and `Connected` are their continuations. The variable `oneAtATime` is
chosen at the start and says whether requests for one server come one after another: some
properties hold without that discipline, others only with it, and one run covers both.

**TaskBoard** models `TaskBoardManager` and `TeamMemberPool`. Every method is
synchronous, hence one action. `disciplined`, chosen at the start, says whether
the callers go through the pool (create without an assignee, claim and submit
through the pool). In the repository only tests use the pool, and the team tools
build a fresh board per call.

**Jobs** models what the gateway runs outside a request: `BackgroundTaskManager`
with its worker, and `CronScheduler` with the endpoints that create and delete
cron tasks. The worker calls the synchronous `agent.invoke` on the event loop and
the endpoints do not suspend, so each of them holds the loop (`LoopFree`) from its
first action to its last. Two kinds of threads run between these actions: a cron
run on the scheduler's pool (`Fire`, `RunLooksUp`, `RunStarts`, `RunEnds`) and the
tool `submit_background_task` on an executor thread (`SubmitTool`). `put_nowait` of
`asyncio.Queue` is one action; `get` from an empty queue is two (`WorkerLooks`,
`WorkerWaits`), because a thread may put between the test and the wait. A put that
finds the waiting getter makes it ready; that the loop notices is due to the
timer with which uvicorn's main loop wakes up every 0.1 s. The callback the
gateway registers for a cron task only logs and is left out. The model is one
gateway process: with several workers each has tables of its own.

**Rbac** models `harness/security/rbac.py`. A role's data is a record of the lists
in the YAML file; `SkillSet` and `ServerSet` are the loop bodies of
`set_skill_roles` and `set_mcp_server_roles`, `AllowsSkill`, `AllowsTool` and
`HasServer` the functions that read the data. A save is three actions, `Save`
(compute the new data and truncate the file), `WriteFile` and `ClearCaches`,
because agents of cron runs look permissions up on other threads (`LooksUp`,
`Loads`, `Stores`, `Returns`: the statements of `get_role_mcp_tool_access`), and
because the process may stop in between (`Restart`). The file is about one
kilobyte, so it is written in one piece when it is closed. An empty file reads as
a role without MCP tools whose `skill_access` has its default, `"all"`: the skill
check then lets everything pass.

**AgentTurn** models what a turn of a chat leaves in the session file. `ws_chat` is
`Open`, `BeginTurn`, `AiMessage`, `Send`, `StartTools`, `ToolsDone`, `EndTurn` with their
failures (`BeginTurnFails`, `SendFails`, `ToolsFail`, `Disconnect`); the proxy of an
external agent is `BeginProxy`, `ProxyChunk`, `ProxyFails`, `ProxyEnds`; the HTTP chats
and the DingTalk callback are `Request`, `ProxyRequest`, `RequestCalls`, `RequestTools`,
`Answer`, `RequestFails`. `agent.stream` and `agent.invoke` are synchronous, so a handler
holds the loop (`loop`) from one `await` to the next; the lane, which an HTTP chat takes
and releases without giving the loop up, is left out. The file is a sequence of lines;
`Crash` may tear the line that is being written, and the next record is then appended to
that line ("garbage"). The lines of an HTTP turn are written in one go and are one line
here. `shown` is what the client has received of the turn: the tool calls and skill
declarations in order, and the number of pieces of text. The agent, its model, the client
and the external agents are external.

**ToolGate**, which `AgentTurn` extends, models a tool call from the model's request to
the tool's body, in a thread of its own. `Check` settles what the levels L0 to L2 settle
by the class of the content, `Escalate` goes as far as the role's level allows, `Review`
and `ReviewFails` are the reviewing model, `Decide` the endpoints of the human. `Route`,
`BackendLookup`, `BackendStart`, `StoreSession`, `Exec`, `RunEnds`, `RunTimesOut` and
`RunFails` are the sandbox, split where another thread of the same session may come in
between the manager's table (`table`) and the backend's (`box`). The configuration the
gateway was started with is chosen at the start, and with it whether the agent runtime
hands the user context to the middlewares.

**Memory** models the files and rows of one user. Every rewrite of a file is three steps,
read (`Begin`), `Truncate` and `Fill`, since tools, cron jobs and the heartbeat run in
threads. It may raise instead, before the truncation or after it (`WriteFails`), and then
the turn has no agent (`CreateFails`) or no archive (`LogFails`), and the tool
(`ToolFails`) or the heartbeat (`SaveFails`) swallows the error. A turn is `InitUser`,
`CreateBegins`, `CreateEnds`, `Run`, `Yield`, `AfterAgent`, `Archive` and, on the loop,
`GiveUp`: it waits 30 seconds for a coroutine that needs the loop it holds, and
`RunArchive` comes later. A cron job's turn runs in a thread and needs no loop.
`ToolBegins` and `ToolEnds` are `memory_manage`; the heartbeat is `Wake`, `Scan`,
`SaveBegins`, `SaveEnds`, `SaveRows` and `BeatEnds`; `Start`, `Disconnect` and `Die` are
the gateway's. The managers of cron jobs are never connected to PostgreSQL. Short-term
memory is left out, because nothing writes it. What was completely written, meant to be
replaced, or damaged is kept in history variables (`written`, `replaced`, `damaged`).

**Experts** models the agents an administrator manages: the registry, the JSON file and
the SOUL.md of each, the deployed profile.yaml files. The endpoints do not suspend, so
one holds the loop (`op`) from its first action to its last; they are split where a file
is opened, and truncated, or written, because a write may fail there (`Fails`) and the
process may stop (`Restart`). Refused creations and deletions change nothing and are left
out; `UpdateRefused` changes the live profile although it raises. The permissions of a
role are fixed. The history variables `stale`, `cut` and `unchecked` name what the
properties exempt. An update gives an external agent any role string: no property
speaks of one outside `UserRole`, for which `list_experts` (`gateway/server.py:668`)
raises.

`MC*` modules fix small instances: sets of model values, key functions, symmetry.

## 3. The runs

| Run | Instance | Shows |
|---|---|---|
| `LaneQueue` | 4 requests (3 of one session), 2 keys, `QuietStale` | mutual exclusion, first come first served (refinement of `FifoLanes`), no lost wake-up, a session in use keeps its lock, everybody is served |
| `LaneQueueCleanup` (violation) | as above, `QuietStale = FALSE` | `cleanup_stale` in the hand-over window gives one session two locks |
| `McpClient` | 3 tool calls, connect, disconnect | any connection may break: one owner per connection, which opens and closes it itself, until a disconnect has forgotten an owner (`ForgotOwner`); while none breaks every caller returns (`CallersReturn`) but in the situations that `ReturnsUnlessStranded` names (597,643 states) |
| `McpClientDisconnect` (violation) | as above | a disconnect may wait for the owner of a later connection |
| `McpManager` | 3 requests, 2 servers, 3 tools | connections break and are reopened: the tables of clients and of tools are exact, a deleted server is gone, with and without the one-at-a-time discipline, but for the tools of a disconnect that was cut short (1.8 million states) |
| `McpManagerShutdown` (violation) | as above | two concurrent connects of one server leave a connection that shutdown does not close |
| `TaskBoard` | 3 tasks, 2 members | exact blocking, claims, one task per member, dependencies first for those who go through the pool |
| `Jobs` | 2 tasks from the API, 2 from the tool, a valid and a refused cron task | no accepted task is lost or run twice and each ends, except that one put by the tool may be overslept until the next; the cron tables agree with jobs and runs |
| `Rbac` | 2 roles, 2 skills, 2 servers with a tool each, 1 reader, 1 save | an update gives exactly what was asked, whatever the file says; the cache is stale only after an overtaken look-up |
| `AgentTurn` | 1 connection of 2 turns, 1 HTTP request, 2 calls, 4 sandbox configurations, 1 decision, 1 crash | no call runs unreviewed or outside its sandbox; a call is in the file before it runs; the final line is what the client saw; the lines of a turn are bracketed (1.4 million states) |
| `Memory` | 2 chats, 1 cron job, 1 tool call, 1 heartbeat, 2 starts | an entry is lost only by overlapping writes or by a crash or an error in one; rows follow files, once; the loop is given back (1.2 million states) |
| `Experts` | 1 name, 2 roles, 1 skill, 1 tool | the registry is what a restart reads, a deleted agent leaves nothing, an agent is saved within its role (42,512 states) |

Bounds. Three requests of one session are the fewest that have a holder, a woken
waiter and a newcomer; the fourth is another session's. Three tool calls are one
that is queued when the disconnect comes and two that reconnect against each
other. Three manager requests are a connection, an operation on it and a second
operation that meets the first one suspended; the third tool belongs to the
other server. Three tasks are a task, its dependency and a second dependency that
completes at another time. Two tasks of the tool are one that may be overslept
and one that wakes the worker. In `Rbac` one role starts with any combination of
skill lists, or any combination of MCP entries and denials, and the other with
the administrator's data; an update treats each role by itself, so one save over
every such file says what any number of saves would, and it is enough for a
look-up to be overtaken at each of its statements.

In `AgentTurn` the first turn of the connection shows that a turn leaves nothing behind
for the second, two calls of one message race for one container, and the request may
name the connection's session or its own; the four configurations are a healthy
sandbox, one that is down and fails open, the disabled backend and no sandbox. `MaxChunks`,
`MaxDecided` and `MaxCrashes` are 1, which is a piece of text, a decision and a crash at
every point. In `Memory` two chats are what may meet on the loop, and the cron job, the
tool and the heartbeat are one of each kind of thread; two starts are a restart. One
name is enough in `Experts` because each endpoint touches one name only; nothing is
counted, so the run covers every sequence of endpoints, failures and restarts.

A task that is created with an assignee (`harness/team/task_board.py:38`) is claimed
although its dependencies are open, which the tool's text ("must complete first",
`runtime/tools.py:360`) does not say; `PoolDependenciesFirst` is therefore stated for the
callers of the pool, which never creates one.

`CHECK_DEADLOCK` is off where requests, calls and tasks happen once, a closed connection
stays closed or a gateway stays down: the run ends when all are done. `Experts` goes on
for ever and is checked for deadlock.

Symmetry is used only in runs without liveness properties.

## 4. Fairness

`LaneQueue`: weak fairness of `Resume`, `ResumeCancelled` and `Release`: the event
loop runs every ready task, and a handler's `finally` runs because its work ends.
Nothing makes requests arrive or be cancelled.

`McpClient`: weak fairness of "some task goes on" (`CallerStep`, `CloserStep`,
`OwnerStep`): the loop runs what is ready, and the MCP server answers or fails, which the
code leaves to the SDK's timeouts. A caller calls once and no step is taken back, so every
behaviour comes to rest, and that none rests while a task could go on is all that is
assumed; nothing makes calls arrive or connections break.

`Jobs`: weak fairness of the worker's steps (the loop runs what is ready, an agent
run returns or raises) and of the rest of an endpoint that has begun. Nothing makes
tasks arrive, cron tasks fire or their runs end.

`Memory`: weak fairness of what a begun turn does by itself (`Goes`), of its archive
(`RunArchive`) and of a tool (`ToolGoes`): threads and the loop are scheduled, a write ends
if not by an error, an agent's run sends or ends (`Yield`), and the timeout of
`future.result` strikes (`GiveUp`). Nothing makes turns, tools or heartbeats begin.

`TaskBoard`, `McpManager`, `Rbac`, `AgentTurn` and `Experts` state no liveness.

## 5. What is proved

`LaneQueueProofs`, for every finite or infinite set of requests and keys and every
key function:

* `TypeCorrect`: `Spec => []TypeOK`, without any assumption on cleanup.
* Under `QuietStale`: `SerializedHolds`, `InUseStaysRegisteredHolds`,
  `NoLostWakeUpHolds`, `ReleasesOwnLockHolds`.

`Serialized` is not inductive: a request could enter beside a holder if its lock
were not locked or were not the registered one. The invariant `IInv` adds that a
holder's lock is locked and registered, that a lock's deque holds exactly the
requests that are queued on it, once each, that a woken request is the head of its
deque, and that a free lock with waiters has a scheduled task. `cleanup_stale`
preserves it because a stale stamp of a session in use is what `QuietStale`
excludes.

`ImplementsFifoLanesHolds`, also under `QuietStale`: the initial state maps to one of
`FifoLanes` and every step to a step of it or to a stutter. `AcquireNow` and `Resume` are
entries, and nobody is ahead of who enters because a request that finds the lock free
finds no deque, and a woken one is its head; `Release` leaves; a cancellation gives up the
place; creating a lock and cleaning up are stutters.

`McpClientProofs`, for any sets of tool calls, connects and disconnects and any choice of
`lossy`: `TypeCorrect`, `ConnectedIsServedHolds`, `DisconnectWaitsForCloseHolds`, and the
action property `LeavesOwnContextsHolds`; any connection may fail or break. The invariant
(`InvariantHolds`) says that, until a disconnect may have forgotten an owner, at most one
owner task is at work, that the client's attributes are that owner's (its queue, its
session, its future), why an owner that closes does so, and where the one command of the
disconnect is: in the queue, in the owner's hands or answered.

`TaskBoardProofs`, for every number of tasks and every set of members:
`TypeCorrect`, `BlockedIffWaitingHolds`, `PoolDependenciesFirstHolds`,
`OneTaskPerMemberHolds`, `ClaimedOnceHolds`. The invariant adds that tasks are created
in order, that a dependency is older than its task, and, under the pool's
discipline, that who is idle has no claimed task.

`JobsProofs`, for any sets of background and cron tasks: `TypeCorrect`,
`QueueHoldsPendingHolds`, `ListedHasJobHolds`, `StatusTellsRunHolds`. The invariant adds
what table and jobs hold at each point of the endpoints (`AdminInv`). The proof is
split into the worker's part and the cron part, which leave each other's state
alone.

`McpManagerProofs`, for any requests, servers and tools: `TypeCorrect`,
`ClientTableExactHolds`, `NoDanglingToolHolds`, and, when no server's prefix covers a tool
of another (`PrefixesDisjoint`), `ToolTableExactHolds` and `DeletedIsGoneHolds`. The
invariant says what each request at each point holds (`RequestInv`), whom it waits for
(`WaitInv`), that the shutdown begins when no request is under way (`ShutdownInv`), and
that under the discipline nobody else works on its server (`Alone`). `Outcome` sums up
what an operation does from one suspension to the next: wait for a client, open one or
end; one lemma shows that each of the three keeps the invariant. Connections break and are
reopened between any two steps; the proofs rest on who asked a client to close and on who
waits for it, never on a connection staying open.

The part of `AgentProofs` about permissions, for any roles, skills, servers, tools and
initial files: `RbacTypeCorrect`, `StaleOnlyIfOverlappedHolds`, `UpdatesExactHolds`. The
last follows from `SkillUpdateExactHolds` and `ServerUpdateExactHolds`, which rest on a
lemma about one role's data each (`SkillSetExact`, `ServerSetExact`). For the cache, the
invariant adds what each look-up has in its hands: a map that is what the file says,
unless a save overtook it (`ReaderInv`).

The part of `AgentProofs` about tool calls, for any tasks, calls, sessions and
configurations, over the whole next-state relation of `AgentTurn`: `GateTypeCorrect`,
`ReviewedCorrect`, `SandboxCorrect`, `BatchesDisjoint`. The invariant has a part about
each call (what it passed on its way to where it is), a part about the two tables
(`CallInv`, `TablesInv`), and one that ties the calls to the messages they came with
(`BatchInv`). The actions of the turns touch the gate in a few ways only, each of which is
shown once to keep it.

The part of `AgentProofs` about the session file, for any connections, requests, turns,
calls and bounds: `TurnTypeCorrect`, `CallLoggedBeforeRunHolds`, `FinalTellsWhatWasShownHolds`,
`TurnsAreBracketedHolds`. None of the three is inductive, because a line says what it says
by what its handler knew when it wrote it. `LogInv` adds what a handler knows at each
point of its turn (`HandlerInv`): an open turn has its human line in the file and no
end (`IsOpen`); that every call that has a thread has an owner with a turn under way (`OwnedInv`),
that the calls of the message at hand are in the file, and shown or about to be
(`MessageInv`), what the final line tells (`FinalInv`), and that the file of an open
connection has no torn line (`FileInv`), since only a crash tears one and a crash closes
every connection. The proof
separates who writes: a handler's own steps append whole lines of its current turn; what
the others append is of no turn of this connection and changes nothing the invariant says
of it (`OthersKeepConn`); the calls' steps write nothing (`CallMoves`).

`MemoryProofs`, for any turns, tools, heartbeats and number of starts: `TypeCorrect`,
`LostOnlyByDamageHolds`, `RowsFollowFilesHolds`. The invariant says that a file which nobody
damaged holds what was written and not replaced, also through the read of the one who
is writing it (`FileInv`), that turns of chats write only while they hold the loop
(`LoopInv`), and counts summaries and facts by how far the turn or heartbeat is
(`ArchiveInv`, `BeatInv`).

`ExpertsProofs`, for any names, roles, skills, tools and permissions: `TypeCorrect`,
`RegistryFollowsFilesHolds`, `NothingLeftBehindHolds`, `SavedWithinRoleHolds`. The invariant adds,
per name, that the file goes before the registry and the SOUL.md (`FileGoesFirst`), what
is on disk for a name nobody was cut short on (`Settled`), and that the profile in every
place, also in the hands of the endpoint, is within its role (`Checked`). A lemma frames the
names an endpoint does not touch (`OneName`).

The assumptions are those named in the modules: keys of requests are keys; `NoLock`,
`Nobody`, `None`, `Default`, `Deployed`, `Torn` and `Keep` are none of the values they stand
beside; `MaxTasks`, `MaxSaves` and the bounds of `AgentTurn` and `Memory` are natural numbers;
tasks of the API are not tasks of the tool, connections are not requests, turns are
not tools; `"*"` is not the name of a skill, server or tool, and a tool belongs to one
server.

## 6. Only model-checked

The liveness properties `EveryRequestServed`, `CallersReturn`, `DisconnectEnds`, `AcceptedEnds`
and `ArchiveSettles`: fairness and ENABLED are outside the prover's reach here. The
refinement of `FifoLanes` is of its safety part, which is all that module states. The
properties of the violation runs are false, and the counterexamples are TLC's.

## 7. Not modelled, and why

* Context flush and compression: the flush is a flag per middleware object, hence per
  agent, tested before the model call and set after it; its Redis copy is never written.
  The compression is the library's summarization middleware. At its end `flush.py` returns
  an empty `NO_REPLY` message, although its docstring says it returns the model's
  response.
* Sub-agents are built with `AuthInjectionMiddleware` and `SecurityCheckMiddleware` alone
  (`harness/multi_agent/subagent.py:124-127`): without `SandboxMiddleware` their
  `command_exec`, `python_exec` and file tools run on the host, whatever the sandbox
  configuration says, although `README.md:291` and `README.md:858` of the repository say
  that these tools run in the sandbox. `SandboxContains` speaks of the turns of the chats,
  which have that middleware.
* Sub-agents and the evolution loops (`three_agent`, `gepa`, `auto_evolve`): sequential
  loops with a bound on the rounds around model output. (`gepa` scores an evaluation that
  failed 0.0, like one that was answered so.)
* Skills, plugins, images and configuration: file scans. Authentication: a check of keys
  and tokens.
* External agents: what a chat sees of the proxy is in `AgentTurn`; the rest is request
  formatting and HTTP streaming for each protocol.
* Output validation: no agent is built with a `response_format`, so it never runs.
* `close_session` and `cleanup_expired_sessions` of the sandbox manager and the short-term
  memory's writers: nothing calls them.
* The heartbeat's scheduler: one recurring job without a table of its own.
* The frontend: a client of the API. Wording, logging and formatting everywhere.

## 8. What is left

* An abstract specification of the background tasks (accepted tasks start in their order,
  one at a time, and end once), and the proof that `Jobs` implements it, in place of the
  invariant about its queue.
* `McpClient`: a later connect should wait for an owner that a disconnect has forgotten;
  with such a change `ForgotOwner` could go from the properties. The same holds of
  `CutShort` in `McpManager` and a `disconnect` that absorbs `CancelledError`.
* `McpManager`: what the clients' statuses abstract is not yet shown to be implemented by
  `McpClient`; a refinement would tie the two modules.
* Action properties of the session file and of the task board (a line never changes, a
  finished task stays finished) are consequences of the proofs but not stated.
* A module for the evolution loops' bounds and for the flush flag.
