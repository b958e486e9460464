# QuBot: TLA+ models, model checking and proofs

QuBot runs AI agents on tasks: an API creates and assigns tasks, a Redis stream
queues them, worker processes execute them with an LLM loop, and a websocket hub
tells dashboards what happened. This directory holds TLA+ models of the parts
where several processes meet, TLC runs that check small instances of them, and
TLAPS proofs of what holds for every instance. Source paths are relative to
the repository.

## Inventory

| Component | Source | State | Operations | Talks to |
|---|---|---|---|---|
| Task queue and worker | `backend/app/worker.py` | Redis stream `qubot:tasks:stream`, consumer group with its pending list, retry hash, dead-letter stream, heartbeat hash; per process: two loops | submit, start, stop, read, claim, execute, ack, retry, dead-letter | called by the API through `submit_task_to_queue`; calls `ExecutionService` |
| Task and agent lifecycle | `services/task_service.py`, `execution_service.py`, `agent_service.py`, `api/endpoints/{tasks,execution,agents}.py` under `backend/app` | rows of `task`, `agent`, `task_memory`; sessions that keep what they read | create, assign, move, run, submit, cancel, execute; agent status and delete | enqueues into the queue, broadcasts to the hub |
| Realtime hub | `core/realtime.py`, `api/endpoints/websocket.py` | per process a set of connections and of listeners, a Redis subscription | connect, disconnect, broadcast, publish, relay, listen | lifecycle and channels call it; websocket clients |
| Agent loop and loop detection | `services/execution_service.py`, `tool_execution_service.py`, `loop_detection_service.py`, `core/context_compactor.py` | per agent the last 30 tool calls; per execution the conversation, its summary, the iteration | ask, call tools, check, record, compact, end | the execution of the lifecycle; LLM providers, tools, MCP servers |
| Agent memory | `services/memory_service.py`, `memory_consolidator.py` | rows of `agent_memory` | write by key, recall, chunk, deduplicate, prune | the execution recalls before and consolidates after |
| Intake: chat and channels | `api/endpoints/chat.py`, `telegram.py`, `channels/*.py`, `services/orchestrator_service.py` | the request; the platform's idea of the message | take, analyse, find or make an agent, assign, execute, answer | the lifecycle, the hub, the platforms |
| Assignment | `services/assignment_service.py` | none of its own | score, rebalance | the lifecycle |
| LLM failover | `core/providers/failover.py`, `services/llm_service.py` | active provider | complete, complete_stream | nothing: no caller |
| Conversation memory | `core/conversation_manager.py` | messages and summary per session in Redis | load, append, save | chat; `append_messages` has no caller |
| Cache | `core/cache.py` | Redis keys and a local dictionary | get, set, delete | nothing: no caller |
| Websocket client | `frontend/hooks/useWebSocket.ts` | socket, reconnect timer | connect, reconnect, dispatch | the hub |

What is hard about them is listed line by line under `hazards` in PROJECT.json.
In short: every write to Redis and to the database is an await at which other
loops, other processes and crashes come in; nothing is locked and no row has a
version; the queue delivers a message again after a minute even when it is
being executed; errors are often logged and swallowed half-way through a
sequence of calls; and an execution enqueues the task it executes.

What would make each component correct:

* queue: at-least-once; nothing is dead-lettered before its retries are used
  up; every message is closed in the end;
* lifecycle: a task in progress is always somewhere, an agent is WORKING only
  while something works on it, verdicts and cancels are not overwritten, and a
  task gets out of IN_PROGRESS;
* hub: every connected client gets every event that is for it, no more often
  than its sets explain, one client's failure does not touch the others, and
  clients of different processes agree on the last event;
* agent loop: a stuck agent is stopped after a known number of calls, an
  execution ends whatever model and tools answer, and compaction loses nothing
  that was said when the model summarizes, and never the task;
* agent memory: a key has one row, and what was last written stays unless
  something explains its loss;
* intake: who writes hears back, is told the truth about the task, and gets one
  task for one message.

Each of these holds only up to exceptions that the code makes. The properties name
the exceptions, so that a run shows they are the only ones.

## Modules

| Module | Models | Kind |
|---|---|---|
| `AtLeastOnce` | what the queue promises to a caller of `submit_task` | abstract specification |
| `WorkerQueue` | `backend/app/worker.py`, one action per Redis call | detailed specification |
| `TaskLifecycle` | rows of tasks and agents, API handlers, executions | detailed specification |
| `OrderedRelay` | what the relay through Redis promises to the clients of all processes | abstract specification |
| `RealtimeHub` | connections, broadcasts and the relay of several processes | detailed specification |
| `AgentLoop` | an execution between model and tools, and the guard against loops | detailed specification |
| `AgentMemory` | writes, recalls and consolidations of one agent's memories | detailed specification |
| `Intake` | chat, channels and the orchestrator behind them | detailed specification |
| `WorkerQueueProofs`, `TaskLifecycleProofs`, `RealtimeHubProofs`, `AgentLoopProofs`, `AgentMemoryProofs`, `IntakeProofs` | theorems on the module of that name | proofs |
| `RealtimeHubOrderProofs` | theorems on `RealtimeHub` about the order of events, and that it implements `OrderedRelay`; extends `RealtimeHubProofs` | proofs |
| `AgentMemoryContentProofs` | theorems on `AgentMemory` about what the table holds; extends `AgentMemoryProofs` | proofs |
| `MCWorkerQueue`, `MCTaskLifecycle`, `MCRealtimeHub`, `MCAgentLoop`, `MCAgentMemory`, `MCIntake` | definitions the `.cfg` files need | instances for TLC |

The modules meet in the calls between the components. The queue promises
`AtLeastOnce`, and `TaskLifecycle` has queue entries with that interface.
`AgentLoop` is what happens inside the choice between `Succeed` and `Fail` of
`TaskLifecycle`; `Intake` creates, assigns and executes a task in one request
and stops where `TaskLifecycle` takes over its queue entry; `RealtimeHub` is
told of events and never answers, except that a broadcast may raise, which is
`AnnounceFails` in `Intake`; `AgentMemory` is read before an execution and
consolidated after it. Each module is therefore checked with the others as its
environment: whatever they may answer, in any order.

### WorkerQueue

A message is its position in the stream, because entries are never deleted; so
the stream is a length (`added`) and the group's `cursor`. `pending`, `owner`
and `idle` are the pending entries list: which messages are delivered and not
acknowledged, for which running consumer, and which were delivered more than a
minute ago. `retries` and `dead` are the retry hash and the dead-letter stream.
Each worker has two loops (`main`, `claim`); `pc` is the Redis call a loop makes
next, `msg` the message it handles and `batch` what XAUTOCLAIM returned and the
claim loop has not handled yet. `done` and `failures` record what attempts came
to: they are history, no action reads them but `Raise`, whose bound they are.

`Read`, `Claim` and `NextClaimed` are the two loops; `Result` and `Raise` end an
execution; `Ack`, `CountRetry`, `DeadLetter`, `AckDead` and `ForgetRetries` are
the calls of `_process_message` and `_handle_retry` in their order. A call to
Redis may also raise: without effect (`Refused`), or after it took effect
(`ReplyLost`, `DeliveryLost`); `_ack_message` swallows the error and the others
leave the handler. A lost reply to XACK or HDEL is the effect followed by the
same program step, which `Ack`, `AckDead` and `ForgetRetries` already are.
`Stop` is a crash and a shutdown alike: asyncio cancels the loops at an await
and the process leaves what it held in the pending list. Since a consumer is
named after its start time, no later process owns those messages.

Abstractions: XPENDING before XAUTOCLAIM reads only whether the list is empty,
and XAUTOCLAIM then finds the idle entries itself, so both are `Claim`; the
heartbeat hash and the waiting times are left out; XAUTOCLAIM always scans from
the start, as in the code, which passes no start id.

### TaskLifecycle

A step is one commit, one refresh or one XADD. `status`, `assignee`, `memory`
and `agentStatus` are columns and rows; `entry` the open queue entries, with
the interface of `AtLeastOnce`: open until acknowledged, delivered at least
once, possibly again while it is held (`Deliver`); `run` the executions in
flight with the program counter of `execute_task`; `api` the requests that have
read or committed something and still have something to do. `Assign` and
`Cancel` read the task, `Give` and `FailCancelled` commit on what was read, and
the further steps follow. A status or agent endpoint that reads a row and
commits it at once (`SetStatus`, `SetAgentStatus`, `Free`) is a single step: it
writes nothing when it saw the new value, which is the step at its SELECT, and
overwrites whatever is there otherwise, which is the step at its UPDATE.

The sessions are `expire_on_commit=False` (`database.py:28-33`): an object keeps
what was last loaded into it, and an UPDATE is only sent for a column whose new
value differs from it. `SetTask` and `SetAgent` have the value seen as their
parameter for that reason: an execution that last saw its agent WORKING and sets
it WORKING writes nothing, whatever the row has become. A plain SELECT of an
object the session already holds does not refresh it either; the explicit
`session.refresh` calls do (`Requeue` and `Observe`).

`Requeue` is `update_task_status` enqueueing the task that is executed; `Poison`
is the second INSERT into `task_memory`, whose `task_id` is unique; after it the
session refuses every call, so the execution goes straight to the
acknowledgement. `Interrupt` is the cancellation at a shutdown, which runs the
finally block; `Crash` runs nothing; `Raise` and `Abort` are database calls that
raise inside and outside of the try block. `orphaned`, `stranded` and `poisoned`
are history: they name the tasks and agents that a fault, a crash, a manual
change or a dead session explains.

Abstractions: `completed_at`, `current_task_id` and event rows are written and
never read by this control, so they are left out; the commits of events between
two modelled commits are part of the step before them; an agent always exists
(rows of agents are never deleted, DELETE makes one OFFLINE); the agent loop is
the choice between `Succeed` and `Fail`, reaching its iteration limit being a
success in the code (`execution_service.py:433-440`). `rebalance_workload` and
the orchestrator reach these rows through `assign_task` and `execute_task` and
are covered by `Assign` and `Execute`.

### RealtimeHub

One action per stretch of code between two awaits. A connection `c` is one life of
a socket: `ep` is where its endpoint is, `link` whether the socket still works.
`active` and `listeners` are the two sets of a process. Three kinds of process
step through them: a call of `publish_event` (`Publish`, `Send`, `ToRedis`,
`Notify`, `NotifyNext`), and the Redis listener of every instance (`Relay`,
`Send`, `RelayEnds`). `channel` is what Redis has for a listener.

`broadcast` iterates over the set itself. What Python then does is what the
module is about: the set iterator compares the current size with the size it
started with and raises `RuntimeError` if they differ, so `size` is part of the
state; if a join and a leave cancel out, the iterator goes on over a table that
may have been rebuilt, and `moved` records that it may then skip or repeat
elements (`Ahead`). A `RuntimeError` in `publish_event` reaches the caller
(`Tear`); in the Redis listener it ends the listener for good. `failed` is the
list of the connections a broadcast drops when it is over.

An instance without Redis is one whose `setup_redis` failed or was never called
(`Alone`). `inbox`, `log`, `heardBy` and `disturbed` are history: what a client
got, what went through Redis, who was connected at the publication, and which
broadcasts had a set change under them.

The subscription filter that the endpoints keep (`subscribed_events`, websocket.py:57)
has no effect on `broadcast`, and neither has the scope of the agent and task endpoints:
the clients of these get every event, and those about their agent or task once more
through their listener, which `Copies` counts. `For(e)` are those an event is meant for:
the clients of the general endpoint, and of the agent and task endpoint those whose
agent or task the event names. `Heard` promises an event to these only. That the others
get it too is no requirement: `OnlyRelated` says that they do not, as the endpoints'
comments do, and is violated (`realtime_scope`).

A client gets an event from the call that publishes it and from the listener of
its process, in whatever order the two come to it, and its own process hears its
own messages back. What it can rely on all the same is stated of a *faithful*
client: not of a scoped endpoint, up, its listener at work, connected before any
event that went through Redis was published, its set unchanged under their
broadcasts. `Reached` is how far the listener has come with it. `InOrder` says
that what has come to it from Redis is in its inbox in the order of `log`, other
copies in between; `LastWord` that no other copy of these events comes after the last
of them, so that faithful clients that have caught up agree on the latest event.
A late copy would undo that: a `publish_event` that sent locally after Redis has
relayed the event, or a listener that skipped its own messages. Scoped clients are
left out: `_notify_listeners` comes after `redis.publish`, so `LastWord` does not hold
of them.

`OneOrder` puts this the other way round. `OrderedRelay` is one log with a place per
process in it (`place`) and a count per client (`reached`); it hands an event to each of
its clients before it turns to the next, and may cease to serve a client or a process
but never skips and never repeats. The mapping is `DoneBy`, for the instances whose
listener runs, and `GotBy`, for the faithful clients. Connections, greetings, local
broadcasts, iterators, cut links and clean-ups all are steps in which the relay rests or
releases a client.

### AgentLoop

`history` is the guard's list of calls of one agent in one process, shared by all its
executions and never emptied. A built-in tool call is `Run` (the check), then `Ran` (the
record) with an await between, in which other executions come, or `Refuse`. The three
detectors are `GenericRepeat`, `PollNoProgress` and `PingPong` as in the code; what they
return is abstracted to whether the call is refused. MCP tools (`CallMcp`) go past the
guard. `fit_conversation_history` drops messages from what is sent only, so it is no
action. Worker processes never set the loop service (`Guarded = FALSE`); the run is
about the API process, which does. The endpoints of `api/endpoints/tool_execution.py`
record into the same history; they are neither among `Execs` nor counted by `RunBound`,
which is about executions.

An iteration of `execute_task` calls `run_with_tools` with `max_iterations=1`: one
answer with tools, its tools, and then a call of the model without tools (`AfterCalls`).
Only an answer that was cut short brings another iteration, and with it another round of
tools. The documentation describes something else, a loop that gives the model its tools
again after each round (docs/agent-orchestration.md:42-44 and 470-507), up to 20 times;
the worker passes 10 (worker.py:275). The model follows the code, and no property asks
for a single round. The documentation also says that a run which uses up its iterations
fails (docs/agent-orchestration.md:540-541); the code takes it for a success
(execution_service.py:433-440), which is `Succeed` in the last iteration.

`messages`, `summary` and `said` are the conversation, what the summary of earlier
compactions stands for, and all that was ever said. `Compacted` has both branches of
`_summarize`. The model's summary is made from the messages to drop and the summary
before, and is taken to cover them. The fallback `_heuristic_summary` adds to the
summary before the first user message, which is the task, and the last assistant
message, and gives of the others their number only. `fellback` records that it was used.
How long an excerpt of a message either of them takes (500 characters for the model, 300
and 400 in the fallback) is left out: a message that is excerpted counts as covered.

What the model shows about the thresholds: six calls of one tool in a row are a
"ping-pong" in the code, so a single execution is refused before the warning
threshold 8 or the critical threshold 12 can be reached. A refused call is not
recorded, so the history that caused a refusal stays, and the agent is refused
every built-in tool for the life of the process (`LockedForGood`). A refused
execution, and one that used up its iterations, is a success.

### AgentMemory

`rows` is the table; it has no unique constraint on agent and key. A write is
`Lookup`, the await of the embedding, then `Insert`, `Update` or, when the row is
gone, `UpdateFails`. `basis` is the row as it was read: SQLAlchemy only sends the
columns that differ from it. A consolidation makes three steps, each a read, a
decision (`plan`) and a commit; `behind` is history and records that the table
changed between the two. A recall is `Recall` and the commit of its access
times, `Touch`, which fails as a whole if one of the rows was deleted. `Age`
lets 90 days pass. The rows of a recall are not limited: `get_memories` asks for
fifty.

A row has its `emb` beside its `text`: the text whose embedding is stored, or
`NoEmbedding`. An embedding may fail to be made (`Embeddings`) at every write, and an
update sends it only where it differs (`Sent`). `Near` are the pairs of texts whose
embeddings are close, `Overlap` those whose words overlap, both given by the instance.
`Alike` is `_similarity`: it compares the stored embeddings if both rows have one and
the words of the contents otherwise. A chunked row keeps the embedding of the whole
memory and the rows of the other chunks have none, so a row may be deleted for what it
no longer says, and rows that say nearly the same may both stay. `Normalised` and
`CopyStays` are therefore about `Alike`, the comparison the code makes, and promise
nothing about contents. The instance has the case: the first chunk is compared by the
embedding of the whole, which is near to a text that the chunk is not near to, and may
be deleted for it.

### Intake

A call is one HTTP request that delivers a message: `Deliver`, `DeliverTwin` (a mention
reaches a Slack bot both as `message` and as `app_mention`), or `AskAgain`. Between
`Begin` and `Reply` it follows `process_task`: `Create`, `Analyze`, then `Find`,
`Assign` and `Execute` for a simple task, `Find` and `Hire` if no agent is found, or
`Decompose`. `Announce` is the broadcast that follows, `Raise`, `AnnounceFails`,
`ReplyFails`, `TypingFails` and `Crash` are what may go wrong, with the handler of each
channel deciding what the platform and the sender are told. `inbox` is the platform's
side: `due` means it will deliver again. No handler looks at the identity of an update
or a message, so nothing tells a repeated delivery from a new message.

Which agents and classes there are is the doing of others (administrators, other
requests), so `Find` may come upon an agent, a class, or neither.

Three things in the code decide much of what happens here. `create_task` has no
parameter `input_data`, so the first subtask of every decomposed task raises
`TypeError` (orchestrator_service.py:251); the parent stays in BACKLOG and
the code behind that line is not reached. `chat.py:285` calls
`broadcast_metrics()` without its argument, so every turn of the chat ends with
an error after its task was executed, and the session's history, saved behind
that line, never is. And `_find_or_create_agent` makes its agent with
`gender="neutral"` (orchestrator_service.py:510), which neither `GenderEnum`
(models/enums.py:22-27) nor the type of the column (alembic 001:264-265) has, so
`create_agent` always raises: `Hire` ends the request with "sorry" and its task in
BACKLOG, and a domain without an agent never gets one. All three are modelled as they
are.

## Runs

| Run | Instance | Shows |
|---|---|---|
| `worker_queue_safety` | 2 workers, 2 messages (one without a task), 2 retries, 3 raised attempts, 1 stop, 1 failing call | `NoTaskLost`, `DeadLettersPaid`, the inductive invariant `IInv`, `Refinement` |
| `worker_queue_live` | 1 worker, 2 messages, 2 raised attempts, 2 stops, 1 failing call | `Delivery` |
| `lifecycle_safety` | 1 task, 1 agent, 2 executions, 1 handler, 2 requests, 3 entries, 1 redelivery, 1 fault | `NoSilentOrphan`, `WorkingExplained`, `StaysDue`, `DoneIsDue`, the inductive invariant `IInv` |
| `lifecycle_live` | 2 tasks on 1 agent, 1 execution at a time, 2 requests, 4 entries, 1 crash | `Settles` |
| `rerun_done`, `cancel_overwritten`, `agent_not_released`, `realtime_scope` | smallest instance each | that a sentence of the repository does not hold (below) |
| `realtime_hub` | 2 instances, one possibly without Redis, 3 connections (an early and a late one of the agent or task endpoint at `a`, a client of `b`), 2 events, 1 lost connection, 1 failing Redis call | `Heard`, `Copies`, `Members`, `InOrder`, `LastWord`, `OneOrder` |
| `agent_loop` | 2 executions of 3 iterations, a poll-like tool and another, up to 2 calls per answer, the last message kept by a compaction; thresholds 5, 3, 4 and history 6 for 8, 4, 6 and 30 | `RunBound`, `Remembered`, `LockedForGood`, `Dwindles` |
| `agent_memory` | 2 writers, 2 consolidations, 2 keys, one long text with two chunks, a text near to the whole and to one of them, embeddings that may fail, 4 rows | `OneRow`, `Kept`, `KeptWhole`, `Normalised`, `CopyStays` |
| `intake` | a message from anywhere and one of WhatsApp, 3 requests, 1 extra (failure, late answer or repeated delivery), any answer to the search for an agent and a class | `Honest`, `NoSilentDrop`, `NotRepeated`, `Answered` |

Every bound is a guard of an action and a constant: `MaxMsgs`, `FailBound`,
`CrashBound`, `OutageBound`; `CallBound`, `ReclaimBound`, `CrashBound`,
`FaultBound`; `CutBound`; `MaxRows`, `AgeBound`; `ExtraBound`. They are enough
for the interesting cases to meet: in `worker_queue_safety` four loops compete
for two messages, so a message may be executed by two loops while a third buries
it, and three raised attempts at a limit of two reach a second dead letter after
a lost count. In `lifecycle_safety` two executions of one task and a request
interleave at every commit; with two executions on one agent every order of the
writes WORKING and IDLE occurs. Entries are reused once acknowledged and no
longer held, so the self-feeding queue goes on for ever in a finite instance.
`Entry` bounds the entries open at once; in the liveness run there are at least
as many as requests, crashes and executions can open, so the bound never blocks
an enqueue.

In `realtime_hub` a join and a leave can cancel out under the broadcast of one process
while the other relays, and both events cross in Redis; that takes three connections and
two events. The client of `b` is the one faithful client of the instance; that clients
of different processes agree is what the theorems add. In `agent_loop` the thresholds
keep their order and the history is longer than the window of every detector, so all
three detectors refuse and the history overflows; two executions reach the scaled
warning threshold together, for which the code's thresholds need three. Three iterations
allow two compactions of one conversation, each by the model or by the fallback, so that
the second has a summary of the first to go on from; more of them, and calls with
different results, are left to the theorems. `agent_memory` has the fewest rows in which
a chunked memory is deduplicated against a memory of another key while the first is
written again. In `intake` three requests allow a message to be delivered twice beside
another; with four requests and two extras the state space is too large for a regular
run.

CHECK_DEADLOCK is FALSE because a system whose bounded requests are served may
stop. Symmetry is used over values that no constant and no property tells apart,
and in no run with a liveness property.

### Fairness

`WorkerQueue`: weak fairness of a worker's start (docker-compose.yml:108,
`restart: unless-stopped`), of its two polling loops, of every step on a message
it holds (an execution has at most `max_iterations` rounds, worker.py:275), and
of time (`Age`). Not of `Submit`, `Stop`, `Raise` alone or `Outage`.
`TaskLifecycle`: weak fairness of a request that has begun and of an execution
in flight, and strong fairness, per task, of taking an entry of it: the stream
is read in order, so no entry is passed over for ever, while the slots that
could take it are again and again busy with others.
`Intake`: weak fairness of a handler's next step, for asyncio goes on with what
can go on and a handler waits for nothing but the database, the model and the
platform, which answer or raise in the end; and of the redelivery of a message
the platform thinks is due. Not of new messages, failures, late answers or crashes.
`RealtimeHub`, `AgentLoop` and `AgentMemory` have no fairness: their properties
are about safety, and `Dwindles` bounds an execution's steps without it.

### Findings

* `rerun_done`: DONE is left only by hand (docs/agent-orchestration.md:688-697):
  every execution enqueues its task again, so a finished task goes back to
  IN_PROGRESS and is executed again, without end. `DoneIsDue` says the same as
  an invariant: what was done and remembered is due again, in every later state.
* `cancel_overwritten`: a cancelled task is FAILED (api/endpoints/tasks.py:157):
  the execution in flight writes DONE over it.
* `agent_not_released`: a finished run sets its agent IDLE
  (docs/architecture.md:231-232): the second successful execution of a task
  dies on the unique task memory and leaves its agent WORKING.
* `realtime_scope`: the agent and the task endpoint are said to receive only what is
  related to them (websocket.py:146 and 191, docs/architecture.md:326): `connect` puts
  their clients into the one set that every broadcast goes to.

`NoSilentOrphan`, `WorkingExplained` and `Settles` hold all the same; they say
what remains true, and `agent_not_released` shows that the exception `poisoned` in
`WorkingExplained` is a real one.

Four more places where a text of the repository and its code part are modelled as the
code has them and have no run of their own: the claim loop, which is to claim "from
other workers" (worker.py:170), claims messages of its own worker as well (`Claim`); the
loop of tool calls has one round (`AfterCalls`); duplicates are found by embeddings that
need not be those of the contents (`Alike`); no agent is ever created for a domain
(`Hire`).

Other surprises of the code are the exceptions without which a property would not hold:
`disturbed` in `Heard` and `Copies`, the second copy in `Copies`, `fellback` in
`Remembered`, `overlapped`, `crossed` and `merged` in the properties of `AgentMemory`,
`late` and `twice` in `NotRepeated`. `LockedForGood` is one as a whole: it says what the
code does, and an operator of the guard should know it.

## Proofs

`WorkerQueueProofs` proves, for every finite set of workers and every value of
the bounds (`QueueAssumption`: bounds are naturals, `MaxRetries` and
`ClaimCount` at least 1):

* `TypeCorrect`, `InvariantHolds`: `Spec => []TypeOK` and `Spec => []IInv`;
* `NothingLost`, `BurialsJustified`: the two safety properties;
* `Implements`: `Spec => Refinement`, every step of the queue is a step of
  `AtLeastOnce` or leaves its variables alone.

`NoTaskLost` is not inductive: that an acknowledgement is justified depends on
what the loop did before, which `LoopJustified` states for each `pc`.
`DeadLettersPaid` is harder. Several loops may count failures of one message and
each may then bury it; replies may be lost and the count dropped in between. The
two invariants that carry it are about what loops are about to do:
`RetriesCounted` (raised attempts counted in the hash and attempts about to be
counted are different ones) and `BurialsPaid` (a written or imminent dead letter
has used up `MaxRetries` of the raised attempts, and each further one one more).
`IInv` is their conjunction with the type invariant; it is an invariant of
`worker_queue_safety` too. The proof has one lemma per invariant part, one step
per action, and facts on how the sets `At(l, m)` of loops change by one element.

`TaskLifecycleProofs` proves, for all sets of tasks, agents, executions,
handlers and entries and all bounds (`LifecycleAssumption`: bounds are naturals,
`None` is no task, agent or entry):

* `TypeCorrect`, `InvariantHolds`: `Spec => []TypeOK` and `Spec => []IInv`;
* `NoSilentOrphanHolds`, `WorkingExplainedHolds`: no task in progress waits for
  nothing, no agent stays WORKING without a recorded reason;
* `StaysDueHolds`: no step takes an assigned task out of the queue for good;
* `DoneIsDueHolds`: a task that was done and remembered is due again for ever.

`NoSilentOrphan` and `WorkingExplained` are not inductive. `NoSilentOrphan` counts any
execution of a task and any entry as a place where the task is; but an execution may be
about to be acknowledged, and its entry with it, or its entry may have been closed
already by a second execution of the same entry. `QueueFed` says what saves the task: an
execution that has enqueued it again, or whose entry is gone, is `Spent`, and a task
with a spent execution or in progress is `Owed` one to come, which is `Promised` by an
entry whose holders have all yet to enqueue, by a request about to enqueue, or by an
execution without an entry about to enqueue. A promise to a task with an agent is never
withdrawn (whoever takes it up enqueues first, or `orphaned` records the loss), and what
makes a task owed also promises it.

`WorkingExplained` fails to be inductive because `Release` writes only when the
execution saw its agent other than IDLE. `AgentWatched` says that some execution
on a WORKING agent did, or has not looked yet; so whenever a write of IDLE is
skipped, another execution is there to do it.

`StaysDue` is the half of `QueueFed`'s induction that is a property of its own:
`HandlerKeeps` and `SlotKeeps` say what a step must not do to a promise. For
`DoneIsDue` two facts are added: an execution past "load" works for a task that
has an agent (`Assigned`, for no request takes a task's agent away, only gives
another: `AgentsStayStep`), and only such an execution, which has enqueued its
task again or found its entry closed by one that had, adds to the memory.

The proof goes in three layers: `Base` (types, `RowsExist`, `EntriesHeld`), then
`QueueFed`, then `AgentWatched`, each with lemmas that say once what a step of a
handler or of an execution has to do and a step per action that shows it does.

`RealtimeHubProofs` proves, for all instances, connections, events and bounds
(`HubAssumption`: finitely many connections, endpoints and listeners where they
can be), in four layers of which each uses those before it:

* `TypeCorrect`: the invariant `IInv`. The type of a step depends on a fact about
  positions: a Redis listener that sends has its message at the head of its
  channel, so `Topic` is defined;
* `MembersHolds`: `MInv`. `Members` is not inductive, since a broadcast that ends
  drops all of `failed`: every connection in it must be cut, and an ended
  endpoint must be cut as well, so neither undoes the other;
* `HeardHolds`: `HInv`. The event of a broadcast that nothing disturbed is owed
  to the connections in `left` only, whether it is for them or not (`Steady`, which
  also says that the size has not changed and the iterator has not moved); what is in a channel is in `log`
  and its publisher is past its own broadcast (`Order`); an ended listener is
  explained (`Blame`); who has heard of an event has been connected (`Known`);
* `CopiesHold`: `CInv`. A client may get an event by the local broadcast, by
  the relay and by its listener. `UsedL`, `UsedR` and `UsedT` say which of these
  ways has been used up; `Owing` bounds the copies by their number. It needs
  that a channel holds an event once (`Distinct`) and that iterators hold only
  connections of their own process (`Placed`).

`RealtimeHubOrderProofs` builds a fifth layer on these, `LInv`: what a running
listener has in its channel is the end of `log` (`Suffix`), and `InOrder` and
`LastWord` themselves.

* `InOrderHolds`, `LastWordHolds`. Every step leaves a faithful client either as it
  was but for an event that has not been through Redis yet (`Ordinary`: the
  local broadcast comes before `redis.publish`, which is `Order`), or gives it exactly the
  next event of the log (`Advances`). The second needs that a faithful client is in the set
  when its listener begins a broadcast and in `left` until it is sent to (`Owed`), which
  rests on `HInv`: its iterator has not moved. `LStep` draws the conclusion once for all
  actions from lemmas on sequences (`FollowsSkip`, `FollowsNext`, `LastOfSkip`,
  `LastOfNext`);
* `Orders`: `Spec => OneOrder`. The same lemmas say which step of `OrderedRelay` the
  action is: a message of the listener to a faithful client is `Serve`, the end of its
  broadcast `Pass` (every faithful client was served), the end of the listener `Lose`,
  `redis.publish` `Publish`, and every other action `Release`.

`AgentLoopProofs` proves all the module's properties for any executions, tools,
results and thresholds (`LoopAssumption`: each threshold at least what its
detector's window means): `TypeCorrect` (with the local facts
that tie the program counter to what is left to do), `RunBoundHolds`,
`LockedForGoodHolds`, `RememberedHolds`, `DwindlesHolds`. `RunBound` rests on
`Slack`: the length of a run of one tool and the calls of that tool under way,
which were checked already, are together below the bound. `Remembered` rests on
`AllMemory`: messages and summary have nothing in common, what is not kept is older
than what is, the task is in one of them, and together they are what was said
unless the fallback was used. `Dwindles` is a ranking
function, proved to decrease by cases over the program counter; with it the end
of an execution follows from the answers of model and tools alone.

`AgentMemoryProofs` proves, for any writers, consolidations, keys, texts and chunkings
(`MemoryAssumption`: chunks are short, a short text is its own only chunk, `Near` and
`Overlap` are reflexive and symmetric, `NoEmbedding` is no text): `TypeCorrect`;
`OneRowHolds`, from `AllSingle`: of a key that was never written by two writers at once
there is at most one row and one write under way, and a writer that has found none
inserts into a table that still has none; `CopyStaysHolds`, from `AllBacked`: each row
that a deduplication is about to delete has a live row that it is not about to delete,
that `StandsFor` it (is `Alike` to it or to a row of the same content) and is of no less
importance, as long as nobody else changed the table.

`AgentMemoryContentProofs` adds what the table holds. All of it rests on lemmas that
say row by row what a step does to the table (`WriteChunksRows`, `DeleteRows`,
`UpdateRows`, `InsertRows`, `AgeRows`) and on `KInv`: what a writer has found is a row of
its key while it is there (`Based`), a planned row keeps key and part (`Named`), a plan
is the table as long as nobody came between (`Current`), and only memories of little
importance are pruned (`Low`).

* `KeptHolds`: for each step that writes or deletes, whether it is one that `Kept`
  excuses (an overlap, a merge, a consolidation met half way) or leaves the first row of
  the key with what was last written. A write in two columns (SQLAlchemy sends only what
  differs from the row as read) is where `OneRow` and `Based` are needed;
* `KeptWholeHolds`: from `AllWhole`. `KeptWhole` is not inductive: the first row might
  say what was last written at some other importance, and a chunk might be about to be
  pruned; so the row is the last written one, whole or cut, and the chunks have an
  importance that is not pruned, or were deleted as duplicates;
* `NormalisedHolds`: from `NInv`. For each program counter of a consolidation that was
  alone, `Sorted` says what it has reached: all long memories are in its plan or gone, then
  what remains beside the plan has no two rows of one content or `Alike`, then what is to prune is planned. No later
  step undoes an earlier one because chunks are short, chunking comes before the removal
  of duplicates, and deletions bring no row.

`IntakeProofs` proves, for any messages, origins and bounds
(`IntakeAssumption`): `TypeCorrect`; `HonestHolds` and `NoSilentDropHolds`, from
`Sound`, which says for each program counter what task, queue and result may be,
so that the answer is fixed by what was done long before it; `NotRepeatedHolds`,
from `Once`: a message that came once and was waited for is delivered again only
when a call for it has ended badly, which stays so (`Firm`).

Model-checked only: the liveness properties `Delivery`, `Settles` and
`Answered`, since fairness and ENABLED are out of the prover's reach. Every safety
property of the passing runs, the action properties and the two refinements are
theorems.

## Not modelled

* Queue: the heartbeat hash and `get_queue_stats`, which no decision of the queue
  depends on.
* Lifecycle: event rows, `completed_at` and `current_task_id`. That its queue
  entries implement `AtLeastOnce` is not stated as a refinement: they are the
  environment's part there, with the steps that the queue is proved to allow.
* Hub: `get_metrics` and its counters (each client would multiply the states);
  liveness of broadcasts, for which three million states are too many; the older
  `app/realtime.py`, which nothing imports.
* Agent loop: permissions per tool profile, the flush of facts before a
  compaction, the text of prompts, the tools themselves.
* Agent memory: ranking, the numbers of embeddings and global memories. The listing endpoint
  passes `get_agent_memories` a parameter it does not have
  (`api/endpoints/memories.py:122`) and always raises, so it is no reader.
* Intake: everything behind the first subtask of a decomposed task
  and behind the making of an agent (unreachable, see above); commands that only read; batches of several WhatsApp
  messages in one request; registration of webhooks; calendar, voice and
  configuration endpoints.
* Failover and cache: nothing in the application calls them, so a model would
  have no environment. Conversation memory: its append has no caller, the chat
  never reaches its save, and the sessions tool asks it for methods it does not
  have (`core/tools/sessions_tool.py:208`), so it is always empty.
* Assignment scores: a pure function of rows that only orders the candidates.
* Websocket client: a reconnect is a new connection in `RealtimeHub`; its timers
  are left out.
* Tools, skills, plugins, sandbox, authentication, rate limit, secrets, the
  frontend and the prompt library: input and output, cryptography, rendering and
  documents. They share no state with the components above.
