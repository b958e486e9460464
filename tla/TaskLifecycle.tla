--------------------------- MODULE TaskLifecycle ---------------------------
(***************************************************************************)
(* The life of tasks and agents: rows of the database that three kinds of  *)
(* process write without locks or version checks.  API handlers            *)
(* (backend/app/api/endpoints/tasks.py, execution.py, agents.py) create,   *)
(* assign, move, cancel and run tasks; executions                          *)
(* (backend/app/services/execution_service.py) run them for the worker or  *)
(* for a request; both go through TaskService and AgentService.            *)
(*                                                                         *)
(* A step is one commit, one refresh or one call to Redis.  A session does *)
(* not expire what it has read (expire_on_commit=False), and it writes a   *)
(* column only when the new value differs from the one it has seen: so an  *)
(* execution keeps the status it last saw of its task and of its agent.    *)
(*                                                                         *)
(* The queue is what AtLeastOnce promises: an entry stays open until it is *)
(* acknowledged and may be delivered again while it is open.               *)
(***************************************************************************)
EXTENDS Naturals, FiniteSets

CONSTANTS Task, Agent,
          Slot,          \* executions that may be in flight at once
          Handler,       \* API requests that may be in flight at once
          Entry,         \* bound: entries of the queue that are open at once
          None,
          CallBound,     \* bound: API requests made
          ReclaimBound,  \* bound: deliveries of an entry that is being executed
          CrashBound,    \* bound: crashes and shutdowns of an execution
          FaultBound     \* bound: database and Redis calls that raise

ASSUME LifecycleAssumption ==
  /\ None \notin Task \cup Agent \cup Entry
  /\ {CallBound, ReclaimBound, CrashBound, FaultBound} \subseteq Nat

VARIABLES status,       \* Task.status ("absent": no such row)
          assignee,     \* Task.assigned_agent_id
          memory,       \* tasks with a TaskMemory row
          agentStatus,  \* Agent.status
          entry,        \* per queue entry, the task it names while it is open
          run,          \* per slot, the execution in flight
          api,          \* per handler, the request between two of its steps
          orphaned,     \* history: tasks whose submission to the queue was lost
          stranded,     \* history: agents set WORKING by hand, a crash or a fault
          poisoned,     \* history: agents whose execution ended with a dead session
          cancelled,    \* history: tasks the last request for which was a cancel
          calls, reclaims, crashes, faults  \* what the bounds count

rows    == <<status, assignee, memory, agentStatus>>
losses  == <<orphaned, stranded, poisoned>>
history == <<orphaned, stranded, poisoned, cancelled>>
counts  == <<calls, reclaims, crashes, faults>>
vars    == <<status, assignee, memory, agentStatus, entry, run, api,
             orphaned, stranded, poisoned, cancelled, calls, reclaims, crashes, faults>>

Statuses      == {"BACKLOG", "IN_PROGRESS", "IN_REVIEW", "DONE", "FAILED"}
AgentStatuses == {"IDLE", "WORKING", "ERROR", "OFFLINE"}

\* What an execution does next.  Before "begin" it has no agent, between
\* "observe" and "release" it has set its agent WORKING and not yet IDLE.
\* Up to "requeue" it has not enqueued its task again.
Early   == {"load", "begin", "requeue"}
Engaged == {"observe", "work", "remember", "raised", "release"}
Steps   == Early \cup {"engage", "ack"} \cup Engaged

Runs == [pc : {"idle"} \cup Steps, task : Task \cup {None},
         agent : Agent \cup {None}, entry : Entry \cup {None},
         seen : Statuses \cup {None}, seenAgent : AgentStatuses \cup {None}]

NoRun == [pc |-> "idle", task |-> None, agent |-> None, entry |-> None,
          seen |-> None, seenAgent |-> None]

Requests == [pc : {"idle", "promote", "assign", "enqueue", "submit", "start", "fail", "free"},
             task : Task \cup {None}, agent : Agent \cup {None},
             seen : Statuses \cup {None}]

NoRequest == [pc |-> "idle", task |-> None, agent |-> None, seen |-> None]

RowsOK == /\ status \in [Task -> Statuses \cup {"absent"}]
          /\ assignee \in [Task -> Agent \cup {None}]
          /\ memory \subseteq Task
          /\ agentStatus \in [Agent -> AgentStatuses]
          /\ entry \in [Entry -> Task \cup {None}]

\* Beyond the types: an idle slot keeps nothing of the execution that ended,
\* and an execution that has begun has an agent.
RunsOK == /\ run \in [Slot -> Runs]
          /\ \A s \in Slot : /\ run[s].pc = "idle" => run[s] = NoRun
                             /\ run[s].pc # "idle" => run[s].task # None
                             /\ run[s].pc \in Steps \ {"load", "ack"} => run[s].agent # None

ApiOK == /\ api \in [Handler -> Requests]
         /\ \A h \in Handler : /\ api[h].pc = "idle" <=> api[h].task = None
                               /\ api[h].pc = "free" => api[h].agent # None

HistoryOK == /\ orphaned \subseteq Task
             /\ stranded \subseteq Agent /\ poisoned \subseteq Agent
             /\ cancelled \subseteq Task
             /\ calls \in 0 .. CallBound /\ reclaims \in 0 .. ReclaimBound
             /\ crashes \in 0 .. CrashBound /\ faults \in 0 .. FaultBound

TypeOK == RowsOK /\ RunsOK /\ ApiOK /\ HistoryOK

Init == /\ status = [t \in Task |-> "absent"]
        /\ assignee = [t \in Task |-> None]
        /\ memory = {}
        /\ agentStatus = [a \in Agent |-> "IDLE"]
        /\ entry = [e \in Entry |-> None]
        /\ run = [s \in Slot |-> NoRun]
        /\ api = [h \in Handler |-> NoRequest]
        /\ orphaned = {} /\ stranded = {} /\ poisoned = {} /\ cancelled = {}
        /\ calls = 0 /\ reclaims = 0 /\ crashes = 0 /\ faults = 0

-----------------------------------------------------------------------------
(* The database and the queue *)

Exists(t) == status[t] # "absent"

\* A session that has seen the value `seen` sets the column to v and commits:
\* no UPDATE is sent when the value seen is the value set.
SetTask(t, v, seen) == status' = [status EXCEPT ![t] = IF v = seen THEN @ ELSE v]
SetAgent(a, v, seen) ==
  agentStatus' = [agentStatus EXCEPT ![a] = IF v = seen THEN @ ELSE v]

\* XADD: a new entry naming t.
Add(t) == \E e \in Entry :
            /\ entry[e] = None
            /\ \A s \in Slot : run[s].entry # e
            /\ entry' = [entry EXCEPT ![e] = t]

Fault == faults < FaultBound /\ faults' = faults + 1

\* _enqueue_task: adds an entry; when Redis raises, the error is only logged.
EnqueueTask(t) == \/ Add(t) /\ UNCHANGED <<orphaned, faults>>
                  \/ /\ Fault
                     /\ orphaned' = orphaned \cup {t}
                     /\ UNCHANGED entry

-----------------------------------------------------------------------------
(* Requests.  A handler that is not idle has read or written a row and goes *)
(* on with what it saw.                                                    *)

Call == calls < CallBound /\ calls' = calls + 1

\* Handler h goes on to step l of its request for task t.
Continue(h, l, t, seen) ==
  api' = [api EXCEPT ![h] = IF l = "idle" THEN NoRequest
                            ELSE [NoRequest EXCEPT !.pc = l, !.task = t, !.seen = seen]]

\* Likewise, with an agent to give t to or to free.
ContinueWith(h, l, t, a, seen) ==
  api' = [api EXCEPT ![h] = [pc |-> l, task |-> t, agent |-> a, seen |-> seen]]

\* A new request on an idle handler; all but a cancel ask for t afresh.
Request(h) == /\ api[h].pc = "idle"
              /\ Call
              /\ UNCHANGED <<memory, run, losses, reclaims, crashes, faults>>

Ask(h, t) == Request(h) /\ cancelled' = cancelled \ {t}

\* POST /tasks: the row is committed in BACKLOG; with an agent named (a) it is
\* then moved to IN_PROGRESS and enqueued.
Create(h, t, a) == /\ Ask(h, t)
                   /\ ~ Exists(t)
                   /\ status' = [status EXCEPT ![t] = "BACKLOG"]
                   /\ assignee' = [assignee EXCEPT ![t] = a]
                   /\ Continue(h, IF a = None THEN "idle" ELSE "promote", t, None)
                   /\ UNCHANGED <<agentStatus, entry>>

Promote(h) == /\ api[h].pc = "promote"
              /\ SetTask(api[h].task, "IN_PROGRESS", "BACKLOG")
              /\ Continue(h, "enqueue", api[h].task, None)
              /\ UNCHANGED <<assignee, memory, agentStatus, entry, run, history, counts>>

\* PATCH /tasks/{id}/assign, and the assignments the orchestrator makes: the
\* task is read, then given to a in IN_PROGRESS; a task read with agent a keeps
\* whichever it has by then.
Assign(h, t, a) ==
  /\ Ask(h, t)
  /\ Exists(t)
  /\ ContinueWith(h, "assign", t, IF a = assignee[t] THEN None ELSE a, status[t])
  /\ UNCHANGED <<status, assignee, agentStatus, entry>>

Give(h) == /\ api[h].pc = "assign"
           /\ SetTask(api[h].task, "IN_PROGRESS", api[h].seen)
           /\ assignee' = [assignee EXCEPT ![api[h].task] =
                             IF api[h].agent = None THEN @ ELSE api[h].agent]
           /\ Continue(h, "enqueue", api[h].task, None)
           /\ UNCHANGED <<memory, agentStatus, entry, run, history, counts>>

\* PATCH /tasks/{id}/status: an assigned task moved to IN_PROGRESS is enqueued.
SetStatus(h, t, v) ==
  /\ Ask(h, t)
  /\ Exists(t)
  /\ status' = [status EXCEPT ![t] = v]
  /\ Continue(h, IF v = "IN_PROGRESS" /\ assignee[t] # None THEN "enqueue" ELSE "idle",
              t, None)
  /\ UNCHANGED <<assignee, agentStatus, entry>>

Enqueue(h) == /\ api[h].pc = "enqueue"
              /\ EnqueueTask(api[h].task)
              /\ Continue(h, "idle", None, None)
              /\ UNCHANGED <<rows, run, stranded, poisoned, cancelled, calls, reclaims, crashes>>

\* POST /tasks/{id}/run: the task is read, submitted, and moved to IN_PROGRESS
\* if it was in BACKLOG when it was read.  POST /tasks/{id}/submit only
\* submits, whether or not the task has an agent.
Run(h, t) == /\ Ask(h, t)
             /\ Exists(t)
             /\ assignee[t] # None
             /\ Continue(h, "submit", t, status[t])
             /\ UNCHANGED <<status, assignee, agentStatus, entry>>

SubmitTask(h, t) == /\ Ask(h, t)
                    /\ Exists(t)
                    /\ Continue(h, "submit", t, None)
                    /\ UNCHANGED <<status, assignee, agentStatus, entry>>

Submit(h) == /\ api[h].pc = "submit"
             /\ Add(api[h].task)
             /\ Continue(h, IF api[h].seen = "BACKLOG" THEN "start" ELSE "idle",
                         api[h].task, None)
             /\ UNCHANGED <<rows, run, history, counts>>

Start(h) == /\ api[h].pc = "start"
            /\ SetTask(api[h].task, "IN_PROGRESS", "BACKLOG")
            /\ Continue(h, "idle", None, None)
            /\ UNCHANGED <<assignee, memory, agentStatus, entry, run, history, counts>>

\* POST /tasks/{id}/cancel: a task seen in progress is failed, then its agent
\* is made IDLE.  The execution in flight is not told.
Cancel(h, t) == /\ Request(h)
                /\ status[t] = "IN_PROGRESS"
                /\ Continue(h, "fail", t, status[t])
                /\ UNCHANGED <<status, assignee, agentStatus, entry, cancelled>>

FailCancelled(h) ==
  LET t == api[h].task IN
  /\ api[h].pc = "fail"
  /\ SetTask(t, "FAILED", api[h].seen)
  /\ cancelled' = cancelled \cup {t}
  /\ IF assignee[t] = None THEN Continue(h, "idle", None, None)
     ELSE ContinueWith(h, "free", t, assignee[t], None)
  /\ UNCHANGED <<assignee, memory, agentStatus, entry, run, losses, counts>>

Free(h) == /\ api[h].pc = "free"
           /\ agentStatus' = [agentStatus EXCEPT ![api[h].agent] = "IDLE"]
           /\ Continue(h, "idle", None, None)
           /\ UNCHANGED <<status, assignee, memory, entry, run, history, counts>>

\* The process dies, or Redis or the database raises, before the next step.
Drop(h) == /\ api[h].pc # "idle"
           /\ Fault
           /\ Continue(h, "idle", None, None)
           /\ orphaned' = IF api[h].pc = "enqueue" THEN orphaned \cup {api[h].task}
                          ELSE orphaned
           /\ UNCHANGED <<rows, entry, run, stranded, poisoned, cancelled, calls, reclaims, crashes>>

\* PATCH /agents/{id}/status, and DELETE /agents/{id} with v = "OFFLINE".
SetAgentStatus(a, v) ==
  /\ Call
  /\ agentStatus' = [agentStatus EXCEPT ![a] = v]
  /\ stranded' = IF v = "WORKING" THEN stranded \cup {a} ELSE stranded
  /\ UNCHANGED <<status, assignee, memory, entry, run, api, orphaned, poisoned,
                 cancelled, reclaims, crashes, faults>>

-----------------------------------------------------------------------------
(* Executions.  s is the slot an execution runs in. *)

\* Execution s goes on to step l, in See having seen task status v.
Goto(s, l) == run' = [run EXCEPT ![s].pc = l]
See(s, l, v) == run' = [run EXCEPT ![s].pc = l, ![s].seen = v]

Held(e) == \E s \in Slot : run[s].entry = e

\* Mutant of Deliver: the entry is acknowledged when it is taken.
DeliverAndForget(s, e) ==
  /\ run[s].pc = "idle"
  /\ entry[e] # None
  /\ entry' = [entry EXCEPT ![e] = None]
  /\ run' = [run EXCEPT ![s] = [NoRun EXCEPT !.pc = "load", !.task = entry[e], !.entry = e]]
  /\ UNCHANGED <<rows, api, history, counts>>

\* The worker takes an open entry: a new one, one whose execution ended without
\* acknowledging it, or one that has been executed for a minute.
Deliver(s, e) ==
  /\ run[s].pc = "idle"
  /\ entry[e] # None
  /\ \/ ~ Held(e) /\ UNCHANGED reclaims
     \/ Held(e) /\ reclaims < ReclaimBound /\ reclaims' = reclaims + 1
  /\ run' = [run EXCEPT ![s] = [NoRun EXCEPT !.pc = "load", !.task = entry[e], !.entry = e]]
  /\ UNCHANGED <<rows, entry, api, history, calls, crashes, faults>>

\* POST /tasks/{id}/execute, and the executions the orchestrator starts.
Execute(s, t) ==
  /\ run[s].pc = "idle"
  /\ Exists(t)
  /\ Call
  /\ run' = [run EXCEPT ![s] = [NoRun EXCEPT !.pc = "load", !.task = t]]
  /\ cancelled' = cancelled \ {t}
  /\ UNCHANGED <<rows, entry, api, losses, reclaims, crashes, faults>>

\* execute_task reads the task and its agent; without one it is over.
Load(s) ==
  LET t == run[s].task
      a == assignee[t] IN
  /\ run[s].pc = "load"
  /\ run' = [run EXCEPT ![s] =
               IF a = None THEN [@ EXCEPT !.pc = "ack"]
               ELSE [@ EXCEPT !.pc = "begin", !.agent = a, !.seen = status[t],
                              !.seenAgent = agentStatus[a]]]
  /\ UNCHANGED <<rows, entry, api, history, counts>>

\* Mutant of Begin: the entry is acknowledged as soon as its task is marked,
\* before it has been enqueued again.
BeginAndAck(s) ==
  /\ run[s].pc = "begin"
  /\ SetTask(run[s].task, "IN_PROGRESS", run[s].seen)
  /\ entry' = [e \in Entry |-> IF e = run[s].entry THEN None ELSE entry[e]]
  /\ Goto(s, "requeue")
  /\ UNCHANGED <<assignee, memory, agentStatus, api, history, counts>>

\* update_task_status(IN_PROGRESS), whatever the status was: commit, enqueue
\* the assigned task once more, refresh.
Begin(s) == /\ run[s].pc = "begin"
            /\ SetTask(run[s].task, "IN_PROGRESS", run[s].seen)
            /\ Goto(s, "requeue")
            /\ UNCHANGED <<assignee, memory, agentStatus, entry, api, history, counts>>

\* Mutant of Requeue: an execution does not enqueue its task again.
RequeueNothing(s) == /\ run[s].pc = "requeue"
                     /\ See(s, "engage", status[run[s].task])
                     /\ UNCHANGED <<rows, entry, api, history, counts>>

Requeue(s) == /\ run[s].pc = "requeue"
              /\ EnqueueTask(run[s].task)
              /\ See(s, "engage", status[run[s].task])
              /\ UNCHANGED <<rows, api, stranded, poisoned, cancelled, calls, reclaims, crashes>>

\* update_agent_status(WORKING): commit, refresh.
Engage(s) == /\ run[s].pc = "engage"
             /\ SetAgent(run[s].agent, "WORKING", run[s].seenAgent)
             /\ Goto(s, "observe")
             /\ UNCHANGED <<status, assignee, memory, entry, api, history, counts>>

Observe(s) == /\ run[s].pc = "observe"
              /\ run' = [run EXCEPT ![s].pc = "work",
                                    ![s].seenAgent = agentStatus[run[s].agent]]
              /\ UNCHANGED <<rows, entry, api, history, counts>>

\* The agent loop succeeds: the task is DONE, then its memory is inserted.
Succeed(s) == /\ run[s].pc = "work"
              /\ SetTask(run[s].task, "DONE", run[s].seen)
              /\ See(s, "remember", status'[run[s].task])
              /\ UNCHANGED <<assignee, memory, agentStatus, entry, api, history, counts>>

Remember(s) == /\ run[s].pc = "remember"
               /\ run[s].task \notin memory
               /\ memory' = memory \cup {run[s].task}
               /\ Goto(s, "release")
               /\ UNCHANGED <<status, assignee, agentStatus, entry, api, history, counts>>

\* A task has one memory: a second INSERT fails when it is flushed, and the
\* session refuses every later call.  Neither the except nor the finally block
\* gets through, and the worker acknowledges the entry.
Poison(s) == /\ run[s].pc = "remember"
             /\ run[s].task \in memory
             /\ poisoned' = poisoned \cup {run[s].agent}
             /\ Goto(s, "ack")
             /\ UNCHANGED <<rows, entry, api, orphaned, stranded, cancelled, counts>>

\* Mutant of Fail: a failed execution does not release its agent.
FailUnreleased(s) ==
  /\ run[s].pc \in {"work", "raised"}
  /\ SetTask(run[s].task, "FAILED", run[s].seen)
  /\ Goto(s, "ack")
  /\ UNCHANGED <<assignee, memory, agentStatus, entry, api, history, counts>>

\* The agent loop fails, or an exception is handled: the task is FAILED.
Fail(s) == /\ run[s].pc \in {"work", "raised"}
           /\ SetTask(run[s].task, "FAILED", run[s].seen)
           /\ Goto(s, "release")
           /\ UNCHANGED <<assignee, memory, agentStatus, entry, api, history, counts>>

\* finally: update_agent_status(IDLE).
Release(s) == /\ run[s].pc = "release"
              /\ SetAgent(run[s].agent, "IDLE", run[s].seenAgent)
              /\ Goto(s, "ack")
              /\ UNCHANGED <<status, assignee, memory, entry, api, history, counts>>

\* The execution is over; its entry, if it has one, is acknowledged.
Ack(s) == /\ run[s].pc = "ack"
          /\ run' = [run EXCEPT ![s] = NoRun]
          /\ entry' = [e \in Entry |-> IF e = run[s].entry THEN None ELSE entry[e]]
          /\ UNCHANGED <<rows, api, history, counts>>

-----------------------------------------------------------------------------
(* Executions that do not end as they should *)

\* What is lost with execution s if it ends here for good: the task when it has
\* not been enqueued again, and the agent when it has not been released.
Orphans(s, l) == IF run[s].pc \in l THEN orphaned \cup {run[s].task} ELSE orphaned
Strands(s) == IF run[s].pc \in Engaged THEN stranded \cup {run[s].agent} ELSE stranded

\* The process dies: the entry stays open, a request's execution is gone.
Crash(s) == /\ run[s].pc # "idle"
            /\ crashes < CrashBound
            /\ crashes' = crashes + 1
            /\ run' = [run EXCEPT ![s] = NoRun]
            /\ orphaned' = IF run[s].entry = None THEN Orphans(s, {"requeue"}) ELSE orphaned
            /\ stranded' = Strands(s)
            /\ UNCHANGED <<rows, entry, api, poisoned, cancelled, calls, reclaims, faults>>

\* The worker is shut down: the execution is cancelled at an await of its try
\* block, which runs the finally block and leaves the entry open.
Interrupt(s) == /\ run[s].pc \in {"work", "remember", "raised"}
                /\ crashes < CrashBound
                /\ crashes' = crashes + 1
                /\ run' = [run EXCEPT ![s].pc = "release", ![s].entry = None]
                /\ UNCHANGED <<rows, entry, api, history, calls, reclaims, faults>>

\* A database call raises inside the try block: the except block is entered, or
\* left for the finally block.
Raise(s) == /\ run[s].pc \in {"remember", "raised"}
            /\ Fault
            /\ Goto(s, IF run[s].pc = "raised" THEN "release" ELSE "raised")
            /\ UNCHANGED <<rows, entry, api, history, calls, reclaims, crashes>>

\* A database call raises outside of it, or leaves a session that refuses the
\* calls of both blocks: the execution ends where it stands, and its entry is
\* acknowledged.
Abort(s) == /\ run[s].pc \in Steps \ {"ack"}
            /\ Fault
            /\ Goto(s, "ack")
            /\ orphaned' = Orphans(s, {"load", "begin", "requeue"})
            /\ stranded' = Strands(s)
            /\ UNCHANGED <<rows, entry, api, poisoned, cancelled, calls, reclaims, crashes>>

\* The acknowledgement fails, which is only logged.
AckLost(s) == /\ run[s].pc = "ack"
              /\ Fault
              /\ run' = [run EXCEPT ![s] = NoRun]
              /\ UNCHANGED <<rows, entry, api, history, calls, reclaims, crashes>>

-----------------------------------------------------------------------------
Serve(h) == \/ Promote(h) \/ Give(h) \/ Enqueue(h) \/ Submit(h) \/ Start(h)
            \/ FailCancelled(h) \/ Free(h)

NewRequest(h) ==
  \E t \in Task : \/ \E a \in Agent \cup {None} : Create(h, t, a)
                  \/ \E a \in Agent : Assign(h, t, a)
                  \/ \E v \in Statuses : SetStatus(h, t, v)
                  \/ Run(h, t) \/ SubmitTask(h, t) \/ Cancel(h, t)

Perform(s) == \/ Load(s) \/ Begin(s) \/ Requeue(s) \/ Engage(s) \/ Observe(s)
              \/ Succeed(s) \/ Remember(s) \/ Poison(s) \/ Fail(s) \/ Release(s)
              \/ Ack(s)

Next == \/ \E h \in Handler : NewRequest(h) \/ Serve(h) \/ Drop(h)
        \/ \E a \in Agent, v \in AgentStatuses : SetAgentStatus(a, v)
        \/ \E s \in Slot : \/ \E e \in Entry : Deliver(s, e)
                            \/ \E t \in Task : Execute(s, t)
                            \/ Perform(s)
                            \/ Crash(s) \/ Interrupt(s) \/ Raise(s) \/ Abort(s) \/ AckLost(s)

Spec == Init /\ [][Next]_vars

\* A request that has begun goes on, and an execution ends (the agent loop has
\* at most max_iterations rounds).  The stream is read in order, so an entry is
\* not passed over for ever however many others are added.
TakeEntryOf(t) == \E s \in Slot, e \in Entry : entry[e] = t /\ Deliver(s, e)

Fairness == /\ \A h \in Handler : WF_vars(Serve(h))
            /\ \A s \in Slot : WF_vars(Perform(s))
            /\ \A t \in Task : SF_vars(TakeEntryOf(t))

FairSpec == Spec /\ Fairness

-----------------------------------------------------------------------------
(* Properties *)

\* An execution of t that has yet to enqueue it again, or to reach a verdict.
Running(t) == \E s \in Slot : run[s].task = t /\ run[s].pc \in Steps \ {"ack"}

\* No task waits for nothing: one that is IN_PROGRESS with an agent is in the
\* queue, in execution, or about to be enqueued by the request that moved it,
\* unless its submission was lost to a failing call, which history recorded.
NoSilentOrphan ==
  \A t \in Task : status[t] = "IN_PROGRESS" /\ assignee[t] # None =>
    \/ \E e \in Entry : entry[e] = t
    \/ Running(t)
    \/ \E h \in Handler : api[h].task = t /\ api[h].pc = "enqueue"
    \/ t \in orphaned

\* An execution on agent a will make it IDLE, or has made sure it was told.
Engages(a) == \E s \in Slot : run[s].agent = a /\ run[s].pc \in Engaged

\* An agent is WORKING only while an execution is on it that will release it,
\* though executions of several tasks share the agent and each writes only what
\* differs from what it saw; the exceptions are recorded in history: a manual
\* change, a crash, a failing call, an execution whose session died.
WorkingExplained ==
  \A a \in Agent : agentStatus[a] = "WORKING" =>
    Engages(a) \/ a \in stranded \cup poisoned

\* Rows are never deleted: what executions, requests and entries name exists.
RowsExist == /\ \A s \in Slot : run[s].task # None => Exists(run[s].task)
             /\ \A h \in Handler : api[h].task # None => Exists(api[h].task)
             /\ \A e \in Entry : entry[e] # None => Exists(entry[e])

\* An entry that is executed names the task executed or has been closed.
EntriesHeld ==
  \A s \in Slot : run[s].entry # None => entry[run[s].entry] \in {None, run[s].task}

\* An execution of t is to come: by an entry none of whose executions has
\* enqueued t again, by a request's execution about to do so, or by a request;
\* or it was lost.
Promised(t) ==
  \/ \E e \in Entry : /\ entry[e] = t
                      /\ \A s \in Slot : run[s].entry = e => run[s].pc \in Early
  \/ \E s \in Slot : run[s].task = t /\ run[s].entry = None /\ run[s].pc = "requeue"
  \/ \E h \in Handler : api[h].task = t /\ api[h].pc = "enqueue"
  \/ t \in orphaned

\* Execution s of a task no longer stands for a further one: it has enqueued
\* the task again, or its entry was closed by another execution.
Spent(s) == \/ run[s].pc \notin Early
            \/ run[s].entry # None /\ entry[run[s].entry] = None

\* A task is in progress, or has been submitted by a request that is about to
\* move it there, or is in an execution that stands for no further one.
Owed(t) == \/ status[t] = "IN_PROGRESS"
           \/ \E h \in Handler : api[h].task = t /\ api[h].pc = "start"
           \/ \E s \in Slot : run[s].task = t /\ Spent(s)

\* Such a task has an execution to come if it has an agent.
QueueFed == \A t \in Task : assignee[t] # None /\ Owed(t) => Promised(t)

\* What has an agent and an execution to come keeps having one: whatever executions
\* of it end, fail or are given up, and whoever moves or cancels it, no assigned task
\* drops out of the queue unless its submission was lost.
StaysDue == [][\A t \in Task : assignee[t] # None /\ Promised(t) => Promised(t)']_vars

\* So a task that was done once and remembered is due again, for ever: an execution
\* begins by moving its task to IN_PROGRESS, which enqueues it once more.
DoneIsDue == \A t \in memory : assignee[t] # None /\ Promised(t)

\* Some execution on a WORKING agent will write IDLE: it is about to look at
\* the agent, or it saw it other than IDLE when it did.
AgentWatched ==
  \A a \in Agent : agentStatus[a] = "WORKING" =>
    \/ \E s \in Slot : /\ run[s].agent = a
                       /\ run[s].pc \in Engaged
                       /\ run[s].pc = "observe" \/ run[s].seenAgent # "IDLE"
    \/ a \in stranded \cup poisoned

\* The strengthening that makes NoSilentOrphan and WorkingExplained inductive.
IInv == TypeOK /\ RowsExist /\ EntriesHeld /\ QueueFed /\ AgentWatched

\* "Update agent=IDLE": when no execution is on an agent any more it is not
\* WORKING, manual changes, crashes and failing calls apart.
AgentReleased ==
  \A a \in Agent : agentStatus[a] = "WORKING" => Engages(a) \/ a \in stranded

\* A step by hand: a request or a change of an agent.
Manual == calls' # calls

\* DONE is left only by hand ("Manual drag on Kanban board").
DoneLeftByHand ==
  [][\A t \in Task : status[t] = "DONE" /\ status'[t] # "DONE" => Manual]_vars

\* "Cancel a running task (moves it to FAILED ...)": a cancelled task that
\* nobody has asked for since does not turn up DONE.
CancelSticks == \A t \in cancelled : status[t] # "DONE"

\* A task in progress with an agent gets out of it, unless its submission was
\* lost to a failing call.
Settles == \A t \in Task : status[t] = "IN_PROGRESS" /\ assignee[t] # None ~>
                             status[t] # "IN_PROGRESS" \/ t \in orphaned
=============================================================================
