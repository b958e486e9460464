------------------------ MODULE TaskLifecycleProofs ------------------------
(***************************************************************************)
(* Proofs about TaskLifecycle for any tasks, agents, executions, handlers, *)
(* queue entries and bounds.                                               *)
(***************************************************************************)
EXTENDS TaskLifecycle, TLAPS

\* What is proved of every step first: types, rows that exist, entries that
\* name the task executed.
Base == TypeOK /\ RowsExist /\ EntriesHeld

-----------------------------------------------------------------------------
(* How a step changes the slots and the handlers *)

\* Slot s is now r, the other slots are as they were.
Slotted(s, r) == /\ run'[s] = r
                 /\ \A q \in Slot : q # s => run'[q] = run[q]

\* Execution s goes on to step l for the same task, agent and entry.
Moved(s, l) == /\ RunsOK'
               /\ run'[s].pc = l
               /\ run'[s].task = run[s].task
               /\ run'[s].agent = run[s].agent
               /\ run'[s].entry = run[s].entry
               /\ \A q \in Slot : q # s => run'[q] = run[q]

LEMMA GotoMoves ==
  ASSUME RunsOK, NEW s \in Slot, NEW l \in Steps, run[s].pc \in Steps,
         l = "ack" \/ run[s].pc \notin {"load", "ack"}, Goto(s, l)
  PROVE  Moved(s, l) /\ run'[s].seenAgent = run[s].seenAgent
<1>1. run[s] \in Runs /\ run'[s] = [run[s] EXCEPT !.pc = l]
  BY DEF RunsOK, Goto
<1>2. \A q \in Slot : q # s => run'[q] = run[q]
  BY DEF RunsOK, Goto
<1>3. run'[s] \in Runs
  BY <1>1 DEF Runs
<1>4. run' \in [Slot -> Runs]
  BY <1>3 DEF RunsOK, Goto
<1>5. /\ run'[s].pc = l
      /\ run'[s].task = run[s].task
      /\ run'[s].agent = run[s].agent
      /\ run'[s].entry = run[s].entry
      /\ run'[s].seenAgent = run[s].seenAgent
  BY <1>1 DEF Runs
<1>6. RunsOK'
  BY <1>2, <1>4, <1>5 DEF RunsOK, Steps, Early, Engaged
<1>7. QED
  BY <1>2, <1>5, <1>6 DEF Moved

LEMMA SeeMoves ==
  ASSUME RunsOK, NEW s \in Slot, NEW l \in Steps, run[s].pc \in Steps \ {"load", "ack"},
         NEW v \in Statuses, See(s, l, v)
  PROVE  Moved(s, l) /\ run'[s].seenAgent = run[s].seenAgent
<1>1. run[s] \in Runs /\ run'[s] = [run[s] EXCEPT !.pc = l, !.seen = v]
  BY DEF RunsOK, See
<1>2. \A q \in Slot : q # s => run'[q] = run[q]
  BY DEF RunsOK, See
<1>3. run'[s] \in Runs
  BY <1>1 DEF Runs
<1>4. run' \in [Slot -> Runs]
  BY <1>3 DEF RunsOK, See
<1>5. /\ run'[s].pc = l
      /\ run'[s].task = run[s].task
      /\ run'[s].agent = run[s].agent
      /\ run'[s].entry = run[s].entry
      /\ run'[s].seenAgent = run[s].seenAgent
  BY <1>1 DEF Runs
<1>6. RunsOK'
  BY <1>2, <1>4, <1>5 DEF RunsOK, Steps, Early, Engaged
<1>7. QED
  BY <1>2, <1>5, <1>6 DEF Moved

\* A handler goes on.
LEMMA ContinueMoves ==
  ASSUME ApiOK, NEW h \in Handler, NEW t \in Task, NEW v \in Statuses \cup {None},
         NEW l \in {"idle", "promote", "enqueue", "submit", "start", "fail", "free"},
         Continue(h, l, t, v)
  PROVE  /\ api' \in [Handler -> Requests]
         /\ api'[h].pc = l
         /\ api'[h].task = IF l = "idle" THEN None ELSE t
         /\ \A g \in Handler : g # h => api'[g] = api[g]
<1>1. CASE l = "idle"
  <2>1. NoRequest \in Requests /\ NoRequest.pc = "idle" /\ NoRequest.task = None
    BY DEF NoRequest, Requests
  <2>2. api' = [api EXCEPT ![h] = NoRequest]
    BY <1>1 DEF Continue
  <2>3. QED BY <1>1, <2>1, <2>2 DEF ApiOK
<1>2. CASE l # "idle"
  <2> DEFINE r == [NoRequest EXCEPT !.pc = l, !.task = t, !.seen = v]
  <2>1. r \in Requests /\ r.pc = l /\ r.task = t
    BY DEF Requests, NoRequest
  <2>2. api' = [api EXCEPT ![h] = r]
    BY <1>2 DEF Continue
  <2> HIDE DEF r
  <2>3. QED BY <1>2, <2>1, <2>2 DEF ApiOK
<1>3. QED BY <1>1, <1>2

LEMMA IdleMoves ==
  ASSUME ApiOK, NEW h \in Handler, Continue(h, "idle", None, None)
  PROVE  /\ api' \in [Handler -> Requests]
         /\ api'[h].pc = "idle" /\ api'[h].task = None
         /\ \A g \in Handler : g # h => api'[g] = api[g]
<1>1. NoRequest \in Requests /\ NoRequest.pc = "idle" /\ NoRequest.task = None
  BY DEF NoRequest, Requests
<1>2. api' = [api EXCEPT ![h] = NoRequest]
  BY DEF Continue
<1>3. QED BY <1>1, <1>2 DEF ApiOK

LEMMA ContinueWithMoves ==
  ASSUME ApiOK, NEW h \in Handler, NEW t \in Task, NEW a \in Agent \cup {None},
         NEW v \in Statuses \cup {None}, NEW l \in {"assign", "free"},
         ContinueWith(h, l, t, a, v)
  PROVE  /\ api' \in [Handler -> Requests]
         /\ api'[h].pc = l /\ api'[h].task = t /\ api'[h].agent = a
         /\ \A g \in Handler : g # h => api'[g] = api[g]
<1> DEFINE r == [pc |-> l, task |-> t, agent |-> a, seen |-> v]
<1>1. r \in Requests /\ r.pc = l /\ r.task = t /\ r.agent = a
  BY DEF Requests
<1>2. api' = [api EXCEPT ![h] = r]
  BY DEF ContinueWith
<1> HIDE DEF r
<1>3. QED BY <1>1, <1>2 DEF ApiOK

\* Rows are never deleted.
Kept == \A t \in Task : status[t] # "absent" => status'[t] # "absent"

\* The types of the handlers' requests survive a handler that goes on to l.
LEMMA ApiKept ==
  ASSUME Base, RowsOK', Kept, NEW h \in Handler,
         api' \in [Handler -> Requests],
         api'[h].pc = "idle" <=> api'[h].task = None,
         api'[h].pc = "free" => api'[h].agent # None,
         api'[h].task # None => status'[api'[h].task] # "absent",
         \A g \in Handler : g # h => api'[g] = api[g]
  PROVE  ApiOK' /\ \A g \in Handler : api'[g].task # None => status'[api'[g].task] # "absent"
<1>1. ASSUME NEW g \in Handler
      PROVE  /\ api'[g].pc = "idle" <=> api'[g].task = None
             /\ api'[g].pc = "free" => api'[g].agent # None
             /\ api'[g].task # None => status'[api'[g].task] # "absent"
  <2>1. CASE g = h
    BY <2>1
  <2>2. CASE g # h
    <3>1. api'[g] = api[g] BY <2>2
    <3>2. api[g].task \in Task \cup {None}
      BY DEF Base, TypeOK, ApiOK, Requests
    <3>3. QED BY <3>1, <3>2 DEF Base, TypeOK, ApiOK, RowsExist, Exists, Kept
  <2>3. QED BY <2>1, <2>2
<1>2. QED BY <1>1 DEF ApiOK

\* So do they when no handler moves.
LEMMA ApiStays ==
  ASSUME Base, RowsOK', Kept, UNCHANGED api
  PROVE  ApiOK' /\ \A g \in Handler : api'[g].task # None => status'[api'[g].task] # "absent"
<1>1. \A g \in Handler : api[g].task \in Task \cup {None}
  BY DEF Base, TypeOK, ApiOK, Requests
<1>2. QED BY <1>1 DEF Base, TypeOK, ApiOK, RowsExist, Exists, Kept

\* Setting a column keeps its type, and no status becomes "absent".
LEMMA SetTaskType ==
  ASSUME RowsOK, NEW t \in Task, NEW v \in Statuses, NEW w, SetTask(t, v, w), Exists(t)
  PROVE  /\ status' \in [Task -> Statuses \cup {"absent"}]
         /\ status'[t] # "absent"
         /\ \A u \in Task : u # t => status'[u] = status[u]
         /\ status'[t] \in {v, status[t]}
BY DEF RowsOK, SetTask, Exists, Statuses

LEMMA SetAgentType ==
  ASSUME RowsOK, NEW a \in Agent, NEW v \in AgentStatuses, NEW w, SetAgent(a, v, w)
  PROVE  /\ agentStatus' \in [Agent -> AgentStatuses]
         /\ \A b \in Agent : b # a => agentStatus'[b] = agentStatus[b]
         /\ agentStatus'[a] = IF v = w THEN agentStatus[a] ELSE v
BY DEF RowsOK, SetAgent

\* A new entry is one that no execution holds.
LEMMA Added ==
  ASSUME RowsOK, NEW t \in Task, Add(t)
  PROVE  \E e \in Entry : /\ entry[e] = None /\ entry'[e] = t
                          /\ \A s \in Slot : run[s].entry # e
                          /\ \A f \in Entry : f # e => entry'[f] = entry[f]
                          /\ entry' \in [Entry -> Task \cup {None}]
BY DEF RowsOK, Add

LEMMA FaultType ==
  ASSUME HistoryOK, Fault
  PROVE  faults' \in 0 .. FaultBound
BY LifecycleAssumption DEF HistoryOK, Fault

LEMMA CallType ==
  ASSUME HistoryOK, Call
  PROVE  calls' \in 0 .. CallBound
BY LifecycleAssumption DEF HistoryOK, Call

-----------------------------------------------------------------------------
(* Base is an invariant *)

\* An entry that changes is closed, or was held by nobody.
EntryStep == \A e \in Entry : \/ entry'[e] = entry[e]
                              \/ entry'[e] = None
                              \/ \A s \in Slot : run[s].entry # e

\* An execution keeps its task and its entry, gives up its entry, or ends.
SlotStep == \A s \in Slot : \/ /\ run'[s].task = run[s].task
                               /\ run'[s].entry \in {run[s].entry, None}
                            \/ run'[s].task = None /\ run'[s].entry = None

LEMMA SlotsKept ==
  ASSUME Base, Kept, EntryStep, SlotStep
  PROVE  EntriesHeld' /\ \A s \in Slot : run'[s].task # None => status'[run'[s].task] # "absent"
<1>1. \A s \in Slot : run[s].task \in Task \cup {None} /\ run[s].entry \in Entry \cup {None}
  BY DEF Base, TypeOK, RunsOK, Runs
<1>2. ASSUME NEW s \in Slot, run'[s].entry # None
      PROVE  entry'[run'[s].entry] \in {None, run'[s].task}
  <2>1. run'[s].task = run[s].task /\ run'[s].entry = run[s].entry
    BY <1>2 DEF SlotStep
  <2>2. entry[run[s].entry] \in {None, run[s].task}
    BY <1>2, <2>1 DEF Base, EntriesHeld
  <2>3. run[s].entry \in Entry
    BY <1>1, <1>2, <2>1
  <2>4. entry'[run[s].entry] \in {entry[run[s].entry], None}
    BY <2>3 DEF EntryStep
  <2>5. QED BY <2>1, <2>2, <2>4
<1>3. ASSUME NEW s \in Slot, run'[s].task # None
      PROVE  status'[run'[s].task] # "absent"
  BY <1>1, <1>3 DEF SlotStep, Base, RowsExist, Exists, Kept
<1>4. QED BY <1>2, <1>3 DEF EntriesHeld

\* The entries' tasks exist when no task but an existing one was added.
EntriesName == \A e \in Entry : entry'[e] # None => status'[entry'[e]] # "absent"

LEMMA EntriesClosed ==
  ASSUME Base, Kept, \A e \in Entry : entry'[e] \in {entry[e], None}
  PROVE  EntryStep /\ EntriesName
<1>1. \A e \in Entry : entry[e] \in Task \cup {None}
  BY DEF Base, TypeOK, RowsOK
<1>2. QED BY <1>1 DEF Base, RowsExist, Exists, Kept, EntryStep, EntriesName

LEMMA EntriesAdded ==
  ASSUME Base, Kept, NEW t \in Task, Exists(t), Add(t)
  PROVE  EntryStep /\ EntriesName /\ entry' \in [Entry -> Task \cup {None}]
<1>1. RowsOK BY DEF Base, TypeOK
<1>2. PICK e \in Entry : /\ entry'[e] = t
                         /\ \A s \in Slot : run[s].entry # e
                         /\ \A f \in Entry : f # e => entry'[f] = entry[f]
                         /\ entry' \in [Entry -> Task \cup {None}]
  BY <1>1, Added
<1>3. \A f \in Entry : entry[f] \in Task \cup {None}
  BY <1>1 DEF RowsOK
<1>4. EntryStep BY <1>2 DEF EntryStep
<1>5. EntriesName
  BY <1>2, <1>3 DEF Base, RowsExist, Exists, Kept, EntriesName
<1>6. QED BY <1>2, <1>4, <1>5

LEMMA EnqueueKeeps ==
  ASSUME Base, Kept, NEW t \in Task, Exists(t), EnqueueTask(t)
  PROVE  /\ EntryStep /\ EntriesName /\ entry' \in [Entry -> Task \cup {None}]
         /\ orphaned' \subseteq Task /\ faults' \in 0 .. FaultBound
<1>1. RowsOK /\ HistoryOK BY DEF Base, TypeOK
<1>2. CASE Add(t) /\ UNCHANGED <<orphaned, faults>>
  BY <1>1, <1>2, EntriesAdded DEF HistoryOK
<1>3. CASE Fault /\ orphaned' = orphaned \cup {t} /\ UNCHANGED entry
  <2>1. EntryStep /\ EntriesName BY <1>3, EntriesClosed
  <2>2. QED BY <1>1, <1>3, <2>1, FaultType DEF HistoryOK, RowsOK
<1>4. QED BY <1>2, <1>3 DEF EnqueueTask

LEMMA BaseIntro ==
  ASSUME Base, Kept, RowsOK', RunsOK', ApiOK', HistoryOK', EntryStep, EntriesName, SlotStep,
         \A h \in Handler : api'[h].task # None => status'[api'[h].task] # "absent"
  PROVE  Base'
<1>1. EntriesHeld' /\ \A s \in Slot : run'[s].task # None => status'[run'[s].task] # "absent"
  BY SlotsKept
<1>2. QED BY <1>1 DEF Base, TypeOK, RowsExist, Exists, EntriesName

\* What an execution and a request name.
LEMMA Named ==
  ASSUME Base
  PROVE  /\ RowsOK /\ RunsOK /\ ApiOK /\ HistoryOK
         /\ \A s \in Slot : run[s].pc # "idle" =>
              run[s].pc \in Steps /\ run[s].task \in Task /\ Exists(run[s].task)
         /\ \A s \in Slot : run[s].pc \in Steps \ {"load", "ack"} => run[s].agent \in Agent
         /\ \A h \in Handler : api[h].pc # "idle" =>
              api[h].task \in Task /\ Exists(api[h].task)
         /\ \A t \in Task : Exists(t) => status[t] \in Statuses
BY DEF Base, TypeOK, RowsOK, RunsOK, Runs, ApiOK, Requests, RowsExist, Exists

\* A step of a handler leaves the executions alone, one of an execution the handlers.
LEMMA SlotsStay == ASSUME Base, UNCHANGED run PROVE RunsOK' /\ SlotStep
BY DEF Base, TypeOK, RunsOK, SlotStep

LEMMA MovedStep == ASSUME NEW s \in Slot, NEW l \in Steps, Moved(s, l) PROVE RunsOK' /\ SlotStep
BY DEF Moved, SlotStep

\* Requests.
LEMMA NewRequestBase == ASSUME Base, NEW h \in Handler, NewRequest(h) PROVE Base'
<1> USE DEF rows, losses, history, counts
<1>0. RowsOK /\ RunsOK /\ ApiOK /\ HistoryOK BY Named
<1>1. PICK t \in Task : \/ \E a \in Agent \cup {None} : Create(h, t, a)
                        \/ \E a \in Agent : Assign(h, t, a)
                        \/ \E v \in Statuses : SetStatus(h, t, v)
                        \/ Run(h, t) \/ SubmitTask(h, t) \/ Cancel(h, t)
  BY DEF NewRequest
<1>2. Request(h)
  BY <1>1 DEF Create, Assign, SetStatus, Run, SubmitTask, Cancel, Ask
<1>3. /\ UNCHANGED <<memory, run, losses, reclaims, crashes, faults>>
      /\ api[h].pc = "idle" /\ Call
  BY <1>2 DEF Request
<1>4. UNCHANGED <<agentStatus, entry>> /\ cancelled' \subseteq Task
  BY <1>0, <1>1 DEF Create, Assign, SetStatus, Run, SubmitTask, Cancel, Ask, HistoryOK
<1>5. HistoryOK'
  BY <1>0, <1>3, <1>4, CallType DEF HistoryOK
<1>6. RunsOK' /\ SlotStep
  BY <1>3, SlotsStay
<1>7. ASSUME RowsOK', Kept,
             api' \in [Handler -> Requests],
             api'[h].pc = "idle" <=> api'[h].task = None,
             api'[h].pc # "free",
             api'[h].task # None => status'[api'[h].task] # "absent",
             \A g \in Handler : g # h => api'[g] = api[g]
      PROVE  Base'
  <2>1. ApiOK' /\ \A g \in Handler : api'[g].task # None => status'[api'[g].task] # "absent"
    BY <1>7, ApiKept
  <2>2. EntryStep /\ EntriesName
    BY <1>4, <1>7, EntriesClosed
  <2>3. QED BY <1>5, <1>6, <1>7, <2>1, <2>2, BaseIntro
<1>8. ASSUME NEW a \in Agent \cup {None}, Create(h, t, a) PROVE Base'
  <2>1. RowsOK' /\ Kept /\ status'[t] = "BACKLOG"
    BY <1>0, <1>3, <1>8 DEF Create, RowsOK, Kept, Exists, Statuses
  <2> DEFINE l == IF a = None THEN "idle" ELSE "promote"
  <2>2. Continue(h, l, t, None) /\ l \in {"idle", "promote"}
    BY <1>8 DEF Create
  <2> HIDE DEF l
  <2>3. /\ api' \in [Handler -> Requests]
        /\ api'[h].pc = l
        /\ api'[h].task = IF l = "idle" THEN None ELSE t
        /\ \A g \in Handler : g # h => api'[g] = api[g]
    BY <1>0, <2>2, ContinueMoves
  <2>4. t # None BY LifecycleAssumption
  <2>5. QED BY <1>7, <2>1, <2>2, <2>3, <2>4
<1>9. ASSUME NEW a \in Agent, Assign(h, t, a) PROVE Base'
  <2>1. PICK b \in Agent \cup {None} : ContinueWith(h, "assign", t, b, status[t])
    BY <1>9 DEF Assign
  <2>2. UNCHANGED <<status, assignee>> /\ Exists(t)
    BY <1>9 DEF Assign
  <2>3. RowsOK' /\ Kept
    BY <1>0, <1>3, <1>4, <2>2 DEF RowsOK, Kept
  <2>4. t # None /\ status[t] \in Statuses
    BY <2>2, Named, LifecycleAssumption
  <2>5. /\ api' \in [Handler -> Requests]
        /\ api'[h].pc = "assign" /\ api'[h].task = t
        /\ \A g \in Handler : g # h => api'[g] = api[g]
    BY <1>0, <2>1, <2>4, ContinueWithMoves
  <2>6. QED BY <1>7, <2>2, <2>3, <2>4, <2>5 DEF Exists
<1>10. ASSUME NEW v \in Statuses, SetStatus(h, t, v) PROVE Base'
  <2>1. RowsOK' /\ Kept /\ status'[t] # "absent"
    BY <1>0, <1>3, <1>10 DEF SetStatus, RowsOK, Kept, Exists, Statuses
  <2> DEFINE l == IF v = "IN_PROGRESS" /\ assignee[t] # None THEN "enqueue" ELSE "idle"
  <2>2. Continue(h, l, t, None) /\ l \in {"idle", "enqueue"}
    BY <1>10 DEF SetStatus
  <2> HIDE DEF l
  <2>3. /\ api' \in [Handler -> Requests]
        /\ api'[h].pc = l
        /\ api'[h].task = IF l = "idle" THEN None ELSE t
        /\ \A g \in Handler : g # h => api'[g] = api[g]
    BY <1>0, <2>2, ContinueMoves
  <2>4. t # None BY LifecycleAssumption
  <2>5. QED BY <1>7, <2>1, <2>2, <2>3, <2>4
<1>11. ASSUME Run(h, t) \/ SubmitTask(h, t) \/ Cancel(h, t) PROVE Base'
  <2>1. UNCHANGED <<status, assignee>> /\ Exists(t)
    BY <1>11 DEF Run, SubmitTask, Cancel, Exists
  <2>2. RowsOK' /\ Kept /\ status'[t] # "absent"
    BY <1>0, <1>3, <1>4, <2>1 DEF RowsOK, Kept, Exists
  <2>3. status[t] \in Statuses BY <2>1, Named
  <2>4. PICK l \in {"submit", "fail"}, v \in Statuses \cup {None} : Continue(h, l, t, v)
    BY <1>11, <2>3 DEF Run, SubmitTask, Cancel
  <2>5. /\ api' \in [Handler -> Requests]
        /\ api'[h].pc = l
        /\ api'[h].task = t
        /\ \A g \in Handler : g # h => api'[g] = api[g]
    BY <1>0, <2>4, ContinueMoves
  <2>6. t # None BY LifecycleAssumption
  <2>7. QED BY <1>7, <2>2, <2>4, <2>5, <2>6
<1>12. QED BY <1>1, <1>8, <1>9, <1>10, <1>11

\* A handler's further steps.
LEMMA ServeBase == ASSUME Base, NEW h \in Handler, Serve(h) \/ Drop(h) PROVE Base'
<1> USE DEF rows, losses, history, counts
<1>0. RowsOK /\ RunsOK /\ ApiOK /\ HistoryOK BY Named
<1> DEFINE t == api[h].task
<1>1. t \in Task /\ Exists(t) /\ t # None /\ UNCHANGED run
  <2>1. api[h].pc # "idle" /\ UNCHANGED run
    BY DEF Serve, Drop, Promote, Give, Enqueue, Submit, Start, FailCancelled, Free
  <2>2. QED BY <2>1, Named, LifecycleAssumption
<1>2. RunsOK' /\ SlotStep BY <1>1, SlotsStay
<1> HIDE DEF t
<1>3. ASSUME RowsOK', HistoryOK', Kept, EntryStep, EntriesName,
             NEW l \in {"idle", "promote", "enqueue", "submit", "start", "fail"},
             Continue(h, l, t, None) \/ (l = "idle" /\ Continue(h, l, None, None))
      PROVE  Base'
  <2>1. /\ api' \in [Handler -> Requests]
        /\ api'[h].pc = l
        /\ api'[h].task = IF l = "idle" THEN None ELSE t
        /\ \A g \in Handler : g # h => api'[g] = api[g]
    BY <1>0, <1>1, <1>3, ContinueMoves, IdleMoves
  <2>2. status'[t] # "absent"
    BY <1>1, <1>3 DEF Exists, Kept
  <2>3. ApiOK' /\ \A g \in Handler : api'[g].task # None => status'[api'[g].task] # "absent"
    BY <1>1, <1>3, <2>1, <2>2, ApiKept
  <2>4. QED BY <1>2, <1>3, <2>3, BaseIntro
<1>4. CASE Promote(h)
  <2>1. RowsOK' /\ Kept
    BY <1>0, <1>1, <1>4, SetTaskType DEF Promote, RowsOK, Kept, Statuses, t
  <2>2. EntryStep /\ EntriesName
    BY <1>4, <2>1, EntriesClosed DEF Promote
  <2>3. HistoryOK' BY <1>0, <1>4 DEF Promote, HistoryOK
  <2>4. QED BY <1>3, <1>4, <2>1, <2>2, <2>3 DEF Promote, t
<1>5. CASE Give(h)
  <2>1. api[h].agent \in Agent \cup {None}
    BY <1>0 DEF ApiOK, Requests
  <2>2. SetTask(t, "IN_PROGRESS", api[h].seen)
    BY <1>5 DEF Give, t
  <2>3. /\ status' \in [Task -> Statuses \cup {"absent"}] /\ status'[t] # "absent"
        /\ \A u \in Task : u # t => status'[u] = status[u]
    BY <1>0, <1>1, <2>2, SetTaskType DEF Statuses
  <2>4. RowsOK' /\ Kept
    BY <1>0, <1>1, <1>5, <2>1, <2>3, LifecycleAssumption DEF Give, RowsOK, Kept, t
  <2>5. EntryStep /\ EntriesName
    BY <1>5, <2>4, EntriesClosed DEF Give
  <2>6. HistoryOK' BY <1>0, <1>5 DEF Give, HistoryOK
  <2>7. QED BY <1>3, <1>5, <2>4, <2>5, <2>6 DEF Give, t
<1>6. CASE Enqueue(h)
  <2>1. Kept BY <1>6 DEF Enqueue, Kept
  <2>2. EntryStep /\ EntriesName /\ entry' \in [Entry -> Task \cup {None}]
        /\ orphaned' \subseteq Task /\ faults' \in 0 .. FaultBound
    BY <1>1, <1>6, <2>1, EnqueueKeeps DEF Enqueue, t
  <2>3. RowsOK' /\ HistoryOK'
    BY <1>0, <1>6, <2>2 DEF Enqueue, RowsOK, HistoryOK
  <2>4. QED BY <1>3, <1>6, <2>1, <2>2, <2>3 DEF Enqueue
<1>7. CASE Submit(h)
  <2>1. Kept BY <1>7 DEF Submit, Kept
  <2>2. EntryStep /\ EntriesName /\ entry' \in [Entry -> Task \cup {None}]
    BY <1>1, <1>7, <2>1, EntriesAdded DEF Submit, t
  <2>3. RowsOK' /\ HistoryOK'
    BY <1>0, <1>7, <2>2 DEF Submit, RowsOK, HistoryOK
  <2>4. PICK l \in {"start", "idle"} : Continue(h, l, t, None)
    BY <1>7 DEF Submit, t
  <2>5. QED BY <1>3, <2>1, <2>2, <2>3, <2>4
<1>8. CASE Start(h)
  <2>1. RowsOK' /\ Kept
    BY <1>0, <1>1, <1>8, SetTaskType DEF Start, RowsOK, Kept, Statuses, t
  <2>2. EntryStep /\ EntriesName
    BY <1>8, <2>1, EntriesClosed DEF Start
  <2>3. HistoryOK' BY <1>0, <1>8 DEF Start, HistoryOK
  <2>4. QED BY <1>3, <1>8, <2>1, <2>2, <2>3 DEF Start, t
<1>9. CASE FailCancelled(h)
  <2>1. RowsOK' /\ Kept
    BY <1>0, <1>1, <1>9, SetTaskType DEF FailCancelled, RowsOK, Kept, Statuses, t
  <2>2. EntryStep /\ EntriesName
    BY <1>9, <2>1, EntriesClosed DEF FailCancelled
  <2>3. HistoryOK' BY <1>0, <1>1, <1>9 DEF FailCancelled, HistoryOK, t
  <2>4. CASE assignee[t] = None
    BY <1>3, <1>9, <2>1, <2>2, <2>3, <2>4 DEF FailCancelled, t
  <2>5. CASE assignee[t] # None
    <3>1. assignee[t] \in Agent BY <1>0, <1>1, <2>5 DEF RowsOK
    <3>2. PICK a \in Agent : ContinueWith(h, "free", t, a, None)
      BY <1>9, <2>5, <3>1 DEF FailCancelled, t
    <3>3. /\ api' \in [Handler -> Requests]
          /\ api'[h].pc = "free" /\ api'[h].task = t /\ api'[h].agent = a
          /\ \A g \in Handler : g # h => api'[g] = api[g]
      BY <1>0, <1>1, <3>2, ContinueWithMoves
    <3>4. a # None BY LifecycleAssumption
    <3>5. status'[t] # "absent" BY <1>1, <2>1 DEF Exists, Kept
    <3>6. ApiOK' /\ \A g \in Handler : api'[g].task # None => status'[api'[g].task] # "absent"
      BY <1>1, <2>1, <3>3, <3>4, <3>5, ApiKept
    <3>7. QED BY <1>2, <2>1, <2>2, <2>3, <3>6, BaseIntro
  <2>6. QED BY <2>4, <2>5
<1>10. CASE Free(h)
  <2>1. RowsOK' /\ Kept
    BY <1>0, <1>10 DEF Free, RowsOK, Kept, AgentStatuses
  <2>2. EntryStep /\ EntriesName
    BY <1>10, <2>1, EntriesClosed DEF Free
  <2>3. HistoryOK' BY <1>0, <1>10 DEF Free, HistoryOK
  <2>4. QED BY <1>3, <1>10, <2>1, <2>2, <2>3 DEF Free
<1>11. CASE Drop(h)
  <2>1. RowsOK' /\ Kept
    BY <1>0, <1>11 DEF Drop, RowsOK, Kept
  <2>2. EntryStep /\ EntriesName
    BY <1>11, <2>1, EntriesClosed DEF Drop
  <2>3. HistoryOK' BY <1>0, <1>1, <1>11, FaultType DEF Drop, HistoryOK, t
  <2>4. QED BY <1>3, <1>11, <2>1, <2>2, <2>3 DEF Drop
<1>12. QED BY <1>4, <1>5, <1>6, <1>7, <1>8, <1>9, <1>10, <1>11 DEF Serve

\* Executions.
LEMMA RunsSlotted ==
  ASSUME RunsOK, NEW s \in Slot, NEW r \in Runs, run' = [run EXCEPT ![s] = r],
         r.pc = "idle" => r = NoRun,
         r.pc # "idle" => r.task # None,
         r.pc \in Steps \ {"load", "ack"} => r.agent # None
  PROVE  RunsOK' /\ Slotted(s, r)
<1>1. Slotted(s, r) BY DEF RunsOK, Slotted
<1>2. run' \in [Slot -> Runs] BY DEF RunsOK
<1>3. QED BY <1>1, <1>2 DEF RunsOK, Slotted

LEMMA RunEnds ==
  ASSUME RunsOK, NEW s \in Slot, run' = [run EXCEPT ![s] = NoRun]
  PROVE  RunsOK' /\ Slotted(s, NoRun) /\ SlotStep
<1>1. /\ NoRun \in Runs /\ NoRun.pc = "idle" /\ NoRun.task = None /\ NoRun.entry = None
  BY DEF NoRun, Runs
<1>2. RunsOK' /\ Slotted(s, NoRun)
  BY <1>1, RunsSlotted DEF Steps, Early, Engaged
<1>3. QED BY <1>1, <1>2 DEF Slotted, SlotStep

LEMMA SlotBase ==
  ASSUME Base, Kept, RowsOK', RunsOK', HistoryOK', EntryStep, EntriesName, SlotStep,
         UNCHANGED api
  PROVE  Base'
BY ApiStays, BaseIntro

\* A step of an execution that changes no entry.
LEMMA QuietBase ==
  ASSUME Base, Kept, RowsOK', RunsOK', HistoryOK', SlotStep, UNCHANGED <<api, entry>>
  PROVE  Base'
BY EntriesClosed, SlotBase

LEMMA DeliverBase == ASSUME Base, NEW s \in Slot, NEW e \in Entry, Deliver(s, e) PROVE Base'
<1> USE DEF rows, history, counts
<1>0. RowsOK /\ RunsOK /\ ApiOK /\ HistoryOK BY Named
<1> DEFINE r == [NoRun EXCEPT !.pc = "load", !.task = entry[e], !.entry = e]
<1>1. run' = [run EXCEPT ![s] = r] /\ entry[e] \in Task
  BY <1>0 DEF Deliver, RowsOK
<1>2. r \in Runs /\ r.pc = "load" /\ r.task = entry[e] /\ r.entry = e
  BY <1>1 DEF NoRun, Runs, Steps, Early
<1> HIDE DEF r
<1>3. RunsOK' /\ Slotted(s, r)
  BY <1>0, <1>1, <1>2, RunsSlotted, LifecycleAssumption
<1>4. Kept /\ RowsOK' /\ HistoryOK'
  BY <1>0, LifecycleAssumption DEF Deliver, RowsOK, HistoryOK, Kept
<1>5. ApiOK' /\ \A g \in Handler : api'[g].task # None => status'[api'[g].task] # "absent"
  BY <1>4, ApiStays DEF Deliver
<1>6. EntryStep /\ EntriesName
  BY <1>4, EntriesClosed DEF Deliver
<1>7. UNCHANGED <<status, entry>> BY DEF Deliver
<1>8. EntriesHeld'
  BY <1>1, <1>2, <1>3, <1>7 DEF Base, EntriesHeld, Slotted
<1>9. \A q \in Slot : run'[q].task # None => status'[run'[q].task] # "absent"
  BY <1>1, <1>2, <1>3, <1>7, LifecycleAssumption DEF Base, RowsExist, Exists, Slotted
<1>10. QED
  BY <1>3, <1>4, <1>5, <1>6, <1>8, <1>9 DEF Base, TypeOK, RowsExist, Exists, EntriesName

LEMMA ExecuteBase == ASSUME Base, NEW s \in Slot, NEW t \in Task, Execute(s, t) PROVE Base'
<1> USE DEF rows, losses, history, counts
<1>0. RowsOK /\ RunsOK /\ ApiOK /\ HistoryOK BY Named
<1> DEFINE r == [NoRun EXCEPT !.pc = "load", !.task = t]
<1>1. run' = [run EXCEPT ![s] = r]
  BY DEF Execute
<1>2. r \in Runs /\ r.pc = "load" /\ r.task = t /\ r.entry = None
  BY DEF NoRun, Runs, Steps, Early
<1> HIDE DEF r
<1>3. RunsOK' /\ Slotted(s, r)
  BY <1>0, <1>1, <1>2, RunsSlotted, LifecycleAssumption
<1>4. Kept /\ RowsOK' /\ HistoryOK'
  BY <1>0, CallType DEF Execute, RowsOK, HistoryOK, Kept
<1>5. ApiOK' /\ \A g \in Handler : api'[g].task # None => status'[api'[g].task] # "absent"
  BY <1>4, ApiStays DEF Execute
<1>6. EntryStep /\ EntriesName
  BY <1>4, EntriesClosed DEF Execute
<1>7. UNCHANGED <<status, entry>> /\ Exists(t) BY DEF Execute
<1>8. EntriesHeld'
  BY <1>2, <1>3, <1>7 DEF Base, EntriesHeld, Slotted
<1>9. \A q \in Slot : run'[q].task # None => status'[run'[q].task] # "absent"
  BY <1>2, <1>3, <1>7 DEF Base, RowsExist, Exists, Slotted
<1>10. QED
  BY <1>3, <1>4, <1>5, <1>6, <1>8, <1>9 DEF Base, TypeOK, RowsExist, Exists, EntriesName

LEMMA LoadMoves ==
  ASSUME Base, NEW s \in Slot, Load(s)
  PROVE  /\ RunsOK' /\ SlotStep
         /\ run'[s].task = run[s].task /\ run'[s].entry = run[s].entry
         /\ run'[s].pc = IF assignee[run[s].task] = None THEN "ack" ELSE "begin"
         /\ \A q \in Slot : q # s => run'[q] = run[q]
<1>0. RowsOK /\ RunsOK BY Named
<1> DEFINE t == run[s].task
<1> DEFINE a == assignee[t]
<1>1. run[s] \in Runs /\ run[s].pc = "load" /\ t \in Task /\ status[t] \in Statuses
  BY <1>0, Named DEF Load, RunsOK
<1>2. PICK r \in Runs : /\ run' = [run EXCEPT ![s] = r]
                        /\ r.pc = IF a = None THEN "ack" ELSE "begin"
                        /\ r.pc = "begin" => r.agent # None
                        /\ r.task = run[s].task /\ r.entry = run[s].entry
  <2>1. CASE a = None
    <3> DEFINE r == [run[s] EXCEPT !.pc = "ack"]
    <3>1. run' = [run EXCEPT ![s] = r]
      BY <1>0, <2>1 DEF Load, RunsOK
    <3>2. r \in Runs /\ r.pc = "ack" /\ r.task = run[s].task /\ r.entry = run[s].entry
      BY <1>1 DEF Runs, Steps
    <3> HIDE DEF r
    <3>3. QED BY <2>1, <3>1, <3>2
  <2>2. CASE a # None
    <3> DEFINE r == [run[s] EXCEPT !.pc = "begin", !.agent = a, !.seen = status[t],
                                   !.seenAgent = agentStatus[a]]
    <3>1. run' = [run EXCEPT ![s] = r]
      BY <1>0, <2>2 DEF Load, RunsOK
    <3>2. a \in Agent BY <1>0, <1>1, <2>2 DEF RowsOK
    <3>3. agentStatus[a] \in AgentStatuses BY <1>0, <3>2 DEF RowsOK
    <3>4. /\ r \in Runs /\ r.pc = "begin" /\ r.agent = a
          /\ r.task = run[s].task /\ r.entry = run[s].entry
      BY <1>1, <3>2, <3>3 DEF Runs, Steps, Early
    <3> HIDE DEF r
    <3>5. QED BY <2>2, <3>1, <3>4
  <2>3. QED BY <2>1, <2>2
<1>3. RunsOK' /\ Slotted(s, r)
  <2>1. r.task # None BY <1>0, <1>1, <1>2 DEF RunsOK
  <2>2. QED BY <1>0, <1>2, <2>1, RunsSlotted
<1>4. QED BY <1>2, <1>3 DEF Slotted, SlotStep

\* The steps of an execution that keeps its slot.
LEMMA Advance ==
  ASSUME Base, NEW s \in Slot, Perform(s) \/ Raise(s) \/ Abort(s), ~ Load(s), ~ Ack(s)
  PROVE  /\ \E l \in Steps : Moved(s, l)
         /\ Observe(s) \/ run'[s].seenAgent = run[s].seenAgent
<1>0. RowsOK /\ RunsOK BY Named
<1> DEFINE t == run[s].task
<1>1. run[s].pc \in Steps \ {"load", "ack"} \/ Abort(s)
  BY DEF Perform, Begin, Requeue, Engage, Observe, Succeed, Remember, Poison, Fail, Release,
         Raise, Steps, Early, Engaged
<1>2. run[s].pc \in Steps
  BY <1>1 DEF Abort
<1>3. t \in Task /\ Exists(t) /\ status[t] \in Statuses
  BY <1>2, Named DEF Steps, Early, Engaged
<1>4. CASE Begin(s) \/ Engage(s) \/ Remember(s) \/ Poison(s) \/ Fail(s) \/ Release(s)
  <2>1. PICK l \in {"requeue", "observe", "release", "ack"} : Goto(s, l)
    BY <1>4 DEF Begin, Engage, Remember, Poison, Fail, Release
  <2>2. run[s].pc \notin {"load", "ack"}
    BY <1>4 DEF Begin, Engage, Remember, Poison, Fail, Release
  <2>3. l \in Steps BY DEF Steps, Early, Engaged
  <2>4. QED BY <1>0, <1>2, <2>1, <2>2, <2>3, GotoMoves
<1>5. CASE Raise(s)
  <2>1. PICK l \in {"release", "raised"} : Goto(s, l)
    BY <1>5 DEF Raise
  <2>2. run[s].pc \notin {"load", "ack"} BY <1>5 DEF Raise
  <2>3. l \in Steps BY DEF Steps, Engaged
  <2>4. QED BY <1>0, <1>2, <2>1, <2>2, <2>3, GotoMoves
<1>6. CASE Abort(s)
  <2>1. Goto(s, "ack") /\ "ack" \in Steps BY <1>6 DEF Abort, Steps
  <2>2. QED BY <1>0, <1>2, <2>1, GotoMoves
<1>7. CASE Requeue(s)
  <2>1. See(s, "engage", status[t]) /\ "engage" \in Steps BY <1>7 DEF Requeue, Steps
  <2>2. run[s].pc \in Steps \ {"load", "ack"} BY <1>2, <1>7 DEF Requeue
  <2>3. QED BY <1>0, <1>3, <2>1, <2>2, SeeMoves
<1>8. CASE Succeed(s)
  <2>1. See(s, "remember", status'[t]) /\ "remember" \in Steps BY <1>8 DEF Succeed, Steps, Engaged
  <2>2. run[s].pc \in Steps \ {"load", "ack"} BY <1>2, <1>8 DEF Succeed
  <2>3. SetTask(t, "DONE", run[s].seen) BY <1>8 DEF Succeed
  <2>4. status'[t] \in {"DONE", status[t]} BY <1>0, <1>3, <2>3, SetTaskType DEF Statuses
  <2>5. status'[t] \in Statuses BY <1>3, <2>4 DEF Statuses
  <2> DEFINE v == status'[t]
  <2>6. See(s, "remember", v) BY <2>1
  <2> HIDE DEF v
  <2>7. v \in Statuses BY <2>5 DEF v
  <2>8. QED BY <1>0, <1>3, <2>1, <2>2, <2>6, <2>7, SeeMoves
<1>9. CASE Observe(s)
  <2> DEFINE r == [run[s] EXCEPT !.pc = "work", !.seenAgent = agentStatus[run[s].agent]]
  <2>1. run' = [run EXCEPT ![s] = r] BY <1>0, <1>9 DEF Observe, RunsOK
  <2>2. run[s] \in Runs /\ run[s].pc = "observe" BY <1>0, <1>9 DEF RunsOK, Observe
  <2>3. run[s].agent \in Agent BY <2>2, Named DEF Steps, Engaged
  <2>4. agentStatus[run[s].agent] \in AgentStatuses BY <1>0, <2>3 DEF RowsOK
  <2>5. /\ r \in Runs /\ r.pc = "work" /\ r.agent = run[s].agent
        /\ r.task = t /\ r.entry = run[s].entry
    BY <2>2, <2>4 DEF Runs, Steps, Engaged
  <2> HIDE DEF r
  <2>6. r.task # None /\ r.agent # None BY <1>3, <2>3, <2>5, LifecycleAssumption
  <2>7. RunsOK' /\ Slotted(s, r) BY <1>0, <2>1, <2>5, <2>6, RunsSlotted
  <2>8. Moved(s, "work") /\ "work" \in Steps BY <2>5, <2>7 DEF Moved, Slotted, Steps, Engaged
  <2>9. QED BY <1>9, <2>8
<1>10. QED BY <1>4, <1>5, <1>6, <1>7, <1>8, <1>9 DEF Perform

LEMMA PerformBase == ASSUME Base, NEW s \in Slot, Perform(s) PROVE Base'
<1> USE DEF rows, losses, history, counts
<1>0. RowsOK /\ RunsOK /\ ApiOK /\ HistoryOK BY Named
<1> DEFINE t == run[s].task
<1>1. t \in Task /\ Exists(t) /\ run[s].pc \in Steps
  <2>1. run[s].pc # "idle"
    BY DEF Perform, Load, Begin, Requeue, Engage, Observe, Succeed, Remember, Poison, Fail,
           Release, Ack
  <2>2. QED BY <2>1, Named
<1>2. CASE Load(s)
  <2>1. Kept /\ RowsOK' /\ HistoryOK' BY <1>0, <1>2 DEF Load, Kept, RowsOK, HistoryOK
  <2>2. QED BY <1>2, <2>1, LoadMoves, QuietBase DEF Load
<1>3. CASE Ack(s)
  <2>1. run' = [run EXCEPT ![s] = NoRun] /\ Kept BY <1>3 DEF Ack, Kept
  <2>2. RunsOK' /\ SlotStep BY <1>0, <2>1, RunEnds
  <2>3. /\ \A e \in Entry : entry'[e] \in {entry[e], None}
        /\ entry' \in [Entry -> Task \cup {None}]
    BY <1>0, <1>3 DEF Ack, RowsOK
  <2>4. RowsOK' /\ HistoryOK' BY <1>0, <1>3, <2>3 DEF Ack, RowsOK, HistoryOK
  <2>5. QED BY <1>3, <2>1, <2>2, <2>3, <2>4, EntriesClosed, SlotBase DEF Ack
<1>4. CASE ~ Load(s) /\ ~ Ack(s)
  <2>1. RunsOK' /\ SlotStep BY <1>4, Advance, MovedStep
  <2>2. run[s].pc \in Steps \ {"load", "ack"}
    BY <1>1, <1>4 DEF Perform, Begin, Requeue, Engage, Observe, Succeed, Remember, Poison, Fail,
                      Release
  <2>3. run[s].agent \in Agent BY <2>2, Named
  <2>4. CASE Begin(s) \/ Succeed(s) \/ Fail(s)
    <3>1. PICK v \in {"IN_PROGRESS", "DONE", "FAILED"} : SetTask(t, v, run[s].seen)
      BY <2>4 DEF Begin, Succeed, Fail
    <3>2. v \in Statuses BY DEF Statuses
    <3>3. /\ status' \in [Task -> Statuses \cup {"absent"}]
          /\ status'[t] # "absent"
          /\ \A u \in Task : u # t => status'[u] = status[u]
      BY <1>0, <1>1, <3>1, <3>2, SetTaskType
    <3>4. UNCHANGED <<assignee, memory, agentStatus, entry, api, history, counts>>
      BY <2>4 DEF Begin, Succeed, Fail
    <3>5. Kept /\ RowsOK' /\ HistoryOK'
      BY <1>0, <3>3, <3>4 DEF Kept, RowsOK, HistoryOK
    <3>6. QED BY <2>1, <3>4, <3>5, QuietBase
  <2>5. CASE Engage(s) \/ Release(s)
    <3>1. PICK v \in {"WORKING", "IDLE"} : SetAgent(run[s].agent, v, run[s].seenAgent)
      BY <2>5 DEF Engage, Release
    <3>2. v \in AgentStatuses BY DEF AgentStatuses
    <3>3. agentStatus' \in [Agent -> AgentStatuses]
      BY <1>0, <2>3, <3>1, <3>2, SetAgentType
    <3>4. UNCHANGED <<status, assignee, memory, entry, api, history, counts>>
      BY <2>5 DEF Engage, Release
    <3>5. Kept /\ RowsOK' /\ HistoryOK'
      BY <1>0, <3>3, <3>4 DEF Kept, RowsOK, HistoryOK
    <3>6. QED BY <2>1, <3>4, <3>5, QuietBase
  <2>6. CASE Observe(s) \/ Remember(s) \/ Poison(s)
    <3>1. UNCHANGED <<status, assignee, agentStatus, entry, api>>
      BY <2>6 DEF Observe, Remember, Poison
    <3>2. memory' \subseteq Task
      BY <1>0, <1>1, <2>6 DEF Observe, Remember, Poison, RowsOK
    <3>3. HistoryOK'
      BY <1>0, <2>3, <2>6 DEF Observe, Remember, Poison, HistoryOK
    <3>4. Kept /\ RowsOK' BY <1>0, <3>1, <3>2 DEF Kept, RowsOK
    <3>5. QED BY <2>1, <3>1, <3>3, <3>4, QuietBase
  <2>7. CASE Requeue(s)
    <3>1. Kept /\ UNCHANGED api BY <2>7 DEF Requeue, Kept
    <3>2. EntryStep /\ EntriesName /\ entry' \in [Entry -> Task \cup {None}]
          /\ orphaned' \subseteq Task /\ faults' \in 0 .. FaultBound
      BY <1>1, <2>7, <3>1, EnqueueKeeps DEF Requeue
    <3>3. RowsOK' /\ HistoryOK'
      BY <1>0, <2>7, <3>2 DEF Requeue, RowsOK, HistoryOK
    <3>4. QED BY <2>1, <3>1, <3>2, <3>3, SlotBase
  <2>8. QED BY <1>4, <2>4, <2>5, <2>6, <2>7 DEF Perform
<1>5. QED BY <1>2, <1>3, <1>4

LEMMA LeaveBase ==
  ASSUME Base, NEW s \in Slot, Crash(s) \/ Interrupt(s) \/ Raise(s) \/ Abort(s) \/ AckLost(s)
  PROVE  Base'
<1> USE DEF rows, losses, history, counts
<1>0. RowsOK /\ RunsOK /\ ApiOK /\ HistoryOK BY Named
<1>1. run[s].pc \in Steps /\ run[s].task \in Task
  <2>1. run[s].pc # "idle" BY DEF Crash, Interrupt, Raise, Abort, AckLost, Steps, Early, Engaged
  <2>2. QED BY <2>1, Named
<1>2. /\ UNCHANGED <<rows, entry, api, poisoned, cancelled, calls, reclaims>>
      /\ Kept /\ RowsOK'
  BY <1>0 DEF Crash, Interrupt, Raise, Abort, AckLost, Kept, RowsOK
<1>3. run[s].pc \in Engaged => run[s].agent \in Agent
  BY <1>0, Named DEF Steps, Engaged, Early
<1>4. orphaned' \subseteq Task /\ stranded' \subseteq Agent
  BY <1>0, <1>1, <1>3 DEF Crash, Interrupt, Raise, Abort, AckLost, Orphans, Strands, HistoryOK
<1>5. crashes' \in 0 .. CrashBound /\ faults' \in 0 .. FaultBound
  <2>1. CASE UNCHANGED crashes /\ Fault BY <1>0, <2>1, FaultType DEF HistoryOK
  <2>2. CASE UNCHANGED faults /\ crashes < CrashBound /\ crashes' = crashes + 1
    BY <1>0, <2>2, LifecycleAssumption DEF HistoryOK
  <2>3. QED BY <2>1, <2>2 DEF Crash, Interrupt, Raise, Abort, AckLost
<1>6. HistoryOK' BY <1>0, <1>2, <1>4, <1>5 DEF HistoryOK
<1>7. RunsOK' /\ SlotStep
  <2>1. CASE Crash(s) \/ AckLost(s)
    <3>1. run' = [run EXCEPT ![s] = NoRun] BY <2>1 DEF Crash, AckLost
    <3>2. QED BY <1>0, <3>1, RunEnds
  <2>2. CASE Raise(s) \/ Abort(s)
    <3>1. ~ Load(s) /\ ~ Ack(s)
      BY <1>0, <2>2, LifecycleAssumption DEF Load, Ack, Raise, Abort, Fault, HistoryOK
    <3>2. QED BY <2>2, <3>1, Advance, MovedStep
  <2>3. CASE Interrupt(s)
    <3> DEFINE r == [run[s] EXCEPT !.pc = "release", !.entry = None]
    <3>1. run' = [run EXCEPT ![s] = r] /\ run[s] \in Runs BY <1>0, <2>3 DEF Interrupt, RunsOK
    <3>2. /\ r \in Runs /\ r.pc = "release" /\ r.agent = run[s].agent
          /\ r.task = run[s].task /\ r.entry = None
      BY <3>1 DEF Runs, Steps, Engaged
    <3> HIDE DEF r
    <3>3. run[s].agent \in Agent BY <1>3, <2>3 DEF Interrupt, Engaged
    <3>4. RunsOK' /\ Slotted(s, r)
      BY <1>0, <1>1, <3>1, <3>2, <3>3, RunsSlotted, LifecycleAssumption
    <3>5. QED BY <3>2, <3>4 DEF Slotted, SlotStep
  <2>4. QED BY <2>1, <2>2, <2>3
<1>8. QED BY <1>2, <1>6, <1>7, QuietBase

LEMMA SetAgentStatusBase ==
  ASSUME Base, NEW a \in Agent, NEW v \in AgentStatuses, SetAgentStatus(a, v) PROVE Base'
<1>0. RowsOK /\ RunsOK /\ HistoryOK BY Named
<1>1. Kept /\ RowsOK' BY <1>0 DEF SetAgentStatus, Kept, RowsOK
<1>2. HistoryOK' BY <1>0, CallType DEF SetAgentStatus, HistoryOK
<1>3. RunsOK' /\ SlotStep BY SlotsStay DEF SetAgentStatus
<1>4. QED BY <1>1, <1>2, <1>3, QuietBase DEF SetAgentStatus

LEMMA InitBase == Init => Base
BY LifecycleAssumption
   DEF Init, Base, TypeOK, RowsOK, RunsOK, ApiOK, HistoryOK, RowsExist, EntriesHeld, NoRun, Runs,
       NoRequest, Requests, Steps, Early, Engaged, Exists, Statuses, AgentStatuses

LEMMA BaseStep == Base /\ [Next]_vars => Base'
<1> SUFFICES ASSUME Base, [Next]_vars PROVE Base'
  OBVIOUS
<1>1. CASE UNCHANGED vars
  BY <1>1 DEF vars, Base, TypeOK, RowsOK, RunsOK, ApiOK, HistoryOK, RowsExist, EntriesHeld, Exists
<1>2. CASE Next
  BY <1>2, NewRequestBase, ServeBase, SetAgentStatusBase, DeliverBase, ExecuteBase, PerformBase,
     LeaveBase DEF Next
<1>3. QED BY <1>1, <1>2

\* Every reachable state has the types of TypeOK: an execution keeps an agent
\* from the time it has begun, an idle slot keeps nothing, a request about to
\* free an agent finds one.
THEOREM TypeCorrect == Spec => []TypeOK
<1>1. Spec => []Base BY InitBase, BaseStep, PTL DEF Spec
<1>2. Base => TypeOK BY DEF Base
<1>3. QED BY <1>1, <1>2, PTL

-----------------------------------------------------------------------------
(* QueueFed.  Promised is kept once a task has an agent; what makes a task  *)
(* owed makes it promised.                                                 *)

\* An entry that nobody holds after the step, or a loss on record.
LEMMA Fed ==
  ASSUME Base, NEW t \in Task, Add(t) \/ EnqueueTask(t),
         \A s \in Slot : run'[s].entry = run[s].entry
  PROVE  /\ Promised(t)'
         /\ \A e \in Entry : entry[e] # None => entry'[e] = entry[e]
         /\ \A s \in Slot : entry'[run[s].entry] = entry[run[s].entry] \/ run[s].entry = None
<1>0. RowsOK /\ RunsOK BY Named
<1>1. CASE Add(t)
  <2>1. PICK e \in Entry : /\ entry[e] = None /\ entry'[e] = t
                           /\ \A s \in Slot : run[s].entry # e
                           /\ \A f \in Entry : f # e => entry'[f] = entry[f]
    BY <1>0, <1>1, Added
  <2>2. \A s \in Slot : run[s].entry \in Entry \cup {None} BY <1>0 DEF RunsOK, Runs
  <2>3. QED BY <2>1, <2>2 DEF Promised
<1>2. CASE orphaned' = orphaned \cup {t} /\ UNCHANGED entry
  BY <1>2 DEF Promised
<1>3. QED BY <1>1, <1>2 DEF EnqueueTask

\* A handler's step: task t is promised after it, or is owed no more than before.
LEMMA HandlerFed ==
  ASSUME Base, QueueFed, NEW h \in Handler, NEW t \in Task,
         UNCHANGED run, orphaned \subseteq orphaned',
         \A e \in Entry : entry[e] # None => entry'[e] = entry[e],
         \A g \in Handler : g # h => api'[g] = api[g],
         assignee'[t] # None,
         \/ Promised(t)'
         \/ /\ assignee[t] # None
            /\ status'[t] = "IN_PROGRESS" => Owed(t)
            /\ api'[h].task = t => api'[h].pc # "start"
            /\ api[h].task = t => api[h].pc # "enqueue"
         \/ ~ Exists(t) /\ status'[t] # "IN_PROGRESS" /\ api'[h].pc # "start"
  PROVE  Owed(t)' => Promised(t)'
<1>0. \A s \in Slot : run[s].entry \in Entry \cup {None}
  BY Named DEF RunsOK, Runs
<1>1. t # None BY LifecycleAssumption
<1>2. CASE /\ assignee[t] # None
           /\ status'[t] = "IN_PROGRESS" => Owed(t)
           /\ api'[h].task = t => api'[h].pc # "start"
           /\ api[h].task = t => api[h].pc # "enqueue"
  <2>1. ASSUME NEW s \in Slot, Spent(s)' PROVE Spent(s)
    BY <1>0, <2>1 DEF Spent
  <2>2. Owed(t)' => Owed(t)
    BY <1>2, <2>1 DEF Owed
  <2>3. Promised(t) => Promised(t)'
    BY <1>1, <1>2 DEF Promised
  <2>4. QED BY <1>2, <2>2, <2>3 DEF QueueFed
<1>3. CASE ~ Exists(t) /\ status'[t] # "IN_PROGRESS" /\ api'[h].pc # "start"
  <2>1. \A g \in Handler : g # h => api'[g].task # t
    BY <1>1, <1>3 DEF Base, RowsExist
  <2>2. \A s \in Slot : run'[s].task # t
    BY <1>1, <1>3 DEF Base, RowsExist
  <2>3. QED BY <1>3, <2>1, <2>2 DEF Owed
<1>4. QED BY <1>2, <1>3

\* A request that now goes on to "enqueue" is a promise.
LEMMA Asked ==
  ASSUME ApiOK, NEW h \in Handler, NEW t \in Task, Continue(h, "enqueue", t, None)
  PROVE  Promised(t)'
<1>1. api'[h].pc = "enqueue" /\ api'[h].task = t
  BY ContinueMoves
<1>2. QED BY <1>1 DEF Promised

LEMMA NewRequestFed ==
  ASSUME Base, QueueFed, NEW h \in Handler, NewRequest(h) PROVE QueueFed'
<1> USE DEF rows, losses, history, counts
<1>0. RowsOK /\ RunsOK /\ ApiOK /\ HistoryOK BY Named
<1>1. PICK u \in Task : \/ \E a \in Agent \cup {None} : Create(h, u, a)
                        \/ \E a \in Agent : Assign(h, u, a)
                        \/ \E v \in Statuses : SetStatus(h, u, v)
                        \/ Run(h, u) \/ SubmitTask(h, u) \/ Cancel(h, u)
  BY DEF NewRequest
<1>2. /\ UNCHANGED <<run, orphaned, entry>> /\ api[h].pc = "idle"
  BY <1>1 DEF Create, Assign, SetStatus, Run, SubmitTask, Cancel, Ask, Request
<1>3. ASSUME NEW t \in Task, assignee'[t] # None
      PROVE  Owed(t)' => Promised(t)'
  <2>1. CASE \E a \in Agent \cup {None} : Create(h, u, a)
    <3>1. PICK a \in Agent \cup {None} : Create(h, u, a) BY <2>1
    <3> DEFINE l == IF a = None THEN "idle" ELSE "promote"
    <3>2. Continue(h, l, u, None) /\ l \in {"idle", "promote"} BY <3>1 DEF Create
    <3> HIDE DEF l
    <3>3. api'[h].pc = l /\ \A g \in Handler : g # h => api'[g] = api[g]
      BY <1>0, <3>2, ContinueMoves
    <3>4. /\ ~ Exists(u)
          /\ status' = [status EXCEPT ![u] = "BACKLOG"]
          /\ assignee' = [assignee EXCEPT ![u] = a]
      BY <3>1 DEF Create
    <3>5. t = u => status'[t] # "IN_PROGRESS" BY <1>0, <3>4 DEF RowsOK
    <3>6. t # u => status'[t] = status[t] /\ assignee'[t] = assignee[t]
      BY <1>0, <3>4 DEF RowsOK
    <3>7. status[t] = "IN_PROGRESS" => Owed(t) BY DEF Owed
    <3>8. QED BY <1>2, <1>3, <3>2, <3>3, <3>4, <3>5, <3>6, <3>7, HandlerFed
  <2>2. CASE \E v \in Statuses : SetStatus(h, u, v)
    <3>1. PICK v \in Statuses : SetStatus(h, u, v) BY <2>2
    <3> DEFINE l == IF v = "IN_PROGRESS" /\ assignee[u] # None THEN "enqueue" ELSE "idle"
    <3>2. Continue(h, l, u, None) /\ l \in {"idle", "enqueue"} BY <3>1 DEF SetStatus
    <3>3. api'[h].pc = l /\ \A g \in Handler : g # h => api'[g] = api[g]
      BY <1>0, <3>2, ContinueMoves
    <3>4. status' = [status EXCEPT ![u] = v] /\ UNCHANGED assignee BY <3>1 DEF SetStatus
    <3>5. CASE t = u /\ v = "IN_PROGRESS"
      <4>1. Continue(h, "enqueue", t, None) BY <1>3, <3>2, <3>4, <3>5
      <4>2. QED BY <1>0, <4>1, Asked
    <3>6. CASE ~ (t = u /\ v = "IN_PROGRESS")
      <4>1. status'[t] = "IN_PROGRESS" => Owed(t) BY <1>0, <3>4, <3>6 DEF RowsOK, Owed
      <4>2. QED BY <1>2, <1>3, <3>2, <3>3, <3>4, <4>1, HandlerFed
    <3>7. QED BY <3>5, <3>6
  <2>3. CASE (\E a \in Agent : Assign(h, u, a)) \/ Run(h, u) \/ SubmitTask(h, u) \/ Cancel(h, u)
    <3>1. UNCHANGED <<status, assignee>> /\ Exists(u)
      BY <2>3 DEF Assign, Run, SubmitTask, Cancel, Exists
    <3>2. status[u] \in Statuses BY <3>1, Named
    <3>3. /\ api'[h].pc \in {"assign", "submit", "fail"}
          /\ \A g \in Handler : g # h => api'[g] = api[g]
      <4>1. CASE \E a \in Agent : Assign(h, u, a)
        <5>1. PICK a \in Agent \cup {None} : ContinueWith(h, "assign", u, a, status[u])
          BY <4>1 DEF Assign
        <5>2. QED BY <1>0, <3>2, <5>1, ContinueWithMoves
      <4>2. CASE Run(h, u) \/ SubmitTask(h, u) \/ Cancel(h, u)
        <5>1. PICK l \in {"submit", "fail"}, v \in Statuses \cup {None} : Continue(h, l, u, v)
          BY <3>2, <4>2 DEF Run, SubmitTask, Cancel
        <5>2. QED BY <1>0, <5>1, ContinueMoves
      <4>3. QED BY <2>3, <4>1, <4>2
    <3>4. status[t] = "IN_PROGRESS" => Owed(t) BY DEF Owed
    <3>5. QED BY <1>2, <1>3, <3>1, <3>3, <3>4, HandlerFed
  <2>4. QED BY <1>1, <2>1, <2>2, <2>3
<1>4. QED BY <1>3 DEF QueueFed

LEMMA ServeFed ==
  ASSUME Base, QueueFed, NEW h \in Handler, Serve(h) \/ Drop(h) PROVE QueueFed'
<1> USE DEF rows, losses, history, counts
<1>0. RowsOK /\ RunsOK /\ ApiOK /\ HistoryOK BY Named
<1>1. PICK u \in Task : /\ u = api[h].task /\ Exists(u)
                        /\ UNCHANGED run /\ orphaned \subseteq orphaned'
  <2>1. api[h].pc # "idle" /\ UNCHANGED run /\ orphaned \subseteq orphaned'
    BY DEF Serve, Drop, Promote, Give, Enqueue, EnqueueTask, Submit, Start, FailCancelled, Free
  <2>2. QED BY <2>1, Named
<1>2. \A t \in Task : status[t] = "IN_PROGRESS" => Owed(t) BY DEF Owed
<1>3. ASSUME NEW l \in {"idle", "promote", "enqueue", "submit", "start", "fail", "free"},
             Continue(h, l, u, None) \/ (l = "idle" /\ Continue(h, l, None, None))
      PROVE  /\ api'[h].pc = l
             /\ api'[h].task = IF l = "idle" THEN None ELSE u
             /\ \A g \in Handler : g # h => api'[g] = api[g]
  BY <1>0, <1>1, <1>3, ContinueMoves, IdleMoves
<1>4. ASSUME NEW t \in Task, assignee'[t] # None
      PROVE  Owed(t)' => Promised(t)'
  <2>1. CASE Promote(h) \/ Give(h)
    <3>1. Continue(h, "enqueue", u, None) /\ UNCHANGED entry
      BY <1>1, <2>1 DEF Promote, Give
    <3>2. CASE t = u BY <1>0, <3>1, <3>2, Asked
    <3>3. CASE t # u
      <4>1. status'[t] = status[t] /\ assignee'[t] = assignee[t]
        BY <1>0, <1>1, <2>1, <3>3 DEF Promote, Give, SetTask, RowsOK
      <4>2. \A g \in Handler : g # h => api'[g] = api[g] BY <1>3, <3>1
      <4>3. api'[h].pc # "start" BY <1>3, <3>1
      <4>4. QED BY <1>1, <1>2, <1>4, <3>1, <3>3, <4>1, <4>2, <4>3, HandlerFed
    <3>4. QED BY <3>2, <3>3
  <2>2. CASE Enqueue(h)
    <3>1. EnqueueTask(u) /\ Continue(h, "idle", None, None) /\ UNCHANGED <<status, assignee>>
      BY <1>1, <2>2 DEF Enqueue
    <3>2. Promised(u)' /\ \A e \in Entry : entry[e] # None => entry'[e] = entry[e]
      BY <1>1, <3>1, Fed
    <3>3. api'[h].pc # "start" /\ \A g \in Handler : g # h => api'[g] = api[g]
      BY <1>3, <3>1
    <3>4. CASE t = u BY <3>2, <3>4
    <3>5. CASE t # u
      BY <1>1, <1>2, <1>4, <3>1, <3>2, <3>3, <3>5, HandlerFed
    <3>6. QED BY <3>4, <3>5
  <2>3. CASE Submit(h)
    <3>1. PICK l \in {"start", "idle"} : Continue(h, l, u, None)
      BY <1>1, <2>3 DEF Submit
    <3>2. Add(u) /\ UNCHANGED <<status, assignee>>
      BY <1>1, <2>3 DEF Submit
    <3>3. Promised(u)' /\ \A e \in Entry : entry[e] # None => entry'[e] = entry[e]
      BY <1>1, <3>2, Fed
    <3>4. /\ api'[h].pc = l /\ api'[h].task \in {None, u}
          /\ \A g \in Handler : g # h => api'[g] = api[g]
      BY <1>3, <3>1
    <3>5. CASE t = u BY <3>3, <3>5
    <3>6. CASE t # u
      <4>1. api'[h].task # t BY <3>4, <3>6, LifecycleAssumption
      <4>2. QED BY <1>1, <1>2, <1>4, <3>2, <3>3, <3>4, <3>6, <4>1, HandlerFed
    <3>7. QED BY <3>5, <3>6
  <2>4. CASE Start(h)
    <3>1. Continue(h, "idle", None, None) /\ UNCHANGED <<assignee, entry>>
      BY <2>4 DEF Start
    <3>2. api'[h].pc # "start" /\ \A g \in Handler : g # h => api'[g] = api[g]
      BY <1>3, <3>1
    <3>3. status'[t] = "IN_PROGRESS" => Owed(t)
      BY <1>0, <1>1, <2>4 DEF Start, SetTask, RowsOK, Owed
    <3>4. api[h].pc # "enqueue" BY <2>4 DEF Start
    <3>5. QED BY <1>1, <1>4, <3>1, <3>2, <3>3, <3>4, HandlerFed
  <2>5. CASE FailCancelled(h) \/ Free(h)
    <3>2. api'[h].pc # "start" /\ \A g \in Handler : g # h => api'[g] = api[g]
      <4>1. CASE Continue(h, "idle", None, None) BY <1>3, <4>1
      <4>2. CASE ~ Continue(h, "idle", None, None)
        <5>1. assignee[u] # None /\ ContinueWith(h, "free", u, assignee[u], None)
          BY <1>1, <2>5, <4>2 DEF FailCancelled, Free
        <5>2. assignee[u] \in Agent BY <1>0, <1>1, <5>1 DEF RowsOK
        <5>3. PICK a \in Agent : ContinueWith(h, "free", u, a, None) BY <5>1, <5>2
        <5>4. QED BY <1>0, <1>1, <5>3, ContinueWithMoves
      <4>3. QED BY <4>1, <4>2
    <3>3. UNCHANGED <<assignee, entry>> /\ api[h].pc # "enqueue"
      BY <2>5 DEF FailCancelled, Free
    <3>4. status'[t] = "IN_PROGRESS" => Owed(t)
      BY <1>0, <1>1, <2>5 DEF FailCancelled, Free, SetTask, RowsOK, Owed
    <3>5. QED BY <1>1, <1>4, <3>2, <3>3, <3>4, HandlerFed
  <2>6. CASE Drop(h)
    <3>1. Continue(h, "idle", None, None) /\ UNCHANGED <<status, assignee, entry>>
      BY <2>6 DEF Drop
    <3>2. api'[h].pc # "start" /\ \A g \in Handler : g # h => api'[g] = api[g]
      BY <1>3, <3>1
    <3>3. CASE api[h].pc = "enqueue" /\ t = u
      BY <1>1, <2>6, <3>3 DEF Drop, Promised
    <3>4. CASE ~ (api[h].pc = "enqueue" /\ t = u)
      BY <1>1, <1>2, <1>4, <3>1, <3>2, <3>4, HandlerFed
    <3>5. QED BY <3>3, <3>4
  <2>7. QED BY <2>1, <2>2, <2>3, <2>4, <2>5, <2>6 DEF Serve
<1>5. QED BY <1>4 DEF QueueFed

\* A step of a handler that was not about to enqueue t keeps what is promised.
LEMMA HandlerKeeps ==
  ASSUME NEW h \in Handler, NEW t \in Task,
         UNCHANGED run, orphaned \subseteq orphaned',
         \A e \in Entry : entry[e] # None => entry'[e] = entry[e],
         \A g \in Handler : g # h => api'[g] = api[g],
         api[h].task = t => api[h].pc # "enqueue",
         Promised(t)
  PROVE  Promised(t)'
BY LifecycleAssumption DEF Promised

\* A step of execution s keeps what is promised: it closes no entry before it has
\* enqueued its task again, and is not itself the promise.
LEMMA SlotKeeps ==
  ASSUME Base, NEW s \in Slot, NEW t \in Task,
         UNCHANGED api, orphaned \subseteq orphaned',
         \A q \in Slot : q # s => run'[q] = run[q],
         \A e \in Entry : \/ entry'[e] = entry[e]
                          \/ entry[e] = None
                          \/ run[s].entry = e /\ run[s].pc \notin Early,
         run'[s].entry # None =>
           \/ run'[s].pc \in Early
           \/ run'[s].entry = run[s].entry /\ run[s].pc \notin Early
           \/ run'[s].entry = run[s].entry /\ run[s].task # t,
         ~ (run[s].task = t /\ run[s].entry = None /\ run[s].pc = "requeue"),
         Promised(t)
  PROVE  Promised(t)'
<1>1. t # None BY LifecycleAssumption
<1>2. ASSUME NEW e \in Entry, entry[e] = t,
             \A q \in Slot : run[q].entry = e => run[q].pc \in Early
      PROVE  Promised(t)'
  <2>1. entry'[e] = t BY <1>1, <1>2
  <2>2. ASSUME NEW q \in Slot, run'[q].entry = e PROVE run'[q].pc \in Early
    <3>1. CASE q # s BY <1>2, <2>2, <3>1
    <3>2. CASE q = s
      <4>1. run[s].entry = e => run[s].task = t
        BY <1>1, <1>2, LifecycleAssumption DEF Base, EntriesHeld
      <4>2. QED BY <1>2, <2>2, <3>2, <4>1, LifecycleAssumption
    <3>3. QED BY <3>1, <3>2
  <2>3. QED BY <2>1, <2>2 DEF Promised
<1>3. ASSUME NEW q \in Slot, run[q].task = t, run[q].entry = None, run[q].pc = "requeue"
      PROVE  Promised(t)'
  BY <1>3 DEF Promised
<1>4. QED BY <1>2, <1>3 DEF Promised

\* A step of execution s: what it takes to keep every promise and to owe no
\* more than was owed.
LEMMA SlotFed ==
  ASSUME Base, QueueFed, NEW s \in Slot, NEW t \in Task,
         UNCHANGED <<assignee, api>>, orphaned \subseteq orphaned',
         \A q \in Slot : q # s => run'[q] = run[q],
         \A e \in Entry : \/ entry'[e] = entry[e]
                          \/ entry[e] = None
                          \/ run[s].entry = e /\ run[s].pc \notin Early,
         assignee[t] # None,
         \/ Promised(t)'
         \/ /\ status'[t] = "IN_PROGRESS" => Owed(t)
            /\ run'[s].task = t /\ Spent(s)' => run[s].task = t /\ Spent(s)
            /\ run'[s].entry # None =>
                 \/ run'[s].pc \in Early
                 \/ run'[s].entry = run[s].entry /\ run[s].pc \notin Early
                 \/ run'[s].entry = run[s].entry /\ run[s].task # t
            /\ ~ (run[s].task = t /\ run[s].entry = None /\ run[s].pc = "requeue")
  PROVE  Owed(t)' => Promised(t)'
<1>0. \A q \in Slot : run[q].entry \in Entry \cup {None}
  BY Named DEF RunsOK, Runs
<1>1. CASE /\ status'[t] = "IN_PROGRESS" => Owed(t)
           /\ run'[s].task = t /\ Spent(s)' => run[s].task = t /\ Spent(s)
           /\ run'[s].entry # None =>
                \/ run'[s].pc \in Early
                \/ run'[s].entry = run[s].entry /\ run[s].pc \notin Early
                \/ run'[s].entry = run[s].entry /\ run[s].task # t
           /\ ~ (run[s].task = t /\ run[s].entry = None /\ run[s].pc = "requeue")
  <2>1. ASSUME NEW q \in Slot, q # s, run'[q].task = t, Spent(q)' PROVE Owed(t)
    <3>1. run'[q] = run[q] BY <2>1
    <3>2. CASE run[q].pc \notin Early BY <2>1, <3>1, <3>2 DEF Owed, Spent
    <3>3. CASE run[q].pc \in Early
      <4>1. run[q].entry \in Entry /\ entry'[run[q].entry] = None
        BY <1>0, <2>1, <3>1, <3>3 DEF Spent
      <4>2. CASE entry[run[q].entry] = None
        BY <2>1, <3>1, <4>1, <4>2, LifecycleAssumption DEF Owed, Spent
      <4>3. CASE entry[run[q].entry] # None
        <5>1. run[s].entry = run[q].entry /\ run[s].pc \notin Early
          BY <4>1, <4>3
        <5>2. run[s].task = run[q].task
          BY <4>1, <4>3, <5>1, LifecycleAssumption DEF Base, EntriesHeld
        <5>3. QED BY <2>1, <3>1, <5>1, <5>2 DEF Owed, Spent
      <4>4. QED BY <4>2, <4>3
    <3>4. QED BY <3>2, <3>3
  <2>2. Owed(t)' => Owed(t)
    <3>1. (\E h \in Handler : api[h].task = t /\ api[h].pc = "start")' => Owed(t)
      BY DEF Owed
    <3>2. (\E q \in Slot : run[q].task = t /\ Spent(q))' => Owed(t)
      BY <1>1, <2>1 DEF Owed
    <3>3. QED BY <1>1, <3>1, <3>2 DEF Owed
  <2>3. Promised(t) => Promised(t)' BY <1>1, SlotKeeps
  <2>4. QED BY <2>2, <2>3 DEF QueueFed
<1>2. QED BY <1>1

\* The steps of an execution that touch neither the queue nor a status.
LEMMA QuietFed ==
  ASSUME Base, QueueFed, NEW s \in Slot,
         UNCHANGED <<assignee, api, entry>>, orphaned \subseteq orphaned',
         \A q \in Slot : q # s => run'[q] = run[q],
         \A t \in Task : status'[t] = "IN_PROGRESS" => status[t] = "IN_PROGRESS",
         run[s].pc \notin Early, run'[s].pc \notin Early,
         \/ run'[s].task = run[s].task /\ run'[s].entry \in {run[s].entry, None}
         \/ run'[s] = NoRun
  PROVE  QueueFed'
<1>1. NoRun.task = None /\ NoRun.entry = None BY DEF NoRun
<1>2. ASSUME NEW t \in Task, assignee'[t] # None PROVE Owed(t)' => Promised(t)'
  <2>1. t # None BY LifecycleAssumption
  <2>2. status'[t] = "IN_PROGRESS" => Owed(t) BY DEF Owed
  <2>3. run'[s].task = t => run[s].task = t /\ Spent(s) BY <1>1, <2>1 DEF Spent
  <2>4. run[s].pc # "requeue" BY DEF Early
  <2>5. run'[s].entry # None => run'[s].entry = run[s].entry BY <1>1
  <2>6. QED BY <1>2, <2>2, <2>3, <2>4, <2>5, SlotFed
<1>3. QED BY <1>2 DEF QueueFed

\* What starts an execution puts slot s at "load", with no entry or an open one.
LEMMA Started ==
  ASSUME RunsOK, NEW s \in Slot,
         (\E e \in Entry : Deliver(s, e)) \/ (\E t \in Task : Execute(s, t))
  PROVE  /\ run'[s].pc = "load"
         /\ run'[s].entry = None \/ entry[run'[s].entry] # None
         /\ \A q \in Slot : q # s => run'[q] = run[q]
<1>1. CASE \E e \in Entry : Deliver(s, e)
  <2>1. PICK e \in Entry : Deliver(s, e) BY <1>1
  <2>2. PICK r : /\ r = [NoRun EXCEPT !.pc = "load", !.task = entry[e], !.entry = e]
                 /\ run' = [run EXCEPT ![s] = r]
    BY <2>1 DEF Deliver
  <2>3. r.pc = "load" /\ r.entry = e BY <2>2 DEF NoRun
  <2>4. run'[s] = r /\ \A q \in Slot : q # s => run'[q] = run[q]
    BY <2>2 DEF RunsOK
  <2>5. entry[e] # None BY <2>1 DEF Deliver
  <2>6. QED BY <2>3, <2>4, <2>5
<1>2. CASE \E t \in Task : Execute(s, t)
  <2>1. PICK t \in Task : Execute(s, t) BY <1>2
  <2>2. PICK r : r = [NoRun EXCEPT !.pc = "load", !.task = t] /\ run' = [run EXCEPT ![s] = r]
    BY <2>1 DEF Execute
  <2>3. r.pc = "load" /\ r.entry = None BY <2>2 DEF NoRun
  <2>4. run'[s] = r /\ \A q \in Slot : q # s => run'[q] = run[q]
    BY <2>2 DEF RunsOK
  <2>5. QED BY <2>3, <2>4
<1>3. QED BY <1>1, <1>2

LEMMA StartedFed ==
  ASSUME Base, QueueFed, NEW s \in Slot,
         (\E e \in Entry : Deliver(s, e)) \/ (\E t \in Task : Execute(s, t))
  PROVE  QueueFed'
<1> USE DEF rows, losses, history, counts
<1>0. RunsOK BY Named
<1>1. /\ UNCHANGED <<status, assignee, entry, api, orphaned>> /\ run[s].pc = "idle"
  BY DEF Deliver, Execute
<1>2. /\ run'[s].pc = "load"
      /\ run'[s].entry = None \/ entry[run'[s].entry] # None
      /\ \A q \in Slot : q # s => run'[q] = run[q]
  BY <1>0, Started
<1>3. ~ Spent(s)' BY <1>1, <1>2 DEF Spent, Early
<1>4. ASSUME NEW t \in Task, assignee'[t] # None PROVE Owed(t)' => Promised(t)'
  <2>1. status'[t] = "IN_PROGRESS" => Owed(t) BY <1>1 DEF Owed
  <2>2. run'[s].pc \in Early /\ run[s].pc # "requeue" BY <1>1, <1>2 DEF Early
  <2>3. QED BY <1>1, <1>2, <1>3, <1>4, <2>1, <2>2, SlotFed
<1>5. QED BY <1>4 DEF QueueFed

LEMMA PerformFed ==
  ASSUME Base, QueueFed, NEW s \in Slot, Perform(s) PROVE QueueFed'
<1> USE DEF rows, losses, history, counts
<1>0. RowsOK /\ RunsOK /\ ApiOK /\ HistoryOK BY Named
<1>1. PICK u \in Task : u = run[s].task /\ Exists(u)
  <2>1. run[s].pc # "idle"
    BY DEF Perform, Load, Begin, Requeue, Engage, Observe, Succeed, Remember, Poison, Fail,
           Release, Ack
  <2>2. QED BY <2>1, Named
<1>2. \A t \in Task : status[t] = "IN_PROGRESS" => Owed(t) BY DEF Owed
<1>3. CASE Load(s)
  <2>1. /\ UNCHANGED <<status, assignee, entry, api, orphaned>> /\ run[s].pc = "load"
    BY <1>3 DEF Load
  <2>2. /\ run'[s].task = run[s].task /\ run'[s].entry = run[s].entry
        /\ run'[s].pc = IF assignee[run[s].task] = None THEN "ack" ELSE "begin"
        /\ \A q \in Slot : q # s => run'[q] = run[q]
    BY <1>3, LoadMoves
  <2>3. ASSUME NEW t \in Task, assignee'[t] # None PROVE Owed(t)' => Promised(t)'
    <3>1. CASE run[s].task = t
      <4>1. run'[s].pc = "begin" BY <2>1, <2>2, <2>3, <3>1
      <4>2. run'[s].pc \in Early /\ run[s].pc \in Early BY <2>1, <4>1 DEF Early
      <4>3. Spent(s)' => Spent(s) BY <2>1, <2>2, <4>2 DEF Spent
      <4>4. QED BY <1>2, <2>1, <2>2, <2>3, <3>1, <4>2, <4>3, SlotFed
    <3>2. CASE run[s].task # t
      BY <1>2, <2>1, <2>2, <2>3, <3>2, SlotFed
    <3>3. QED BY <3>1, <3>2
  <2>4. QED BY <2>3 DEF QueueFed
<1>4. CASE Begin(s)
  <2>1. /\ UNCHANGED <<assignee, entry, api, orphaned>> /\ run[s].pc = "begin"
        /\ SetTask(u, "IN_PROGRESS", run[s].seen)
    BY <1>1, <1>4 DEF Begin
  <2>2. /\ run'[s].task = u /\ run'[s].entry = run[s].entry /\ run'[s].pc = "requeue"
        /\ \A q \in Slot : q # s => run'[q] = run[q]
    BY <1>0, <1>1, <1>4 DEF Begin, Goto, RunsOK, Runs
  <2>3. run'[s].pc \in Early /\ run[s].pc \in Early BY <2>1, <2>2 DEF Early
  <2>4. Spent(s)' => Spent(s) BY <2>1, <2>2, <2>3 DEF Spent
  <2>5. ASSUME NEW t \in Task, assignee'[t] # None PROVE Owed(t)' => Promised(t)'
    <3>1. CASE t # u
      <4>1. status'[t] = status[t] BY <1>0, <1>1, <2>1, <3>1 DEF SetTask, RowsOK
      <4>2. QED BY <1>1, <1>2, <2>1, <2>2, <2>3, <2>4, <2>5, <3>1, <4>1, SlotFed
    <3>2. CASE t = u /\ Owed(t)
      BY <1>1, <2>1, <2>2, <2>3, <2>4, <2>5, <3>2, SlotFed
    <3>3. CASE t = u /\ ~ Owed(t)
      <4>1. CASE run[s].entry = None
        BY <1>1, <2>2, <3>3, <4>1 DEF Promised
      <4>2. CASE run[s].entry # None
        <5>1. PICK e \in Entry : e = run[s].entry
          BY <1>0, <4>2 DEF RunsOK, Runs
        <5>2. entry[e] = t
          BY <1>1, <3>3, <4>2, <5>1 DEF Base, EntriesHeld, Owed, Spent
        <5>3. ASSUME NEW q \in Slot, run[q].entry = e PROVE run[q].pc \in Early
          <6>1. run[q].task = t
            BY <4>2, <5>1, <5>2, <5>3, LifecycleAssumption DEF Base, EntriesHeld
          <6>2. QED BY <3>3, <6>1 DEF Owed, Spent
        <5>4. \A q \in Slot : run'[q].entry = e => run'[q].pc \in Early
          BY <2>2, <2>3, <5>3
        <5>5. QED BY <2>1, <5>2, <5>4 DEF Promised
      <4>3. QED BY <4>1, <4>2
    <3>4. QED BY <3>1, <3>2, <3>3
  <2>6. QED BY <2>5 DEF QueueFed
<1>5. CASE Requeue(s)
  <2>1. /\ UNCHANGED <<status, assignee, api>> /\ run[s].pc = "requeue" /\ EnqueueTask(u)
    BY <1>1, <1>5 DEF Requeue
  <2>2. /\ run'[s].task = u /\ run'[s].entry = run[s].entry
        /\ \A q \in Slot : q # s => run'[q] = run[q]
    BY <1>0, <1>1, <1>5 DEF Requeue, See, RunsOK, Runs
  <2>3. /\ Promised(u)'
        /\ \A e \in Entry : entry[e] # None => entry'[e] = entry[e]
    BY <2>1, <2>2, Fed
  <2>4. orphaned \subseteq orphaned' BY <2>1 DEF EnqueueTask
  <2>5. ASSUME NEW t \in Task, assignee'[t] # None PROVE Owed(t)' => Promised(t)'
    <3>1. CASE t = u BY <2>3, <3>1
    <3>2. CASE t # u
      BY <1>1, <1>2, <2>1, <2>2, <2>3, <2>4, <2>5, <3>2, SlotFed
    <3>3. QED BY <3>1, <3>2
  <2>6. QED BY <2>5 DEF QueueFed
<1>6. CASE Ack(s)
  <2>1. /\ UNCHANGED <<status, assignee, api, orphaned>>
        /\ run[s].pc = "ack" /\ run[s].pc \notin Early
        /\ \A e \in Entry : entry'[e] = entry[e] \/ run[s].entry = e
    BY <1>6 DEF Ack, Early
  <2>2. run'[s] = NoRun /\ \A q \in Slot : q # s => run'[q] = run[q]
    BY <1>0, <1>6 DEF Ack, RunsOK
  <2>3. run'[s].task = None /\ run'[s].entry = None BY <2>2 DEF NoRun
  <2>4. ASSUME NEW t \in Task, assignee'[t] # None PROVE Owed(t)' => Promised(t)'
    BY <1>2, <2>1, <2>2, <2>3, <2>4, SlotFed, LifecycleAssumption
  <2>5. QED BY <2>4 DEF QueueFed
<1>7. CASE Engage(s) \/ Observe(s) \/ Remember(s) \/ Poison(s) \/ Release(s)
  <2>1. UNCHANGED <<status, assignee, entry, api, orphaned>>
    BY <1>7 DEF Engage, Observe, Remember, Poison, Release
  <2>2. run[s].pc \notin Early
    BY <1>7 DEF Engage, Observe, Remember, Poison, Release, Early
  <2>3. /\ run'[s].task = run[s].task /\ run'[s].entry = run[s].entry
        /\ \A q \in Slot : q # s => run'[q] = run[q]
    BY <1>0, <1>7 DEF Engage, Observe, Remember, Poison, Release, Goto, RunsOK, Runs
  <2>4. run'[s].pc \notin Early
    BY <1>0, <1>7 DEF Engage, Observe, Remember, Poison, Release, Goto, RunsOK, Runs, Early
  <2>5. QED BY <2>1, <2>2, <2>3, <2>4, QuietFed
<1>8. CASE Succeed(s) \/ Fail(s)
  <2>1. UNCHANGED <<assignee, entry, api, orphaned>> /\ run[s].pc \notin Early
    BY <1>8 DEF Succeed, Fail, Early
  <2>2. \A t \in Task : status'[t] = "IN_PROGRESS" => status[t] = "IN_PROGRESS"
    BY <1>0, <1>1, <1>8 DEF Succeed, Fail, SetTask, RowsOK
  <2>3. /\ run'[s].task = run[s].task /\ run'[s].entry = run[s].entry
        /\ \A q \in Slot : q # s => run'[q] = run[q]
    BY <1>0, <1>8 DEF Succeed, Fail, Goto, See, RunsOK, Runs
  <2>4. run'[s].pc \notin Early
    BY <1>0, <1>8 DEF Succeed, Fail, Goto, See, RunsOK, Runs, Early
  <2>5. QED BY <2>1, <2>2, <2>3, <2>4, QuietFed
<1>9. QED BY <1>3, <1>4, <1>5, <1>6, <1>7, <1>8 DEF Perform

LEMMA LeaveFed ==
  ASSUME Base, QueueFed, NEW s \in Slot,
         Crash(s) \/ Interrupt(s) \/ Raise(s) \/ Abort(s) \/ AckLost(s)
  PROVE  QueueFed'
<1> USE DEF rows, losses, history, counts
<1>0. RowsOK /\ RunsOK /\ ApiOK /\ HistoryOK BY Named
<1>1. UNCHANGED <<status, assignee, entry, api>> /\ orphaned \subseteq orphaned'
  BY DEF Crash, Interrupt, Raise, Abort, AckLost, Orphans
<1>2. \A q \in Slot : q # s => run'[q] = run[q]
  BY <1>0 DEF Crash, Interrupt, Raise, Abort, AckLost, Goto, RunsOK
<1>3. \A t \in Task : status[t] = "IN_PROGRESS" => Owed(t) BY DEF Owed
<1>4. CASE Crash(s) \/ AckLost(s)
  <2>1. run'[s] = NoRun /\ NoRun.task = None /\ NoRun.entry = None
    BY <1>0, <1>4 DEF Crash, AckLost, RunsOK, NoRun
  <2>2. ASSUME NEW t \in Task, assignee'[t] # None PROVE Owed(t)' => Promised(t)'
    <3>1. t # None BY LifecycleAssumption
    <3>2. CASE run[s].task = t /\ run[s].entry = None /\ run[s].pc = "requeue"
      BY <1>4, <3>2 DEF Crash, AckLost, Orphans, Promised
    <3>3. CASE ~ (run[s].task = t /\ run[s].entry = None /\ run[s].pc = "requeue")
      BY <1>1, <1>2, <1>3, <2>1, <2>2, <3>1, <3>3, SlotFed
    <3>4. QED BY <3>2, <3>3
  <2>3. QED BY <2>2 DEF QueueFed
<1>5. CASE Interrupt(s) \/ Raise(s)
  <2>1. /\ run'[s].task = run[s].task /\ run'[s].entry \in {run[s].entry, None}
        /\ run'[s].pc \notin Early /\ run[s].pc \notin Early
    BY <1>0, <1>5 DEF Interrupt, Raise, Goto, RunsOK, Runs, Early
  <2>2. QED BY <1>1, <1>2, <2>1, QuietFed
<1>6. CASE Abort(s)
  <2>1. /\ run'[s].task = run[s].task /\ run'[s].entry = run[s].entry /\ run'[s].pc = "ack"
    BY <1>0, <1>6 DEF Abort, Goto, RunsOK, Runs
  <2>2. run'[s].pc \notin Early BY <2>1 DEF Early
  <2>3. CASE run[s].pc \notin Early
    BY <1>1, <1>2, <2>1, <2>2, <2>3, QuietFed
  <2>4. CASE run[s].pc \in Early
    <3>1. orphaned' = orphaned \cup {run[s].task}
      BY <1>6, <2>4 DEF Abort, Orphans, Early
    <3>2. ASSUME NEW t \in Task, assignee'[t] # None PROVE Owed(t)' => Promised(t)'
      <4>1. CASE run[s].task = t BY <3>1, <4>1 DEF Promised
      <4>2. CASE run[s].task # t
        BY <1>1, <1>2, <1>3, <2>1, <3>2, <4>2, SlotFed
      <4>3. QED BY <4>1, <4>2
    <3>3. QED BY <3>2 DEF QueueFed
  <2>5. QED BY <2>3, <2>4
<1>7. QED BY <1>4, <1>5, <1>6

LEMMA SetAgentStatusFed ==
  ASSUME QueueFed, NEW a \in Agent, NEW v \in AgentStatuses, SetAgentStatus(a, v)
  PROVE  QueueFed'
BY DEF SetAgentStatus, QueueFed, Owed, Promised, Spent

LEMMA QueueFedStep == Base /\ QueueFed /\ [Next]_vars => QueueFed'
<1> SUFFICES ASSUME Base, QueueFed, [Next]_vars PROVE QueueFed'
  OBVIOUS
<1>1. CASE UNCHANGED vars
  BY <1>1 DEF vars, QueueFed, Owed, Promised, Spent
<1>2. CASE Next
  BY <1>2, NewRequestFed, ServeFed, SetAgentStatusFed, StartedFed, PerformFed, LeaveFed DEF Next
<1>3. QED BY <1>1, <1>2

-----------------------------------------------------------------------------
(* AgentWatched.  One execution at least keeps watch over a WORKING agent. *)

Watch(s, a) == /\ run[s].agent = a
               /\ run[s].pc \in Engaged
               /\ run[s].pc = "observe" \/ run[s].seenAgent # "IDLE"

\* A step of execution s keeps its watch, hands the agent to history, or leaves
\* it other than WORKING.
LEMMA SlotWatched ==
  ASSUME AgentWatched, NEW s \in Slot,
         \A q \in Slot : q # s => run'[q] = run[q],
         stranded \subseteq stranded', poisoned \subseteq poisoned',
         \A a \in Agent : agentStatus'[a] = "WORKING" =>
           \/ Watch(s, a)'
           \/ a \in stranded' \cup poisoned'
           \/ agentStatus[a] = "WORKING" /\ ~ Watch(s, a)
  PROVE  AgentWatched'
<1>1. ASSUME NEW a \in Agent, agentStatus'[a] = "WORKING"
      PROVE  (\E q \in Slot : Watch(q, a)') \/ a \in stranded' \cup poisoned'
  <2>1. CASE agentStatus[a] = "WORKING" /\ ~ Watch(s, a)
    <3>1. CASE a \in stranded \cup poisoned BY <3>1
    <3>2. CASE a \notin stranded \cup poisoned
      <4>1. PICK q \in Slot : Watch(q, a) BY <2>1, <3>2 DEF AgentWatched, Watch
      <4>2. Watch(q, a)' BY <2>1, <4>1 DEF Watch
      <4>3. QED BY <4>2
    <3>3. QED BY <3>1, <3>2
  <2>2. QED BY <1>1, <2>1
<1>2. QED BY <1>1 DEF AgentWatched, Watch

\* Handlers only ever make an agent IDLE.
LEMMA HandlerWatched ==
  ASSUME Base, AgentWatched, NEW h \in Handler, NewRequest(h) \/ Serve(h) \/ Drop(h)
  PROVE  AgentWatched'
<1> USE DEF rows, losses, history, counts
<1>0. RowsOK /\ RunsOK /\ ApiOK /\ HistoryOK BY Named
<1>1. UNCHANGED <<run, stranded, poisoned>>
  BY DEF NewRequest, Create, Assign, SetStatus, Run, SubmitTask, Cancel, Ask, Request,
         Serve, Drop, Promote, Give, Enqueue, Submit, Start, FailCancelled, Free
<1>2. UNCHANGED agentStatus \/ Free(h)
  BY DEF NewRequest, Create, Assign, SetStatus, Run, SubmitTask, Cancel,
         Serve, Drop, Promote, Give, Enqueue, Submit, Start, FailCancelled
<1>3. ASSUME NEW a \in Agent, agentStatus'[a] = "WORKING" PROVE agentStatus[a] = "WORKING"
  BY <1>0, <1>2, <1>3 DEF Free, RowsOK
<1>4. QED BY <1>1, <1>3 DEF AgentWatched

LEMMA SetAgentStatusWatched ==
  ASSUME Base, AgentWatched, NEW a \in Agent, NEW v \in AgentStatuses, SetAgentStatus(a, v)
  PROVE  AgentWatched'
<1>1. RowsOK BY Named
<1>2. ASSUME NEW b \in Agent, agentStatus'[b] = "WORKING"
      PROVE  agentStatus[b] = "WORKING" \/ b \in stranded'
  BY <1>1, <1>2 DEF SetAgentStatus, RowsOK
<1>3. QED BY <1>2 DEF SetAgentStatus, AgentWatched

LEMMA PerformWatched ==
  ASSUME Base, AgentWatched, NEW s \in Slot,
         \/ \E e \in Entry : Deliver(s, e)
         \/ \E t \in Task : Execute(s, t)
         \/ Perform(s)
  PROVE  AgentWatched'
<1> USE DEF rows, losses, history, counts
<1>0. RowsOK /\ RunsOK /\ HistoryOK BY Named
<1>1. \A q \in Slot : q # s => run'[q] = run[q]
  BY <1>0 DEF Deliver, Execute, Perform, Load, Begin, Requeue, Engage, Observe, Succeed, Remember,
              Poison, Fail, Release, Ack, Goto, See, RunsOK
<1>2. stranded \subseteq stranded' /\ poisoned \subseteq poisoned'
  BY DEF Deliver, Execute, Perform, Load, Begin, Requeue, Engage, Observe, Succeed, Remember,
         Poison, Fail, Release, Ack
<1>3. CASE (\E e \in Entry : Deliver(s, e)) \/ (\E t \in Task : Execute(s, t)) \/ Load(s)
           \/ Begin(s) \/ Requeue(s) \/ Ack(s)
  <2>1. UNCHANGED agentStatus /\ run[s].pc \notin Engaged
    BY <1>3 DEF Deliver, Execute, Load, Begin, Requeue, Ack, Engaged
  <2>2. QED BY <1>1, <1>2, <2>1, SlotWatched DEF Watch
<1>4. CASE Engage(s)
  <2>1. run[s].pc = "engage" /\ SetAgent(run[s].agent, "WORKING", run[s].seenAgent)
    BY <1>4 DEF Engage
  <2>2. run'[s].pc = "observe" /\ run'[s].agent = run[s].agent
    BY <1>0, <1>4 DEF Engage, Goto, RunsOK, Runs
  <2>3. ~ \E a \in Agent : Watch(s, a) BY <2>1 DEF Watch, Engaged
  <2>4. ASSUME NEW a \in Agent, agentStatus'[a] = "WORKING"
        PROVE  Watch(s, a)' \/ agentStatus[a] = "WORKING"
    <3>1. CASE a = run[s].agent BY <2>2, <3>1 DEF Watch, Engaged
    <3>2. CASE a # run[s].agent BY <1>0, <2>1, <2>4, <3>2 DEF SetAgent, RowsOK
    <3>3. QED BY <3>1, <3>2
  <2>5. QED BY <1>1, <1>2, <2>3, <2>4, SlotWatched
<1>5. CASE Observe(s)
  <2>1. run[s].pc = "observe" /\ UNCHANGED agentStatus BY <1>5 DEF Observe
  <2>2. /\ run'[s].pc = "work" /\ run'[s].agent = run[s].agent
        /\ run'[s].seenAgent = agentStatus[run[s].agent]
    BY <1>0, <1>5 DEF Observe, RunsOK, Runs
  <2>3. ASSUME NEW a \in Agent, agentStatus'[a] = "WORKING", Watch(s, a) PROVE Watch(s, a)'
    BY <2>1, <2>2, <2>3 DEF Watch, Engaged
  <2>4. QED BY <1>1, <1>2, <2>1, <2>3, SlotWatched
<1>6. CASE Succeed(s) \/ Remember(s) \/ Fail(s)
  <2>1. UNCHANGED agentStatus /\ run[s].pc \in {"work", "remember", "raised"}
    BY <1>6 DEF Succeed, Remember, Fail
  <2>2. /\ run'[s].pc \in Engaged /\ run'[s].agent = run[s].agent
        /\ run'[s].seenAgent = run[s].seenAgent
    BY <1>0, <1>6 DEF Succeed, Remember, Fail, Goto, See, RunsOK, Runs, Engaged
  <2>3. ASSUME NEW a \in Agent, Watch(s, a) PROVE Watch(s, a)'
    BY <2>1, <2>2, <2>3 DEF Watch
  <2>4. QED BY <1>1, <1>2, <2>1, <2>3, SlotWatched
<1>7. CASE Poison(s)
  <2>1. UNCHANGED agentStatus /\ run[s].agent \in poisoned' BY <1>7 DEF Poison
  <2>2. QED BY <1>1, <1>2, <2>1, SlotWatched DEF Watch
<1>8. CASE Release(s)
  <2>1. run[s].pc = "release" /\ SetAgent(run[s].agent, "IDLE", run[s].seenAgent)
    BY <1>8 DEF Release
  <2>2. ASSUME NEW a \in Agent, agentStatus'[a] = "WORKING"
        PROVE  agentStatus[a] = "WORKING" /\ ~ Watch(s, a)
    BY <1>0, <2>1, <2>2 DEF SetAgent, RowsOK, Watch
  <2>3. QED BY <1>1, <1>2, <2>2, SlotWatched
<1>9. QED BY <1>3, <1>4, <1>5, <1>6, <1>7, <1>8 DEF Perform

LEMMA LeaveWatched ==
  ASSUME Base, AgentWatched, NEW s \in Slot,
         Crash(s) \/ Interrupt(s) \/ Raise(s) \/ Abort(s) \/ AckLost(s)
  PROVE  AgentWatched'
<1> USE DEF rows, losses, history, counts
<1>0. RunsOK BY Named
<1>1. /\ UNCHANGED <<agentStatus, poisoned>> /\ stranded \subseteq stranded'
      /\ \A q \in Slot : q # s => run'[q] = run[q]
  BY <1>0 DEF Crash, Interrupt, Raise, Abort, AckLost, Strands, Goto, RunsOK
<1>2. CASE Crash(s) \/ Abort(s)
  <2>1. ASSUME NEW a \in Agent, Watch(s, a) PROVE a \in stranded'
    BY <1>2, <2>1 DEF Crash, Abort, Strands, Watch
  <2>2. QED BY <1>1, <2>1, SlotWatched
<1>3. CASE Interrupt(s) \/ Raise(s)
  <2>1. /\ run[s].pc # "observe" /\ run'[s].pc \in Engaged
        /\ run'[s].agent = run[s].agent /\ run'[s].seenAgent = run[s].seenAgent
    BY <1>0, <1>3 DEF Interrupt, Raise, Goto, RunsOK, Runs, Engaged
  <2>2. ASSUME NEW a \in Agent, Watch(s, a) PROVE Watch(s, a)'
    BY <2>1, <2>2 DEF Watch
  <2>3. QED BY <1>1, <2>2, SlotWatched
<1>4. CASE AckLost(s)
  <2>1. run[s].pc \notin Engaged BY <1>4 DEF AckLost, Engaged
  <2>2. QED BY <1>1, <2>1, SlotWatched DEF Watch
<1>5. QED BY <1>2, <1>3, <1>4

LEMMA AgentWatchedStep == Base /\ AgentWatched /\ [Next]_vars => AgentWatched'
<1> SUFFICES ASSUME Base, AgentWatched, [Next]_vars PROVE AgentWatched'
  OBVIOUS
<1>1. CASE UNCHANGED vars BY <1>1 DEF vars, AgentWatched
<1>2. CASE Next
  BY <1>2, HandlerWatched, SetAgentStatusWatched, PerformWatched, LeaveWatched DEF Next
<1>3. QED BY <1>1, <1>2

-----------------------------------------------------------------------------
(* The theorems *)

LEMMA InitIInv == Init => IInv
<1> SUFFICES ASSUME Init PROVE IInv
  OBVIOUS
<1>1. Base BY InitBase
<1>2. QueueFed BY DEF Init, QueueFed, NoRun
<1>3. AgentWatched BY DEF Init, AgentWatched
<1>4. QED BY <1>1, <1>2, <1>3 DEF Base, IInv

LEMMA IInvStep == IInv /\ [Next]_vars => IInv'
<1>1. IInv <=> Base /\ QueueFed /\ AgentWatched BY DEF IInv, Base
<1>2. IInv' <=> Base' /\ QueueFed' /\ AgentWatched' BY DEF IInv, Base
<1>3. QED BY <1>1, <1>2, BaseStep, QueueFedStep, AgentWatchedStep

\* Every reachable state has the types of TypeOK, rows for everything named,
\* an execution to come for every owed task that has an agent, and an execution
\* on watch for every WORKING agent, losses and interventions on record apart.
THEOREM InvariantHolds == Spec => []IInv
BY InitIInv, IInvStep, PTL DEF Spec

\* However requests, executions, redeliveries, crashes and failing calls
\* interleave, a task in progress with an agent is in the queue, in execution or
\* about to be enqueued, or its submission was lost to a failing call.
THEOREM NoSilentOrphanHolds == Spec => []NoSilentOrphan
<1>1. IInv => NoSilentOrphan
  <2> SUFFICES ASSUME IInv, NEW t \in Task, status[t] = "IN_PROGRESS", assignee[t] # None
               PROVE  \/ \E e \in Entry : entry[e] = t
                      \/ Running(t)
                      \/ \E h \in Handler : api[h].task = t /\ api[h].pc = "enqueue"
                      \/ t \in orphaned
    BY DEF NoSilentOrphan
  <2>1. Promised(t) BY DEF IInv, QueueFed, Owed
  <2>2. (\E s \in Slot : run[s].task = t /\ run[s].pc = "requeue") => Running(t)
    BY DEF Running, Steps, Early
  <2>3. QED BY <2>1, <2>2 DEF Promised
<1>2. QED BY <1>1, InvariantHolds, PTL

\* Executions of several tasks share an agent, and each writes its status only
\* when it differs from what it saw: still some execution on a WORKING agent
\* will release it, but for what history records.
THEOREM WorkingExplainedHolds == Spec => []WorkingExplained
<1>1. IInv => WorkingExplained
  BY DEF IInv, AgentWatched, WorkingExplained, Engages
<1>2. QED BY <1>1, InvariantHolds, PTL

-----------------------------------------------------------------------------
(* StaysDue.  What an assigned task was promised it is promised after any   *)
(* step.                                                                   *)

LEMMA HandlerPromise ==
  ASSUME Base, NEW h \in Handler, NewRequest(h) \/ Serve(h) \/ Drop(h),
         NEW t \in Task, Promised(t)
  PROVE  Promised(t)'
<1> USE DEF rows, losses, history, counts
<1>0. ApiOK BY Named
<1>1. UNCHANGED run /\ orphaned \subseteq orphaned'
  BY DEF NewRequest, Create, Assign, SetStatus, Run, SubmitTask, Cancel, Ask, Request,
         Serve, Drop, Promote, Give, Enqueue, EnqueueTask, Submit, Start, FailCancelled, Free
<1>2. \A g \in Handler : g # h => api'[g] = api[g]
  BY <1>0 DEF NewRequest, Create, Assign, SetStatus, Run, SubmitTask, Cancel, Ask, Serve, Drop,
              Promote, Give, Enqueue, Submit, Start, FailCancelled, Free, Continue, ContinueWith,
              ApiOK
<1>3. CASE Enqueue(h) \/ Submit(h)
  <2>1. PICK u \in Task : u = api[h].task
    BY <1>3, Named DEF Enqueue, Submit
  <2>2. Add(u) \/ EnqueueTask(u)
    BY <1>3, <2>1 DEF Enqueue, Submit
  <2>3. Promised(u)' /\ \A e \in Entry : entry[e] # None => entry'[e] = entry[e]
    BY <1>1, <2>2, Fed
  <2>4. CASE t = u BY <2>3, <2>4
  <2>5. CASE t # u BY <1>1, <1>2, <2>1, <2>3, <2>5, HandlerKeeps
  <2>6. QED BY <2>4, <2>5
<1>4. CASE Drop(h)
  <2>1. UNCHANGED entry BY <1>4 DEF Drop
  <2>2. CASE api[h].pc = "enqueue" /\ api[h].task = t
    BY <1>4, <2>2 DEF Drop, Promised
  <2>3. CASE ~ (api[h].pc = "enqueue" /\ api[h].task = t)
    BY <1>1, <1>2, <2>1, <2>3, HandlerKeeps
  <2>4. QED BY <2>2, <2>3
<1>5. CASE NewRequest(h) \/ Promote(h) \/ Give(h) \/ Start(h) \/ FailCancelled(h) \/ Free(h)
  <2>1. UNCHANGED entry
    BY <1>5 DEF NewRequest, Create, Assign, SetStatus, Run, SubmitTask, Cancel, Promote, Give,
                Start, FailCancelled, Free
  <2>2. api[h].pc # "enqueue"
    BY <1>5 DEF NewRequest, Create, Assign, SetStatus, Run, SubmitTask, Cancel, Ask, Request,
                Promote, Give, Start, FailCancelled, Free
  <2>3. QED BY <1>1, <1>2, <2>1, <2>2, HandlerKeeps
<1>6. QED BY <1>3, <1>4, <1>5 DEF Serve

LEMMA StartPromise ==
  ASSUME Base, NEW s \in Slot, (\E e \in Entry : Deliver(s, e)) \/ (\E u \in Task : Execute(s, u)),
         NEW t \in Task, Promised(t)
  PROVE  Promised(t)'
<1> USE DEF rows, losses, history, counts
<1>0. RunsOK BY Named
<1>1. UNCHANGED <<api, entry, orphaned>> /\ run[s].pc = "idle"
  BY DEF Deliver, Execute
<1>2. run'[s].pc = "load" /\ \A q \in Slot : q # s => run'[q] = run[q]
  BY <1>0, Started
<1>3. run'[s].pc \in Early /\ run[s].pc # "requeue" BY <1>1, <1>2 DEF Early
<1>4. QED BY <1>1, <1>2, <1>3, SlotKeeps

LEMMA PerformPromise ==
  ASSUME Base, NEW s \in Slot, Perform(s), NEW t \in Task, assignee[t] # None, Promised(t)
  PROVE  Promised(t)'
<1> USE DEF rows, losses, history, counts
<1>0. RunsOK BY Named
<1>1. UNCHANGED api /\ orphaned \subseteq orphaned'
  BY DEF Perform, Load, Begin, Requeue, EnqueueTask, Engage, Observe, Succeed, Remember, Poison,
         Fail, Release, Ack
<1>2. \A q \in Slot : q # s => run'[q] = run[q]
  BY <1>0 DEF Perform, Load, Begin, Requeue, Engage, Observe, Succeed, Remember, Poison, Fail,
              Release, Ack, Goto, See, RunsOK
<1>3. CASE Load(s)
  <2>1. UNCHANGED <<entry, orphaned>> /\ run[s].pc = "load" BY <1>3 DEF Load
  <2>2. /\ run'[s].entry = run[s].entry
        /\ run'[s].pc = IF assignee[run[s].task] = None THEN "ack" ELSE "begin"
    BY <1>3, LoadMoves
  <2>3. run'[s].pc \in Early \/ run[s].task # t BY <2>2 DEF Early
  <2>4. QED BY <1>1, <1>2, <2>1, <2>2, <2>3, SlotKeeps
<1>4. CASE Begin(s)
  <2>1. UNCHANGED entry /\ run[s].pc = "begin" BY <1>4 DEF Begin
  <2>2. run'[s].pc \in Early BY <1>0, <1>4 DEF Begin, Goto, RunsOK, Runs, Early
  <2>3. QED BY <1>1, <1>2, <2>1, <2>2, SlotKeeps
<1>5. CASE Requeue(s)
  <2>1. PICK u \in Task : u = run[s].task /\ EnqueueTask(u)
    BY <1>5, Named DEF Requeue
  <2>2. run'[s].entry = run[s].entry
    BY <1>0, <1>5 DEF Requeue, See, RunsOK, Runs
  <2>3. Promised(u)' /\ \A e \in Entry : entry[e] # None => entry'[e] = entry[e]
    BY <1>2, <2>1, <2>2, Fed
  <2>4. CASE t = u BY <2>3, <2>4
  <2>5. CASE t # u BY <1>1, <1>2, <2>1, <2>2, <2>3, <2>5, SlotKeeps
  <2>6. QED BY <2>4, <2>5
<1>6. CASE Engage(s) \/ Observe(s) \/ Succeed(s) \/ Remember(s) \/ Poison(s) \/ Fail(s)
           \/ Release(s)
  <2>1. UNCHANGED entry
    BY <1>6 DEF Engage, Observe, Succeed, Remember, Poison, Fail, Release
  <2>2. run[s].pc \notin Early
    BY <1>6 DEF Engage, Observe, Succeed, Remember, Poison, Fail, Release, Early
  <2>3. run'[s].entry = run[s].entry
    BY <1>0, <1>6 DEF Engage, Observe, Succeed, Remember, Poison, Fail, Release, Goto, See,
                      RunsOK, Runs
  <2>4. run[s].pc # "requeue" BY <2>2 DEF Early
  <2>5. QED BY <1>1, <1>2, <2>1, <2>2, <2>3, <2>4, SlotKeeps
<1>7. CASE Ack(s)
  <2>1. /\ run[s].pc \notin Early /\ run[s].pc # "requeue"
        /\ \A e \in Entry : entry'[e] = entry[e] \/ run[s].entry = e
    BY <1>7 DEF Ack, Early
  <2>2. run'[s] = NoRun BY <1>0, <1>7 DEF Ack, RunsOK
  <2>3. run'[s].entry = None BY <2>2 DEF NoRun
  <2>4. QED BY <1>1, <1>2, <2>1, <2>3, SlotKeeps
<1>8. QED BY <1>3, <1>4, <1>5, <1>6, <1>7 DEF Perform

LEMMA LeavePromise ==
  ASSUME Base, NEW s \in Slot, Crash(s) \/ Interrupt(s) \/ Raise(s) \/ Abort(s) \/ AckLost(s),
         NEW t \in Task, Promised(t)
  PROVE  Promised(t)'
<1> USE DEF rows, losses, history, counts
<1>0. RunsOK BY Named
<1>1. UNCHANGED <<entry, api>> /\ orphaned \subseteq orphaned'
  BY DEF Crash, Interrupt, Raise, Abort, AckLost, Orphans
<1>2. \A q \in Slot : q # s => run'[q] = run[q]
  BY <1>0 DEF Crash, Interrupt, Raise, Abort, AckLost, Goto, RunsOK
<1>3. CASE Crash(s) \/ AckLost(s)
  <2>1. run'[s] = NoRun BY <1>0, <1>3 DEF Crash, AckLost, RunsOK
  <2>2. run'[s].entry = None BY <2>1 DEF NoRun
  <2>3. CASE run[s].task = t /\ run[s].entry = None /\ run[s].pc = "requeue"
    BY <1>3, <2>3 DEF Crash, AckLost, Orphans, Promised
  <2>4. CASE ~ (run[s].task = t /\ run[s].entry = None /\ run[s].pc = "requeue")
    BY <1>1, <1>2, <2>2, <2>4, SlotKeeps
  <2>5. QED BY <2>3, <2>4
<1>4. CASE Interrupt(s) \/ Raise(s)
  <2>1. /\ run[s].pc \notin Early /\ run[s].pc # "requeue"
        /\ run'[s].entry \in {run[s].entry, None}
    BY <1>0, <1>4 DEF Interrupt, Raise, Goto, RunsOK, Runs, Early
  <2>2. QED BY <1>1, <1>2, <2>1, SlotKeeps
<1>5. CASE Abort(s)
  <2>1. run'[s].entry = run[s].entry
    BY <1>0, <1>5 DEF Abort, Goto, RunsOK, Runs
  <2>2. CASE run[s].pc \in Early /\ run[s].task = t
    BY <1>5, <2>2 DEF Abort, Orphans, Early, Promised
  <2>3. CASE run[s].pc \notin Early \/ run[s].task # t
    <3>1. run[s].task = t => run[s].pc # "requeue" BY <2>3 DEF Early
    <3>2. QED BY <1>1, <1>2, <2>1, <2>3, <3>1, SlotKeeps
  <2>4. QED BY <2>2, <2>3
<1>6. QED BY <1>3, <1>4, <1>5

LEMMA PromiseStep ==
  ASSUME Base, [Next]_vars, NEW t \in Task, assignee[t] # None, Promised(t)
  PROVE  Promised(t)'
<1>1. CASE UNCHANGED vars BY <1>1 DEF vars, Promised
<1>2. ASSUME NEW a \in Agent, NEW v \in AgentStatuses, SetAgentStatus(a, v) PROVE Promised(t)'
  BY <1>2 DEF SetAgentStatus, Promised
<1>3. CASE Next
  BY <1>2, <1>3, HandlerPromise, StartPromise, PerformPromise, LeavePromise DEF Next
<1>4. QED BY <1>1, <1>3

\* Whatever executions of it end, fail, crash or are given up, and whoever moves
\* or cancels it, an assigned task with an execution to come keeps having one to
\* come, or history records that its submission was lost.
THEOREM StaysDueHolds == Spec => StaysDue
<1>1. Base /\ [Next]_vars =>
        [\A t \in Task : assignee[t] # None /\ Promised(t) => Promised(t)']_vars
  BY PromiseStep
<1>2. Spec => []Base BY InitBase, BaseStep, PTL DEF Spec
<1>3. QED BY <1>1, <1>2, PTL DEF Spec, StaysDue

-----------------------------------------------------------------------------
(* DoneIsDue.  An execution that has found an agent works for a task that   *)
(* keeps one, and what is remembered was promised another execution.       *)

Assigned == \A s \in Slot : run[s].pc \in Steps \ {"load", "ack"} => assignee[run[s].task] # None
Due      == \A t \in memory : Exists(t) /\ assignee[t] # None /\ Promised(t)

\* No row goes, and no task loses its agent but to another.
AgentsStay == \A t \in Task : Exists(t) =>
                /\ Exists(t)'
                /\ assignee[t] # None => assignee'[t] # None

LEMMA AgentsStayStep == ASSUME Base, Next PROVE AgentsStay
<1> USE DEF rows, losses, history, counts
<1>0. RowsOK /\ RunsOK /\ ApiOK /\ HistoryOK BY Named
<1>1. ASSUME NEW h \in Handler, NEW t \in Task, NEW a \in Agent \cup {None}, Create(h, t, a)
      PROVE  AgentsStay
  BY <1>0, <1>1 DEF Create, AgentsStay, Exists, RowsOK
<1>2. ASSUME NEW h \in Handler, NEW t \in Task, NEW v \in Statuses, SetStatus(h, t, v)
      PROVE  AgentsStay
  BY <1>0, <1>2 DEF SetStatus, AgentsStay, Exists, RowsOK, Statuses
<1>3. ASSUME NEW h \in Handler, Give(h) PROVE AgentsStay
  <2>1. api[h].agent \in Agent \cup {None} BY <1>0 DEF ApiOK, Requests
  <2>2. PICK u \in Task : u = api[h].task BY <1>3, Named DEF Give
  <2>3. \A t \in Task : Exists(t) => Exists(t)'
    BY <1>0, <1>3, <2>2 DEF Give, SetTask, Exists, RowsOK
  <2>4. \A t \in Task : assignee[t] # None => assignee'[t] # None
    BY <1>0, <1>3, <2>1, <2>2 DEF Give, RowsOK
  <2>5. QED BY <2>3, <2>4 DEF AgentsStay
<1>4. ASSUME NEW u \in Task, NEW v \in Statuses, NEW w, SetTask(u, v, w), UNCHANGED assignee
      PROVE  AgentsStay
  BY <1>0, <1>4 DEF SetTask, AgentsStay, Exists, RowsOK, Statuses
<1>5. ASSUME NEW h \in Handler, Promote(h) \/ Start(h) \/ FailCancelled(h) PROVE AgentsStay
  <2>1. PICK u \in Task : u = api[h].task BY <1>5, Named DEF Promote, Start, FailCancelled
  <2>2. \E v \in Statuses : SetTask(u, v, "BACKLOG") \/ SetTask(u, v, api[h].seen)
    BY <1>5, <2>1 DEF Promote, Start, FailCancelled, Statuses
  <2>3. UNCHANGED assignee BY <1>5 DEF Promote, Start, FailCancelled
  <2>4. QED BY <1>4, <2>2, <2>3
<1>6. ASSUME NEW s \in Slot, Begin(s) \/ Succeed(s) \/ Fail(s) PROVE AgentsStay
  <2>1. run[s].pc # "idle" BY <1>6 DEF Begin, Succeed, Fail
  <2>2. PICK u \in Task : u = run[s].task BY <2>1, Named
  <2>3. \E v \in Statuses : SetTask(u, v, run[s].seen)
    BY <1>6, <2>2 DEF Begin, Succeed, Fail, Statuses
  <2>4. UNCHANGED assignee BY <1>6 DEF Begin, Succeed, Fail
  <2>5. QED BY <1>4, <2>3, <2>4
<1>7. UNCHANGED <<status, assignee>> => AgentsStay
  BY DEF AgentsStay, Exists
<1>8. ASSUME NEW h \in Handler, NewRequest(h) \/ Serve(h) \/ Drop(h) PROVE AgentsStay
  <2>1. CASE NewRequest(h)
    <3>1. PICK t \in Task : \/ \E a \in Agent \cup {None} : Create(h, t, a)
                            \/ \E a \in Agent : Assign(h, t, a)
                            \/ \E v \in Statuses : SetStatus(h, t, v)
                            \/ Run(h, t) \/ SubmitTask(h, t) \/ Cancel(h, t)
      BY <2>1 DEF NewRequest
    <3>2. QED BY <1>1, <1>2, <1>7, <3>1 DEF Assign, Run, SubmitTask, Cancel
  <2>2. CASE Promote(h) \/ Give(h) \/ Start(h) \/ FailCancelled(h)
    BY <1>3, <1>5, <2>2
  <2>3. CASE Enqueue(h) \/ Submit(h) \/ Free(h) \/ Drop(h)
    BY <1>7, <2>3 DEF Enqueue, Submit, Free, Drop
  <2>4. QED BY <1>8, <2>1, <2>2, <2>3 DEF Serve
<1>9. ASSUME NEW s \in Slot, Perform(s) PROVE AgentsStay
  <2>1. CASE Begin(s) \/ Succeed(s) \/ Fail(s) BY <1>6, <2>1
  <2>2. CASE ~ (Begin(s) \/ Succeed(s) \/ Fail(s))
    BY <1>7, <1>9, <2>2 DEF Perform, Load, Requeue, Engage, Observe, Remember, Poison, Release, Ack
  <2>3. QED BY <2>1, <2>2
<1>10. ASSUME NEW a \in Agent, NEW v \in AgentStatuses, SetAgentStatus(a, v) PROVE AgentsStay
  BY <1>7, <1>10 DEF SetAgentStatus
<1>11. ASSUME NEW s \in Slot,
              \/ \E e \in Entry : Deliver(s, e)
              \/ \E t \in Task : Execute(s, t)
              \/ Crash(s) \/ Interrupt(s) \/ Raise(s) \/ Abort(s) \/ AckLost(s)
       PROVE  AgentsStay
  BY <1>7, <1>11 DEF Deliver, Execute, Crash, Interrupt, Raise, Abort, AckLost
<1>12. QED BY <1>8, <1>9, <1>10, <1>11 DEF Next

\* An execution that is past "load" was so before the step, or has found its
\* task with an agent.
LEMMA Onward ==
  ASSUME Base, Next, NEW s \in Slot, run'[s].pc \in Steps \ {"load", "ack"}
  PROVE  /\ run'[s].task = run[s].task /\ run[s].pc # "idle"
         /\ run[s].pc \in Steps \ {"load", "ack"} \/ assignee[run[s].task] # None
<1> USE DEF rows, losses, history, counts
<1>0. RowsOK /\ RunsOK /\ ApiOK /\ HistoryOK BY Named
<1> DEFINE Stays(q) == run'[q] = run[q]
<1>1. CASE Stays(s)
  BY <1>0, <1>1 DEF Steps, Early, Engaged
<1>2. CASE ~ Stays(s)
  <2>1. \/ \E e \in Entry : Deliver(s, e)
        \/ \E t \in Task : Execute(s, t)
        \/ Perform(s)
        \/ Crash(s) \/ Interrupt(s) \/ Raise(s) \/ Abort(s) \/ AckLost(s)
    <3>1. ASSUME NEW h \in Handler, NewRequest(h) \/ Serve(h) \/ Drop(h) PROVE Stays(s)
      BY <3>1 DEF NewRequest, Create, Assign, SetStatus, Run, SubmitTask, Cancel, Ask, Request,
                  Serve, Drop, Promote, Give, Enqueue, Submit, Start, FailCancelled, Free
    <3>2. ASSUME NEW a \in Agent, NEW v \in AgentStatuses, SetAgentStatus(a, v) PROVE Stays(s)
      BY <3>2 DEF SetAgentStatus
    <3>3. ASSUME NEW q \in Slot, q # s,
                 \/ \E e \in Entry : Deliver(q, e)
                 \/ \E t \in Task : Execute(q, t)
                 \/ Perform(q)
          PROVE  Stays(s)
      BY <1>0, <3>3 DEF Deliver, Execute, Perform, Load, Begin, Requeue, Engage, Observe, Succeed,
                        Remember, Poison, Fail, Release, Ack, Goto, See, RunsOK
    <3>4. ASSUME NEW q \in Slot, q # s,
                 Crash(q) \/ Interrupt(q) \/ Raise(q) \/ Abort(q) \/ AckLost(q)
          PROVE  Stays(s)
      BY <1>0, <3>4 DEF Crash, Interrupt, Raise, Abort, AckLost, Goto, RunsOK
    <3> HIDE DEF Stays
    <3>5. QED BY <1>2, <3>1, <3>2, <3>3, <3>4 DEF Next
  <2>2. CASE (\E e \in Entry : Deliver(s, e)) \/ (\E t \in Task : Execute(s, t))
    <3>1. run'[s].pc = "load" BY <1>0, <2>2, Started
    <3>2. QED BY <3>1
  <2>3. CASE Load(s)
    BY <2>3, LoadMoves DEF Load
  <2>4. CASE Perform(s) /\ ~ Load(s)
    <3>1. /\ run[s].pc \in Steps \ {"load", "ack"}
          /\ run'[s].task = run[s].task
      BY <1>0, <2>4 DEF Perform, Begin, Requeue, Engage, Observe, Succeed, Remember, Poison, Fail,
                        Release, Ack, Goto, See, RunsOK, Runs, NoRun, Steps, Early, Engaged
    <3>2. QED BY <3>1 DEF Steps, Early, Engaged
  <2>5. CASE Crash(s) \/ AckLost(s) \/ Abort(s)
    <3>1. run'[s].pc \in {"idle", "ack"}
      BY <1>0, <2>5 DEF Crash, AckLost, Abort, Goto, RunsOK, Runs, NoRun
    <3>2. QED BY <3>1 DEF Steps, Early, Engaged
  <2>6. CASE Interrupt(s) \/ Raise(s)
    <3>1. /\ run[s].pc \in Steps \ {"load", "ack"}
          /\ run'[s].task = run[s].task
      BY <1>0, <2>6 DEF Interrupt, Raise, Goto, RunsOK, Runs, Steps, Early, Engaged
    <3>2. QED BY <3>1 DEF Steps, Early, Engaged
  <2>7. QED BY <2>1, <2>2, <2>3, <2>4, <2>5, <2>6
<1>3. QED BY <1>1, <1>2

LEMMA AssignedStep == Base /\ Assigned /\ [Next]_vars => Assigned'
<1> SUFFICES ASSUME Base, Assigned, [Next]_vars PROVE Assigned'
  OBVIOUS
<1>1. CASE UNCHANGED vars BY <1>1 DEF vars, Assigned
<1>2. CASE Next
  <2>1. AgentsStay BY <1>2, AgentsStayStep
  <2>2. ASSUME NEW s \in Slot, run'[s].pc \in Steps \ {"load", "ack"}
        PROVE  assignee'[run'[s].task] # None
    <3>1. /\ run'[s].task = run[s].task /\ run[s].pc # "idle"
          /\ run[s].pc \in Steps \ {"load", "ack"} \/ assignee[run[s].task] # None
      BY <1>2, <2>2, Onward
    <3>2. assignee[run[s].task] # None BY <3>1 DEF Assigned
    <3>3. run[s].task \in Task /\ Exists(run[s].task) BY <3>1, Named
    <3>4. QED BY <2>1, <3>1, <3>2, <3>3 DEF AgentsStay
  <2>3. QED BY <2>2 DEF Assigned
<1>3. QED BY <1>1, <1>2

\* Only Remember adds to the memory: of a task that its execution has enqueued
\* again or, its entry closed, that is owed an execution all the same.
LEMMA Remembered ==
  ASSUME Base, QueueFed, Assigned, Next, NEW t \in memory', t \notin memory
  PROVE  t \in Task /\ Exists(t) /\ assignee[t] # None /\ Promised(t)
<1> USE DEF rows, losses, history, counts
<1>1. PICK s \in Slot : Remember(s)
  <2>1. ASSUME NEW h \in Handler, NewRequest(h) \/ Serve(h) \/ Drop(h) PROVE UNCHANGED memory
    BY <2>1 DEF NewRequest, Create, Assign, SetStatus, Run, SubmitTask, Cancel, Ask, Request,
                Serve, Drop, Promote, Give, Enqueue, Submit, Start, FailCancelled, Free
  <2>2. ASSUME NEW a \in Agent, NEW v \in AgentStatuses, SetAgentStatus(a, v)
        PROVE  UNCHANGED memory
    BY <2>2 DEF SetAgentStatus
  <2>3. ASSUME NEW s \in Slot,
               \/ \E e \in Entry : Deliver(s, e)
               \/ \E u \in Task : Execute(s, u)
               \/ Perform(s) /\ ~ Remember(s)
               \/ Crash(s) \/ Interrupt(s) \/ Raise(s) \/ Abort(s) \/ AckLost(s)
        PROVE  UNCHANGED memory
    BY <2>3 DEF Deliver, Execute, Perform, Load, Begin, Requeue, Engage, Observe, Succeed, Poison,
                Fail, Release, Ack, Crash, Interrupt, Raise, Abort, AckLost
  <2>4. QED BY <2>1, <2>2, <2>3 DEF Next
<1>2. run[s].pc = "remember" /\ t = run[s].task BY <1>1 DEF Remember
<1>3. t \in Task /\ Exists(t) BY <1>2, Named
<1>4. assignee[t] # None BY <1>2 DEF Assigned, Steps, Early, Engaged
<1>5. Owed(t) BY <1>2 DEF Owed, Spent, Early
<1>6. QED BY <1>3, <1>4, <1>5 DEF QueueFed

LEMMA DueStep == Base /\ QueueFed /\ Assigned /\ Due /\ [Next]_vars => Due'
<1> SUFFICES ASSUME Base, QueueFed, Assigned, Due, [Next]_vars PROVE Due'
  OBVIOUS
<1>1. CASE UNCHANGED vars BY <1>1 DEF vars, Due, Exists, Promised
<1>2. CASE Next
  <2>1. AgentsStay BY <1>2, AgentsStayStep
  <2>2. ASSUME NEW t \in memory' PROVE Exists(t)' /\ assignee'[t] # None /\ Promised(t)'
    <3>1. t \in Task /\ Exists(t) /\ assignee[t] # None /\ Promised(t)
      <4>1. CASE t \in memory BY <4>1 DEF Due, Base, TypeOK, RowsOK
      <4>2. CASE t \notin memory BY <1>2, <4>2, Remembered
      <4>3. QED BY <4>1, <4>2
    <3>2. Promised(t)' BY <1>2, <3>1, PromiseStep
    <3>3. QED BY <2>1, <3>1, <3>2 DEF AgentsStay
  <2>3. QED BY <2>2 DEF Due
<1>3. QED BY <1>1, <1>2

\* However its executions interleave, fail or are redelivered, a task that was
\* done once and is remembered has an agent and an execution to come in every
\* later state, or its submission was lost: nothing but a loss ends the cycle in
\* which an execution enqueues its own task again.
THEOREM DoneIsDueHolds == Spec => []DoneIsDue
<1>1. Init => Base /\ QueueFed /\ Assigned /\ Due
  <2> SUFFICES ASSUME Init PROVE Base /\ QueueFed /\ Assigned /\ Due
    OBVIOUS
  <2>1. Base /\ QueueFed BY InitBase, InitIInv DEF IInv
  <2>2. Assigned BY DEF Init, Assigned, NoRun, Steps, Early, Engaged
  <2>3. Due BY DEF Init, Due
  <2>4. QED BY <2>1, <2>2, <2>3
<1>2. Base /\ QueueFed /\ Assigned /\ Due /\ [Next]_vars => (Base /\ QueueFed /\ Assigned /\ Due)'
  BY BaseStep, QueueFedStep, AssignedStep, DueStep
<1>3. Due => DoneIsDue BY DEF Due, DoneIsDue
<1>4. QED BY <1>1, <1>2, <1>3, PTL DEF Spec
=============================================================================
