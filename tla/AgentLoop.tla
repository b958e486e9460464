----------------------------- MODULE AgentLoop -----------------------------
(***************************************************************************)
(* The loop an execution runs between model and tools, and the guard that  *)
(* refuses tool calls which look like a loop                               *)
(* (backend/app/services/execution_service.py, tool_execution_service.py,  *)
(* loop_detection_service.py).                                             *)
(*                                                                         *)
(* The guard keeps one history of calls per agent for the life of the      *)
(* process, so all executions of an agent in one process share it: this    *)
(* is the history of one agent.  A call is checked before it runs and      *)
(* recorded after it has run; other executions come in between.            *)
(*                                                                         *)
(* A call is its tool and its result: the recorded hash covers the tool,   *)
(* its parameters and the result, which itself holds the duration.  A      *)
(* message of the conversation is the iteration that wrote it, 0 for the   *)
(* task, which is the only one of the user's.  said and fellback are       *)
(* history.                                                                *)
(***************************************************************************)
EXTENDS Naturals, FiniteSets, Sequences

CONSTANTS Execs,        \* executions of one agent in one process
          Tools,        \* the built-in tools
          PollLike,     \* those of _poll_like_tools
          Results,      \* what sets two results of one tool apart
          Guarded,      \* whether the process has a loop detection service
          Warning,      \* warning_threshold (8); what reaches critical_threshold has reached it
          PollRun,      \* calls _check_poll_no_progress looks at (4)
          PingWindow,   \* calls _check_ping_pong looks at (6)
          HistorySize,  \* history_size
          MaxIterations,\* max_iterations of execute_task
          KeepRecent,   \* KEEP_RECENT_TURNS * 2 of the compactor
          CallBound     \* bound: tool calls in one answer of the model

ASSUME LoopAssumption == /\ IsFiniteSet(Execs) /\ Execs # {}
                         /\ PollLike \subseteq Tools
                         /\ Guarded \in BOOLEAN
                         /\ Warning \in Nat /\ Warning >= 3
                         /\ PollRun \in Nat /\ PollRun >= 3
                         /\ PingWindow \in Nat /\ PingWindow >= 4
                         /\ HistorySize \in Nat /\ HistorySize >= PingWindow
                         /\ MaxIterations \in Nat \ {0}
                         /\ KeepRecent \in Nat \ {0}
                         /\ CallBound \in Nat

Call == [tool : Tools, result : Results]

VARIABLES pc,        \* per execution, where it is
          iteration, \* per execution, the iteration it is in
          todo,      \* per execution, tool calls of the answer not yet made
          current,   \* per execution, the built-in tool that runs ({}: none)
          history,   \* _history of the agent
          messages,  \* per execution, the conversation it keeps
          summary,   \* per execution, the messages its compaction summary stands for
          said,      \* history: per execution, the messages ever written
          fellback   \* history: per execution, whether a compaction did without the model

guard == <<current, history>>
talk  == <<messages, summary, said, fellback>>
vars  == <<pc, iteration, todo, current, history, messages, summary, said, fellback>>

\* ask: the model is called with the tools; tools: its calls are made one by one;
\* builtin, mcp: one runs; final: the model is called without tools.
PCs == {"new", "ask", "tools", "builtin", "mcp", "final", "succeeded", "failed"}

TypeOK == /\ pc \in [Execs -> PCs]
          /\ iteration \in [Execs -> 0 .. MaxIterations]
          /\ todo \in [Execs -> 0 .. CallBound]
          /\ current \in [Execs -> SUBSET Tools]
          /\ history \in Seq(Call) /\ Len(history) <= HistorySize
          /\ messages \in [Execs -> Seq(0 .. MaxIterations)]
          /\ summary \in [Execs -> SUBSET (0 .. MaxIterations)]
          /\ said \in [Execs -> SUBSET (0 .. MaxIterations)]
          /\ fellback \in [Execs -> BOOLEAN]

Init == /\ pc = [x \in Execs |-> "new"]
        /\ iteration = [x \in Execs |-> 0]
        /\ todo = [x \in Execs |-> 0]
        /\ current = [x \in Execs |-> {}]
        /\ history = << >>
        /\ messages = [x \in Execs |-> << >>]
        /\ summary = [x \in Execs |-> {}]
        /\ said = [x \in Execs |-> {}]
        /\ fellback = [x \in Execs |-> FALSE]

-----------------------------------------------------------------------------
(* The guard *)

\* The calls are all like the last one.
Alike(h, n) == /\ Len(h) >= n
               /\ \A k \in 0 .. n - 1 : h[Len(h) - k] = h[Len(h)]

\* _check_generic_repeat: the run the history ends with has reached a threshold.
GenericRepeat(h) == Alike(h, Warning)

\* _check_poll_no_progress.
PollNoProgress(h) == /\ Alike(h, PollRun)
                     /\ \A k \in 0 .. PollRun - 1 : h[Len(h) - k].tool \in PollLike

\* Mutant of PingPong: the two tools have to be different.
PingPongOfTwo(h) ==
  /\ Len(h) >= PingWindow
  /\ \A k \in 3 .. PingWindow - 1 : h[Len(h) - k].tool = h[Len(h) - k + 2].tool
  /\ h[Len(h) - PingWindow + 1].tool # h[Len(h) - PingWindow + 2].tool

\* _check_ping_pong: of the calls in the window each has the tool of the next but
\* one, the newest of them left out; nothing says that the tools are two.
PingPong(h) ==
  /\ Len(h) >= PingWindow
  /\ \A k \in 3 .. PingWindow - 1 : h[Len(h) - k].tool = h[Len(h) - k + 2].tool

\* analyze: any of the three refuses the call.
Refused == /\ Guarded
           /\ GenericRepeat(history) \/ PollNoProgress(history) \/ PingPong(history)

\* Mutant of Record: the history is a list.
RecordUnbounded(h, c) == Append(h, c)

\* record_tool_call: a full deque drops its oldest call.
Record(h, c) == IF Len(h) < HistorySize THEN Append(h, c) ELSE Append(Tail(h), c)

-----------------------------------------------------------------------------
(* The loop *)

\* execute_task sets up: the conversation is the task.
Begin(x) == /\ pc[x] = "new"
            /\ pc' = [pc EXCEPT ![x] = "ask"]
            /\ iteration' = [iteration EXCEPT ![x] = 1]
            /\ messages' = [messages EXCEPT ![x] = <<0>>]
            /\ said' = [said EXCEPT ![x] = {0}]
            /\ UNCHANGED <<todo, guard, summary, fellback>>

\* What an execution counts and the conversation go with it when it ends.
End(x, how) == /\ pc' = [pc EXCEPT ![x] = how]
               /\ todo' = [todo EXCEPT ![x] = 0]
               /\ current' = [current EXCEPT ![x] = {}]
               /\ messages' = [messages EXCEPT ![x] = << >>]
               /\ summary' = [summary EXCEPT ![x] = {}]
               /\ said' = [said EXCEPT ![x] = {}]
               /\ fellback' = [fellback EXCEPT ![x] = FALSE]
               /\ iteration' = [iteration EXCEPT ![x] = 0]

\* Whatever raises on the way, in the model's provider or in the database, fails
\* the execution; a tool that raises does not.
Raise(x) == /\ pc[x] \in {"ask", "tools", "builtin", "final"}
            /\ End(x, "failed")
            /\ \/ history' = history
               \/ \E t \in current[x], r \in Results :
                     history' = Record(history, [tool |-> t, result |-> r])

\* run_with_tools: the model answers with n tool calls.
ToolCalls(x) == /\ pc[x] = "ask"
                /\ \E n \in 1 .. CallBound : todo' = [todo EXCEPT ![x] = n]
                /\ pc' = [pc EXCEPT ![x] = "tools"]
                /\ UNCHANGED <<iteration, guard, talk>>

\* run_with_tools is called with max_iterations=1: after one round of tools the
\* model answers without them.
AfterCalls == "final"

\* The call before the last is made or refused: on to the next, or to the model.
Onward(x) == /\ todo' = [todo EXCEPT ![x] = @ - 1]
             /\ pc' = [pc EXCEPT ![x] = IF todo[x] = 1 THEN AfterCalls ELSE "tools"]

\* A built-in tool is called and the guard lets it.
Run(x, t) == /\ pc[x] = "tools" /\ ~ Refused
             /\ current' = [current EXCEPT ![x] = {t}]
             /\ pc' = [pc EXCEPT ![x] = "builtin"]
             /\ UNCHANGED <<iteration, todo, history, talk>>

\* It returns or raises, is recorded, and then logged.
Ran(x, t, r) == /\ pc[x] = "builtin" /\ t \in current[x]
                /\ current' = [current EXCEPT ![x] = {}]
                /\ history' = Record(history, [tool |-> t, result |-> r])
                /\ Onward(x)
                /\ UNCHANGED <<iteration, talk>>

\* Mutant of NoteRefusal: a refused call is a call.
NoteRefusalAs(t, r) == history' = Record(history, [tool |-> t, result |-> r])

\* Nothing is recorded of a call that is refused.
NoteRefusal(t, r) == history' = history

\* The guard refuses: the model is told so.
Refuse(x, t, r) == /\ pc[x] = "tools" /\ Refused
                   /\ NoteRefusal(t, r)
                   /\ Onward(x)
                   /\ UNCHANGED <<iteration, current, talk>>

\* The tool does not exist or its parameters are not valid: not recorded.
Invalid(x) == /\ pc[x] = "tools"
              /\ Onward(x)
              /\ UNCHANGED <<iteration, guard, talk>>

\* A tool of an MCP server is called; it passes by the guard.
CallMcp(x) == /\ pc[x] = "tools"
              /\ pc' = [pc EXCEPT ![x] = "mcp"]
              /\ UNCHANGED <<iteration, todo, guard, talk>>

\* It returns, or any exception becomes its text.
McpReturns(x) == /\ pc[x] = "mcp"
                 /\ Onward(x)
                 /\ UNCHANGED <<iteration, guard, talk>>

\* Mutant of Compacted: the summary before is not handed to the model.
CompactedAfresh(old, dropped, fallback) == dropped

\* _summarize.  The model's summary covers the messages that are dropped and the
\* summary before.  The fallback, when there is no model, it raises or it says nothing,
\* adds to the summary before the first message of the user's and the last of the
\* assistant's, and only counts the others.
Compacted(old, dropped, fallback) ==
  old \cup IF fallback THEN {m \in dropped : m = 0 \/ \A n \in dropped : n <= m} ELSE dropped

\* ContextCompactor.compact: all but the most recent messages are summarized.
Compact(x, talked, fallback) ==
  LET n == IF Len(talked) > KeepRecent THEN Len(talked) - KeepRecent ELSE 0 IN
  IF n = 0 THEN messages' = [messages EXCEPT ![x] = talked] /\ UNCHANGED <<summary, fellback>>
  ELSE /\ messages' = [messages EXCEPT ![x] = SubSeq(talked, n + 1, Len(talked))]
       /\ summary' = [summary EXCEPT
                        ![x] = Compacted(@, {talked[k] : k \in 1 .. n}, fallback)]
       /\ fellback' = [fellback EXCEPT ![x] = @ \/ fallback]

\* Mutant of NextIteration: the iterations are not counted.
NextIterationUncounted(x) == iteration' = iteration

NextIteration(x) == iteration' = [iteration EXCEPT ![x] = @ + 1]

\* The answer without tool calls that ends an iteration: it is kept when it has
\* text, and the conversation is compacted when the context is full.
Answer(x, text, full) ==
  /\ pc[x] \in {"ask", "final"} /\ iteration[x] < MaxIterations
  /\ LET talked == IF text THEN Append(messages[x], iteration[x]) ELSE messages[x] IN
       IF full THEN \E fallback \in BOOLEAN : Compact(x, talked, fallback)
       ELSE messages' = [messages EXCEPT ![x] = talked] /\ UNCHANGED <<summary, fellback>>
  /\ said' = IF text THEN [said EXCEPT ![x] = @ \cup {iteration[x]}] ELSE said
  /\ pc' = [pc EXCEPT ![x] = "ask"]
  /\ NextIteration(x)
  /\ UNCHANGED <<todo, guard>>

\* The answer says that the task is done, or stopped of itself, or is the last the
\* execution may have: a success each time.
Succeed(x) == /\ pc[x] \in {"ask", "final"}
              /\ End(x, "succeeded")
              /\ history' = history

-----------------------------------------------------------------------------
(* The specification *)

\* What a running execution does next.
Advance(x) == \/ ToolCalls(x) \/ Invalid(x) \/ CallMcp(x) \/ McpReturns(x)
              \/ \E t \in Tools : Run(x, t)
              \/ \E t \in Tools, r \in Results : Ran(x, t, r) \/ Refuse(x, t, r)
              \/ \E text, full \in BOOLEAN : Answer(x, text, full)
              \/ Succeed(x)

Next == \E x \in Execs : Begin(x) \/ Raise(x) \/ Advance(x)

Spec == Init /\ [][Next]_vars

-----------------------------------------------------------------------------
(* Properties *)

\* The last n calls are of one tool.
SameTool(h, n) == /\ Len(h) >= n
                  /\ \A k \in 0 .. n - 1 : h[Len(h) - k].tool = h[Len(h)].tool

\* The guard lets a tool be called PingWindow times in a row, whatever the results,
\* and then once more by every other execution whose call was in flight.  With the
\* thresholds of the code an agent on its own never reaches warning_threshold.
RunBound == Guarded => \A n \in 1 .. HistorySize :
              SameTool(history, n) => n <= PingWindow - 1 + Cardinality(Execs)

\* The agent is refused, and no call is under way.
Locked == Refused /\ \A x \in Execs : pc[x] # "builtin"

\* What refuses a call is the history, and a refusal adds nothing to it: once locked
\* an agent is refused every built-in tool, in this and in all later executions.
LockedForGood == [][Locked => Locked']_vars

\* However often the conversation is compacted: what is kept and what the summary
\* covers are apart; the task is one or the other; what is not kept is older than
\* all that is, of which there are then KeepRecent; and no message is in neither,
\* unless a compaction had to do without the model.
Remembered == \A x \in Execs :
                LET kept == {messages[x][k] : k \in DOMAIN messages[x]} IN
                /\ kept \cup summary[x] \subseteq said[x] /\ kept \cap summary[x] = {}
                /\ 0 \in said[x] => 0 \in kept \cup summary[x]
                /\ \A m \in said[x] \ kept : \A n \in kept : m < n
                /\ said[x] # kept => Len(messages[x]) >= KeepRecent
                /\ ~ fellback[x] => kept \cup summary[x] = said[x]

\* The steps an execution has left at most: those of the iterations to come, and
\* those of this one.
Work(x) == (MaxIterations - iteration[x]) * (2 * CallBound + 3)
           + CASE pc[x] = "ask"              -> 2 * CallBound + 2
               [] pc[x] = "tools"            -> 2 * todo[x] + 1
               [] pc[x] \in {"builtin", "mcp"} -> 2 * todo[x]
               [] OTHER                      -> 0

Running(x) == pc[x] \in {"ask", "tools", "builtin", "mcp", "final"}

\* Every step of an execution that does not end it leaves it fewer steps to take:
\* whatever model and tools answer, and however often the guard refuses, a call of
\* execute_task ends as soon as those it waits for answer.
Dwindles == [][\A x \in Execs :
                 /\ Running(x) /\ Running(x)'
                 /\ <<pc[x], iteration[x], todo[x]>>' # <<pc[x], iteration[x], todo[x]>>
                 => Work(x)' < Work(x)]_vars
=============================================================================
