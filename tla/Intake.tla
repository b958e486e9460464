------------------------------- MODULE Intake -------------------------------
(***************************************************************************)
(* How a user's message becomes a task and gets its answer: the endpoints  *)
(* and channels that take messages (backend/app/api/endpoints/chat.py,     *)
(* telegram.py, backend/app/channels/*.py), and the orchestrator they all  *)
(* call while the request waits                                            *)
(* (backend/app/services/orchestrator_service.py).                         *)
(*                                                                         *)
(* A call is one request that delivers a message.  It makes at most one    *)
(* task, which goes by the name of the call; what becomes of the entries   *)
(* it queues is the subject of TaskLifecycle.  A platform delivers a       *)
(* message again when it has no answer in time or an error for an answer;  *)
(* nothing in the code tells the two deliveries apart.                     *)
(*                                                                         *)
(* Which agents and agent classes there are is for others to say, who make *)
(* and delete them at any time: a call may find either, or neither.        *)
(***************************************************************************)
EXTENDS Naturals, FiniteSets

CONSTANTS Messages,    \* what users write
          CallBound,   \* bound: requests
          Mixes,       \* where the messages may come from
          ExtraBound   \* bound: failures, late answers and repeated deliveries

\* Where a message comes from; discord stands for the slash commands of Slack too.
Kinds == {"chat", "stream", "telegram", "slack", "whatsapp", "discord"}

ASSUME IntakeAssumption == /\ IsFiniteSet(Messages)
                           /\ CallBound \in Nat
                           /\ Mixes \subseteq [Messages -> Kinds]
                           /\ ExtraBound \in Nat

\* Requests are numbered as they come.
Calls == 1 .. CallBound

VARIABLES kind,       \* per message, where it comes from
          inbox,      \* per message, how its sender's side sees it
          pc,         \* per call, where it is
          of,         \* per call, the message ({}: none yet)
          task,       \* per call, the status it has given its task
          queued,     \* calls whose task has an entry in the queue
          result,     \* per call, what it is about to answer
          answer,     \* per call, what its sender was told
          unheard,    \* history: calls that could not say what they had to
          late,       \* history: messages whose platform gave up waiting
          twice,      \* history: messages that came as two events
          extras      \* what ExtraBound counts

vars == <<kind, inbox, pc, of, task, queued, result, answer, unheard, late, twice, extras>>

\* What the orchestrator is doing for a call.
Orchestrating == {"create", "analyze", "find", "hire", "assign", "execute", "decompose"}
PCs == {"free", "begin", "announce", "reply", "ended"} \cup Orchestrating
Results == {"none", "success", "failure", "sorry"}

TypeOK == /\ kind \in [Messages -> Kinds]
          /\ inbox \in [Messages -> {"new", "flight", "due", "closed"}]
          /\ pc \in [Calls -> PCs]
          /\ of \in [Calls -> SUBSET Messages]
          /\ \A c \in Calls : pc[c] # "free" => \E m \in Messages : of[c] = {m}
          /\ task \in [Calls -> {"none", "BACKLOG", "IN_PROGRESS", "DONE", "FAILED"}]
          /\ queued \subseteq Calls
          /\ result \in [Calls -> Results] /\ answer \in [Calls -> Results]
          /\ unheard \subseteq Calls /\ late \subseteq Messages /\ twice \subseteq Messages
          /\ extras \in 0 .. ExtraBound

Init == /\ kind \in Mixes
        /\ inbox = [m \in Messages |-> "new"]
        /\ pc = [c \in Calls |-> "free"]
        /\ of = [c \in Calls |-> {}]
        /\ task = [c \in Calls |-> "none"]
        /\ queued = {}
        /\ result = [c \in Calls |-> "none"]
        /\ answer = [c \in Calls |-> "none"]
        /\ unheard = {} /\ late = {} /\ twice = {} /\ extras = 0

Extra == extras < ExtraBound /\ extras' = extras + 1

From(c, k) == \E m \in of[c] : kind[m] = k
Goto(c, l) == pc' = [pc EXCEPT ![c] = l]

-----------------------------------------------------------------------------
(* Platforms and clients *)

\* Those that send a message again that was not acknowledged.
Redelivering == {"telegram", "slack", "whatsapp"}

Take(c, m) == /\ pc[c] = "free" /\ \A b \in 1 .. c - 1 : pc[b] # "free"
              /\ Goto(c, "begin")
              /\ of' = [of EXCEPT ![c] = {m}]
              /\ UNCHANGED <<kind, task, queued, result, answer, unheard, late>>

\* A message is sent, or sent again.
Deliver(c, m) == /\ inbox[m] \in {"new", "due"}
                 /\ inbox' = [inbox EXCEPT ![m] = "flight"]
                 /\ Take(c, m)
                 /\ UNCHANGED <<twice, extras>>

\* The mention of a Slack bot comes as a message and as an app_mention.
DeliverTwin(c, m) == /\ kind[m] = "slack" /\ inbox[m] = "flight" /\ m \notin twice
                     /\ twice' = twice \cup {m}
                     /\ Extra
                     /\ Take(c, m)
                     /\ UNCHANGED inbox

\* The platform waits no longer.  Telegram, Slack and WhatsApp deliver the message
\* again; Discord, and a client that has gone, have no more use for the answer.
GiveUp(m) == /\ inbox[m] = "flight"
             /\ inbox' = [inbox EXCEPT ![m] = IF kind[m] \in Redelivering THEN "due" ELSE "closed"]
             /\ late' = late \cup {m}
             /\ Extra
             /\ UNCHANGED <<kind, pc, of, task, queued, result, answer, unheard, twice>>

\* A user of the chat who was told of an error asks again.
AskAgain(c, m) == /\ kind[m] \in {"chat", "stream"} /\ inbox[m] = "closed" /\ m \notin late
                  /\ \E b \in Calls : m \in of[b] /\ answer[b] = "sorry"
                  /\ inbox' = [inbox EXCEPT ![m] = "flight"]
                  /\ Extra
                  /\ Take(c, m)
                  /\ UNCHANGED twice

-----------------------------------------------------------------------------
(* The orchestrator *)

\* A step of a call in the orchestrator that leaves the sender's side alone.
Inside(c) == UNCHANGED <<kind, inbox, of, answer, unheard, late, twice>>

\* The handler has a configuration of a model, which is made if there is none.
\* Telegram's first shows that it is typing; if that fails nothing more is done.
Begin(c) == /\ pc[c] = "begin"
            /\ Goto(c, "create")
            /\ Inside(c)
            /\ UNCHANGED <<task, queued, result, extras>>

Create(c) == /\ pc[c] = "create"
             /\ task' = [task EXCEPT ![c] = "BACKLOG"]
             /\ Goto(c, "analyze")
             /\ Inside(c)
             /\ UNCHANGED <<queued, result, extras>>

\* _analyze_task: what is no JSON counts as simple.
Analyze(c, simple) == /\ pc[c] = "analyze"
                      /\ Goto(c, IF simple THEN "find" ELSE "decompose")
                      /\ Inside(c)
                      /\ UNCHANGED <<task, queued, result, extras>>

\* _find_or_create_agent looks for an agent of the domain, whatever its status, and
\* then for a class to make one of.  There is an agent, or a class, or neither.
Find(c) == /\ pc[c] = "find"
           /\ \/ Goto(c, "assign") /\ result' = result
              \/ Goto(c, "hire") /\ result' = result
              \/ Goto(c, "announce") /\ result' = [result EXCEPT ![c] = "failure"]
           /\ Inside(c)
           /\ UNCHANGED <<task, queued, extras>>

\* The agent is to be of gender "neutral", which neither GenderEnum nor the type of the
\* column has: create_agent raises, whatever the class.
Hire(c) == /\ pc[c] = "hire"
           /\ result' = [result EXCEPT ![c] = "sorry"]
           /\ Goto(c, "reply")
           /\ Inside(c)
           /\ UNCHANGED <<task, queued, extras>>

\* _enqueue_task: a failure is only logged.
Enqueue(c) == \/ queued' = queued \cup {c} /\ extras' = extras
              \/ Extra /\ queued' = queued

Assign(c) == /\ pc[c] = "assign"
             /\ task' = [task EXCEPT ![c] = "IN_PROGRESS"]
             /\ Enqueue(c)
             /\ Goto(c, "execute")
             /\ Inside(c)
             /\ result' = result

\* Mutant of Outcome: that it was executed is a success.
OutcomeAny(status) == "success"

Outcome(status) == IF status = "DONE" THEN "success" ELSE "failure"

\* execute_task, in the request: it queues its task again and ends it.
Execute(c, status) == /\ pc[c] = "execute" /\ status \in {"DONE", "FAILED"}
                      /\ task' = [task EXCEPT ![c] = status]
                      /\ Enqueue(c)
                      /\ result' = [result EXCEPT ![c] = Outcome(status)]
                      /\ Goto(c, "announce")
                      /\ Inside(c)

\* Mutant of NoSubtasks: what is left to do is done.
NoSubtasksDone == "success"

\* Mutant of NoSubtasks: the result does not say.
NoSubtasksUnsaid == "unsaid"

\* _synthesize_results of no results.
NoSubtasks == "failure"

\* _execute_complex_task.  Of an empty list of subtasks none succeeds; the first
\* subtask of any other raises, as create_task has no parameter input_data.
Decompose(c, empty) ==
  /\ pc[c] = "decompose"
  /\ result' = [result EXCEPT ![c] = IF empty THEN NoSubtasks ELSE "sorry"]
  /\ Goto(c, IF empty THEN "announce" ELSE "reply")
  /\ Inside(c)
  /\ UNCHANGED <<task, queued, extras>>

\* Mutant of Raise: nobody catches it, and the platform waits.
RaiseUncaught(c) == /\ pc[c] \in Orchestrating
                    /\ Extra
                    /\ Goto(c, "ended")
                    /\ Inside(c)
                    /\ UNCHANGED <<task, queued, result>>

\* The database, the model or its analysis raises; each handler catches it.  An
\* execution may have queued its task and ended it by then, as when a worker has
\* executed it meanwhile and its memory is there.
Raise(c) == /\ pc[c] \in Orchestrating
            /\ \/ Extra
               \/ pc[c] \in {"analyze", "decompose"} /\ extras' = extras
            /\ \/ task' = task /\ queued' = queued
               \/ /\ pc[c] = "execute"
                  /\ \E s \in {"IN_PROGRESS", "DONE", "FAILED"} : task' = [task EXCEPT ![c] = s]
                  /\ queued' \in {queued, queued \cup {c}}
            /\ result' = [result EXCEPT ![c] = "sorry"]
            /\ Goto(c, "reply")
            /\ Inside(c)

-----------------------------------------------------------------------------
(* Answers *)

\* What is left of the result when it has been broadcast.  chat.py calls
\* broadcast_metrics without its argument, so that every turn ends with an error.
Announced(c) == IF From(c, "chat") THEN [result EXCEPT ![c] = "sorry"] ELSE result

\* broadcast_activity, of Telegram only for a success; in a chat that streams it
\* comes after the answer, and the channels have none.
Announce(c) == /\ pc[c] = "announce"
               /\ result' = Announced(c)
               /\ Goto(c, "reply")
               /\ Inside(c)
               /\ UNCHANGED <<task, queued, extras>>

\* It raises when the set of connections changes meanwhile.
AnnounceFails(c) == /\ pc[c] = "announce"
                    /\ \/ From(c, "chat")
                       \/ From(c, "telegram") /\ result[c] = "success"
                    /\ Extra
                    /\ result' = [result EXCEPT ![c] = "sorry"]
                    /\ Goto(c, "reply")
                    /\ Inside(c)
                    /\ UNCHANGED <<task, queued>>

\* The response of a call to the platform.
Close(c, how) == inbox' = [m \in Messages |-> IF m \in of[c] /\ inbox[m] = "flight"
                                              THEN how ELSE inbox[m]]

\* What a response leaves alone.
Responding == UNCHANGED <<kind, of, task, queued, result, late, twice>>

\* Mutant of Acknowledge: the answer to the user is all that Telegram gets.
AcknowledgeNot(c) == Close(c, IF From(c, "telegram") THEN "due" ELSE "closed")

\* The webhook answers 200, the endpoint answers.
Acknowledge(c) == Close(c, "closed")

\* Telegram and the channels with a message of their own, the others in the response:
\* which nobody reads any more when it is late.
Reply(c) == /\ pc[c] = "reply"
            /\ IF \E m \in of[c] : m \in late /\ kind[m] \notin Redelivering
                 THEN unheard' = unheard \cup {c} /\ answer' = answer
                 ELSE answer' = [answer EXCEPT ![c] = result[c]] /\ unheard' = unheard
            /\ Goto(c, "ended")
            /\ Acknowledge(c)
            /\ Responding
            /\ UNCHANGED extras

\* The call ends, and its sender has not been told.
Unheard(c) == /\ Goto(c, "ended")
              /\ unheard' = unheard \cup {c}
              /\ Responding
              /\ UNCHANGED answer

\* The message of the answer is refused, or cannot be sent.  Telegram's handler says
\* that something went wrong instead, and if it cannot say that either answers with
\* 502 to a refusal and with 200 otherwise.  WhatsApp answers 200, Slack 200 to a
\* refusal and 500 otherwise.
ReplyFails(c, refused) ==
  /\ pc[c] = "reply" /\ Extra
  /\ \/ /\ From(c, "telegram") /\ result[c] # "sorry"
        /\ result' = [result EXCEPT ![c] = "sorry"]
        /\ UNCHANGED <<kind, inbox, pc, of, task, queued, answer, unheard, late, twice>>
     \/ /\ From(c, "telegram") /\ result[c] = "sorry"
        /\ Close(c, IF refused THEN "due" ELSE "closed")
        /\ Unheard(c)
     \/ /\ From(c, "whatsapp")
        /\ Close(c, "closed")
        /\ Unheard(c)
     \/ /\ From(c, "slack")
        /\ Close(c, IF refused THEN "closed" ELSE "due")
        /\ Unheard(c)

\* Telegram cannot be told that the bot is typing: 200, and that is all.
TypingFails(c) == /\ pc[c] = "begin" /\ From(c, "telegram")
                  /\ Extra
                  /\ Close(c, "closed")
                  /\ Unheard(c)

\* The process dies, or the client of a stream goes and takes its generator with it.
Crash(c) == /\ pc[c] \notin {"free", "ended"}
            /\ Extra
            /\ Close(c, IF \E m \in of[c] : kind[m] \in Redelivering THEN "due" ELSE "closed")
            /\ Unheard(c)

-----------------------------------------------------------------------------
(* The specification *)

\* What a handler does next when nothing fails.
Handle(c) == \/ Begin(c) \/ Create(c)
             \/ \E simple \in BOOLEAN : Analyze(c, simple)
             \/ Find(c) \/ Hire(c) \/ Assign(c)
             \/ \E s \in {"DONE", "FAILED"} : Execute(c, s)
             \/ \E empty \in BOOLEAN : Decompose(c, empty)
             \/ Announce(c) \/ Reply(c)

Next == \/ \E c \in Calls, m \in Messages : Deliver(c, m) \/ DeliverTwin(c, m) \/ AskAgain(c, m)
        \/ \E m \in Messages : GiveUp(m)
        \/ \E c \in Calls : \/ Handle(c)
                            \/ Raise(c) \/ AnnounceFails(c) \/ TypingFails(c) \/ Crash(c)
                            \/ \E refused \in BOOLEAN : ReplyFails(c, refused)

\* A handler goes on, and a message that was not acknowledged is sent again.
Fairness == /\ \A c \in Calls : WF_vars(Handle(c))
            /\ \A m \in Messages : WF_vars(inbox[m] = "due" /\ \E c \in Calls : Deliver(c, m))

Spec == Init /\ [][Next]_vars /\ Fairness

-----------------------------------------------------------------------------
(* Properties *)

\* Who is told of a success has had the task executed to its end in the request, and
\* who is told of a failure has not.
Honest == \A c \in Calls : /\ answer[c] = "success" => task[c] = "DONE"
                           /\ answer[c] = "failure" => task[c] # "DONE"

\* A task that is neither executed nor queued when its request has ended, as are all
\* that the orchestrator should have split, is one the sender was told went wrong,
\* unless he could not be told anything.
NoSilentDrop == \A c \in Calls :
  pc[c] = "ended" /\ task[c] \in {"BACKLOG", "IN_PROGRESS"} /\ c \notin queued =>
    answer[c] \in {"failure", "sorry"} \/ c \in unheard

\* A message becomes a second task only if an answer came too late, Slack sent it as
\* two events, or a request for it ended without a result for its sender.
NotRepeated == \A m \in Messages :
  Cardinality({c \in Calls : m \in of[c] /\ task[c] # "none"}) > 1 =>
    \/ m \in late \cup twice
    \/ \E c \in Calls : m \in of[c] /\ pc[c] = "ended" /\ answer[c] \in {"none", "sorry"}

\* Whoever writes hears back, unless he cannot be told and his platform thinks that
\* the message was dealt with.
Answered == \A m \in Messages : inbox[m] = "flight" ~>
  \/ \E c \in Calls : m \in of[c] /\ answer[c] # "none"
  \/ inbox[m] = "closed" /\ \E c \in unheard : m \in of[c]
=============================================================================
