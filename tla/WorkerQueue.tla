---------------------------- MODULE WorkerQueue ----------------------------
(***************************************************************************)
(* The task queue: producers append to a Redis stream, worker processes    *)
(* read it through one consumer group (backend/app/worker.py).             *)
(*                                                                         *)
(* Each worker process runs two coroutines that both handle messages: the  *)
(* main loop reads one new message at a time, and the claim loop takes     *)
(* over messages that have been pending for a minute and handles them one  *)
(* after the other.  Every call to Redis is a step of its own, so other    *)
(* loops, a crash and an unreachable Redis come between any two of them.   *)
(*                                                                         *)
(* A message is its position in the stream.  Entries are never deleted     *)
(* from the stream, so the stream is its length and the group's cursor.    *)
(* done and failures are history: what the attempts came to.               *)
(***************************************************************************)
EXTENDS Naturals, FiniteSets

CONSTANTS Worker,       \* worker processes
          MaxMsgs,      \* bound: entries ever appended to the stream
          NoTask,       \* the entries without a task_id
          MaxRetries,   \* TaskWorker.MAX_RETRIES
          ClaimCount,   \* the count argument of XAUTOCLAIM
          FailBound,    \* bound: attempts at one message that raise
          CrashBound,   \* bound: worker stops and crashes
          OutageBound   \* bound: Redis calls that raise

Msgs == 1 .. MaxMsgs
Loop == {"main", "claim"}
Proc == Worker \X Loop

ASSUME QueueAssumption == /\ IsFiniteSet(Worker)
                          /\ MaxMsgs \in Nat
                          /\ NoTask \subseteq Msgs
                          /\ MaxRetries \in Nat \ {0}
                          /\ ClaimCount \in Nat \ {0}
                          /\ FailBound \in Nat
                          /\ CrashBound \in Nat
                          /\ OutageBound \in Nat

VARIABLES added,     \* length of the stream
          cursor,    \* last entry the group has delivered
          pending,   \* the group's pending entries list
          owner,     \* per message, the running consumer it is pending for ({}: none)
          idle,      \* pending messages delivered more than 60 s ago
          retries,   \* the retry hash; 0 is an absent field
          dead,      \* per message, its entries in the dead-letter stream
          up,        \* workers whose process runs
          pc,        \* per loop, the call it makes next
          msg,       \* per loop, the message it handles (0: none yet)
          batch,     \* per worker, claimed messages its claim loop still has
          done, failures,   \* history
          crashes, outages  \* what the bounds count

stream == <<added, cursor, pending, owner, idle>>
loops  == <<pc, msg, batch>>
counts == <<crashes, outages>>
vars   == <<added, cursor, pending, owner, idle, retries, dead, up, pc, msg,
            batch, done, failures, crashes, outages>>

\* poll: waiting for a message; then the Redis call that comes next, or
\* "exec" while the task runs.
Calls == {"ack", "hincrby", "xadd_dead", "ack_dead", "hdel"}
PCs   == {"poll", "exec"} \cup Calls

StreamOK == /\ added \in 0 .. MaxMsgs
            /\ cursor \in 0 .. added
            /\ pending \subseteq 1 .. cursor
            /\ owner \in [Msgs -> SUBSET Worker]
            /\ idle \subseteq pending

LoopsOK == /\ up \subseteq Worker
           /\ pc \in [Proc -> PCs]
           /\ msg \in [Proc -> 0 .. MaxMsgs]
           /\ \A p \in Proc : pc[p] = "poll" \/ msg[p] # 0
           /\ batch \in [Worker -> SUBSET Msgs]

RecordsOK == /\ retries \in [Msgs -> Nat]
             /\ dead \in [Msgs -> Nat]
             /\ done \subseteq Msgs
             /\ failures \in [Msgs -> Nat]

TypeOK == /\ StreamOK
          /\ LoopsOK
          /\ RecordsOK
          /\ crashes \in 0 .. CrashBound
          /\ outages \in 0 .. OutageBound

Init == /\ added = 0 /\ cursor = 0
        /\ pending = {} /\ idle = {}
        /\ owner = [m \in Msgs |-> {}]
        /\ retries = [m \in Msgs |-> 0]
        /\ dead = [m \in Msgs |-> 0]
        /\ up = {}
        /\ pc = [p \in Proc |-> "poll"]
        /\ msg = [p \in Proc |-> 0]
        /\ batch = [w \in Worker |-> {}]
        /\ done = {}
        /\ failures = [m \in Msgs |-> 0]
        /\ crashes = 0 /\ outages = 0

-----------------------------------------------------------------------------
(* Producers and processes *)

\* TaskQueue.submit_task: XADD.
Submit == /\ added < MaxMsgs
          /\ added' = added + 1
          /\ UNCHANGED <<cursor, pending, owner, idle, retries, dead, up, loops,
                         done, failures, counts>>

\* TaskWorker.start: the group exists (created from entry 0), both loops poll.
Start(w) == /\ w \notin up
            /\ up' = up \cup {w}
            /\ UNCHANGED <<stream, retries, dead, loops, done, failures, counts>>

\* The process ends, by shutdown() or by a crash: what the loops held is
\* dropped where it stands and stays pending in the group, for a consumer
\* whose name (worker-<start time>) no later process takes.
Stop(w) == /\ w \in up
           /\ crashes < CrashBound
           /\ crashes' = crashes + 1
           /\ up' = up \ {w}
           /\ pc' = [p \in Proc |-> IF p[1] = w THEN "poll" ELSE pc[p]]
           /\ msg' = [p \in Proc |-> IF p[1] = w THEN 0 ELSE msg[p]]
           /\ batch' = [batch EXCEPT ![w] = {}]
           /\ owner' = [m \in Msgs |-> owner[m] \ {w}]
           /\ UNCHANGED <<added, cursor, pending, idle, retries, dead, done,
                          failures, outages>>

\* A minute passes since m was last delivered.
Age(m) == /\ m \in pending \ idle
          /\ idle' = idle \cup {m}
          /\ UNCHANGED <<added, cursor, pending, owner, retries, dead, up, loops,
                         done, failures, counts>>

-----------------------------------------------------------------------------
(* Delivery *)

\* Mutant of Handle: a message is acknowledged on delivery, whatever becomes of it.
AckOnDelivery(p, m) == /\ pc' = [pc EXCEPT ![p] = "ack"]
                       /\ msg' = [msg EXCEPT ![p] = m]

\* _process_message up to its first await: an entry without a task_id is
\* acknowledged, any other is executed.
Handle(p, m) == /\ pc' = [pc EXCEPT ![p] = IF m \in NoTask THEN "ack" ELSE "exec"]
                /\ msg' = [msg EXCEPT ![p] = m]

\* XREADGROUP with ">": the next entry becomes pending for w.
Deliver(w) == /\ cursor < added
              /\ cursor' = cursor + 1
              /\ pending' = pending \cup {cursor + 1}
              /\ owner' = [owner EXCEPT ![cursor + 1] = {w}]
              /\ UNCHANGED <<added, idle>>

Read(w) == LET p == <<w, "main">> IN
           /\ w \in up
           /\ pc[p] = "poll"
           /\ Deliver(w)
           /\ Handle(p, cursor + 1)
           /\ UNCHANGED <<retries, dead, up, batch, done, failures, counts>>

\* XAUTOCLAIM from the start of the list: the first ClaimCount entries that
\* have been idle for a minute, whoever owns them.
FirstIdle == {m \in idle : Cardinality({k \in idle : k < m}) < ClaimCount}

TakeOver(w) == /\ FirstIdle # {}
               /\ idle' = idle \ FirstIdle
               /\ owner' = [m \in Msgs |-> IF m \in FirstIdle THEN {w} ELSE owner[m]]
               /\ UNCHANGED <<added, cursor, pending>>

\* Mutant of Claim: messages still owned by the claiming worker are left alone.
ClaimForeign(w) == /\ w \in up
                   /\ pc[<<w, "claim">>] = "poll"
                   /\ batch[w] = {}
                   /\ \A m \in FirstIdle : w \notin owner[m]
                   /\ TakeOver(w)
                   /\ batch' = [batch EXCEPT ![w] = FirstIdle]
                   /\ UNCHANGED <<retries, dead, up, pc, msg, done, failures, counts>>

Claim(w) == /\ w \in up
            /\ pc[<<w, "claim">>] = "poll"
            /\ batch[w] = {}
            /\ TakeOver(w)
            /\ batch' = [batch EXCEPT ![w] = FirstIdle]
            /\ UNCHANGED <<retries, dead, up, pc, msg, done, failures, counts>>

\* The claim loop goes on to the next message of its batch, in stream order;
\* it does not look whether the message is still pending, or still its own.
NextClaimed(w) == LET p == <<w, "claim">> IN
                  /\ w \in up
                  /\ pc[p] = "poll"
                  /\ \E m \in batch[w] :
                       /\ \A k \in batch[w] : m <= k
                       /\ batch' = [batch EXCEPT ![w] = @ \ {m}]
                       /\ Handle(p, m)
                  /\ UNCHANGED <<stream, retries, dead, up, done, failures, counts>>

-----------------------------------------------------------------------------
(* Handling one message; p is the loop that does it *)

\* Loop p goes on to call l; back at "poll" it holds no message.
Goto(p, l) == /\ pc' = [pc EXCEPT ![p] = l]
              /\ msg' = [msg EXCEPT ![p] = IF l = "poll" THEN 0 ELSE @]

\* _execute_task returns a result: a task that failed counts like one that
\* succeeded, because every exception of the execution becomes a result.
Result(p) == /\ pc[p] = "exec"
             /\ Goto(p, "ack")
             /\ done' = done \cup {msg[p]}
             /\ UNCHANGED <<stream, retries, dead, up, batch, failures, counts>>

\* An exception leaves _execute_task (its session cannot be opened or rolled
\* back) or comes before it (the task_id is no UUID).
Raise(p) == /\ pc[p] = "exec"
            /\ failures[msg[p]] < FailBound
            /\ Goto(p, "hincrby")
            /\ failures' = [failures EXCEPT ![msg[p]] = @ + 1]
            /\ UNCHANGED <<stream, retries, dead, up, batch, done, counts>>

\* XACK takes the message off the list whoever owns it.
Acked(m) == /\ pending' = pending \ {m}
            /\ idle' = idle \ {m}
            /\ owner' = [owner EXCEPT ![m] = {}]
            /\ UNCHANGED <<added, cursor>>

Ack(p) == /\ pc[p] = "ack"
          /\ Acked(msg[p])
          /\ Goto(p, "poll")
          /\ UNCHANGED <<retries, dead, up, batch, done, failures, counts>>

\* _handle_retry, call by call: count the failure, and at the limit write the
\* dead letter, acknowledge the message and drop its count.
Retried(m) == retries' = [retries EXCEPT ![m] = @ + 1]

\* Mutant of Exhausted: the limit is met one failure too early.
ExhaustedEarly(m) == retries[m] + 2 >= MaxRetries

Exhausted(m) == retries[m] + 1 >= MaxRetries

\* Mutant of CountRetry: the message is acknowledged before its dead letter.
AckBeforeBurial(p) ==
  /\ pc[p] = "hincrby"
  /\ Retried(msg[p])
  /\ Goto(p, IF Exhausted(msg[p]) THEN "ack_dead" ELSE "poll")
  /\ UNCHANGED <<stream, dead, up, batch, done, failures, counts>>

CountRetry(p) == /\ pc[p] = "hincrby"
                 /\ Retried(msg[p])
                 /\ Goto(p, IF Exhausted(msg[p]) THEN "xadd_dead" ELSE "poll")
                 /\ UNCHANGED <<stream, dead, up, batch, done, failures, counts>>

Buried(m) == dead' = [dead EXCEPT ![m] = @ + 1]

DeadLetter(p) == /\ pc[p] = "xadd_dead"
                 /\ Buried(msg[p])
                 /\ Goto(p, "ack_dead")
                 /\ UNCHANGED <<stream, retries, up, batch, done, failures, counts>>

AckDead(p) == /\ pc[p] = "ack_dead"
              /\ Acked(msg[p])
              /\ Goto(p, "hdel")
              /\ UNCHANGED <<retries, dead, up, batch, done, failures, counts>>

ForgetRetries(p) == /\ pc[p] = "hdel"
                    /\ retries' = [retries EXCEPT ![msg[p]] = 0]
                    /\ Goto(p, "poll")
                    /\ UNCHANGED <<stream, dead, up, batch, done, failures, counts>>

-----------------------------------------------------------------------------
(* Redis calls that raise *)

Outage == outages < OutageBound /\ outages' = outages + 1

\* Mutant of Refused: a dead letter that could not be written is acknowledged.
RefusedGoesOn(p) ==
  /\ pc[p] \in Calls
  /\ Outage
  /\ Goto(p, CASE pc[p] = "xadd_dead" -> "ack_dead"
               [] pc[p] = "ack_dead" -> "hdel"
               [] OTHER -> "poll")
  /\ UNCHANGED <<stream, retries, dead, up, batch, done, failures, crashes>>

\* The call has no effect.  _ack_message swallows the error, so a dead letter's
\* count is dropped all the same; elsewhere the handler gives up.
Refused(p) == /\ pc[p] \in Calls
              /\ Outage
              /\ Goto(p, IF pc[p] = "ack_dead" THEN "hdel" ELSE "poll")
              /\ UNCHANGED <<stream, retries, dead, up, batch, done, failures, crashes>>

\* The call takes effect but its reply is lost, and the handler gives up.
ReplyLost(p) == /\ \/ pc[p] = "hincrby" /\ Retried(msg[p]) /\ UNCHANGED dead
                   \/ pc[p] = "xadd_dead" /\ Buried(msg[p]) /\ UNCHANGED retries
                /\ Outage
                /\ Goto(p, "poll")
                /\ UNCHANGED <<stream, up, batch, done, failures, crashes>>

\* XREADGROUP or XAUTOCLAIM takes effect but its reply is lost: the messages
\* are pending for a worker that never sees them.
DeliveryLost(w) == /\ w \in up
                   /\ \/ pc[<<w, "main">>] = "poll" /\ Deliver(w)
                      \/ pc[<<w, "claim">>] = "poll" /\ batch[w] = {} /\ TakeOver(w)
                   /\ Outage
                   /\ UNCHANGED <<retries, dead, up, loops, done, failures, crashes>>

-----------------------------------------------------------------------------
\* A step of the loop p on the message it holds.
Work(p) == \/ Result(p) \/ Raise(p) \/ Ack(p)
           \/ CountRetry(p) \/ DeadLetter(p) \/ AckDead(p) \/ ForgetRetries(p)
           \/ Refused(p) \/ ReplyLost(p)

Next == \/ Submit
        \/ \E w \in Worker : \/ Start(w) \/ Stop(w)
                              \/ Read(w) \/ Claim(w) \/ NextClaimed(w)
                              \/ DeliveryLost(w)
        \/ \E p \in Proc : Work(p)
        \/ \E m \in Msgs : Age(m)

Spec == Init /\ [][Next]_vars

\* A stopped worker is started again (the worker service restarts unless
\* stopped), its loops keep polling, time passes, and an attempt ends: the
\* agent loop has at most max_iterations rounds.
Fairness == /\ \A w \in Worker : /\ WF_vars(Start(w))
                                 /\ WF_vars(Read(w))
                                 /\ WF_vars(Claim(w))
                                 /\ WF_vars(NextClaimed(w))
            /\ \A p \in Proc : WF_vars(Work(p))
            /\ \A m \in Msgs : WF_vars(Age(m))

FairSpec == Spec /\ Fairness

-----------------------------------------------------------------------------
(* Properties *)

Submitted == 1 .. added
Closed    == {m \in 1 .. cursor : m \notin pending}

\* No task is lost: a message leaves the pending list only when an attempt at
\* it came to a result, it is in the dead-letter stream, or it has no task_id;
\* whatever crashes, claims and failing Redis calls come between the steps.
NoTaskLost == \A m \in Closed : m \in done \/ m \in NoTask \/ dead[m] > 0

\* A dead letter is paid for by raised attempts: the first one of a message by
\* MaxRetries of them, each further one by one more, even when several loops
\* attempt the message at once and its count is lost or dropped half-way.
DeadLettersPaid ==
  \A m \in Msgs : dead[m] > 0 => dead[m] + MaxRetries - 1 <= failures[m]

\* The loops about to make call l on m.
At(l, m) == {p \in Proc : pc[p] = l /\ msg[p] = m}

\* Raised attempts are not counted twice: those in the retry hash and those
\* about to be counted are different ones.
RetriesCounted ==
  \A m \in Msgs : retries[m] + Cardinality(At("hincrby", m)) <= failures[m]

\* DeadLettersPaid, with the dead letters about to be written and the raised
\* attempts not counted yet.
BurialsPaid ==
  \A m \in Msgs :
    LET buried == dead[m] + Cardinality(At("xadd_dead", m)) IN
    buried > 0 => buried + Cardinality(At("hincrby", m)) + MaxRetries - 1 <= failures[m]

\* What a loop is about to do is justified by what it has done: it acknowledges
\* what it finished, and acknowledges a dead letter after it was written.
LoopJustified ==
  \A p \in Proc :
    LET m == msg[p] IN
    /\ pc[p] = "poll" <=> m = 0
    /\ pc[p] # "poll" => m \in 1 .. cursor
    /\ pc[p] \in {"exec", "hincrby", "xadd_dead"} => m \notin NoTask
    /\ pc[p] = "ack" => m \in done \cup NoTask
    /\ pc[p] \in {"ack_dead", "hdel"} => dead[m] > 0

BatchDelivered == \A w \in Worker : batch[w] \subseteq 1 .. cursor

\* The strengthening that makes NoTaskLost and DeadLettersPaid inductive.
IInv == /\ TypeOK
        /\ NoTaskLost
        /\ RetriesCounted
        /\ BurialsPaid
        /\ LoopJustified
        /\ BatchDelivered

\* The queue is at-least-once: every step is a step of the contract or none.
Contract == INSTANCE AtLeastOnce WITH submitted <- Submitted, closed <- Closed
Refinement == Contract!Spec

\* Every submitted message is closed in the end, across crashes and outages.
Delivery == Contract!Delivery
=============================================================================
