---------------------------- MODULE AtLeastOnce ----------------------------
(***************************************************************************)
(* What the task queue promises to whoever calls submit_task: a submitted  *)
(* message stays open until an attempt at it has come to a result, it has  *)
(* been written to the dead-letter stream, or it turned out to carry no    *)
(* task; a message is dead-lettered only when its attempts have raised     *)
(* MaxRetries times.  Nothing is said of how often or by whom a message is *)
(* attempted: a message may be attempted many times, concurrently, and     *)
(* even after it was closed.                                               *)
(***************************************************************************)
EXTENDS Naturals

CONSTANTS Msgs,        \* the messages that may be submitted
          NoTask,      \* the messages that carry no task_id
          MaxRetries   \* raised attempts after which a message is dead-lettered

VARIABLES submitted,   \* messages handed to the queue
          closed,      \* messages the queue will not deliver again
          done,        \* messages some attempt at which came to a result
          failures,    \* per message, the attempts that raised
          dead         \* per message, its entries in the dead-letter stream

vars == <<submitted, closed, done, failures, dead>>

\* The queue may forget m: nothing of it would be lost.
Accounted(m) == m \in done \/ m \in NoTask \/ dead[m] > 0

Init == /\ submitted = {}
        /\ closed = {}
        /\ done = {}
        /\ failures = [m \in Msgs |-> 0]
        /\ dead = [m \in Msgs |-> 0]

Submit(m) == /\ m \notin submitted
             /\ submitted' = submitted \cup {m}
             /\ UNCHANGED <<closed, done, failures, dead>>

\* An attempt at m comes to a result, good or bad.
Finish(m) == /\ m \in submitted \ NoTask
             /\ done' = done \cup {m}
             /\ UNCHANGED <<submitted, closed, failures, dead>>

\* An attempt at m raises.
Raise(m) == /\ m \in submitted \ NoTask
            /\ failures' = [failures EXCEPT ![m] = @ + 1]
            /\ UNCHANGED <<submitted, closed, done, dead>>

DeadLetter(m) == /\ m \in submitted
                 /\ failures[m] >= MaxRetries
                 /\ dead' = [dead EXCEPT ![m] = @ + 1]
                 /\ UNCHANGED <<submitted, closed, done, failures>>

Close(m) == /\ m \in submitted
            /\ Accounted(m)
            /\ closed' = closed \cup {m}
            /\ UNCHANGED <<submitted, done, failures, dead>>

Next == \E m \in Msgs : \/ Submit(m) \/ Finish(m) \/ Raise(m)
                        \/ DeadLetter(m) \/ Close(m)

Spec == Init /\ [][Next]_vars

\* Every submitted message is closed in the end.
Delivery == \A m \in Msgs : m \in submitted ~> m \in closed
=============================================================================
