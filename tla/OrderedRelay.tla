--------------------------- MODULE OrderedRelay ---------------------------
(***************************************************************************)
(* What the relay through Redis promises to the clients of all instances:  *)
(* the events that go through it have one order, every instance follows it *)
(* from the start until its listener is lost, and hands each event to all  *)
(* the clients it serves before it turns to the next.  A client may cease  *)
(* to be served, for reasons that are none of this module's, and is then   *)
(* promised nothing any more.                                              *)
(***************************************************************************)
EXTENDS Naturals, Sequences

CONSTANTS Instances, Conns, Events,
          Home         \* per client, the instance that serves it

VARIABLES log,         \* the events that went through the relay, in its order
          place,       \* per instance that follows it, how many of them it is done with
          reached      \* per client served, how many of them it was handed

vars == <<log, place, reached>>

Init == /\ log = << >>
        /\ \E following \in SUBSET Instances : place = [i \in following |-> 0]
        /\ \E served \in SUBSET {c \in Conns : Home[c] \in DOMAIN place} :
              reached = [c \in served |-> 0]

\* No client is handed anything; some may cease to be served.
Rest == \/ reached' = reached
        \/ /\ DOMAIN reached' \subseteq DOMAIN reached
           /\ \A c \in DOMAIN reached' : reached'[c] = reached[c]

Release == UNCHANGED <<log, place>> /\ Rest

\* c is handed the next event of its instance.
Serve(c) == /\ UNCHANGED <<log, place>>
            /\ c \in DOMAIN reached
            /\ reached[c] = place[Home[c]]
            /\ reached[c] < Len(log)
            /\ reached' = [reached EXCEPT ![c] = @ + 1]

\* i is done with an event: every client that it serves was handed it.
Pass(i) == /\ log' = log
           /\ i \in DOMAIN place
           /\ place[i] < Len(log)
           /\ \A c \in DOMAIN reached : Home[c] = i => reached[c] = place[i] + 1
           /\ place' = [place EXCEPT ![i] = @ + 1]
           /\ Rest

\* i is lost, and whom it served with it.
Lose(i) == /\ log' = log
           /\ i \in DOMAIN place
           /\ place' = [j \in DOMAIN place \ {i} |-> place[j]]
           /\ \A c \in DOMAIN reached' : Home[c] # i
           /\ Rest

\* An event that has not been through it goes through the relay.
Publish(e) == /\ log' = Append(log, e)
              /\ \A k \in DOMAIN log : log[k] # e
              /\ place' = place
              /\ Rest

Next == \/ Release
        \/ \E c \in Conns : Serve(c)
        \/ \E i \in Instances : Pass(i) \/ Lose(i)
        \/ \E e \in Events : Publish(e)

Spec == Init /\ [][Next]_vars
=============================================================================
