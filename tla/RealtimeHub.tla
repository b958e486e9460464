---------------------------- MODULE RealtimeHub ----------------------------
(***************************************************************************)
(* Live events: the WebSocket endpoints of the API processes, the set of   *)
(* connections each process broadcasts to, and the Redis channel that      *)
(* relays an event to the other processes (backend/app/core/realtime.py,   *)
(* backend/app/api/endpoints/websocket.py).                                *)
(*                                                                         *)
(* broadcast() iterates over active_connections, the set itself, with one  *)
(* await per connection.  What happens to the set meanwhile decides what   *)
(* the iteration does: Python's set iterator compares the size of the set  *)
(* with the size it began with, whenever it is asked for the next element, *)
(* and raises RuntimeError when they differ.  A join and a leave cancel    *)
(* out: the iterator goes on, over a table that may have been rebuilt, and *)
(* may skip an element or come to one twice.                               *)
(*                                                                         *)
(* A connection stands for one life of a socket, an event for one call of  *)
(* publish_event.  The processes that step through a broadcast are those   *)
(* calls and the Redis listener of each instance.  inbox, log, heardBy and *)
(* disturbed are history.                                                  *)
(***************************************************************************)
EXTENDS Naturals, FiniteSets, Sequences

CONSTANTS Instances,   \* processes of the application
          Alone,       \* sets of processes that may do without Redis: setup_redis failed,
                       \* or is not called, as in the task workers
          Conns,       \* WebSocket connections
          Home,        \* per connection, the instance it is made to
          Early,       \* the connections that are there before the first event
          Scoped,      \* connections of the agent and the task endpoint
          Events,      \* events ever published
          Origin,      \* per event, the instance it is published at
          Hears,       \* per event, the scoped connections that listen to its type
          About,       \* per event, those of Hears whose agent or task it names
          CutBound,    \* bound: connections that are lost
          FaultBound   \* bound: Redis connections and publications that fail

Proc == Events \cup Instances

ASSUME HubAssumption == /\ IsFiniteSet(Conns)
                        /\ \A off \in Alone : off \subseteq Instances
                        /\ Home \in [Conns -> Instances]
                        /\ Early \subseteq Conns
                        /\ Scoped \subseteq Conns
                        /\ Origin \in [Events -> Instances]
                        /\ Hears \in [Events -> SUBSET Scoped]
                        /\ About \in [Events -> SUBSET Scoped]
                        /\ \A e \in Events : About[e] \subseteq Hears[e]
                        /\ Events \cap Instances = {}
                        /\ CutBound \in Nat
                        /\ FaultBound \in Nat

VARIABLES ep,         \* per connection, where its endpoint is
          link,       \* per connection, its socket
          active,     \* per instance, active_connections
          listeners,  \* per instance, the connections with a registered listener
          pc,         \* per process, where it is
          left,       \* per process, what its iterator has yet to come to
          moved,      \* processes whose set has changed since they asked it for an element
          size,       \* per process, the size of the set when its iterator was made
          failed,     \* per process, `disconnected`
          channel,    \* per instance, the published events its listener has not done with
          inbox, log, heardBy, disturbed,  \* history
          cuts, faults  \* what the bounds count

sockets == <<ep, link>>
sets    == <<active, listeners>>
iters   == <<left, size, failed>>
redis   == <<channel, log, faults>>
vars    == <<ep, link, active, listeners, pc, left, moved, size, failed,
             channel, inbox, log, heardBy, disturbed, cuts, faults>>

\* A publishing call runs: "send" local broadcast, "publish" the call to Redis,
\* "notify" the local listeners, "tell" between two of them.
EventPCs == {"idle", "send", "publish", "notify", "tell", "done"}
\* A Redis listener: "off" when setup_redis failed or was never called, "idle"
\* in listen(), "ended" by an exception.
RelayPCs == {"off", "idle", "send", "ended"}

TypeOK == /\ ep \in [Conns -> {"new", "greeting", "serving", "gone"}]
          /\ link \in [Conns -> {"up", "cut"}]
          /\ active \in [Instances -> SUBSET Conns]
          /\ listeners \in [Instances -> SUBSET Scoped]
          /\ pc \in [Proc -> EventPCs \cup RelayPCs]
          /\ \A e \in Events : pc[e] \in EventPCs
          /\ \A i \in Instances : pc[i] \in RelayPCs
          /\ left \in [Proc -> SUBSET Conns]
          /\ moved \subseteq Proc
          /\ size \in [Proc -> Nat]
          /\ failed \in [Proc -> SUBSET Conns]
          /\ channel \in [Instances -> Seq(Events)]
          /\ inbox \in [Conns -> Seq(Events)]
          /\ log \in Seq(Events)
          /\ heardBy \in [Events -> SUBSET Conns]
          /\ disturbed \subseteq Events \X Instances
          /\ cuts \in 0 .. CutBound
          /\ faults \in 0 .. FaultBound

\* setup_redis has run or failed before the first client connects.
Init == /\ ep = [c \in Conns |-> IF c \in Early THEN "serving" ELSE "new"]
        /\ link = [c \in Conns |-> "up"]
        /\ active = [i \in Instances |-> {c \in Early : Home[c] = i}]
        /\ listeners = [i \in Instances |-> {c \in Early \cap Scoped : Home[c] = i}]
        /\ \E off \in Alone : pc = [p \in Proc |-> IF p \in off THEN "off" ELSE "idle"]
        /\ left = [p \in Proc |-> {}]
        /\ moved = {}
        /\ size = [p \in Proc |-> 0]
        /\ failed = [p \in Proc |-> {}]
        /\ channel = [i \in Instances |-> << >>]
        /\ inbox = [c \in Conns |-> << >>]
        /\ log = << >>
        /\ heardBy = [e \in Events |-> {}]
        /\ disturbed = {}
        /\ cuts = 0 /\ faults = 0

Place(p) == IF p \in Instances THEN p ELSE Origin[p]
Topic(p) == IF p \in Instances THEN Head(channel[p]) ELSE p

-----------------------------------------------------------------------------
(* The sets, and the iterations over them *)

\* The broadcasts under way at instance i.
Sending(i) == {p \in Proc : pc[p] = "send" /\ Place(p) = i}

\* The notifications under way that go over c's listener.
Telling(c) == {e \in Events : pc[e] = "tell" /\ Origin[e] = Home[c] /\ c \in Hears[e]}

\* The listeners of e's type at its instance.
Callbacks(e) == listeners[Origin[e]] \cap Hears[e]

\* The set changes under the processes of ps; own makes the step.
Touch(ps, own) ==
  /\ moved' = (moved \ own) \cup (ps \ own)
  /\ disturbed' = disturbed \cup {<<Topic(p), Place(p)>> : p \in ps \ own}

\* disconnect, for the connections of gone at instance i.
Leave(gone, i) == active' = [active EXCEPT ![i] = @ \ gone]
Left(gone, i)  == IF active[i] \cap gone = {} THEN {} ELSE Sending(i)

\* A message on a socket that is down raises, or is lost in a buffer.
MayRaise(c) == IF link[c] = "cut" THEN BOOLEAN ELSE {FALSE}
Deliver(c, e) == inbox' = IF link[c] = "up" THEN [inbox EXCEPT ![c] = Append(@, e)]
                          ELSE inbox

\* What p's iterator over the set s may have yet to come to: after a change that
\* left the size as it was, anything.
Ahead(p, s) == IF p \in moved THEN SUBSET s ELSE {left[p]}

-----------------------------------------------------------------------------
(* The endpoints *)

\* ConnectionManager.connect up to the await of its greeting.
Connect(c) == /\ ep[c] = "new"
              /\ ep' = [ep EXCEPT ![c] = "greeting"]
              /\ active' = [active EXCEPT ![Home[c]] = @ \cup {c}]
              /\ Touch(Sending(Home[c]), {})
              /\ UNCHANGED <<link, listeners, pc, iters, redis, inbox,
                             heardBy, cuts>>

\* add_listener, in the endpoints that have a listener.
Register(c) == listeners' = IF c \in Scoped
                            THEN [listeners EXCEPT ![Home[c]] = @ \cup {c}]
                            ELSE listeners

\* The greeting is sent or fails, and the endpoint goes on; a scoped one
\* registers its listener first.
Greet(c) == /\ ep[c] = "greeting"
            /\ ep' = [ep EXCEPT ![c] = "serving"]
            /\ \E raised \in MayRaise(c) :
                  LET gone == IF raised THEN {c} ELSE {} IN
                  /\ Leave(gone, Home[c])
                  /\ Touch(Left(gone, Home[c]) \cup IF c \in Scoped THEN Telling(c) ELSE {}, {})
            /\ Register(c)
            /\ UNCHANGED <<link, pc, iters, redis, inbox, heardBy, cuts>>

\* The client closes the connection or is lost.
Cut(c) == /\ link[c] = "up" /\ ep[c] \in {"greeting", "serving"}
          /\ cuts < CutBound
          /\ cuts' = cuts + 1
          /\ link' = [link EXCEPT ![c] = "cut"]
          /\ UNCHANGED <<ep, sets, pc, iters, moved, redis, inbox, heardBy,
                         disturbed>>

\* Mutant of Forget: the connection leaves the set, its listener stays.
ForgetSetOnly(c) == Leave({c}, Home[c]) /\ listeners' = listeners

\* remove_listener and disconnect, without an await between them.
Forget(c) == /\ Leave({c}, Home[c])
             /\ listeners' = [listeners EXCEPT ![Home[c]] = @ \ {c}]

\* The endpoint's receive raises WebSocketDisconnect.
Notice(c) == /\ ep[c] = "serving" /\ link[c] = "cut"
             /\ ep' = [ep EXCEPT ![c] = "gone"]
             /\ Forget(c)
             /\ Touch(Left({c}, Home[c]) \cup
                      IF c \in listeners[Home[c]] THEN Telling(c) ELSE {}, {})
             /\ UNCHANGED <<link, pc, iters, redis, inbox, heardBy, cuts>>

-----------------------------------------------------------------------------
(* broadcast *)

\* Mutant of Onward: a Redis listener publishes what it has relayed.
OnwardRepublishing(p) == IF p \notin Instances /\ pc[Origin[p]] = "off"
                         THEN "notify" ELSE "publish"

\* Where p is when its broadcast has come to its end.
Onward(p) == IF p \in Instances THEN "idle"
             ELSE IF pc[Origin[p]] = "off" THEN "notify" ELSE "publish"

\* The iterator and `disconnected` are gone with the call of broadcast.
Drop(p) == /\ left' = [left EXCEPT ![p] = {}]
           /\ size' = [size EXCEPT ![p] = 0]
           /\ failed' = [failed EXCEPT ![p] = {}]

\* Mutant of Consume: a message is broadcast again and again.
ConsumeNot(p) == channel' = channel

\* A Redis listener that has broadcast a message turns to the next.
Consume(p) == channel' = IF p \in Instances THEN [channel EXCEPT ![p] = Tail(@)] ELSE channel

\* Mutant of Remaining: the loop ends with the first send that raises.
RemainingUnlessRaised(rest, c, raised) == IF raised THEN {} ELSE rest \ {c}

\* A send that raises is caught in the loop.
Remaining(rest, c, raised) == rest \ {c}

\* p makes an iterator over the set of i and sends e to the first it comes to.
Begin(p, e, i) ==
  IF active[i] = {}
  THEN /\ pc' = [pc EXCEPT ![p] = Onward(p)]
       /\ Consume(p)
       /\ UNCHANGED <<iters, moved, inbox>>
  ELSE \E c \in active[i] : \E raised \in MayRaise(c) :
         /\ pc' = [pc EXCEPT ![p] = "send"]
         /\ left' = [left EXCEPT ![p] = Remaining(active[i], c, raised)]
         /\ size' = [size EXCEPT ![p] = Cardinality(active[i])]
         /\ failed' = [failed EXCEPT ![p] = IF raised THEN {c} ELSE {}]
         /\ moved' = moved \ {p}
         /\ Deliver(c, e)
         /\ channel' = channel

\* The size of the set is what it was when p's iteration began.
Intact(p) == Cardinality(active[Place(p)]) = size[p]

\* The next element: the message is sent to c.
Send(p) ==
  /\ pc[p] = "send" /\ Intact(p)
  /\ \E rest \in Ahead(p, active[Place(p)]) : \E c \in rest : \E raised \in MayRaise(c) :
        /\ left' = [left EXCEPT ![p] = Remaining(rest, c, raised)]
        /\ failed' = IF raised THEN [failed EXCEPT ![p] = @ \cup {c}] ELSE failed
        /\ moved' = moved \ {p}
        /\ Deliver(c, Topic(p))
  /\ UNCHANGED <<sockets, sets, pc, size, redis, heardBy, disturbed, cuts>>

\* No element is left: the connections that raised leave the set.
Finish(p) ==
  /\ pc[p] = "send" /\ Intact(p)
  /\ {} \in Ahead(p, active[Place(p)])
  /\ pc' = [pc EXCEPT ![p] = Onward(p)]
  /\ Leave(failed[p], Place(p))
  /\ Touch(Left(failed[p], Place(p)), {p})
  /\ Drop(p) /\ Consume(p)
  /\ UNCHANGED <<sockets, listeners, log, faults, inbox, heardBy, cuts>>

\* The iterator raises RuntimeError, and nothing is cleaned up.  From publish_event
\* it goes to the caller, and no other instance and no listener hears of the event;
\* in _redis_listener it ends the listener.
Tear(p) ==
  /\ pc[p] = "send" /\ ~ Intact(p)
  /\ pc' = [pc EXCEPT ![p] = IF p \in Instances THEN "ended" ELSE "done"]
  /\ channel' = IF p \in Instances THEN [channel EXCEPT ![p] = << >>] ELSE channel
  /\ moved' = moved \ {p}
  /\ Drop(p)
  /\ UNCHANGED <<sockets, sets, log, faults, inbox, heardBy, disturbed, cuts>>

-----------------------------------------------------------------------------
(* publish_event, and the listener of the Redis channel *)

\* A service calls publish_event: the local broadcast begins.  heardBy is everyone
\* who is connected to any instance.
Publish(e) ==
  /\ pc[e] = "idle"
  /\ heardBy' = [heardBy EXCEPT ![e] = UNION {active[i] : i \in Instances}]
  /\ Begin(e, e, Origin[e])
  /\ UNCHANGED <<sockets, sets, log, faults, disturbed, cuts>>

\* Mutant of Subscribers: an instance does not read back what it published.
OtherSubscribers(e) == {i \in Instances : pc[i] \in {"idle", "send"}} \ {Origin[e]}

\* The instances whose listener is subscribed to the channel.
Subscribers(e) == {i \in Instances : pc[i] \in {"idle", "send"}}

\* redis.publish: every subscriber gets the message, in one order.
ToRedis(e) ==
  /\ pc[e] = "publish"
  /\ pc' = [pc EXCEPT ![e] = "notify"]
  /\ log' = Append(log, e)
  /\ channel' = [i \in Instances |-> IF i \in Subscribers(e) THEN Append(channel[i], e)
                                     ELSE channel[i]]
  /\ UNCHANGED <<sockets, sets, iters, moved, inbox, heardBy, disturbed,
                 cuts, faults>>

\* redis.publish raises: logged, and the local listeners are notified all the same.
ToRedisFails(e) ==
  /\ pc[e] = "publish"
  /\ faults < FaultBound
  /\ faults' = faults + 1
  /\ pc' = [pc EXCEPT ![e] = "notify"]
  /\ UNCHANGED <<sockets, sets, iters, moved, channel, log, inbox, heardBy,
                 disturbed, cuts>>

\* One personal message of _notify_listeners: when it raises, c is disconnected.
\* rest is what the iterator has yet to come to, of the callbacks that send.
Tell(e, c, rest) ==
  \E raised \in MayRaise(c) :
     LET gone == IF raised THEN {c} ELSE {} IN
     /\ pc' = [pc EXCEPT ![e] = "tell"]
     /\ left' = [left EXCEPT ![e] = rest]
     /\ Leave(gone, Origin[e])
     /\ Touch(Left(gone, Origin[e]), {e})
     /\ Deliver(c, e)

\* _notify_listeners up to the first callback that sends; the callbacks of other
\* agents and tasks return at once.
Notify(e) ==
  /\ pc[e] = "notify"
  /\ \E c \in Callbacks(e) \cap About[e] : Tell(e, c, (Callbacks(e) \cap About[e]) \ {c})
  /\ size' = [size EXCEPT ![e] = Cardinality(Callbacks(e))]
  /\ UNCHANGED <<sockets, listeners, failed, redis, heardBy, cuts>>

\* The next callback that sends.
NotifyNext(e) ==
  /\ pc[e] = "tell" /\ Cardinality(Callbacks(e)) = size[e]
  /\ \E rest \in Ahead(e, Callbacks(e) \cap About[e]) :
     \E c \in rest : Tell(e, c, rest \ {c})
  /\ UNCHANGED <<sockets, listeners, size, failed, redis, heardBy, cuts>>

\* No callback is left that sends, or the iterator over the callbacks raises:
\* publish_event is over either way.
NotifyEnd(e) ==
  /\ \/ pc[e] = "notify" /\ Callbacks(e) \cap About[e] = {}
     \/ pc[e] = "tell" /\ Cardinality(Callbacks(e)) # size[e]
     \/ pc[e] = "tell" /\ {} \in Ahead(e, Callbacks(e) \cap About[e])
  /\ pc' = [pc EXCEPT ![e] = "done"]
  /\ Drop(e)
  /\ moved' = moved \ {e}
  /\ UNCHANGED <<sockets, sets, redis, inbox, heardBy, disturbed, cuts>>

\* _redis_listener: the next message of the channel is broadcast to the clients
\* of this instance, whoever published it.
Relay(i) ==
  /\ pc[i] = "idle" /\ channel[i] # << >>
  /\ Begin(i, Head(channel[i]), i)
  /\ UNCHANGED <<sockets, sets, log, faults, heardBy, disturbed, cuts>>

\* The connection to Redis breaks: listen() raises, and nothing starts it again.
RelayEnds(i) ==
  /\ pc[i] = "idle"
  /\ faults < FaultBound
  /\ faults' = faults + 1
  /\ pc' = [pc EXCEPT ![i] = "ended"]
  /\ channel' = [channel EXCEPT ![i] = << >>]
  /\ UNCHANGED <<sockets, sets, iters, moved, log, inbox, heardBy, disturbed, cuts>>

-----------------------------------------------------------------------------
(* The specification *)

\* What process p does when it is its turn.
Advance(p) == \/ Send(p) \/ Finish(p) \/ Tear(p)
              \/ p \in Events /\ (ToRedis(p) \/ Notify(p) \/ NotifyNext(p) \/ NotifyEnd(p))
              \/ p \in Instances /\ Relay(p)

Next == \/ \E c \in Conns : Connect(c) \/ Greet(c) \/ Cut(c) \/ Notice(c)
        \/ \E e \in Events : Publish(e) \/ ToRedisFails(e)
        \/ \E i \in Instances : RelayEnds(i)
        \/ \E p \in Proc : Advance(p)

Spec == Init /\ [][Next]_vars

-----------------------------------------------------------------------------
(* Properties *)

Count(s, e) == Cardinality({k \in DOMAIN s : s[k] = e})
Elements(s) == {s[k] : k \in DOMAIN s}

\* The broadcast of e at instance i has come to its end.
Passed(e, i) == IF i = Origin[e] THEN pc[e] \in {"publish", "notify", "tell", "done"}
                ELSE /\ e \in Elements(log)
                     /\ pc[i] \in {"idle", "send"}
                     /\ e \notin Elements(channel[i])

\* Whom an event is for: the clients of the general endpoint, and of the agent and
\* the task endpoint those whose agent or task it names.
For(e) == (Conns \ Scoped) \cup About[e]

\* A client that is in the set when an event for it is published and is still up
\* gets it, once the broadcast at its instance is over, unless the set changed
\* under a broadcast of that event there; and nothing else than such a change and
\* the loss of Redis ends the relay: no client that is down costs others an event.
Heard == /\ \A e \in Events : \A c \in heardBy[e] \cap For(e) :
               /\ link[c] = "up"
               /\ <<e, Home[c]>> \notin disturbed
               /\ Passed(e, Home[c])
               => e \in Elements(inbox[c])
         /\ \A i \in Instances : pc[i] = "ended" =>
               faults > 0 \/ \E e \in Events : <<e, i>> \in disturbed

\* "Only receives events related to the specified agent", or task: a client gets no
\* event that is not for it.
OnlyRelated == \A c \in Conns : \A e \in Elements(inbox[c]) : c \in For(e)

\* A client gets an event once; twice where it was published through Redis, for
\* the instance hears its own message; and once more if its endpoint follows the
\* agent or task the event names.  Only a set that changed under an iteration
\* can add to that.
Copies == \A e \in Events, c \in Conns :
             <<e, Home[c]>> \notin disturbed =>
                Count(inbox[c], e) <=
                   (IF Home[c] = Origin[e] /\ e \in Elements(log) THEN 2 ELSE 1)
                   + (IF c \in About[e] /\ Home[c] = Origin[e] THEN 1 ELSE 0)

\* A connection whose endpoint has ended is in no set, and one that is served
\* and up is in its own: broadcasts and clean-ups do not drop the living.
Members == \A c \in Conns :
             /\ ep[c] = "gone" => \A i \in Instances : c \notin active[i] \cup listeners[i]
             /\ ep[c] = "serving" /\ link[c] = "up" => c \in active[Home[c]]

\* The Redis listener of i is at work.
Runs(i) == pc[i] \in {"idle", "send"}

\* The client was connected before any event that went through Redis was published, and
\* the set of its instance has not changed under a broadcast of one.
Faithful(c) == /\ c \notin Scoped /\ link[c] = "up"
               /\ Runs(Home[c])
               /\ \A e \in Elements(log) : /\ c \in heardBy[e]
                                           /\ <<e, Home[c]>> \notin disturbed

\* How many of the events that went through Redis i has done with, and how many of
\* them have come to c.
Relayed(i) == Len(log) - Len(channel[i])
Reached(c) == IF pc[Home[c]] = "send" /\ c \notin left[Home[c]] THEN Relayed(Home[c]) + 1
              ELSE Relayed(Home[c])

\* The first d events of l are in s, in their order.
Follows(s, l, d) == \E at \in [1 .. d -> DOMAIN s] :
                       /\ \A k \in 1 .. d : s[at[k]] = l[k]
                       /\ \A j, k \in 1 .. d : j < k => at[j] < at[k]

\* Of the first d events of l, the last in s is the d-th.
LastOf(s, l, d) == \E p \in DOMAIN s :
                      /\ s[p] = l[d]
                      /\ \A k \in DOMAIN s, j \in 1 .. d : k > p => s[k] # l[j]

\* A faithful client has got, in the order of the Redis channel, every event that has
\* come to it from there: whatever the local broadcasts of the publishing calls bring
\* it before or after, it can follow the one order that all instances see.
InOrder == \A c \in Conns : Faithful(c) => Follows(inbox[c], log, Reached(c))

\* And of these the last that it got is the last in that order: faithful clients of
\* different instances that have caught up agree on the last word.
LastWord == \A c \in Conns : Faithful(c) /\ Reached(c) > 0 => LastOf(inbox[c], log, Reached(c))

\* How far each listener is, and how far each faithful client.
DoneBy == [i \in {i \in Instances : Runs(i)} |-> Relayed(i)]
GotBy  == [c \in {c \in Conns : Faithful(c)} |-> Reached(c)]

\* The relay as its clients see it: one order for all, and no event skipped or given
\* twice to a faithful client, whatever the other processes do meanwhile.
Ordering == INSTANCE OrderedRelay WITH place <- DoneBy, reached <- GotBy
OneOrder == Ordering!Spec
=============================================================================
