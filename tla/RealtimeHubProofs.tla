------------------------- MODULE RealtimeHubProofs -------------------------
(***************************************************************************)
(* Proofs about RealtimeHub for any instances, connections and events.     *)
(***************************************************************************)
EXTENDS RealtimeHub, FiniteSetTheorems, SequenceTheorems, TLAPS

-----------------------------------------------------------------------------
(* Type correctness *)

\* The types of the endpoints and their sets, of the processes, of their iterators,
\* of the channels, and of what is counted.
EndsOK == /\ ep \in [Conns -> {"new", "greeting", "serving", "gone"}]
          /\ link \in [Conns -> {"up", "cut"}]
          /\ active \in [Instances -> SUBSET Conns]
          /\ listeners \in [Instances -> SUBSET Scoped]

ProcOK == /\ pc \in [Proc -> EventPCs \cup RelayPCs]
          /\ \A e \in Events : pc[e] \in EventPCs
          /\ \A i \in Instances : pc[i] \in RelayPCs

ItersOK == /\ left \in [Proc -> SUBSET Conns]
           /\ size \in [Proc -> Nat]
           /\ failed \in [Proc -> SUBSET Conns]

\* A Redis listener that sends has the message at the head of its channel.
ChannelsOK == /\ channel \in [Instances -> Seq(Events)]
              /\ \A i \in Instances : pc[i] = "send" => channel[i] # << >>

MovedOK == /\ moved \subseteq Proc
           /\ disturbed \subseteq Events \X Instances

HistoryOK == /\ inbox \in [Conns -> Seq(Events)]
             /\ log \in Seq(Events)
             /\ heardBy \in [Events -> SUBSET Conns]
             /\ cuts \in 0 .. CutBound
             /\ faults \in 0 .. FaultBound

IInv == EndsOK /\ ProcOK /\ ItersOK /\ ChannelsOK /\ MovedOK /\ HistoryOK

LEMMA Types == IInv => TypeOK
BY DEF IInv, EndsOK, ProcOK, ItersOK, ChannelsOK, MovedOK, HistoryOK, TypeOK

LEMMA Places ==
  ASSUME NEW p \in Proc
  PROVE  Place(p) \in Instances /\ (p \in Events => p \notin Instances)
BY HubAssumption DEF Place, Proc

\* The event a process that sends, or any publishing call, is about.
LEMMA Topics ==
  ASSUME IInv, NEW p \in Proc, p \in Events \/ pc[p] = "send"
  PROVE  Topic(p) \in Events
<1>1. CASE p \in Instances
  <2>1. p \notin Events BY <1>1, HubAssumption
  <2>2. channel[p] \in Seq(Events) /\ channel[p] # << >>
    BY <1>1, <2>1 DEF IInv, ChannelsOK
  <2>3. QED BY <1>1, <2>2, HeadTailProperties DEF Topic
<1>2. CASE p \notin Instances
  BY <1>2 DEF Topic, Proc
<1>3. QED BY <1>1, <1>2

\* The processes that a change of a set may upset.
Upset == {p \in Proc : p \in Events \/ pc[p] = "send"}

LEMMA UpsetAre ==
  /\ \A i \in Instances : Sending(i) \subseteq Upset
  /\ \A i \in Instances : \A gone : Left(gone, i) \subseteq Upset
  /\ \A c \in Conns : Telling(c) \subseteq Upset
BY DEF Upset, Sending, Left, Telling, Proc

LEMMA TouchType ==
  ASSUME IInv, NEW ps \in SUBSET Upset, NEW own, Touch(ps, own)
  PROVE  MovedOK'
<1>1. \A p \in ps : Topic(p) \in Events /\ Place(p) \in Instances
  BY Topics, Places DEF Upset
<1>2. ps \subseteq Proc BY DEF Upset
<1>3. QED BY <1>1, <1>2 DEF IInv, MovedOK, Touch

LEMMA DeliverType ==
  ASSUME IInv, NEW c \in Conns, NEW e \in Events, Deliver(c, e)
  PROVE  inbox' \in [Conns -> Seq(Events)]
<1>1. Append(inbox[c], e) \in Seq(Events)
  BY AppendProperties DEF IInv, HistoryOK
<1>2. QED BY <1>1 DEF Deliver, IInv, HistoryOK

LEMMA SetsFinite ==
  ASSUME IInv
  PROVE  /\ \A i \in Instances : IsFiniteSet(active[i]) /\ Cardinality(active[i]) \in Nat
         /\ \A e \in Events : Cardinality(Callbacks(e)) \in Nat
<1>1. \A S \in SUBSET Conns : IsFiniteSet(S) /\ Cardinality(S) \in Nat
  BY HubAssumption, FS_Subset, FS_CardinalityType
<1>2. \A i \in Instances : active[i] \in SUBSET Conns /\ listeners[i] \in SUBSET Conns
  BY HubAssumption DEF IInv, EndsOK
<1>3. \A e \in Events : Callbacks(e) \in SUBSET Conns
  BY <1>2, HubAssumption DEF Callbacks
<1>4. QED BY <1>1, <1>2, <1>3

LEMMA InitInv == Init => IInv
<1> SUFFICES ASSUME Init PROVE IInv
  OBVIOUS
<1>1. << >> \in Seq(Events) BY EmptySeq
<1>2. EndsOK BY HubAssumption DEF Init, EndsOK
<1>3. ProcOK BY HubAssumption DEF Init, ProcOK, EventPCs, RelayPCs, Proc
<1>4. ItersOK BY DEF Init, ItersOK
<1>5. ChannelsOK BY <1>1 DEF Init, ChannelsOK, Proc
<1>6. MovedOK BY DEF Init, MovedOK
<1>7. HistoryOK BY <1>1, HubAssumption DEF Init, HistoryOK
<1>8. QED BY <1>2, <1>3, <1>4, <1>5, <1>6, <1>7 DEF IInv

LEMMA ConnectInv ==
  ASSUME IInv, NEW c \in Conns, Connect(c)
  PROVE  IInv'
<1>1. MovedOK' BY UpsetAre, TouchType, HubAssumption DEF Connect
<1>2. EndsOK' BY HubAssumption DEF Connect, IInv, EndsOK
<1>3. QED
  BY <1>1, <1>2 DEF Connect, IInv, ProcOK, ItersOK, ChannelsOK, HistoryOK, iters, redis

LEMMA GreetInv ==
  ASSUME IInv, NEW c \in Conns, Greet(c)
  PROVE  IInv'
<1>1. PICK gone \in SUBSET {c} :
        /\ Leave(gone, Home[c])
        /\ Touch(Left(gone, Home[c]) \cup IF c \in Scoped THEN Telling(c) ELSE {}, {})
  BY DEF Greet
<1>2. Left(gone, Home[c]) \subseteq Upset /\ Telling(c) \subseteq Upset
  BY UpsetAre, HubAssumption
<1>3. MovedOK' BY <1>1, <1>2, TouchType
<1>4. EndsOK'
  <2>1. /\ ep' \in [Conns -> {"new", "greeting", "serving", "gone"}]
        /\ link' \in [Conns -> {"up", "cut"}]
    BY DEF Greet, IInv, EndsOK
  <2>2. active' \in [Instances -> SUBSET Conns]
    BY <1>1 DEF Leave, IInv, EndsOK
  <2>3. listeners' \in [Instances -> SUBSET Scoped]
    <3>1. Register(c) BY DEF Greet
    <3>2. Home[c] \in Instances BY HubAssumption
    <3>3. QED BY <3>1, <3>2 DEF Register, IInv, EndsOK
  <2>4. QED BY <2>1, <2>2, <2>3 DEF EndsOK
<1>5. QED
  BY <1>3, <1>4 DEF Greet, IInv, ProcOK, ItersOK, ChannelsOK, HistoryOK, iters, redis

LEMMA CutInv ==
  ASSUME IInv, NEW c \in Conns, Cut(c)
  PROVE  IInv'
BY HubAssumption
DEF Cut, IInv, EndsOK, ProcOK, ItersOK, ChannelsOK, MovedOK, HistoryOK, sets, iters, redis

LEMMA NoticeInv ==
  ASSUME IInv, NEW c \in Conns, Notice(c)
  PROVE  IInv'
<1>1. Left({c}, Home[c]) \subseteq Upset /\ Telling(c) \subseteq Upset
  BY UpsetAre, HubAssumption
<1>2. MovedOK' BY <1>1, TouchType DEF Notice
<1>3. EndsOK' BY HubAssumption DEF Notice, Forget, Leave, IInv, EndsOK
<1>4. QED
  BY <1>2, <1>3 DEF Notice, IInv, ProcOK, ItersOK, ChannelsOK, HistoryOK, iters, redis

\* A broadcast that begins.
LEMMA BeginInv ==
  ASSUME IInv, NEW p \in Proc, NEW e \in Events, Begin(p, e, Place(p)),
         p \in Instances => channel[p] # << >>,
         UNCHANGED <<sockets, sets, log, faults, disturbed, cuts>>,
         heardBy' \in [Events -> SUBSET Conns]
  PROVE  IInv'
<1> DEFINE i == Place(p)
<1>1. i \in Instances BY Places
<1>2. EndsOK' BY DEF IInv, EndsOK, sockets, sets
<1>3. CASE active[i] = {}
  <2>1. /\ pc' = [pc EXCEPT ![p] = Onward(p)] /\ Consume(p)
        /\ UNCHANGED <<iters, moved, inbox>>
    BY <1>3 DEF Begin
  <2>2. ProcOK' BY <2>1, Places DEF IInv, ProcOK, Onward, EventPCs, RelayPCs, Proc
  <2>3. ChannelsOK'
    <3>1. CASE p \in Instances
      <4>1. channel[p] \in Seq(Events) /\ channel[p] # << >> BY <3>1 DEF IInv, ChannelsOK
      <4>2. Tail(channel[p]) \in Seq(Events) BY <4>1, HeadTailProperties
      <4>3. channel' = [channel EXCEPT ![p] = Tail(channel[p])] BY <2>1, <3>1 DEF Consume
      <4>4. pc'[p] = "idle" BY <2>1, <3>1 DEF Onward, IInv, ProcOK
      <4>5. QED BY <2>1, <4>2, <4>3, <4>4 DEF IInv, ChannelsOK, ProcOK, Proc
    <3>2. CASE p \notin Instances
      BY <2>1, <3>2 DEF Consume, IInv, ChannelsOK, ProcOK, Proc
    <3>3. QED BY <3>1, <3>2
  <2>4. QED
    BY <1>2, <2>1, <2>2, <2>3 DEF IInv, ItersOK, MovedOK, HistoryOK, iters
<1>4. CASE active[i] # {}
  <2>1. PICK c \in active[i], raised \in BOOLEAN :
          /\ pc' = [pc EXCEPT ![p] = "send"]
          /\ left' = [left EXCEPT ![p] = Remaining(active[i], c, raised)]
          /\ size' = [size EXCEPT ![p] = Cardinality(active[i])]
          /\ failed' = [failed EXCEPT ![p] = IF raised THEN {c} ELSE {}]
          /\ moved' = moved \ {p}
          /\ Deliver(c, e)
          /\ channel' = channel
    BY <1>4 DEF Begin, MayRaise
  <2>2. c \in Conns /\ active[i] \subseteq Conns BY <1>1 DEF IInv, EndsOK
  <2>3. ItersOK'
    BY <1>1, <2>1, <2>2, SetsFinite DEF IInv, ItersOK, Remaining
  <2>4. inbox' \in [Conns -> Seq(Events)] BY <2>1, <2>2, DeliverType
  <2>5. ProcOK' BY <2>1, Places DEF IInv, ProcOK, EventPCs, RelayPCs, Proc
  <2>6. ChannelsOK' BY <2>1 DEF IInv, ChannelsOK, ProcOK, Proc
  <2>7. QED
    BY <1>2, <2>1, <2>3, <2>4, <2>5, <2>6 DEF IInv, MovedOK, HistoryOK
<1>5. QED BY <1>3, <1>4

LEMMA PublishInv ==
  ASSUME IInv, NEW e \in Events, Publish(e)
  PROVE  IInv'
<1>1. UNION {active[i] : i \in Instances} \subseteq Conns BY DEF IInv, EndsOK
<1>2. heardBy' \in [Events -> SUBSET Conns] BY <1>1 DEF Publish, IInv, HistoryOK
<1>3. e \in Proc /\ e \notin Instances /\ Place(e) = Origin[e]
  BY HubAssumption DEF Proc, Place
<1>4. QED BY <1>2, <1>3, BeginInv DEF Publish

LEMMA RelayInv ==
  ASSUME IInv, NEW i \in Instances, Relay(i)
  PROVE  IInv'
<1>1. channel[i] \in Seq(Events) /\ channel[i] # << >> BY DEF IInv, ChannelsOK, Relay
<1>2. Head(channel[i]) \in Events BY <1>1, HeadTailProperties
<1>3. i \in Proc /\ Place(i) = i BY DEF Proc, Place
<1>4. heardBy' \in [Events -> SUBSET Conns] BY DEF Relay, IInv, HistoryOK
<1>5. QED BY <1>1, <1>2, <1>3, <1>4, BeginInv DEF Relay

LEMMA SendInv ==
  ASSUME IInv, NEW p \in Proc, Send(p)
  PROVE  IInv'
<1>1. active[Place(p)] \subseteq Conns BY Places DEF IInv, EndsOK
<1>2. \A rest \in Ahead(p, active[Place(p)]) : rest \subseteq Conns
  BY <1>1 DEF Ahead, IInv, ItersOK
<1>3. PICK rest \in SUBSET Conns, c \in Conns, raised \in BOOLEAN :
        /\ rest \in Ahead(p, active[Place(p)]) /\ c \in rest
        /\ left' = [left EXCEPT ![p] = Remaining(rest, c, raised)]
        /\ failed' = IF raised THEN [failed EXCEPT ![p] = @ \cup {c}] ELSE failed
        /\ moved' = moved \ {p}
        /\ Deliver(c, Topic(p))
  BY <1>2 DEF Send, MayRaise
<1>4. Topic(p) \in Events BY Topics DEF Send
<1>5. inbox' \in [Conns -> Seq(Events)] BY <1>3, <1>4, DeliverType
<1>6. ItersOK' BY <1>3 DEF Send, IInv, ItersOK, Remaining
<1>7. QED
  BY <1>3, <1>5, <1>6
  DEF Send, IInv, EndsOK, ProcOK, ChannelsOK, MovedOK, HistoryOK, sockets, sets, redis

LEMMA DropType ==
  ASSUME IInv, NEW p \in Proc, Drop(p)
  PROVE  ItersOK'
BY DEF Drop, IInv, ItersOK

LEMMA FinishInv ==
  ASSUME IInv, NEW p \in Proc, Finish(p)
  PROVE  IInv'
<1>1. Place(p) \in Instances BY Places
<1>2. Left(failed[p], Place(p)) \subseteq Upset BY <1>1, UpsetAre
<1>3. MovedOK' BY <1>2, TouchType DEF Finish
<1>4. ItersOK' BY DropType DEF Finish
<1>5. EndsOK' BY <1>1 DEF Finish, Leave, IInv, EndsOK, sockets
<1>6. pc' = [pc EXCEPT ![p] = Onward(p)] BY DEF Finish
<1>7. ProcOK' BY <1>6, Places DEF IInv, ProcOK, Onward, EventPCs, RelayPCs, Proc
<1>8. ChannelsOK'
  <2>1. CASE p \in Instances
    <3>1. channel[p] \in Seq(Events) /\ channel[p] # << >>
      BY <2>1 DEF Finish, IInv, ChannelsOK
    <3>2. Tail(channel[p]) \in Seq(Events) BY <3>1, HeadTailProperties
    <3>3. channel' = [channel EXCEPT ![p] = Tail(channel[p])] BY <2>1 DEF Finish, Consume
    <3>4. pc'[p] = "idle" BY <1>6, <2>1 DEF Onward, IInv, ProcOK
    <3>5. QED BY <1>6, <3>2, <3>3, <3>4 DEF IInv, ChannelsOK, ProcOK, Proc
  <2>2. CASE p \notin Instances
    BY <1>6, <2>2 DEF Finish, Consume, IInv, ChannelsOK, ProcOK, Proc
  <2>3. QED BY <2>1, <2>2
<1>9. QED
  BY <1>3, <1>4, <1>5, <1>7, <1>8 DEF Finish, IInv, HistoryOK

LEMMA TearInv ==
  ASSUME IInv, NEW p \in Proc, Tear(p)
  PROVE  IInv'
<1>1. ItersOK' BY DropType DEF Tear
<1>2. ProcOK' BY Places DEF Tear, IInv, ProcOK, EventPCs, RelayPCs, Proc
<1>3. ChannelsOK'
  <2>1. << >> \in Seq(Events) BY EmptySeq
  <2>2. QED BY <2>1, HubAssumption DEF Tear, IInv, ChannelsOK, ProcOK, Proc
<1>4. QED
  BY <1>1, <1>2, <1>3 DEF Tear, IInv, EndsOK, MovedOK, HistoryOK, sockets, sets

LEMMA ToRedisInv ==
  ASSUME IInv, NEW e \in Events, ToRedis(e)
  PROVE  IInv'
<1>1. e \in Proc /\ e \notin Instances BY HubAssumption DEF Proc
<1>2. ProcOK' BY <1>1 DEF ToRedis, IInv, ProcOK, EventPCs, RelayPCs, Proc
<1>3. Append(log, e) \in Seq(Events) BY AppendProperties DEF IInv, HistoryOK
<1>4. \A i \in Instances : Append(channel[i], e) \in Seq(Events) /\ Append(channel[i], e) # << >>
  BY AppendProperties DEF IInv, ChannelsOK
<1>5. ChannelsOK'
  <2>1. \A i \in Instances : pc'[i] = pc[i] BY <1>1 DEF ToRedis, IInv, ProcOK, Proc
  <2>2. QED BY <1>4, <2>1 DEF ToRedis, IInv, ChannelsOK
<1>6. QED
  BY <1>2, <1>3, <1>5 DEF ToRedis, IInv, EndsOK, ItersOK, MovedOK, HistoryOK, sockets, sets, iters

LEMMA FaultInv ==
  ASSUME IInv, (\E e \in Events : ToRedisFails(e)) \/ \E i \in Instances : RelayEnds(i)
  PROVE  IInv'
<1>1. ASSUME NEW e \in Events, ToRedisFails(e) PROVE IInv'
  <2>1. e \in Proc /\ e \notin Instances BY HubAssumption DEF Proc
  <2>2. ProcOK' BY <1>1, <2>1 DEF ToRedisFails, IInv, ProcOK, EventPCs, RelayPCs, Proc
  <2>3. ChannelsOK' BY <1>1, <2>1 DEF ToRedisFails, IInv, ChannelsOK, ProcOK, Proc
  <2>4. faults' \in 0 .. FaultBound
    BY <1>1, HubAssumption DEF ToRedisFails, IInv, HistoryOK
  <2>5. QED
    BY <1>1, <2>2, <2>3, <2>4
    DEF ToRedisFails, IInv, EndsOK, ItersOK, MovedOK, HistoryOK, sockets, sets, iters
<1>2. ASSUME NEW i \in Instances, RelayEnds(i) PROVE IInv'
  <2>1. i \in Proc /\ i \notin Events BY HubAssumption DEF Proc
  <2>2. ProcOK' BY <1>2, <2>1 DEF RelayEnds, IInv, ProcOK, EventPCs, RelayPCs, Proc
  <2>3. << >> \in Seq(Events) BY EmptySeq
  <2>4. ChannelsOK' BY <1>2, <2>1, <2>3 DEF RelayEnds, IInv, ChannelsOK, ProcOK, Proc
  <2>5. faults' \in 0 .. FaultBound
    BY <1>2, HubAssumption DEF RelayEnds, IInv, HistoryOK
  <2>6. QED
    BY <1>2, <2>2, <2>4, <2>5
    DEF RelayEnds, IInv, EndsOK, ItersOK, MovedOK, HistoryOK, sockets, sets, iters
<1>3. QED BY <1>1, <1>2

\* A message to one listener.
LEMMA TellInv ==
  ASSUME IInv, NEW e \in Events, NEW c \in Conns, NEW rest \in SUBSET Conns, Tell(e, c, rest),
         size' \in [Proc -> Nat],
         UNCHANGED <<sockets, listeners, failed, redis, heardBy, cuts>>
  PROVE  IInv'
<1>1. e \in Proc /\ e \notin Instances /\ Origin[e] \in Instances BY HubAssumption DEF Proc
<1>2. PICK gone \in SUBSET {c} :
        /\ pc' = [pc EXCEPT ![e] = "tell"]
        /\ left' = [left EXCEPT ![e] = rest]
        /\ Leave(gone, Origin[e])
        /\ Touch(Left(gone, Origin[e]), {e})
        /\ Deliver(c, e)
  BY DEF Tell
<1>3. MovedOK' BY <1>1, <1>2, UpsetAre, TouchType
<1>4. inbox' \in [Conns -> Seq(Events)] BY <1>2, DeliverType
<1>5. ItersOK' BY <1>1, <1>2 DEF IInv, ItersOK
<1>6. ProcOK' BY <1>1, <1>2 DEF IInv, ProcOK, EventPCs, RelayPCs, Proc
<1>7. ChannelsOK' BY <1>1, <1>2 DEF IInv, ChannelsOK, ProcOK, Proc, redis
<1>8. EndsOK' BY <1>1, <1>2 DEF IInv, EndsOK, Leave, sockets
<1>9. QED
  BY <1>3, <1>4, <1>5, <1>6, <1>7, <1>8 DEF IInv, HistoryOK, redis

LEMMA CallbacksAre ==
  ASSUME IInv, NEW e \in Events
  PROVE  Callbacks(e) \subseteq Conns
BY HubAssumption DEF Callbacks, IInv, EndsOK

LEMMA NotifyInv ==
  ASSUME IInv, NEW e \in Events, Notify(e) \/ NotifyNext(e)
  PROVE  IInv'
<1>1. e \in Proc BY DEF Proc
<1>2. CASE Notify(e)
  <2>1. size' \in [Proc -> Nat]
    BY <1>1, <1>2, SetsFinite DEF Notify, IInv, ItersOK
  <2>2. QED BY <1>2, <2>1, CallbacksAre, TellInv DEF Notify
<1>3. CASE NotifyNext(e)
  <2>1. \A rest \in Ahead(e, Callbacks(e) \cap About[e]) : rest \subseteq Conns
    BY <1>1, CallbacksAre DEF Ahead, IInv, ItersOK
  <2>2. PICK rest \in SUBSET Conns, c \in Conns : Tell(e, c, rest \ {c})
    BY <1>3, <2>1 DEF NotifyNext
  <2>3. size' \in [Proc -> Nat] BY <1>3 DEF NotifyNext, IInv, ItersOK
  <2>4. QED BY <1>3, <2>2, <2>3, TellInv DEF NotifyNext
<1>4. QED BY <1>2, <1>3

LEMMA NotifyEndInv ==
  ASSUME IInv, NEW e \in Events, NotifyEnd(e)
  PROVE  IInv'
<1>1. e \in Proc /\ e \notin Instances BY HubAssumption DEF Proc
<1>2. ItersOK' BY <1>1, DropType DEF NotifyEnd
<1>3. ProcOK' BY <1>1 DEF NotifyEnd, IInv, ProcOK, EventPCs, RelayPCs, Proc
<1>4. ChannelsOK' BY <1>1 DEF NotifyEnd, IInv, ChannelsOK, ProcOK, Proc, redis
<1>5. QED
  BY <1>2, <1>3, <1>4 DEF NotifyEnd, IInv, EndsOK, MovedOK, HistoryOK, sockets, sets, redis

LEMMA NextInv == IInv /\ [Next]_vars => IInv'
<1> SUFFICES ASSUME IInv, [Next]_vars PROVE IInv'
  OBVIOUS
<1>1. CASE UNCHANGED vars
  BY <1>1 DEF IInv, EndsOK, ProcOK, ItersOK, ChannelsOK, MovedOK, HistoryOK, vars
<1>2. ASSUME NEW p \in Proc, Advance(p) PROVE IInv'
  BY <1>2, SendInv, FinishInv, TearInv, ToRedisInv, NotifyInv, NotifyEndInv, RelayInv DEF Advance
<1>3. QED
  BY <1>1, <1>2, ConnectInv, GreetInv, CutInv, NoticeInv, PublishInv, FaultInv DEF Next

LEMMA InvHolds == Spec => []IInv
BY InitInv, NextInv, PTL DEF Spec

\* What sockets, iterators and channels hold stays of its kind; a Redis listener is
\* never where only a publishing call may be.
THEOREM TypeCorrect == Spec => []TypeOK
BY Types, InvHolds, PTL

-----------------------------------------------------------------------------
(* The sets hold the living *)

\* Every set holds connections of its instance only, none that are new or gone;
\* an endpoint that runs on a live socket is in the set; the sends that failed
\* were to sockets that are down.
MInv == /\ \A i \in Instances, c \in Conns :
              c \in active[i] \/ c \in listeners[i] => Home[c] = i /\ ep[c] \in {"greeting", "serving"}
        /\ \A c \in Conns : ep[c] \in {"greeting", "serving"} /\ link[c] = "up" => c \in active[Home[c]]
        /\ \A c \in Conns : ep[c] = "gone" => link[c] = "cut"
        /\ \A p \in Proc, c \in Conns : c \in failed[p] => link[c] = "cut"

LEMMA MembersAre == IInv /\ MInv => Members
BY DEF IInv, EndsOK, MInv, Members

LEMMA MInit == Init => MInv
BY HubAssumption DEF Init, MInv

LEMMA MConnect ==
  ASSUME IInv, MInv, NEW c \in Conns, Connect(c)
  PROVE  MInv'
<1>1. \A i \in Instances, d \in Conns :
         d \in active'[i] <=> d \in active[i] \/ (i = Home[c] /\ d = c)
  BY HubAssumption DEF Connect, IInv, EndsOK
<1>2. \A d \in Conns : ep'[d] = IF d = c THEN "greeting" ELSE ep[d]
  BY DEF Connect, IInv, EndsOK
<1>3. listeners' = listeners /\ link' = link /\ failed' = failed /\ ep[c] = "new"
  BY DEF Connect, iters
<1>4. \A d \in Conns : Home[d] \in Instances BY HubAssumption
<1>5. \A i \in Instances, d \in Conns :
         d \in active'[i] \/ d \in listeners'[i] => Home[d] = i /\ ep'[d] \in {"greeting", "serving"}
  BY <1>1, <1>2, <1>3 DEF MInv
<1>6. \A d \in Conns : ep'[d] \in {"greeting", "serving"} /\ link'[d] = "up" => d \in active'[Home[d]]
  BY <1>1, <1>2, <1>3, <1>4 DEF MInv
<1>7. \A d \in Conns : ep'[d] = "gone" => link'[d] = "cut"
  BY <1>2, <1>3 DEF MInv
<1>8. QED BY <1>3, <1>5, <1>6, <1>7 DEF MInv

LEMMA MGreet ==
  ASSUME IInv, MInv, NEW c \in Conns, Greet(c)
  PROVE  MInv'
<1>1. PICK gone \in SUBSET {c} : Leave(gone, Home[c]) /\ (gone # {} => link[c] = "cut")
  BY DEF Greet, MayRaise, IInv, EndsOK
<1>2. \A i \in Instances, d \in Conns :
         /\ d \in active'[i] <=> d \in active[i] /\ ~ (i = Home[c] /\ d \in gone)
         /\ d \in listeners'[i] => d \in listeners[i] \/ (i = Home[c] /\ d = c)
  BY <1>1, HubAssumption DEF Leave, Greet, Register, IInv, EndsOK
<1>3. \A d \in Conns : ep'[d] = IF d = c THEN "serving" ELSE ep[d]
  BY DEF Greet, IInv, EndsOK
<1>4. ep[c] = "greeting" /\ link' = link /\ failed' = failed
  BY DEF Greet, iters
<1>5. \A i \in Instances, d \in Conns :
         d \in active'[i] \/ d \in listeners'[i] => Home[d] = i /\ ep'[d] \in {"greeting", "serving"}
  BY <1>2, <1>3 DEF MInv
<1>6. \A d \in Conns : ep'[d] \in {"greeting", "serving"} /\ link'[d] = "up" => d \in active'[Home[d]]
  <2> SUFFICES ASSUME NEW d \in Conns, ep'[d] \in {"greeting", "serving"}, link'[d] = "up"
               PROVE  d \in active'[Home[d]]
    OBVIOUS
  <2>1. Home[d] \in Instances BY HubAssumption
  <2>2. d \in active[Home[d]] BY <1>3, <1>4 DEF MInv
  <2>3. d \notin gone BY <1>1, <1>4
  <2>4. QED BY <1>2, <2>1, <2>2, <2>3
<1>7. QED BY <1>3, <1>4, <1>5, <1>6 DEF MInv

LEMMA MCut ==
  ASSUME IInv, MInv, NEW c \in Conns, Cut(c)
  PROVE  MInv'
BY HubAssumption DEF Cut, IInv, EndsOK, MInv, sets, iters

LEMMA MNotice ==
  ASSUME IInv, MInv, NEW c \in Conns, Notice(c)
  PROVE  MInv'
BY HubAssumption DEF Notice, Forget, Leave, IInv, EndsOK, MInv, iters

\* The sets and the endpoints stay, and nothing but a failed send is noted.
LEMMA MFrame ==
  ASSUME IInv, MInv, UNCHANGED <<sockets, sets>>,
         \A p \in Proc, c \in Conns : c \in failed'[p] => c \in failed[p] \/ link[c] = "cut"
  PROVE  MInv'
BY DEF MInv, sockets, sets

LEMMA MBegin ==
  ASSUME IInv, MInv, NEW p \in Proc, NEW e \in Events, Begin(p, e, Place(p)),
         UNCHANGED <<sockets, sets>>
  PROVE  MInv'
<1>1. active[Place(p)] \subseteq Conns BY Places DEF IInv, EndsOK
<1>2. \A q \in Proc, d \in Conns : d \in failed'[q] => d \in failed[q] \/ link[d] = "cut"
  <2>1. CASE active[Place(p)] = {}
    BY <2>1 DEF Begin, iters
  <2>2. CASE active[Place(p)] # {}
    <3>1. PICK c \in Conns, raised \in BOOLEAN :
            /\ failed' = [failed EXCEPT ![p] = IF raised THEN {c} ELSE {}]
            /\ raised => link[c] = "cut"
      BY <1>1, <2>2 DEF Begin, MayRaise
    <3>2. QED BY <3>1 DEF IInv, ItersOK
  <2>3. QED BY <2>1, <2>2
<1>3. QED BY <1>2, MFrame

LEMMA MSend ==
  ASSUME IInv, MInv, NEW p \in Proc, Send(p)
  PROVE  MInv'
<1>1. \A rest \in Ahead(p, active[Place(p)]) : rest \subseteq Conns
  BY Places DEF Ahead, IInv, ItersOK, EndsOK
<1>2. PICK c \in Conns, raised \in BOOLEAN :
        /\ failed' = IF raised THEN [failed EXCEPT ![p] = @ \cup {c}] ELSE failed
        /\ raised => link[c] = "cut"
  BY <1>1 DEF Send, MayRaise
<1>3. \A q \in Proc, d \in Conns : d \in failed'[q] => d \in failed[q] \/ link[d] = "cut"
  BY <1>2 DEF IInv, ItersOK
<1>4. QED BY <1>3, MFrame DEF Send

\* The connections that leave are down.
LEMMA MLeave ==
  ASSUME IInv, MInv, NEW i \in Instances, NEW gone \in SUBSET {c \in Conns : link[c] = "cut"},
         Leave(gone, i), UNCHANGED <<sockets, listeners>>,
         \A p \in Proc : failed'[p] \subseteq failed[p]
  PROVE  MInv'
BY HubAssumption DEF Leave, IInv, EndsOK, MInv, sockets

LEMMA MFinish ==
  ASSUME IInv, MInv, NEW p \in Proc, Finish(p)
  PROVE  MInv'
<1>1. failed[p] \in SUBSET {c \in Conns : link[c] = "cut"} BY DEF MInv, IInv, ItersOK
<1>2. \A q \in Proc : failed'[q] \subseteq failed[q] BY DEF Finish, Drop, IInv, ItersOK
<1>3. QED BY <1>1, <1>2, Places, MLeave DEF Finish

LEMMA MTell ==
  ASSUME IInv, MInv, NEW e \in Events, NEW c \in Conns, NEW rest, Tell(e, c, rest),
         UNCHANGED <<sockets, listeners, failed>>
  PROVE  MInv'
<1>1. PICK raised \in MayRaise(c) : Leave(IF raised THEN {c} ELSE {}, Origin[e])
  BY DEF Tell
<1>2. raised => link[c] = "cut" BY DEF MayRaise
<1>3. (IF raised THEN {c} ELSE {}) \in SUBSET {d \in Conns : link[d] = "cut"} BY <1>2
<1>4. QED BY <1>1, <1>3, HubAssumption, MLeave

LEMMA MNotify ==
  ASSUME IInv, MInv, NEW e \in Events, Notify(e) \/ NotifyNext(e)
  PROVE  MInv'
<1>1. e \in Proc /\ Callbacks(e) \subseteq Conns BY CallbacksAre DEF Proc
<1>2. \A rest \in Ahead(e, Callbacks(e) \cap About[e]) : rest \subseteq Conns
  BY <1>1 DEF Ahead, IInv, ItersOK
<1>3. \E c \in Conns : \E rest : Tell(e, c, rest)
  BY <1>1, <1>2 DEF Notify, NotifyNext
<1>4. QED BY <1>3, MTell DEF Notify, NotifyNext

LEMMA MNext == IInv /\ MInv /\ [Next]_vars => MInv'
<1> SUFFICES ASSUME IInv, MInv, [Next]_vars PROVE MInv'
  OBVIOUS
<1>1. CASE UNCHANGED vars
  BY <1>1 DEF MInv, vars
<1>2. ASSUME NEW e \in Events, Publish(e) PROVE MInv'
  <2>1. e \in Proc /\ Place(e) = Origin[e] BY HubAssumption DEF Proc, Place
  <2>2. QED BY <1>2, <2>1, MBegin DEF Publish
<1>3. ASSUME NEW p \in Proc, Advance(p) PROVE MInv'
  <2>1. CASE Tear(p)
    <3>1. \A q \in Proc : failed'[q] \subseteq failed[q] BY <2>1 DEF Tear, Drop, IInv, ItersOK
    <3>2. QED BY <2>1, <3>1, MFrame DEF Tear
  <2>2. CASE p \in Events /\ ToRedis(p)
    BY <2>2, MFrame DEF ToRedis, iters
  <2>3. CASE p \in Events /\ NotifyEnd(p)
    <3>1. \A q \in Proc : failed'[q] \subseteq failed[q]
      BY <2>3 DEF NotifyEnd, Drop, IInv, ItersOK
    <3>2. QED BY <2>3, <3>1, MFrame DEF NotifyEnd
  <2>4. CASE p \in Instances /\ Relay(p)
    <3>1. channel[p] \in Seq(Events) /\ channel[p] # << >> /\ Place(p) = p
      BY <2>4 DEF Relay, IInv, ChannelsOK, Place
    <3>2. Head(channel[p]) \in Events BY <3>1, HeadTailProperties
    <3>3. QED BY <2>4, <3>1, <3>2, MBegin DEF Relay
  <2>5. QED
    BY <1>3, <2>1, <2>2, <2>3, <2>4, MSend, MFinish, MNotify DEF Advance
<1>4. ASSUME NEW e \in Events, ToRedisFails(e) PROVE MInv'
  BY <1>4, MFrame DEF ToRedisFails, iters
<1>5. ASSUME NEW i \in Instances, RelayEnds(i) PROVE MInv'
  BY <1>5, MFrame DEF RelayEnds, iters
<1>6. QED
  BY <1>1, <1>2, <1>3, <1>4, <1>5, MConnect, MGreet, MCut, MNotice DEF Next

\* A connection whose endpoint has ended is in no set, whatever broadcasts, failed
\* sends and clean-ups overlapped, and none of them ever drops one that is alive.
THEOREM MembersHolds == Spec => []Members
<1>1. Spec => []MInv
  BY MInit, MNext, InvHolds, PTL DEF Spec
<1>2. QED BY <1>1, InvHolds, MembersAre, PTL

-----------------------------------------------------------------------------
(* Who is connected hears of an event *)

\* The set has changed under the broadcast that p makes.
Stirred(p) == <<Topic(p), Place(p)>> \in disturbed

\* A broadcast whose set has not changed owes its event to nobody but those its
\* iterator has yet to come to.
Steady(p) ==
  pc[p] = "send" =>
     \/ Stirred(p)
     \/ /\ p \notin moved /\ Intact(p)
        /\ \A c \in heardBy[Topic(p)] :
              Home[c] = Place(p) /\ link[c] = "up" =>
                 Topic(p) \in Elements(inbox[c]) \/ c \in left[p]

\* The first half of Heard for an event and an instance, of whomever it is for: a
\* broadcast does not ask.
Served(e, i) ==
  Passed(e, i) /\ <<e, i>> \notin disturbed =>
     \A c \in heardBy[e] : Home[c] = i /\ link[c] = "up" => e \in Elements(inbox[c])

\* What a listener has yet to relay was published, by a call that is past it.
Order == /\ \A i \in Instances, e \in Events : e \in Elements(channel[i]) => e \in Elements(log)
         /\ \A e \in Events : e \in Elements(log) => pc[e] \in {"notify", "tell", "done"}

Blame == \A i \in Instances : pc[i] = "ended" =>
            faults > 0 \/ \E e \in Events : <<e, i>> \in disturbed

Known == \A e \in Events, c \in Conns : c \in heardBy[e] => ep[c] # "new"

HInv == /\ Order /\ Blame /\ Known
        /\ \A p \in Proc : Steady(p)
        /\ \A e \in Events, i \in Instances : Served(e, i)

LEMMA HeardAre == IInv /\ HInv => Heard
<1> SUFFICES ASSUME IInv, HInv PROVE Heard
  OBVIOUS
<1>1. ASSUME NEW e \in Events, NEW c \in heardBy[e] \cap For(e), link[c] = "up",
             <<e, Home[c]>> \notin disturbed, Passed(e, Home[c])
      PROVE  e \in Elements(inbox[c])
  <2>1. c \in Conns /\ Home[c] \in Instances BY HubAssumption DEF IInv, HistoryOK
  <2>2. Served(e, Home[c]) BY <2>1 DEF HInv
  <2>3. QED BY <1>1, <2>2 DEF Served
<1>2. QED BY <1>1 DEF Heard, HInv, Blame

LEMMA HInit == Init => HInv
<1> SUFFICES ASSUME Init PROVE HInv
  OBVIOUS
<1>1. Elements(<< >>) = {} BY DEF Elements
<1>2. Order BY <1>1 DEF Init, Order
<1>3. Blame BY DEF Init, Blame, Proc
<1>4. Known BY DEF Init, Known
<1>5. \A p \in Proc : Steady(p) BY DEF Init, Steady
<1>6. \A e \in Events, i \in Instances : Served(e, i)
  BY DEF Init, Served
<1>7. QED BY <1>2, <1>3, <1>4, <1>5, <1>6 DEF HInv

\* What no step takes back.
Grow == /\ disturbed \subseteq disturbed'
        /\ \A c \in Conns : link'[c] = "up" => link[c] = "up"
        /\ \A c \in Conns, e \in Events : e \in Elements(inbox[c]) => e \in Elements(inbox'[c])

\* The processes that are not in own go on as they were.
Others(own) == \A q \in Proc \ own :
                  /\ pc'[q] = pc[q] /\ left'[q] = left[q] /\ size'[q] = size[q]
                  /\ q \in Instances /\ pc[q] = "send" => Head(channel'[q]) = Head(channel[q])

\* Their sets stay, or their broadcasts count as disturbed.
Spared(own) == \A q \in Proc \ own : pc[q] = "send" =>
                  \/ <<Topic(q), Place(q)>> \in disturbed'
                  \/ active'[Place(q)] = active[Place(q)] /\ (q \in moved' => q \in moved)

\* Only an event that is published now gets its hearers.
Hearers == \A e \in Events : heardBy'[e] = heardBy[e] \/ pc[e] = "idle"

LEMMA Appended ==
  ASSUME NEW s \in Seq(Events), NEW e \in Events
  PROVE  /\ Elements(Append(s, e)) = Elements(s) \cup {e}
         /\ s # << >> => Head(Append(s, e)) = Head(s)
<1>1. Append(s, e) \in Seq(Events) /\ Len(Append(s, e)) = Len(s) + 1
      /\ \A k \in 1 .. Len(s) : Append(s, e)[k] = s[k]
      /\ Append(s, e)[Len(s) + 1] = e
  BY AppendProperties
<1>2. Len(s) \in Nat /\ DOMAIN s = 1 .. Len(s) /\ DOMAIN Append(s, e) = 1 .. Len(s) + 1
  BY <1>1, LenProperties
<1>3. 1 .. Len(s) + 1 = (1 .. Len(s)) \cup {Len(s) + 1} BY <1>2
<1>4. \A x : x \in Elements(Append(s, e)) <=> x \in Elements(s) \/ x = e
  BY <1>1, <1>2, <1>3 DEF Elements
<1>5. ASSUME s # << >> PROVE Head(Append(s, e)) = Head(s)
  <2>1. Len(s) >= 1 BY <1>2, <1>5, EmptySeq
  <2>2. QED BY <1>1, <2>1, HeadTailProperties
<1>6. QED BY <1>4, <1>5

LEMMA Behead ==
  ASSUME NEW s \in Seq(Events), s # << >>
  PROVE  Head(s) \in Events /\ Elements(s) = {Head(s)} \cup Elements(Tail(s))
<1>1. /\ Head(s) = s[1] /\ Head(s) \in Events
      /\ Tail(s) \in Seq(Events) /\ Len(Tail(s)) = Len(s) - 1
      /\ \A k \in 1 .. Len(Tail(s)) : Tail(s)[k] = s[k + 1]
  BY HeadTailProperties
<1>2. Len(s) \in Nat /\ Len(s) >= 1 /\ DOMAIN s = 1 .. Len(s) /\ DOMAIN Tail(s) = 1 .. Len(s) - 1
  BY <1>1, LenProperties, EmptySeq
<1>3. ASSUME NEW k \in 1 .. Len(s) PROVE s[k] = Head(s) \/ s[k] \in Elements(Tail(s))
  <2>1. CASE k = 1
    BY <1>1, <2>1
  <2>2. CASE k # 1
    <3>1. k - 1 \in 1 .. Len(s) - 1 /\ (k - 1) + 1 = k BY <1>2, <2>2
    <3>2. Tail(s)[k - 1] = s[k] BY <1>1, <3>1
    <3>3. QED BY <1>2, <3>1, <3>2 DEF Elements
  <2>3. QED BY <2>1, <2>2
<1>4. ASSUME NEW k \in 1 .. Len(s) - 1 PROVE Tail(s)[k] \in Elements(s)
  <2>1. k + 1 \in 1 .. Len(s) BY <1>2
  <2>2. QED BY <1>1, <1>2, <2>1 DEF Elements
<1>5. Elements(s) \subseteq {Head(s)} \cup Elements(Tail(s)) BY <1>2, <1>3 DEF Elements
<1>6. Elements(Tail(s)) \subseteq Elements(s) BY <1>2, <1>4 DEF Elements
<1>7. Head(s) \in Elements(s) BY <1>1, <1>2 DEF Elements
<1>8. QED BY <1>1, <1>5, <1>6, <1>7

LEMMA Delivered ==
  ASSUME IInv, NEW c \in Conns, NEW e \in Events, Deliver(c, e)
  PROVE  /\ \A d \in Conns, x \in Events : x \in Elements(inbox[d]) => x \in Elements(inbox'[d])
         /\ link[c] = "up" => e \in Elements(inbox'[c])
<1>1. inbox[c] \in Seq(Events) BY DEF IInv, HistoryOK
<1>2. Elements(Append(inbox[c], e)) = Elements(inbox[c]) \cup {e} BY <1>1, Appended
<1>3. QED BY <1>2 DEF Deliver, IInv, HistoryOK

\* Who is owed an event and is up is in the set of his instance.
LEMMA Present ==
  ASSUME IInv, MInv, HInv, NEW e \in Events, NEW c \in heardBy[e], link[c] = "up"
  PROVE  c \in Conns /\ c \in active[Home[c]]
<1>1. c \in Conns BY DEF IInv, HistoryOK
<1>2. ep[c] # "new" BY <1>1 DEF HInv, Known
<1>3. ep[c] \in {"greeting", "serving"} BY <1>1, <1>2 DEF MInv, IInv, EndsOK
<1>4. QED BY <1>1, <1>3 DEF MInv

LEMMA TouchSpares ==
  ASSUME IInv, NEW i \in Instances, NEW ps, NEW own, NEW X, Touch(ps, own),
         active' = [active EXCEPT ![i] = X],
         X # active[i] => Sending(i) \subseteq ps
  PROVE  disturbed \subseteq disturbed' /\ Spared(own)
<1>1. disturbed \subseteq disturbed' BY DEF Touch
<1>2. ASSUME NEW q \in Proc, q \notin own, pc[q] = "send", <<Topic(q), Place(q)>> \notin disturbed'
      PROVE  active'[Place(q)] = active[Place(q)] /\ (q \in moved' => q \in moved)
  <2>1. q \notin ps BY <1>2 DEF Touch
  <2>2. q \in moved' => q \in moved BY <2>1 DEF Touch
  <2>3. Place(q) \in Instances BY Places
  <2>4. CASE Place(q) = i
    <3>1. q \in Sending(i) BY <1>2, <2>4 DEF Sending
    <3>2. X = active[i] BY <2>1, <3>1
    <3>3. QED BY <2>2, <2>4, <3>2 DEF IInv, EndsOK
  <2>5. CASE Place(q) # i
    BY <2>2, <2>3, <2>5 DEF IInv, EndsOK
  <2>6. QED BY <2>4, <2>5
<1>3. QED BY <1>1, <1>2 DEF Spared

LEMMA SteadyKept ==
  ASSUME IInv, HInv, NEW own, NEW q \in Proc, q \notin own,
         Grow, Others(own), Spared(own), Hearers
  PROVE  Steady(q)'
<1> SUFFICES ASSUME pc[q] = "send", ~ Stirred(q)'
             PROVE  /\ q \notin moved' /\ Intact(q)'
                    /\ \A c \in (heardBy[Topic(q)])' :
                          Home[c] = Place(q) /\ link'[c] = "up" =>
                             (Topic(q) \in Elements(inbox[c]))' \/ c \in left'[q]
  BY DEF Steady, Others, Place
<1>1. Topic(q)' = Topic(q) BY DEF Topic, Others
<1>2. Place(q)' = Place(q) /\ Place(q) \in Instances BY Places DEF Place
<1>3. Topic(q) \in Events BY Topics
<1>4. <<Topic(q), Place(q)>> \notin disturbed' BY <1>1, <1>2 DEF Stirred
<1>5. ~ Stirred(q) BY <1>4 DEF Stirred, Grow
<1>6. active'[Place(q)] = active[Place(q)] /\ (q \in moved' => q \in moved)
  BY <1>4 DEF Spared
<1>7. /\ q \notin moved /\ Intact(q)
      /\ \A c \in heardBy[Topic(q)] :
            Home[c] = Place(q) /\ link[c] = "up" =>
               Topic(q) \in Elements(inbox[c]) \/ c \in left[q]
  BY <1>5 DEF HInv, Steady
<1>8. Intact(q)' BY <1>2, <1>6, <1>7 DEF Intact, Others
<1>9. heardBy'[Topic(q)] = heardBy[Topic(q)]
  <2>1. CASE q \in Instances
    <3>1. channel[q] \in Seq(Events) /\ channel[q] # << >> BY <2>1 DEF IInv, ChannelsOK
    <3>2. Topic(q) \in Elements(channel[q]) BY <2>1, <3>1, Behead DEF Topic
    <3>3. pc[Topic(q)] # "idle" BY <1>3, <2>1, <3>2 DEF HInv, Order
    <3>4. QED BY <1>3, <3>3 DEF Hearers
  <2>2. CASE q \notin Instances
    BY <1>3, <2>2 DEF Topic, Hearers
  <2>3. QED BY <2>1, <2>2
<1>10. ASSUME NEW c \in heardBy[Topic(q)], Home[c] = Place(q), link'[c] = "up"
       PROVE  Topic(q) \in Elements(inbox'[c]) \/ c \in left'[q]
  <2>1. c \in Conns BY <1>3 DEF IInv, HistoryOK
  <2>2. Topic(q) \in Elements(inbox[c]) \/ c \in left[q] BY <1>7, <1>10, <2>1 DEF Grow
  <2>3. QED BY <1>3, <2>1, <2>2 DEF Grow, Others
<1>11. QED BY <1>1, <1>6, <1>7, <1>8, <1>9, <1>10

LEMMA ServedKept ==
  ASSUME IInv, HInv, NEW e \in Events, NEW i \in Instances, Grow,
         heardBy'[e] = heardBy[e], Passed(e, i)' => Passed(e, i)
  PROVE  Served(e, i)'
<1> SUFFICES ASSUME Passed(e, i), <<e, i>> \notin disturbed',
                    NEW c \in heardBy[e], Home[c] = i, link'[c] = "up"
             PROVE  e \in Elements(inbox'[c])
  BY DEF Served, Elements
<1>1. c \in Conns /\ link[c] = "up" /\ <<e, i>> \notin disturbed
  BY DEF IInv, HistoryOK, Grow
<1>2. e \in Elements(inbox[c]) BY <1>1 DEF HInv, Served
<1>3. QED BY <1>1, <1>2 DEF Grow

\* A step of the endpoints: the processes stay where they are.
LEMMA HCalm ==
  ASSUME IInv, HInv, Grow, Spared({}), \A c \in Conns : ep'[c] = "new" => ep[c] = "new",
         UNCHANGED <<pc, iters, redis, heardBy>>
  PROVE  HInv'
<1>1. Others({}) /\ Hearers BY DEF Others, Hearers, iters, redis
<1>2. \A q \in Proc : Steady(q)' BY <1>1, SteadyKept
<1>3. ASSUME NEW e \in Events, NEW i \in Instances PROVE Served(e, i)'
  <2>1. Passed(e, i)' <=> Passed(e, i) BY DEF Passed, redis
  <2>2. QED BY <2>1, ServedKept
<1>4. Order' BY DEF HInv, Order, redis
<1>5. Blame' BY DEF HInv, Blame, Grow, redis
<1>6. Known' BY DEF HInv, Known
<1>7. QED BY <1>2, <1>3, <1>4, <1>5, <1>6 DEF HInv

LEMMA HConnect ==
  ASSUME IInv, HInv, NEW c \in Conns, Connect(c)
  PROVE  HInv'
<1>1. Home[c] \in Instances BY HubAssumption
<1>2. disturbed \subseteq disturbed' /\ Spared({})
  BY <1>1, TouchSpares DEF Connect
<1>3. Grow BY <1>2 DEF Grow, Connect
<1>4. \A d \in Conns : ep'[d] = "new" => ep[d] = "new" BY DEF Connect, IInv, EndsOK
<1>5. QED BY <1>2, <1>3, <1>4, HCalm DEF Connect

LEMMA HGreet ==
  ASSUME IInv, HInv, NEW c \in Conns, Greet(c)
  PROVE  HInv'
<1>1. Home[c] \in Instances BY HubAssumption
<1>2. PICK gone \in SUBSET {c} :
        /\ active' = [active EXCEPT ![Home[c]] = active[Home[c]] \ gone]
        /\ Touch(Left(gone, Home[c]) \cup IF c \in Scoped THEN Telling(c) ELSE {}, {})
  BY DEF Greet, Leave
<1>3. active[Home[c]] \ gone # active[Home[c]] => Left(gone, Home[c]) = Sending(Home[c])
  BY DEF Left
<1>4. disturbed \subseteq disturbed' /\ Spared({})
  BY <1>1, <1>2, <1>3, TouchSpares
<1>5. Grow BY <1>4 DEF Grow, Greet
<1>6. \A d \in Conns : ep'[d] = "new" => ep[d] = "new" BY DEF Greet, IInv, EndsOK
<1>7. QED BY <1>4, <1>5, <1>6, HCalm DEF Greet

LEMMA HNotice ==
  ASSUME IInv, HInv, NEW c \in Conns, Notice(c)
  PROVE  HInv'
<1>1. Home[c] \in Instances BY HubAssumption
<1>2. /\ active' = [active EXCEPT ![Home[c]] = active[Home[c]] \ {c}]
      /\ Touch(Left({c}, Home[c]) \cup
               IF c \in listeners[Home[c]] THEN Telling(c) ELSE {}, {})
  BY DEF Notice, Forget, Leave
<1>3. active[Home[c]] \ {c} # active[Home[c]] => Left({c}, Home[c]) = Sending(Home[c])
  BY DEF Left
<1>4. disturbed \subseteq disturbed' /\ Spared({})
  BY <1>1, <1>2, <1>3, TouchSpares
<1>5. Grow BY <1>4 DEF Grow, Notice
<1>6. \A d \in Conns : ep'[d] = "new" => ep[d] = "new" BY DEF Notice, IInv, EndsOK
<1>7. QED BY <1>4, <1>5, <1>6, HCalm DEF Notice

LEMMA HCut ==
  ASSUME IInv, HInv, NEW c \in Conns, Cut(c)
  PROVE  HInv'
<1>1. Grow BY DEF Grow, Cut, IInv, EndsOK
<1>2. Spared({}) BY DEF Spared, Cut, sets
<1>3. QED BY <1>1, <1>2, HCalm DEF Cut

LEMMA HSend ==
  ASSUME IInv, HInv, NEW p \in Proc, Send(p)
  PROVE  HInv'
<1> DEFINE e == Topic(p)  i == Place(p)
<1>1. e \in Events /\ i \in Instances /\ pc[p] = "send" BY Topics, Places DEF Send
<1>2. \A rest \in Ahead(p, active[i]) : rest \subseteq Conns
  BY <1>1 DEF Ahead, IInv, ItersOK, EndsOK
<1>3. PICK rest \in SUBSET Conns, c \in Conns :
        /\ rest \in Ahead(p, active[i]) /\ c \in rest
        /\ left' = [left EXCEPT ![p] = rest \ {c}]
        /\ moved' = moved \ {p}
        /\ Deliver(c, e)
  BY <1>2 DEF Send, Remaining
<1>4. UNCHANGED <<sockets, sets, pc, size, redis, heardBy, disturbed>> BY DEF Send
<1>5. Grow BY <1>1, <1>3, <1>4, Delivered DEF Grow, sockets
<1>6. Others({p}) BY <1>3, <1>4 DEF Others, redis, IInv, ItersOK
<1>7. Spared({p}) BY <1>3, <1>4 DEF Spared, sets
<1>8. Hearers BY <1>4 DEF Hearers
<1>9. \A q \in Proc : q # p => Steady(q)' BY <1>5, <1>6, <1>7, <1>8, SteadyKept
<1>10. Steady(p)'
  <2> SUFFICES ASSUME ~ Stirred(p)'
               PROVE  /\ p \notin moved' /\ Intact(p)'
                      /\ \A d \in heardBy[e] :
                            Home[d] = i /\ link[d] = "up" =>
                               e \in Elements(inbox'[d]) \/ d \in left'[p]
    BY <1>4 DEF Steady, Topic, Place, sockets, redis
  <2>1. ~ Stirred(p) BY <1>4 DEF Stirred, Topic, Place, redis
  <2>2. /\ p \notin moved /\ Intact(p)
        /\ \A d \in heardBy[e] :
              Home[d] = i /\ link[d] = "up" => e \in Elements(inbox[d]) \/ d \in left[p]
    BY <1>1, <2>1 DEF HInv, Steady
  <2>3. rest = left[p] BY <1>3, <2>2 DEF Ahead
  <2>4. p \notin moved' /\ Intact(p)' BY <1>3, <1>4, <2>2 DEF Intact, Place, sets
  <2>5. ASSUME NEW d \in heardBy[e], Home[d] = i, link[d] = "up"
        PROVE  e \in Elements(inbox'[d]) \/ d \in left'[p]
    <3>1. d \in Conns BY <1>1 DEF IInv, HistoryOK
    <3>2. CASE e \in Elements(inbox[d])
      BY <1>1, <1>5, <3>1, <3>2 DEF Grow
    <3>3. CASE d \in left[p] /\ d # c
      BY <1>3, <2>3, <3>3 DEF IInv, ItersOK
    <3>4. CASE d = c
      BY <1>1, <1>3, <2>5, <3>4, Delivered
    <3>5. QED BY <2>2, <2>5, <3>2, <3>3, <3>4
  <2>6. QED BY <2>4, <2>5
<1>11. ASSUME NEW x \in Events, NEW j \in Instances PROVE Served(x, j)'
  <2>1. Passed(x, j)' <=> Passed(x, j) BY <1>4 DEF Passed, redis
  <2>2. QED BY <1>4, <1>5, <2>1, ServedKept
<1>12. Order' /\ Blame' /\ Known' BY <1>4 DEF HInv, Order, Blame, Known, redis, sockets
<1>13. QED BY <1>9, <1>10, <1>11, <1>12 DEF HInv

\* A broadcast that p leaves: who is owed the event of it got it.
LEMMA HLeaves ==
  ASSUME IInv, HInv, NEW p \in Proc, NEW t \in Events,
         Grow, Others({p}), Spared({p}), Hearers,
         pc'[p] # "send",
         \A e \in Events, i \in Instances : Passed(e, i)' =>
            Passed(e, i) \/ (e = t /\ i = Place(p)),
         \A e \in Events : heardBy'[e] = heardBy[e] \/ (e = t /\ p = t),
         <<t, Place(p)>> \notin disturbed' =>
            \A c \in heardBy'[t] : Home[c] = Place(p) /\ link'[c] = "up" => t \in Elements(inbox'[c]),
         p = t => \A i \in Instances : Passed(t, i)' => i = Place(p)
  PROVE  /\ \A q \in Proc : Steady(q)'
         /\ \A e \in Events, i \in Instances : Served(e, i)'
<1>1. Steady(p)' BY DEF Steady
<1>2. \A q \in Proc : q # p => Steady(q)' BY SteadyKept
<1>3. ASSUME NEW e \in Events, NEW i \in Instances PROVE Served(e, i)'
  <2>1. CASE e = t /\ i = Place(p)
    BY <2>1 DEF Served, Elements
  <2>2. CASE ~ (e = t /\ i = Place(p)) /\ heardBy'[e] = heardBy[e]
    BY <2>2, ServedKept
  <2>3. CASE heardBy'[e] # heardBy[e] /\ i # Place(p)
    BY <2>3 DEF Served
  <2>4. QED BY <2>1, <2>2, <2>3
<1>4. QED BY <1>1, <1>2, <1>3

LEMMA Consumed ==
  ASSUME IInv, NEW p \in Proc, Consume(p), p \in Instances => channel[p] # << >>
  PROVE  /\ \A i \in Instances : i # p => channel'[i] = channel[i]
         /\ \A i \in Instances, e \in Events :
               e \in Elements(channel'[i]) => e \in Elements(channel[i])
         /\ p \in Instances => \A e \in Events : e \in Elements(channel[p]) =>
               e = Head(channel[p]) \/ e \in Elements(channel'[p])
<1>1. CASE p \in Instances
  <2>1. channel[p] \in Seq(Events) /\ channel[p] # << >> BY <1>1 DEF IInv, ChannelsOK
  <2>2. Elements(channel[p]) = {Head(channel[p])} \cup Elements(Tail(channel[p])) BY <2>1, Behead
  <2>3. channel' = [channel EXCEPT ![p] = Tail(channel[p])] BY <1>1 DEF Consume
  <2>4. channel'[p] = Tail(channel[p]) BY <1>1, <2>3 DEF IInv, ChannelsOK
  <2>5. \A i \in Instances : i # p => channel'[i] = channel[i] BY <2>3 DEF IInv, ChannelsOK
  <2>6. QED BY <2>2, <2>4, <2>5
<1>2. CASE p \notin Instances
  BY <1>2 DEF Consume
<1>3. QED BY <1>1, <1>2

\* A broadcast that comes to its end, or to nobody, is the only one to be passed.
LEMMA PassedBy ==
  ASSUME IInv, HInv, NEW p \in Proc, NEW t \in Events, pc[p] \in {"idle", "send"},
         p \in Instances => channel[p] # << >> /\ t = Head(channel[p]),
         p \notin Instances => t = p,
         pc' = [pc EXCEPT ![p] = Onward(p)], Consume(p),
         log' = log, faults' = faults, disturbed \subseteq disturbed'
  PROVE  /\ pc'[p] # "send"
         /\ \A q \in Proc : q # p =>
               pc'[q] = pc[q] /\ (q \in Instances => Head(channel'[q]) = Head(channel[q]))
         /\ \A e \in Events, i \in Instances : Passed(e, i)' =>
               Passed(e, i) \/ (e = t /\ i = Place(p))
         /\ p = t => \A i \in Instances : Passed(t, i)' => i = Place(p)
         /\ Order' /\ Blame'
<1>1. pc'[p] = Onward(p) /\ \A q \in Proc : q # p => pc'[q] = pc[q] BY DEF IInv, ProcOK
<1>2. Onward(p) \in {"idle", "notify", "publish"} /\ (p \in Instances => Onward(p) = "idle")
  BY DEF Onward
<1>3. Events \subseteq Proc /\ Instances \subseteq Proc /\ Events \cap Instances = {}
  BY HubAssumption DEF Proc
<1>4. \A q \in Proc : q # p => (q \in Instances => Head(channel'[q]) = Head(channel[q]))
  BY Consumed
<1>5. Order'
  <2>1. \A e \in Events : e \in Elements(log) => e # p BY DEF HInv, Order
  <2>2. \A e \in Events : e \in Elements(log) => pc'[e] \in {"notify", "tell", "done"}
    BY <1>1, <1>3, <2>1 DEF HInv, Order
  <2>3. \A i \in Instances, e \in Events : e \in Elements(channel'[i]) => e \in Elements(log)
    BY Consumed DEF HInv, Order
  <2>4. QED BY <2>2, <2>3 DEF Order
<1>6. Blame'
  <2>1. \A i \in Instances : pc'[i] = "ended" => pc[i] = "ended" BY <1>1, <1>2, <1>3
  <2>2. QED BY <2>1 DEF Blame, HInv
<1>7. ASSUME NEW e \in Events, NEW i \in Instances, Passed(e, i)', ~ Passed(e, i)
      PROVE  e = t /\ i = Place(p)
  <2>1. CASE i = Origin[e]
    <3>1. pc'[e] \in {"publish", "notify", "tell", "done"} BY <1>7, <2>1 DEF Passed
    <3>2. pc[e] \notin {"publish", "notify", "tell", "done"} BY <1>7, <2>1 DEF Passed
    <3>3. e = p BY <1>1, <1>3, <3>1, <3>2
    <3>4. QED BY <1>3, <2>1, <3>3 DEF Place
  <2>2. CASE i # Origin[e]
    <3>1. e \in Elements(log) /\ pc'[i] \in {"idle", "send"} /\ e \notin Elements(channel'[i])
      BY <1>7, <2>2 DEF Passed
    <3>2. pc[i] \in {"idle", "send"} BY <1>1, <1>3, <3>1
    <3>3. e \in Elements(channel[i]) BY <1>7, <2>2, <3>1, <3>2 DEF Passed
    <3>4. i = p BY <3>1, <3>3, Consumed
    <3>5. e = t BY <3>1, <3>3, <3>4, Consumed
    <3>6. QED BY <3>4, <3>5 DEF Place
  <2>3. QED BY <2>1, <2>2
<1>8. ASSUME p = t, NEW i \in Instances, Passed(t, i)', i # Place(p) PROVE FALSE
  <2>1. i # Origin[t] BY <1>3, <1>8 DEF Place
  <2>2. t \in Elements(log) BY <1>8, <2>1 DEF Passed
  <2>3. QED BY <1>8, <2>2 DEF HInv, Order
<1>9. QED BY <1>1, <1>2, <1>4, <1>5, <1>6, <1>7, <1>8

LEMMA HFinish ==
  ASSUME IInv, HInv, NEW p \in Proc, Finish(p)
  PROVE  HInv'
<1> DEFINE i == Place(p)
<1>0. PICK t \in Events : t = Topic(p) BY Topics DEF Finish
<1>1. i \in Instances /\ pc[p] = "send" BY Places DEF Finish
<1>2. UNCHANGED <<ep, link, log, faults, inbox, heardBy>> BY DEF Finish, sockets
<1>3. /\ active' = [active EXCEPT ![i] = active[i] \ failed[p]]
      /\ Touch(Left(failed[p], i), {p})
  BY DEF Finish, Leave
<1>4. active[i] \ failed[p] # active[i] => Left(failed[p], i) = Sending(i) BY DEF Left
<1>5. disturbed \subseteq disturbed' /\ Spared({p}) BY <1>1, <1>3, <1>4, TouchSpares
<1>6. Grow /\ Hearers BY <1>2, <1>5 DEF Grow, Hearers
<1>7. /\ pc' = [pc EXCEPT ![p] = Onward(p)] /\ Consume(p) /\ Drop(p) BY DEF Finish
<1>8. p \in Instances => channel[p] # << >> /\ t = Head(channel[p])
  BY <1>0, <1>1 DEF IInv, ChannelsOK, Topic
<1>9. p \notin Instances => t = p BY <1>0 DEF Topic
<1>10. /\ pc'[p] # "send"
       /\ \A q \in Proc : q # p =>
             pc'[q] = pc[q] /\ (q \in Instances => Head(channel'[q]) = Head(channel[q]))
       /\ \A e \in Events, j \in Instances : Passed(e, j)' =>
             Passed(e, j) \/ (e = t /\ j = i)
       /\ p = t => \A j \in Instances : Passed(t, j)' => j = i
       /\ Order' /\ Blame'
  BY <1>1, <1>2, <1>5, <1>7, <1>8, <1>9, PassedBy
<1>11. Others({p}) BY <1>7, <1>10 DEF Others, Drop, IInv, ItersOK
<1>12. <<t, i>> \notin disturbed' =>
          \A c \in heardBy'[t] : Home[c] = i /\ link'[c] = "up" => t \in Elements(inbox'[c])
  <2> SUFFICES ASSUME <<t, i>> \notin disturbed', NEW c \in heardBy[t], Home[c] = i, link[c] = "up"
               PROVE  t \in Elements(inbox[c])
    BY <1>2
  <2>1. ~ Stirred(p) BY <1>0, <1>5 DEF Stirred
  <2>2. p \notin moved /\ (t \in Elements(inbox[c]) \/ c \in left[p])
    BY <1>0, <1>1, <2>1 DEF HInv, Steady
  <2>3. left[p] = {} BY <2>2 DEF Finish, Ahead
  <2>4. QED BY <2>2, <2>3
<1>13. \A q \in Proc : Steady(q)'
  BY <1>1, <1>2, <1>5, <1>6, <1>10, <1>11, <1>12, HLeaves
<1>14. \A e \in Events, j \in Instances : Served(e, j)'
  BY <1>1, <1>2, <1>5, <1>6, <1>10, <1>11, <1>12, HLeaves
<1>15. Known' BY <1>2 DEF HInv, Known
<1>16. QED BY <1>10, <1>13, <1>14, <1>15 DEF HInv

LEMMA HTear ==
  ASSUME IInv, HInv, NEW p \in Proc, Tear(p)
  PROVE  HInv'
<1> DEFINE i == Place(p)
<1>0. PICK t \in Events : t = Topic(p) BY Topics DEF Tear
<1>1. i \in Instances /\ pc[p] = "send" BY Places DEF Tear
<1>2. UNCHANGED <<ep, link, active, log, faults, inbox, heardBy, disturbed>>
  BY DEF Tear, sockets, sets
<1>3. <<t, i>> \in disturbed BY <1>0, <1>1 DEF Tear, HInv, Steady, Stirred
<1>4. Grow /\ Hearers BY <1>2 DEF Grow, Hearers
<1>5. Spared({p}) BY <1>2 DEF Spared, Tear
<1>6. /\ \A q \in Proc : q # p => pc'[q] = pc[q]
      /\ \A j \in Instances : j # p => channel'[j] = channel[j]
      /\ pc'[p] = IF p \in Instances THEN "ended" ELSE "done"
  BY DEF Tear, IInv, ProcOK, ChannelsOK
<1>7. Others({p}) BY <1>6 DEF Others, Tear, Drop, IInv, ItersOK
<1>8. Events \subseteq Proc /\ Instances \subseteq Proc /\ Events \cap Instances = {}
      /\ (p \notin Instances => t = p)
  BY <1>0, HubAssumption DEF Proc, Topic
<1>9. \A e \in Events, j \in Instances : Passed(e, j)' => Passed(e, j) \/ (e = t /\ j = i)
  <2> SUFFICES ASSUME NEW e \in Events, NEW j \in Instances, Passed(e, j)', ~ Passed(e, j)
               PROVE  e = t /\ j = i
    OBVIOUS
  <2>1. CASE j = Origin[e]
    <3>1. e = p BY <1>6, <1>8, <2>1 DEF Passed
    <3>2. QED BY <1>8, <2>1, <3>1 DEF Place
  <2>2. CASE j # Origin[e]
    <3>1. j # p BY <1>6, <2>2 DEF Passed
    <3>2. pc'[j] = pc[j] /\ channel'[j] = channel[j] BY <1>6, <1>8, <3>1
    <3>3. QED BY <1>2, <2>2, <3>2 DEF Passed
  <2>3. QED BY <2>1, <2>2
<1>10. p = t => \A j \in Instances : Passed(t, j)' => j = i
  <2>1. ASSUME p = t, NEW j \in Instances, Passed(t, j)', j # i PROVE FALSE
    <3>1. t \in Elements(log) BY <1>1, <1>2, <1>8, <2>1 DEF Passed, Place
    <3>2. QED BY <1>1, <2>1, <3>1 DEF HInv, Order
  <2>2. QED BY <2>1
<1>11. (\A q \in Proc : Steady(q)') /\ \A e \in Events, j \in Instances : Served(e, j)'
  <2>1. pc'[p] # "send" BY <1>6
  <2>2. QED BY <1>1, <1>2, <1>3, <1>4, <1>5, <1>7, <1>9, <1>10, <2>1, HLeaves
<1>12. Order'
  <2>1. \A e \in Events : e \in Elements(log) => e # p BY <1>1 DEF HInv, Order
  <2>2. \A e \in Events : e \in Elements(log) => pc'[e] \in {"notify", "tell", "done"}
    BY <1>6, <1>8, <2>1 DEF HInv, Order
  <2>3. Elements(<< >>) = {} BY DEF Elements
  <2>4. \A j \in Instances, e \in Events : e \in Elements(channel'[j]) => e \in Elements(channel[j])
    BY <1>6, <2>3 DEF Tear, IInv, ChannelsOK
  <2>5. QED BY <1>2, <2>2, <2>4 DEF HInv, Order
<1>13. Blame'
  <2>1. ASSUME NEW j \in Instances, pc'[j] = "ended", j # p
        PROVE  faults' > 0 \/ \E e \in Events : <<e, j>> \in disturbed'
    BY <1>2, <1>6, <1>8, <2>1 DEF HInv, Blame
  <2>2. p \in Instances => \E e \in Events : <<e, p>> \in disturbed'
    BY <1>1, <1>2, <1>3 DEF Place
  <2>3. QED BY <2>1, <2>2 DEF Blame
<1>14. Known' BY <1>2 DEF HInv, Known
<1>15. QED BY <1>11, <1>12, <1>13, <1>14 DEF HInv

\* A broadcast that begins: those who are owed its event are in the set.
LEMMA HBegin ==
  ASSUME IInv, MInv, HInv, NEW p \in Proc, NEW e \in Events,
         pc[p] = "idle", Begin(p, e, Place(p)),
         p \in Instances => channel[p] # << >> /\ e = Head(channel[p]),
         p \notin Instances => e = p,
         UNCHANGED <<sockets, sets, log, faults, disturbed>>,
         \/ p \in Instances /\ heardBy' = heardBy
         \/ p = e /\ heardBy' = [heardBy EXCEPT ![e] = UNION {active[i] : i \in Instances}]
  PROVE  HInv'
<1>1. Place(p) \in Instances /\ active[Place(p)] \subseteq Conns
  BY Places DEF IInv, EndsOK
<1>2. UNCHANGED <<ep, link, active, log, faults, disturbed>> BY DEF sockets, sets
<1>3. \A x \in Events : heardBy'[x] = heardBy[x] \/ (x = e /\ p = e)
  BY DEF IInv, HistoryOK
<1>4. Hearers BY <1>3 DEF Hearers
<1>5. \A c \in heardBy'[e] : c \in Conns /\ (link[c] = "up" => c \in active[Home[c]])
  <2>1. CASE p \in Instances
    <3>1. heardBy' = heardBy BY <2>1, HubAssumption
    <3>2. \A c \in heardBy[e] : c \in Conns BY DEF IInv, HistoryOK
    <3>3. QED BY <3>1, <3>2, Present
  <2>2. CASE p \notin Instances
    <3>1. heardBy'[e] = UNION {active[i] : i \in Instances}
      BY <2>2 DEF IInv, HistoryOK
    <3>2. \A i \in Instances : \A c \in active[i] : c \in Conns /\ Home[c] = i
      BY DEF MInv, IInv, EndsOK
    <3>3. QED BY <3>1, <3>2
  <2>3. QED BY <2>1, <2>2
<1>6. Known'
  <2>1. \A i \in Instances : \A c \in active[i] : ep[c] # "new" BY DEF MInv, IInv, EndsOK
  <2>2. \A x \in Events, c \in Conns : c \in heardBy'[x] =>
           c \in heardBy[x] \/ \E i \in Instances : c \in active[i]
    BY DEF IInv, HistoryOK
  <2>3. QED BY <1>2, <2>1, <2>2 DEF HInv, Known
<1>7. CASE active[Place(p)] = {}
  <2>1. /\ pc' = [pc EXCEPT ![p] = Onward(p)] /\ Consume(p)
        /\ UNCHANGED <<left, size, failed, moved, inbox>>
    BY <1>7 DEF Begin, iters
  <2>2. /\ pc'[p] # "send"
        /\ \A q \in Proc : q # p =>
              pc'[q] = pc[q] /\ (q \in Instances => Head(channel'[q]) = Head(channel[q]))
        /\ \A x \in Events, j \in Instances : Passed(x, j)' =>
              Passed(x, j) \/ (x = e /\ j = Place(p))
        /\ p = e => \A j \in Instances : Passed(e, j)' => j = Place(p)
        /\ Order' /\ Blame'
    BY <1>2, <2>1, PassedBy
  <2>3. Others({p}) BY <2>1, <2>2 DEF Others
  <2>4. Spared({p}) BY <1>2, <2>1 DEF Spared
  <2>5. Grow BY <1>2, <2>1 DEF Grow
  <2>6. <<e, Place(p)>> \notin disturbed' =>
           \A c \in heardBy'[e] : Home[c] = Place(p) /\ link'[c] = "up" => e \in Elements(inbox'[c])
    BY <1>2, <1>5, <1>7
  <2>7. /\ \A q \in Proc : Steady(q)'
        /\ \A x \in Events, j \in Instances : Served(x, j)'
    BY <1>3, <1>4, <2>2, <2>3, <2>4, <2>5, <2>6, HLeaves
  <2>8. QED BY <1>6, <2>2, <2>7 DEF HInv
<1>8. CASE active[Place(p)] # {}
  <2>1. PICK c \in Conns :
          /\ c \in active[Place(p)]
          /\ pc' = [pc EXCEPT ![p] = "send"]
          /\ left' = [left EXCEPT ![p] = active[Place(p)] \ {c}]
          /\ size' = [size EXCEPT ![p] = Cardinality(active[Place(p)])]
          /\ moved' = moved \ {p}
          /\ Deliver(c, e)
          /\ channel' = channel
    BY <1>1, <1>8 DEF Begin, Remaining
  <2>2. Grow BY <1>2, <2>1, Delivered DEF Grow
  <2>3. Others({p}) BY <2>1 DEF Others, IInv, ProcOK, ItersOK
  <2>4. Spared({p}) BY <1>2, <2>1 DEF Spared
  <2>5. \A q \in Proc : q # p => Steady(q)' BY <1>4, <2>2, <2>3, <2>4, SteadyKept
  <2>6. Topic(p)' = e /\ Place(p)' = Place(p) BY <2>1 DEF Topic, Place
  <2>7. Steady(p)'
    <3>1. p \notin moved' BY <2>1
    <3>2. Intact(p)' BY <1>2, <2>1 DEF Intact, Place, IInv, ItersOK
    <3>3. ASSUME NEW d \in heardBy'[e], Home[d] = Place(p), link'[d] = "up"
          PROVE  e \in Elements(inbox'[d]) \/ d \in left'[p]
      <4>1. d \in Conns /\ link[d] = "up" /\ d \in active[Place(p)] BY <1>2, <1>5, <3>3
      <4>2. CASE d = c
        BY <2>1, <4>1, <4>2, Delivered
      <4>3. CASE d # c
        BY <2>1, <4>1, <4>3 DEF IInv, ItersOK
      <4>4. QED BY <4>2, <4>3
    <3>4. QED BY <2>6, <3>1, <3>2, <3>3 DEF Steady
  <2>8. \A q \in Proc : q # p => pc'[q] = pc[q] BY <2>1 DEF IInv, ProcOK
  <2>9. pc'[p] = "send" BY <2>1 DEF IInv, ProcOK
  <2>10. Events \subseteq Proc /\ Instances \subseteq Proc BY DEF Proc
  <2>11. \A x \in Events, j \in Instances : Passed(x, j)' => Passed(x, j)
    BY <1>2, <2>1, <2>8, <2>9, <2>10 DEF Passed
  <2>12. ASSUME NEW x \in Events, NEW j \in Instances PROVE Served(x, j)'
    <3>1. CASE heardBy'[x] = heardBy[x]
      BY <2>2, <2>11, <3>1, ServedKept
    <3>2. CASE x = e /\ p = e
      <4>1. x \notin Elements(log) BY <3>2 DEF HInv, Order
      <4>2. ~ Passed(x, j) BY <3>2, <4>1 DEF Passed
      <4>3. QED BY <2>11, <4>2 DEF Served
    <3>3. QED BY <1>3, <3>1, <3>2
  <2>13. Order'
    <3>1. \A x \in Events : x \in Elements(log) => x # p BY DEF HInv, Order
    <3>2. QED BY <1>2, <2>1, <2>8, <2>10, <3>1 DEF HInv, Order
  <2>14. Blame' BY <1>2, <2>8, <2>9, <2>10 DEF HInv, Blame
  <2>15. QED BY <1>6, <2>5, <2>7, <2>12, <2>13, <2>14 DEF HInv
<1>9. QED BY <1>7, <1>8

LEMMA HToRedis ==
  ASSUME IInv, HInv, NEW e \in Events, ToRedis(e)
  PROVE  HInv'
<1>1. e \in Proc /\ e \notin Instances /\ Events \subseteq Proc /\ Instances \subseteq Proc
  BY HubAssumption DEF Proc
<1>2. UNCHANGED <<ep, link, active, left, size, moved, inbox, heardBy, disturbed, faults>>
  BY DEF ToRedis, sockets, sets, iters
<1>3. pc'[e] = "notify" /\ pc[e] = "publish" /\ \A q \in Proc : q # e => pc'[q] = pc[q]
  BY <1>1 DEF ToRedis, IInv, ProcOK
<1>4. Elements(log') = Elements(log) \cup {e}
  BY Appended DEF ToRedis, IInv, HistoryOK
<1>5. ASSUME NEW i \in Instances
      PROVE  /\ pc[i] \in {"idle", "send"} => Elements(channel'[i]) = Elements(channel[i]) \cup {e}
             /\ pc[i] \notin {"idle", "send"} => channel'[i] = channel[i]
             /\ channel[i] # << >> => Head(channel'[i]) = Head(channel[i])
  BY Appended DEF ToRedis, Subscribers, IInv, ChannelsOK
<1>6. Grow /\ Hearers BY <1>2 DEF Grow, Hearers
<1>7. Others({e}) BY <1>2, <1>3, <1>5 DEF Others, IInv, ChannelsOK
<1>8. Spared({e}) BY <1>2 DEF Spared
<1>9. \A q \in Proc : Steady(q)'
  <2>1. Steady(e)' BY <1>3 DEF Steady
  <2>2. QED BY <1>6, <1>7, <1>8, <2>1, SteadyKept
<1>10. ASSUME NEW x \in Events, NEW i \in Instances PROVE Served(x, i)'
  <2>1. i # e /\ pc'[i] = pc[i] BY <1>1, <1>3
  <2>2. Passed(x, i)' => Passed(x, i)
    <3>1. CASE i = Origin[x]
      BY <1>1, <1>3, <3>1 DEF Passed
    <3>2. CASE i # Origin[x]
      <4> SUFFICES ASSUME x \in Elements(log'), pc'[i] \in {"idle", "send"},
                          x \notin Elements(channel'[i])
                   PROVE  x \in Elements(log) /\ x \notin Elements(channel[i])
        BY <2>1, <3>2 DEF Passed
      <4>1. QED BY <1>4, <1>5, <2>1
    <3>3. QED BY <3>1, <3>2
  <2>3. QED BY <1>2, <1>6, <2>2, ServedKept
<1>11. Order'
  <2>1. \A x \in Events : x \in Elements(log') => pc'[x] \in {"notify", "tell", "done"}
    BY <1>1, <1>3, <1>4 DEF HInv, Order
  <2>2. \A i \in Instances, x \in Events : x \in Elements(channel'[i]) => x \in Elements(log')
    BY <1>4, <1>5 DEF HInv, Order
  <2>3. QED BY <2>1, <2>2 DEF Order
<1>12. Blame' BY <1>1, <1>2, <1>3 DEF HInv, Blame
<1>13. Known' BY <1>2 DEF HInv, Known
<1>14. QED BY <1>9, <1>10, <1>11, <1>12, <1>13 DEF HInv

\* A publishing call that is past its broadcast goes on.
LEMMA HPast ==
  ASSUME IInv, HInv, NEW e \in Events, Grow, Spared({e}),
         pc[e] \in {"publish", "notify", "tell"},
         \E to \in {"notify", "tell", "done"} : pc' = [pc EXCEPT ![e] = to],
         \A q \in Proc : q # e => left'[q] = left[q] /\ size'[q] = size[q],
         UNCHANGED <<ep, channel, log, heardBy>>, faults' \in Nat, faults' >= faults
  PROVE  HInv'
<1>1. e \in Proc /\ e \notin Instances /\ Events \subseteq Proc /\ Instances \subseteq Proc
  BY HubAssumption DEF Proc
<1>2. pc'[e] \in {"notify", "tell", "done"} /\ \A q \in Proc : q # e => pc'[q] = pc[q]
  BY <1>1 DEF IInv, ProcOK
<1>3. Others({e}) /\ Hearers BY <1>2 DEF Others, Hearers
<1>4. \A q \in Proc : Steady(q)'
  <2>1. Steady(e)' BY <1>2 DEF Steady
  <2>2. QED BY <1>3, <2>1, SteadyKept
<1>5. ASSUME NEW x \in Events, NEW i \in Instances PROVE Served(x, i)'
  <2>1. Passed(x, i)' => Passed(x, i) BY <1>1, <1>2 DEF Passed
  <2>2. QED BY <2>1, ServedKept
<1>6. Order' BY <1>1, <1>2 DEF HInv, Order
<1>7. Blame'
  <2>1. \A i \in Instances : pc'[i] = pc[i] BY <1>1, <1>2
  <2>2. faults > 0 => faults' > 0 BY HubAssumption DEF IInv, HistoryOK
  <2>3. QED BY <2>1, <2>2 DEF HInv, Blame, Grow
<1>8. Known' BY DEF HInv, Known
<1>9. QED BY <1>4, <1>5, <1>6, <1>7, <1>8 DEF HInv

LEMMA HTell ==
  ASSUME IInv, HInv, NEW e \in Events, NEW c \in Conns, NEW rest, Tell(e, c, rest),
         pc[e] \in {"notify", "tell"}, \A q \in Proc : q # e => size'[q] = size[q],
         UNCHANGED <<sockets, redis, heardBy>>
  PROVE  HInv'
<1>1. Origin[e] \in Instances BY HubAssumption
<1>2. PICK gone \in SUBSET {c} :
        /\ pc' = [pc EXCEPT ![e] = "tell"]
        /\ left' = [left EXCEPT ![e] = rest]
        /\ Leave(gone, Origin[e])
        /\ Touch(Left(gone, Origin[e]), {e})
        /\ Deliver(c, e)
  BY DEF Tell
<1>3. /\ active' = [active EXCEPT ![Origin[e]] = active[Origin[e]] \ gone]
      /\ active[Origin[e]] \ gone # active[Origin[e]] =>
            Left(gone, Origin[e]) = Sending(Origin[e])
  BY <1>2 DEF Left, Leave
<1>4. disturbed \subseteq disturbed' /\ Spared({e})
  BY <1>1, <1>2, <1>3, TouchSpares
<1>5. UNCHANGED <<ep, link, channel, log, faults>> BY DEF sockets, redis
<1>6. Grow BY <1>2, <1>4, <1>5, Delivered DEF Grow
<1>7. \A q \in Proc : q # e => left'[q] = left[q] BY <1>2 DEF IInv, ItersOK
<1>8. faults' \in Nat /\ faults' >= faults BY <1>5, HubAssumption DEF IInv, HistoryOK
<1>9. QED BY <1>2, <1>4, <1>5, <1>6, <1>7, <1>8, HPast

LEMMA HNotify ==
  ASSUME IInv, HInv, NEW e \in Events, Notify(e) \/ NotifyNext(e)
  PROVE  HInv'
<1>1. e \in Proc /\ Callbacks(e) \subseteq Conns BY CallbacksAre DEF Proc
<1>2. \A rest \in Ahead(e, Callbacks(e) \cap About[e]) : rest \subseteq Conns
  BY <1>1 DEF Ahead, IInv, ItersOK
<1>3. \E c \in Conns : \E rest : Tell(e, c, rest)
  BY <1>1, <1>2 DEF Notify, NotifyNext
<1>4. \A q \in Proc : q # e => size'[q] = size[q]
  BY DEF Notify, NotifyNext, IInv, ItersOK
<1>5. pc[e] \in {"notify", "tell"} BY DEF Notify, NotifyNext
<1>6. UNCHANGED <<sockets, redis, heardBy>> BY DEF Notify, NotifyNext
<1>7. QED BY <1>3, <1>4, <1>5, <1>6, HTell

LEMMA HNotifyEnd ==
  ASSUME IInv, HInv, NEW e \in Events, NotifyEnd(e)
  PROVE  HInv'
<1>1. pc[e] \in {"notify", "tell"} /\ pc' = [pc EXCEPT ![e] = "done"] BY DEF NotifyEnd
<1>2. UNCHANGED <<ep, link, active, channel, log, faults, inbox, heardBy, disturbed>>
  BY DEF NotifyEnd, sockets, sets, redis
<1>3. \A q \in Proc : q # e => left'[q] = left[q] /\ size'[q] = size[q]
  BY DEF NotifyEnd, Drop, IInv, ItersOK
<1>4. Grow BY <1>2 DEF Grow
<1>5. Spared({e}) BY <1>2 DEF Spared, NotifyEnd
<1>6. faults' \in Nat /\ faults' >= faults BY <1>2, HubAssumption DEF IInv, HistoryOK
<1>7. QED BY <1>1, <1>2, <1>3, <1>4, <1>5, <1>6, HPast

LEMMA HToRedisFails ==
  ASSUME IInv, HInv, NEW e \in Events, ToRedisFails(e)
  PROVE  HInv'
<1>1. pc[e] = "publish" /\ pc' = [pc EXCEPT ![e] = "notify"] BY DEF ToRedisFails
<1>2. UNCHANGED <<ep, link, active, left, size, moved, channel, log, inbox, heardBy, disturbed>>
  BY DEF ToRedisFails, sockets, sets, iters
<1>3. Grow /\ Spared({e}) BY <1>2 DEF Grow, Spared
<1>4. faults' \in Nat /\ faults' >= faults
  BY HubAssumption DEF ToRedisFails, IInv, HistoryOK
<1>5. QED BY <1>1, <1>2, <1>3, <1>4, HPast

LEMMA HRelayEnds ==
  ASSUME IInv, HInv, NEW i \in Instances, RelayEnds(i)
  PROVE  HInv'
<1>1. i \in Proc /\ i \notin Events /\ Events \subseteq Proc /\ Instances \subseteq Proc
  BY HubAssumption DEF Proc
<1>2. UNCHANGED <<ep, link, active, left, size, moved, log, inbox, heardBy, disturbed>>
  BY DEF RelayEnds, sockets, sets, iters
<1>3. pc'[i] = "ended" /\ \A q \in Proc : q # i => pc'[q] = pc[q]
  BY <1>1 DEF RelayEnds, IInv, ProcOK
<1>4. channel'[i] = << >> /\ \A j \in Instances : j # i => channel'[j] = channel[j]
  BY DEF RelayEnds, IInv, ChannelsOK
<1>5. Grow /\ Hearers /\ Others({i}) /\ Spared({i})
  BY <1>2, <1>3, <1>4 DEF Grow, Hearers, Others, Spared
<1>6. \A q \in Proc : Steady(q)'
  <2>1. Steady(i)' BY <1>3 DEF Steady
  <2>2. QED BY <1>5, <2>1, SteadyKept
<1>7. ASSUME NEW x \in Events, NEW j \in Instances PROVE Served(x, j)'
  <2>1. Passed(x, j)' => Passed(x, j) BY <1>1, <1>2, <1>3, <1>4 DEF Passed
  <2>2. QED BY <1>2, <1>5, <2>1, ServedKept
<1>8. Order'
  <2>1. Elements(<< >>) = {} BY DEF Elements
  <2>2. \A j \in Instances, e \in Events : e \in Elements(channel'[j]) => e \in Elements(channel[j])
    BY <1>4, <2>1
  <2>3. QED BY <1>1, <1>2, <1>3, <2>2 DEF HInv, Order
<1>9. faults' > 0 BY HubAssumption DEF RelayEnds, IInv, HistoryOK
<1>10. Blame' BY <1>9 DEF Blame
<1>11. Known' BY <1>2 DEF HInv, Known
<1>12. QED BY <1>6, <1>7, <1>8, <1>10, <1>11 DEF HInv

LEMMA HNext == IInv /\ MInv /\ HInv /\ [Next]_vars => HInv'
<1> SUFFICES ASSUME IInv, MInv, HInv, [Next]_vars PROVE HInv'
  OBVIOUS
<1>1. CASE UNCHANGED vars
  <2>1. Grow /\ Spared({}) BY <1>1 DEF vars, Grow, Spared
  <2>2. QED BY <1>1, <2>1, HCalm DEF vars, iters, redis
<1>2. ASSUME NEW e \in Events, Publish(e) PROVE HInv'
  <2>1. e \in Proc /\ e \notin Instances /\ Place(e) = Origin[e]
    BY HubAssumption DEF Proc, Place
  <2>2. QED BY <1>2, <2>1, HBegin DEF Publish
<1>3. ASSUME NEW i \in Instances, Relay(i) PROVE HInv'
  <2>1. channel[i] \in Seq(Events) /\ channel[i] # << >> /\ Place(i) = i /\ i \in Proc
    BY <1>3 DEF Relay, IInv, ChannelsOK, Place, Proc
  <2>2. PICK e \in Events : e = Head(channel[i]) BY <2>1, Behead
  <2>3. QED BY <1>3, <2>1, <2>2, HBegin DEF Relay
<1>4. ASSUME NEW p \in Proc, Advance(p) PROVE HInv'
  BY <1>3, <1>4, HSend, HFinish, HTear, HToRedis, HNotify, HNotifyEnd DEF Advance
<1>5. QED
  BY <1>1, <1>2, <1>4, HConnect, HGreet, HCut, HNotice, HToRedisFails, HRelayEnds DEF Next

\* Whatever connects, leaves, fails and is relayed meanwhile: once the broadcast of
\* an event is over at an instance without a change of its set, everyone of that
\* instance whom it is for, who was connected when it was published and is still up
\* has got it; and a listener ends only by such a change or by the loss of Redis.
THEOREM HeardHolds == Spec => []Heard
<1>1. Spec => [](IInv /\ MInv /\ HInv)
  BY InitInv, NextInv, MInit, MNext, HInit, HNext, PTL DEF Spec
<1>2. QED BY <1>1, HeardAre, PTL

-----------------------------------------------------------------------------
(* Nobody gets an event more often than it is sent *)

\* The three ways in which a connection may get an event, each at most once: the
\* broadcast where it is published, ...
UsedL(c, e) == /\ Home[c] = Origin[e] /\ pc[e] # "idle"
               /\ pc[e] = "send" => c \notin left[e]

\* ... the message to its listener, ...
UsedT(c, e) == /\ Home[c] = Origin[e] /\ c \in About[e]
               /\ pc[e] = "done" \/ (pc[e] = "tell" /\ c \notin left[e])

\* ... and the relay of its instance, which has yet to come to it.
Waits(c, e) == /\ e \in Elements(channel[Home[c]])
               /\ pc[Home[c]] = "send" /\ e = Head(channel[Home[c]]) => c \in left[Home[c]]

UsedR(c, e) == e \in Elements(log) /\ ~ Waits(c, e)

One(b) == IF b THEN 1 ELSE 0

\* A connection has got an event as often as these ways are used up.
Owing(c, e) == <<e, Home[c]>> \notin disturbed =>
                 Count(inbox[c], e) <= One(UsedL(c, e)) + One(UsedT(c, e)) + One(UsedR(c, e))

\* An iterator holds connections of its own instance, and that of a notification
\* listeners to what the event names, unless its set has changed.
Placed(q) == /\ pc[q] \in {"send", "tell"} => \A c \in left[q] : Home[c] = Place(q)
             /\ pc[q] = "tell" => /\ left[q] \subseteq About[q]
                                  /\ q \in moved => <<q, Origin[q]>> \in disturbed

Distinct(s) == \A j, k \in DOMAIN s : s[j] = s[k] => j = k

CInv == /\ \A i \in Instances : Distinct(channel[i])
        /\ \A q \in Proc : Placed(q)
        /\ \A c \in Conns, e \in Events : Owing(c, e)

LEMMA Counted ==
  ASSUME NEW s \in Seq(Events), NEW x \in Events, NEW e \in Events
  PROVE  /\ Count(s, e) \in Nat
         /\ Count(Append(s, x), e) = Count(s, e) + One(x = e)
         /\ Count(s, e) = 0 <=> e \notin Elements(s)
<1> DEFINE A == {k \in DOMAIN s : s[k] = e}
           B == {k \in DOMAIN Append(s, x) : Append(s, x)[k] = e}
<1>1. /\ Len(s) \in Nat /\ DOMAIN s = 1 .. Len(s) /\ DOMAIN Append(s, x) = 1 .. Len(s) + 1
      /\ \A k \in 1 .. Len(s) : Append(s, x)[k] = s[k]
      /\ Append(s, x)[Len(s) + 1] = x
  BY AppendProperties, LenProperties
<1>2. IsFiniteSet(A) /\ Cardinality(A) \in Nat
  <2>1. IsFiniteSet(1 .. Len(s)) BY <1>1, FS_Interval
  <2>2. A \subseteq 1 .. Len(s) BY <1>1
  <2>3. QED BY <2>1, <2>2, FS_Subset, FS_CardinalityType
<1>3. Count(s, e) = Cardinality(A) /\ Count(Append(s, x), e) = Cardinality(B)
  BY DEF Count
<1>4. A = {} <=> e \notin Elements(s) BY DEF Elements
<1>5. Cardinality(A) = 0 <=> e \notin Elements(s) BY <1>2, <1>4, FS_EmptySet
<1>6. Cardinality(B) = Cardinality(A) + One(x = e)
  <2>1. CASE x = e
    <3>1. B = A \cup {Len(s) + 1} BY <1>1, <2>1
    <3>2. Len(s) + 1 \notin A BY <1>1
    <3>3. Cardinality(B) = Cardinality(A) + 1 BY <1>2, <3>1, <3>2, FS_AddElement
    <3>4. One(x = e) = 1 BY <2>1 DEF One
    <3> HIDE DEF A, B
    <3>5. QED BY <3>3, <3>4
  <2>2. CASE x # e
    <3>1. B = A BY <1>1, <2>2
    <3>2. One(x = e) = 0 BY <2>2 DEF One
    <3>3. Cardinality(B) = Cardinality(A) BY <3>1
    <3> HIDE DEF A, B
    <3>4. QED BY <1>2, <3>2, <3>3
  <2>3. QED BY <2>1, <2>2
<1> HIDE DEF A, B
<1>7. QED BY <1>2, <1>3, <1>5, <1>6

\* Who gets a message gets one.
LEMMA CountDelivered ==
  ASSUME IInv, NEW c0 \in Conns, NEW t \in Events, Deliver(c0, t)
  PROVE  \A c \in Conns, e \in Events :
            \/ Count(inbox'[c], e) = Count(inbox[c], e)
            \/ c = c0 /\ e = t /\ Count(inbox'[c], e) = Count(inbox[c], e) + 1
<1> SUFFICES ASSUME NEW c \in Conns, NEW e \in Events
             PROVE  \/ Count(inbox'[c], e) = Count(inbox[c], e)
                    \/ c = c0 /\ e = t /\ Count(inbox'[c], e) = Count(inbox[c], e) + 1
  OBVIOUS
<1>1. inbox[c0] \in Seq(Events) BY DEF IInv, HistoryOK
<1>2. CASE link[c0] = "up" /\ c = c0
  <2>1. inbox'[c] = Append(inbox[c], t) BY <1>2 DEF Deliver, IInv, HistoryOK
  <2>2. Count(inbox[c], e) \in Nat /\ Count(inbox'[c], e) = Count(inbox[c], e) + One(t = e)
    BY <1>1, <1>2, <2>1, Counted
  <2>3. QED BY <1>2, <2>2 DEF One
<1>3. CASE ~ (link[c0] = "up" /\ c = c0)
  <2>1. inbox'[c] = inbox[c] BY <1>3 DEF Deliver, IInv, HistoryOK
  <2>2. QED BY <2>1
<1>4. QED BY <1>2, <1>3

LEMMA CopiesAre == IInv /\ CInv => Copies
<1> SUFFICES ASSUME IInv, CInv, NEW e \in Events, NEW c \in Conns, <<e, Home[c]>> \notin disturbed
             PROVE  Count(inbox[c], e) <=
                      (IF Home[c] = Origin[e] /\ e \in Elements(log) THEN 2 ELSE 1)
                      + (IF c \in About[e] /\ Home[c] = Origin[e] THEN 1 ELSE 0)
  BY DEF Copies
<1>1. inbox[c] \in Seq(Events) BY DEF IInv, HistoryOK
<1>2. Count(inbox[c], e) \in Nat BY <1>1, Counted
<1>3. Count(inbox[c], e) <= One(UsedL(c, e)) + One(UsedT(c, e)) + One(UsedR(c, e))
  BY DEF CInv, Owing
<1>4. One(UsedL(c, e)) = 0 \/ (One(UsedL(c, e)) = 1 /\ Home[c] = Origin[e]) BY DEF One, UsedL
<1>5. One(UsedT(c, e)) = 0 \/ (One(UsedT(c, e)) = 1 /\ Home[c] = Origin[e] /\ c \in About[e])
  BY DEF One, UsedT
<1>6. One(UsedR(c, e)) = 0 \/ (One(UsedR(c, e)) = 1 /\ e \in Elements(log)) BY DEF One, UsedR
<1>7. QED BY <1>2, <1>3, <1>4, <1>5, <1>6

LEMMA OwingKept ==
  ASSUME IInv, NEW c \in Conns, NEW e \in Events, Owing(c, e), disturbed \subseteq disturbed',
         <<e, Home[c]>> \notin disturbed' =>
            /\ UsedL(c, e) => UsedL(c, e)'
            /\ UsedT(c, e) => UsedT(c, e)'
            /\ UsedR(c, e) => UsedR(c, e)'
            /\ \/ Count(inbox'[c], e) = Count(inbox[c], e)
               \/ /\ Count(inbox'[c], e) = Count(inbox[c], e) + 1
                  /\ \/ ~ UsedL(c, e) /\ UsedL(c, e)'
                     \/ ~ UsedT(c, e) /\ UsedT(c, e)'
                     \/ ~ UsedR(c, e) /\ UsedR(c, e)'
  PROVE  Owing(c, e)'
<1> SUFFICES ASSUME <<e, Home[c]>> \notin disturbed'
             PROVE  Count(inbox'[c], e) <=
                      One(UsedL(c, e)') + One(UsedT(c, e)') + One(UsedR(c, e)')
  BY DEF Owing, One, Count
<1>1. inbox[c] \in Seq(Events) BY DEF IInv, HistoryOK
<1>2. Count(inbox[c], e) \in Nat BY <1>1, Counted
<1>3. Count(inbox[c], e) <= One(UsedL(c, e)) + One(UsedT(c, e)) + One(UsedR(c, e))
  BY DEF Owing
<1>4. QED BY <1>2, <1>3 DEF One

LEMMA CInit == Init => CInv
<1> SUFFICES ASSUME Init PROVE CInv
  OBVIOUS
<1>1. \A i \in Instances : Distinct(channel[i]) BY DEF Init, Distinct
<1>2. \A q \in Proc : Placed(q) BY DEF Init, Placed
<1>3. ASSUME NEW c \in Conns, NEW e \in Events PROVE Owing(c, e)
  <2>1. << >> \in Seq(Events) /\ Elements(<< >>) = {} BY EmptySeq DEF Elements
  <2>2. Count(<< >>, e) = 0 BY <2>1, Counted
  <2>3. Count(inbox[c], e) = 0 BY <2>2 DEF Init
  <2>4. QED BY <2>3 DEF Owing, One
<1>4. QED BY <1>1, <1>2, <1>3 DEF CInv

\* A process whose set has just changed is marked.
Marked == \A q \in Proc : q \in moved' =>
             q \in moved \/ <<Topic(q), Place(q)>> \in disturbed'

LEMMA TouchMarks ==
  ASSUME NEW ps, NEW own, Touch(ps, own)
  PROVE  Marked /\ disturbed \subseteq disturbed'
BY DEF Touch, Marked

LEMMA PlacedKept ==
  ASSUME IInv, CInv, NEW own, NEW q \in Proc, q \notin own, Others(own), Marked,
         disturbed \subseteq disturbed'
  PROVE  Placed(q)'
<1>1. Placed(q) /\ pc'[q] = pc[q] /\ left'[q] = left[q] BY DEF CInv, Others
<1>2. Place(q)' = Place(q) BY DEF Place
<1>3. \A c \in left'[q] : pc'[q] \in {"send", "tell"} => Home[c] = Place(q)
  BY <1>1 DEF Placed
<1>4. ASSUME pc'[q] = "tell"
      PROVE  left'[q] \subseteq About[q] /\ (q \in moved' => <<q, Origin[q]>> \in disturbed')
  <2>1. left'[q] \subseteq About[q] /\ (q \in moved => <<q, Origin[q]>> \in disturbed)
    BY <1>1, <1>4 DEF Placed
  <2>2. CASE q \in Instances
    BY <1>1, <1>4, <2>2 DEF IInv, ProcOK, RelayPCs
  <2>3. CASE q \notin Instances
    BY <2>1, <2>3 DEF Marked, Topic, Place
  <2>4. QED BY <2>2, <2>3
<1>5. QED BY <1>2, <1>3, <1>4 DEF Placed

\* At most those of S get event t, and no one gets another.
Gets(S, t) == \A c \in Conns, e \in Events :
                 \/ Count(inbox'[c], e) = Count(inbox[c], e)
                 \/ c \in S /\ e = t /\ Count(inbox'[c], e) = Count(inbox[c], e) + 1

\* No relay of p is taken back, and those of S use up that of t.
Relays(p, S, t) ==
  \A c \in Conns, e \in Events : Home[c] = p /\ <<e, p>> \notin disturbed' =>
     /\ UsedR(c, e) => UsedR(c, e)'
     /\ c \in S /\ e = t => ~ UsedR(c, e) /\ UsedR(c, e)'

\* The step is of a publishing call: it uses up ways of its event only.
LEMMA EventStep ==
  ASSUME IInv, CInv, NEW p \in Events, NEW S \in SUBSET Conns, Others({p}), Marked,
         disturbed \subseteq disturbed', channel' = channel, log' = log, Placed(p)',
         Gets(S, p),
         \A c \in Conns : <<p, Home[c]>> \notin disturbed' =>
            /\ UsedL(c, p) => UsedL(c, p)'
            /\ UsedT(c, p) => UsedT(c, p)'
            /\ c \in S => \/ ~ UsedL(c, p) /\ UsedL(c, p)'
                          \/ ~ UsedT(c, p) /\ UsedT(c, p)'
  PROVE  CInv'
<1>1. Events \subseteq Proc /\ Instances \subseteq Proc /\ p \notin Instances
      /\ \A c \in Conns : Home[c] \in Instances
  BY HubAssumption DEF Proc
<1>2. \A q \in Proc : q # p => pc'[q] = pc[q] /\ left'[q] = left[q] BY DEF Others
<1>3. \A q \in Proc : Placed(q)' BY PlacedKept
<1>4. \A c \in Conns, e \in Events : UsedR(c, e)' <=> UsedR(c, e)
  BY <1>1, <1>2 DEF UsedR, Waits
<1>5. \A c \in Conns, e \in Events : e # p =>
         (UsedL(c, e)' <=> UsedL(c, e)) /\ (UsedT(c, e)' <=> UsedT(c, e))
  BY <1>1, <1>2 DEF UsedL, UsedT
<1>6. ASSUME NEW c \in Conns, NEW e \in Events PROVE Owing(c, e)'
  <2>1. Owing(c, e) BY DEF CInv
  <2>2. CASE e = p
    BY <1>4, <2>1, <2>2, OwingKept DEF Gets
  <2>3. CASE e # p
    BY <1>4, <1>5, <2>1, <2>3, OwingKept DEF Gets
  <2>4. QED BY <2>2, <2>3
<1>7. \A i \in Instances : Distinct(channel'[i]) BY DEF CInv
<1>8. QED BY <1>3, <1>6, <1>7 DEF CInv

\* The step is of a Redis listener: it uses up relays to its clients only.
LEMMA RelayStep ==
  ASSUME IInv, CInv, NEW p \in Instances, NEW t, NEW S \in SUBSET Conns,
         Others({p}), Marked, disturbed \subseteq disturbed', log' = log, Placed(p)',
         \A i \in Instances : i # p => channel'[i] = channel[i],
         Distinct(channel'[p]),
         Gets(S, t),
         Relays(p, S, t),
         \A c \in S : Home[c] = p
  PROVE  CInv'
<1>1. Events \subseteq Proc /\ Instances \subseteq Proc /\ p \notin Events
      /\ \A c \in Conns : Home[c] \in Instances
  BY HubAssumption DEF Proc
<1>2. \A q \in Proc : q # p => pc'[q] = pc[q] /\ left'[q] = left[q] BY DEF Others
<1>3. \A q \in Proc : Placed(q)' BY PlacedKept
<1>4. \A c \in Conns, e \in Events :
         (UsedL(c, e)' <=> UsedL(c, e)) /\ (UsedT(c, e)' <=> UsedT(c, e))
  BY <1>1, <1>2 DEF UsedL, UsedT
<1>5. \A c \in Conns, e \in Events : Home[c] # p => (UsedR(c, e)' <=> UsedR(c, e))
  BY <1>1, <1>2 DEF UsedR, Waits
<1>6. ASSUME NEW c \in Conns, NEW e \in Events PROVE Owing(c, e)'
  <2>1. Owing(c, e) BY DEF CInv
  <2>2. CASE Home[c] = p
    BY <1>4, <2>1, <2>2, OwingKept DEF Gets, Relays
  <2>3. CASE Home[c] # p
    BY <1>4, <1>5, <2>1, <2>3, OwingKept DEF Gets
  <2>4. QED BY <2>2, <2>3
<1>7. \A i \in Instances : Distinct(channel'[i]) BY DEF CInv
<1>8. QED BY <1>3, <1>6, <1>7 DEF CInv

LEMMA CCalm ==
  ASSUME IInv, CInv, Marked, disturbed \subseteq disturbed',
         UNCHANGED <<pc, iters, redis, inbox>>
  PROVE  CInv'
<1>1. Others({}) BY DEF Others, iters, redis
<1>2. \A q \in Proc : Placed(q)' BY <1>1, PlacedKept
<1>3. ASSUME NEW c \in Conns, NEW e \in Events PROVE Owing(c, e)'
  <2>1. /\ UsedL(c, e)' <=> UsedL(c, e)
        /\ UsedT(c, e)' <=> UsedT(c, e)
        /\ UsedR(c, e)' <=> UsedR(c, e)
    BY DEF UsedL, UsedT, UsedR, Waits, iters, redis
  <2>2. QED BY <2>1, OwingKept DEF CInv
<1>4. \A i \in Instances : Distinct(channel'[i]) BY DEF CInv, redis
<1>5. QED BY <1>2, <1>3, <1>4 DEF CInv

LEMMA CEndpoint ==
  ASSUME IInv, CInv, NEW c \in Conns, Connect(c) \/ Greet(c) \/ Cut(c) \/ Notice(c)
  PROVE  CInv'
<1>1. Marked /\ disturbed \subseteq disturbed'
  <2>1. CASE Connect(c)
    BY <2>1, TouchMarks DEF Connect
  <2>2. CASE Greet(c)
    <3>1. \E ps : Touch(ps, {}) BY <2>2 DEF Greet
    <3>2. QED BY <3>1, TouchMarks
  <2>3. CASE Cut(c)
    BY <2>3 DEF Cut, Marked
  <2>4. CASE Notice(c)
    BY <2>4, TouchMarks DEF Notice
  <2>5. QED BY <2>1, <2>2, <2>3, <2>4
<1>2. UNCHANGED <<pc, iters, redis, inbox>> BY DEF Connect, Greet, Cut, Notice
<1>3. QED BY <1>1, <1>2, CCalm

\* What a step may leave of a channel has no event twice either.
LEMMA DistinctTail ==
  ASSUME NEW s \in Seq(Events), s # << >>, Distinct(s)
  PROVE  Distinct(Tail(s)) /\ Head(s) \notin Elements(Tail(s))
<1>1. /\ Head(s) = s[1]
      /\ Tail(s) \in Seq(Events) /\ Len(Tail(s)) = Len(s) - 1
      /\ \A k \in 1 .. Len(Tail(s)) : Tail(s)[k] = s[k + 1]
  BY HeadTailProperties
<1>2. Len(s) \in Nat /\ Len(s) >= 1 /\ DOMAIN s = 1 .. Len(s) /\ DOMAIN Tail(s) = 1 .. Len(s) - 1
  BY <1>1, LenProperties, EmptySeq
<1>3. Distinct(Tail(s))
  <2> SUFFICES ASSUME NEW j \in 1 .. Len(s) - 1, NEW k \in 1 .. Len(s) - 1,
                      Tail(s)[j] = Tail(s)[k]
               PROVE  j = k
    BY <1>2 DEF Distinct
  <2>1. j + 1 \in 1 .. Len(s) /\ k + 1 \in 1 .. Len(s) BY <1>2
  <2>2. s[j + 1] = s[k + 1] BY <1>1
  <2>3. j + 1 = k + 1 BY <1>2, <2>1, <2>2 DEF Distinct
  <2>4. QED BY <2>3
<1>4. ASSUME NEW k \in 1 .. Len(s) - 1 PROVE Tail(s)[k] # Head(s)
  <2>1. k + 1 \in 1 .. Len(s) /\ 1 \in 1 .. Len(s) /\ k + 1 # 1 BY <1>2
  <2>2. s[k + 1] # s[1] BY <1>2, <2>1 DEF Distinct
  <2>3. QED BY <1>1, <2>2
<1>5. QED BY <1>2, <1>3, <1>4 DEF Elements

LEMMA DistinctAppend ==
  ASSUME NEW s \in Seq(Events), NEW e \in Events, Distinct(s), e \notin Elements(s)
  PROVE  Distinct(Append(s, e))
<1>1. /\ Len(s) \in Nat /\ DOMAIN s = 1 .. Len(s) /\ DOMAIN Append(s, e) = 1 .. Len(s) + 1
      /\ \A k \in 1 .. Len(s) : Append(s, e)[k] = s[k]
      /\ Append(s, e)[Len(s) + 1] = e
  BY AppendProperties, LenProperties
<1>2. \A k \in 1 .. Len(s) : s[k] # e BY <1>1 DEF Elements
<1>3. \A j, k \in 1 .. Len(s) : s[j] = s[k] => j = k BY <1>1 DEF Distinct
<1>4. \A k \in 1 .. Len(s) + 1 : k \in 1 .. Len(s) \/ k = Len(s) + 1 BY <1>1
<1>5. QED BY <1>1, <1>2, <1>3, <1>4 DEF Distinct

LEMMA CSend ==
  ASSUME IInv, MInv, HInv, CInv, NEW p \in Proc, Send(p)
  PROVE  CInv'
<1>0. PICK t \in Events : t = Topic(p) BY Topics DEF Send
<1>1. Place(p) \in Instances /\ pc[p] = "send" BY Places DEF Send
<1>2. \A rest \in Ahead(p, active[Place(p)]) : rest \subseteq Conns
  BY <1>1 DEF Ahead, IInv, ItersOK, EndsOK
<1>3. PICK rest \in SUBSET Conns, c0 \in Conns :
        /\ rest \in Ahead(p, active[Place(p)]) /\ c0 \in rest
        /\ left' = [left EXCEPT ![p] = rest \ {c0}]
        /\ moved' = moved \ {p}
        /\ Deliver(c0, t)
  BY <1>0, <1>2 DEF Send, Remaining
<1>4. UNCHANGED <<pc, size, channel, log, disturbed>> BY DEF Send, redis
<1>5. Others({p}) /\ Marked BY <1>3, <1>4 DEF Others, Marked, IInv, ItersOK
<1>6. \A c \in rest : Home[c] = Place(p)
  <2>1. \A c \in Conns : c \in active[Place(p)] => Home[c] = Place(p) BY <1>1 DEF MInv
  <2>2. \A c \in left[p] : Home[c] = Place(p) BY <1>1 DEF CInv, Placed
  <2>3. QED BY <1>3, <2>1, <2>2 DEF Ahead
<1>7. left'[p] = rest \ {c0} /\ Place(p)' = Place(p) BY <1>3 DEF IInv, ItersOK, Place
<1>8. Placed(p)' BY <1>1, <1>4, <1>6, <1>7 DEF Placed
<1>9. <<t, Place(p)>> \notin disturbed => rest = left[p]
  <2>1. ASSUME <<t, Place(p)>> \notin disturbed PROVE p \notin moved
    BY <1>0, <1>1, <2>1 DEF HInv, Steady, Stirred
  <2>2. QED BY <1>3, <2>1 DEF Ahead
<1>10. Gets({c0}, t) BY <1>3, CountDelivered DEF Gets
<1>11. CASE p \in Events
  <2>1. t = p /\ Place(p) = Origin[p] BY <1>0, <1>11, HubAssumption DEF Topic, Place
  <2>2. \A c \in Conns : <<p, Home[c]>> \notin disturbed' =>
            /\ UsedL(c, p) => UsedL(c, p)'
            /\ UsedT(c, p) => UsedT(c, p)'
            /\ c \in {c0} => ~ UsedL(c, p) /\ UsedL(c, p)'
    BY <1>1, <1>3, <1>4, <1>6, <1>7, <1>9, <2>1 DEF UsedL, UsedT
  <2>3. QED BY <1>4, <1>5, <1>8, <1>10, <1>11, <2>1, <2>2, EventStep
<1>12. CASE p \in Instances
  <2>1. t = Head(channel[p]) /\ Place(p) = p /\ channel[p] \in Seq(Events) /\ channel[p] # << >>
    BY <1>0, <1>1, <1>12 DEF Topic, Place, IInv, ChannelsOK
  <2>2. t \in Elements(channel[p]) BY <2>1, Behead
  <2>3. Relays(p, {c0}, t)
    <3> SUFFICES ASSUME NEW c \in Conns, NEW e \in Events, Home[c] = p, <<e, p>> \notin disturbed
                 PROVE  /\ UsedR(c, e) => UsedR(c, e)'
                        /\ c \in {c0} /\ e = t => ~ UsedR(c, e) /\ UsedR(c, e)'
      BY <1>4 DEF Relays
    <3>1. CASE e = t
      <4>1. left'[p] = left[p] \ {c0} /\ c0 \in left[p] BY <1>3, <1>7, <1>9, <2>1, <3>1
      <4>2. e \in Elements(log) BY <1>12, <2>2, <3>1 DEF HInv, Order
      <4>3. QED BY <1>1, <1>4, <2>1, <2>2, <3>1, <4>1, <4>2 DEF UsedR, Waits
    <3>2. CASE e # t
      BY <1>4, <2>1, <3>2 DEF UsedR, Waits
    <3>3. QED BY <3>1, <3>2
  <2>4. Distinct(channel'[p]) BY <1>4, <1>12 DEF CInv
  <2>5. \A c \in {c0} : Home[c] = p BY <1>3, <1>6, <2>1
  <2>6. QED BY <1>4, <1>5, <1>8, <1>10, <1>12, <2>3, <2>4, <2>5, RelayStep
<1>13. QED BY <1>11, <1>12 DEF Proc

\* A listener whose channel loses its head, or all, has no more to relay of it.
LEMMA CRelayed ==
  ASSUME IInv, HInv, CInv, NEW p \in Instances, Others({p}), Marked,
         disturbed \subseteq disturbed', log' = log, inbox' = inbox,
         pc'[p] \in {"idle", "ended"},
         \A i \in Instances : i # p => channel'[i] = channel[i],
         \/ channel'[p] = << >>
         \/ channel[p] # << >> /\ channel'[p] = Tail(channel[p])
  PROVE  CInv'
<1>1. Placed(p)' BY DEF Placed
<1>2. channel[p] \in Seq(Events) /\ Distinct(channel[p]) BY DEF IInv, ChannelsOK, CInv
<1>3. Distinct(channel'[p])
  <2>1. Distinct(<< >>) BY DEF Distinct
  <2>2. QED BY <1>2, <2>1, DistinctTail
<1>4. \A e \in Events : e \in Elements(channel'[p]) =>
         e \in Elements(channel[p]) /\ e # Head(channel[p])
  <2>1. Elements(<< >>) = {} BY DEF Elements
  <2>2. QED BY <1>2, <2>1, DistinctTail, Behead
<1>5. \A c \in Conns, e \in Events : Home[c] = p => (UsedR(c, e) => UsedR(c, e)')
  <2> SUFFICES ASSUME NEW c \in Conns, NEW e \in Events, Home[c] = p, Waits(c, e)'
               PROVE  Waits(c, e)
    BY DEF UsedR
  <2>1. e \in Elements(channel'[p]) BY DEF Waits
  <2>2. QED BY <1>4, <2>1 DEF Waits
<1>6. Gets({}, p) BY DEF Gets
<1>7. Relays(p, {}, p) BY <1>5 DEF Relays
<1>8. QED BY <1>1, <1>3, <1>6, <1>7, RelayStep

\* A publishing call goes on without a message.
LEMMA CPast ==
  ASSUME IInv, HInv, CInv, NEW p \in Events, Others({p}), Marked,
         disturbed \subseteq disturbed', inbox' = inbox, channel' = channel, log' = log,
         pc'[p] \in {"publish", "notify", "done"},
         pc[p] \in {"tell", "done"} => pc'[p] = "done"
  PROVE  CInv'
<1>1. Placed(p)' BY DEF Placed
<1>2. Gets({}, p) BY DEF Gets
<1>3. \A c \in Conns : <<p, Home[c]>> \notin disturbed' =>
         /\ UsedL(c, p) => UsedL(c, p)'
         /\ UsedT(c, p) => UsedT(c, p)'
  BY DEF UsedL, UsedT
<1>4. QED BY <1>1, <1>2, <1>3, EventStep

LEMMA CFinish ==
  ASSUME IInv, HInv, CInv, NEW p \in Proc, Finish(p)
  PROVE  CInv'
<1>1. pc[p] = "send" /\ pc' = [pc EXCEPT ![p] = Onward(p)] /\ Consume(p) /\ Drop(p)
      /\ Touch(Left(failed[p], Place(p)), {p}) /\ log' = log /\ inbox' = inbox
  BY DEF Finish
<1>2. Marked /\ disturbed \subseteq disturbed' BY <1>1, TouchMarks
<1>3. p \in Instances => channel[p] # << >> BY <1>1 DEF IInv, ChannelsOK
<1>4. Others({p}) BY <1>1, <1>3, Consumed DEF Others, Drop, IInv, ProcOK, ItersOK
<1>5. pc'[p] = Onward(p) BY <1>1 DEF IInv, ProcOK
<1>6. CASE p \in Events
  <2>1. p \notin Instances BY <1>6, HubAssumption
  <2>2. channel' = channel BY <1>1, <2>1 DEF Consume
  <2>3. pc'[p] \in {"publish", "notify", "done"} BY <1>5, <2>1 DEF Onward
  <2>4. QED BY <1>1, <1>2, <1>4, <1>6, <2>2, <2>3, CPast
<1>7. CASE p \in Instances
  <2>1. pc'[p] = "idle" BY <1>5, <1>7 DEF Onward
  <2>2. channel'[p] = Tail(channel[p]) BY <1>1, <1>7 DEF Consume, IInv, ChannelsOK
  <2>3. \A i \in Instances : i # p => channel'[i] = channel[i] BY <1>1, <1>3, Consumed
  <2>4. QED BY <1>1, <1>2, <1>3, <1>4, <1>7, <2>1, <2>2, <2>3, CRelayed
<1>8. QED BY <1>6, <1>7 DEF Proc

LEMMA CTear ==
  ASSUME IInv, HInv, CInv, NEW p \in Proc, Tear(p)
  PROVE  CInv'
<1>1. pc[p] = "send" /\ log' = log /\ inbox' = inbox /\ disturbed' = disturbed
  BY DEF Tear
<1>2. Marked BY DEF Tear, Marked
<1>3. /\ pc'[p] = IF p \in Instances THEN "ended" ELSE "done"
      /\ \A q \in Proc : q # p => pc'[q] = pc[q] /\ left'[q] = left[q] /\ size'[q] = size[q]
      /\ \A i \in Instances : i # p => channel'[i] = channel[i]
  BY DEF Tear, Drop, IInv, ProcOK, ItersOK, ChannelsOK
<1>4. Others({p}) BY <1>3 DEF Others
<1>5. CASE p \in Events
  <2>1. p \notin Instances BY <1>5, HubAssumption
  <2>2. channel' = channel BY <2>1 DEF Tear
  <2>3. QED BY <1>1, <1>2, <1>3, <1>4, <1>5, <2>1, <2>2, CPast
<1>6. CASE p \in Instances
  <2>1. channel'[p] = << >> BY <1>6 DEF Tear, IInv, ChannelsOK
  <2>2. QED BY <1>1, <1>2, <1>3, <1>4, <1>6, <2>1, CRelayed
<1>7. QED BY <1>5, <1>6 DEF Proc

LEMMA CBegin ==
  ASSUME IInv, MInv, HInv, CInv, NEW p \in Proc, NEW t \in Events,
         pc[p] = "idle", Begin(p, t, Place(p)),
         p \in Instances => channel[p] # << >> /\ t = Head(channel[p]),
         p \notin Instances => t = p,
         UNCHANGED <<sockets, sets, log, faults, disturbed>>
  PROVE  CInv'
<1>1. Place(p) \in Instances /\ active[Place(p)] \subseteq Conns
      /\ Events \subseteq Proc /\ Instances \subseteq Proc /\ Events \cap Instances = {}
  BY Places, HubAssumption DEF IInv, EndsOK, Proc
<1>2. CASE active[Place(p)] = {}
  <2>1. /\ pc' = [pc EXCEPT ![p] = Onward(p)] /\ Consume(p)
        /\ UNCHANGED <<left, size, failed, moved, inbox>>
    BY <1>2 DEF Begin, iters
  <2>2. pc'[p] = Onward(p) BY <2>1 DEF IInv, ProcOK
  <2>3. Others({p}) BY <2>1, Consumed DEF Others, IInv, ProcOK
  <2>4. Marked BY <2>1 DEF Marked
  <2>5. CASE p \in Events
    <3>1. p \notin Instances BY <1>1, <2>5
    <3>2. channel' = channel BY <2>1, <3>1 DEF Consume
    <3>3. pc'[p] \in {"publish", "notify", "done"} BY <2>2, <3>1 DEF Onward
    <3>4. QED BY <2>1, <2>3, <2>4, <2>5, <3>2, <3>3, CPast
  <2>6. CASE p \in Instances
    <3>1. pc'[p] = "idle" BY <2>2, <2>6 DEF Onward
    <3>2. channel'[p] = Tail(channel[p]) BY <2>1, <2>6 DEF Consume, IInv, ChannelsOK
    <3>3. \A i \in Instances : i # p => channel'[i] = channel[i] BY <2>1, Consumed
    <3>4. QED BY <2>1, <2>3, <2>4, <2>6, <3>1, <3>2, <3>3, CRelayed
  <2>7. QED BY <2>5, <2>6 DEF Proc
<1>3. CASE active[Place(p)] # {}
  <2>1. PICK c0 \in Conns :
          /\ c0 \in active[Place(p)]
          /\ pc' = [pc EXCEPT ![p] = "send"]
          /\ left' = [left EXCEPT ![p] = active[Place(p)] \ {c0}]
          /\ size' = [size EXCEPT ![p] = Cardinality(active[Place(p)])]
          /\ moved' = moved \ {p}
          /\ Deliver(c0, t)
          /\ channel' = channel
    BY <1>1, <1>3 DEF Begin, Remaining
  <2>2. Others({p}) BY <2>1 DEF Others, IInv, ProcOK, ItersOK
  <2>3. Marked BY <2>1 DEF Marked
  <2>4. pc'[p] = "send" /\ left'[p] = active[Place(p)] \ {c0} /\ Place(p)' = Place(p)
    BY <2>1 DEF IInv, ProcOK, ItersOK, Place
  <2>5. \A c \in active[Place(p)] : Home[c] = Place(p) BY <1>1 DEF MInv
  <2>6. Placed(p)' BY <2>4, <2>5 DEF Placed
  <2>7. Gets({c0}, t) BY <2>1, CountDelivered DEF Gets
  <2>8. CASE p \in Events
    <3>1. t = p /\ Place(p) = Origin[p] BY <1>1, <2>8 DEF Place
    <3>2. \A c \in Conns : /\ ~ UsedL(c, p) /\ ~ UsedT(c, p)
                           /\ c \in {c0} => UsedL(c, p)'
      BY <2>1, <2>4, <2>5, <3>1 DEF UsedL, UsedT
    <3>3. QED BY <2>1, <2>2, <2>3, <2>6, <2>7, <2>8, <3>1, <3>2, EventStep
  <2>9. CASE p \in Instances
    <3>1. t = Head(channel[p]) /\ Place(p) = p /\ channel[p] \in Seq(Events) /\ channel[p] # << >>
      BY <2>9 DEF Place, IInv, ChannelsOK
    <3>2. t \in Elements(channel[p]) BY <3>1, Behead
    <3>3. t \in Elements(log) BY <2>9, <3>2 DEF HInv, Order
    <3>4. Relays(p, {c0}, t)
      <4> SUFFICES ASSUME NEW c \in Conns, NEW e \in Events, Home[c] = p
                   PROVE  /\ UsedR(c, e) => UsedR(c, e)'
                          /\ c \in {c0} /\ e = t => ~ UsedR(c, e) /\ UsedR(c, e)'
        BY DEF Relays
      <4>1. Waits(c, e) <=> e \in Elements(channel[p]) BY DEF Waits
      <4>2. Waits(c, e)' => e \in Elements(channel[p]) BY <2>1 DEF Waits
      <4>3. c = c0 /\ e = t => ~ Waits(c, e)' BY <2>1, <2>4, <3>1 DEF Waits
      <4>4. QED BY <3>2, <3>3, <4>1, <4>2, <4>3 DEF UsedR
    <3>5. Distinct(channel'[p]) BY <2>1, <2>9 DEF CInv
    <3>6. \A c \in {c0} : Home[c] = p BY <2>1, <2>5, <3>1
    <3>7. QED BY <2>1, <2>2, <2>3, <2>6, <2>7, <2>9, <3>4, <3>5, <3>6, RelayStep
  <2>10. QED BY <2>8, <2>9 DEF Proc
<1>4. QED BY <1>2, <1>3

LEMMA CToRedis ==
  ASSUME IInv, HInv, CInv, NEW e0 \in Events, ToRedis(e0)
  PROVE  CInv'
<1>1. e0 \in Proc /\ e0 \notin Instances /\ Events \subseteq Proc /\ Instances \subseteq Proc
      /\ \A c \in Conns : Home[c] \in Instances
  BY HubAssumption DEF Proc
<1>2. UNCHANGED <<left, size, moved, inbox, disturbed>> BY DEF ToRedis, iters
<1>3. pc'[e0] = "notify" /\ pc[e0] = "publish" /\ \A q \in Proc : q # e0 => pc'[q] = pc[q]
  BY <1>1 DEF ToRedis, IInv, ProcOK
<1>4. log \in Seq(Events) /\ Elements(log') = Elements(log) \cup {e0}
  BY Appended DEF ToRedis, IInv, HistoryOK
<1>5. e0 \notin Elements(log) /\ \A i \in Instances : e0 \notin Elements(channel[i])
  BY <1>3 DEF HInv, Order
<1>6. ASSUME NEW i \in Instances
      PROVE  /\ Distinct(channel'[i])
             /\ \/ channel'[i] = channel[i] /\ pc[i] \notin {"idle", "send"}
                \/ /\ Elements(channel'[i]) = Elements(channel[i]) \cup {e0}
                   /\ channel[i] # << >> => Head(channel'[i]) = Head(channel[i])
  <2>1. channel[i] \in Seq(Events) /\ Distinct(channel[i]) BY DEF IInv, ChannelsOK, CInv
  <2>2. CASE i \in Subscribers(e0)
    <3>1. channel'[i] = Append(channel[i], e0) BY <2>2 DEF ToRedis
    <3>2. QED BY <1>5, <2>1, <3>1, Appended, DistinctAppend
  <2>3. CASE i \notin Subscribers(e0)
    BY <2>1, <2>3 DEF ToRedis, Subscribers
  <2>4. QED BY <2>2, <2>3
<1>7. \A i \in Instances : pc[i] = "send" => channel[i] # << >> BY DEF IInv, ChannelsOK
<1>8. Others({e0}) BY <1>2, <1>3, <1>6, <1>7 DEF Others
<1>9. Marked BY <1>2 DEF Marked
<1>10. Placed(e0)' BY <1>3 DEF Placed
<1>11. \A q \in Proc : Placed(q)' BY <1>2, <1>8, <1>9, <1>10, PlacedKept
<1>12. ASSUME NEW c \in Conns, NEW e \in Events PROVE Owing(c, e)'
  <2>1. Owing(c, e) BY DEF CInv
  <2>2. UsedL(c, e) => UsedL(c, e)' BY <1>1, <1>2, <1>3 DEF UsedL
  <2>3. UsedT(c, e) => UsedT(c, e)' BY <1>1, <1>2, <1>3 DEF UsedT
  <2>4. UsedR(c, e) => UsedR(c, e)'
    <3> SUFFICES ASSUME e \in Elements(log), Waits(c, e)' PROVE Waits(c, e)
      BY <1>4 DEF UsedR
    <3> DEFINE i == Home[c]
    <3>1. i \in Instances /\ pc'[i] = pc[i] /\ left' = left BY <1>1, <1>2, <1>3
    <3>2. e # e0 BY <1>5
    <3>3. e \in Elements(channel[i]) BY <1>6, <3>1, <3>2 DEF Waits
    <3>4. pc[i] = "send" => Head(channel'[i]) = Head(channel[i]) BY <1>6, <1>7, <3>1
    <3>5. QED BY <3>1, <3>3, <3>4 DEF Waits
  <2>5. QED BY <1>2, <2>1, <2>2, <2>3, <2>4, OwingKept
<1>13. QED BY <1>6, <1>11, <1>12 DEF CInv

\* A listener's message, out of those the iterator has yet to come to or, at first,
\* out of all.
LEMMA CTell ==
  ASSUME IInv, MInv, HInv, CInv, NEW e \in Events, NEW c0 \in Conns, NEW rest \in SUBSET Conns,
         Tell(e, c0, rest \ {c0}), c0 \in rest, UNCHANGED <<redis>>,
         \A q \in Proc : q # e => size'[q] = size[q],
         \A c \in rest : c \in About[e] /\ Home[c] = Origin[e],
         pc[e] = "notify" \/ (pc[e] = "tell" /\ (e \in moved \/ rest = left[e]))
  PROVE  CInv'
<1>1. e \in Proc /\ e \notin Instances /\ Place(e) = Origin[e] BY HubAssumption DEF Proc, Place
<1>2. PICK gone \in SUBSET {c0} :
        /\ pc' = [pc EXCEPT ![e] = "tell"]
        /\ left' = [left EXCEPT ![e] = rest \ {c0}]
        /\ Touch(Left(gone, Origin[e]), {e})
        /\ Deliver(c0, e)
  BY DEF Tell
<1>3. Marked /\ disturbed \subseteq disturbed' BY <1>2, TouchMarks
<1>4. channel' = channel /\ log' = log BY DEF redis
<1>5. Others({e}) BY <1>2, <1>4 DEF Others, IInv, ProcOK, ItersOK
<1>6. pc'[e] = "tell" /\ left'[e] = rest \ {c0} /\ e \notin moved'
  BY <1>1, <1>2 DEF IInv, ProcOK, ItersOK, Touch
<1>7. Place(e)' = Place(e) BY DEF Place
<1>8. Placed(e)' BY <1>1, <1>6, <1>7 DEF Placed
<1>9. Gets({c0}, e) BY <1>2, CountDelivered DEF Gets
<1>10. pc[e] = "tell" /\ <<e, Origin[e]>> \notin disturbed' => rest = left[e]
  BY <1>1, <1>3 DEF CInv, Placed
<1>11. \A c \in Conns : <<e, Home[c]>> \notin disturbed' =>
          /\ UsedL(c, e) => UsedL(c, e)'
          /\ UsedT(c, e) => UsedT(c, e)'
          /\ c \in {c0} => ~ UsedT(c, e) /\ UsedT(c, e)'
  BY <1>6, <1>10 DEF UsedL, UsedT
<1>12. QED BY <1>3, <1>4, <1>5, <1>8, <1>9, <1>11, EventStep

LEMMA CNotify ==
  ASSUME IInv, MInv, HInv, CInv, NEW e \in Events, Notify(e) \/ NotifyNext(e)
  PROVE  CInv'
<1> DEFINE all == Callbacks(e) \cap About[e]
<1>1. e \in Proc /\ Place(e) = Origin[e] /\ all \subseteq Conns
  BY CallbacksAre, HubAssumption DEF Proc, Place
<1>2. \A c \in all : c \in About[e] /\ Home[c] = Origin[e]
  BY <1>1, HubAssumption DEF Callbacks, MInv
<1>3. \A q \in Proc : q # e => size'[q] = size[q]
  BY DEF Notify, NotifyNext, IInv, ItersOK
<1>4. UNCHANGED <<redis>> BY DEF Notify, NotifyNext
<1>5. CASE Notify(e)
  <2>1. pc[e] = "notify" BY <1>5 DEF Notify
  <2>2. PICK c0 \in Conns : c0 \in all /\ Tell(e, c0, all \ {c0})
    BY <1>1, <1>5 DEF Notify
  <2>3. PICK rest \in SUBSET Conns : rest = all BY <1>1
  <2>4. c0 \in rest /\ Tell(e, c0, rest \ {c0}) BY <2>2, <2>3
  <2>5. \A c \in rest : c \in About[e] /\ Home[c] = Origin[e] BY <1>2, <2>3
  <2> HIDE DEF all
  <2>6. QED BY <1>3, <1>4, <2>1, <2>4, <2>5, CTell
<1>6. CASE NotifyNext(e)
  <2>1. pc[e] = "tell" BY <1>6 DEF NotifyNext
  <2>2. \A rest \in Ahead(e, all) : rest \subseteq Conns
    BY <1>1 DEF Ahead, IInv, ItersOK
  <2>3. PICK rest \in SUBSET Conns, c0 \in Conns :
          rest \in Ahead(e, all) /\ c0 \in rest /\ Tell(e, c0, rest \ {c0})
    BY <1>6, <2>2 DEF NotifyNext
  <2>4. e \in moved \/ rest = left[e] BY <2>3 DEF Ahead
  <2>5. \A c \in left[e] : c \in About[e] /\ Home[c] = Origin[e]
    BY <1>1, <2>1 DEF CInv, Placed
  <2>6. \A c \in rest : c \in About[e] /\ Home[c] = Origin[e]
    BY <1>2, <2>3, <2>5 DEF Ahead
  <2>7. QED BY <1>3, <1>4, <2>1, <2>3, <2>4, <2>6, CTell
<1>7. QED BY <1>5, <1>6

LEMMA CEnds ==
  ASSUME IInv, HInv, CInv, NEW e \in Events, NotifyEnd(e) \/ ToRedisFails(e)
  PROVE  CInv'
<1>1. /\ pc'[e] \in {"notify", "done"} /\ (pc[e] \in {"tell", "done"} => pc'[e] = "done")
      /\ \A q \in Proc : q # e => pc'[q] = pc[q] /\ left'[q] = left[q] /\ size'[q] = size[q]
  BY DEF NotifyEnd, ToRedisFails, Drop, IInv, ProcOK, ItersOK, iters, Proc
<1>2. UNCHANGED <<channel, log, inbox, disturbed>> /\ moved' \subseteq moved
  BY DEF NotifyEnd, ToRedisFails, redis
<1>3. Others({e}) /\ Marked BY <1>1, <1>2 DEF Others, Marked
<1>4. QED BY <1>1, <1>2, <1>3, CPast

LEMMA CRelayEnds ==
  ASSUME IInv, HInv, CInv, NEW i \in Instances, RelayEnds(i)
  PROVE  CInv'
<1>1. i \in Proc BY DEF Proc
<1>2. UNCHANGED <<left, size, moved, log, inbox, disturbed>> BY DEF RelayEnds, iters
<1>3. pc'[i] = "ended" /\ \A q \in Proc : q # i => pc'[q] = pc[q]
  BY <1>1 DEF RelayEnds, IInv, ProcOK
<1>4. channel'[i] = << >> /\ \A j \in Instances : j # i => channel'[j] = channel[j]
  BY DEF RelayEnds, IInv, ChannelsOK
<1>5. Others({i}) /\ Marked BY <1>2, <1>3, <1>4 DEF Others, Marked
<1>6. QED BY <1>2, <1>3, <1>4, <1>5, CRelayed

LEMMA CNext == IInv /\ MInv /\ HInv /\ CInv /\ [Next]_vars => CInv'
<1> SUFFICES ASSUME IInv, MInv, HInv, CInv, [Next]_vars PROVE CInv'
  OBVIOUS
<1>1. CASE UNCHANGED vars
  <2>1. Marked BY <1>1 DEF vars, Marked
  <2>2. QED BY <1>1, <2>1, CCalm DEF vars, iters, redis
<1>2. ASSUME NEW e \in Events, Publish(e) PROVE CInv'
  <2>1. e \in Proc /\ e \notin Instances /\ Place(e) = Origin[e]
    BY HubAssumption DEF Proc, Place
  <2>2. QED BY <1>2, <2>1, CBegin DEF Publish
<1>3. ASSUME NEW i \in Instances, Relay(i) PROVE CInv'
  <2>1. channel[i] \in Seq(Events) /\ channel[i] # << >> /\ Place(i) = i /\ i \in Proc
    BY <1>3 DEF Relay, IInv, ChannelsOK, Place, Proc
  <2>2. PICK e \in Events : e = Head(channel[i]) BY <2>1, Behead
  <2>3. QED BY <1>3, <2>1, <2>2, CBegin DEF Relay
<1>4. ASSUME NEW p \in Proc, Advance(p) PROVE CInv'
  BY <1>3, <1>4, CSend, CFinish, CTear, CToRedis, CNotify, CEnds DEF Advance
<1>5. QED
  BY <1>1, <1>2, <1>4, CEndpoint, CEnds, CRelayEnds DEF Next

\* A client gets an event once, twice where the instance hears its own message back
\* from Redis, and once more as a listener of what the event names: whatever else
\* overlaps, only a set that changed under its iteration can add to that.
THEOREM CopiesHold == Spec => []Copies
<1>1. Spec => [](IInv /\ MInv /\ HInv /\ CInv)
  BY InitInv, NextInv, MInit, MNext, HInit, HNext, CInit, CNext, PTL DEF Spec
<1>2. QED BY <1>1, CopiesAre, PTL
=============================================================================
