----------------------- MODULE RealtimeHubOrderProofs -----------------------
(***************************************************************************)
(* Proofs about RealtimeHub of the order in which clients get events: what *)
(* an instance relays it relays in the order of the Redis channel, and no  *)
(* broadcast of another process comes after it with an event of the past.  *)
(***************************************************************************)
EXTENDS RealtimeHubProofs

-----------------------------------------------------------------------------
(* The inductive invariant *)

\* What i has not done with is the end of what went through Redis.
Suffix(i) == /\ Len(channel[i]) <= Len(log)
             /\ \A k \in 1 .. Len(channel[i]) : channel[i][k] = log[Relayed(i) + k]

LInv == (\A i \in Instances : Runs(i) => Suffix(i)) /\ InOrder /\ LastWord

-----------------------------------------------------------------------------
(* Sequences *)

LEMMA LastOfSkip ==
  ASSUME NEW s \in Seq(Events), NEW t \in Events, NEW l \in Seq(Events), NEW d \in 0 .. Len(l),
         LastOf(s, l, d), t \notin Elements(l)
  PROVE  LastOf(Append(s, t), l, d)
<1>1. /\ Len(s) \in Nat /\ DOMAIN s = 1 .. Len(s) /\ DOMAIN Append(s, t) = 1 .. Len(s) + 1
      /\ \A k \in 1 .. Len(s) : Append(s, t)[k] = s[k]
      /\ Append(s, t)[Len(s) + 1] = t
  BY AppendProperties, LenProperties
<1>2. Len(l) \in Nat /\ \A j \in 1 .. d : l[j] # t
  BY LenProperties DEF Elements
<1>3. PICK p \in 1 .. Len(s) : s[p] = l[d] /\ \A k \in 1 .. Len(s), j \in 1 .. d : k > p => s[k] # l[j]
  BY <1>1 DEF LastOf
<1>4. \A k \in 1 .. Len(s) + 1 : k \in 1 .. Len(s) \/ k = Len(s) + 1 BY <1>1
<1>5. p \in 1 .. Len(s) + 1 /\ Append(s, t)[p] = l[d] BY <1>1, <1>3
<1>6. \A k \in 1 .. Len(s) + 1, j \in 1 .. d : k > p => Append(s, t)[k] # l[j]
  BY <1>1, <1>2, <1>3, <1>4
<1>7. \E q \in DOMAIN Append(s, t) :
         /\ Append(s, t)[q] = l[d]
         /\ \A k \in DOMAIN Append(s, t), j \in 1 .. d : k > q => Append(s, t)[k] # l[j]
  BY <1>1, <1>5, <1>6, Zenon
<1>8. QED BY <1>7 DEF LastOf

LEMMA LastOfNext ==
  ASSUME NEW s \in Seq(Events), NEW l, NEW d, l[d] \in Events
  PROVE  LastOf(Append(s, l[d]), l, d)
<1>1. PICK t \in Events : t = l[d] OBVIOUS
<1>2. /\ Len(s) \in Nat /\ DOMAIN Append(s, t) = 1 .. Len(s) + 1
      /\ Append(s, t)[Len(s) + 1] = t
  BY AppendProperties, LenProperties
<1>3. \A k \in 1 .. Len(s) + 1 : ~ k > Len(s) + 1 BY <1>2
<1>4. Len(s) + 1 \in 1 .. Len(s) + 1 BY <1>2
<1>5. LastOf(Append(s, t), l, d) BY <1>1, <1>2, <1>3, <1>4 DEF LastOf
<1>6. QED BY <1>1, <1>5

LEMMA FollowsNone == \A s, l : Follows(s, l, 0)
<1> SUFFICES ASSUME NEW s, NEW l PROVE Follows(s, l, 0)
  OBVIOUS
<1>1. \A k \in 1 .. 0 : FALSE OBVIOUS
<1>2. [k \in 1 .. 0 |-> k] \in [1 .. 0 -> DOMAIN s] BY <1>1
<1>3. QED BY <1>1, <1>2 DEF Follows

LEMMA FollowsSkip ==
  ASSUME NEW s \in Seq(Events), NEW t \in Events, NEW l, NEW d \in Nat, Follows(s, l, d)
  PROVE  Follows(Append(s, t), l, d)
<1>1. /\ Len(s) \in Nat /\ DOMAIN s = 1 .. Len(s) /\ DOMAIN Append(s, t) = 1 .. Len(s) + 1
      /\ \A k \in 1 .. Len(s) : Append(s, t)[k] = s[k]
  BY AppendProperties, LenProperties
<1>2. PICK at \in [1 .. d -> DOMAIN s] :
        /\ \A k \in 1 .. d : s[at[k]] = l[k]
        /\ \A j, k \in 1 .. d : j < k => at[j] < at[k]
  BY DEF Follows
<1>3. DOMAIN s \subseteq DOMAIN Append(s, t) BY <1>1
<1>4. at \in [1 .. d -> DOMAIN Append(s, t)] BY <1>2, <1>3
<1>5. \A k \in 1 .. d : Append(s, t)[at[k]] = l[k] BY <1>1, <1>2
<1>6. QED BY <1>2, <1>4, <1>5 DEF Follows

LEMMA FollowsNext ==
  ASSUME NEW s \in Seq(Events), NEW t \in Events, NEW l, NEW d \in Nat, Follows(s, l, d),
         t = l[d + 1]
  PROVE  Follows(Append(s, t), l, d + 1)
<1>1. /\ Len(s) \in Nat /\ DOMAIN s = 1 .. Len(s) /\ DOMAIN Append(s, t) = 1 .. Len(s) + 1
      /\ \A k \in 1 .. Len(s) : Append(s, t)[k] = s[k]
      /\ Append(s, t)[Len(s) + 1] = t
  BY AppendProperties, LenProperties
<1>2. PICK at \in [1 .. d -> 1 .. Len(s)] :
        /\ \A k \in 1 .. d : s[at[k]] = l[k]
        /\ \A j, k \in 1 .. d : j < k => at[j] < at[k]
  BY <1>1 DEF Follows
<1> DEFINE go == [k \in 1 .. d + 1 |-> IF k \in 1 .. d THEN at[k] ELSE Len(s) + 1]
<1>3. \A k \in 1 .. d + 1 : k \in 1 .. d \/ (k = d + 1 /\ k \notin 1 .. d) OBVIOUS
<1>4. \A k \in 1 .. d : k \in 1 .. d + 1 /\ go[k] = at[k] /\ at[k] \in 1 .. Len(s) BY <1>2
<1>5. d + 1 \in 1 .. d + 1 /\ d + 1 \notin 1 .. d /\ go[d + 1] = Len(s) + 1 OBVIOUS
<1>6. go \in [1 .. d + 1 -> 1 .. Len(s) + 1] BY <1>1, <1>2
<1> HIDE DEF go
<1>7. ASSUME NEW k \in 1 .. d + 1 PROVE Append(s, t)[go[k]] = l[k]
  <2>1. CASE k \in 1 .. d
    BY <1>1, <1>2, <1>4, <2>1
  <2>2. CASE k = d + 1
    BY <1>1, <1>5, <2>2
  <2>3. QED BY <1>3, <2>1, <2>2
<1>8. ASSUME NEW j \in 1 .. d + 1, NEW k \in 1 .. d + 1, j < k PROVE go[j] < go[k]
  <2>1. j \in 1 .. d BY <1>8
  <2>2. go[j] = at[j] /\ at[j] \in 1 .. Len(s) BY <1>4, <2>1
  <2>3. CASE k \in 1 .. d
    BY <1>2, <1>4, <1>8, <2>1, <2>3
  <2>4. CASE k = d + 1
    <3>1. go[k] = Len(s) + 1 BY <1>5, <2>4
    <3>2. QED BY <1>1, <2>2, <3>1
  <2>5. QED BY <1>3, <2>3, <2>4
<1>9. QED BY <1>1, <1>6, <1>7, <1>8 DEF Follows

LEMMA LInit == Init => LInv
<1> SUFFICES ASSUME Init PROVE LInv
  OBVIOUS
<1>1. /\ log = << >> /\ Len(log) = 0
      /\ \A i \in Instances : channel[i] = << >> /\ Len(channel[i]) = 0 /\ Relayed(i) = 0
      /\ \A i \in Instances : pc[i] # "send"
  BY HubAssumption DEF Init, Relayed, Proc
<1>2. \A i \in Instances : Suffix(i) BY <1>1 DEF Suffix
<1>3. \A c \in Conns : Reached(c) = 0 BY <1>1, HubAssumption DEF Reached
<1>4. \A c \in Conns : Follows(inbox[c], log, 0) BY FollowsNone
<1>5. QED BY <1>2, <1>3, <1>4 DEF LInv, InOrder, LastWord

\* What has been relayed is part of the log.
LEMMA RelayedType ==
  ASSUME IInv, LInv, NEW i \in Instances, Runs(i)
  PROVE  /\ Len(log) \in Nat /\ Len(channel[i]) \in Nat /\ Relayed(i) \in 0 .. Len(log)
         /\ channel[i] # << >> => /\ Relayed(i) + 1 \in 1 .. Len(log)
                                  /\ Head(channel[i]) = log[Relayed(i) + 1]
<1>1. channel[i] \in Seq(Events) /\ log \in Seq(Events) /\ Suffix(i)
  BY DEF IInv, ChannelsOK, HistoryOK, LInv
<1>2. Len(log) \in Nat /\ Len(channel[i]) \in Nat BY <1>1, LenProperties
<1>3. Relayed(i) \in 0 .. Len(log) BY <1>1, <1>2 DEF Suffix, Relayed
<1>4. ASSUME channel[i] # << >>
      PROVE  Relayed(i) + 1 \in 1 .. Len(log) /\ Head(channel[i]) = log[Relayed(i) + 1]
  <2>1. Len(channel[i]) >= 1 /\ Head(channel[i]) = channel[i][1]
    BY <1>1, <1>2, <1>4, EmptySeq, HeadTailProperties
  <2>2. 1 \in 1 .. Len(channel[i]) BY <1>2, <2>1
  <2>3. channel[i][1] = log[Relayed(i) + 1] BY <1>1, <2>2 DEF Suffix
  <2>4. Relayed(i) + 1 \in 1 .. Len(log) BY <1>1, <1>2, <2>1 DEF Suffix, Relayed
  <2>5. QED BY <2>1, <2>3, <2>4
<1>5. QED BY <1>2, <1>3, <1>4

LEMMA ReachedType ==
  ASSUME IInv, LInv, NEW c \in Conns, Runs(Home[c])
  PROVE  Reached(c) \in 0 .. Len(log)
<1>1. Home[c] \in Instances BY HubAssumption
<1>2. pc[Home[c]] = "send" => channel[Home[c]] # << >> BY <1>1 DEF IInv, ChannelsOK
<1>3. QED BY <1>1, <1>2, RelayedType DEF Reached

\* A listener that is done with a message has one less to relay.
LEMMA TailSuffix ==
  ASSUME IInv, LInv, NEW i \in Instances, Runs(i), channel[i] # << >>,
         channel'[i] = Tail(channel[i]), log' = log
  PROVE  Suffix(i)' /\ Relayed(i)' = Relayed(i) + 1
<1>1. channel[i] \in Seq(Events) /\ Suffix(i) BY DEF IInv, ChannelsOK, LInv
<1>2. /\ Tail(channel[i]) \in Seq(Events) /\ Len(Tail(channel[i])) = Len(channel[i]) - 1
      /\ \A k \in 1 .. Len(Tail(channel[i])) : Tail(channel[i])[k] = channel[i][k + 1]
  BY <1>1, HeadTailProperties
<1>3. Len(log) \in Nat /\ Len(channel[i]) \in Nat /\ Len(channel[i]) >= 1
  BY <1>1, RelayedType, EmptySeq
<1>4. Relayed(i)' = Relayed(i) + 1
  <2>1. PICK m \in Nat, n \in Nat : m = Len(log) /\ n = Len(channel[i]) BY <1>3
  <2>2. Relayed(i) = m - n BY <2>1 DEF Relayed
  <2>3. Len(log') = m /\ Len(channel'[i]) = n - 1 BY <1>2, <2>1
  <2>4. Relayed(i)' = m - (n - 1) BY <2>3 DEF Relayed
  <2>5. QED BY <2>1, <2>2, <2>4
<1>5. Len(channel'[i]) = Len(channel[i]) - 1 BY <1>2
<1>6. ASSUME NEW k \in 1 .. Len(channel[i]) - 1
      PROVE  channel'[i][k] = log[Relayed(i) + 1 + k]
  <2>1. k + 1 \in 1 .. Len(channel[i]) BY <1>3
  <2>2. channel'[i][k] = channel[i][k + 1] BY <1>2
  <2>3. channel[i][k + 1] = log[Relayed(i) + (k + 1)] BY <1>1, <2>1 DEF Suffix
  <2>4. Relayed(i) + (k + 1) = Relayed(i) + 1 + k BY RelayedType
  <2>5. QED BY <2>2, <2>3, <2>4
<1>7. Len(channel'[i]) <= Len(log) BY <1>1, <1>3, <1>5 DEF Suffix
<1>8. QED BY <1>4, <1>5, <1>6, <1>7 DEF Suffix

-----------------------------------------------------------------------------
(* The steps *)

\* What no step takes back, of what clients are owed; and the log as it is.
Onwards == /\ disturbed \subseteq disturbed'
           /\ \A c \in Conns : link'[c] = "up" => link[c] = "up"
           /\ \A e \in Events : heardBy'[e] = heardBy[e] \/ pc[e] = "idle"
           /\ \A i \in Instances : Runs(i)' => Runs(i)

LEMMA FaithfulBefore ==
  ASSUME IInv, HInv, Onwards, Elements(log) \subseteq Elements(log'),
         NEW c \in Conns, Faithful(c)'
  PROVE  Faithful(c)
<1>1. Home[c] \in Instances BY HubAssumption
<1>2. log \in Seq(Events) BY DEF IInv, HistoryOK
<1>3. \A e \in Elements(log) : e \in Events
  BY <1>2, ElementOfSeq, LenProperties DEF Elements
<1>4. \A e \in Elements(log) : heardBy'[e] = heardBy[e]
  BY <1>3 DEF Onwards, HInv, Order
<1>5. QED BY <1>1, <1>4 DEF Faithful, Onwards

\* A client goes on as before, but for events that have not been through Redis.
Ordinary(c) == /\ Reached(c)' = Reached(c)
               /\ \/ inbox'[c] = inbox[c]
                  \/ \E t \in Events : t \notin Elements(log) /\ inbox'[c] = Append(inbox[c], t)

\* Or it gets the next event of the log.
Advances(c) == /\ Reached(c)' = Reached(c) + 1
               /\ Reached(c) + 1 \in 1 .. Len(log)
               /\ inbox'[c] = Append(inbox[c], log[Reached(c) + 1])

LEMMA LStep ==
  ASSUME IInv, HInv, LInv, Onwards, log' = log,
         \A i \in Instances : Runs(i)' => Suffix(i)',
         \A c \in Conns : Faithful(c)' => Ordinary(c) \/ Advances(c)
  PROVE  LInv'
<1>1. ASSUME NEW c \in Conns, Faithful(c)'
      PROVE  /\ Follows(inbox'[c], log, Reached(c)')
             /\ Reached(c)' > 0 => LastOf(inbox'[c], log, Reached(c)')
  <2>1. Faithful(c) BY <1>1, FaithfulBefore
  <2>2. inbox[c] \in Seq(Events) /\ log \in Seq(Events) /\ Len(log) \in Nat
    BY LenProperties DEF IInv, HistoryOK
  <2>3. PICK d \in 0 .. Len(log) : d = Reached(c) BY <2>1, ReachedType DEF Faithful
  <2>4. Follows(inbox[c], log, d) /\ (d > 0 => LastOf(inbox[c], log, d))
    BY <2>1, <2>3 DEF LInv, InOrder, LastWord
  <2>5. CASE Ordinary(c)
    <3>1. Reached(c)' = d BY <2>3, <2>5 DEF Ordinary
    <3>2. CASE inbox'[c] = inbox[c] BY <2>4, <3>1, <3>2
    <3>3. ASSUME NEW t \in Events, t \notin Elements(log), inbox'[c] = Append(inbox[c], t)
          PROVE  /\ Follows(inbox'[c], log, Reached(c)')
                 /\ Reached(c)' > 0 => LastOf(inbox'[c], log, Reached(c)')
      BY <2>2, <2>4, <3>1, <3>3, LastOfSkip, FollowsSkip
    <3>4. QED BY <2>5, <3>2, <3>3 DEF Ordinary
  <2>6. CASE Advances(c)
    <3>1. Reached(c)' = d + 1 /\ d + 1 \in 1 .. Len(log) BY <2>3, <2>6 DEF Advances
    <3>2. PICK t \in Events : t = log[d + 1] BY <2>2, <3>1, ElementOfSeq
    <3>3. inbox'[c] = Append(inbox[c], t) BY <2>3, <2>6, <3>2 DEF Advances
    <3>4. Follows(Append(inbox[c], t), log, d + 1) BY <2>2, <2>4, <3>2, FollowsNext
    <3>5. LastOf(Append(inbox[c], t), log, d + 1) BY <2>2, <3>2, LastOfNext
    <3>6. QED BY <3>1, <3>3, <3>4, <3>5
  <2>7. QED BY <1>1, <2>5, <2>6
<1>2. QED BY <1>1 DEF LInv, InOrder, LastWord, Follows, LastOf

\* Who gets a message has it after those he had.
LEMMA Handed ==
  ASSUME IInv, NEW c0 \in Conns, NEW t \in Events, Deliver(c0, t)
  PROVE  /\ \A c \in Conns : inbox'[c] = inbox[c] \/ (c = c0 /\ inbox'[c] = Append(inbox[c], t))
         /\ link[c0] = "up" => inbox'[c0] = Append(inbox[c0], t)
BY DEF Deliver, IInv, HistoryOK

\* The step keeps the invariant, and is one of the relay as its clients see it.
InStep == LInv' /\ Ordering!Next

LEMMA Resting ==
  ASSUME IInv, HInv, Onwards, Elements(log) \subseteq Elements(log'),
         \A c \in Conns : Faithful(c)' => Reached(c)' = Reached(c)
  PROVE  Ordering!Rest
<1>1. \A c \in Conns : Faithful(c)' => Faithful(c) BY FaithfulBefore
<1>2. /\ DOMAIN GotBy = {c \in Conns : Faithful(c)}
      /\ DOMAIN GotBy' = {c \in Conns : Faithful(c)'}
  BY DEF GotBy
<1>3. \A c \in Conns : /\ Faithful(c) => GotBy[c] = Reached(c)
                       /\ Faithful(c)' => GotBy'[c] = Reached(c)'
  BY DEF GotBy
<1>4. DOMAIN GotBy' \subseteq DOMAIN GotBy BY <1>1, <1>2
<1>5. \A c \in DOMAIN GotBy' : GotBy'[c] = GotBy[c] BY <1>1, <1>2, <1>3
<1>6. QED BY <1>4, <1>5 DEF Ordering!Rest

LEMMA SamePlaces ==
  ASSUME \A i \in Instances : Runs(i)' <=> Runs(i),
         \A i \in Instances : Runs(i)' => Relayed(i)' = Relayed(i)
  PROVE  DoneBy' = DoneBy
BY DEF DoneBy

\* The Redis listeners stand still, and nobody gets an event of the past.
LEMMA LAside ==
  ASSUME IInv, HInv, LInv, Onwards, log' = log,
         \A i \in Instances : pc'[i] = pc[i] /\ left'[i] = left[i] /\ channel'[i] = channel[i],
         \A c \in Conns : c \notin Scoped =>
            \/ inbox'[c] = inbox[c]
            \/ \E t \in Events : t \notin Elements(log) /\ inbox'[c] = Append(inbox[c], t)
  PROVE  InStep
<1>1. \A c \in Conns : Home[c] \in Instances BY HubAssumption
<1>2. \A i \in Instances : Relayed(i)' = Relayed(i) BY DEF Relayed
<1>3. \A i \in Instances : Runs(i)' => Suffix(i)' BY <1>2 DEF LInv, Runs, Suffix
<1>4. \A c \in Conns : Reached(c)' = Reached(c) BY <1>1, <1>2 DEF Reached
<1>5. \A c \in Conns : Faithful(c)' => Ordinary(c) BY <1>4 DEF Ordinary, Faithful
<1>6. LInv' BY <1>3, <1>5, LStep
<1>7. DoneBy' = DoneBy BY <1>2, SamePlaces DEF Runs
<1>8. Ordering!Rest BY <1>4, Resting
<1>9. QED BY <1>6, <1>7, <1>8 DEF InStep, Ordering!Next, Ordering!Release

LEMMA LEndpoint ==
  ASSUME IInv, HInv, LInv, NEW c \in Conns, Connect(c) \/ Greet(c) \/ Cut(c) \/ Notice(c)
  PROVE  InStep
<1>1. disturbed \subseteq disturbed'
  <2>1. CASE Greet(c)
    <3>1. \E ps : Touch(ps, {}) BY <2>1 DEF Greet
    <3>2. QED BY <3>1, TouchMarks
  <2>2. CASE ~ Greet(c)
    BY <2>2, TouchMarks DEF Connect, Cut, Notice
  <2>3. QED BY <2>1, <2>2
<1>2. UNCHANGED <<pc, left, channel, log, inbox, heardBy>>
  BY DEF Connect, Greet, Cut, Notice, iters, redis
<1>3. \A d \in Conns : link'[d] = "up" => link[d] = "up"
  BY DEF Connect, Greet, Cut, Notice, IInv, EndsOK
<1>4. Onwards BY <1>1, <1>2, <1>3 DEF Onwards, Runs
<1>5. QED BY <1>2, <1>4, LAside

\* A publishing call goes on, with a message or without.
LEMMA LEvent ==
  ASSUME IInv, HInv, LInv, NEW p \in Events, Others({p}), disturbed \subseteq disturbed',
         Hearers, UNCHANGED <<link, channel, log>>,
         \A c \in Conns : c \notin Scoped =>
            \/ inbox'[c] = inbox[c]
            \/ p \notin Elements(log) /\ inbox'[c] = Append(inbox[c], p)
  PROVE  InStep
<1>1. \A i \in Instances : i \in Proc \ {p} BY HubAssumption DEF Proc
<1>2. \A i \in Instances : pc'[i] = pc[i] /\ left'[i] = left[i] BY <1>1 DEF Others
<1>3. Onwards BY <1>2 DEF Onwards, Hearers, Runs
<1>4. QED BY <1>2, <1>3, LAside

\* The others are where they were.
LEMMA Elsewhere ==
  ASSUME NEW p \in Instances, Others({p}), disturbed \subseteq disturbed',
         UNCHANGED <<link, log, heardBy>>, Runs(p),
         \A i \in Instances : i # p => channel'[i] = channel[i]
  PROVE  /\ Onwards
         /\ \A i \in Instances : i # p => (Runs(i)' <=> Runs(i)) /\ Relayed(i)' = Relayed(i)
         /\ \A c \in Conns : Home[c] # p => Reached(c)' = Reached(c)
<1>1. \A c \in Conns : Home[c] \in Instances BY HubAssumption
<1>2. \A i \in Instances : i # p => pc'[i] = pc[i] /\ left'[i] = left[i]
  BY DEF Others, Proc
<1>3. Onwards BY <1>2 DEF Onwards, Runs
<1>4. \A i \in Instances : i # p => (Runs(i)' <=> Runs(i)) /\ Relayed(i)' = Relayed(i)
  BY <1>2 DEF Relayed, Runs
<1>5. \A c \in Conns : Home[c] # p => Reached(c)' = Reached(c)
  BY <1>1, <1>2, <1>4 DEF Reached
<1>6. QED BY <1>3, <1>4, <1>5

\* A Redis listener does something, and its clients may get a message.
LEMMA LRelays ==
  ASSUME IInv, HInv, LInv, NEW p \in Instances, Others({p}), disturbed \subseteq disturbed',
         UNCHANGED <<link, log, heardBy>>, Runs(p),
         \A i \in Instances : i # p => channel'[i] = channel[i],
         \A c \in Conns : Home[c] # p => inbox'[c] = inbox[c],
         Runs(p)' => Suffix(p)',
         \A c \in Conns : Home[c] = p /\ Faithful(c)' => Ordinary(c) \/ Advances(c)
  PROVE  LInv'
<1>1. /\ Onwards
      /\ \A i \in Instances : i # p => (Runs(i)' <=> Runs(i)) /\ Relayed(i)' = Relayed(i)
      /\ \A c \in Conns : Home[c] # p => Reached(c)' = Reached(c)
  BY Elsewhere
<1>2. \A i \in Instances : Runs(i)' => Suffix(i)' BY <1>1 DEF LInv, Suffix
<1>3. \A c \in Conns : Home[c] # p => Ordinary(c) BY <1>1 DEF Ordinary
<1>4. QED BY <1>1, <1>2, <1>3, LStep

\* It turns to the next message.
LEMMA LNextMessage ==
  ASSUME IInv, HInv, LInv, NEW p \in Instances, Others({p}), disturbed \subseteq disturbed',
         UNCHANGED <<link, log, heardBy, inbox>>, Runs(p), channel[p] # << >>,
         \A i \in Instances : i # p => channel'[i] = channel[i],
         pc'[p] = "idle", channel'[p] = Tail(channel[p]),
         \A c \in Conns : Home[c] = p /\ Faithful(c) => pc[p] = "send" /\ c \notin left[p]
  PROVE  InStep
<1>1. Suffix(p)' /\ Relayed(p)' = Relayed(p) + 1 BY TailSuffix
<1>2. /\ Onwards
      /\ \A i \in Instances : i # p => (Runs(i)' <=> Runs(i)) /\ Relayed(i)' = Relayed(i)
      /\ \A c \in Conns : Home[c] # p => Reached(c)' = Reached(c)
  BY Elsewhere
<1>3. \A c \in Conns : Faithful(c)' => Faithful(c) BY <1>2, FaithfulBefore
<1>4. \A c \in Conns : Home[c] = p /\ Faithful(c) => Reached(c) = Relayed(p) + 1
  BY DEF Reached
<1>5. ASSUME NEW c \in Conns, Home[c] = p, Faithful(c)' PROVE Ordinary(c)
  BY <1>1, <1>3, <1>4, <1>5 DEF Ordinary, Reached
<1>6. LInv' BY <1>1, <1>5, LRelays
<1>7. \A c \in Conns : Faithful(c)' => Reached(c)' = Reached(c) BY <1>2, <1>5 DEF Ordinary
<1>8. Ordering!Rest BY <1>2, <1>7, Resting
<1>9. DoneBy' = [DoneBy EXCEPT ![p] = @ + 1]
  <2>1. \A i \in Instances : Runs(i)' <=> Runs(i) BY <1>2 DEF Runs
  <2>2. \A i \in Instances : Runs(i) => Relayed(i)' = IF i = p THEN Relayed(p) + 1 ELSE Relayed(i)
    BY <1>1, <1>2
  <2>3. QED BY <2>1, <2>2 DEF DoneBy
<1>10. p \in DOMAIN DoneBy /\ DoneBy[p] = Relayed(p) BY DEF DoneBy
<1>11. Relayed(p) < Len(log) BY RelayedType
<1>12. \A c \in DOMAIN GotBy : Home[c] = p => GotBy[c] = Relayed(p) + 1 BY <1>4 DEF GotBy
<1>13. Ordering!Pass(p) BY <1>8, <1>9, <1>10, <1>11, <1>12 DEF Ordering!Pass
<1>14. QED BY <1>6, <1>13 DEF InStep, Ordering!Next

\* It sends its message to c0, and has yet to come to the others it is to reach.
LEMMA LMessage ==
  ASSUME IInv, HInv, LInv, NEW p \in Instances, Others({p}),
         UNCHANGED <<link, log, heardBy, channel, disturbed>>, Runs(p), channel[p] # << >>, pc'[p] = "send",
         NEW c0 \in Conns, Home[c0] = p, Deliver(c0, Head(channel[p])), c0 \notin left'[p],
         Faithful(c0)' => pc[p] = "idle" \/ c0 \in left[p],
         \A c \in Conns : Home[c] = p /\ Faithful(c)' /\ c # c0 =>
            (pc[p] = "send" /\ c \notin left[p] <=> c \notin left'[p])
  PROVE  InStep
<1>1. channel[p] \in Seq(Events) BY DEF IInv, ChannelsOK
<1>2. PICK t \in Events : t = Head(channel[p]) BY <1>1, Behead
<1>3. /\ \A c \in Conns : inbox'[c] = inbox[c] \/ (c = c0 /\ inbox'[c] = Append(inbox[c], t))
      /\ link[c0] = "up" => inbox'[c0] = Append(inbox[c0], t)
  BY <1>2, Handed
<1>4. Relayed(p)' = Relayed(p) /\ (Suffix(p)' <=> Suffix(p)) BY DEF Relayed, Suffix
<1>5. Relayed(p) + 1 \in 1 .. Len(log) /\ t = log[Relayed(p) + 1] BY <1>2, RelayedType
<1>6. ASSUME NEW c \in Conns, Home[c] = p, Faithful(c)' PROVE Ordinary(c) \/ Advances(c)
  <2>1. CASE c = c0
    <3>1. link[c0] = "up" BY <1>6, <2>1 DEF Faithful
    <3>2. Reached(c)' = Relayed(p) + 1 /\ Reached(c) = Relayed(p)
      BY <1>4, <1>6, <2>1 DEF Reached
    <3>3. QED BY <1>3, <1>5, <2>1, <3>1, <3>2 DEF Advances
  <2>2. CASE c # c0
    <3>1. pc[p] = "send" /\ c \notin left[p] <=> c \notin left'[p] BY <1>6, <2>2
    <3>2. Reached(c)' = Reached(c) BY <1>4, <1>6, <3>1 DEF Reached
    <3>3. QED BY <1>3, <2>2, <3>2 DEF Ordinary
  <2>3. QED BY <2>1, <2>2
<1>7. \A c \in Conns : Home[c] # p => inbox'[c] = inbox[c] BY <1>3
<1>8. Runs(p)' => Suffix(p)' BY <1>4 DEF LInv
<1>9. LInv' BY <1>6, <1>7, <1>8, LRelays
<1>10. /\ Onwards
       /\ \A i \in Instances : i # p => (Runs(i)' <=> Runs(i)) /\ Relayed(i)' = Relayed(i)
       /\ \A c \in Conns : Home[c] # p => Reached(c)' = Reached(c)
  BY Elsewhere
<1>11. \A i \in Instances : Runs(i)' <=> Runs(i) BY <1>10 DEF Runs
<1>12. \A c \in Conns : Faithful(c)' <=> Faithful(c) BY <1>11, HubAssumption DEF Faithful
<1>13. DoneBy' = DoneBy BY <1>4, <1>10, <1>11, SamePlaces
<1>14. \A c \in Conns : Faithful(c) /\ c # c0 => Reached(c)' = Reached(c)
  <2>1. \A c \in Conns : Home[c] = p /\ Faithful(c) /\ c # c0 => Reached(c)' = Reached(c)
    BY <1>4, <1>12 DEF Reached
  <2>2. QED BY <1>10, <2>1
<1>15. CASE Faithful(c0)
  <2>1. Reached(c0) = Relayed(p) /\ Reached(c0)' = Relayed(p) + 1
    BY <1>4, <1>12, <1>15 DEF Reached
  <2>2. /\ c0 \in DOMAIN GotBy /\ GotBy[c0] = Relayed(p)
        /\ DoneBy[p] = Relayed(p)
    BY <1>15, <2>1 DEF GotBy, DoneBy
  <2>3. Relayed(p) < Len(log) BY RelayedType
  <2>4. GotBy' = [GotBy EXCEPT ![c0] = @ + 1]
    <3>1. \A c \in Conns : Faithful(c) =>
             Reached(c)' = IF c = c0 THEN Reached(c0) + 1 ELSE Reached(c)
      BY <1>14, <2>1
    <3>2. QED BY <1>12, <3>1 DEF GotBy
  <2>5. Ordering!Serve(c0) BY <1>13, <2>2, <2>3, <2>4 DEF Ordering!Serve
  <2>6. QED BY <1>9, <2>5 DEF InStep, Ordering!Next
<1>16. CASE ~ Faithful(c0)
  <2>1. \A c \in Conns : Faithful(c)' => Reached(c)' = Reached(c) BY <1>12, <1>14, <1>16
  <2>2. Ordering!Rest BY <1>10, <2>1, Resting
  <2>3. QED BY <1>9, <1>13, <2>2 DEF InStep, Ordering!Next, Ordering!Release
<1>17. QED BY <1>15, <1>16

\* Or it ends.
LEMMA LEnded ==
  ASSUME IInv, HInv, LInv, NEW p \in Instances, Others({p}), disturbed \subseteq disturbed',
         UNCHANGED <<link, log, heardBy, inbox>>, Runs(p), pc'[p] = "ended",
         \A i \in Instances : i # p => channel'[i] = channel[i]
  PROVE  InStep
<1>1. ~ Runs(p)' BY DEF Runs
<1>2. \A c \in Conns : Home[c] = p => ~ Faithful(c)' BY <1>1 DEF Faithful
<1>3. LInv' BY <1>1, <1>2, LRelays
<1>4. /\ Onwards
      /\ \A i \in Instances : i # p => (Runs(i)' <=> Runs(i)) /\ Relayed(i)' = Relayed(i)
      /\ \A c \in Conns : Home[c] # p => Reached(c)' = Reached(c)
  BY Elsewhere
<1>5. Ordering!Rest BY <1>2, <1>4, Resting
<1>6. p \in DOMAIN DoneBy BY DEF DoneBy
<1>7. DoneBy' = [i \in DOMAIN DoneBy \ {p} |-> DoneBy[i]]
  BY <1>1, <1>4 DEF DoneBy
<1>8. \A c \in DOMAIN GotBy' : Home[c] # p BY <1>2 DEF GotBy
<1>9. Ordering!Lose(p) BY <1>5, <1>6, <1>7, <1>8 DEF Ordering!Lose
<1>10. QED BY <1>3, <1>9 DEF InStep, Ordering!Next

-----------------------------------------------------------------------------
(* The steps of the processes *)

\* What a faithful client is owed next.
LEMMA Owed ==
  ASSUME IInv, MInv, HInv, NEW p \in Instances, channel[p] # << >>,
         NEW c \in Conns, Home[c] = p, Faithful(c)
  PROVE  /\ c \in heardBy[Head(channel[p])] /\ c \in active[p]
         /\ <<Head(channel[p]), p>> \notin disturbed
<1>1. channel[p] \in Seq(Events) BY DEF IInv, ChannelsOK
<1>2. PICK t \in Events : t = Head(channel[p]) BY <1>1, Behead
<1>3. t \in Elements(channel[p]) BY <1>1, <1>2, Behead
<1>4. t \in Elements(log) BY <1>3 DEF HInv, Order
<1>5. c \in heardBy[t] /\ <<t, p>> \notin disturbed /\ link[c] = "up" BY <1>4 DEF Faithful
<1>6. QED BY <1>2, <1>5, Present

LEMMA LSend ==
  ASSUME IInv, MInv, HInv, CInv, LInv, NEW p \in Proc, Send(p)
  PROVE  InStep
<1>0. PICK t \in Events : t = Topic(p) BY Topics DEF Send
<1>1. Place(p) \in Instances /\ pc[p] = "send" BY Places DEF Send
<1>2. \A rest \in Ahead(p, active[Place(p)]) : rest \subseteq Conns
  BY <1>1 DEF Ahead, IInv, ItersOK, EndsOK
<1>3. PICK rest \in SUBSET Conns, c0 \in Conns :
        /\ rest \in Ahead(p, active[Place(p)]) /\ c0 \in rest
        /\ left' = [left EXCEPT ![p] = rest \ {c0}]
        /\ Deliver(c0, t)
  BY <1>0, <1>2 DEF Send, Remaining
<1>4. UNCHANGED <<link, pc, size, channel, log, heardBy, disturbed>> BY DEF Send, sockets, redis
<1>5. Others({p}) BY <1>3, <1>4 DEF Others, IInv, ItersOK
<1>6. CASE p \in Events
  <2>1. t = p BY <1>0, <1>6, HubAssumption DEF Topic
  <2>2. p \notin Elements(log) BY <1>1, <1>6 DEF HInv, Order
  <2>3. \A c \in Conns : inbox'[c] = inbox[c] \/ inbox'[c] = Append(inbox[c], p)
    BY <1>3, <2>1, Handed
  <2>4. QED BY <1>4, <1>5, <1>6, <2>2, <2>3, LEvent DEF Hearers
<1>7. CASE p \in Instances
  <2>1. t = Head(channel[p]) /\ Place(p) = p /\ channel[p] # << >>
    BY <1>0, <1>1, <1>7 DEF Topic, Place, IInv, ChannelsOK
  <2>2. Home[c0] = p
    <3>1. \A c \in Conns : c \in active[p] => Home[c] = p BY <1>7 DEF MInv
    <3>2. \A c \in left[p] : Home[c] = p BY <1>1, <2>1 DEF CInv, Placed
    <3>3. QED BY <1>3, <2>1, <3>1, <3>2 DEF Ahead
  <2>3. left'[p] = rest \ {c0} BY <1>3 DEF IInv, ItersOK
  <2>4. ASSUME NEW c \in Conns, Home[c] = p, Faithful(c)'
        PROVE  rest = left[p]
    <3>1. Faithful(c) BY <1>4, <2>4 DEF Faithful, Runs
    <3>2. <<t, p>> \notin disturbed BY <1>7, <2>1, <2>4, <3>1, Owed
    <3>3. p \notin moved BY <1>0, <1>1, <2>1, <3>2 DEF HInv, Steady, Stirred
    <3>4. QED BY <1>3, <3>3 DEF Ahead
  <2>5. \A c \in Conns : Home[c] = p /\ Faithful(c)' /\ c # c0 =>
           (pc[p] = "send" /\ c \notin left[p] <=> c \notin left'[p])
    BY <1>1, <2>3, <2>4
  <2>6. Faithful(c0)' => c0 \in left[p] BY <1>3, <2>2, <2>4
  <2>7. Runs(p) /\ pc'[p] = "send" BY <1>1, <1>4 DEF Runs
  <2>8. QED BY <1>3, <1>4, <1>5, <1>7, <2>1, <2>2, <2>3, <2>5, <2>6, <2>7, LMessage
<1>8. QED BY <1>6, <1>7 DEF Proc

LEMMA LFinish ==
  ASSUME IInv, MInv, HInv, CInv, LInv, NEW p \in Proc, Finish(p)
  PROVE  InStep
<1>0. PICK t \in Events : t = Topic(p) BY Topics DEF Finish
<1>1. /\ pc[p] = "send" /\ pc' = [pc EXCEPT ![p] = Onward(p)] /\ Consume(p) /\ Drop(p)
      /\ Touch(Left(failed[p], Place(p)), {p})
      /\ UNCHANGED <<link, log, heardBy, inbox>>
  BY DEF Finish, sockets
<1>2. disturbed \subseteq disturbed' BY <1>1, TouchMarks
<1>3. p \in Instances => channel[p] # << >> BY <1>1 DEF IInv, ChannelsOK
<1>4. Others({p}) BY <1>1, <1>3, Consumed DEF Others, Drop, IInv, ProcOK, ItersOK
<1>5. CASE p \in Events
  <2>1. channel' = channel BY <1>1, <1>5, HubAssumption DEF Consume
  <2>2. QED BY <1>1, <1>2, <1>4, <1>5, <2>1, LEvent DEF Hearers
<1>6. CASE p \in Instances
  <2>1. pc'[p] = "idle" /\ channel'[p] = Tail(channel[p])
    BY <1>1, <1>6 DEF Onward, Consume, IInv, ProcOK, ChannelsOK
  <2>2. \A i \in Instances : i # p => channel'[i] = channel[i] BY <1>1, <1>3, Consumed
  <2>3. Runs(p) /\ Runs(p)' BY <1>1, <2>1 DEF Runs
  <2>4. ASSUME NEW c \in Conns, Home[c] = p, Faithful(c)
        PROVE  c \notin left[p]
    <3>1. <<t, p>> \notin disturbed BY <1>0, <1>3, <1>6, <2>4, Owed DEF Topic
    <3>2. p \notin moved BY <1>0, <1>1, <1>6, <3>1 DEF HInv, Steady, Stirred, Place
    <3>3. QED BY <3>2 DEF Finish, Ahead
  <2>5. QED BY <1>1, <1>2, <1>3, <1>4, <1>6, <2>1, <2>2, <2>3, <2>4, LNextMessage
<1>7. QED BY <1>5, <1>6 DEF Proc

LEMMA LTear ==
  ASSUME IInv, HInv, LInv, NEW p \in Proc, Tear(p)
  PROVE  InStep
<1>1. UNCHANGED <<link, log, heardBy, inbox, disturbed>> /\ pc[p] = "send"
  BY DEF Tear, sockets
<1>2. /\ pc'[p] = IF p \in Instances THEN "ended" ELSE "done"
      /\ \A q \in Proc : q # p => pc'[q] = pc[q] /\ left'[q] = left[q] /\ size'[q] = size[q]
      /\ \A i \in Instances : i # p => channel'[i] = channel[i]
  BY DEF Tear, Drop, IInv, ProcOK, ItersOK, ChannelsOK
<1>3. Others({p}) BY <1>2 DEF Others
<1>4. CASE p \in Events
  <2>1. channel' = channel BY <1>4, HubAssumption DEF Tear
  <2>2. QED BY <1>1, <1>3, <1>4, <2>1, LEvent DEF Hearers
<1>5. CASE p \in Instances
  <2>1. Runs(p) BY <1>1 DEF Runs
  <2>2. QED BY <1>1, <1>2, <1>3, <1>5, <2>1, LEnded
<1>6. QED BY <1>4, <1>5 DEF Proc

\* A broadcast that begins: the clients it is owed to are in the set.
LEMMA LBegin ==
  ASSUME IInv, MInv, HInv, CInv, LInv, NEW p \in Proc, NEW t \in Events,
         pc[p] = "idle", Begin(p, t, Place(p)),
         p \in Instances => channel[p] # << >> /\ t = Head(channel[p]) /\ heardBy' = heardBy,
         p \notin Instances => t = p,
         Hearers,
         UNCHANGED <<sockets, sets, log, faults, disturbed>>
  PROVE  InStep
<1>1. Place(p) \in Instances /\ active[Place(p)] \subseteq Conns /\ link' = link
      /\ Events \cap Instances = {}
  BY Places, HubAssumption DEF IInv, EndsOK, sockets
<1>2. ASSUME p \in Instances, NEW c \in Conns, Home[c] = p, Faithful(c) \/ Faithful(c)'
      PROVE  c \in active[p]
  <2>1. Runs(p) BY <1>2 DEF Runs
  <2>2. Faithful(c) BY <1>1, <1>2, <2>1 DEF Faithful
  <2>3. QED BY <1>2, <2>2, Owed
<1>3. CASE active[Place(p)] = {}
  <2>1. /\ pc' = [pc EXCEPT ![p] = Onward(p)] /\ Consume(p)
        /\ UNCHANGED <<left, size, inbox>>
    BY <1>3 DEF Begin, iters
  <2>2. Others({p}) BY <2>1, Consumed DEF Others, IInv, ProcOK
  <2>3. CASE p \in Events
    <3>1. channel' = channel BY <1>1, <2>1, <2>3 DEF Consume
    <3>2. QED BY <1>1, <2>1, <2>2, <2>3, <3>1, LEvent
  <2>4. CASE p \in Instances
    <3>1. pc'[p] = "idle" /\ channel'[p] = Tail(channel[p])
      BY <2>1, <2>4 DEF Onward, Consume, IInv, ProcOK, ChannelsOK
    <3>2. \A i \in Instances : i # p => channel'[i] = channel[i] BY <2>1, Consumed
    <3>3. \A c \in Conns : Home[c] = p => ~ Faithful(c) BY <1>2, <1>3, <2>4 DEF Place
    <3>4. Runs(p) BY DEF Runs
    <3>5. QED BY <1>1, <2>1, <2>2, <2>4, <3>1, <3>2, <3>3, <3>4, LNextMessage
  <2>5. QED BY <2>3, <2>4 DEF Proc
<1>4. CASE active[Place(p)] # {}
  <2>1. PICK c0 \in Conns :
          /\ c0 \in active[Place(p)]
          /\ pc' = [pc EXCEPT ![p] = "send"]
          /\ left' = [left EXCEPT ![p] = active[Place(p)] \ {c0}]
          /\ size' = [size EXCEPT ![p] = Cardinality(active[Place(p)])]
          /\ Deliver(c0, t)
          /\ channel' = channel
    BY <1>1, <1>4 DEF Begin, Remaining
  <2>2. Others({p}) BY <2>1 DEF Others, IInv, ProcOK, ItersOK
  <2>3. CASE p \in Events
    <3>1. t = p /\ p \notin Elements(log) BY <1>1, <2>3 DEF HInv, Order
    <3>2. \A c \in Conns : inbox'[c] = inbox[c] \/ inbox'[c] = Append(inbox[c], p)
      BY <2>1, <3>1, Handed
    <3>3. QED BY <1>1, <2>1, <2>2, <2>3, <3>1, <3>2, LEvent
  <2>4. CASE p \in Instances
    <3>1. pc'[p] = "send" /\ left'[p] = active[p] \ {c0} /\ Place(p) = p
      BY <2>1, <2>4 DEF IInv, ProcOK, ItersOK, Place
    <3>2. Home[c0] = p BY <2>1, <2>4, <3>1 DEF MInv
    <3>3. Runs(p) BY DEF Runs
    <3>4. \A c \in Conns : Home[c] = p /\ Faithful(c)' /\ c # c0 =>
             (pc[p] = "send" /\ c \notin left[p] <=> c \notin left'[p])
      BY <1>2, <2>4, <3>1
    <3>5. QED BY <1>1, <2>1, <2>2, <2>4, <3>1, <3>2, <3>3, <3>4, LMessage
  <2>5. QED BY <2>3, <2>4 DEF Proc
<1>5. QED BY <1>3, <1>4

\* An event goes through Redis: those who are behind are so by one more.
LEMMA LToRedis ==
  ASSUME IInv, HInv, LInv, NEW e0 \in Events, ToRedis(e0)
  PROVE  InStep
<1>1. e0 \in Proc /\ Instances \subseteq Proc /\ e0 \notin Instances
      /\ \A c \in Conns : Home[c] \in Instances
  BY HubAssumption DEF Proc
<1>2. UNCHANGED <<link, left, inbox, heardBy, disturbed>> BY DEF ToRedis, iters, sockets
<1>3. \A i \in Instances : pc'[i] = pc[i] BY <1>1 DEF ToRedis, IInv, ProcOK
<1>4. PICK m \in Nat : m = Len(log)
  BY LenProperties DEF IInv, HistoryOK
<1>5. log \in Seq(Events) /\ log' = Append(log, e0) BY DEF ToRedis, IInv, HistoryOK
<1>6. /\ Len(log') = m + 1 /\ log'[m + 1] = e0
      /\ \A k \in 1 .. m : log'[k] = log[k]
      /\ Elements(log) \subseteq Elements(log')
  BY <1>4, <1>5, AppendProperties, Appended
<1>7. ASSUME NEW i \in Instances, Runs(i)
      PROVE  Suffix(i)' /\ Relayed(i)' = Relayed(i)
  <2>1. channel[i] \in Seq(Events) /\ channel'[i] = Append(channel[i], e0)
    BY <1>7 DEF ToRedis, Subscribers, Runs, IInv, ChannelsOK
  <2>2. PICK n \in Nat : n = Len(channel[i]) BY <2>1, LenProperties
  <2>3. /\ Len(channel'[i]) = n + 1 /\ channel'[i][n + 1] = e0
        /\ \A k \in 1 .. n : channel'[i][k] = channel[i][k]
    BY <2>1, <2>2, AppendProperties
  <2>4. n <= m /\ \A k \in 1 .. n : channel[i][k] = log[(m - n) + k]
    BY <1>4, <1>7, <2>2 DEF LInv, Suffix, Relayed
  <2>5. Relayed(i) = m - n /\ Relayed(i)' = m - n
    <3>1. Relayed(i)' = (m + 1) - (n + 1) BY <1>6, <2>3 DEF Relayed
    <3>2. Relayed(i) = m - n BY <1>4, <2>2 DEF Relayed
    <3>3. (m + 1) - (n + 1) = m - n OBVIOUS
    <3>4. QED BY <3>1, <3>2, <3>3
  <2>6. ASSUME NEW k \in 1 .. n + 1 PROVE channel'[i][k] = log'[(m - n) + k]
    <3>1. CASE k \in 1 .. n
      <4>1. (m - n) + k \in 1 .. m BY <2>4, <3>1
      <4>2. QED BY <1>6, <2>3, <2>4, <3>1, <4>1
    <3>2. CASE k \notin 1 .. n
      <4>1. k = n + 1 /\ (m - n) + k = m + 1 BY <3>2
      <4>2. QED BY <1>6, <2>3, <4>1
    <3>3. QED BY <3>1, <3>2
  <2>7. Suffix(i)' BY <1>6, <2>3, <2>4, <2>5, <2>6 DEF Suffix
  <2>8. QED BY <2>5, <2>7
<1>8. Onwards BY <1>2, <1>3 DEF Onwards, Runs
<1>9. ASSUME NEW c \in Conns, Faithful(c)'
      PROVE  /\ Follows(inbox'[c], log', Reached(c)')
             /\ Reached(c)' > 0 => LastOf(inbox'[c], log', Reached(c)')
  <2>1. Faithful(c) BY <1>6, <1>8, <1>9, FaithfulBefore
  <2>2. Runs(Home[c]) BY <2>1 DEF Faithful
  <2>3. Reached(c)' = Reached(c) BY <1>1, <1>2, <1>3, <1>7, <2>2 DEF Reached
  <2>4. PICK d \in 0 .. m : d = Reached(c) BY <1>4, <2>2, ReachedType
  <2>5. Follows(inbox[c], log, d) /\ (d > 0 => LastOf(inbox[c], log, d))
    BY <2>1, <2>4 DEF LInv, InOrder, LastWord
  <2>6. \A j \in 1 .. d : log'[j] = log[j] BY <1>6
  <2>7. Follows(inbox[c], log', d) BY <2>5, <2>6 DEF Follows
  <2>8. ASSUME d > 0 PROVE LastOf(inbox[c], log', d)
    <3>1. d \in 1 .. d BY <2>8
    <3>2. QED BY <2>5, <2>6, <2>8, <3>1 DEF LastOf
  <2>9. QED BY <1>2, <2>3, <2>4, <2>7, <2>8
<1>10. \A i \in Instances : Runs(i)' => Suffix(i)' BY <1>3, <1>7 DEF Runs
<1>11. LInv' BY <1>9, <1>10 DEF LInv, InOrder, LastWord, Follows, LastOf
<1>12. DoneBy' = DoneBy BY <1>3, <1>7, SamePlaces DEF Runs
<1>13. ASSUME NEW c \in Conns, Faithful(c)' PROVE Reached(c)' = Reached(c)
  <2>1. Runs(Home[c]) BY <1>6, <1>8, <1>13, FaithfulBefore DEF Faithful
  <2>2. QED BY <1>1, <1>2, <1>3, <1>7, <2>1 DEF Reached
<1>14. Ordering!Rest BY <1>6, <1>8, <1>13, Resting
<1>15. \A k \in DOMAIN log : log[k] # e0
  <2>1. e0 \notin Elements(log) BY DEF ToRedis, HInv, Order
  <2>2. QED BY <2>1 DEF Elements
<1>16. Ordering!Publish(e0) BY <1>5, <1>12, <1>14, <1>15 DEF Ordering!Publish
<1>17. QED BY <1>11, <1>16 DEF InStep, Ordering!Next

\* The listeners of the endpoints are told: of those no order is kept.
LEMMA LNotify ==
  ASSUME IInv, HInv, CInv, LInv, NEW e \in Events, Notify(e) \/ NotifyNext(e)
  PROVE  InStep
<1> DEFINE all == Callbacks(e) \cap About[e]
<1>1. e \in Proc /\ e \notin Instances /\ all \subseteq Conns
  BY CallbacksAre, HubAssumption DEF Proc
<1>2. About[e] \subseteq Scoped BY HubAssumption
<1>3. \A q \in Proc : q # e => size'[q] = size[q]
  BY DEF Notify, NotifyNext, IInv, ItersOK
<1>4. UNCHANGED <<link, channel, log, heardBy>> BY DEF Notify, NotifyNext, redis, sockets
<1>5. \E c0 \in Conns, rest \in SUBSET Conns : c0 \in Scoped /\ Tell(e, c0, rest)
  <2>1. CASE Notify(e)
    BY <1>1, <1>2, <2>1 DEF Notify
  <2>2. CASE NotifyNext(e)
    <3>1. left[e] \subseteq Conns /\ left[e] \subseteq About[e]
      BY <1>1, <2>2 DEF NotifyNext, CInv, Placed, IInv, ItersOK
    <3>2. \A rest \in Ahead(e, all) : rest \subseteq Conns /\ rest \subseteq About[e]
      BY <1>1, <3>1 DEF Ahead
    <3>3. QED BY <1>2, <2>2, <3>2 DEF NotifyNext
  <2>3. QED BY <2>1, <2>2
<1>6. PICK c0 \in Conns, rest \in SUBSET Conns :
        /\ c0 \in Scoped
        /\ pc' = [pc EXCEPT ![e] = "tell"]
        /\ left' = [left EXCEPT ![e] = rest]
        /\ disturbed \subseteq disturbed'
        /\ Deliver(c0, e)
  BY <1>5 DEF Tell, Touch
<1>7. Others({e}) BY <1>3, <1>4, <1>6 DEF Others, IInv, ProcOK, ItersOK
<1>8. \A c \in Conns : c \notin Scoped => inbox'[c] = inbox[c] BY <1>6, Handed
<1>9. QED BY <1>4, <1>6, <1>7, <1>8, LEvent DEF Hearers

LEMMA LEnds ==
  ASSUME IInv, HInv, LInv, NEW e \in Events, NotifyEnd(e) \/ ToRedisFails(e)
  PROVE  InStep
<1>1. \A q \in Proc : q # e => pc'[q] = pc[q] /\ left'[q] = left[q] /\ size'[q] = size[q]
  BY DEF NotifyEnd, ToRedisFails, Drop, IInv, ProcOK, ItersOK, iters
<1>2. UNCHANGED <<link, channel, log, inbox, heardBy, disturbed>>
  BY DEF NotifyEnd, ToRedisFails, redis, sockets
<1>3. Others({e}) BY <1>1, <1>2 DEF Others
<1>4. QED BY <1>2, <1>3, LEvent DEF Hearers

LEMMA LRelayEnds ==
  ASSUME IInv, HInv, LInv, NEW i \in Instances, RelayEnds(i)
  PROVE  InStep
<1>1. i \in Proc BY DEF Proc
<1>2. UNCHANGED <<link, left, size, log, inbox, heardBy, disturbed>>
  BY DEF RelayEnds, iters, sockets
<1>3. pc'[i] = "ended" /\ \A q \in Proc : q # i => pc'[q] = pc[q]
  BY <1>1 DEF RelayEnds, IInv, ProcOK
<1>4. \A j \in Instances : j # i => channel'[j] = channel[j]
  BY DEF RelayEnds, IInv, ChannelsOK
<1>5. Others({i}) /\ Runs(i) BY <1>2, <1>3, <1>4 DEF Others, RelayEnds, Runs
<1>6. QED BY <1>2, <1>3, <1>4, <1>5, LEnded

LEMMA LNext == IInv /\ MInv /\ HInv /\ CInv /\ LInv /\ [Next]_vars => InStep
<1> SUFFICES ASSUME IInv, MInv, HInv, CInv, LInv, [Next]_vars PROVE InStep
  OBVIOUS
<1>1. CASE UNCHANGED vars
  <2>1. Onwards BY <1>1 DEF vars, Onwards, Runs
  <2>2. QED BY <1>1, <2>1, LAside DEF vars
<1>2. ASSUME NEW e \in Events, Publish(e) PROVE InStep
  <2>1. e \in Proc /\ e \notin Instances /\ Place(e) = Origin[e]
    BY HubAssumption DEF Proc, Place
  <2>2. Hearers BY <1>2 DEF Publish, Hearers, IInv, HistoryOK
  <2>3. QED BY <1>2, <2>1, <2>2, LBegin DEF Publish
<1>3. ASSUME NEW i \in Instances, Relay(i) PROVE InStep
  <2>1. channel[i] \in Seq(Events) /\ channel[i] # << >> /\ Place(i) = i /\ i \in Proc
    BY <1>3 DEF Relay, IInv, ChannelsOK, Place, Proc
  <2>2. PICK e \in Events : e = Head(channel[i]) BY <2>1, Behead
  <2>3. heardBy' = heardBy /\ Hearers BY <1>3 DEF Relay, Hearers
  <2>4. QED BY <1>3, <2>1, <2>2, <2>3, LBegin DEF Relay
<1>4. ASSUME NEW p \in Proc, Advance(p) PROVE InStep
  BY <1>3, <1>4, LSend, LFinish, LTear, LToRedis, LNotify, LEnds DEF Advance
<1>5. QED
  BY <1>1, <1>2, <1>4, LEndpoint, LEnds, LRelayEnds DEF Next

LEMMA OrderHolds == Spec => [](IInv /\ MInv /\ HInv /\ CInv /\ LInv)
<1>1. IInv /\ MInv /\ HInv /\ CInv /\ LInv /\ [Next]_vars => LInv' BY LNext DEF InStep
<1>2. QED
  BY InitInv, NextInv, MInit, MNext, HInit, HNext, CInit, CNext, LInit, <1>1, PTL DEF Spec

\* A client that was there for all that went through Redis, and whose set has not
\* changed under it, has got what has come to it from there in the one order of Redis,
\* though the messages of publishing calls overtake or trail those of the listener.
THEOREM InOrderHolds == Spec => []InOrder
<1>1. LInv => InOrder BY DEF LInv
<1>2. QED BY <1>1, OrderHolds, PTL

\* No broadcast of a publishing call, at whatever speed, brings it a past event after
\* the last one in that order: clients of different instances agree on the last word.
THEOREM LastWordHolds == Spec => []LastWord
<1>1. LInv => LastWord BY DEF LInv
<1>2. QED BY <1>1, OrderHolds, PTL

-----------------------------------------------------------------------------
(* The relay implements one order for all *)

LEMMA InitOrdered == Init => Ordering!Init
<1> SUFFICES ASSUME Init PROVE Ordering!Init
  OBVIOUS
<1>1. /\ log = << >> /\ \A i \in Instances : Relayed(i) = 0
      /\ \A c \in Conns : Home[c] \in Instances
  BY HubAssumption DEF Init, Relayed
<1>2. \A i \in Instances : pc[i] # "send" BY DEF Init, Proc
<1>3. \A c \in Conns : Reached(c) = 0 BY <1>1, <1>2 DEF Reached
<1>4. DoneBy = [i \in {i \in Instances : Runs(i)} |-> 0] BY <1>1 DEF DoneBy
<1>5. GotBy = [c \in {c \in Conns : Faithful(c)} |-> 0] BY <1>3 DEF GotBy
<1>6. {c \in Conns : Faithful(c)} \subseteq {c \in Conns : Home[c] \in DOMAIN DoneBy}
  BY <1>1, <1>4 DEF Faithful
<1>7. {i \in Instances : Runs(i)} \in SUBSET Instances OBVIOUS
<1>8. QED BY <1>1, <1>4, <1>5, <1>6, <1>7 DEF Ordering!Init

\* The instances together are one relay that keeps one order: every behaviour of
\* their endpoints, publishing calls and listeners is one of it.
THEOREM Orders == Spec => OneOrder
<1>1. IInv /\ MInv /\ HInv /\ CInv /\ LInv /\ [Next]_vars => [Ordering!Next]_(Ordering!vars)
  BY LNext DEF InStep
<1>2. QED BY <1>1, InitOrdered, OrderHolds, PTL DEF Spec, OneOrder, Ordering!Spec
=============================================================================
