------------------------- MODULE WorkerQueueProofs -------------------------
(***************************************************************************)
(* Proofs about WorkerQueue for every number of workers, every bound and   *)
(* every retry limit.                                                      *)
(***************************************************************************)
EXTENDS WorkerQueue, FiniteSetTheorems, TLAPS

-----------------------------------------------------------------------------
(* Type correctness *)

LEMMA InitType == Init => TypeOK
BY QueueAssumption
DEF Init, TypeOK, StreamOK, LoopsOK, RecordsOK, Msgs, PCs, Calls

\* Delivered messages are messages.
LEMMA Delivered ==
  ASSUME StreamOK
  PROVE  /\ added \in Nat /\ cursor \in Nat
         /\ cursor <= added /\ added <= MaxMsgs
         /\ 1 .. cursor \subseteq Msgs
         /\ pending \subseteq Msgs /\ idle \subseteq Msgs
         /\ FirstIdle \subseteq idle
<1>1. added \in Nat /\ cursor \in Nat /\ cursor <= added /\ added <= MaxMsgs
  BY QueueAssumption DEF StreamOK
<1>2. 1 .. cursor \subseteq Msgs
  BY <1>1, QueueAssumption DEF Msgs
<1>3. QED BY <1>1, <1>2 DEF StreamOK, FirstIdle

\* Moving a loop keeps the types of the loops' variables.
LEMMA GotoType ==
  ASSUME LoopsOK, NEW p \in Proc, NEW l \in PCs, Goto(p, l), pc[p] # "poll"
  PROVE  /\ pc' \in [Proc -> PCs] /\ msg' \in [Proc -> 0 .. MaxMsgs]
         /\ \A q \in Proc : pc'[q] = "poll" \/ msg'[q] # 0
BY QueueAssumption DEF LoopsOK, Goto

LEMMA HandleType ==
  ASSUME LoopsOK, NEW p \in Proc, NEW m \in Msgs, Handle(p, m)
  PROVE  /\ pc' \in [Proc -> PCs] /\ msg' \in [Proc -> 0 .. MaxMsgs]
         /\ \A q \in Proc : pc'[q] = "poll" \/ msg'[q] # 0
<1>1. m \in 0 .. MaxMsgs /\ m # 0 BY QueueAssumption DEF Msgs
<1>2. QED BY <1>1 DEF LoopsOK, Handle, PCs, Calls

\* Delivering the next entry, claiming and acknowledging keep the stream's types.
LEMMA DeliverType ==
  ASSUME StreamOK, NEW w \in Worker, Deliver(w)
  PROVE  StreamOK' /\ cursor + 1 \in Msgs
<1>1. cursor + 1 \in Msgs /\ cursor' \in 0 .. added'
  BY Delivered, QueueAssumption DEF Deliver, Msgs
<1>2. pending' \subseteq 1 .. cursor'
  BY Delivered DEF Deliver, StreamOK
<1>3. QED BY <1>1, <1>2 DEF Deliver, StreamOK

LEMMA TakeOverType ==
  ASSUME StreamOK, NEW w \in Worker, TakeOver(w)
  PROVE  StreamOK'
BY DEF TakeOver, StreamOK

LEMMA AckedType ==
  ASSUME StreamOK, NEW m \in Msgs, Acked(m)
  PROVE  StreamOK'
BY DEF Acked, StreamOK

LEMMA RetriedType ==
  ASSUME RecordsOK, NEW m \in Msgs, Retried(m) PROVE retries' \in [Msgs -> Nat]
BY DEF RecordsOK, Retried

LEMMA BuriedType ==
  ASSUME RecordsOK, NEW m \in Msgs, Buried(m) PROVE dead' \in [Msgs -> Nat]
BY DEF RecordsOK, Buried

LEMMA OutageType ==
  ASSUME outages \in 0 .. OutageBound, Outage PROVE outages' \in 0 .. OutageBound
BY QueueAssumption DEF Outage

LEMMA NextType == ASSUME TypeOK, [Next]_vars PROVE TypeOK'
<1> USE QueueAssumption DEF stream, loops, counts
<1>0. StreamOK /\ LoopsOK /\ RecordsOK BY DEF TypeOK
<1>1. ASSUME Submit PROVE TypeOK'
  <2>1. StreamOK'
    BY <1>0, <1>1, Delivered DEF Submit, StreamOK
  <2>2. QED BY <1>1, <2>1 DEF Submit, TypeOK, LoopsOK, RecordsOK
<1>2. ASSUME NEW w \in Worker, Start(w) PROVE TypeOK'
  BY <1>2 DEF Start, TypeOK, StreamOK, LoopsOK, RecordsOK
<1>3. ASSUME NEW w \in Worker, Stop(w) PROVE TypeOK'
  <2>1. crashes' \in 0 .. CrashBound
    BY <1>3 DEF Stop, TypeOK
  <2>2. LoopsOK'
    BY <1>0, <1>3 DEF Stop, LoopsOK, PCs
  <2>3. QED BY <1>3, <2>1, <2>2 DEF Stop, TypeOK, StreamOK, RecordsOK
<1>4. ASSUME NEW w \in Worker, Read(w) PROVE TypeOK'
  <2>1. <<w, "main">> \in Proc BY DEF Proc, Loop
  <2>2. StreamOK' /\ cursor + 1 \in Msgs
    BY <1>0, <1>4, DeliverType DEF Read
  <2>3. LoopsOK'
    BY <1>0, <1>4, <2>1, <2>2, HandleType DEF Read, LoopsOK
  <2>4. QED BY <1>4, <2>2, <2>3 DEF Read, TypeOK, RecordsOK
<1>5. ASSUME NEW w \in Worker, Claim(w) PROVE TypeOK'
  <2>1. StreamOK' BY <1>0, <1>5, TakeOverType DEF Claim
  <2>2. LoopsOK' BY <1>0, <1>5, Delivered DEF Claim, LoopsOK
  <2>3. QED BY <1>5, <2>1, <2>2 DEF Claim, TypeOK, RecordsOK
<1>6. ASSUME NEW w \in Worker, NextClaimed(w) PROVE TypeOK'
  <2>1. <<w, "claim">> \in Proc BY DEF Proc, Loop
  <2>2. PICK m \in batch[w] : /\ batch' = [batch EXCEPT ![w] = @ \ {m}]
                              /\ Handle(<<w, "claim">>, m)
    BY <1>6 DEF NextClaimed
  <2>3. m \in Msgs BY <1>0, <2>2 DEF LoopsOK
  <2>4. LoopsOK'
    BY <1>0, <1>6, <2>1, <2>2, <2>3, HandleType DEF NextClaimed, LoopsOK
  <2>5. QED BY <1>6, <2>4 DEF NextClaimed, TypeOK, StreamOK, RecordsOK
<1>7. ASSUME NEW w \in Worker, DeliveryLost(w) PROVE TypeOK'
  <2>1. StreamOK'
    BY <1>0, <1>7, DeliverType, TakeOverType DEF DeliveryLost
  <2>2. outages' \in 0 .. OutageBound
    BY <1>7, OutageType DEF DeliveryLost, TypeOK
  <2>3. QED BY <1>7, <2>1, <2>2 DEF DeliveryLost, TypeOK, LoopsOK, RecordsOK
<1>8. ASSUME NEW p \in Proc, Work(p) PROVE TypeOK'
  <2> USE <1>0
  <2>0. pc[p] # "poll" => msg[p] \in Msgs BY DEF LoopsOK, Msgs
  <2>1. CASE Result(p)
    <3>1. LoopsOK' BY <2>1, <2>0, GotoType DEF Result, LoopsOK, PCs, Calls
    <3>2. QED BY <2>1, <2>0, <3>1 DEF Result, TypeOK, StreamOK, RecordsOK
  <2>2. CASE Raise(p)
    <3>1. LoopsOK' BY <2>2, <2>0, GotoType DEF Raise, LoopsOK, PCs, Calls
    <3>2. QED BY <2>2, <2>0, <3>1 DEF Raise, TypeOK, StreamOK, RecordsOK
  <2>3. CASE Ack(p)
    <3>1. LoopsOK' BY <2>3, <2>0, GotoType DEF Ack, LoopsOK, PCs
    <3>2. StreamOK' BY <2>3, <2>0, AckedType DEF Ack
    <3>3. QED BY <2>3, <2>0, <3>1, <3>2 DEF Ack, TypeOK, RecordsOK
  <2>4. CASE CountRetry(p)
    <3>1. LoopsOK' BY <2>4, <2>0, GotoType DEF CountRetry, LoopsOK, PCs, Calls
    <3>2. retries' \in [Msgs -> Nat] BY <2>4, <2>0, RetriedType DEF CountRetry
    <3>3. QED BY <2>4, <2>0, <3>1, <3>2 DEF CountRetry, TypeOK, StreamOK, RecordsOK
  <2>5. CASE DeadLetter(p)
    <3>1. LoopsOK' BY <2>5, <2>0, GotoType DEF DeadLetter, LoopsOK, PCs, Calls
    <3>2. dead' \in [Msgs -> Nat] BY <2>5, <2>0, BuriedType DEF DeadLetter
    <3>3. QED BY <2>5, <2>0, <3>1, <3>2 DEF DeadLetter, TypeOK, StreamOK, RecordsOK
  <2>6. CASE AckDead(p)
    <3>1. LoopsOK' BY <2>6, <2>0, GotoType DEF AckDead, LoopsOK, PCs, Calls
    <3>2. StreamOK' BY <2>6, <2>0, AckedType DEF AckDead
    <3>3. QED BY <2>6, <2>0, <3>1, <3>2 DEF AckDead, TypeOK, RecordsOK
  <2>7. CASE ForgetRetries(p)
    <3>1. LoopsOK' BY <2>7, <2>0, GotoType DEF ForgetRetries, LoopsOK, PCs
    <3>2. QED BY <2>7, <2>0, <3>1 DEF ForgetRetries, TypeOK, StreamOK, RecordsOK
  <2>8. CASE Refused(p)
    <3>1. LoopsOK' BY <2>8, <2>0, GotoType DEF Refused, LoopsOK, PCs, Calls
    <3>2. outages' \in 0 .. OutageBound BY <2>8, <2>0, OutageType DEF Refused, TypeOK
    <3>3. QED BY <2>8, <2>0, <3>1, <3>2 DEF Refused, TypeOK, StreamOK, RecordsOK
  <2>9. CASE ReplyLost(p)
    <3>1. LoopsOK' BY <2>9, <2>0, GotoType DEF ReplyLost, LoopsOK, PCs
    <3>2. outages' \in 0 .. OutageBound BY <2>9, <2>0, OutageType DEF ReplyLost, TypeOK
    <3>3. retries' \in [Msgs -> Nat] /\ dead' \in [Msgs -> Nat]
      BY <2>9, <2>0, RetriedType, BuriedType DEF ReplyLost, RecordsOK
    <3>4. QED BY <2>9, <2>0, <3>1, <3>2, <3>3 DEF ReplyLost, TypeOK, StreamOK, RecordsOK
  <2>10. QED BY <1>8, <2>1, <2>2, <2>3, <2>4, <2>5, <2>6, <2>7, <2>8, <2>9 DEF Work
<1>9. ASSUME NEW m \in Msgs, Age(m) PROVE TypeOK'
  BY <1>9 DEF Age, TypeOK, StreamOK, LoopsOK, RecordsOK
<1>10. CASE UNCHANGED vars
  BY <1>10 DEF vars, TypeOK, StreamOK, LoopsOK, RecordsOK
<1>11. QED
  BY <1>1, <1>2, <1>3, <1>4, <1>5, <1>6, <1>7, <1>8, <1>9, <1>10 DEF Next

\* Every variable of the queue keeps its type, in particular the consumer
\* group's list holds only delivered entries.
THEOREM TypeCorrect == Spec => []TypeOK
<1>1. Init => TypeOK BY InitType
<1>2. TypeOK /\ [Next]_vars => TypeOK' BY NextType
<1>3. QED BY <1>1, <1>2, PTL DEF Spec

-----------------------------------------------------------------------------
(* Counting the loops that are about to make a call *)

LEMMA ProcFinite == IsFiniteSet(Proc)
<1>1. IsFiniteSet({"main"}) BY FS_Singleton
<1>2. IsFiniteSet({"main"} \cup {"claim"}) BY <1>1, FS_AddElement
<1>3. Loop = {"main"} \cup {"claim"} BY DEF Loop
<1>4. QED BY <1>2, <1>3, FS_Product, QueueAssumption DEF Proc

LEMMA AtFinite ==
  ASSUME NEW l, NEW m
  PROVE  IsFiniteSet(At(l, m)) /\ Cardinality(At(l, m)) \in Nat
<1>1. At(l, m) \in SUBSET Proc BY DEF At
<1>2. QED BY <1>1, ProcFinite, FS_Subset, FS_CardinalityType

\* A loop that goes on from one call to another is counted at the one it left
\* before the step and at the one it enters after it.
LEMMA GotoAt ==
  ASSUME LoopsOK, NEW p \in Proc, NEW l, Goto(p, l), l # pc[p],
         NEW x \in {"hincrby", "xadd_dead"}, NEW k \in Msgs
  PROVE  /\ Cardinality(At(x, k)') \in Nat
         /\ k = msg[p] /\ l = x =>
              Cardinality(At(x, k)') = Cardinality(At(x, k)) + 1
         /\ k = msg[p] /\ pc[p] = x =>
              Cardinality(At(x, k)') = Cardinality(At(x, k)) - 1
         /\ k # msg[p] \/ (l # x /\ pc[p] # x) =>
              Cardinality(At(x, k)') = Cardinality(At(x, k))
<1> USE AtFinite
<1>0. k # 0 /\ pc \in [Proc -> PCs] /\ msg \in [Proc -> 0 .. MaxMsgs]
  BY QueueAssumption DEF Msgs, LoopsOK
<1>1. Cardinality(At(x, k)') \in Nat
  <2>1. At(x, k)' \in SUBSET Proc BY DEF At
  <2>2. QED BY <2>1, ProcFinite, FS_Subset, FS_CardinalityType
<1>2. ASSUME k = msg[p], l = x
      PROVE  Cardinality(At(x, k)') = Cardinality(At(x, k)) + 1
  <2>1. At(x, k)' = At(x, k) \cup {p} /\ p \notin At(x, k)
    BY <1>0, <1>2 DEF At, Goto
  <2>2. QED BY <2>1, FS_AddElement
<1>3. ASSUME k = msg[p], pc[p] = x
      PROVE  Cardinality(At(x, k)') = Cardinality(At(x, k)) - 1
  <2>1. At(x, k)' = At(x, k) \ {p} /\ p \in At(x, k)
    BY <1>0, <1>3 DEF At, Goto
  <2>2. QED BY <2>1, FS_RemoveElement
<1>4. ASSUME k # msg[p] \/ (l # x /\ pc[p] # x)
      PROVE  At(x, k)' = At(x, k)
  BY <1>0, <1>4 DEF At, Goto
<1>5. QED BY <1>1, <1>2, <1>3, <1>4

\* A loop that starts on a message is counted nowhere before and after.
LEMMA HandleAt ==
  ASSUME LoopsOK, NEW p \in Proc, NEW m, Handle(p, m), pc[p] = "poll",
         NEW x \in {"hincrby", "xadd_dead"}, NEW k
  PROVE  At(x, k)' = At(x, k)
BY DEF LoopsOK, At, Handle

-----------------------------------------------------------------------------
(* Dead letters are paid for: the counting half of the invariant *)

Raised(k)  == Cardinality(At("hincrby", k))
Burying(k) == Cardinality(At("xadd_dead", k))

\* RetriesCounted and BurialsPaid for the message k.
Counted(k) ==
  /\ retries[k] + Raised(k) <= failures[k]
  /\ dead[k] + Burying(k) > 0 =>
       dead[k] + Burying(k) + Raised(k) + MaxRetries - 1 <= failures[k]

LEMMA CountedAll == RetriesCounted /\ BurialsPaid <=> \A k \in Msgs : Counted(k)
BY DEF RetriesCounted, BurialsPaid, Counted, Raised, Burying

LEMMA CountsTypes ==
  ASSUME TypeOK, NEW k \in Msgs
  PROVE  /\ retries[k] \in Nat /\ failures[k] \in Nat /\ dead[k] \in Nat
         /\ Raised(k) \in Nat /\ Burying(k) \in Nat /\ MaxRetries \in Nat \ {0}
BY QueueAssumption, AtFinite DEF TypeOK, RecordsOK, Raised, Burying

\* A step of a loop on its message keeps every message's counts in order.
LEMMA WorkCounted ==
  ASSUME TypeOK, NEW p \in Proc, Work(p), NEW k \in Msgs, Counted(k)
  PROVE  Counted(k)'
<1> DEFINE m == msg[p]
<1>0. /\ retries[k] \in Nat /\ failures[k] \in Nat /\ dead[k] \in Nat
      /\ Raised(k) \in Nat /\ Burying(k) \in Nat /\ MaxRetries \in Nat \ {0}
      /\ LoopsOK /\ RecordsOK
  BY CountsTypes DEF TypeOK
<1>r. ASSUME NEW l, Goto(p, l), l # pc[p]
      PROVE  /\ Raised(k)' \in Nat /\ Burying(k)' \in Nat
             /\ k = m /\ l = "hincrby" => Raised(k)' = Raised(k) + 1
             /\ k = m /\ pc[p] = "hincrby" => Raised(k)' = Raised(k) - 1
             /\ k # m \/ (l # "hincrby" /\ pc[p] # "hincrby") =>
                  Raised(k)' = Raised(k)
             /\ k = m /\ l = "xadd_dead" => Burying(k)' = Burying(k) + 1
             /\ k = m /\ pc[p] = "xadd_dead" => Burying(k)' = Burying(k) - 1
             /\ k # m \/ (l # "xadd_dead" /\ pc[p] # "xadd_dead") =>
                  Burying(k)' = Burying(k)
  BY <1>0, <1>r, GotoAt DEF Raised, Burying
<1>1. CASE Result(p)
  <2>1. Raised(k)' = Raised(k) /\ Burying(k)' = Burying(k)
    BY <1>1, <1>r DEF Result
  <2>2. QED BY <1>1, <2>1 DEF Result, Counted
<1>2. CASE Raise(p)
  <2>1. /\ Burying(k)' = Burying(k)
        /\ Raised(k)' = IF k = m THEN Raised(k) + 1 ELSE Raised(k)
    BY <1>2, <1>r DEF Raise
  <2>2. failures'[k] = IF k = m THEN failures[k] + 1 ELSE failures[k]
    BY <1>0, <1>2 DEF Raise, RecordsOK
  <2>3. QED BY <1>0, <1>2, <2>1, <2>2 DEF Raise, Counted
<1>3. CASE Ack(p)
  <2>1. Raised(k)' = Raised(k) /\ Burying(k)' = Burying(k)
    BY <1>3, <1>r DEF Ack
  <2>2. QED BY <1>3, <2>1 DEF Ack, Counted
<1>4. CASE CountRetry(p)
  <2>1. retries'[k] = IF k = m THEN retries[k] + 1 ELSE retries[k]
    BY <1>0, <1>4 DEF CountRetry, Retried, RecordsOK
  <2>2. Raised(k)' = IF k = m THEN Raised(k) - 1 ELSE Raised(k)
    BY <1>4, <1>r DEF CountRetry
  <2>3. Burying(k)' = IF k = m /\ Exhausted(k) THEN Burying(k) + 1 ELSE Burying(k)
    BY <1>4, <1>r DEF CountRetry
  <2>4. QED BY <1>0, <1>4, <2>1, <2>2, <2>3 DEF CountRetry, Counted, Exhausted
<1>5. CASE DeadLetter(p)
  <2>1. /\ Raised(k)' = Raised(k)
        /\ Burying(k)' = IF k = m THEN Burying(k) - 1 ELSE Burying(k)
    BY <1>5, <1>r DEF DeadLetter
  <2>2. dead'[k] = IF k = m THEN dead[k] + 1 ELSE dead[k]
    BY <1>0, <1>5 DEF DeadLetter, Buried, RecordsOK
  <2>3. QED BY <1>0, <1>5, <2>1, <2>2 DEF DeadLetter, Counted
<1>6. CASE AckDead(p)
  <2>1. Raised(k)' = Raised(k) /\ Burying(k)' = Burying(k)
    BY <1>6, <1>r DEF AckDead
  <2>2. QED BY <1>6, <2>1 DEF AckDead, Counted
<1>7. CASE ForgetRetries(p)
  <2>1. Raised(k)' = Raised(k) /\ Burying(k)' = Burying(k)
    BY <1>7, <1>r DEF ForgetRetries
  <2>2. retries'[k] = IF k = m THEN 0 ELSE retries[k]
    BY <1>0, <1>7 DEF ForgetRetries, RecordsOK
  <2>3. QED BY <1>0, <1>7, <2>1, <2>2 DEF ForgetRetries, Counted
<1>8. CASE Refused(p)
  <2>1. /\ Raised(k)' \in Nat /\ Raised(k)' <= Raised(k)
        /\ Burying(k)' \in Nat /\ Burying(k)' <= Burying(k)
    BY <1>0, <1>8, <1>r DEF Refused, Calls
  <2>2. QED BY <1>0, <1>8, <2>1 DEF Refused, Counted
<1>9. CASE ReplyLost(p)
  <2>1. CASE pc[p] = "hincrby" /\ Retried(m) /\ UNCHANGED dead
    <3>1. retries'[k] = IF k = m THEN retries[k] + 1 ELSE retries[k]
      BY <1>0, <2>1 DEF Retried, RecordsOK
    <3>2. /\ Raised(k)' = IF k = m THEN Raised(k) - 1 ELSE Raised(k)
          /\ Burying(k)' = Burying(k)
      BY <1>9, <2>1, <1>r DEF ReplyLost
    <3>3. QED BY <1>0, <1>9, <2>1, <3>1, <3>2 DEF ReplyLost, Counted
  <2>2. CASE pc[p] = "xadd_dead" /\ Buried(m) /\ UNCHANGED retries
    <3>1. dead'[k] = IF k = m THEN dead[k] + 1 ELSE dead[k]
      BY <1>0, <2>2 DEF Buried, RecordsOK
    <3>2. /\ Burying(k)' = IF k = m THEN Burying(k) - 1 ELSE Burying(k)
          /\ Raised(k)' = Raised(k)
      BY <1>9, <2>2, <1>r DEF ReplyLost
    <3>3. QED BY <1>0, <1>9, <2>2, <3>1, <3>2 DEF ReplyLost, Counted
  <2>3. QED BY <1>9, <2>1, <2>2 DEF ReplyLost
<1>10. QED
  BY <1>1, <1>2, <1>3, <1>4, <1>5, <1>6, <1>7, <1>8, <1>9 DEF Work

\* Every step keeps the counts in order: the other steps change no count and
\* only take loops away from their calls.
LEMMA NextCounted ==
  ASSUME TypeOK, [Next]_vars, \A k \in Msgs : Counted(k)
  PROVE  \A k \in Msgs : Counted(k)'
<1> SUFFICES ASSUME NEW k \in Msgs PROVE Counted(k)'
  OBVIOUS
<1>0. Counted(k) /\ LoopsOK BY DEF TypeOK
<1>1. ASSUME UNCHANGED <<pc, msg, retries, dead, failures>> PROVE Counted(k)'
  BY <1>0, <1>1 DEF Counted, Raised, Burying, At
<1>2. ASSUME NEW p \in Proc, NEW m, pc[p] = "poll", Handle(p, m),
             UNCHANGED <<retries, dead, failures>>
      PROVE  Counted(k)'
  <2>1. Raised(k)' = Raised(k) /\ Burying(k)' = Burying(k)
    BY <1>0, <1>2, HandleAt DEF Raised, Burying
  <2>2. QED BY <1>0, <1>2, <2>1 DEF Counted
<1>3. CASE Submit BY <1>1, <1>3 DEF Submit, loops
<1>4. ASSUME NEW w \in Worker, Start(w) \/ Claim(w) \/ DeliveryLost(w)
      PROVE  Counted(k)'
  BY <1>1, <1>4 DEF Start, Claim, DeliveryLost, loops
<1>5. ASSUME NEW w \in Worker, Stop(w) PROVE Counted(k)'
  <2>1. ASSUME NEW x \in {"hincrby", "xadd_dead"}
        PROVE  /\ Cardinality(At(x, k)') \in Nat
               /\ Cardinality(At(x, k)') <= Cardinality(At(x, k))
    <3>1. At(x, k)' \subseteq At(x, k) BY <1>5 DEF Stop, At
    <3>2. QED BY <3>1, AtFinite, FS_Subset, FS_CardinalityType
  <2>2. /\ Raised(k)' \in Nat /\ Raised(k)' <= Raised(k)
        /\ Burying(k)' \in Nat /\ Burying(k)' <= Burying(k)
    BY <2>1 DEF Raised, Burying
  <2>3. QED BY <1>0, <1>5, <2>2, CountsTypes DEF Stop, Counted
<1>6. ASSUME NEW w \in Worker, Read(w) \/ NextClaimed(w) PROVE Counted(k)'
  <2>1. <<w, "main">> \in Proc /\ <<w, "claim">> \in Proc BY DEF Proc, Loop
  <2>2. QED BY <1>2, <1>6, <2>1 DEF Read, NextClaimed
<1>7. ASSUME NEW p \in Proc, Work(p) PROVE Counted(k)'
  BY <1>0, <1>7, WorkCounted
<1>8. ASSUME NEW m \in Msgs, Age(m) PROVE Counted(k)'
  BY <1>1, <1>8 DEF Age, loops
<1>9. CASE UNCHANGED vars BY <1>1, <1>9 DEF vars
<1>10. QED BY <1>3, <1>4, <1>5, <1>6, <1>7, <1>8, <1>9 DEF Next

-----------------------------------------------------------------------------
(* No task is lost: the justifying half of the invariant *)

\* The queue may forget m.
Accounted(m) == m \in done \/ m \in NoTask \/ dead[m] > 0

\* LoopJustified for the loop p.
Justified(p) ==
  LET m == msg[p] IN
  /\ pc[p] = "poll" <=> m = 0
  /\ pc[p] # "poll" => m \in 1 .. cursor
  /\ pc[p] \in {"exec", "hincrby", "xadd_dead"} => m \notin NoTask
  /\ pc[p] = "ack" => m \in done \cup NoTask
  /\ pc[p] \in {"ack_dead", "hdel"} => dead[m] > 0

\* What justifies a loop never goes away.
Grows == /\ cursor \in Nat /\ cursor' \in Nat /\ cursor <= cursor'
         /\ done \subseteq done'
         /\ \A m \in Msgs : dead[m] > 0 => dead'[m] > 0

LEMMA NextGrows == ASSUME TypeOK, [Next]_vars PROVE Grows
<1> USE DEF stream, loops, counts
<1>0. StreamOK /\ RecordsOK /\ cursor \in Nat /\ cursor + 1 \in Nat
  BY Delivered DEF TypeOK
<1>1. UNCHANGED <<cursor, done, dead>> => Grows BY <1>0 DEF Grows, RecordsOK
<1>2. CASE Submit BY <1>1, <1>2 DEF Submit
<1>3. ASSUME NEW w \in Worker,
             Start(w) \/ Stop(w) \/ Read(w) \/ Claim(w) \/ NextClaimed(w) \/ DeliveryLost(w)
      PROVE  Grows
  BY <1>0, <1>1, <1>3
  DEF Start, Stop, Read, Claim, NextClaimed, DeliveryLost, Deliver, TakeOver, Grows, RecordsOK
<1>4. ASSUME NEW p \in Proc, Work(p) PROVE Grows
  <2>1. CASE DeadLetter(p) \/ ReplyLost(p)
    <3>1. msg[p] = msg[p] /\ (UNCHANGED dead \/ Buried(msg[p])) /\ UNCHANGED <<cursor, done>>
      BY <2>1 DEF DeadLetter, ReplyLost
    <3>2. ASSUME Buried(msg[p]), NEW m \in Msgs, dead[m] > 0 PROVE dead'[m] > 0
      BY <1>0, <3>2 DEF Buried, RecordsOK
    <3>3. QED BY <1>0, <1>1, <3>1, <3>2 DEF Grows
  <2>2. CASE Result(p) BY <1>0, <2>2 DEF Result, Grows
  <2>3. CASE Raise(p) \/ Ack(p) \/ CountRetry(p) \/ AckDead(p) \/ ForgetRetries(p) \/ Refused(p)
    BY <1>1, <2>3 DEF Raise, Ack, CountRetry, AckDead, ForgetRetries, Refused, Acked
  <2>4. QED BY <1>4, <2>1, <2>2, <2>3 DEF Work
<1>5. ASSUME NEW m \in Msgs, Age(m) PROVE Grows BY <1>1, <1>5 DEF Age
<1>6. CASE UNCHANGED vars BY <1>1, <1>6 DEF vars
<1>7. QED BY <1>2, <1>3, <1>4, <1>5, <1>6 DEF Next

\* A loop that does not move stays justified.
LEMMA Stays ==
  ASSUME TypeOK, Grows, NEW q \in Proc, Justified(q), pc'[q] = pc[q], msg'[q] = msg[q]
  PROVE  Justified(q)'
<1>1. 1 .. cursor \subseteq Msgs BY Delivered DEF TypeOK
<1>2. QED BY <1>1 DEF Grows, Justified

LEMMA WorkJustified ==
  ASSUME TypeOK, Grows, NEW p \in Proc, Work(p), \A q \in Proc : Justified(q)
  PROVE  \A q \in Proc : Justified(q)'
<1> SUFFICES ASSUME NEW q \in Proc PROVE Justified(q)'
  OBVIOUS
<1> DEFINE m == msg[p]
<1>0. /\ LoopsOK /\ RecordsOK /\ Justified(q) /\ Justified(p)
      /\ 1 .. cursor \subseteq Msgs
  BY Delivered DEF TypeOK
<1>1. ASSUME q # p, NEW l, Goto(p, l) PROVE Justified(q)'
  BY <1>0, <1>1, Stays DEF Goto, LoopsOK
<1>2. CASE q # p
  BY <1>1, <1>2
  DEF Work, Result, Raise, Ack, CountRetry, DeadLetter, AckDead, ForgetRetries,
      Refused, ReplyLost
<1>3. CASE q = p
  <2>1. ASSUME Goto(p, "poll") PROVE Justified(q)'
    BY <1>0, <1>3, <2>1 DEF Goto, LoopsOK, Justified
  <2>2. ASSUME NEW l \in PCs \ {"poll"}, Goto(p, l), pc[p] # "poll",
               m \in NoTask => pc[p] \notin {"exec", "hincrby", "xadd_dead"} /\ l # "xadd_dead"
                                 /\ l # "exec" /\ l # "hincrby",
               l = "ack" => m \in done' \cup NoTask,
               l \in {"ack_dead", "hdel"} => dead'[m] > 0
        PROVE  Justified(q)'
    <3>1. pc'[q] = l /\ msg'[q] = m /\ m \in 1 .. cursor /\ m # 0 /\ m \in 1 .. cursor'
      BY <1>0, <1>3, <2>2 DEF Goto, LoopsOK, Justified, Grows
    <3>2. QED BY <2>2, <3>1 DEF Justified
  <2>3. CASE Result(p) BY <1>0, <2>2, <2>3 DEF Result, Justified, PCs, Calls
  <2>4. CASE Raise(p) BY <1>0, <2>2, <2>4 DEF Raise, Justified, PCs, Calls
  <2>5. CASE Ack(p) BY <2>1, <2>5 DEF Ack
  <2>6. CASE CountRetry(p)
    BY <1>0, <2>1, <2>2, <2>6 DEF CountRetry, Justified, PCs, Calls
  <2>7. CASE DeadLetter(p)
    <3>1. m \in Msgs /\ m \notin NoTask /\ dead'[m] > 0
      BY <1>0, <2>7 DEF DeadLetter, Buried, Justified, RecordsOK
    <3>2. QED BY <1>0, <2>2, <2>7, <3>1 DEF DeadLetter, PCs, Calls
  <2>8. ASSUME pc[p] = "ack_dead", Goto(p, "hdel") PROVE Justified(q)'
    <3>1. dead'[m] > 0 BY <1>0, <2>8 DEF Justified, Grows
    <3>2. QED BY <1>0, <2>2, <2>8, <3>1 DEF PCs, Calls
  <2>9. CASE AckDead(p) \/ Refused(p) BY <2>1, <2>8, <2>9 DEF AckDead, Refused
  <2>10. CASE ForgetRetries(p) \/ ReplyLost(p)
    BY <2>1, <2>10 DEF ForgetRetries, ReplyLost
  <2>11. QED BY <2>3, <2>4, <2>5, <2>6, <2>7, <2>9, <2>10 DEF Work
<1>4. QED BY <1>2, <1>3

\* A loop that starts on a delivered message is justified in acknowledging it
\* when it carries no task, and in executing it otherwise.
LEMMA HandleJustified ==
  ASSUME TypeOK, Grows, NEW p \in Proc, NEW m \in 1 .. cursor', Handle(p, m),
         \A q \in Proc : Justified(q)
  PROVE  \A q \in Proc : Justified(q)'
<1> SUFFICES ASSUME NEW q \in Proc PROVE Justified(q)'
  OBVIOUS
<1>1. LoopsOK BY DEF TypeOK
<1>2. CASE q # p BY <1>1, <1>2, Stays DEF Handle, LoopsOK
<1>3. CASE q = p
  <2>1. msg'[q] = m /\ pc'[q] = IF m \in NoTask THEN "ack" ELSE "exec"
    BY <1>1, <1>3 DEF Handle, LoopsOK
  <2>2. m # 0 BY DEF Grows
  <2>3. QED BY <2>1, <2>2 DEF Justified
<1>4. QED BY <1>2, <1>3

LEMMA NextJustified ==
  ASSUME TypeOK, [Next]_vars, LoopJustified, BatchDelivered
  PROVE  LoopJustified' /\ BatchDelivered'
<1>0. /\ Grows /\ LoopsOK /\ StreamOK
      /\ \A q \in Proc : Justified(q)
      /\ LoopJustified' <=> \A q \in Proc : Justified(q)'
  BY NextGrows DEF TypeOK, LoopJustified, Justified
<1>b. UNCHANGED batch => BatchDelivered'
  BY <1>0 DEF BatchDelivered, Grows
<1>l. UNCHANGED <<pc, msg>> => LoopJustified'
  BY <1>0, Stays
<1>1. CASE Submit BY <1>1, <1>b, <1>l DEF Submit, loops
<1>2. ASSUME NEW w \in Worker, Start(w) \/ DeliveryLost(w)
      PROVE  LoopJustified' /\ BatchDelivered'
  BY <1>2, <1>b, <1>l DEF Start, DeliveryLost, loops
<1>3. ASSUME NEW w \in Worker, Stop(w)
      PROVE  LoopJustified' /\ BatchDelivered'
  <2>1. BatchDelivered' BY <1>0, <1>3 DEF Stop, BatchDelivered, LoopsOK
  <2>2. ASSUME NEW q \in Proc, q[1] = w PROVE Justified(q)'
    BY <1>3, <2>2 DEF Stop, Justified
  <2>3. ASSUME NEW q \in Proc, q[1] # w PROVE Justified(q)'
    BY <1>0, <1>3, <2>3, Stays DEF Stop
  <2>4. QED BY <1>0, <2>1, <2>2, <2>3
<1>4. ASSUME NEW w \in Worker, Read(w)
      PROVE  LoopJustified' /\ BatchDelivered'
  <2>1. <<w, "main">> \in Proc BY DEF Proc, Loop
  <2>2. cursor + 1 \in 1 .. cursor' BY <1>0, <1>4 DEF Read, Deliver, Grows
  <2>3. QED BY <1>0, <1>4, <1>b, <2>1, <2>2, HandleJustified DEF Read
<1>5. ASSUME NEW w \in Worker, Claim(w)
      PROVE  LoopJustified' /\ BatchDelivered'
  <2>1. FirstIdle \subseteq 1 .. cursor BY <1>0 DEF StreamOK, FirstIdle
  <2>2. BatchDelivered'
    BY <1>0, <1>5, <2>1 DEF Claim, TakeOver, BatchDelivered, LoopsOK
  <2>3. QED BY <1>5, <1>l, <2>2 DEF Claim
<1>6. ASSUME NEW w \in Worker, NextClaimed(w)
      PROVE  LoopJustified' /\ BatchDelivered'
  <2>1. <<w, "claim">> \in Proc BY DEF Proc, Loop
  <2>2. PICK m \in batch[w] : /\ batch' = [batch EXCEPT ![w] = @ \ {m}]
                              /\ Handle(<<w, "claim">>, m)
    BY <1>6 DEF NextClaimed
  <2>3. m \in 1 .. cursor' BY <1>0, <2>2 DEF BatchDelivered, Grows
  <2>4. BatchDelivered'
    BY <1>0, <1>6, <2>2 DEF NextClaimed, stream, BatchDelivered, LoopsOK
  <2>5. QED BY <1>0, <2>1, <2>2, <2>3, <2>4, HandleJustified
<1>7. ASSUME NEW p \in Proc, Work(p)
      PROVE  LoopJustified' /\ BatchDelivered'
  <2>1. UNCHANGED batch
    BY <1>7 DEF Work, Result, Raise, Ack, CountRetry, DeadLetter, AckDead,
                ForgetRetries, Refused, ReplyLost
  <2>2. QED BY <1>0, <1>7, <1>b, <2>1, WorkJustified
<1>8. ASSUME NEW m \in Msgs, Age(m)
      PROVE  LoopJustified' /\ BatchDelivered'
  BY <1>8, <1>b, <1>l DEF Age, loops
<1>9. CASE UNCHANGED vars BY <1>9, <1>b, <1>l DEF vars
<1>10. QED BY <1>1, <1>2, <1>3, <1>4, <1>5, <1>6, <1>7, <1>8, <1>9 DEF Next

-----------------------------------------------------------------------------
(* What a step closes *)

\* An acknowledgement closes the message, and closes no other.
LEMMA AckedCloses ==
  ASSUME StreamOK, NEW m \in 1 .. cursor, Acked(m)
  PROVE  Closed' = Closed \cup {m}
BY DEF StreamOK, Acked, Closed

\* A delivery leaves what is closed as it is.
LEMMA DeliverCloses ==
  ASSUME StreamOK, NEW w \in Worker, Deliver(w)
  PROVE  Closed' = Closed
BY Delivered DEF StreamOK, Deliver, Closed

\* A loop's step closes the message it acknowledges, which is accounted for;
\* every other step closes nothing.
LEMMA NextCloses ==
  ASSUME TypeOK, LoopJustified, [Next]_vars
  PROVE  \/ Closed' = Closed
         \/ \E p \in Proc : /\ Ack(p) \/ AckDead(p)
                            /\ msg[p] \in 1 .. cursor
                            /\ Accounted(msg[p])
                            /\ Closed' = Closed \cup {msg[p]}
<1> USE DEF stream, loops, counts
<1>0. StreamOK BY DEF TypeOK
<1>1. UNCHANGED <<cursor, pending>> => Closed' = Closed BY DEF Closed
<1>2. CASE Submit BY <1>1, <1>2 DEF Submit
<1>3. ASSUME NEW w \in Worker,
             Start(w) \/ Stop(w) \/ Read(w) \/ Claim(w) \/ NextClaimed(w) \/ DeliveryLost(w)
      PROVE  Closed' = Closed
  BY <1>0, <1>1, <1>3, DeliverCloses
  DEF Start, Stop, Read, Claim, NextClaimed, DeliveryLost, TakeOver
<1>4. ASSUME NEW p \in Proc, Ack(p) \/ AckDead(p)
      PROVE  /\ msg[p] \in 1 .. cursor
             /\ Accounted(msg[p])
             /\ Closed' = Closed \cup {msg[p]}
  <2>1. msg[p] \in 1 .. cursor /\ Accounted(msg[p])
    BY <1>4 DEF LoopJustified, Ack, AckDead, Accounted
  <2>2. QED BY <1>0, <1>4, <2>1, AckedCloses DEF Ack, AckDead
<1>5. ASSUME NEW p \in Proc, Work(p), ~ (Ack(p) \/ AckDead(p))
      PROVE  Closed' = Closed
  BY <1>1, <1>5
  DEF Work, Result, Raise, CountRetry, DeadLetter, ForgetRetries, Refused, ReplyLost
<1>6. ASSUME NEW m \in Msgs, Age(m) PROVE Closed' = Closed BY <1>1, <1>6 DEF Age
<1>7. CASE UNCHANGED vars BY <1>1, <1>7 DEF vars
<1>8. QED BY <1>2, <1>3, <1>4, <1>5, <1>6, <1>7 DEF Next

LEMMA NextLost ==
  ASSUME TypeOK, LoopJustified, [Next]_vars, NoTaskLost
  PROVE  NoTaskLost'
<1>0. Grows /\ Closed \subseteq Msgs /\ 1 .. cursor \subseteq Msgs
  BY NextGrows, Delivered DEF TypeOK, Closed
<1>1. ASSUME NEW m \in Closed' PROVE m \in Msgs /\ Accounted(m)
  BY <1>0, <1>1, NextCloses DEF NoTaskLost, Accounted
<1>2. QED BY <1>0, <1>1 DEF NoTaskLost, Accounted, Grows

-----------------------------------------------------------------------------
(* The inductive invariant and what follows from it *)

LEMMA InitInv == Init => IInv
<1> SUFFICES ASSUME Init PROVE IInv
  OBVIOUS
<1>1. TypeOK BY InitType
<1>2. NoTaskLost /\ LoopJustified /\ BatchDelivered
  BY DEF Init, NoTaskLost, Closed, LoopJustified, BatchDelivered, Proc
<1>3. ASSUME NEW k \in Msgs, NEW x \in {"hincrby", "xadd_dead"}
      PROVE  Cardinality(At(x, k)) = 0
  <2>1. At(x, k) = {} BY DEF Init, At
  <2>2. QED BY <2>1, FS_EmptySet
<1>4. RetriesCounted /\ BurialsPaid
  BY <1>3 DEF Init, RetriesCounted, BurialsPaid
<1>5. QED BY <1>1, <1>2, <1>4 DEF IInv

LEMMA NextInv == IInv /\ [Next]_vars => IInv'
<1> SUFFICES ASSUME IInv, [Next]_vars PROVE IInv'
  OBVIOUS
<1>1. TypeOK' BY NextType DEF IInv
<1>2. NoTaskLost' BY NextLost DEF IInv
<1>3. LoopJustified' /\ BatchDelivered' BY NextJustified DEF IInv
<1>4. \A k \in Msgs : Counted(k)' BY NextCounted, CountedAll DEF IInv
<1>5. RetriesCounted' /\ BurialsPaid'
  BY <1>4 DEF RetriesCounted, BurialsPaid, Counted, Raised, Burying
<1>6. QED BY <1>1, <1>2, <1>3, <1>5 DEF IInv

\* The strengthened invariant holds in every reachable state.
THEOREM InvariantHolds == Spec => []IInv
<1>1. QED BY InitInv, NextInv, PTL DEF Spec

\* A submitted task leaves the pending list only when an attempt at it came to
\* a result or it was dead-lettered: for any number of workers, any crashes,
\* claims of live messages and failing Redis calls.
THEOREM NothingLost == Spec => []NoTaskLost
<1>1. IInv => NoTaskLost BY DEF IInv
<1>2. QED BY <1>1, InvariantHolds, PTL

\* The first dead letter of a message takes MaxRetries raised attempts, and
\* each further one another.
THEOREM BurialsJustified == Spec => []DeadLettersPaid
<1>1. ASSUME IInv, NEW k \in Msgs, dead[k] > 0
      PROVE  dead[k] + MaxRetries - 1 <= failures[k]
  <2>1. TypeOK /\ Counted(k) BY <1>1, CountedAll DEF IInv
  <2>2. QED BY <1>1, <2>1, CountsTypes DEF Counted
<1>2. IInv => DeadLettersPaid BY <1>1 DEF DeadLettersPaid
<1>3. QED BY <1>2, InvariantHolds, PTL

-----------------------------------------------------------------------------
(* The worker queue implements the at-least-once contract *)

LEMMA InitRefines == Init => Contract!Init
BY DEF Init, Contract!Init, Submitted, Closed

\* A loop about to write a dead letter has MaxRetries raised attempts behind it.
LEMMA BurialDue ==
  ASSUME IInv, NEW p \in Proc, pc[p] = "xadd_dead"
  PROVE  msg[p] \in 1 .. cursor /\ msg[p] \in Msgs /\ failures[msg[p]] >= MaxRetries
<1> DEFINE m == msg[p]
<1>1. TypeOK /\ m \in 1 .. cursor /\ m \in Msgs
  BY Delivered DEF IInv, TypeOK, LoopJustified
<1>2. Counted(m) BY <1>1, CountedAll DEF IInv
<1>3. Burying(m) # 0
  <2>1. p \in At("xadd_dead", m) BY DEF At
  <2>2. IsFiniteSet(At("xadd_dead", m)) BY AtFinite
  <2>3. QED BY <2>1, <2>2, FS_EmptySet DEF Burying
<1>4. QED BY <1>1, <1>2, <1>3, CountsTypes DEF Counted

LEMMA NextRefines ==
  ASSUME IInv, [Next]_vars
  PROVE  [Contract!Next]_(Contract!vars)
<1> USE DEF stream, loops, counts, Contract!vars
<1>0. /\ TypeOK /\ StreamOK /\ LoopJustified
      /\ added \in Nat /\ cursor \in Nat /\ cursor <= added
      /\ 1 .. cursor \subseteq Msgs /\ 1 .. cursor \subseteq Submitted
  BY Delivered DEF IInv, TypeOK, Submitted
<1>s. UNCHANGED added => Submitted' = Submitted BY DEF Submitted
<1>c. UNCHANGED <<cursor, pending>> => Closed' = Closed BY DEF Closed
<1>1. CASE Submit
  <2>1. added + 1 \in Msgs /\ Submitted' = Submitted \cup {added + 1}
        /\ added + 1 \notin Submitted
    BY <1>0, <1>1, QueueAssumption DEF Submit, Submitted, Msgs
  <2>2. Contract!Submit(added + 1)
    BY <1>1, <1>c, <2>1 DEF Submit, Contract!Submit
  <2>3. QED BY <2>1, <2>2 DEF Contract!Next
<1>2. ASSUME NEW w \in Worker,
             Start(w) \/ Stop(w) \/ Read(w) \/ Claim(w) \/ NextClaimed(w) \/ DeliveryLost(w)
      PROVE  UNCHANGED Contract!vars
  BY <1>0, <1>2, <1>s, <1>c, DeliverCloses
  DEF Start, Stop, Read, Claim, NextClaimed, DeliveryLost, Deliver, TakeOver
<1>3. ASSUME NEW p \in Proc, Work(p) PROVE [Contract!Next]_(Contract!vars)
  <2> DEFINE m == msg[p]
  <2>0. pc[p] # "poll" => m \in 1 .. cursor /\ m \in Msgs /\ m \in Submitted
    BY <1>0 DEF LoopJustified
  <2>1. CASE Result(p)
    <3>1. Contract!Finish(m)
      BY <1>0, <2>0, <2>1, <1>s, <1>c DEF Result, LoopJustified, Contract!Finish
    <3>2. QED BY <2>0, <2>1, <3>1 DEF Result, Contract!Next
  <2>2. CASE Raise(p)
    <3>1. Contract!Raise(m)
      BY <1>0, <2>0, <2>2, <1>s, <1>c DEF Raise, LoopJustified, Contract!Raise
    <3>2. QED BY <2>0, <2>2, <3>1 DEF Raise, Contract!Next
  <2>3. CASE Ack(p) \/ AckDead(p)
    <3>1. m \in 1 .. cursor /\ Accounted(m)
      BY <1>0, <2>3 DEF LoopJustified, Ack, AckDead, Accounted
    <3>2. Closed' = Closed \cup {m}
      BY <1>0, <2>3, <3>1, AckedCloses DEF Ack, AckDead
    <3>3. Contract!Close(m)
      BY <1>0, <2>3, <3>1, <3>2, <1>s
      DEF Ack, AckDead, Acked, Accounted, Contract!Close, Contract!Accounted
    <3>4. QED BY <1>0, <3>1, <3>3 DEF Contract!Next
  <2>4. ASSUME pc[p] = "xadd_dead", Buried(m), UNCHANGED <<stream, failures, done>>
        PROVE  [Contract!Next]_(Contract!vars)
    <3>1. m \in Msgs /\ m \in Submitted /\ failures[m] >= MaxRetries
      BY <1>0, <2>4, BurialDue
    <3>2. Contract!DeadLetter(m)
      BY <2>4, <3>1, <1>s, <1>c DEF Buried, Contract!DeadLetter
    <3>3. QED BY <3>1, <3>2 DEF Contract!Next
  <2>5. CASE DeadLetter(p) BY <2>4, <2>5 DEF DeadLetter
  <2>6. CASE ReplyLost(p) BY <2>4, <2>6, <1>s, <1>c DEF ReplyLost
  <2>7. CASE CountRetry(p) \/ ForgetRetries(p) \/ Refused(p)
    BY <2>7, <1>s, <1>c DEF CountRetry, ForgetRetries, Refused
  <2>8. QED BY <1>3, <2>1, <2>2, <2>3, <2>5, <2>6, <2>7 DEF Work
<1>4. ASSUME NEW m \in Msgs, Age(m) PROVE UNCHANGED Contract!vars
  BY <1>4, <1>s, <1>c DEF Age
<1>5. CASE UNCHANGED vars BY <1>5, <1>s, <1>c DEF vars
<1>6. QED BY <1>1, <1>2, <1>3, <1>4, <1>5 DEF Next

\* Every behaviour of the workers is a behaviour of the at-least-once queue.
THEOREM Implements == Spec => Refinement
<1>1. QED BY InitRefines, NextRefines, InvariantHolds, PTL
      DEF Spec, Refinement, Contract!Spec
=============================================================================
