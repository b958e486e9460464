-------------------------- MODULE AgentLoopProofs --------------------------
(***************************************************************************)
(* Proofs about AgentLoop for any executions, tools and thresholds.        *)
(***************************************************************************)
EXTENDS AgentLoop, FiniteSetTheorems, SequenceTheorems, TLAPS

-----------------------------------------------------------------------------
(* Type correctness *)

\* An execution that is among its tool calls has one to make; a tool runs only for an
\* execution that waits for it.
Local(x) ==
  /\ pc[x] \in {"tools", "builtin", "mcp"} => todo[x] >= 1
  /\ current[x] # {} => pc[x] = "builtin"

\* What messages there can be.
Turns == 0 .. MaxIterations

\* The types of what an execution counts, and those of what it says.
CoreOK == /\ pc \in [Execs -> PCs]
          /\ iteration \in [Execs -> 0 .. MaxIterations]
          /\ todo \in [Execs -> 0 .. CallBound]
          /\ current \in [Execs -> SUBSET Tools]
          /\ history \in Seq(Call) /\ Len(history) <= HistorySize

TalkOK == /\ messages \in [Execs -> Seq(Turns)]
          /\ summary \in [Execs -> SUBSET Turns]
          /\ said \in [Execs -> SUBSET Turns]
          /\ fellback \in [Execs -> BOOLEAN]

LocalOK == \A x \in Execs : Local(x)

IInv == CoreOK /\ TalkOK /\ LocalOK

LEMMA Types == TypeOK <=> CoreOK /\ TalkOK
BY DEF TypeOK, CoreOK, TalkOK, Turns

\* A recorded call keeps the history to its size.
LEMMA RecordType ==
  ASSUME NEW h \in Seq(Call), Len(h) <= HistorySize, NEW c \in Call
  PROVE  Record(h, c) \in Seq(Call) /\ Len(Record(h, c)) <= HistorySize
<1>1. CASE Len(h) < HistorySize
  BY <1>1, LoopAssumption DEF Record
<1>2. CASE Len(h) >= HistorySize
  <2>1. h # << >> BY <1>2, LoopAssumption
  <2>2. Tail(h) \in Seq(Call) /\ Len(Tail(h)) = Len(h) - 1
    BY <2>1
  <2>3. QED BY <1>2, <2>2, LoopAssumption DEF Record
<1>3. QED BY <1>1, <1>2, LoopAssumption

LEMMA CompactType ==
  ASSUME TalkOK, NEW x \in Execs, NEW talked \in Seq(Turns), NEW fallback \in BOOLEAN,
         Compact(x, talked, fallback)
  PROVE  /\ messages' \in [Execs -> Seq(Turns)]
         /\ summary' \in [Execs -> SUBSET Turns]
         /\ fellback' \in [Execs -> BOOLEAN]
<1> DEFINE n == IF Len(talked) > KeepRecent THEN Len(talked) - KeepRecent ELSE 0
<1>1. n \in Nat /\ n <= Len(talked) /\ Len(talked) \in Nat
  BY LoopAssumption, LenProperties
<1>2. \A k \in 1 .. Len(talked) : talked[k] \in Turns
  BY ElementOfSeq
<1> HIDE DEF n
<1>3. SubSeq(talked, n + 1, Len(talked)) \in Seq(Turns)
  BY <1>1, <1>2, SubSeqProperties
<1>4. {talked[k] : k \in 1 .. n} \subseteq Turns
  BY <1>1, <1>2
<1>5. CASE n = 0
  BY <1>5 DEF Compact, TalkOK, n
<1>6. CASE n # 0
  <2>1. /\ messages' = [messages EXCEPT ![x] = SubSeq(talked, n + 1, Len(talked))]
        /\ summary' = [summary EXCEPT
                         ![x] = Compacted(summary[x], {talked[k] : k \in 1 .. n}, fallback)]
        /\ fellback' = [fellback EXCEPT ![x] = fellback[x] \/ fallback]
    BY <1>6 DEF Compact, n
  <2>2. Compacted(summary[x], {talked[k] : k \in 1 .. n}, fallback) \subseteq Turns
    BY <1>4 DEF Compacted, TalkOK
  <2>3. QED BY <1>3, <2>1, <2>2 DEF TalkOK
<1>7. QED BY <1>5, <1>6

\* A step of one execution leaves what the others count alone.
LEMMA OthersLocal ==
  ASSUME LocalOK, NEW x \in Execs, Local(x)',
         \A y \in Execs : y # x => /\ pc'[y] = pc[y] /\ todo'[y] = todo[y]
                                  /\ current'[y] = current[y]
  PROVE  LocalOK'
<1>1. \A y \in Execs : y # x => Local(y)' BY DEF LocalOK, Local
<1>2. QED BY <1>1 DEF LocalOK

LEMMA BeginInv ==
  ASSUME IInv, NEW x \in Execs, Begin(x)
  PROVE  IInv'
<1>1. CoreOK' /\ LocalOK'
  <2>1. CoreOK'
    BY LoopAssumption DEF IInv, CoreOK, LocalOK, Local, Begin, guard, PCs
  <2>2. LocalOK'
    <3>1. /\ pc'[x] = "ask" /\ current'[x] = {}
      BY LoopAssumption DEF IInv, CoreOK, LocalOK, Local, Begin, guard
    <3>2. Local(x)' BY <3>1 DEF Local
    <3>3. \A y \in Execs : y # x => /\ pc'[y] = pc[y] /\ todo'[y] = todo[y]
                                      /\ current'[y] = current[y]
      BY DEF IInv, CoreOK, Begin, guard
    <3>4. QED BY <3>2, <3>3, OthersLocal DEF IInv
  <2>3. QED BY <2>1, <2>2
<1>2. TalkOK'
  <2>1. 0 \in Turns BY LoopAssumption DEF Turns
  <2>2. <<0>> \in Seq(Turns) BY <2>1
  <2>3. QED BY <2>1, <2>2 DEF IInv, TalkOK, Begin
<1>3. QED BY <1>1, <1>2 DEF IInv

LEMMA EndInv ==
  ASSUME IInv, NEW x \in Execs, NEW how \in {"succeeded", "failed"}, End(x, how),
         history' \in Seq(Call), Len(history') <= HistorySize
  PROVE  IInv'
<1>1. CoreOK' /\ LocalOK'
  <2>1. CoreOK'
    BY LoopAssumption DEF IInv, CoreOK, LocalOK, Local, End, PCs
  <2>2. LocalOK'
    <3>1. /\ pc'[x] \in {"succeeded", "failed"} /\ current'[x] = {}
      BY LoopAssumption DEF IInv, CoreOK, LocalOK, Local, End
    <3>2. Local(x)' BY <3>1 DEF Local
    <3>3. \A y \in Execs : y # x => /\ pc'[y] = pc[y] /\ todo'[y] = todo[y]
                                      /\ current'[y] = current[y]
      BY DEF IInv, CoreOK, End
    <3>4. QED BY <3>2, <3>3, OthersLocal DEF IInv
  <2>3. QED BY <2>1, <2>2
<1>2. TalkOK'
  <2>1. << >> \in Seq(Turns) BY EmptySeq
  <2>2. QED BY <2>1 DEF IInv, TalkOK, End
<1>3. QED BY <1>1, <1>2 DEF IInv

LEMMA RaiseInv ==
  ASSUME IInv, NEW x \in Execs, Raise(x)
  PROVE  IInv'
<1>1. history' \in Seq(Call) /\ Len(history') <= HistorySize
  <2>1. CASE history' = history BY <2>1 DEF IInv, CoreOK
  <2>2. ASSUME NEW t \in current[x], NEW r \in Results,
               history' = Record(history, [tool |-> t, result |-> r])
        PROVE  history' \in Seq(Call) /\ Len(history') <= HistorySize
    <3>1. [tool |-> t, result |-> r] \in Call BY DEF IInv, CoreOK, Call
    <3>2. QED BY <2>2, <3>1, RecordType DEF IInv, CoreOK
  <2>3. QED BY <2>1, <2>2 DEF Raise
<1>2. QED BY <1>1, EndInv DEF Raise

\* A step that says nothing.
LEMMA SilentTalk ==
  ASSUME TalkOK, UNCHANGED talk
  PROVE  TalkOK'
BY DEF TalkOK, talk

LEMMA ToolCallsInv ==
  ASSUME IInv, NEW x \in Execs, ToolCalls(x)
  PROVE  IInv'
<1>1. PICK n \in 1 .. CallBound : todo' = [todo EXCEPT ![x] = n]
  BY DEF ToolCalls
<1>2. /\ pc' = [pc EXCEPT ![x] = "tools"]
      /\ UNCHANGED <<iteration, current, history>>
  BY DEF ToolCalls, guard
<1>3. CoreOK'
  BY <1>1, <1>2, LoopAssumption DEF IInv, CoreOK, PCs
<1>4. LocalOK'
  <2>1. current[x] = {}
    BY DEF IInv, CoreOK, LocalOK, Local, ToolCalls
  <2>2. /\ pc'[x] = "tools" /\ todo'[x] = n /\ current'[x] = current[x]
    BY <1>1, <1>2 DEF IInv, CoreOK
  <2>3. Local(x)' BY <2>1, <2>2 DEF Local
  <2>4. QED BY <1>1, <1>2, <2>3, OthersLocal DEF IInv, CoreOK
<1>5. QED BY <1>3, <1>4, SilentTalk DEF IInv, ToolCalls

LEMMA RunInv ==
  ASSUME IInv, NEW x \in Execs, NEW t \in Tools, Run(x, t)
  PROVE  IInv'
<1>1. CoreOK' /\ LocalOK'
  <2>1. CoreOK'
    BY DEF IInv, CoreOK, LocalOK, Local, Run, PCs
  <2>2. LocalOK'
    <3>1. /\ pc'[x] = "builtin" /\ todo'[x] >= 1
      BY LoopAssumption DEF IInv, CoreOK, LocalOK, Local, Run
    <3>2. Local(x)' BY <3>1 DEF Local
    <3>3. \A y \in Execs : y # x => /\ pc'[y] = pc[y] /\ todo'[y] = todo[y]
                                      /\ current'[y] = current[y]
      BY DEF IInv, CoreOK, Run
    <3>4. QED BY <3>2, <3>3, OthersLocal DEF IInv
  <2>3. QED BY <2>1, <2>2
<1>2. QED BY <1>1, SilentTalk DEF IInv, Run

LEMMA RanInv ==
  ASSUME IInv, NEW x \in Execs, NEW t \in Tools, NEW r \in Results, Ran(x, t, r)
  PROVE  IInv'
<1>1. [tool |-> t, result |-> r] \in Call BY DEF Call
<1>2. history' \in Seq(Call) /\ Len(history') <= HistorySize
  BY <1>1, RecordType DEF IInv, CoreOK, Ran
<1>3. todo[x] \in 1 .. CallBound
  BY DEF IInv, LocalOK, Local, CoreOK, Ran
<1>4. PICK n \in 0 .. CallBound, l \in {"tools", "final"} :
        /\ todo' = [todo EXCEPT ![x] = n]
        /\ pc' = [pc EXCEPT ![x] = l]
        /\ l = "tools" => n >= 1
  <2>1. todo[x] - 1 \in 0 .. CallBound /\ (todo[x] # 1 => todo[x] - 1 >= 1)
    BY <1>3, LoopAssumption
  <2>2. todo' = [todo EXCEPT ![x] = todo[x] - 1] BY DEF Ran, Onward
  <2>3. PICK l \in {"tools", "final"} :
          pc' = [pc EXCEPT ![x] = l] /\ (l = "tools" => todo[x] # 1)
    BY DEF Ran, Onward, AfterCalls
  <2>4. QED BY <2>1, <2>2, <2>3
<1>5. current' = [current EXCEPT ![x] = {}] /\ UNCHANGED <<iteration>>
  BY DEF Ran
<1>6. CoreOK'
  BY <1>2, <1>4, <1>5 DEF IInv, CoreOK, PCs
<1>7. LocalOK'
  <2>1. Local(x)'
    <3>1. pc[x] = "builtin"
      BY DEF IInv, LocalOK, Local, Ran
    <3>2. /\ pc'[x] = l /\ todo'[x] = n /\ current'[x] = {}
      BY <1>4, <1>5 DEF IInv, CoreOK
    <3>3. QED BY <1>4, <3>1, <3>2 DEF Local
  <2>2. QED BY <1>4, <1>5, <2>1, OthersLocal DEF IInv, CoreOK
<1>8. QED BY <1>6, <1>7, SilentTalk DEF IInv, Ran

\* A step from call to call, or to the model.
LEMMA GoOnInv ==
  ASSUME IInv, NEW x \in Execs, NEW n \in 0 .. CallBound, NEW l \in {"tools", "mcp", "final"},
         pc[x] \in {"tools", "mcp"}, l # "final" => n >= 1,
         todo' = [todo EXCEPT ![x] = n], pc' = [pc EXCEPT ![x] = l],
         UNCHANGED <<iteration, current, history, talk>>
  PROVE  IInv'
<1>1. CoreOK'
  BY DEF IInv, CoreOK, PCs
<1>2. LocalOK'
  <2>1. /\ pc'[x] = l /\ todo'[x] = n /\ current'[x] = {}
    BY DEF IInv, CoreOK, LocalOK, Local
  <2>2. Local(x)' BY <2>1 DEF Local
  <2>3. QED BY <2>2, OthersLocal DEF IInv, CoreOK
<1>3. QED BY <1>1, <1>2, SilentTalk DEF IInv

\* A call that is refused or not valid, or one of an MCP server.
LEMMA SkipInv ==
  ASSUME IInv, NEW x \in Execs,
         Invalid(x) \/ CallMcp(x) \/ McpReturns(x) \/ \E t \in Tools, r \in Results : Refuse(x, t, r)
  PROVE  IInv'
<1>1. /\ pc[x] \in {"tools", "mcp"}
      /\ UNCHANGED <<iteration, current, history, talk>>
      /\ \/ Onward(x)
         \/ pc' = [pc EXCEPT ![x] = "mcp"] /\ todo' = todo
  BY DEF Invalid, CallMcp, McpReturns, Refuse, NoteRefusal, guard
<1>2. todo[x] \in 1 .. CallBound
  BY <1>1, LoopAssumption DEF IInv, CoreOK, LocalOK, Local
<1>3. CASE pc' = [pc EXCEPT ![x] = "mcp"] /\ todo' = todo
  <2>1. todo' = [todo EXCEPT ![x] = todo[x]] BY <1>3 DEF IInv, CoreOK
  <2>2. todo[x] \in 0 .. CallBound /\ todo[x] >= 1 BY <1>2, LoopAssumption
  <2>3. QED BY <1>1, <1>3, <2>1, <2>2, GoOnInv
<1>4. CASE Onward(x)
  <2>1. todo[x] - 1 \in 0 .. CallBound /\ (todo[x] # 1 => todo[x] - 1 >= 1)
    BY <1>2, LoopAssumption
  <2>2. todo' = [todo EXCEPT ![x] = todo[x] - 1] BY <1>4 DEF Onward
  <2>3. CASE todo[x] = 1
    <3>1. pc' = [pc EXCEPT ![x] = "final"] BY <1>4, <2>3 DEF Onward, AfterCalls
    <3>2. QED BY <1>1, <2>1, <2>2, <3>1, GoOnInv
  <2>4. CASE todo[x] # 1
    <3>1. pc' = [pc EXCEPT ![x] = "tools"] BY <1>4, <2>4 DEF Onward
    <3>2. QED BY <1>1, <2>1, <2>2, <2>4, <3>1, GoOnInv
  <2>5. QED BY <2>3, <2>4
<1>5. QED BY <1>1, <1>3, <1>4

\* What the conversation comes to with the answer of an iteration.
Talked(x, text) == IF text THEN Append(messages[x], iteration[x]) ELSE messages[x]

LEMMA AnswerTalk ==
  ASSUME IInv, NEW x \in Execs, NEW text \in BOOLEAN, NEW full \in BOOLEAN, Answer(x, text, full)
  PROVE  TalkOK'
<1>1. iteration[x] \in Turns /\ messages[x] \in Seq(Turns)
  BY DEF IInv, CoreOK, TalkOK, Turns
<1>2. Talked(x, text) \in Seq(Turns)
  BY <1>1, AppendProperties DEF Talked
<1>3. /\ messages' \in [Execs -> Seq(Turns)]
      /\ summary' \in [Execs -> SUBSET Turns]
      /\ fellback' \in [Execs -> BOOLEAN]
  <2>1. CASE full
    <3>1. PICK fallback \in BOOLEAN : Compact(x, Talked(x, text), fallback)
      BY <2>1 DEF Answer, Talked
    <3>2. QED BY <1>2, <3>1, CompactType DEF IInv
  <2>2. CASE ~ full
    <3>1. /\ messages' = [messages EXCEPT ![x] = Talked(x, text)]
          /\ summary' = summary /\ fellback' = fellback
      BY <2>2 DEF Answer, Talked
    <3>2. QED BY <1>2, <3>1 DEF IInv, TalkOK
  <2>3. QED BY <2>1, <2>2
<1>4. said' \in [Execs -> SUBSET Turns]
  BY <1>1 DEF Answer, IInv, TalkOK
<1>5. QED BY <1>3, <1>4 DEF TalkOK

LEMMA AnswerInv ==
  ASSUME IInv, NEW x \in Execs, NEW text \in BOOLEAN, NEW full \in BOOLEAN, Answer(x, text, full)
  PROVE  IInv'
<1>1. /\ pc[x] \in {"ask", "final"} /\ iteration[x] < MaxIterations
      /\ pc' = [pc EXCEPT ![x] = "ask"]
      /\ iteration' = [iteration EXCEPT ![x] = @ + 1]
      /\ UNCHANGED <<todo, current, history>>
  BY DEF Answer, NextIteration, guard
<1>2. CoreOK' /\ LocalOK'
  <2>1. CoreOK'
    <3>1. iteration[x] + 1 \in 0 .. MaxIterations
      BY <1>1, LoopAssumption DEF IInv, CoreOK
    <3>2. iteration' \in [Execs -> 0 .. MaxIterations]
      BY <1>1, <3>1 DEF IInv, CoreOK
    <3>3. QED BY <1>1, <3>2 DEF IInv, CoreOK, PCs
  <2>2. LocalOK'
    <3>1. /\ pc'[x] = "ask" /\ current'[x] = {}
      BY <1>1, LoopAssumption DEF IInv, CoreOK, LocalOK, Local
    <3>2. Local(x)' BY <3>1 DEF Local
    <3>3. \A y \in Execs : y # x => /\ pc'[y] = pc[y] /\ todo'[y] = todo[y]
                                      /\ current'[y] = current[y]
      BY <1>1 DEF IInv, CoreOK
    <3>4. QED BY <3>2, <3>3, OthersLocal DEF IInv
  <2>3. QED BY <2>1, <2>2
<1>3. QED BY <1>2, AnswerTalk DEF IInv

LEMMA NextInv == IInv /\ [Next]_vars => IInv'
<1> SUFFICES ASSUME IInv, [Next]_vars PROVE IInv'
  OBVIOUS
<1>1. CASE UNCHANGED vars
  BY <1>1 DEF IInv, CoreOK, TalkOK, LocalOK, Local, vars, guard, talk
<1>2. ASSUME NEW x \in Execs, Succeed(x) PROVE IInv'
  BY <1>2, EndInv DEF Succeed, IInv, CoreOK
<1>3. ASSUME NEW x \in Execs, Advance(x) PROVE IInv'
  BY <1>2, <1>3, ToolCallsInv, RunInv, RanInv, SkipInv, AnswerInv DEF Advance
<1>4. QED BY <1>1, <1>3, BeginInv, RaiseInv DEF Next

LEMMA InitInv == Init => IInv
<1> SUFFICES ASSUME Init PROVE IInv
  OBVIOUS
<1>1. << >> \in Seq(Turns) /\ << >> \in Seq(Call) /\ Len(<< >>) = 0 BY EmptySeq
<1>2. CoreOK /\ LocalOK
  BY <1>1, LoopAssumption DEF Init, CoreOK, LocalOK, Local, PCs
<1>3. TalkOK BY <1>1 DEF Init, TalkOK
<1>4. QED BY <1>2, <1>3 DEF IInv

LEMMA InvHolds == Spec => []IInv
BY InitInv, NextInv, PTL DEF Spec

\* The history never outgrows its size, and an execution never its iterations.
THEOREM TypeCorrect == Spec => []TypeOK
<1>1. IInv => TypeOK BY Types DEF IInv
<1>2. QED BY <1>1, InvHolds, PTL

-----------------------------------------------------------------------------
(* LockedForGood *)

\* No step unlocks an agent, whatever its history.
LEMMA LockStep == IInv /\ [Next]_vars => (Locked => Locked')
<1> SUFFICES ASSUME IInv, [Next]_vars, Locked PROVE Locked'
  OBVIOUS
<1>1. history' = history
  <2>1. \A x \in Execs : pc[x] # "builtin" /\ current[x] = {}
    BY DEF Locked, IInv, LocalOK, Local
  <2>2. QED
    BY <2>1 DEF Next, Advance, Begin, Raise, ToolCalls, Invalid, CallMcp, McpReturns, Run, Ran,
                Refuse, NoteRefusal, Answer, Succeed, guard, vars
<1>2. \A x \in Execs : pc'[x] # "builtin"
  BY DEF Locked, IInv, CoreOK, Next, Advance, Begin, Raise, ToolCalls, Invalid, CallMcp, McpReturns,
         Run, Ran, Refuse, Answer, Succeed, End, Onward, AfterCalls, vars
<1>3. QED BY <1>1, <1>2 DEF Locked, Refused

\* An agent that the guard refuses while no call is under way is refused for ever.
THEOREM LockedForGoodHolds == Spec => LockedForGood
<1>1. IInv /\ [Next]_vars => [Locked => Locked']_vars
  BY LockStep
<1>2. QED BY <1>1, InvHolds, PTL DEF Spec, LockedForGood

-----------------------------------------------------------------------------
(* RunBound *)

\* What the last n calls with a new one have in common the last n - 1 before it had.
LEMMA RecordSame ==
  ASSUME NEW h \in Seq(Call), Len(h) <= HistorySize, NEW c \in Call,
         NEW n \in 2 .. HistorySize, SameTool(Record(h, c), n)
  PROVE  SameTool(h, n - 1)
<1>1. CASE Len(h) < HistorySize
  <2> DEFINE g == Append(h, c)
  <2>1. Len(h) \in Nat /\ Len(g) = Len(h) + 1 /\ \A i \in 1 .. Len(h) : g[i] = h[i]
    BY AppendProperties
  <2>2. SameTool(g, n) BY <1>1 DEF Record
  <2> HIDE DEF g
  <2>3. \A k \in 0 .. n - 2 : h[Len(h) - k] = g[Len(g) - (k + 1)] /\ k + 1 \in 0 .. n - 1
    BY <2>1, <2>2 DEF SameTool
  <2>4. Len(h) >= n - 1 BY <2>1, <2>2 DEF SameTool
  <2>5. \A k \in 0 .. n - 2 : h[Len(h) - k].tool = g[Len(g)].tool
    BY <2>2, <2>3 DEF SameTool
  <2>6. h[Len(h)].tool = g[Len(g)].tool
    <3>1. 0 \in 0 .. n - 2 /\ Len(h) - 0 = Len(h) BY <2>1
    <3>2. QED BY <2>5, <3>1
  <2>7. \A k \in 0 .. (n - 1) - 1 : h[Len(h) - k].tool = h[Len(h)].tool
    BY <2>1, <2>5, <2>6
  <2>8. QED BY <2>4, <2>7 DEF SameTool
<1>2. CASE Len(h) >= HistorySize
  <2> DEFINE f == Tail(h)
             g == Append(f, c)
  <2>1. Len(h) = HistorySize /\ h # << >> BY <1>2, LenProperties, LoopAssumption
  <2>2. f \in Seq(Call) /\ Len(f) = Len(h) - 1 /\ \A i \in 1 .. Len(f) : f[i] = h[i + 1]
    BY <2>1, HeadTailProperties
  <2>3. SameTool(g, n) BY <1>2, LoopAssumption, LenProperties DEF Record
  <2> HIDE DEF f
  <2>4. Len(g) = Len(f) + 1 /\ \A i \in 1 .. Len(f) : g[i] = f[i]
    BY <2>2, AppendProperties
  <2> HIDE DEF g
  <2>5. \A k \in 0 .. n - 2 : h[Len(h) - k] = g[Len(g) - (k + 1)] /\ k + 1 \in 0 .. n - 1
    <3> SUFFICES ASSUME NEW k \in 0 .. n - 2
                 PROVE  h[Len(h) - k] = g[Len(g) - (k + 1)] /\ k + 1 \in 0 .. n - 1
      OBVIOUS
    <3>1. Len(f) - k \in 1 .. Len(f) BY <2>1, <2>2, LoopAssumption
    <3>2. g[Len(f) - k] = f[Len(f) - k] /\ f[Len(f) - k] = h[(Len(f) - k) + 1]
      BY <2>2, <2>4, <3>1
    <3>3. Len(g) - (k + 1) = Len(f) - k /\ (Len(f) - k) + 1 = Len(h) - k
      BY <2>1, <2>2, <2>4, LoopAssumption
    <3>4. QED BY <3>2, <3>3
  <2>6. Len(h) >= n - 1 BY <2>1
  <2>7. \A k \in 0 .. n - 2 : h[Len(h) - k].tool = g[Len(g)].tool
    BY <2>3, <2>5 DEF SameTool
  <2>8. h[Len(h)].tool = g[Len(g)].tool
    <3>1. 0 \in 0 .. n - 2 /\ Len(h) - 0 = Len(h) BY <2>1, LoopAssumption
    <3>2. QED BY <2>7, <3>1
  <2>9. \A k \in 0 .. (n - 1) - 1 : h[Len(h) - k].tool = h[Len(h)].tool
    BY <2>1, <2>7, <2>8, LoopAssumption
  <2>10. QED BY <2>6, <2>9 DEF SameTool
<1>3. QED BY <1>1, <1>2, LenProperties, LoopAssumption

\* A run as long as the window looks like a ping-pong.
LEMMA SameIsPingPong ==
  ASSUME NEW h \in Seq(Call), NEW n \in 1 .. HistorySize, n >= PingWindow, SameTool(h, n)
  PROVE  PingPong(h)
<1>1. Len(h) >= PingWindow BY LenProperties, LoopAssumption DEF SameTool
<1>2. \A k \in 0 .. n - 1 : h[Len(h) - k].tool = h[Len(h)].tool BY DEF SameTool
<1>3. \A k \in 3 .. PingWindow - 1 : h[Len(h) - k].tool = h[Len(h) - k + 2].tool
  <2> SUFFICES ASSUME NEW k \in 3 .. PingWindow - 1
               PROVE  h[Len(h) - k].tool = h[Len(h) - k + 2].tool
    OBVIOUS
  <2>1. k \in 0 .. n - 1 /\ k - 2 \in 0 .. n - 1 BY LoopAssumption
  <2>2. Len(h) - (k - 2) = Len(h) - k + 2 BY LenProperties
  <2>3. QED BY <1>2, <2>1, <2>2
<1>4. QED BY <1>1, <1>3 DEF PingPong

\* The executions whose call is under way.
Busy == {x \in Execs : pc[x] = "builtin"}

\* A run of one tool can grow to the bound by the calls under way, and no further.
Slack == Guarded => \A n \in 1 .. HistorySize :
           n >= PingWindow /\ SameTool(history, n) =>
             n + Cardinality(Busy) <= PingWindow - 1 + Cardinality(Execs)

LEMMA BusyFinite == /\ IsFiniteSet(Busy) /\ Cardinality(Busy) \in Nat
                    /\ Cardinality(Execs) \in Nat /\ Cardinality(Busy) <= Cardinality(Execs)
BY LoopAssumption, FS_Subset, FS_CardinalityType DEF Busy

LEMMA FewerBusy ==
  ASSUME Busy' \subseteq Busy
  PROVE  Cardinality(Busy') \in Nat /\ Cardinality(Busy') <= Cardinality(Busy)
BY BusyFinite, FS_Subset, FS_CardinalityType

LEMMA OneLessBusy ==
  ASSUME NEW x \in Busy, Busy' \subseteq Busy \ {x}
  PROVE  Cardinality(Busy') \in Nat /\ Cardinality(Busy') <= Cardinality(Busy) - 1
<1>1. /\ IsFiniteSet(Busy \ {x})
      /\ Cardinality(Busy \ {x}) = Cardinality(Busy) - 1
  BY BusyFinite, FS_RemoveElement
<1>2. QED BY <1>1, FS_Subset, FS_CardinalityType

\* A step that records nothing and starts nothing.
LEMMA QuietSlack ==
  ASSUME Slack, history' = history, Busy' \subseteq Busy
  PROVE  Slack'
<1>1. Cardinality(Busy') \in Nat /\ Cardinality(Busy') <= Cardinality(Busy) BY FewerBusy
<1>2. QED BY <1>1, BusyFinite, LoopAssumption DEF Slack

\* A step that records the call of an execution.
LEMMA RecordSlack ==
  ASSUME IInv, Slack, NEW x \in Busy, Busy' \subseteq Busy \ {x},
         NEW c \in Call, history' = Record(history, c)
  PROVE  Slack'
<1> SUFFICES ASSUME Guarded, NEW n \in 1 .. HistorySize, n >= PingWindow, SameTool(history', n)
             PROVE  n + Cardinality(Busy') <= PingWindow - 1 + Cardinality(Execs)
  BY DEF Slack
<1>1. Cardinality(Busy') \in Nat /\ Cardinality(Busy') <= Cardinality(Busy) - 1 BY OneLessBusy
<1>2. CASE n = PingWindow
  BY <1>1, <1>2, BusyFinite, LoopAssumption
<1>3. CASE n > PingWindow
  <2>1. n \in 2 .. HistorySize /\ n - 1 \in 1 .. HistorySize /\ n - 1 >= PingWindow
    BY <1>3, LoopAssumption
  <2>2. SameTool(history, n - 1) BY <2>1, RecordSame DEF IInv, CoreOK
  <2>3. (n - 1) + Cardinality(Busy) <= PingWindow - 1 + Cardinality(Execs)
    BY <2>1, <2>2 DEF Slack
  <2>4. QED BY <1>1, <2>3, BusyFinite, LoopAssumption
<1>4. QED BY <1>2, <1>3, LoopAssumption

\* The guard lets a call run only while there is no run of the size of the window.
LEMMA RunSlack ==
  ASSUME IInv, NEW x \in Execs, NEW t \in Tools, Run(x, t)
  PROVE  Slack'
<1>1. history' = history /\ ~ Refused BY DEF Run
<1>2. Guarded => ~ PingPong(history) BY <1>1 DEF Refused
<1>3. Guarded => \A n \in 1 .. HistorySize : ~ (n >= PingWindow /\ SameTool(history, n))
  BY <1>2, SameIsPingPong DEF IInv, CoreOK
<1>4. QED BY <1>1, <1>3 DEF Slack

LEMMA NextSlack == IInv /\ Slack /\ [Next]_vars => Slack'
<1> SUFFICES ASSUME IInv, Slack, [Next]_vars PROVE Slack'
  OBVIOUS
<1>1. CASE UNCHANGED vars
  BY <1>1, QuietSlack DEF Busy, vars, guard
<1>2. ASSUME NEW x \in Execs, Begin(x) PROVE Slack'
  BY <1>2, QuietSlack DEF Begin, Busy, guard, IInv, CoreOK
<1>3. ASSUME NEW x \in Execs, Raise(x) PROVE Slack'
  <2>1. Busy' \subseteq Busy \ {x}
    BY <1>3 DEF Raise, End, Busy, IInv, CoreOK
  <2>2. CASE history' = history BY <2>1, <2>2, QuietSlack
  <2>3. ASSUME NEW t \in current[x], NEW r \in Results,
               history' = Record(history, [tool |-> t, result |-> r])
        PROVE  Slack'
    <3>1. x \in Busy BY DEF Busy, IInv, LocalOK, Local
    <3>2. [tool |-> t, result |-> r] \in Call BY DEF IInv, CoreOK, Call
    <3>3. QED BY <2>1, <2>3, <3>1, <3>2, RecordSlack
  <2>4. QED BY <1>3, <2>2, <2>3 DEF Raise
<1>4. ASSUME NEW x \in Execs, NEW t \in Tools, NEW r \in Results, Ran(x, t, r) PROVE Slack'
  <2>1. x \in Busy BY <1>4 DEF Ran, Busy
  <2>2. Busy' \subseteq Busy \ {x}
    BY <1>4 DEF Ran, Onward, AfterCalls, Busy, IInv, CoreOK
  <2>3. [tool |-> t, result |-> r] \in Call BY DEF Call
  <2>4. QED BY <1>4, <2>1, <2>2, <2>3, RecordSlack DEF Ran
<1>5. ASSUME NEW x \in Execs,
             \/ ToolCalls(x) \/ Invalid(x) \/ CallMcp(x) \/ McpReturns(x) \/ Succeed(x)
             \/ \E t \in Tools, r \in Results : Refuse(x, t, r)
             \/ \E text, full \in BOOLEAN : Answer(x, text, full)
      PROVE  Slack'
  <2>1. history' = history
    BY <1>5 DEF ToolCalls, Invalid, CallMcp, McpReturns, Succeed, Refuse, NoteRefusal, Answer, guard
  <2>2. Busy' \subseteq Busy
    BY <1>5 DEF ToolCalls, Invalid, CallMcp, McpReturns, Succeed, Refuse, Answer, End, Onward,
                AfterCalls, Busy, IInv, CoreOK
  <2>3. QED BY <2>1, <2>2, QuietSlack
<1>6. QED BY <1>1, <1>2, <1>3, <1>4, <1>5, RunSlack DEF Next, Advance

\* No tool is called more often in a row than the window and the other executions allow.
THEOREM RunBoundHolds == Spec => []RunBound
<1>1. Init => Slack
  <2> SUFFICES ASSUME Init PROVE Slack OBVIOUS
  <2>1. Len(history) = 0 BY EmptySeq DEF Init
  <2>2. \A n \in 1 .. HistorySize : ~ SameTool(history, n)
    BY <2>1, LoopAssumption DEF SameTool
  <2>3. QED BY <2>2 DEF Slack
<1>2. IInv /\ Slack /\ [Next]_vars => Slack' BY NextSlack
<1>3. Slack => RunBound
  <2> SUFFICES ASSUME Slack, Guarded, NEW n \in 1 .. HistorySize, SameTool(history, n)
               PROVE  n <= PingWindow - 1 + Cardinality(Execs)
    BY DEF RunBound
  <2>1. CASE n >= PingWindow BY <2>1, BusyFinite, LoopAssumption DEF Slack
  <2>2. CASE n < PingWindow BY <2>2, BusyFinite, LoopAssumption
  <2>3. QED BY <2>1, <2>2, LoopAssumption
<1>4. QED BY <1>1, <1>2, <1>3, InvHolds, PTL DEF Spec

-----------------------------------------------------------------------------
(* Remembered *)

\* Of all that was said the messages m are the newest, in order, and have none of those the
\* set covered stands for; the task is in one or the other, as is everything unless a
\* compaction fell back.
Recalls(m, covered, all, fell) ==
  /\ covered \subseteq all
  /\ \A k \in 1 .. Len(m) : m[k] \in all /\ m[k] \notin covered
  /\ \A j, k \in 1 .. Len(m) : j < k => m[j] < m[k]
  /\ \A v \in all : \/ \E k \in 1 .. Len(m) : m[k] = v
                    \/ Len(m) >= KeepRecent /\ \A k \in 1 .. Len(m) : v < m[k]
  /\ 0 \in all => 0 \in covered \/ \E k \in 1 .. Len(m) : m[k] = 0
  /\ ~ fell => \A v \in all : v \in covered \/ \E k \in 1 .. Len(m) : m[k] = v

LEMMA AppendRecalls ==
  ASSUME NEW m \in Seq(Turns), NEW covered, NEW all \in SUBSET Turns, NEW fell \in BOOLEAN,
         Recalls(m, covered, all, fell),
         NEW v \in Turns, \A w \in all : w < v
  PROVE  Recalls(Append(m, v), covered, all \cup {v}, fell)
<1> DEFINE g == Append(m, v)
           more == all \cup {v}
<1>1. /\ Len(m) \in Nat /\ Len(g) = Len(m) + 1
      /\ \A i \in 1 .. Len(m) : g[i] = m[i] /\ m[i] \in Turns
      /\ g[Len(m) + 1] = v
  BY AppendProperties, LenProperties, ElementOfSeq
<1>2. Turns \subseteq Int BY DEF Turns
<1>3. v \notin all BY <1>2
<1> HIDE DEF g
<1>4. \A k \in 1 .. Len(g) : k \in 1 .. Len(m) \/ k = Len(m) + 1 BY <1>1
<1>5. Len(g) \in 1 .. Len(g) /\ g[Len(g)] = v /\ 1 .. Len(m) \subseteq 1 .. Len(g) BY <1>1
<1>6. covered \subseteq more BY DEF Recalls
<1>7. \A k \in 1 .. Len(g) : g[k] \in more /\ g[k] \notin covered
  BY <1>1, <1>3, <1>4 DEF Recalls
<1>8. ASSUME NEW j \in 1 .. Len(g), NEW k \in 1 .. Len(g), j < k PROVE g[j] < g[k]
  <2>1. j \in 1 .. Len(m) BY <1>1, <1>8
  <2>2. CASE k \in 1 .. Len(m) BY <1>1, <1>8, <2>1, <2>2 DEF Recalls
  <2>3. CASE k = Len(m) + 1 BY <1>1, <2>1, <2>3 DEF Recalls
  <2>4. QED BY <1>4, <2>2, <2>3
<1>9. \A w \in all : (\E k \in 1 .. Len(m) : m[k] = w) => \E k \in 1 .. Len(g) : g[k] = w
  BY <1>1, <1>5
<1>10. ASSUME NEW w \in more
       PROVE  \/ \E k \in 1 .. Len(g) : g[k] = w
              \/ Len(g) >= KeepRecent /\ \A k \in 1 .. Len(g) : w < g[k]
  <2>1. CASE w = v BY <1>5, <2>1
  <2>2. CASE w \in all /\ \E k \in 1 .. Len(m) : m[k] = w BY <1>9, <2>2
  <2>3. CASE w \in all /\ Len(m) >= KeepRecent /\ \A k \in 1 .. Len(m) : w < m[k]
    <3>1. \A k \in 1 .. Len(g) : w < g[k] BY <1>1, <1>4, <2>3
    <3>2. Len(g) >= KeepRecent BY <1>1, <2>3, LoopAssumption
    <3>3. QED BY <3>1, <3>2
  <2>4. QED BY <2>1, <2>2, <2>3 DEF Recalls
<1>11. 0 \in more => 0 \in covered \/ \E k \in 1 .. Len(g) : g[k] = 0
  BY <1>5, <1>9 DEF Recalls
<1>12. ~ fell => \A w \in more : w \in covered \/ \E k \in 1 .. Len(g) : g[k] = w
  BY <1>5, <1>9 DEF Recalls
<1> HIDE DEF more
<1>13. Recalls(g, covered, more, fell)
  BY <1>6, <1>7, <1>8, <1>10, <1>11, <1>12 DEF Recalls
<1>14. QED BY <1>13 DEF g, more

LEMMA CompactRecalls ==
  ASSUME NEW m \in Seq(Turns), NEW covered, NEW all \in SUBSET Turns, NEW fell \in BOOLEAN,
         Recalls(m, covered, all, fell), NEW fallback \in BOOLEAN,
         NEW n \in 1 .. Len(m), Len(m) - n = KeepRecent
  PROVE  Recalls(SubSeq(m, n + 1, Len(m)),
                 Compacted(covered, {m[k] : k \in 1 .. n}, fallback), all, fell \/ fallback)
<1> DEFINE g == SubSeq(m, n + 1, Len(m))
           D == {m[k] : k \in 1 .. n}
           more == Compacted(covered, D, fallback)
<1>1. Len(m) \in Nat /\ \A i \in 1 .. Len(m) : m[i] \in Turns
  BY LenProperties, ElementOfSeq
<1>2. /\ Len(g) = Len(m) - n
      /\ \A i \in 1 .. Len(m) - n : g[i] = m[n + i]
  <2>1. /\ Len(g) = IF n + 1 <= Len(m) THEN Len(m) - (n + 1) + 1 ELSE 0
        /\ \A i \in 1 .. Len(m) - (n + 1) + 1 : g[i] = m[(n + 1) + i - 1]
    BY <1>1, SubSeqProperties
  <2>2. QED BY <1>1, <2>1
<1>3. Turns \subseteq Int BY DEF Turns
<1>4. /\ covered \subseteq more /\ more \subseteq covered \cup D
      /\ 0 \in D => 0 \in more
      /\ ~ fallback => D \subseteq more
  BY DEF Compacted
<1> HIDE DEF g, more
<1>5. \A k \in 1 .. Len(g) : n + k \in 1 .. Len(m) /\ g[k] = m[n + k]
  BY <1>1, <1>2
<1>6. ASSUME NEW i \in 1 .. n
      PROVE  /\ i \in 1 .. Len(m) /\ m[i] \in all
             /\ \A k \in 1 .. Len(g) : m[i] < g[k]
  <2>1. i \in 1 .. Len(m) BY <1>1
  <2>2. \A k \in 1 .. Len(g) : i < n + k BY <1>1, <1>2
  <2>3. QED BY <1>5, <2>1, <2>2 DEF Recalls
\* What was kept is kept, or is among the dropped.
<1>7. ASSUME NEW k \in 1 .. Len(m) PROVE m[k] \in D \/ \E j \in 1 .. Len(g) : g[j] = m[k]
  <2>1. CASE k <= n BY <2>1
  <2>2. CASE k > n
    <3>1. k - n \in 1 .. Len(g) /\ g[k - n] = m[k] BY <1>1, <1>2, <2>2
    <3>2. QED BY <3>1
  <2>3. QED BY <2>1, <2>2
<1>8. \A v \in D : v \in all /\ \A k \in 1 .. Len(g) : v < g[k] BY <1>6
<1> HIDE DEF D
<1>9. more \subseteq all BY <1>4, <1>8 DEF Recalls
<1>10. ASSUME NEW k \in 1 .. Len(g) PROVE g[k] \in all /\ g[k] \notin more
  <2>1. g[k] \in all /\ g[k] \notin covered BY <1>5 DEF Recalls
  <2>2. g[k] \notin D
    <3>1. g[k] \in Turns BY <2>1
    <3>2. g[k] \in Int BY <1>3, <3>1
    <3>3. ~ g[k] < g[k] BY <3>2
    <3>4. QED BY <1>8, <3>3
  <2>3. QED BY <1>4, <2>1, <2>2
<1>11. ASSUME NEW j \in 1 .. Len(g), NEW k \in 1 .. Len(g), j < k PROVE g[j] < g[k]
  <2>1. n + j < n + k BY <1>1, <1>2, <1>11
  <2>2. QED BY <1>5, <2>1 DEF Recalls
<1>12. ASSUME NEW v \in all
       PROVE  \/ \E k \in 1 .. Len(g) : g[k] = v
              \/ Len(g) >= KeepRecent /\ \A k \in 1 .. Len(g) : v < g[k]
  <2>1. Len(g) >= KeepRecent BY <1>2, LoopAssumption
  <2>2. CASE \E k \in 1 .. Len(m) : m[k] = v BY <1>7, <1>8, <2>1, <2>2
  <2>3. CASE \A k \in 1 .. Len(m) : v < m[k] BY <1>5, <2>1, <2>3
  <2>4. QED BY <2>2, <2>3 DEF Recalls
<1>13. 0 \in all => 0 \in more \/ \E k \in 1 .. Len(g) : g[k] = 0
  BY <1>4, <1>7 DEF Recalls
<1>14. ~ (fell \/ fallback) => \A v \in all : v \in more \/ \E k \in 1 .. Len(g) : g[k] = v
  BY <1>4, <1>7 DEF Recalls
<1>15. Recalls(g, more, all, fell \/ fallback)
  BY <1>9, <1>10, <1>11, <1>12, <1>13, <1>14 DEF Recalls
<1>16. QED BY <1>15 DEF g, more, D

\* What an execution keeps and what its summary stands for recall what it has said, all of
\* it before this iteration.
Memory(x) == /\ Recalls(messages[x], summary[x], said[x], fellback[x])
             /\ \A v \in said[x] : v < iteration[x]
             /\ pc[x] = "new" => said[x] = {}

AllMemory == \A x \in Execs : Memory(x)

\* A step of an execution leaves what the others said alone.
OnlyTalk(x) == \A y \in Execs : y # x =>
                 /\ messages'[y] = messages[y] /\ summary'[y] = summary[y] /\ said'[y] = said[y]
                 /\ fellback'[y] = fellback[y]
                 /\ pc'[y] = pc[y] /\ iteration'[y] = iteration[y]

LEMMA MemoryElsewhere ==
  ASSUME AllMemory, NEW x \in Execs, OnlyTalk(x), Memory(x)'
  PROVE  AllMemory'
BY DEF AllMemory, Memory, OnlyTalk

LEMMA SilentMemory ==
  ASSUME AllMemory, UNCHANGED <<talk, iteration>>, \A x \in Execs : pc'[x] = "new" => pc[x] = "new"
  PROVE  AllMemory'
BY DEF AllMemory, Memory, talk

LEMMA BeginMemory ==
  ASSUME IInv, AllMemory, NEW x \in Execs, Begin(x)
  PROVE  AllMemory'
<1>1. OnlyTalk(x) BY DEF Begin, OnlyTalk, IInv, CoreOK, TalkOK
<1>2. /\ messages'[x] = <<0>> /\ said'[x] = {0} /\ summary'[x] = summary[x]
      /\ fellback'[x] = fellback[x] /\ iteration'[x] = 1 /\ pc'[x] = "ask" /\ pc[x] = "new"
  BY DEF Begin, IInv, CoreOK, TalkOK
<1>3. summary[x] = {} BY <1>2 DEF AllMemory, Memory, Recalls
<1>4. Len(<<0>>) = 1 /\ <<0>>[1] = 0 OBVIOUS
<1>5. \A fell : Recalls(<<0>>, {}, {0}, fell) BY <1>4 DEF Recalls
<1>6. Memory(x)' BY <1>2, <1>3, <1>5 DEF Memory
<1>7. QED BY <1>1, <1>6, MemoryElsewhere

LEMMA EndMemory ==
  ASSUME IInv, AllMemory, NEW x \in Execs, NEW how \in {"succeeded", "failed"}, End(x, how)
  PROVE  AllMemory'
<1>1. OnlyTalk(x) BY DEF End, OnlyTalk, IInv, CoreOK, TalkOK
<1>2. /\ messages'[x] = << >> /\ said'[x] = {} /\ summary'[x] = {} /\ pc'[x] = how
  BY DEF End, IInv, CoreOK, TalkOK
<1>3. \A fell : Recalls(<< >>, {}, {}, fell)
  <2>1. Len(<< >>) = 0 BY EmptySeq
  <2>2. QED BY <2>1 DEF Recalls
<1>4. Memory(x)' BY <1>2, <1>3 DEF Memory
<1>5. QED BY <1>1, <1>4, MemoryElsewhere

LEMMA AnswerMemory ==
  ASSUME IInv, AllMemory, NEW x \in Execs, NEW text \in BOOLEAN, NEW full \in BOOLEAN,
         Answer(x, text, full)
  PROVE  AllMemory'
<1> DEFINE all == IF text THEN said[x] \cup {iteration[x]} ELSE said[x]
           t == Talked(x, text)
           n == IF Len(t) > KeepRecent THEN Len(t) - KeepRecent ELSE 0
<1>1. /\ iteration[x] \in Turns /\ messages[x] \in Seq(Turns) /\ iteration[x] \in Nat
      /\ said[x] \in SUBSET Turns /\ fellback[x] \in BOOLEAN
  BY LoopAssumption DEF IInv, CoreOK, TalkOK, Turns
<1>2. t \in Seq(Turns)
  BY <1>1, AppendProperties DEF Talked
<1>3. Recalls(t, summary[x], all, fellback[x])
  <2>1. Recalls(messages[x], summary[x], said[x], fellback[x])
    BY DEF AllMemory, Memory
  <2>2. \A w \in said[x] : w < iteration[x] BY DEF AllMemory, Memory
  <2>3. Recalls(Append(messages[x], iteration[x]), summary[x], said[x] \cup {iteration[x]},
                fellback[x])
    BY <1>1, <2>1, <2>2, AppendRecalls
  <2>4. QED BY <2>1, <2>3 DEF Talked
<1>4. said'[x] = all
  BY DEF Answer, IInv, TalkOK
<1>5. \A v \in all : v < iteration[x] + 1
  <2>1. \A v \in said[x] : v \in Int /\ v < iteration[x]
    BY DEF AllMemory, Memory, IInv, TalkOK, Turns
  <2>2. QED BY <1>1, <2>1
<1>6. iteration'[x] = iteration[x] + 1 /\ pc'[x] = "ask"
  BY DEF Answer, NextIteration, IInv, CoreOK
<1>7. all \in SUBSET Turns BY <1>1
<1> HIDE DEF all, t
<1>8. Recalls(messages'[x], summary'[x], all, fellback'[x])
  <2>1. CASE full = TRUE /\ n # 0
    <3>1. PICK fallback \in BOOLEAN : Compact(x, t, fallback)
      BY <2>1 DEF Answer, Talked, t
    <3>2. /\ messages'[x] = SubSeq(t, n + 1, Len(t))
          /\ summary'[x] = Compacted(summary[x], {t[k] : k \in 1 .. n}, fallback)
          /\ fellback'[x] = (fellback[x] \/ fallback)
      BY <2>1, <3>1 DEF Compact, IInv, TalkOK
    <3>3. n \in 1 .. Len(t) /\ Len(t) - n = KeepRecent
      BY <1>2, <2>1, LoopAssumption, LenProperties
    <3> HIDE DEF n
    <3>4. QED BY <1>1, <1>2, <1>3, <1>7, <3>2, <3>3, CompactRecalls
  <2>2. CASE full = FALSE \/ n = 0
    <3>1. messages'[x] = t /\ summary'[x] = summary[x] /\ fellback'[x] = fellback[x]
      BY <2>2 DEF Answer, Compact, Talked, t, IInv, TalkOK
    <3>2. QED BY <1>3, <3>1
  <2>3. QED BY <2>1, <2>2
<1>9. Memory(x)' BY <1>4, <1>5, <1>6, <1>8 DEF Memory
<1>10. OnlyTalk(x)
  BY DEF Answer, Compact, NextIteration, OnlyTalk, IInv, CoreOK, TalkOK
<1>11. QED BY <1>9, <1>10, MemoryElsewhere

LEMMA NextMemory == IInv /\ AllMemory /\ [Next]_vars => AllMemory'
<1> SUFFICES ASSUME IInv, AllMemory, [Next]_vars PROVE AllMemory'
  OBVIOUS
<1>1. CASE UNCHANGED vars
  BY <1>1, SilentMemory DEF vars, talk
<1>2. ASSUME NEW x \in Execs,
             \/ ToolCalls(x) \/ Invalid(x) \/ CallMcp(x) \/ McpReturns(x)
             \/ \E t \in Tools : Run(x, t)
             \/ \E t \in Tools, r \in Results : Ran(x, t, r) \/ Refuse(x, t, r)
      PROVE  AllMemory'
  <2>1. UNCHANGED <<talk, iteration>>
    BY <1>2 DEF ToolCalls, Invalid, CallMcp, McpReturns, Run, Ran, Refuse
  <2>2. \A y \in Execs : pc'[y] = "new" => pc[y] = "new"
    BY <1>2 DEF ToolCalls, Invalid, CallMcp, McpReturns, Run, Ran, Refuse, Onward, AfterCalls,
                IInv, CoreOK
  <2>3. QED BY <2>1, <2>2, SilentMemory
<1>3. ASSUME NEW x \in Execs, Raise(x) \/ Succeed(x) PROVE AllMemory'
  BY <1>3, EndMemory DEF Raise, Succeed
<1>4. QED BY <1>1, <1>2, <1>3, BeginMemory, AnswerMemory DEF Next, Advance

\* However often the conversation is compacted, with the model or without: the task and the
\* newest messages stay, and nothing is lost as long as the model has made the summaries.
THEOREM RememberedHolds == Spec => []Remembered
<1>1. Init => AllMemory
  <2> SUFFICES ASSUME Init PROVE AllMemory OBVIOUS
  <2>1. Len(<< >>) = 0 BY EmptySeq
  <2>2. QED BY <2>1 DEF Init, AllMemory, Memory, Recalls
<1>2. IInv /\ AllMemory /\ [Next]_vars => AllMemory' BY NextMemory
<1>3. IInv /\ AllMemory => Remembered
  <2> SUFFICES ASSUME IInv, AllMemory, NEW x \in Execs
               PROVE  LET kept == {messages[x][k] : k \in DOMAIN messages[x]} IN
                /\ kept \cup summary[x] \subseteq said[x] /\ kept \cap summary[x] = {}
                /\ 0 \in said[x] => 0 \in kept \cup summary[x]
                /\ \A m \in said[x] \ kept : \A n \in kept : m < n
                /\ said[x] # kept => Len(messages[x]) >= KeepRecent
                /\ ~ fellback[x] => kept \cup summary[x] = said[x]
    BY DEF Remembered
  <2>1. DOMAIN messages[x] = 1 .. Len(messages[x])
    BY LenProperties DEF IInv, TalkOK
  <2>2. Recalls(messages[x], summary[x], said[x], fellback[x])
    BY DEF AllMemory, Memory
  <2> DEFINE kept == {messages[x][k] : k \in DOMAIN messages[x]}
  <2>3. /\ \A v : v \in kept <=> \E k \in 1 .. Len(messages[x]) : messages[x][k] = v
        /\ \A k \in 1 .. Len(messages[x]) : messages[x][k] \in kept
    BY <2>1
  <2> HIDE DEF kept
  <2>4. kept \cup summary[x] \subseteq said[x] /\ kept \cap summary[x] = {}
    BY <2>2, <2>3 DEF Recalls
  <2>5. 0 \in said[x] => 0 \in kept \cup summary[x]
    BY <2>2, <2>3 DEF Recalls
  <2>6. ASSUME NEW v \in said[x] \ kept
        PROVE  Len(messages[x]) >= KeepRecent /\ \A w \in kept : v < w
    BY <2>2, <2>3 DEF Recalls
  <2>7. said[x] # kept => Len(messages[x]) >= KeepRecent
    BY <2>4, <2>6
  <2>8. ~ fellback[x] => kept \cup summary[x] = said[x]
    BY <2>2, <2>3, <2>4 DEF Recalls
  <2>9. QED BY <2>4, <2>5, <2>6, <2>7, <2>8 DEF kept
<1>4. QED BY <1>1, <1>2, <1>3, InvHolds, PTL DEF Spec

-----------------------------------------------------------------------------
(* Dwindles *)

\* The steps of one iteration at most, with the answer that ends it.
Per == 2 * CallBound + 3

\* The steps an execution has left in its iteration.
Left(l, n) == CASE l = "ask"                -> 2 * CallBound + 2
                [] l = "tools"              -> 2 * n + 1
                [] l \in {"builtin", "mcp"} -> 2 * n
                [] OTHER                    -> 0

LEMMA WorkIs == \A x \in Execs : Work(x) = (MaxIterations - iteration[x]) * Per + Left(pc[x], todo[x])
BY DEF Work, Per, Left

\* An iteration has the same number of steps wherever it is.
LEMMA OneIteration ==
  ASSUME NEW i \in Int, NEW k \in Int
  PROVE  (MaxIterations - i) * k = (MaxIterations - (i + 1)) * k + k
BY LoopAssumption

\* A step within an iteration.
LEMMA WithinDwindles ==
  ASSUME IInv, NEW x \in Execs, iteration'[x] = iteration[x],
         Left(pc'[x], todo'[x]) < Left(pc[x], todo[x]),
         Left(pc'[x], todo'[x]) \in Nat, Left(pc[x], todo[x]) \in Nat
  PROVE  Work(x)' < Work(x)
<1> DEFINE w == (MaxIterations - iteration[x]) * Per
<1>1. w \in Int BY LoopAssumption DEF IInv, CoreOK, Per
<1>2. Work(x) = w + Left(pc[x], todo[x]) BY WorkIs
<1>3. Work(x)' = w + Left(pc'[x], todo'[x]) BY DEF Work, Per, Left
<1> HIDE DEF w
<1>4. QED BY <1>1, <1>2, <1>3

\* What a step of an execution does to what it has left.
LEMMA StepDwindles ==
  ASSUME IInv, NEW x \in Execs, Advance(x), Running(x)'
  PROVE  Work(x)' < Work(x)
<1>1. CASE \E text, full \in BOOLEAN : Answer(x, text, full)
  <2>1. /\ iteration'[x] = iteration[x] + 1 /\ pc'[x] = "ask"
        /\ iteration[x] \in Nat /\ iteration[x] < MaxIterations
        /\ pc[x] \in {"ask", "final"}
    BY <1>1, LoopAssumption DEF Answer, NextIteration, IInv, CoreOK
  <2> DEFINE w == (MaxIterations - (iteration[x] + 1)) * Per
  <2>2. w \in Int /\ Per \in Int /\ Per = 2 * CallBound + 3
    BY <2>1, LoopAssumption DEF Per
  <2>3. (MaxIterations - iteration[x]) * Per = w + Per
    BY <2>1, <2>2, OneIteration
  <2>4. Work(x) = (w + Per) + Left(pc[x], todo[x])
    BY <2>3, WorkIs
  <2>5. Left(pc[x], todo[x]) >= 0 /\ Left(pc[x], todo[x]) \in Nat
    BY <2>1, LoopAssumption DEF Left
  <2>6. Work(x)' = w + (2 * CallBound + 2)
    BY <2>1 DEF Work, Per
  <2> HIDE DEF w
  <2>7. QED BY <2>2, <2>4, <2>5, <2>6, LoopAssumption
<1>2. CASE Succeed(x)
  BY <1>2 DEF Succeed, End, Running, IInv, CoreOK
<1>3. CASE ToolCalls(x)
  <2>1. /\ iteration'[x] = iteration[x] /\ pc[x] = "ask" /\ pc'[x] = "tools"
        /\ todo'[x] \in 1 .. CallBound
    BY <1>3 DEF ToolCalls, IInv, CoreOK
  <2>2. QED BY <2>1, WithinDwindles, LoopAssumption DEF Left
<1>4. CASE CallMcp(x) \/ \E t \in Tools : Run(x, t)
  <2>1. /\ iteration'[x] = iteration[x] /\ pc[x] = "tools" /\ pc'[x] \in {"mcp", "builtin"}
        /\ todo'[x] = todo[x] /\ todo[x] \in Nat
    BY <1>4, LoopAssumption DEF CallMcp, Run, IInv, CoreOK
  <2>2. QED BY <2>1, WithinDwindles, LoopAssumption DEF Left
<1>5. CASE \/ Invalid(x) \/ McpReturns(x)
           \/ \E t \in Tools, r \in Results : Ran(x, t, r) \/ Refuse(x, t, r)
  <2>1. /\ iteration'[x] = iteration[x] /\ pc[x] \in {"tools", "mcp", "builtin"}
        /\ Onward(x)
    BY <1>5 DEF Invalid, McpReturns, Ran, Refuse
  <2>2. todo[x] \in 1 .. CallBound
    BY <2>1, LoopAssumption DEF IInv, CoreOK, LocalOK, Local
  <2>3. todo'[x] = todo[x] - 1
    BY <2>1 DEF Onward, IInv, CoreOK
  <2>4. CASE todo[x] = 1
    <3>1. pc'[x] = "final" BY <2>1, <2>4 DEF Onward, AfterCalls, IInv, CoreOK
    <3>2. Left(pc'[x], todo'[x]) = 0 BY <3>1 DEF Left
    <3>3. Left(pc[x], todo[x]) \in Nat /\ Left(pc[x], todo[x]) > 0
      BY <2>1, <2>4 DEF Left
    <3>4. QED BY <2>1, <3>2, <3>3, WithinDwindles
  <2>5. CASE todo[x] # 1
    <3>1. pc'[x] = "tools" BY <2>1, <2>5 DEF Onward, IInv, CoreOK
    <3>2. Left(pc'[x], todo'[x]) = 2 * (todo[x] - 1) + 1 BY <2>3, <3>1 DEF Left
    <3>3. Left(pc[x], todo[x]) \in {2 * todo[x], 2 * todo[x] + 1}
      BY <2>1 DEF Left
    <3>4. QED BY <2>1, <2>2, <3>2, <3>3, WithinDwindles, LoopAssumption
  <2>6. QED BY <2>4, <2>5
<1>6. QED BY <1>1, <1>2, <1>3, <1>4, <1>5 DEF Advance

\* A call of execute_task has fewer steps to take with every step it takes.
THEOREM DwindlesHolds == Spec => Dwindles
<1> DEFINE Step(x) == /\ Running(x) /\ Running(x)'
                      /\ <<pc[x], iteration[x], todo[x]>>' # <<pc[x], iteration[x], todo[x]>>
<1>1. ASSUME IInv, [Next]_vars, NEW x \in Execs, Step(x) PROVE Work(x)' < Work(x)
  <2>1. PICK y \in Execs : Begin(y) \/ Raise(y) \/ Advance(y)
    BY <1>1 DEF Next, vars
  <2>2. y = x
    BY <1>1, <2>1
    DEF IInv, CoreOK, Begin, Raise, Advance, ToolCalls, Invalid, CallMcp, McpReturns, Run, Ran,
        Refuse, Answer, NextIteration, Succeed, End, Onward
  <2>3. ~ Begin(x) /\ ~ Raise(x)
    BY <1>1 DEF Begin, Raise, End, Running, IInv, CoreOK
  <2>4. QED BY <1>1, <2>1, <2>2, <2>3, StepDwindles
<1>2. IInv /\ [Next]_vars => [\A x \in Execs : Step(x) => Work(x)' < Work(x)]_vars
  BY <1>1
<1>3. QED BY <1>2, InvHolds, PTL DEF Spec, Dwindles
=============================================================================
