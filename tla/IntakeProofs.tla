---------------------------- MODULE IntakeProofs ----------------------------
(***************************************************************************)
(* Proofs about Intake for any messages, requests and failures.            *)
(***************************************************************************)
EXTENDS Intake, FiniteSetTheorems, TLAPS

-----------------------------------------------------------------------------
(* Type correctness *)

LEMMA InitType == Init => TypeOK
BY IntakeAssumption DEF Init, TypeOK, PCs, Results

\* Each step of a call or of a platform keeps the types.
LEMMA DeliverType ==
  ASSUME TypeOK, NEW c \in Calls, NEW m \in Messages,
         Deliver(c, m) \/ DeliverTwin(c, m) \/ AskAgain(c, m)
  PROVE  TypeOK'
BY IntakeAssumption DEF TypeOK, Deliver, DeliverTwin, AskAgain, Take, Goto, Extra, PCs

LEMMA GiveUpType ==
  ASSUME TypeOK, NEW m \in Messages, GiveUp(m)
  PROVE  TypeOK'
BY IntakeAssumption DEF TypeOK, GiveUp, Extra

LEMMA BeginType ==
  ASSUME TypeOK, NEW c \in Calls, Begin(c) \/ Create(c)
  PROVE  TypeOK'
BY IntakeAssumption DEF TypeOK, Begin, Create, Inside, Goto, PCs, Orchestrating

LEMMA AnalyzeType ==
  ASSUME TypeOK, NEW c \in Calls, NEW simple \in BOOLEAN, Analyze(c, simple)
  PROVE  TypeOK'
BY IntakeAssumption DEF TypeOK, Analyze, Inside, Goto, PCs, Orchestrating

LEMMA FindType ==
  ASSUME TypeOK, NEW c \in Calls, Find(c)
  PROVE  TypeOK'
BY IntakeAssumption DEF TypeOK, Find, Inside, Goto, PCs, Orchestrating, Results

LEMMA HireType ==
  ASSUME TypeOK, NEW c \in Calls, Hire(c)
  PROVE  TypeOK'
BY IntakeAssumption DEF TypeOK, Hire, Inside, Goto, PCs, Orchestrating, Results

LEMMA AssignType ==
  ASSUME TypeOK, NEW c \in Calls, Assign(c)
  PROVE  TypeOK'
BY IntakeAssumption DEF TypeOK, Assign, Enqueue, Extra, Inside, Goto, PCs, Orchestrating, Results

LEMMA ExecuteType ==
  ASSUME TypeOK, NEW c \in Calls, NEW s \in {"DONE", "FAILED"}, Execute(c, s)
  PROVE  TypeOK'
BY IntakeAssumption
DEF TypeOK, Execute, Outcome, Enqueue, Extra, Inside, Goto, PCs, Orchestrating, Results

LEMMA DecomposeType ==
  ASSUME TypeOK, NEW c \in Calls, NEW empty \in BOOLEAN, Decompose(c, empty)
  PROVE  TypeOK'
BY IntakeAssumption DEF TypeOK, Decompose, NoSubtasks, Inside, Goto, PCs, Orchestrating, Results

LEMMA RaiseType ==
  ASSUME TypeOK, NEW c \in Calls, Raise(c)
  PROVE  TypeOK'
BY IntakeAssumption DEF TypeOK, Raise, Extra, Inside, Goto, PCs, Orchestrating, Results

LEMMA AnnounceType ==
  ASSUME TypeOK, NEW c \in Calls, Announce(c) \/ AnnounceFails(c)
  PROVE  TypeOK'
BY IntakeAssumption
DEF TypeOK, Announce, Announced, AnnounceFails, Extra, Inside, Goto, PCs, Orchestrating, Results

\* A response to the platform.
LEMMA CloseType ==
  ASSUME TypeOK, NEW c \in Calls, NEW how \in {"due", "closed"}, Close(c, how)
  PROVE  inbox' \in [Messages -> {"new", "flight", "due", "closed"}]
BY DEF TypeOK, Close

LEMMA ReplyType ==
  ASSUME TypeOK, NEW c \in Calls, Reply(c)
  PROVE  TypeOK'
<1>1. inbox' \in [Messages -> {"new", "flight", "due", "closed"}]
  BY CloseType DEF Reply, Acknowledge
<1>2. QED
  BY <1>1, IntakeAssumption DEF TypeOK, Reply, Responding, Goto, PCs, Results

LEMMA UnheardType ==
  ASSUME TypeOK, NEW c \in Calls, pc[c] # "free", Extra, Unheard(c),
         NEW how \in {"due", "closed"}, Close(c, how)
  PROVE  TypeOK'
<1>1. inbox' \in [Messages -> {"new", "flight", "due", "closed"}]
  BY CloseType
<1>2. QED
  BY <1>1, IntakeAssumption DEF TypeOK, Unheard, Responding, Extra, Goto, PCs

LEMMA ReplyFailsType ==
  ASSUME TypeOK, NEW c \in Calls, NEW refused \in BOOLEAN, ReplyFails(c, refused)
  PROVE  TypeOK'
<1>1. CASE Unheard(c)
  <2>1. Extra /\ pc[c] # "free" BY DEF ReplyFails
  <2>2. \E how \in {"due", "closed"} : Close(c, how)
    BY <1>1 DEF ReplyFails, Unheard, Goto, TypeOK, PCs
  <2>3. QED BY <1>1, <2>1, <2>2, UnheardType
<1>2. CASE /\ result' = [result EXCEPT ![c] = "sorry"]
           /\ UNCHANGED <<kind, inbox, pc, of, task, queued, answer, unheard, late, twice>>
  <2>1. Extra BY DEF ReplyFails
  <2>2. QED BY <1>2, <2>1, IntakeAssumption DEF TypeOK, Extra, Results
<1>3. QED BY <1>1, <1>2 DEF ReplyFails

LEMMA CrashType ==
  ASSUME TypeOK, NEW c \in Calls, TypingFails(c) \/ Crash(c)
  PROVE  TypeOK'
BY UnheardType DEF TypingFails, Crash

LEMMA NextType == TypeOK /\ [Next]_vars => TypeOK'
<1> SUFFICES ASSUME TypeOK, [Next]_vars PROVE TypeOK'
  OBVIOUS
<1>1. CASE UNCHANGED vars
  BY <1>1 DEF TypeOK, vars
<1>2. ASSUME NEW c \in Calls, Handle(c) PROVE TypeOK'
  BY <1>2, BeginType, AnalyzeType, FindType, HireType, AssignType, ExecuteType, DecomposeType,
     AnnounceType, ReplyType
  DEF Handle
<1>3. QED
  BY <1>1, <1>2, DeliverType, GiveUpType, RaiseType, AnnounceType, CrashType, ReplyFailsType
  DEF Next

\* What the requests, tasks, agents and answers are stays of its kind.
THEOREM TypeCorrect == Spec => []TypeOK
<1>1. Init => TypeOK BY InitType
<1>2. TypeOK /\ [Next]_vars => TypeOK' BY NextType
<1>3. QED BY <1>1, <1>2, PTL DEF Spec

-----------------------------------------------------------------------------
(* Honest and NoSilentDrop *)

\* Where the task of a call has not been executed yet.
Before == {"free", "begin", "create", "analyze", "find", "hire", "assign", "execute", "decompose"}

\* What a call is about to answer, and what it has answered, says what became of its
\* task; a call that has ended without an answer could not give one.
Sound(c) ==
  /\ pc[c] \in Before => task[c] # "DONE"
  /\ pc[c] \in {"announce", "reply"} =>
       /\ result[c] # "none"
       /\ result[c] = "success" => task[c] = "DONE"
       /\ result[c] = "failure" => task[c] # "DONE"
  /\ pc[c] # "ended" => answer[c] = "none"
  /\ pc[c] = "ended" =>
       /\ answer[c] = "success" => task[c] = "DONE"
       /\ answer[c] = "failure" => task[c] # "DONE"
       /\ answer[c] = "none" => c \in unheard

AllSound == \A c \in Calls : Sound(c)

\* A step in which no call but c goes on.
OnlyCall(c) ==
  /\ \A b \in Calls : b # c =>
       /\ pc'[b] = pc[b] /\ task'[b] = task[b]
       /\ result'[b] = result[b] /\ answer'[b] = answer[b]
  /\ unheard \subseteq unheard'

LEMMA SoundElsewhere ==
  ASSUME AllSound, NEW c \in Calls, OnlyCall(c), Sound(c)'
  PROVE  AllSound'
BY DEF AllSound, Sound, OnlyCall

LEMMA DeliverSound ==
  ASSUME TypeOK, AllSound, NEW c \in Calls, NEW m \in Messages,
         Deliver(c, m) \/ DeliverTwin(c, m) \/ AskAgain(c, m)
  PROVE  AllSound'
<1>1. Take(c, m) BY DEF Deliver, DeliverTwin, AskAgain
<1>2. OnlyCall(c) BY <1>1 DEF Take, Goto, OnlyCall, TypeOK
<1>3. Sound(c)' BY <1>1 DEF Take, Goto, TypeOK, AllSound, Sound, Before
<1>4. QED BY <1>2, <1>3, SoundElsewhere

LEMMA InsideSound ==
  ASSUME TypeOK, AllSound, NEW c \in Calls,
         \/ Begin(c) \/ Create(c) \/ Assign(c)
         \/ \E simple \in BOOLEAN : Analyze(c, simple)
         \/ Find(c) \/ Hire(c)
  PROVE  AllSound'
<1>1. OnlyCall(c)
  BY DEF Begin, Create, Assign, Analyze, Find, Hire, Inside, Goto, OnlyCall, TypeOK
<1>2. Sound(c)'
  BY DEF Begin, Create, Assign, Analyze, Find, Hire, Inside, Goto, TypeOK, AllSound, Sound, Before
<1>3. QED BY <1>1, <1>2, SoundElsewhere

LEMMA OutcomeSound ==
  ASSUME TypeOK, AllSound, NEW c \in Calls,
         \/ \E s \in {"DONE", "FAILED"} : Execute(c, s)
         \/ \E empty \in BOOLEAN : Decompose(c, empty)
         \/ Raise(c)
  PROVE  AllSound'
<1>1. OnlyCall(c)
  BY DEF Execute, Decompose, Raise, Inside, Goto, OnlyCall, TypeOK
<1>2. Sound(c)'
  BY DEF Execute, Outcome, Decompose, NoSubtasks, Raise, Inside, Goto, TypeOK, AllSound, Sound,
         Before, Orchestrating
<1>3. QED BY <1>1, <1>2, SoundElsewhere

LEMMA AnnounceSound ==
  ASSUME TypeOK, AllSound, NEW c \in Calls, Announce(c) \/ AnnounceFails(c)
  PROVE  AllSound'
<1>1. OnlyCall(c)
  BY DEF Announce, Announced, AnnounceFails, Inside, Goto, OnlyCall, TypeOK
<1>2. Sound(c)'
  BY DEF Announce, Announced, AnnounceFails, Inside, Goto, TypeOK, AllSound, Sound, Before
<1>3. QED BY <1>1, <1>2, SoundElsewhere

LEMMA ReplySound ==
  ASSUME TypeOK, AllSound, NEW c \in Calls, Reply(c)
  PROVE  AllSound'
<1>1. OnlyCall(c)
  BY DEF Reply, Responding, Goto, OnlyCall, TypeOK
<1>2. Sound(c)'
  BY DEF Reply, Responding, Goto, TypeOK, AllSound, Sound, Before
<1>3. QED BY <1>1, <1>2, SoundElsewhere

LEMMA UnheardSound ==
  ASSUME TypeOK, AllSound, NEW c \in Calls, pc[c] # "ended", Unheard(c)
  PROVE  AllSound'
<1>1. OnlyCall(c)
  BY DEF Unheard, Responding, Goto, OnlyCall, TypeOK
<1>2. Sound(c)'
  BY DEF Unheard, Responding, Goto, TypeOK, AllSound, Sound, Before
<1>3. QED BY <1>1, <1>2, SoundElsewhere

LEMMA ReplyFailsSound ==
  ASSUME TypeOK, AllSound, NEW c \in Calls, NEW refused \in BOOLEAN, ReplyFails(c, refused)
  PROVE  AllSound'
<1>1. pc[c] = "reply" BY DEF ReplyFails
<1>2. CASE Unheard(c)
  BY <1>1, <1>2, UnheardSound
<1>3. CASE /\ result' = [result EXCEPT ![c] = "sorry"]
           /\ UNCHANGED <<kind, inbox, pc, of, task, queued, answer, unheard, late, twice>>
  <2>1. OnlyCall(c) BY <1>3 DEF OnlyCall, TypeOK
  <2>2. Sound(c)' BY <1>1, <1>3 DEF AllSound, Sound, TypeOK, Before
  <2>3. QED BY <2>1, <2>2, SoundElsewhere
<1>4. QED BY <1>2, <1>3 DEF ReplyFails

LEMMA NextSound == TypeOK /\ AllSound /\ [Next]_vars => AllSound'
<1> SUFFICES ASSUME TypeOK, AllSound, [Next]_vars PROVE AllSound'
  OBVIOUS
<1>1. CASE UNCHANGED vars
  BY <1>1 DEF AllSound, Sound, vars
<1>2. ASSUME NEW m \in Messages, GiveUp(m) PROVE AllSound'
  BY <1>2 DEF GiveUp, AllSound, Sound
<1>3. ASSUME NEW c \in Calls, Handle(c) PROVE AllSound'
  BY <1>3, InsideSound, OutcomeSound, AnnounceSound, ReplySound DEF Handle
<1>4. ASSUME NEW c \in Calls, TypingFails(c) \/ Crash(c) PROVE AllSound'
  BY <1>4, UnheardSound DEF TypingFails, Crash
<1>5. QED
  BY <1>1, <1>2, <1>3, <1>4, DeliverSound, OutcomeSound, AnnounceSound, ReplyFailsSound DEF Next

LEMMA InitSound == Init => AllSound
BY DEF Init, AllSound, Sound, Before

THEOREM SoundHolds == Spec => []AllSound
<1>1. Init => AllSound BY InitSound
<1>2. TypeOK /\ AllSound /\ [Next]_vars => AllSound' BY NextSound
<1>3. QED BY <1>1, <1>2, TypeCorrect, PTL DEF Spec

\* Nobody is told of a success that was none, nor of a failure that was a success.
THEOREM HonestHolds == Spec => []Honest
<1>1. AllSound => Honest
  BY DEF AllSound, Sound, Honest
<1>2. QED BY <1>1, SoundHolds, PTL

\* A task that nobody executes is one that its sender was told of, or could not be.
THEOREM NoSilentDropHolds == Spec => []NoSilentDrop
<1>1. TypeOK /\ AllSound => NoSilentDrop
  BY DEF AllSound, Sound, NoSilentDrop, TypeOK, Results
<1>2. QED BY <1>1, TypeCorrect, SoundHolds, PTL

-----------------------------------------------------------------------------
(* NotRepeated *)

\* A request that ended without a result for its sender.
Bad(c) == pc[c] = "ended" /\ answer[c] \in {"none", "sorry"}

\* A message that came once and was waited for is asked of nobody before it is sent,
\* and is sent again, or has been, only when a request for it went bad.
Once(m) ==
  /\ inbox[m] = "new" => \A c \in Calls : m \notin of[c]
  /\ inbox[m] = "due" => \E c \in Calls : m \in of[c] /\ Bad(c)
  /\ \A b, c \in Calls : b # c /\ m \in of[b] /\ m \in of[c] =>
       \E x \in Calls : m \in of[x] /\ Bad(x)

AllOnce == \A m \in Messages \ (late \cup twice) : Once(m)

\* What has gone bad stays so, and no message is forgotten to be late or to come twice.
Firm == /\ \A x \in Calls : Bad(x) => Bad(x)' /\ of'[x] = of[x]
        /\ late \subseteq late' /\ twice \subseteq twice'

\* A step of a call that may give the platform a response.
Responds(c) ==
  /\ Firm /\ of' = of
  /\ \A m \in Messages :
       \/ inbox'[m] = inbox[m]
       \/ inbox'[m] = "closed"
       \/ inbox'[m] = "due" /\ m \in of[c] /\ Bad(c)'

LEMMA RespondsOnce ==
  ASSUME AllOnce, NEW c \in Calls, Responds(c)
  PROVE  AllOnce'
<1> SUFFICES ASSUME NEW m \in Messages, m \notin late' \cup twice' PROVE Once(m)'
  BY DEF AllOnce
<1>1. Once(m) BY DEF AllOnce, Responds, Firm
<1>2. inbox'[m] = "new" => \A x \in Calls : m \notin of'[x]
  BY <1>1 DEF Once, Responds
<1>3. inbox'[m] = "due" => \E x \in Calls : m \in of'[x] /\ Bad(x)'
  BY <1>1 DEF Once, Responds, Firm
<1>4. \A a, b \in Calls : a # b /\ m \in of'[a] /\ m \in of'[b] =>
        \E x \in Calls : m \in of'[x] /\ Bad(x)'
  BY <1>1 DEF Once, Responds, Firm
<1>5. QED BY <1>2, <1>3, <1>4 DEF Once

LEMMA TakeOnce ==
  ASSUME TypeOK, AllSound, AllOnce, NEW c \in Calls, NEW n \in Messages,
         Deliver(c, n) \/ DeliverTwin(c, n) \/ AskAgain(c, n)
  PROVE  AllOnce'
<1> SUFFICES ASSUME NEW m \in Messages, m \notin late' \cup twice' PROVE Once(m)'
  BY DEF AllOnce
<1>1. /\ Take(c, n) /\ pc[c] = "free"
      /\ late' = late /\ twice \subseteq twice' /\ answer' = answer
      /\ of' = [of EXCEPT ![c] = {n}] /\ pc' = [pc EXCEPT ![c] = "begin"]
  BY DEF Deliver, DeliverTwin, AskAgain, Take, Goto
<1>2. Once(m) BY <1>1 DEF AllOnce
<1>3. \A x \in Calls : Bad(x) => Bad(x)' /\ of'[x] = of[x]
  BY <1>1 DEF Bad, TypeOK
<1>4. CASE m # n
  <2>1. inbox'[m] = inbox[m]
    BY <1>4 DEF Deliver, DeliverTwin, AskAgain, TypeOK
  <2>2. \A x \in Calls : m \in of'[x] => m \in of[x]
    BY <1>1, <1>4 DEF TypeOK
  <2>3. QED BY <1>2, <1>3, <2>1, <2>2 DEF Once
<1>5. CASE m = n
  <2>1. inbox'[m] = "flight"
    BY <1>5 DEF Deliver, DeliverTwin, AskAgain, TypeOK
  <2>2. \/ \A x \in Calls : m \notin of[x]
        \/ \E x \in Calls : m \in of[x] /\ Bad(x)
    <3>1. CASE Deliver(c, n)
      BY <1>2, <1>5, <3>1 DEF Deliver, Once
    <3>2. CASE DeliverTwin(c, n)
      BY <1>5, <3>2 DEF DeliverTwin
    <3>3. CASE AskAgain(c, n)
      BY <1>5, <3>3 DEF AskAgain, AllSound, Sound, Bad
    <3>4. QED BY <3>1, <3>2, <3>3
  <2>3. \A a, b \in Calls : a # b /\ m \in of'[a] /\ m \in of'[b] =>
          \E x \in Calls : m \in of'[x] /\ Bad(x)'
    BY <1>1, <1>3, <2>2 DEF TypeOK
  <2>4. QED BY <2>1, <2>3 DEF Once
<1>6. QED BY <1>4, <1>5

LEMMA GiveUpOnce ==
  ASSUME AllOnce, NEW n \in Messages, GiveUp(n), TypeOK
  PROVE  AllOnce'
<1> SUFFICES ASSUME NEW m \in Messages, m \notin late' \cup twice' PROVE Once(m)'
  BY DEF AllOnce
<1>1. m # n /\ m \notin late \cup twice BY DEF GiveUp
<1>2. inbox'[m] = inbox[m] BY <1>1 DEF GiveUp, TypeOK
<1>3. Once(m) BY <1>1 DEF AllOnce
<1>4. QED BY <1>2, <1>3 DEF GiveUp, Once, Bad

\* The steps that give no response.
LEMMA QuietOnce ==
  ASSUME TypeOK, AllOnce, NEW c \in Calls,
         \/ Begin(c) \/ Create(c) \/ Assign(c) \/ Raise(c) \/ Announce(c) \/ AnnounceFails(c)
         \/ \E simple \in BOOLEAN : Analyze(c, simple)
         \/ Find(c) \/ Hire(c)
         \/ \E s \in {"DONE", "FAILED"} : Execute(c, s)
         \/ \E empty \in BOOLEAN : Decompose(c, empty)
  PROVE  AllOnce'
<1>1. Inside(c) /\ pc[c] # "ended"
  BY DEF Begin, Create, Assign, Raise, Announce, AnnounceFails, Analyze, Find, Hire, Execute,
         Decompose, Orchestrating
<1>2. \A x \in Calls : x # c => pc'[x] = pc[x]
  BY DEF Begin, Create, Assign, Raise, Announce, AnnounceFails, Analyze, Find, Hire, Execute,
         Decompose, Goto, TypeOK
<1>3. Responds(c) BY <1>1, <1>2 DEF Inside, Responds, Firm, Bad
<1>4. QED BY <1>3, RespondsOnce

\* A call that ends without an answer goes bad.
LEMMA UnheardOnce ==
  ASSUME TypeOK, AllSound, AllOnce, NEW c \in Calls, pc[c] # "ended", Unheard(c),
         NEW how \in {"due", "closed"}, Close(c, how)
  PROVE  AllOnce'
<1>1. /\ pc' = [pc EXCEPT ![c] = "ended"] /\ answer' = answer
      /\ of' = of /\ late' = late /\ twice' = twice
  BY DEF Unheard, Goto, Responding
<1>2. Bad(c)' BY <1>1 DEF Bad, TypeOK, AllSound, Sound
<1>3. Firm BY <1>1 DEF Firm, Bad, TypeOK
<1>4. Responds(c) BY <1>1, <1>2, <1>3 DEF Responds, Close
<1>5. QED BY <1>4, RespondsOnce

LEMMA ReplyOnce ==
  ASSUME TypeOK, AllOnce, NEW c \in Calls, Reply(c)
  PROVE  AllOnce'
<1>1. Firm BY DEF Reply, Firm, Bad, Goto, Responding, TypeOK
<1>2. Responds(c) BY <1>1 DEF Reply, Acknowledge, Close, Responding, Responds
<1>3. QED BY <1>2, RespondsOnce

LEMMA ReplyFailsOnce ==
  ASSUME TypeOK, AllSound, AllOnce, NEW c \in Calls, NEW refused \in BOOLEAN,
         ReplyFails(c, refused)
  PROVE  AllOnce'
<1>1. pc[c] = "reply" BY DEF ReplyFails
<1>2. CASE Unheard(c)
  <2>1. \E how \in {"due", "closed"} : Close(c, how)
    BY <1>1, <1>2 DEF ReplyFails, Unheard, Goto, TypeOK, PCs
  <2>2. QED BY <1>1, <1>2, <2>1, UnheardOnce
<1>3. CASE UNCHANGED <<kind, inbox, pc, of, task, queued, answer, unheard, late, twice>>
  BY <1>3, RespondsOnce DEF Responds, Firm, Bad
<1>4. QED BY <1>2, <1>3 DEF ReplyFails

LEMMA NextOnce == TypeOK /\ AllSound /\ AllOnce /\ [Next]_vars => AllOnce'
<1> SUFFICES ASSUME TypeOK, AllSound, AllOnce, [Next]_vars PROVE AllOnce'
  OBVIOUS
<1>1. CASE UNCHANGED vars
  BY <1>1 DEF AllOnce, Once, Bad, vars
<1>2. ASSUME NEW c \in Calls, Handle(c) PROVE AllOnce'
  BY <1>2, QuietOnce, ReplyOnce DEF Handle
<1>3. ASSUME NEW c \in Calls, TypingFails(c) \/ Crash(c) PROVE AllOnce'
  BY <1>3, UnheardOnce DEF TypingFails, Crash
<1>4. QED
  BY <1>1, <1>2, <1>3, TakeOnce, GiveUpOnce, QuietOnce, ReplyFailsOnce DEF Next

\* A message becomes a second task only for one of the reasons that NotRepeated names.
THEOREM NotRepeatedHolds == Spec => []NotRepeated
<1>1. Init => AllOnce
  BY DEF Init, AllOnce, Once
<1>2. TypeOK /\ AllSound /\ AllOnce /\ [Next]_vars => AllOnce' BY NextOnce
<1>3. AllOnce => NotRepeated
  <2> SUFFICES ASSUME AllOnce, NEW m \in Messages \ (late \cup twice),
                      Cardinality({c \in Calls : m \in of[c] /\ task[c] # "none"}) > 1
               PROVE  \E c \in Calls : m \in of[c] /\ Bad(c)
    BY DEF NotRepeated, Bad
  <2> DEFINE Of == {c \in Calls : m \in of[c] /\ task[c] # "none"}
  <2>1. PICK a \in Of : TRUE
    BY FS_EmptySet
  <2>2. PICK b \in Of : b # a
    <3>1. Cardinality({a}) = 1 BY FS_Singleton
    <3>2. Of # {a} BY <3>1
    <3>3. QED BY <2>1, <3>2
  <2>3. QED BY <2>1, <2>2 DEF AllOnce, Once
<1>4. QED BY <1>1, <1>2, <1>3, TypeCorrect, SoundHolds, PTL DEF Spec

=============================================================================
