------------------------- MODULE AgentMemoryProofs -------------------------
(***************************************************************************)
(* Proofs about AgentMemory for any writers, consolidations, keys and      *)
(* texts.                                                                  *)
(***************************************************************************)
EXTENDS AgentMemory, FiniteSetTheorems, SequenceTheorems, TLAPS

-----------------------------------------------------------------------------
(* Type correctness *)

\* The types of the table, of what writers and recalls do, of what consolidations do,
\* and of what is remembered for the properties.
TableOK == /\ next \in 1 .. MaxRows + 1
           /\ live \subseteq 1 .. next - 1
           /\ \A i \in live : rows[i] \in Row

WritersOK == /\ wpc \in [Writers -> {"new", "embedding", "written", "raised"}]
             /\ request \in [Writers -> SUBSET Requests]
             /\ basis \in [Writers -> SUBSET (Ids \X Row)]
             /\ recalled \subseteq Ids
             /\ ages \in 0 .. AgeBound

PassesOK == /\ pass \in [Passes -> {"new", "done", "aborted"} \cup Reading \cup Pending]
            /\ DOMAIN plan = Passes
            /\ \A c \in Passes : \A i \in Planned(c) : i \in Ids /\ plan[c][i] \in Row

HistoryOK == /\ behind \subseteq Passes /\ calm \subseteq Passes
             /\ overlapped \subseteq Keys /\ crossed \subseteq Keys
             /\ merged \subseteq Keys \X Parts
             /\ last \in [Keys -> SUBSET Requests]

IInv == TableOK /\ WritersOK /\ PassesOK /\ HistoryOK

LEMMA Types == IInv => TypeOK
BY DEF IInv, TableOK, live, WritersOK, PassesOK, Planned, HistoryOK, TypeOK

LEMMA LiveIds == TableOK => live \subseteq Ids
BY MemoryAssumption DEF TableOK, live, Ids

LEMMA RequestType ==
  ASSUME NEW q \in Requests
  PROVE  q \in [key : Keys, text : Texts, imp : Importances]
BY MemoryAssumption

LEMMA InitInv == Init => IInv
<1> SUFFICES ASSUME Init PROVE IInv
  OBVIOUS
<1>1. DOMAIN << >> = {} OBVIOUS
<1>2. TableOK BY <1>1, MemoryAssumption DEF Init, TableOK, live
<1>3. WritersOK BY MemoryAssumption DEF Init, WritersOK
<1>4. PassesOK BY <1>1 DEF Init, PassesOK, Planned
<1>5. HistoryOK BY DEF Init, HistoryOK
<1>6. QED BY <1>2, <1>3, <1>4, <1>5 DEF IInv

LEMMA LookupInv ==
  ASSUME IInv, NEW w \in Writers, NEW q \in Requests, Lookup(w, q)
  PROVE  IInv'
<1>1. {<<i, rows[i]>> : i \in Matches(q.key)} \subseteq Ids \X Row
  BY LiveIds DEF IInv, TableOK, live, Matches, Heads
<1>2. WritersOK' BY <1>1 DEF IInv, WritersOK, Lookup
<1>3. TableOK' BY DEF IInv, TableOK, live, Lookup, table
<1>4. PassesOK' BY DEF IInv, PassesOK, Planned, Lookup, passing
<1>5. HistoryOK' BY RequestType DEF IInv, HistoryOK, Lookup
<1>6. QED BY <1>2, <1>3, <1>4, <1>5 DEF IInv

LEMMA AcknowledgeInv ==
  ASSUME IInv, NEW w \in Writers, NEW q \in Requests, NEW met \in BOOLEAN, Acknowledge(w, q, met),
         TableOK'
  PROVE  IInv'
<1>1. q.key \in Keys BY RequestType
<1>2. WritersOK' BY DEF IInv, WritersOK, Acknowledge
<1>3. PassesOK' BY DEF IInv, PassesOK, Planned, Acknowledge, passing
<1>4. HistoryOK' BY <1>1 DEF IInv, HistoryOK, Acknowledge, Disturb
<1>5. QED BY <1>2, <1>3, <1>4 DEF IInv

LEMMA InsertInv ==
  ASSUME IInv, NEW w \in Writers, NEW q \in Requests, Insert(w, q)
  PROVE  IInv'
<1>1. \A e \in Embeddings(q.text) :
        [key |-> q.key, part |-> 1, text |-> q.text, emb |-> e, imp |-> q.imp, stale |-> FALSE] \in Row
  BY RequestType DEF Row, Parts, Embeddings
<1>2. TableOK'
  BY <1>1, MemoryAssumption DEF IInv, TableOK, live, Insert
<1>3. QED BY <1>2, AcknowledgeInv DEF Insert

\* The rows after an update.
LEMMA UpdateRows ==
  ASSUME IInv, NEW w \in Writers, NEW q \in request[w], NEW b \in basis[w], Update(w, q, b)
  PROVE  /\ live' = live /\ next' = next /\ b[1] \in live
         /\ \A i \in live : i # b[1] => rows'[i] = rows[i]
         /\ rows'[b[1]] \in Row
         /\ rows'[b[1]].key = rows[b[1]].key /\ rows'[b[1]].part = rows[b[1]].part
         /\ rows'[b[1]].text = IF q.text = b[2].text THEN rows[b[1]].text ELSE q.text
         /\ rows'[b[1]].imp = IF q.imp = b[2].imp THEN rows[b[1]].imp ELSE q.imp
<1>1. rows[b[1]] \in Row /\ b[1] \in live BY DEF Update, IInv, TableOK
<1>2. q \in [key : Keys, text : Texts, imp : Importances]
  BY RequestType DEF IInv, WritersOK
<1>3. PICK e \in Embeddings(q.text) :
        rows' = [rows EXCEPT ![b[1]].text = Sent(q.text, b[2].text, @),
                             ![b[1]].emb  = Sent(e, b[2].emb, @),
                             ![b[1]].imp  = Sent(q.imp, b[2].imp, @)]
  BY DEF Update
<1>4. PICK t, m, f :
        /\ t = Sent(q.text, b[2].text, rows[b[1]].text)
        /\ m = Sent(q.imp, b[2].imp, rows[b[1]].imp)
        /\ f = Sent(e, b[2].emb, rows[b[1]].emb)
  OBVIOUS
<1>5. rows' = [[[rows EXCEPT ![b[1]].text = t] EXCEPT ![b[1]].emb = f] EXCEPT ![b[1]].imp = m]
  BY <1>1, <1>3, <1>4 DEF Row, live
<1>6. rows'[b[1]] = [[[rows[b[1]] EXCEPT !.text = t] EXCEPT !.emb = f] EXCEPT !.imp = m]
  BY <1>1, <1>5 DEF live
<1>7. live' = live /\ next' = next /\ \A i \in live : i # b[1] => rows'[i] = rows[i]
  BY <1>5 DEF Update, live
<1>8. t \in Texts /\ m \in Importances /\ f \in Texts \cup {NoEmbedding}
  BY <1>1, <1>2, <1>4 DEF Sent, Row, Embeddings
<1>9. /\ t = IF q.text = b[2].text THEN rows[b[1]].text ELSE q.text
      /\ m = IF q.imp = b[2].imp THEN rows[b[1]].imp ELSE q.imp
  BY <1>4 DEF Sent
<1>10. QED BY <1>1, <1>6, <1>7, <1>8, <1>9 DEF Row

LEMMA UpdateInv ==
  ASSUME IInv, NEW w \in Writers, NEW q \in request[w], NEW b \in basis[w], Update(w, q, b)
  PROVE  IInv'
<1>1. q \in Requests BY DEF IInv, WritersOK
<1>2. TableOK'
  BY UpdateRows DEF IInv, TableOK
<1>3. QED BY <1>1, <1>2, AcknowledgeInv DEF Update

LEMMA UpdateFailsInv ==
  ASSUME IInv, NEW w \in Writers, NEW b \in basis[w], UpdateFails(w, b)
  PROVE  IInv'
BY DEF IInv, TableOK, live, WritersOK, PassesOK, Planned, HistoryOK, UpdateFails, table, passing, history

LEMMA RecallInv ==
  ASSUME IInv, Recall
  PROVE  IInv'
BY LiveIds DEF IInv, TableOK, live, WritersOK, PassesOK, Planned, HistoryOK, Recall, table, writing, passing, history

LEMMA TouchInv ==
  ASSUME IInv, Touch
  PROVE  IInv'
<1>1. TableOK'
  <2>1. next' = next /\ live' = live BY DEF Touch, live
  <2>2. ASSUME NEW i \in live PROVE rows'[i] \in Row
    <3>1. rows'[i] = rows[i] \/ rows'[i] = [rows[i] EXCEPT !.stale = FALSE]
      BY DEF Touch
    <3>2. QED BY <3>1 DEF IInv, TableOK, live, Row
  <2>3. QED BY <2>1, <2>2 DEF IInv, TableOK, live
<1>2. QED
  BY <1>1 DEF IInv, WritersOK, PassesOK, Planned, HistoryOK, Touch, writing, passing, Disturb

LEMMA AgeInv ==
  ASSUME IInv, Age
  PROVE  IInv'
<1>1. TableOK'
  BY DEF IInv, TableOK, live, Row, Age
<1>2. QED
  BY <1>1, MemoryAssumption DEF IInv, WritersOK, PassesOK, Planned, HistoryOK, Age, writing, passing, Disturb

LEMMA StartInv ==
  ASSUME IInv, NEW c \in Passes, Start(c)
  PROVE  IInv'
BY DEF IInv, TableOK, live, WritersOK, PassesOK, Planned, HistoryOK, Start, table, writing, Reading

LEMMA ReadInv ==
  ASSUME IInv, NEW c \in Passes, NEW step \in Pending, NEW S \in SUBSET live, Read(c, step, S)
  PROVE  IInv'
<1>1. PassesOK'
  BY LiveIds DEF IInv, TableOK, live, PassesOK, Planned, Read
<1>2. QED
  BY <1>1 DEF IInv, TableOK, live, WritersOK, HistoryOK, Read, table, writing

\* A step of a consolidation that is done with what it planned.
LEMMA WrittenInv ==
  ASSUME IInv, NEW c \in Passes, NEW step \in {"dedup", "prune", "done"}, Written(c, step),
         TableOK', merged' \subseteq Keys \X Parts
  PROVE  IInv'
<1>1. PassesOK'
  BY DEF IInv, PassesOK, Planned, Written, Reading
<1>2. {plan[c][i].key : i \in Planned(c)} \subseteq Keys
  BY DEF IInv, PassesOK, Planned, Row
<1>3. HistoryOK'
  BY <1>2 DEF IInv, HistoryOK, Written, Disturb
<1>4. WritersOK'
  BY DEF IInv, WritersOK, Written, writing
<1>5. QED BY <1>1, <1>3, <1>4 DEF IInv

LEMMA TailsFinite ==
  ASSUME IInv, NEW c \in Passes
  PROVE  IsFiniteSet(Tails(c)) /\ Cardinality(Tails(c)) \in Nat
<1> DEFINE of(i) == {i} \X (2 .. Len(Chunks[plan[c][i].text]))
           F == [i \in Planned(c) |-> of(i)]
           T == {of(i) : i \in Planned(c)}
<1>1. IsFiniteSet(Planned(c))
  <2>1. 1 \in Int /\ MaxRows \in Int BY MemoryAssumption
  <2>2. IsFiniteSet(1 .. MaxRows) BY <2>1, FS_Interval
  <2>3. Planned(c) \subseteq 1 .. MaxRows BY DEF IInv, PassesOK, Ids
  <2>4. QED BY <2>2, <2>3, FS_Subset
<1>2. IsFiniteSet(T)
  <2>1. F \in Surjection(Planned(c), T) BY DEF Surjection
  <2>2. QED BY <1>1, <2>1, FS_Surjection
<1>3. \A t \in T : IsFiniteSet(t)
  <2> SUFFICES ASSUME NEW i \in Planned(c) PROVE IsFiniteSet(of(i))
    OBVIOUS
  <2>1. Len(Chunks[plan[c][i].text]) \in Int /\ 2 \in Int
    BY MemoryAssumption, LenProperties DEF IInv, PassesOK, Planned, Row
  <2>2. IsFiniteSet(2 .. Len(Chunks[plan[c][i].text])) BY <2>1, FS_Interval
  <2>3. IsFiniteSet({i}) BY FS_Singleton
  <2>4. QED BY <2>2, <2>3, FS_Product
<1>4. IsFiniteSet(UNION T) BY <1>2, <1>3, FS_UNION
<1>5. Tails(c) = UNION T BY DEF Tails
<1>6. QED BY <1>4, <1>5, FS_CardinalityType

LEMMA ChunkTypes ==
  ASSUME IInv, NEW c \in Passes, NEW i \in Planned(c), NEW n \in 1 .. Len(Chunks[plan[c][i].text])
  PROVE  Chunks[plan[c][i].text][n] \in Texts /\ ChunkRow(plan[c][i], n) \in Row
<1> DEFINE r == plan[c][i]
<1>1. r \in Row BY DEF IInv, PassesOK, Planned
<1>2. r.text \in Texts /\ r.key \in Keys /\ r.imp \in 1 .. 5 BY <1>1 DEF Row, Importances
<1>3. Chunks[r.text] \in Seq(Texts) BY <1>2, MemoryAssumption
<1> HIDE DEF r
<1>4. n \in Nat \ {0} BY <1>3, LenProperties DEF r
<1>5. Chunks[r.text][n] \in Texts BY <1>3, ElementOfSeq DEF r
<1>6. ChunkRow(r, n) \in Row
  BY <1>2, <1>4, <1>5, MemoryAssumption DEF ChunkRow, Row, Parts, Importances
<1>7. QED BY <1>5, <1>6 DEF r

\* The rows after a step that chunks.
LEMMA WriteChunksTable ==
  ASSUME IInv, NEW c \in Passes, WriteChunks(c)
  PROVE  /\ TableOK'
         /\ live \subseteq live'
         /\ \A i \in live : rows'[i].key = rows[i].key /\ rows'[i].part = rows[i].part
         /\ \A i \in live' \ live : rows'[i].part # 1
         /\ Planned(c) = {} => live' = live /\ \A i \in live : rows'[i] = rows[i]
<1> DEFINE new == Cardinality(Tails(c))
           D == next .. next + new - 1
<1>1. new \in Nat /\ next + new <= MaxRows + 1 /\ next' = next + new /\ next \in 1 .. MaxRows + 1
  BY TailsFinite DEF WriteChunks, IInv, TableOK, live
<1>2. PICK of \in [D -> Tails(c)] :
        rows' = [i \in live \cup DOMAIN of |->
               CASE i \in DOMAIN of -> ChunkRow(plan[c][of[i][1]], of[i][2])
                 [] i \in Planned(c) -> [rows[i] EXCEPT !.text = Chunks[plan[c][i].text][1]]
                 [] OTHER -> rows[i]]
  BY DEF WriteChunks
<1>3. DOMAIN of = D OBVIOUS
<1>4. Planned(c) \subseteq live BY DEF WriteChunks
<1> HIDE DEF new, D
<1>5. \A i \in live : i \notin D
  BY <1>1 DEF IInv, TableOK, live, D
<1>6. \A i \in D : /\ of[i][1] \in Planned(c) /\ of[i][2] \in 2 .. Len(Chunks[plan[c][of[i][1]].text])
  BY DEF Tails
<1>7. \A i \in D : rows'[i] = ChunkRow(plan[c][of[i][1]], of[i][2])
  BY <1>2, <1>3, <1>4, <1>5
<1>8. \A i \in D : rows'[i] \in Row /\ rows'[i].part # 1
  <2> SUFFICES ASSUME NEW i \in D PROVE rows'[i] \in Row /\ rows'[i].part # 1
    OBVIOUS
  <2>1. of[i][1] \in Planned(c) /\ of[i][2] \in 2 .. Len(Chunks[plan[c][of[i][1]].text])
    BY <1>6
  <2>2. of[i][2] \in 1 .. Len(Chunks[plan[c][of[i][1]].text]) /\ of[i][2] # 1
    BY <2>1
  <2>3. ChunkRow(plan[c][of[i][1]], of[i][2]) \in Row
    BY <2>1, <2>2, ChunkTypes
  <2>4. ChunkRow(plan[c][of[i][1]], of[i][2]).part = of[i][2] BY DEF ChunkRow
  <2>5. QED BY <1>7, <2>2, <2>3, <2>4
<1>9. \A i \in live : \/ rows'[i] = rows[i]
                      \/ /\ i \in Planned(c)
                         /\ rows'[i] = [rows[i] EXCEPT !.text = Chunks[plan[c][i].text][1]]
  BY <1>2, <1>3, <1>5
<1>10. \A i \in Planned(c) : Chunks[plan[c][i].text][1] \in Texts
  <2> SUFFICES ASSUME NEW i \in Planned(c) PROVE Chunks[plan[c][i].text][1] \in Texts
    OBVIOUS
  <2>1. plan[c][i].text \in Texts BY DEF IInv, PassesOK, Planned, Row
  <2>2. 1 \in 1 .. Len(Chunks[plan[c][i].text])
    BY <2>1, MemoryAssumption, EmptySeq
  <2>3. QED BY <2>2, ChunkTypes
<1>11. \A i \in live : /\ rows'[i] \in Row
                       /\ rows'[i].key = rows[i].key /\ rows'[i].part = rows[i].part
  BY <1>9, <1>10 DEF IInv, TableOK, live, Row
<1>12. live' = live \cup D BY <1>2, <1>3 DEF live
<1>13. TableOK'
  BY <1>1, <1>8, <1>11, <1>12 DEF IInv, TableOK, live, D
<1>14. Planned(c) = {} => D = {}
  <2>1. Planned(c) = {} => Tails(c) = {} BY DEF Tails
  <2>2. Planned(c) = {} => new = 0 BY <2>1, FS_EmptySet DEF new
  <2>3. QED BY <1>1, <2>2 DEF D
<1>15. QED BY <1>8, <1>9, <1>11, <1>12, <1>13, <1>14

LEMMA WriteChunksInv ==
  ASSUME IInv, NEW c \in Passes, WriteChunks(c)
  PROVE  IInv'
BY WriteChunksTable, WrittenInv DEF WriteChunks, IInv, HistoryOK

LEMMA MergeTable ==
  ASSUME IInv, NEW S, Merge(S)
  PROVE  TableOK' /\ merged' \subseteq Keys \X Parts
BY DEF IInv, TableOK, live, HistoryOK, Merge, Only, Row

LEMMA DeleteInv ==
  ASSUME IInv, NEW c \in Passes, DeleteDuplicates(c) \/ DeleteStale(c)
  PROVE  IInv'
<1>1. CASE DeleteDuplicates(c)
  BY <1>1, MergeTable, WrittenInv DEF DeleteDuplicates
<1>2. CASE DeleteStale(c)
  <2>1. TableOK' BY <1>2 DEF IInv, TableOK, live, DeleteStale, Only
  <2>2. merged' \subseteq Keys \X Parts BY <1>2 DEF IInv, HistoryOK, DeleteStale
  <2>3. QED BY <1>2, <2>1, <2>2, WrittenInv DEF DeleteStale
<1>3. QED BY <1>1, <1>2

LEMMA AbortInv ==
  ASSUME IInv, NEW c \in Passes, Abort(c)
  PROVE  IInv'
<1>1. PassesOK'
  BY DEF IInv, PassesOK, Planned, Abort
<1>2. WritersOK'
  BY DEF IInv, WritersOK, Abort, writing
<1>3. CASE UNCHANGED <<table, behind, calm, crossed, merged>>
  BY <1>1, <1>2, <1>3 DEF IInv, TableOK, live, HistoryOK, Abort, table
<1>4. ASSUME NEW S \in SUBSET Planned(c), Merge(S), Disturb({c}),
             crossed' = IF c \notin behind THEN crossed ELSE crossed \cup {plan[c][i].key : i \in S}
      PROVE  IInv'
  <2>1. TableOK' /\ merged' \subseteq Keys \X Parts BY <1>4, MergeTable
  <2>2. {plan[c][i].key : i \in S} \subseteq Keys BY DEF IInv, PassesOK, Planned, Row
  <2>3. HistoryOK' BY <1>4, <2>1, <2>2 DEF IInv, HistoryOK, Abort, Disturb
  <2>4. QED BY <1>1, <1>2, <2>1, <2>3 DEF IInv
<1>5. QED BY <1>3, <1>4 DEF Abort

LEMMA NextInv == IInv /\ [Next]_vars => IInv'
<1> SUFFICES ASSUME IInv, [Next]_vars PROVE IInv'
  OBVIOUS
<1>1. CASE UNCHANGED vars
  BY <1>1 DEF IInv, TableOK, live, WritersOK, PassesOK, Planned, HistoryOK, vars
<1>2. ASSUME NEW c \in Passes, ReadLong(c) \/ ReadDuplicates(c) \/ ReadStale(c) PROVE IInv'
  BY <1>2, ReadInv DEF ReadLong, ReadDuplicates, ReadStale, Pending
<1>3. QED
  BY <1>1, <1>2, LookupInv, InsertInv, UpdateInv, UpdateFailsInv, RecallInv, TouchInv, AgeInv,
     StartInv, WriteChunksInv, DeleteInv, AbortInv
  DEF Next

LEMMA InvHolds == Spec => []IInv
BY InitInv, NextInv, PTL DEF Spec

\* The rows that consolidation makes are memories as any other: keys, importances and
\* numbers stay in their ranges.
THEOREM TypeCorrect == Spec => []TypeOK
BY Types, InvHolds, PTL

-----------------------------------------------------------------------------
(* OneRow *)

\* A key whose writes came one after the other: it has one row at most, one write at
\* most is under way, and one that has found no row finds none when it inserts.
Single(k) == /\ \A i, j \in Heads(k) : i = j
             /\ \A v, w \in Writing(k) : v = w
             /\ \A w \in Writing(k) : basis[w] = {} => Heads(k) = {}

AllSingle == /\ \A w \in Writers : \A p, q \in request[w] : p = q
             /\ \A k \in Keys \ overlapped : Single(k)

\* A step that makes no row of a key, and no write begin.
LEMMA StillSingle ==
  ASSUME AllSingle, overlapped' = overlapped, request' = request,
         \A k \in Keys : Heads(k)' \subseteq Heads(k),
         \A w \in Writers : wpc'[w] = "embedding" => wpc[w] = "embedding" /\ basis'[w] = basis[w]
  PROVE  AllSingle'
<1> SUFFICES ASSUME NEW k \in Keys \ overlapped PROVE Single(k)'
  BY DEF AllSingle
<1>1. Single(k) BY DEF AllSingle
<1>2. Writing(k)' \subseteq Writing(k) BY DEF Writing
<1>3. \A w \in Writing(k)' : basis'[w] = basis[w] BY DEF Writing
<1>4. Heads(k)' \subseteq Heads(k) OBVIOUS
<1>5. QED BY <1>1, <1>2, <1>3, <1>4 DEF Single

\* Rows that stay keep their key.
LEMMA HeadsStay ==
  ASSUME live' \subseteq live,
         \A i \in live' : rows'[i].key = rows[i].key /\ rows'[i].part = rows[i].part
  PROVE  \A k \in Keys : Heads(k)' \subseteq Heads(k)
BY DEF Heads

LEMMA LookupSingle ==
  ASSUME IInv, AllSingle, NEW w \in Writers, NEW q \in Requests, Lookup(w, q)
  PROVE  AllSingle'
<1>1. /\ request' = [request EXCEPT ![w] = {q}] /\ rows' = rows
      /\ overlapped' = IF Writing(q.key) = {} THEN overlapped ELSE overlapped \cup {q.key}
      /\ \A v \in Writers : v # w => wpc'[v] = wpc[v] /\ basis'[v] = basis[v]
      /\ wpc[w] = "new"
      /\ wpc'[w] = "embedding" => basis'[w] = {<<i, rows[i]>> : i \in Matches(q.key)}
  BY DEF Lookup, table, IInv, WritersOK
<1>2. \A v \in Writers : \A p, r \in request'[v] : p = r
  BY <1>1 DEF AllSingle, IInv, WritersOK
<1>3. ASSUME NEW k \in Keys \ overlapped' PROVE Single(k)'
  <2>1. Single(k) BY <1>1, <1>3 DEF AllSingle
  <2>2. Heads(k)' = Heads(k) BY <1>1 DEF Heads, live
  <2>3. CASE k = q.key
    <3>1. Writing(k) = {} BY <1>1, <1>3, <2>3
    <3>2. Writing(k)' \subseteq {w} BY <1>1, <3>1 DEF Writing, IInv, WritersOK
    <3>3. \A v \in Writing(k)' : basis'[v] = {} => Heads(k) = {}
      <4> SUFFICES ASSUME NEW v \in Writing(k)', basis'[v] = {} PROVE Heads(k) = {}
        OBVIOUS
      <4>1. v = w /\ wpc'[w] = "embedding" BY <3>2 DEF Writing
      <4>2. {<<i, rows[i]>> : i \in Heads(k)} = {} BY <1>1, <2>3, <4>1 DEF Matches
      <4>3. QED BY <4>2
    <3>4. QED BY <2>1, <2>2, <3>2, <3>3 DEF Single
  <2>4. CASE k # q.key
    <3>1. Writing(k)' \subseteq Writing(k) /\ \A v \in Writing(k)' : basis'[v] = basis[v]
      BY <1>1, <2>4 DEF Writing, IInv, WritersOK
    <3>2. QED BY <2>1, <2>2, <3>1 DEF Single
  <2>5. QED BY <2>3, <2>4
<1>4. QED BY <1>2, <1>3 DEF AllSingle

LEMMA InsertSingle ==
  ASSUME IInv, AllSingle, NEW w \in Writers, NEW q \in Requests, Insert(w, q)
  PROVE  AllSingle'
<1>1. /\ request' = request /\ overlapped' = overlapped
      /\ \A v \in Writers : v # w => wpc'[v] = wpc[v] /\ basis'[v] = basis[v]
      /\ wpc'[w] = "written" /\ basis[w] = {} /\ q \in request[w] /\ wpc[w] = "embedding"
  BY DEF Insert, Acknowledge, IInv, WritersOK
<1>2. /\ live' = live \cup {next} /\ next \notin live
      /\ \A i \in live : rows'[i] = rows[i]
      /\ rows'[next].key = q.key
  BY DEF Insert, IInv, TableOK, live
<1>3. ASSUME NEW k \in Keys \ overlapped PROVE Single(k)'
  <2>1. Single(k) BY DEF AllSingle
  <2>2. Writing(k)' \subseteq Writing(k) \ {w} /\ \A v \in Writing(k)' : basis'[v] = basis[v]
    BY <1>1 DEF Writing
  <2>3. CASE k = q.key
    <3>1. w \in Writing(k) BY <1>1, <2>3 DEF Writing
    <3>2. Heads(k) = {} BY <1>1, <2>1, <3>1 DEF Single
    <3>3. Heads(k)' \subseteq {next} BY <1>2, <3>2 DEF Heads
    <3>4. Writing(k)' = {} BY <2>1, <2>2, <3>1 DEF Single
    <3>5. QED BY <3>3, <3>4 DEF Single
  <2>4. CASE k # q.key
    <3>1. Heads(k)' \subseteq Heads(k) BY <1>2, <2>4 DEF Heads
    <3>2. QED BY <2>1, <2>2, <3>1 DEF Single
  <2>5. QED BY <2>3, <2>4
<1>4. QED BY <1>1, <1>3 DEF AllSingle

\* What writes, other than a lookup and an insertion.
LEMMA WriterSingle ==
  ASSUME IInv, AllSingle, NEW w \in Writers,
         \/ \E q \in request[w], b \in basis[w] : Update(w, q, b)
         \/ \E b \in basis[w] : UpdateFails(w, b)
  PROVE  AllSingle'
<1>1. /\ request' = request /\ overlapped' = overlapped
      /\ \A v \in Writers : wpc'[v] = "embedding" => wpc[v] = "embedding" /\ basis'[v] = basis[v]
  BY DEF Update, UpdateFails, Acknowledge, history, IInv, WritersOK
<1>2. /\ live' = live
      /\ \A i \in live : rows'[i].key = rows[i].key /\ rows'[i].part = rows[i].part
  <2>1. ASSUME NEW q \in request[w], NEW b \in basis[w], Update(w, q, b)
        PROVE  /\ live' = live
               /\ \A i \in live : rows'[i].key = rows[i].key /\ rows'[i].part = rows[i].part
    BY <2>1, UpdateRows
  <2>2. QED BY <2>1 DEF UpdateFails, table, live
<1>3. QED BY <1>1, <1>2, HeadsStay, StillSingle

\* Recalls and the passing of time.
LEMMA RecallSingle ==
  ASSUME IInv, AllSingle, Recall \/ Touch \/ Age
  PROVE  AllSingle'
<1>1. UNCHANGED <<writing, overlapped>> BY DEF Recall, Touch, Age, history
<1>2. /\ live' = live
      /\ \A i \in live : rows'[i].key = rows[i].key /\ rows'[i].part = rows[i].part
  <2>1. CASE Recall BY <2>1 DEF Recall, table, live
  <2>2. CASE Touch
    <3>1. live' = live BY <2>2 DEF Touch, live
    <3>2. \A i \in live : rows'[i] = rows[i] \/ rows'[i] = [rows[i] EXCEPT !.stale = FALSE]
      BY <2>2 DEF Touch, live
    <3>3. QED BY <3>1, <3>2 DEF IInv, TableOK, Row
  <2>3. CASE Age BY <2>3 DEF Age, IInv, TableOK, live, Row
  <2>4. QED BY <2>1, <2>2, <2>3
<1>3. QED BY <1>1, <1>2, HeadsStay, StillSingle DEF writing

LEMMA PassSingle ==
  ASSUME IInv, AllSingle, NEW c \in Passes,
         \/ Start(c) \/ ReadLong(c) \/ WriteChunks(c) \/ ReadDuplicates(c) \/ DeleteDuplicates(c)
         \/ ReadStale(c) \/ DeleteStale(c) \/ Abort(c)
  PROVE  AllSingle'
<1>1. UNCHANGED <<writing, overlapped>>
  BY DEF Start, ReadLong, WriteChunks, ReadDuplicates, DeleteDuplicates, ReadStale, DeleteStale,
         Abort, Read, Written
<1>2. \A k \in Keys : Heads(k)' \subseteq Heads(k)
  <2>1. CASE WriteChunks(c)
    BY <2>1, WriteChunksTable DEF Heads
  <2>2. CASE ~ WriteChunks(c)
    <3>1. live' \subseteq live /\ \A i \in live' : rows'[i] = rows[i]
      BY <2>2 DEF Start, ReadLong, ReadDuplicates, DeleteDuplicates, ReadStale, DeleteStale,
                  Abort, Read, Merge, Only, table, live
    <3>2. QED BY <3>1, HeadsStay
  <2>3. QED BY <2>1, <2>2
<1>3. QED BY <1>1, <1>2, StillSingle DEF writing

LEMMA NextSingle == IInv /\ AllSingle /\ [Next]_vars => AllSingle'
<1> SUFFICES ASSUME IInv, AllSingle, [Next]_vars PROVE AllSingle'
  OBVIOUS
<1>1. CASE UNCHANGED vars
  BY <1>1 DEF AllSingle, Single, Heads, Writing, live, vars
<1>2. QED
  BY <1>1, LookupSingle, InsertSingle, WriterSingle, RecallSingle, PassSingle DEF Next

\* Writes of a key that come one after the other leave it with one row at most,
\* whatever is consolidated meanwhile.
THEOREM OneRowHolds == Spec => []OneRow
<1>1. Init => AllSingle
  BY DEF Init, AllSingle, Single, Heads, Writing, live
<1>2. IInv /\ AllSingle /\ [Next]_vars => AllSingle' BY NextSingle
<1>3. AllSingle => OneRow
  <2> SUFFICES ASSUME AllSingle, NEW k \in Keys \ overlapped PROVE Cardinality(Heads(k)) <= 1
    BY DEF OneRow
  <2>1. \A i, j \in Heads(k) : i = j BY DEF AllSingle, Single
  <2>2. CASE Heads(k) = {} BY <2>2, FS_EmptySet
  <2>3. CASE Heads(k) # {}
    <3>1. PICK i \in Heads(k) : TRUE BY <2>3
    <3>2. Heads(k) = {i} BY <2>1, <3>1
    <3>3. Cardinality({i}) = 1 BY FS_Singleton
    <3>4. QED BY <3>2, <3>3
  <2>4. QED BY <2>2, <2>3
<1>4. QED BY <1>1, <1>2, <1>3, InvHolds, PTL DEF Spec

-----------------------------------------------------------------------------
(* CopyStays *)

\* Each row that a consolidation is about to delete has another that stands for it and
\* is to be kept.
Backed(c) == \A i \in live \cap Planned(c) : \E j \in live \ Planned(c) :
               StandsFor(j, i) /\ rows[j].imp >= rows[i].imp

AllBacked == \A c \in Passes \ behind : pass[c] = "deduping" => Backed(c)

\* A step that changes the table, or may, by none of the consolidations but c.
LEMMA DisturbBacked ==
  ASSUME IInv, NEW by \in SUBSET Passes,
         behind' = behind \cup {c \in Passes \ by : pass[c] \in Pending},
         \A c \in Passes : pass'[c] = "deduping" => pass[c] = "deduping" /\ c \notin by
  PROVE  AllBacked'
BY DEF AllBacked, Pending

\* A step that leaves the table as it is.
LEMMA SameBacked ==
  ASSUME AllBacked, live' = live, \A i \in live : rows'[i] = rows[i],
         behind \subseteq behind',
         \A c \in Passes : pass'[c] = "deduping" => pass[c] = "deduping" /\ plan'[c] = plan[c]
  PROVE  AllBacked'
<1>1. ASSUME NEW i \in live, NEW j \in live, StandsFor(j, i) PROVE StandsFor(j, i)'
  BY <1>1 DEF StandsFor, Alike, Embedded
<1> SUFFICES ASSUME NEW c \in Passes \ behind', pass'[c] = "deduping" PROVE Backed(c)'
  BY DEF AllBacked
<1>2. Backed(c) /\ Planned(c)' = Planned(c) BY DEF AllBacked, Planned
<1> SUFFICES ASSUME NEW i \in live \cap Planned(c)
             PROVE  \E j \in live \ Planned(c) : StandsFor(j, i)' /\ rows'[j].imp >= rows'[i].imp
  BY <1>2 DEF Backed
<1>3. PICK j \in live \ Planned(c) : StandsFor(j, i) /\ rows[j].imp >= rows[i].imp
  BY <1>2 DEF Backed
<1>4. QED BY <1>1, <1>3

LEMMA ReadBacked ==
  ASSUME IInv, AllBacked, NEW c \in Passes, ReadLong(c) \/ ReadDuplicates(c) \/ ReadStale(c)
  PROVE  AllBacked'
<1>1. /\ rows' = rows /\ behind' = behind \ {c}
      /\ \A d \in Passes : d # c => pass'[d] = pass[d] /\ plan'[d] = plan[d]
  BY DEF ReadLong, ReadDuplicates, ReadStale, Read, table, IInv, PassesOK
<1>2. ASSUME NEW d \in Passes, d # c, d \notin behind', pass'[d] = "deduping" PROVE Backed(d)'
  BY <1>1, <1>2 DEF AllBacked, Backed, StandsFor, Alike, Embedded, Planned, live
<1>3. ASSUME pass'[c] = "deduping" PROVE Backed(c)'
  <2>1. ReadDuplicates(c)
    BY <1>3 DEF ReadLong, ReadStale, Read, IInv, PassesOK
  <2>2. PICK S \in SUBSET live : Survivors(S) /\ Read(c, "deduping", live \ S)
    BY <2>1 DEF ReadDuplicates
  <2>3. Planned(c)' = live \ S
    BY <2>2 DEF Read, Planned, IInv, PassesOK
  <2>4. ASSUME NEW i \in live \ S
        PROVE  \E j \in S : StandsFor(j, i) /\ rows[j].imp >= rows[i].imp
    <3>1. PICK D \in SUBSET live :
            /\ Distinct(D) /\ S \subseteq D
            /\ \A k \in D \ S : \E j \in S : Alike(k, j) /\ Ahead(j, k)
      BY <2>2 DEF Survivors
    <3>2. \A k \in live : rows[k].imp \in 1 .. 5 /\ Alike(k, k)
      <4>1. \A k \in live : rows[k] \in Row BY DEF IInv, TableOK
      <4>2. QED BY <4>1, MemoryAssumption DEF Row, Importances, Alike, Embedded
    <3>3. \A k, l \in live : Ahead(k, l) => rows[k].imp >= rows[l].imp
      BY <3>2 DEF Ahead
    <3>4. PICK m \in D : rows[m].text = rows[i].text /\ rows[m].imp >= rows[i].imp
      <4>1. CASE i \in D BY <3>2, <4>1
      <4>2. CASE i \notin D BY <3>1, <3>3, <4>2 DEF Distinct
      <4>3. QED BY <4>1, <4>2
    <3>5. PICK j \in S : Alike(m, j) /\ rows[j].imp >= rows[m].imp
      <4>1. CASE m \in S BY <3>2, <4>1
      <4>2. CASE m \notin S BY <3>1, <3>3, <4>2
      <4>3. QED BY <4>1, <4>2
    <3>6. rows[j].imp >= rows[i].imp BY <3>1, <3>2, <3>4, <3>5
    <3>7. StandsFor(j, i) BY <3>4, <3>5 DEF StandsFor
    <3>8. QED BY <3>6, <3>7
  <2>5. QED BY <1>1, <2>3, <2>4 DEF Backed, StandsFor, Alike, Embedded, live
<1>4. QED BY <1>2, <1>3 DEF AllBacked

LEMMA WrittenBacked ==
  ASSUME IInv, AllBacked, NEW c \in Passes, NEW step \in {"dedup", "prune", "done"}, Written(c, step),
         Planned(c) = {} => live' = live /\ \A i \in live : rows'[i] = rows[i]
  PROVE  AllBacked'
<1>1. /\ \A d \in Passes : d # c => pass'[d] = pass[d] /\ plan'[d] = plan[d]
      /\ pass'[c] # "deduping"
  BY DEF Written, IInv, PassesOK
<1>2. CASE Planned(c) = {}
  BY <1>1, <1>2, SameBacked DEF Written
<1>3. CASE Planned(c) # {}
  BY <1>1, <1>3, DisturbBacked DEF Written, Disturb
<1>4. QED BY <1>2, <1>3

LEMMA AbortBacked ==
  ASSUME IInv, AllBacked, NEW c \in Passes, Abort(c)
  PROVE  AllBacked'
<1>1. /\ \A d \in Passes : d # c => pass'[d] = pass[d] /\ plan'[d] = plan[d]
      /\ pass'[c] # "deduping"
  BY DEF Abort, IInv, PassesOK
<1>2. CASE UNCHANGED <<table, behind, calm, crossed, merged>>
  BY <1>1, <1>2, SameBacked DEF table, live
<1>3. CASE Disturb({c})
  <2>1. behind' = behind \cup {d \in Passes \ {c} : pass[d] \in Pending} BY <1>3 DEF Disturb
  <2>2. \A d \in Passes : pass'[d] = "deduping" => pass[d] = "deduping" /\ d \notin {c}
    BY <1>1
  <2>3. QED BY <2>1, <2>2, DisturbBacked
<1>4. QED BY <1>2, <1>3 DEF Abort

LEMMA OthersBacked ==
  ASSUME IInv, AllBacked,
         \/ \E w \in Writers :
              \/ \E q \in Requests : Lookup(w, q) \/ Insert(w, q)
              \/ \E q \in request[w], b \in basis[w] : Update(w, q, b)
              \/ \E b \in basis[w] : UpdateFails(w, b)
         \/ Recall \/ Touch \/ Age
         \/ \E c \in Passes : Start(c)
  PROVE  AllBacked'
<1>1. \A c \in Passes : pass'[c] = "deduping" => pass[c] = "deduping" /\ plan'[c] = plan[c]
  <2>1. CASE \E c \in Passes : Start(c)
    BY <2>1 DEF Start, IInv, PassesOK
  <2>2. CASE pass' = pass /\ plan' = plan
    BY <2>2
  <2>3. CASE \E w \in Writers :
               \/ \E q \in Requests : Lookup(w, q) \/ Insert(w, q)
               \/ \E q \in request[w], b \in basis[w] : Update(w, q, b)
               \/ \E b \in basis[w] : UpdateFails(w, b)
    <3>1. pass' = pass /\ plan' = plan
      <4>1. ASSUME NEW w \in Writers, NEW q \in Requests, Lookup(w, q)
            PROVE  pass' = pass /\ plan' = plan
        BY <4>1 DEF Lookup, passing
      <4>2. ASSUME NEW w \in Writers, NEW q \in Requests, Insert(w, q)
            PROVE  pass' = pass /\ plan' = plan
        <5>1. Acknowledge(w, q, FALSE) BY <4>2 DEF Insert
        <5>2. QED BY <5>1 DEF Acknowledge, passing
      <4>3. ASSUME NEW w \in Writers, NEW q \in request[w], NEW b \in basis[w], Update(w, q, b)
            PROVE  pass' = pass /\ plan' = plan
        <5>1. Acknowledge(w, q, rows[b[1]] # b[2]) BY <4>3 DEF Update
        <5>2. QED BY <5>1 DEF Acknowledge, passing
      <4>4. ASSUME NEW w \in Writers, NEW b \in basis[w], UpdateFails(w, b)
            PROVE  pass' = pass /\ plan' = plan
        BY <4>4 DEF UpdateFails, passing
      <4>5. QED BY <2>3, <4>1, <4>2, <4>3, <4>4
    <3>2. QED BY <2>2, <3>1
  <2>4. CASE Recall \/ Touch \/ Age
    BY <2>2, <2>4 DEF Recall, Touch, Age, passing
  <2>5. QED BY <2>1, <2>3, <2>4
<1>2. CASE rows' = rows /\ behind' = behind
  BY <1>1, <1>2, SameBacked DEF live
<1>3. CASE Disturb({})
  BY <1>1, <1>3, DisturbBacked DEF Disturb
<1>4. ASSUME NEW w \in Writers,
             \/ \E q \in Requests : Lookup(w, q) \/ Insert(w, q)
             \/ \E q \in request[w], b \in basis[w] : Update(w, q, b)
             \/ \E b \in basis[w] : UpdateFails(w, b)
      PROVE  (rows' = rows /\ behind' = behind) \/ Disturb({})
  BY <1>4 DEF Lookup, Insert, Update, UpdateFails, Acknowledge, table, history
<1>5. Recall \/ Touch \/ Age \/ (\E c \in Passes : Start(c)) =>
        (rows' = rows /\ behind' = behind) \/ Disturb({})
  BY DEF Recall, Touch, Age, Start, table, history
<1>6. QED BY <1>2, <1>3, <1>4, <1>5

LEMMA NextBacked == IInv /\ AllBacked /\ [Next]_vars => AllBacked'
<1> SUFFICES ASSUME IInv, AllBacked, [Next]_vars PROVE AllBacked'
  OBVIOUS
<1>1. CASE UNCHANGED vars
  BY <1>1, SameBacked DEF vars, live
<1>2. ASSUME NEW c \in Passes, WriteChunks(c) \/ DeleteDuplicates(c) \/ DeleteStale(c)
      PROVE  AllBacked'
  <2>1. CASE WriteChunks(c)
    BY <2>1, WrittenBacked, WriteChunksTable DEF WriteChunks
  <2>2. CASE DeleteDuplicates(c) \/ DeleteStale(c)
    <3>1. Planned(c) = {} => live' = live /\ \A i \in live : rows'[i] = rows[i]
      BY <2>2 DEF DeleteDuplicates, DeleteStale, Merge, Only, live
    <3>2. QED BY <2>2, <3>1, WrittenBacked DEF DeleteDuplicates, DeleteStale
  <2>3. QED BY <1>2, <2>1, <2>2
<1>3. QED
  BY <1>1, <1>2, ReadBacked, AbortBacked, OthersBacked DEF Next

\* What deduplication deletes, all at once or, when it is cut off, in part, leaves a row
\* that _similarity takes for its duplicate, or its content's, and that is no less
\* important.
THEOREM CopyStaysHolds == Spec => CopyStays
<1> DEFINE Copy(c) == pass[c] = "deduping" /\ pass[c]' # "deduping" =>
                        \A i \in live \ live' : \E j \in live' :
                          StandsFor(j, i) /\ rows[j].imp >= rows[i].imp
<1>1. Init => AllBacked
  BY DEF Init, AllBacked
<1>2. IInv /\ AllBacked /\ [Next]_vars => AllBacked' BY NextBacked
<1>3. ASSUME IInv, AllBacked, [Next]_vars, NEW c \in Passes \ behind,
             pass[c] = "deduping", pass'[c] # "deduping"
      PROVE  Copy(c)
  <2>1. DeleteDuplicates(c) \/ Abort(c)
    <3>1. ASSUME NEW w \in Writers,
                 \/ \E q \in Requests : Lookup(w, q) \/ Insert(w, q)
                 \/ \E q \in request[w], b \in basis[w] : Update(w, q, b)
                 \/ \E b \in basis[w] : UpdateFails(w, b)
          PROVE  pass' = pass
      BY <3>1 DEF Lookup, Insert, Update, UpdateFails, Acknowledge, passing
    <3>2. Recall \/ Touch \/ Age => pass' = pass
      BY DEF Recall, Touch, Age, passing
    <3>3. ASSUME NEW d \in Passes,
                 \/ Start(d) \/ ReadLong(d) \/ WriteChunks(d) \/ ReadDuplicates(d)
                 \/ ReadStale(d) \/ DeleteStale(d)
          PROVE  pass'[c] = pass[c]
      BY <1>3, <3>3 DEF Start, ReadLong, WriteChunks, ReadDuplicates, ReadStale, DeleteStale, Read,
                        Written, IInv, PassesOK
    <3>4. ASSUME NEW d \in Passes, d # c, DeleteDuplicates(d) \/ Abort(d)
          PROVE  pass'[c] = pass[c]
      <4>1. \E l \in {"prune", "aborted"} : pass' = [pass EXCEPT ![d] = l]
        BY <3>4 DEF DeleteDuplicates, Abort, Written
      <4>2. QED BY <3>4, <4>1 DEF IInv, PassesOK
    <3>5. pass' # pass BY <1>3
    <3>6. CASE UNCHANGED vars BY <1>3, <3>6 DEF vars
    <3>7. QED BY <1>3, <3>1, <3>2, <3>3, <3>4, <3>5, <3>6 DEF Next
  <2>2. live \ Planned(c) \subseteq live' /\ live \ live' \subseteq Planned(c)
    BY <2>1 DEF DeleteDuplicates, Abort, Merge, Only, table, live
  <2>3. Backed(c) BY <1>3 DEF AllBacked
  <2>4. QED BY <2>2, <2>3 DEF Backed
<1>4. IInv /\ AllBacked /\ [Next]_vars => [\A c \in Passes \ behind : Copy(c)]_vars
  BY <1>3
<1>5. QED BY <1>1, <1>2, <1>4, InvHolds, PTL DEF Spec, CopyStays
=============================================================================
