---------------------- MODULE AgentMemoryContentProofs ----------------------
(***************************************************************************)
(* Proofs about AgentMemory of what the table holds: what was last written *)
(* under a key, and what a consolidation that was alone has made of it.    *)
(***************************************************************************)
EXTENDS AgentMemoryProofs

-----------------------------------------------------------------------------
(* What the steps do to the table *)

\* The steps of a consolidation.
Own(c) == \/ Start(c) \/ ReadLong(c) \/ WriteChunks(c) \/ ReadDuplicates(c)
          \/ DeleteDuplicates(c) \/ ReadStale(c) \/ DeleteStale(c) \/ Abort(c)

\* The table is as it was.
SameTable == live' = live /\ next' = next /\ \A i \in live : rows'[i] = rows[i]

\* A row keeps its number, key and part as long as it is there.
Stable == /\ next <= next'
          /\ \A i \in live' : i < next =>
               /\ i \in live
               /\ rows'[i].key = rows[i].key
               /\ rows'[i].part = rows[i].part

\* The rows after a step that chunks, one by one.
LEMMA WriteChunksRows ==
  ASSUME IInv, NEW c \in Passes, WriteChunks(c)
  PROVE  /\ Planned(c) \subseteq live
         /\ live \subseteq live'
         /\ next <= next'
         /\ \A i \in live : i \notin Planned(c) => rows'[i] = rows[i]
         /\ \A i \in Planned(c) :
              rows'[i] = [rows[i] EXCEPT !.text = Chunks[plan[c][i].text][1]]
         /\ \A i \in live' \ live : i >= next /\ \E p \in Planned(c) :
              \E n \in 2 .. Len(Chunks[plan[c][p].text]) : rows'[i] = ChunkRow(plan[c][p], n)
         /\ \A p \in Planned(c) : \A n \in 2 .. Len(Chunks[plan[c][p].text]) :
              \E i \in live' : rows'[i] = ChunkRow(plan[c][p], n)
<1> DEFINE new == Cardinality(Tails(c))
           D == next .. next + new - 1
<1>1. new \in Nat /\ next' = next + new /\ next \in 1 .. MaxRows + 1
  BY TailsFinite DEF WriteChunks, IInv, TableOK, live
<1>2. PICK of \in [D -> Tails(c)] :
        /\ {of[i] : i \in DOMAIN of} = Tails(c)
        /\ rows' = [i \in live \cup DOMAIN of |->
               CASE i \in DOMAIN of -> ChunkRow(plan[c][of[i][1]], of[i][2])
                 [] i \in Planned(c) -> [rows[i] EXCEPT !.text = Chunks[plan[c][i].text][1]]
                 [] OTHER -> rows[i]]
  BY DEF WriteChunks
<1>3. DOMAIN of = D OBVIOUS
<1>4. Planned(c) \subseteq live BY DEF WriteChunks
<1> HIDE DEF new, D
<1>5. \A i \in live : i \notin D
  BY <1>1 DEF IInv, TableOK, live, D
<1>6. live' = live \cup D BY <1>2, <1>3 DEF live
<1>7. \A i \in live : i \notin Planned(c) => rows'[i] = rows[i]
  BY <1>2, <1>3, <1>5
<1>8. \A i \in Planned(c) : rows'[i] = [rows[i] EXCEPT !.text = Chunks[plan[c][i].text][1]]
  BY <1>2, <1>3, <1>4, <1>5
<1>9. \A i \in D : rows'[i] = ChunkRow(plan[c][of[i][1]], of[i][2])
  BY <1>2, <1>3, <1>4, <1>5
<1>10. \A i \in D : /\ of[i][1] \in Planned(c)
                    /\ of[i][2] \in 2 .. Len(Chunks[plan[c][of[i][1]].text])
  BY DEF Tails
<1>11. \A i \in live' \ live : i >= next /\ \E p \in Planned(c) :
         \E n \in 2 .. Len(Chunks[plan[c][p].text]) : rows'[i] = ChunkRow(plan[c][p], n)
  <2> SUFFICES ASSUME NEW i \in D
               PROVE  i >= next /\ \E p \in Planned(c) :
                        \E n \in 2 .. Len(Chunks[plan[c][p].text]) :
                          rows'[i] = ChunkRow(plan[c][p], n)
    BY <1>6
  <2>1. i >= next BY <1>1 DEF D
  <2>2. QED BY <2>1, <1>9, <1>10
<1>12. ASSUME NEW p \in Planned(c), NEW n \in 2 .. Len(Chunks[plan[c][p].text])
       PROVE  \E i \in live' : rows'[i] = ChunkRow(plan[c][p], n)
  <2>1. <<p, n>> \in Tails(c) BY DEF Tails
  <2>2. PICK i \in D : of[i] = <<p, n>> BY <1>2, <1>3, <2>1
  <2>3. rows'[i] = ChunkRow(plan[c][p], n) BY <1>9, <2>2
  <2>4. QED BY <1>6, <2>3
<1>13. next <= next' BY <1>1
<1>14. QED BY <1>4, <1>6, <1>7, <1>8, <1>11, <1>12, <1>13

\* The rows after the steps that delete.
LEMMA DeleteRows ==
  ASSUME IInv, NEW c \in Passes, DeleteDuplicates(c) \/ DeleteStale(c) \/ Abort(c)
  PROVE  live' \subseteq live /\ next' = next /\ \A i \in live' : rows'[i] = rows[i]
BY DEF DeleteDuplicates, DeleteStale, Abort, Merge, Only, table, live

\* The row an insertion makes.
LEMMA InsertRows ==
  ASSUME IInv, NEW w \in Writers, NEW q \in Requests, Insert(w, q)
  PROVE  /\ live' = live \cup {next} /\ next \notin live /\ next' = next + 1
         /\ \A i \in live : rows'[i] = rows[i]
         /\ rows'[next].key = q.key /\ rows'[next].part = 1
         /\ rows'[next].text = q.text /\ rows'[next].imp = q.imp
<1>1. next \notin live BY DEF IInv, TableOK, live
<1>2. PICK e \in Embeddings(q.text) :
        rows' = [i \in live \cup {next} |-> IF i = next
                   THEN [key |-> q.key, part |-> 1, text |-> q.text, emb |-> e,
                         imp |-> q.imp, stale |-> FALSE]
                   ELSE rows[i]]
  BY DEF Insert
<1>3. rows'[next] = [key |-> q.key, part |-> 1, text |-> q.text, emb |-> e,
                     imp |-> q.imp, stale |-> FALSE]
  BY <1>2
<1>4. live' = live \cup {next} /\ next' = next + 1 /\ \A i \in live : rows'[i] = rows[i]
  BY <1>1, <1>2 DEF Insert, live
<1>5. QED BY <1>1, <1>3, <1>4

\* Recalls and the passing of time change nothing but stale.
LEMMA AgeRows ==
  ASSUME IInv, Touch \/ Age
  PROVE  /\ live' = live /\ next' = next
         /\ \A i \in live : /\ rows'[i].key = rows[i].key /\ rows'[i].part = rows[i].part
                            /\ rows'[i].text = rows[i].text /\ rows'[i].imp = rows[i].imp
<1>1. live' = live /\ next' = next BY DEF Touch, Age, live
<1>2. ASSUME NEW i \in live
      PROVE  \/ rows'[i] = rows[i]
             \/ \E s \in BOOLEAN : rows'[i] = [rows[i] EXCEPT !.stale = s]
  BY DEF Touch, Age, live
<1>3. QED BY <1>1, <1>2 DEF IInv, TableOK, Row

\* Every step leaves the rows that stay their keys and parts.
LEMMA StableNext == IInv /\ [Next]_vars => Stable
<1> SUFFICES ASSUME IInv, [Next]_vars PROVE Stable
  OBVIOUS
<1> USE DEF Stable
<1>1. next \in Nat /\ \A i \in live : i < next BY MemoryAssumption DEF IInv, TableOK
<1>2. CASE SameTable BY <1>1, <1>2 DEF SameTable
<1>3. CASE UNCHANGED vars BY <1>2, <1>3 DEF vars, SameTable, live
<1>4. ASSUME NEW w \in Writers,
             \/ \E q \in Requests : Lookup(w, q)
             \/ \E b \in basis[w] : UpdateFails(w, b)
      PROVE  Stable
  BY <1>2, <1>4 DEF Lookup, UpdateFails, table, SameTable, live
<1>5. ASSUME NEW w \in Writers, NEW q \in Requests, Insert(w, q) PROVE Stable
  <2>1. live' = live \cup {next} /\ next' = next + 1 /\ \A i \in live : rows'[i] = rows[i]
    BY <1>5, InsertRows
  <2>2. ~ next < next BY <1>1
  <2>3. QED BY <1>1, <2>1, <2>2
<1>6. ASSUME NEW w \in Writers, NEW q \in request[w], NEW b \in basis[w], Update(w, q, b)
      PROVE  Stable
  BY <1>1, <1>6, UpdateRows
<1>7. CASE Recall BY <1>2, <1>7 DEF Recall, table, SameTable, live
<1>8. CASE Touch \/ Age BY <1>1, <1>8, AgeRows
<1>9. ASSUME NEW c \in Passes, Start(c) \/ ReadLong(c) \/ ReadDuplicates(c) \/ ReadStale(c)
      PROVE  Stable
  BY <1>2, <1>9 DEF Start, ReadLong, ReadDuplicates, ReadStale, Read, table, SameTable, live
<1>10. ASSUME NEW c \in Passes, WriteChunks(c) PROVE Stable
  <2>1. next <= next' BY <1>10, WriteChunksRows
  <2>2. \A i \in live' : i < next => i \in live
    <3>1. \A i \in live' : i \in Nat BY <1>10, WriteChunksTable DEF TableOK, live
    <3>2. QED BY <1>1, <1>10, <3>1, WriteChunksRows
  <2>3. \A i \in live : rows'[i].key = rows[i].key /\ rows'[i].part = rows[i].part
    BY <1>10, WriteChunksTable
  <2>4. QED BY <2>1, <2>2, <2>3
<1>11. ASSUME NEW c \in Passes, DeleteDuplicates(c) \/ DeleteStale(c) \/ Abort(c) PROVE Stable
  BY <1>1, <1>11, DeleteRows
<1>12. QED
  BY <1>3, <1>4, <1>5, <1>6, <1>7, <1>8, <1>9, <1>10, <1>11 DEF Next

\* What the steps of others do to a consolidation: they leave it where it is, and its
\* plan, and if they change the table it is no longer calm, and behind if it has read.
LeftAlone(c) == /\ pass'[c] = pass[c] /\ plan'[c] = plan[c]
                /\ \/ /\ SameTable
                      /\ c \in behind' <=> c \in behind
                      /\ c \in calm' <=> c \in calm
                   \/ /\ c \notin calm'
                      /\ c \in behind' <=> (c \in behind \/ pass[c] \in Pending)

LEMMA DisturbedByOthers ==
  ASSUME NEW c \in Passes, NEW by, c \notin by, Disturb(by), pass'[c] = pass[c], plan'[c] = plan[c]
  PROVE  LeftAlone(c)
BY DEF LeftAlone, Disturb

LEMMA OthersNext ==
  ASSUME IInv, [Next]_vars, NEW c \in Passes, ~ Own(c)
  PROVE  LeftAlone(c)
<1>1. CASE UNCHANGED <<table, behind, calm, passing>>
  BY <1>1 DEF LeftAlone, SameTable, live, table, passing
<1>2. CASE Disturb({}) /\ UNCHANGED passing
  BY <1>2, DisturbedByOthers DEF passing
<1>3. CASE UNCHANGED vars BY <1>1, <1>3 DEF vars, table, passing
<1>4. ASSUME NEW w \in Writers,
             \/ \E q \in Requests : Lookup(w, q) \/ Insert(w, q)
             \/ \E q \in request[w], b \in basis[w] : Update(w, q, b)
             \/ \E b \in basis[w] : UpdateFails(w, b)
      PROVE  LeftAlone(c)
  <2>1. \/ UNCHANGED <<table, behind, calm, passing>>
        \/ Disturb({}) /\ UNCHANGED passing
    BY <1>4 DEF Lookup, Insert, Update, UpdateFails, Acknowledge, history
  <2>2. QED BY <1>1, <1>2, <2>1
<1>5. CASE Recall \/ Touch \/ Age
  <2>1. \/ UNCHANGED <<table, behind, calm, passing>>
        \/ Disturb({}) /\ UNCHANGED passing
    BY <1>5 DEF Recall, Touch, Age, history, table
  <2>2. QED BY <1>1, <1>2, <2>1
<1>6. ASSUME NEW d \in Passes, d # c, Own(d) PROVE LeftAlone(c)
  <2>1. pass'[c] = pass[c] /\ plan'[c] = plan[c]
    BY <1>6 DEF Own, Start, ReadLong, WriteChunks, ReadDuplicates, DeleteDuplicates, ReadStale,
                DeleteStale, Abort, Read, Written, IInv, PassesOK
  <2>2. CASE Start(d)
    BY <1>6, <2>1, <2>2 DEF Start, table, LeftAlone, SameTable, live
  <2>3. CASE ReadLong(d) \/ ReadDuplicates(d) \/ ReadStale(d)
    BY <1>6, <2>1, <2>3
    DEF ReadLong, ReadDuplicates, ReadStale, Read, table, LeftAlone, SameTable, live
  <2>4. CASE Disturb({d})
    BY <1>6, <2>1, <2>4, DisturbedByOthers
  <2>5. CASE UNCHANGED <<behind, calm>> /\ SameTable
    BY <2>1, <2>5 DEF LeftAlone
  <2>6. CASE DeleteDuplicates(d) \/ DeleteStale(d)
    <3>1. Disturb({d}) \/ (Planned(d) = {} /\ UNCHANGED <<behind, calm>>)
      BY <2>6 DEF DeleteDuplicates, DeleteStale, Written
    <3>2. Planned(d) = {} => SameTable
      BY <2>6 DEF DeleteDuplicates, DeleteStale, Merge, Only, SameTable, live
    <3>3. QED BY <2>4, <2>5, <3>1, <3>2
  <2>7. CASE WriteChunks(d)
    <3>1. Disturb({d}) \/ (Planned(d) = {} /\ UNCHANGED <<behind, calm>>)
      BY <2>7 DEF WriteChunks, Written
    <3>2. ASSUME Planned(d) = {} PROVE SameTable
      <4>1. live' = live /\ \A i \in live : rows'[i] = rows[i]
        BY <2>7, <3>2, WriteChunksTable
      <4>2. Tails(d) = {} BY <3>2 DEF Tails
      <4>3. next \in Nat BY DEF IInv, TableOK
      <4>4. next' = next BY <2>7, <4>2, <4>3, FS_EmptySet DEF WriteChunks
      <4>5. QED BY <4>1, <4>4 DEF SameTable
    <3>3. QED BY <2>4, <2>5, <3>1, <3>2
  <2>8. CASE Abort(d)
    <3>1. Disturb({d}) \/ (SameTable /\ UNCHANGED <<behind, calm>>)
      BY <2>8 DEF Abort, SameTable, table, live
    <3>2. QED BY <2>4, <2>5, <3>1
  <2>9. QED BY <1>6, <2>2, <2>3, <2>6, <2>7, <2>8 DEF Own
<1>7. \/ UNCHANGED vars \/ Recall \/ Touch \/ Age
      \/ \E w \in Writers :
           \/ \E q \in Requests : Lookup(w, q) \/ Insert(w, q)
           \/ \E q \in request[w], b \in basis[w] : Update(w, q, b)
           \/ \E b \in basis[w] : UpdateFails(w, b)
      \/ \E d \in Passes : Own(d)
  BY DEF Next, Own
<1>8. QED BY <1>3, <1>4, <1>5, <1>6, <1>7

-----------------------------------------------------------------------------
(* What writers have found and consolidations have planned *)

\* What a writer has found is a first row of the key it writes, as long as it is there.
Based == \A w \in Writers :
           /\ wpc[w] = "new" => basis[w] = {}
           /\ \A q \in request[w], b \in basis[w] :
                /\ b[2].key = q.key /\ b[2].part = 1 /\ b[1] < next
                /\ b[1] \in live => rows[b[1]].key = q.key /\ rows[b[1]].part = 1

\* A planned row keeps its key and its part, and its number is not given again.
Named == \A c \in Passes : \A i \in Planned(c) :
           /\ i < next
           /\ i \in live => rows[i].key = plan[c][i].key /\ rows[i].part = plan[c][i].part

\* As long as the table has not changed, the plan is what is there.
Current == \A c \in Passes \ behind : pass[c] \in Pending =>
             \A i \in Planned(c) : i \in live /\ plan[c][i] = rows[i]

\* Only memories of little importance are pruned.
Low == \A c \in Passes : pass[c] = "pruning" =>
         \A i \in Planned(c) : plan[c][i].imp <= StaleMinImportance

KInv == Based /\ Named /\ Current /\ Low

LEMMA InitK == Init => KInv
<1>1. DOMAIN << >> = {} OBVIOUS
<1>2. QED BY <1>1 DEF Init, KInv, Based, Named, Current, Low, Planned, Pending

\* A step leaves what a writer has found, or forgets it, or is the lookup.
LEMMA BasedNext == IInv /\ Based /\ [Next]_vars => Based'
<1> SUFFICES ASSUME IInv, Based, [Next]_vars PROVE Based'
  OBVIOUS
<1>1. Stable BY StableNext
<1>2. next \in Nat /\ next' \in Nat /\ \A w \in Writers : \A b \in basis[w] : b[1] \in Nat
  BY NextInv, MemoryAssumption DEF IInv, TableOK, WritersOK, Ids
<1>3. ASSUME NEW w \in Writers, NEW q \in request[w], NEW b \in basis[w]
      PROVE  /\ b[2].key = q.key /\ b[2].part = 1 /\ b[1] < next'
             /\ b[1] \in live' => rows'[b[1]].key = q.key /\ rows'[b[1]].part = 1
  <2>1. /\ b[2].key = q.key /\ b[2].part = 1 /\ b[1] < next
        /\ b[1] \in live => rows[b[1]].key = q.key /\ rows[b[1]].part = 1
    BY DEF Based
  <2>2. b[1] < next' BY <1>1, <1>2, <2>1 DEF Stable
  <2>3. QED BY <1>1, <2>1, <2>2 DEF Stable
<1>4. CASE /\ request' = request
           /\ \A w \in Writers : /\ basis'[w] = basis[w] \/ basis'[w] = {}
                                 /\ wpc'[w] = "new" => wpc[w] = "new"
  BY <1>3, <1>4 DEF Based
<1>5. ASSUME NEW w \in Writers, NEW q \in Requests, Lookup(w, q) PROVE Based'
  <2>1. /\ request' = [request EXCEPT ![w] = {q}] /\ rows' = rows /\ next' = next
        /\ \A v \in Writers : v # w => basis'[v] = basis[v] /\ wpc'[v] = wpc[v]
        /\ wpc'[w] # "new" /\ wpc[w] = "new"
        /\ basis'[w] = basis[w] \/ basis'[w] = {<<i, rows[i]>> : i \in Heads(q.key)}
    BY <1>5 DEF Lookup, Matches, table, IInv, WritersOK
  <2>2. ASSUME NEW r \in request'[w], NEW b \in basis'[w]
        PROVE  /\ b[2].key = r.key /\ b[2].part = 1 /\ b[1] < next'
               /\ b[1] \in live' => rows'[b[1]].key = r.key /\ rows'[b[1]].part = 1
    <3>1. r = q BY <2>1 DEF IInv, WritersOK
    <3>2. PICK i \in Heads(q.key) : b = <<i, rows[i]>> BY <2>1 DEF Based
    <3>3. i < next BY DEF Heads, IInv, TableOK
    <3>4. QED BY <2>1, <3>1, <3>2, <3>3 DEF Heads
  <2>3. \A v \in Writers : v # w => request'[v] = request[v]
    BY <2>1 DEF IInv, WritersOK
  <2>4. QED BY <1>3, <2>1, <2>2, <2>3 DEF Based
<1>6. ASSUME NEW w \in Writers,
             \/ \E q \in Requests : Insert(w, q)
             \/ \E q \in request[w], b \in basis[w] : Update(w, q, b)
             \/ \E b \in basis[w] : UpdateFails(w, b)
      PROVE  Based'
  BY <1>4, <1>6 DEF Insert, Update, UpdateFails, Acknowledge, IInv, WritersOK
<1>7. CASE Recall \/ Touch \/ Age
  BY <1>4, <1>7 DEF Recall, Touch, Age, writing
<1>8. ASSUME NEW c \in Passes, Own(c) PROVE Based'
  BY <1>4, <1>8 DEF Own, Start, ReadLong, WriteChunks, ReadDuplicates, DeleteDuplicates, ReadStale,
                    DeleteStale, Abort, Read, Written, writing
<1>9. CASE UNCHANGED vars
  BY <1>4, <1>9 DEF vars
<1>10. QED BY <1>5, <1>6, <1>7, <1>8, <1>9 DEF Next, Own

\* A step that reads leaves the table, and plans rows as they are.
LEMMA ReadSteps ==
  ASSUME IInv, NEW c \in Passes, ReadLong(c) \/ ReadDuplicates(c) \/ ReadStale(c)
  PROVE  /\ SameTable /\ behind' = behind \ {c} /\ calm' = calm
         /\ Planned(c)' \subseteq live
         /\ \A i \in Planned(c)' : plan'[c][i] = rows[i]
<1>1. ASSUME NEW step, NEW S \in SUBSET live, Read(c, step, S)
      PROVE  /\ SameTable /\ behind' = behind \ {c} /\ calm' = calm
             /\ Planned(c)' \subseteq live
             /\ \A i \in Planned(c)' : plan'[c][i] = rows[i]
  <2>1. SameTable /\ behind' = behind \ {c} /\ calm' = calm
    BY <1>1 DEF Read, table, SameTable, live
  <2>2. plan'[c] = [i \in S |-> rows[i]] BY <1>1 DEF Read, IInv, PassesOK
  <2>3. QED BY <2>1, <2>2 DEF Planned
<1>2. CASE ReadLong(c)
  <2>1. {i \in live : Long(rows[i].text)} \in SUBSET live OBVIOUS
  <2>2. QED BY <1>1, <1>2, <2>1 DEF ReadLong
<1>3. CASE ReadDuplicates(c)
  <2>1. PICK S \in SUBSET live : Read(c, "deduping", live \ S) BY <1>3 DEF ReadDuplicates
  <2>2. live \ S \in SUBSET live OBVIOUS
  <2>3. QED BY <1>1, <2>1, <2>2
<1>4. CASE ReadStale(c)
  <2>1. {i \in live : rows[i].imp <= StaleMinImportance /\ rows[i].stale} \in SUBSET live
    OBVIOUS
  <2>2. QED BY <1>1, <1>4, <2>1 DEF ReadStale
<1>5. QED BY <1>2, <1>3, <1>4

\* A step that writes, or none, drops the plan.
LEMMA WriteSteps ==
  ASSUME IInv, NEW c \in Passes, WriteChunks(c) \/ DeleteDuplicates(c) \/ DeleteStale(c) \/ Abort(c)
  PROVE  /\ plan'[c] = << >> /\ pass[c] # "new" /\ pass'[c] \notin Pending \cup {"new"}
         /\ c \in behind' <=> c \in behind
         /\ c \in calm' <=> c \in calm
<1>1. CASE WriteChunks(c) \/ DeleteDuplicates(c) \/ DeleteStale(c)
  <2>1. PICK step \in {"dedup", "prune", "done"} : Written(c, step)
    BY <1>1 DEF WriteChunks, DeleteDuplicates, DeleteStale
  <2>2. plan'[c] = << >> /\ pass'[c] = step
    BY <2>1 DEF Written, IInv, PassesOK
  <2>3. (c \in behind' <=> c \in behind) /\ (c \in calm' <=> c \in calm)
    BY <2>1 DEF Written, Disturb
  <2>4. pass[c] # "new" BY <1>1 DEF WriteChunks, DeleteDuplicates, DeleteStale
  <2>5. QED BY <2>2, <2>3, <2>4 DEF Pending
<1>2. CASE Abort(c)
  <2>1. plan'[c] = << >> /\ pass'[c] = "aborted" /\ pass[c] # "new"
    BY <1>2 DEF Abort, IInv, PassesOK, Reading, Pending
  <2>2. (c \in behind' <=> c \in behind) /\ (c \in calm' <=> c \in calm)
    BY <1>2 DEF Abort, Disturb
  <2>3. QED BY <2>1, <2>2 DEF Pending
<1>3. QED BY <1>1, <1>2

LEMMA PlansNext == IInv /\ Named /\ Current /\ Low /\ [Next]_vars => (Named /\ Current /\ Low)'
<1> SUFFICES ASSUME IInv, Named, Current, Low, [Next]_vars, NEW c \in Passes
             PROVE  /\ \A i \in Planned(c)' :
                         /\ i < next'
                         /\ i \in live' => /\ rows'[i].key = plan'[c][i].key
                                           /\ rows'[i].part = plan'[c][i].part
                    /\ c \notin behind' /\ pass'[c] \in Pending =>
                         \A i \in Planned(c)' : i \in live' /\ plan'[c][i] = rows'[i]
                    /\ pass'[c] = "pruning" =>
                         \A i \in Planned(c)' : plan'[c][i].imp <= StaleMinImportance
  BY DEF Named, Current, Low
<1>1. Stable BY StableNext
<1>2. next \in Nat /\ next' \in Nat /\ \A i \in live : i < next
  BY NextInv, MemoryAssumption DEF IInv, TableOK
<1>3. ASSUME plan'[c] = plan[c]
      PROVE  \A i \in Planned(c)' :
               /\ i < next'
               /\ i \in live' => /\ rows'[i].key = plan'[c][i].key
                                 /\ rows'[i].part = plan'[c][i].part
  <2>1. \A i \in Planned(c) : i \in Nat BY MemoryAssumption DEF IInv, PassesOK, Ids
  <2>2. \A i \in Planned(c) :
           /\ i < next
           /\ i \in live => rows[i].key = plan[c][i].key /\ rows[i].part = plan[c][i].part
    BY DEF Named
  <2>3. Planned(c)' = Planned(c) BY <1>3 DEF Planned
  <2>4. QED BY <1>1, <1>2, <1>3, <2>1, <2>2, <2>3 DEF Stable
<1>4. CASE ~ Own(c)
  <2>1. LeftAlone(c) BY <1>4, OthersNext
  <2>2. Planned(c)' = Planned(c) BY <2>1 DEF LeftAlone, Planned
  <2>3. ASSUME c \notin behind', pass'[c] \in Pending
        PROVE  \A i \in Planned(c)' : i \in live' /\ plan'[c][i] = rows'[i]
    BY <2>1, <2>2, <2>3 DEF LeftAlone, SameTable, Current
  <2>4. pass'[c] = "pruning" => \A i \in Planned(c)' : plan'[c][i].imp <= StaleMinImportance
    BY <2>1, <2>2 DEF LeftAlone, Low
  <2>5. QED BY <1>3, <2>1, <2>3, <2>4 DEF LeftAlone
<1>5. CASE ReadLong(c) \/ ReadDuplicates(c) \/ ReadStale(c)
  <2>1. SameTable BY <1>5, ReadSteps
  <2>2. Planned(c)' \subseteq live /\ \A i \in Planned(c)' : plan'[c][i] = rows[i]
    BY <1>5, ReadSteps
  <2>3. pass'[c] = "pruning" => \A i \in Planned(c)' : plan'[c][i].imp <= StaleMinImportance
    <3>1. CASE ReadStale(c)
      <4>1. plan'[c] = [i \in {i \in live : rows[i].imp <= StaleMinImportance /\ rows[i].stale}
                          |-> rows[i]]
        BY <3>1 DEF ReadStale, Read, IInv, PassesOK
      <4>2. QED BY <4>1 DEF Planned
    <3>2. CASE ReadLong(c) \/ ReadDuplicates(c)
      <4>1. pass'[c] = "chunking" \/ pass'[c] = "deduping"
        BY <3>2 DEF ReadLong, ReadDuplicates, Read, IInv, PassesOK
      <4>2. QED BY <4>1
    <3>3. QED BY <1>5, <3>1, <3>2
  <2>4. QED BY <1>2, <2>1, <2>2, <2>3 DEF SameTable
<1>6. CASE Start(c)
  BY <1>3, <1>6 DEF Start, IInv, PassesOK, Pending
<1>7. CASE WriteChunks(c) \/ DeleteDuplicates(c) \/ DeleteStale(c) \/ Abort(c)
  <2>1. plan'[c] = << >> BY <1>7, WriteSteps
  <2>2. Planned(c)' = {} BY <2>1 DEF Planned
  <2>3. QED BY <2>2
<1>8. QED BY <1>4, <1>5, <1>6, <1>7 DEF Own

LEMMA KNext == IInv /\ KInv /\ [Next]_vars => KInv'
BY BasedNext, PlansNext DEF KInv

LEMMA KHolds == Spec => []KInv
BY InitK, KNext, InvHolds, PTL DEF Spec

\* A chunk is a text that is chunked no further.
LEMMA ChunkShort ==
  ASSUME NEW t \in Texts, NEW n \in 1 .. Len(Chunks[t])
  PROVE  /\ Chunks[t][n] \in Texts
         /\ Chunks[Chunks[t][n]] = <<Chunks[t][n]>>
         /\ ~ Long(Chunks[t][n])
<1>1. Chunks[t] \in Seq(Texts) BY MemoryAssumption
<1>2. n \in DOMAIN Chunks[t] BY <1>1, LenProperties
<1>3. Chunks[t][n] \in Texts BY <1>1, <1>2, ElementOfSeq, LenProperties
<1>4. Len(Chunks[Chunks[t][n]]) = 1 BY <1>2, MemoryAssumption
<1>5. Chunks[Chunks[t][n]] = <<Chunks[t][n]>> BY <1>3, <1>4, MemoryAssumption
<1>6. ~ Long(Chunks[t][n]) BY <1>4 DEF Long
<1>7. QED BY <1>3, <1>5, <1>6

\* Every text has a first chunk.
LEMMA FirstChunk ==
  ASSUME NEW t \in Texts
  PROVE  1 \in 1 .. Len(Chunks[t])
<1>1. Chunks[t] \in Seq(Texts) /\ Chunks[t] # << >> BY MemoryAssumption
<1>2. QED BY <1>1, EmptySeq, LenProperties

-----------------------------------------------------------------------------
(* Normalised *)

Short == \A i \in live : ~ Long(rows[i].text)

Distant(S) == \A i, j \in S : i # j => rows[i].text # rows[j].text /\ ~ Alike(i, j)

\* What the steps of a consolidation that is alone have reached so far.
Sorted(c) ==
  /\ pass[c] = "chunking" => \A i \in live : Long(rows[i].text) => i \in Planned(c)
  /\ pass[c] \in {"dedup", "deduping", "prune", "pruning", "done"} => Short
  /\ pass[c] = "deduping" => Distant(live \ Planned(c))
  /\ pass[c] \in {"prune", "pruning", "done"} => Distant(live)
  /\ pass[c] = "pruning" =>
       \A i \in live : rows[i].stale /\ rows[i].imp <= StaleMinImportance => i \in Planned(c)
  /\ pass[c] = "done" => \A i \in live : rows[i].stale => rows[i].imp > StaleMinImportance

NInv == /\ calm \cap behind = {}
        /\ \A c \in calm \cup behind : pass[c] # "new"
        /\ \A c \in calm : Sorted(c)

LEMMA NNormalised == IInv /\ NInv => Normalised
BY DEF NInv, Sorted, Short, Distant, Normalised, IInv, HistoryOK

\* What is reached stays reached as long as the table and the plan are left alone.
LEMMA SortedAlone ==
  ASSUME IInv, NEW c \in Passes, Sorted(c), SameTable, plan'[c] = plan[c], pass'[c] = pass[c]
  PROVE  Sorted(c)'
<1>1. Planned(c)' = Planned(c) BY DEF Planned
<1>2. Short => Short' BY DEF Short, SameTable
<1>3. live' = live /\ \A i \in live : rows'[i] = rows[i] BY DEF SameTable
<1>4. QED BY <1>1, <1>2, <1>3 DEF Sorted, Distant, Alike, Embedded

LEMMA ReadSorted ==
  ASSUME IInv, NEW c \in Passes, Sorted(c), ReadLong(c) \/ ReadDuplicates(c) \/ ReadStale(c)
  PROVE  Sorted(c)'
<1>1. live' = live /\ (\A i \in live : rows'[i] = rows[i]) BY ReadSteps DEF SameTable
<1>2. Short => Short' BY <1>1 DEF Short
<1>3. CASE ReadLong(c)
  <2>1. pass'[c] = "chunking" /\ Planned(c)' = {i \in live : Long(rows[i].text)}
    BY <1>3 DEF ReadLong, Read, Planned, IInv, PassesOK
  <2>2. QED BY <1>1, <2>1 DEF Sorted
<1>4. CASE ReadDuplicates(c)
  <2>1. PICK S \in SUBSET live : Survivors(S) /\ Read(c, "deduping", live \ S)
    BY <1>4 DEF ReadDuplicates
  <2>2. pass'[c] = "deduping" /\ Planned(c)' = live \ S
    BY <2>1 DEF Read, Planned, IInv, PassesOK
  <2>3. Distant(live \ Planned(c))'
    BY <1>1, <2>1, <2>2 DEF Survivors, Distinct, Distant, Alike, Embedded
  <2>4. Short' BY <1>2, <1>4 DEF Sorted, ReadDuplicates
  <2>5. QED BY <2>2, <2>3, <2>4 DEF Sorted
<1>5. CASE ReadStale(c)
  <2>1. /\ pass[c] = "prune" /\ pass'[c] = "pruning"
        /\ Planned(c)' = {i \in live : rows[i].imp <= StaleMinImportance /\ rows[i].stale}
    BY <1>5 DEF ReadStale, Read, Planned, IInv, PassesOK
  <2>2. Short' BY <1>2, <2>1 DEF Sorted
  <2>3. Distant(live)' BY <1>1, <2>1 DEF Sorted, Distant, Alike, Embedded
  <2>4. QED BY <1>1, <2>1, <2>2, <2>3 DEF Sorted
<1>6. QED BY <1>3, <1>4, <1>5

\* Chunking leaves no long memory: what was long is cut, and chunks are short.
LEMMA ChunkSorted ==
  ASSUME IInv, NEW c \in Passes, Sorted(c), WriteChunks(c)
  PROVE  Sorted(c)'
<1>1. pass[c] = "chunking" /\ pass'[c] = "dedup"
  BY DEF WriteChunks, Written, IInv, PassesOK
<1>2. ASSUME NEW i \in live' PROVE ~ Long(rows'[i].text)
  <2>1. CASE i \in live /\ i \notin Planned(c)
    <3>1. ~ Long(rows[i].text) BY <1>1, <2>1 DEF Sorted
    <3>2. QED BY <2>1, <3>1, WriteChunksRows
  <2>2. CASE i \in Planned(c)
    <3>1. rows'[i] = [rows[i] EXCEPT !.text = Chunks[plan[c][i].text][1]] /\ rows[i] \in Row
      BY <2>2, WriteChunksRows DEF IInv, TableOK
    <3>2. plan[c][i].text \in Texts BY <2>2 DEF IInv, PassesOK, Row
    <3>3. ~ Long(Chunks[plan[c][i].text][1]) BY <3>2, FirstChunk, ChunkShort
    <3>4. QED BY <3>1, <3>3 DEF Row
  <2>3. CASE i \notin live
    <3>1. PICK p \in Planned(c) : \E n \in 2 .. Len(Chunks[plan[c][p].text]) :
                                    rows'[i] = ChunkRow(plan[c][p], n)
      BY <2>3, WriteChunksRows
    <3>2. PICK n \in 2 .. Len(Chunks[plan[c][p].text]) : rows'[i] = ChunkRow(plan[c][p], n)
      BY <3>1
    <3>3. plan[c][p].text \in Texts BY DEF IInv, PassesOK, Row
    <3>4. n \in 1 .. Len(Chunks[plan[c][p].text]) OBVIOUS
    <3>5. ~ Long(Chunks[plan[c][p].text][n]) BY <3>3, <3>4, ChunkShort
    <3>6. QED BY <3>2, <3>5 DEF ChunkRow
  <2>4. QED BY <2>1, <2>2, <2>3
<1>3. QED BY <1>1, <1>2 DEF Sorted, Short

\* Deleting keeps what has been reached of the rows that stay.
LEMMA DeleteSorted ==
  ASSUME IInv, NEW c \in Passes, Sorted(c), DeleteDuplicates(c) \/ DeleteStale(c) \/ Abort(c)
  PROVE  Sorted(c)'
<1>1. live' \subseteq live /\ \A i \in live' : rows'[i] = rows[i] BY DeleteRows
<1>2. Short => Short' BY <1>1 DEF Short
<1>3. CASE DeleteDuplicates(c)
  <2>1. pass[c] = "deduping" /\ pass'[c] = "prune" /\ live' = live \ Planned(c)
    BY <1>3 DEF DeleteDuplicates, Written, Merge, Only, live, IInv, PassesOK
  <2>2. Distant(live)' BY <1>1, <2>1 DEF Sorted, Distant, Alike, Embedded
  <2>3. QED BY <1>2, <2>1, <2>2 DEF Sorted
<1>4. CASE DeleteStale(c)
  <2>1. pass[c] = "pruning" /\ pass'[c] = "done" /\ live' = live \ Planned(c)
    BY <1>4 DEF DeleteStale, Written, Only, live, IInv, PassesOK
  <2>2. Distant(live)' BY <1>1, <2>1 DEF Sorted, Distant, Alike, Embedded
  <2>3. ASSUME NEW i \in live', rows'[i].stale PROVE rows'[i].imp > StaleMinImportance
    <3>1. ~ rows[i].imp <= StaleMinImportance BY <1>1, <2>1, <2>3 DEF Sorted
    <3>2. rows[i].imp \in 1 .. 5 BY <1>1 DEF IInv, TableOK, Row, Importances
    <3>3. QED BY <1>1, <3>1, <3>2 DEF StaleMinImportance
  <2>4. QED BY <1>2, <2>1, <2>2, <2>3 DEF Sorted
<1>5. CASE Abort(c)
  <2>1. pass'[c] = "aborted" BY <1>5 DEF Abort, IInv, PassesOK
  <2>2. QED BY <2>1 DEF Sorted
<1>6. QED BY <1>3, <1>4, <1>5

LEMMA NNext == IInv /\ NInv /\ [Next]_vars => NInv'
<1> SUFFICES ASSUME IInv, NInv, [Next]_vars PROVE NInv'
  OBVIOUS
<1>1. calm' \subseteq Passes /\ behind' \subseteq Passes
  BY NextInv DEF IInv, HistoryOK
<1>2. ASSUME NEW c \in Passes
      PROVE  /\ ~ (c \in calm' /\ c \in behind')
             /\ c \in calm' \cup behind' => pass'[c] # "new"
             /\ c \in calm' => Sorted(c)'
  <2>1. CASE ~ Own(c)
    <3>1. LeftAlone(c) BY <2>1, OthersNext
    <3>2. CASE SameTable /\ (c \in behind' <=> c \in behind) /\ (c \in calm' <=> c \in calm)
      BY <3>1, <3>2, SortedAlone DEF LeftAlone, NInv
    <3>3. CASE c \notin calm' /\ (c \in behind' <=> (c \in behind \/ pass[c] \in Pending))
      BY <3>1, <3>3 DEF LeftAlone, NInv, Pending
    <3>4. QED BY <3>1, <3>2, <3>3 DEF LeftAlone
  <2>2. CASE ReadLong(c) \/ ReadDuplicates(c) \/ ReadStale(c)
    <3>1. c \notin behind' /\ calm' = calm BY <2>2, ReadSteps
    <3>2. pass'[c] # "new"
      BY <2>2 DEF ReadLong, ReadDuplicates, ReadStale, Read, IInv, PassesOK
    <3>3. c \in calm' => Sorted(c)' BY <2>2, <3>1, ReadSorted DEF NInv
    <3>4. QED BY <3>1, <3>2, <3>3
  <2>3. CASE WriteChunks(c) \/ DeleteDuplicates(c) \/ DeleteStale(c) \/ Abort(c)
    <3>1. /\ pass'[c] # "new"
          /\ c \in behind' <=> c \in behind
          /\ c \in calm' <=> c \in calm
      BY <2>3, WriteSteps
    <3>2. c \in calm' => Sorted(c)' BY <2>3, <3>1, ChunkSorted, DeleteSorted DEF NInv
    <3>3. QED BY <3>1, <3>2 DEF NInv
  <2>4. CASE Start(c)
    <3>1. pass[c] = "new" /\ pass'[c] = "chunk" /\ behind' = behind
      BY <2>4 DEF Start, IInv, PassesOK
    <3>2. c \notin behind' BY <3>1 DEF NInv
    <3>3. Sorted(c)' BY <3>1 DEF Sorted
    <3>4. QED BY <3>1, <3>2, <3>3
  <2>5. QED BY <2>1, <2>2, <2>3, <2>4 DEF Own
<1>3. QED BY <1>1, <1>2 DEF NInv

\* A consolidation whose three steps nobody came between leaves the table without long
\* memories, without two that _similarity takes for duplicates, and with nothing to prune.
THEOREM NormalisedHolds == Spec => []Normalised
<1>1. Init => NInv BY DEF Init, NInv
<1>2. QED BY <1>1, NNext, NNormalised, InvHolds, PTL DEF Spec

\* The steps that write no text and delete no row.
Harmless == /\ live' = live /\ last' = last /\ crossed' = crossed /\ merged' = merged
            /\ overlapped \subseteq overlapped'
            /\ \A i \in live : /\ rows'[i].key = rows[i].key /\ rows'[i].part = rows[i].part
                               /\ rows'[i].text = rows[i].text /\ rows'[i].imp = rows[i].imp

LEMMA HarmlessSteps ==
  ASSUME IInv, [Next]_vars
  PROVE  \/ Harmless
         \/ \E w \in Writers : \E q \in request[w] :
              Insert(w, q) \/ \E b \in basis[w] : Update(w, q, b)
         \/ \E c \in Passes :
              WriteChunks(c) \/ DeleteDuplicates(c) \/ DeleteStale(c) \/ Abort(c)
<1>1. CASE UNCHANGED vars BY <1>1 DEF Harmless, vars, live
<1>2. ASSUME NEW w \in Writers, NEW q \in Requests, Lookup(w, q) PROVE Harmless
  BY <1>2 DEF Lookup, Harmless, table, live
<1>3. ASSUME NEW w \in Writers, NEW b \in basis[w], UpdateFails(w, b) PROVE Harmless
  BY <1>3 DEF UpdateFails, Harmless, table, history, live
<1>4. CASE Recall BY <1>4 DEF Recall, Harmless, table, history, live
<1>5. CASE Touch \/ Age
  <2>1. UNCHANGED <<last, crossed, merged, overlapped>> BY <1>5 DEF Touch, Age
  <2>2. QED BY <1>5, <2>1, AgeRows DEF Harmless
<1>6. ASSUME NEW c \in Passes, Start(c) \/ ReadLong(c) \/ ReadDuplicates(c) \/ ReadStale(c)
      PROVE  Harmless
  BY <1>6 DEF Start, ReadLong, ReadDuplicates, ReadStale, Read, Harmless, table, live
<1>7. \A w \in Writers : \A q \in Requests : Insert(w, q) => q \in request[w]
  BY DEF Insert
<1>8. QED BY <1>1, <1>2, <1>3, <1>4, <1>5, <1>6, <1>7 DEF Next

-----------------------------------------------------------------------------
(* Kept *)

\* What was last written under k is there, whole or cut.
Present(k, q) == \E i \in Heads(k) : /\ rows[i].text \in {q.text, Chunks[q.text][1]}
                                     /\ rows[i].imp = q.imp

LEMMA LastType ==
  ASSUME IInv, NEW k \in Keys, NEW q \in last[k]
  PROVE  q \in Requests /\ q.text \in Texts /\ q.imp \in 1 .. 5
BY RequestType DEF IInv, HistoryOK, Importances

\* A step that leaves the history of k and each of its first rows, or what they say.
LEMMA PresentStays ==
  ASSUME NEW k \in Keys, NEW q, Present(k, q),
         \A i \in Heads(k) : /\ i \in live'
                             /\ rows'[i].key = rows[i].key /\ rows'[i].part = rows[i].part
                             /\ rows'[i].text = rows[i].text /\ rows'[i].imp = rows[i].imp
  PROVE  Present(k, q)'
BY DEF Present, Heads

\* An update after which its key is not crossed has found the row as it was read.
LEMMA UpdateUnmet ==
  ASSUME IInv, KInv, NEW w \in Writers, NEW q \in request[w], NEW b \in basis[w],
         Update(w, q, b), q.key \notin crossed'
  PROVE  /\ b[1] \in live /\ rows[b[1]] = b[2]
         /\ rows[b[1]].key = q.key /\ rows[b[1]].part = 1
<1>1. b[1] \in live /\ Acknowledge(w, q, rows[b[1]] # b[2]) BY DEF Update
<1>2. crossed' = IF rows[b[1]] # b[2] THEN crossed \cup {q.key} ELSE crossed \ {q.key}
  BY <1>1 DEF Acknowledge
<1>3. rows[b[1]] = b[2] BY <1>2
<1>4. rows[b[1]].key = q.key /\ rows[b[1]].part = 1 BY <1>1 DEF KInv, Based
<1>5. QED BY <1>1, <1>3, <1>4

\* A write that returns says what is last; one of another key leaves k alone.
LEMMA WriteKept ==
  ASSUME IInv, KInv, Kept, NEW w \in Writers,
         NEW q \in request[w], Insert(w, q) \/ \E b \in basis[w] : Update(w, q, b)
  PROVE  Kept'
<1> SUFFICES ASSUME NEW k \in Keys \ (overlapped' \cup crossed'), NEW r \in last'[k],
                    r.imp > StaleMinImportance, <<k, 1>> \notin merged'
             PROVE  Present(k, r)'
  BY DEF Kept, Present
<1>1. q \in Requests /\ q.key \in Keys BY RequestType DEF IInv, WritersOK
<1>2. /\ last' = [last EXCEPT ![q.key] = {q}] /\ overlapped' = overlapped
      /\ merged' = {m \in merged : m[1] # q.key}
      /\ k # q.key => k \notin crossed
  BY DEF Insert, Update, Acknowledge
<1>3. CASE k # q.key
  <2>1. r \in last[k] /\ k \notin crossed /\ k \notin overlapped
    BY <1>1, <1>2, <1>3 DEF IInv, HistoryOK
  <2>2. <<k, 1>> \notin merged BY <1>2, <1>3
  <2>3. Present(k, r) BY <2>1, <2>2 DEF Kept, Present
  <2>4. \A i \in Heads(k) : i \in live' /\ rows'[i] = rows[i]
    <3> SUFFICES ASSUME NEW i \in Heads(k) PROVE i \in live' /\ rows'[i] = rows[i]
      OBVIOUS
    <3>1. CASE Insert(w, q) BY <1>1, <3>1, InsertRows DEF Heads
    <3>2. ASSUME NEW b \in basis[w], Update(w, q, b) PROVE i \in live' /\ rows'[i] = rows[i]
      <4>1. b[1] \in live /\ rows[b[1]].key = q.key
        BY <3>2 DEF Update, KInv, Based
      <4>2. i # b[1] /\ i \in live BY <1>3, <4>1 DEF Heads
      <4>3. QED BY <3>2, <4>2, UpdateRows
    <3>3. QED BY <3>1, <3>2
  <2>5. QED BY <2>3, <2>4, PresentStays
<1>4. CASE k = q.key
  <2>1. r = q BY <1>1, <1>2, <1>4 DEF IInv, HistoryOK
  <2>2. CASE Insert(w, q)
    <3>1. /\ next \in live'
          /\ rows'[next].key = q.key /\ rows'[next].part = 1
          /\ rows'[next].text = q.text /\ rows'[next].imp = q.imp
      BY <1>1, <2>2, InsertRows
    <3>2. QED BY <1>4, <2>1, <3>1 DEF Present, Heads
  <2>3. ASSUME NEW b \in basis[w], Update(w, q, b) PROVE Present(k, r)'
    <3>1. b[1] \in live /\ rows[b[1]] = b[2] /\ rows[b[1]].key = q.key /\ rows[b[1]].part = 1
      BY <1>4, <2>3, UpdateUnmet
    <3>2. /\ b[1] \in live'
          /\ rows'[b[1]].key = q.key /\ rows'[b[1]].part = 1
          /\ rows'[b[1]].text = q.text /\ rows'[b[1]].imp = q.imp
      BY <2>3, <3>1, UpdateRows
    <3>3. QED BY <1>4, <2>1, <3>2 DEF Present, Heads
  <2>4. QED BY <2>2, <2>3
<1>5. QED BY <1>3, <1>4

\* A step of a consolidation that writes: a first row is cut to its first chunk, or is
\* deleted as a duplicate, or is of too little importance, or the key is crossed.
LEMMA ConsolidateKept ==
  ASSUME IInv, KInv, Kept, NEW c \in Passes,
         WriteChunks(c) \/ DeleteDuplicates(c) \/ DeleteStale(c) \/ Abort(c)
  PROVE  Kept'
<1> SUFFICES ASSUME NEW k \in Keys \ (overlapped' \cup crossed'), NEW q \in last'[k],
                    q.imp > StaleMinImportance, <<k, 1>> \notin merged'
             PROVE  Present(k, q)'
  BY DEF Kept, Present
<1>1. last' = last /\ overlapped' = overlapped /\ crossed \subseteq crossed'
      /\ merged \subseteq merged'
  BY DEF WriteChunks, DeleteDuplicates, DeleteStale, Abort, Written, Merge
<1>2. Present(k, q) BY <1>1 DEF Kept, Present
<1>3. PICK i \in Heads(k) : /\ rows[i].text \in {q.text, Chunks[q.text][1]}
                            /\ rows[i].imp = q.imp
  BY <1>2 DEF Present
<1>4. i \in live /\ rows[i] \in Row /\ rows[i].key = k /\ rows[i].part = 1
  BY DEF Heads, IInv, TableOK
<1>5. q.text \in Texts /\ q.imp \in 1 .. 5 BY <1>1, LastType
<1>6. CASE WriteChunks(c)
  <2>1. CASE i \notin Planned(c)
    <3>1. i \in live' /\ rows'[i] = rows[i] BY <1>4, <1>6, <2>1, WriteChunksRows
    <3>2. QED BY <1>3, <1>4, <3>1 DEF Present, Heads
  <2>2. CASE i \in Planned(c)
    <3>1. plan[c][i].key = k BY <1>4, <2>2 DEF KInv, Named
    <3>2. c \notin behind BY <1>6, <2>2, <3>1 DEF WriteChunks, Written
    <3>3. plan[c][i] = rows[i]
      BY <1>6, <2>2, <3>2 DEF WriteChunks, KInv, Current, Pending
    <3>4. /\ i \in live'
          /\ rows'[i] = [rows[i] EXCEPT !.text = Chunks[rows[i].text][1]]
      BY <1>4, <1>6, <2>2, <3>3, WriteChunksRows
    <3>5. Chunks[Chunks[q.text][1]] = <<Chunks[q.text][1]>>
      BY <1>5, FirstChunk, ChunkShort
    <3>6. Chunks[rows[i].text][1] = Chunks[q.text][1] BY <1>3, <3>5
    <3>7. QED BY <1>3, <1>4, <3>4, <3>6 DEF Present, Heads, Row
  <2>3. QED BY <2>1, <2>2
<1>7. CASE DeleteDuplicates(c) \/ DeleteStale(c) \/ Abort(c)
  <2>1. i \in live'
    <3>1. CASE DeleteStale(c)
      <4>1. SUFFICES ASSUME i \in Planned(c) PROVE FALSE
        BY <1>4, <3>1 DEF DeleteStale, Only, live
      <4>2. plan[c][i].key = k BY <1>4, <4>1 DEF KInv, Named
      <4>3. c \notin behind BY <3>1, <4>1, <4>2 DEF DeleteStale, Written
      <4>4. plan[c][i] = rows[i]
        BY <3>1, <4>1, <4>3 DEF DeleteStale, KInv, Current, Pending
      <4>5. rows[i].imp <= StaleMinImportance
        BY <3>1, <4>1, <4>4 DEF DeleteStale, KInv, Low
      <4>6. QED BY <1>3, <1>5, <4>5 DEF StaleMinImportance
    <3>2. ASSUME NEW S, Merge(S) PROVE i \in live'
      <4>1. i \in S => <<k, 1>> \in merged' BY <1>4, <3>2 DEF Merge
      <4>2. QED BY <1>4, <3>2, <4>1 DEF Merge, Only, live
    <3>3. CASE UNCHANGED table BY <1>4, <3>3 DEF table, live
    <3>4. QED BY <1>7, <3>1, <3>2, <3>3 DEF DeleteDuplicates, Abort, table
  <2>2. rows'[i] = rows[i] BY <1>7, <2>1, DeleteRows
  <2>3. QED BY <1>3, <1>4, <2>1, <2>2 DEF Present, Heads
<1>8. QED BY <1>6, <1>7

LEMMA HarmlessKept ==
  ASSUME Kept, Harmless
  PROVE  Kept'
<1> SUFFICES ASSUME NEW k \in Keys \ (overlapped' \cup crossed'), NEW q \in last'[k],
                    q.imp > StaleMinImportance, <<k, 1>> \notin merged'
             PROVE  Present(k, q)'
  BY DEF Kept, Present
<1>1. Present(k, q) BY DEF Kept, Present, Harmless
<1>2. QED BY <1>1, PresentStays DEF Heads, Harmless

LEMMA KeptNext == IInv /\ KInv /\ Kept /\ [Next]_vars => Kept'
BY HarmlessSteps, HarmlessKept, WriteKept, ConsolidateKept

\* What was last written with an importance above the pruned is there, whole or as its
\* first chunk, unless it was deleted as a duplicate, two writes of its key were
\* under way together, or a consolidation that was half way has met it.
THEOREM KeptHolds == Spec => []Kept
<1>1. Init => Kept BY DEF Init, Kept
<1>2. QED BY <1>1, KeptNext, KHolds, InvHolds, PTL DEF Spec

-----------------------------------------------------------------------------
(* KeptWhole *)

\* Chunk n of what was last written under k is there, unless deleted as a duplicate.
Chunked(k, q, n) == \/ <<k, n>> \in merged
                    \/ \E j \in live : /\ rows[j].key = k /\ rows[j].part = n
                                       /\ rows[j].text = Chunks[q.text][n]
                                       /\ rows[j].imp > StaleMinImportance

\* The first row of k, if it is there, is what was last written, whole or cut; and the
\* other chunks are of more importance than is pruned.
Whole(k, q) == \A i \in Heads(k) :
                 /\ rows[i].text \in {q.text, Chunks[q.text][1]}
                 /\ rows[i].imp = q.imp
                 /\ rows[i].text # q.text /\ q.imp - 1 > StaleMinImportance =>
                      \A n \in 2 .. Len(Chunks[q.text]) : Chunked(k, q, n)

AllWhole == \A k \in Keys \ (overlapped \cup crossed) : \A q \in last[k] : Whole(k, q)

LEMMA WholeKept == IInv /\ AllWhole => KeptWhole
BY DEF AllWhole, Whole, Chunked, KeptWhole

\* A step that brings no first row of k, changes none and takes no chunk.
LEMMA WholeStays ==
  ASSUME NEW k, NEW q, Whole(k, q),
         \A i \in Heads(k)' : /\ i \in Heads(k)
                              /\ rows'[i].text = rows[i].text /\ rows'[i].imp = rows[i].imp,
         \A n \in 2 .. Len(Chunks[q.text]) : Chunked(k, q, n) => Chunked(k, q, n)'
  PROVE  Whole(k, q)'
BY DEF Whole

LEMMA HarmlessWhole ==
  ASSUME AllWhole, Harmless
  PROVE  AllWhole'
<1> SUFFICES ASSUME NEW k \in Keys \ (overlapped' \cup crossed'), NEW q \in last'[k]
             PROVE  Whole(k, q)'
  BY DEF AllWhole
<1>1. Whole(k, q) BY DEF AllWhole, Harmless
<1>2. \A i \in Heads(k)' : /\ i \in Heads(k)
                           /\ rows'[i].text = rows[i].text /\ rows'[i].imp = rows[i].imp
  BY DEF Heads, Harmless
<1>3. \A n \in 2 .. Len(Chunks[q.text]) : Chunked(k, q, n) => Chunked(k, q, n)'
  BY DEF Chunked, Harmless
<1>4. QED BY <1>1, <1>2, <1>3, WholeStays

\* A write leaves its key with one row, whole, and other keys alone.
LEMMA WriteWhole ==
  ASSUME IInv, KInv, AllSingle, AllWhole, NEW w \in Writers,
         NEW q \in request[w], Insert(w, q) \/ \E b \in basis[w] : Update(w, q, b)
  PROVE  AllWhole'
<1> SUFFICES ASSUME NEW k \in Keys \ (overlapped' \cup crossed'), NEW r \in last'[k]
             PROVE  Whole(k, r)'
  BY DEF AllWhole
<1>1. q \in Requests /\ q.key \in Keys BY RequestType DEF IInv, WritersOK
<1>2. /\ last' = [last EXCEPT ![q.key] = {q}] /\ overlapped' = overlapped
      /\ merged' = {m \in merged : m[1] # q.key}
      /\ k # q.key => k \notin crossed
  BY DEF Insert, Update, Acknowledge
<1>3. CASE k # q.key
  <2>1. r \in last[k] /\ k \notin crossed /\ k \notin overlapped
    BY <1>1, <1>2, <1>3 DEF IInv, HistoryOK
  <2>2. Whole(k, r) BY <2>1 DEF AllWhole
  <2>3. /\ \A i \in live : rows[i].key = k => i \in live' /\ rows'[i] = rows[i]
        /\ \A i \in live' : rows'[i].key = k => i \in live
    <3>1. CASE Insert(w, q)
      <4>1. live' = live \cup {next} /\ \A i \in live : rows'[i] = rows[i]
        BY <1>1, <3>1, InsertRows
      <4>2. rows'[next].key = q.key BY <1>1, <3>1, InsertRows
      <4>3. QED BY <1>3, <4>1, <4>2
    <3>2. ASSUME NEW b \in basis[w], Update(w, q, b)
          PROVE  /\ live' = live
                 /\ \A i \in live : rows[i].key = k => rows'[i] = rows[i]
      <4>1. b[1] \in live /\ rows[b[1]].key = q.key
        BY <3>2 DEF Update, KInv, Based
      <4>2. \A i \in live : rows[i].key = k => i # b[1] BY <1>3, <4>1
      <4>3. QED BY <3>2, <4>2, UpdateRows
    <3>3. QED BY <3>1, <3>2
  <2>4. \A i \in live' : rows'[i].key = k => i \in live /\ rows[i] = rows'[i]
    <3>1. CASE Insert(w, q) BY <1>1, <2>3, <3>1, InsertRows
    <3>2. ASSUME NEW b \in basis[w], Update(w, q, b), NEW i \in live', rows'[i].key = k
          PROVE  i \in live /\ rows[i] = rows'[i]
      <4>1. i \in live /\ rows[i].key = k BY <3>2, UpdateRows
      <4>2. QED BY <2>3, <4>1
    <3>3. QED BY <3>1, <3>2
  <2>5. \A i \in Heads(k)' : /\ i \in Heads(k)
                             /\ rows'[i].text = rows[i].text /\ rows'[i].imp = rows[i].imp
    BY <2>4 DEF Heads
  <2>6. \A n \in 2 .. Len(Chunks[r.text]) : Chunked(k, r, n) => Chunked(k, r, n)'
    BY <1>2, <1>3, <2>3 DEF Chunked
  <2>7. QED BY <2>2, <2>5, <2>6, WholeStays
<1>4. CASE k = q.key
  <2>1. r = q BY <1>1, <1>2, <1>4 DEF IInv, HistoryOK
  <2>2. Single(k) /\ w \in Writing(k)
    <3>1. k \notin overlapped /\ wpc[w] = "embedding"
      BY <1>2 DEF Insert, Update
    <3>2. QED BY <1>4, <3>1 DEF AllSingle, Writing
  <2>3. ASSUME NEW i \in Heads(k)' PROVE rows'[i].text = q.text /\ rows'[i].imp = q.imp
    <3>1. CASE Insert(w, q)
      <4>1. Heads(k) = {} BY <2>2, <3>1 DEF Insert, Single
      <4>2. live' = live \cup {next} /\ \A j \in live : rows'[j] = rows[j]
        BY <1>1, <3>1, InsertRows
      <4>3. i = next BY <2>3, <4>1, <4>2 DEF Heads
      <4>4. rows'[next].text = q.text /\ rows'[next].imp = q.imp
        BY <1>1, <3>1, InsertRows
      <4>5. QED BY <4>3, <4>4
    <3>2. ASSUME NEW b \in basis[w], Update(w, q, b)
          PROVE  rows'[i].text = q.text /\ rows'[i].imp = q.imp
      <4>1. /\ b[1] \in live /\ rows[b[1]] = b[2]
            /\ rows[b[1]].key = q.key /\ rows[b[1]].part = 1
        BY <1>4, <3>2, UpdateUnmet
      <4>2. i \in live /\ rows[i].key = k /\ rows[i].part = 1
        BY <2>3, <3>2, UpdateRows DEF Heads
      <4>3. i = b[1] BY <1>4, <2>2, <4>1, <4>2 DEF Single, Heads
      <4>4. QED BY <3>2, <4>1, <4>3, UpdateRows
    <3>3. QED BY <3>1, <3>2
  <2>4. QED BY <2>1, <2>3 DEF Whole
<1>5. QED BY <1>3, <1>4

\* Chunking cuts a first row to its first chunk and makes rows of the others.
LEMMA ChunkWhole ==
  ASSUME IInv, KInv, AllWhole, NEW c \in Passes, WriteChunks(c)
  PROVE  AllWhole'
<1> SUFFICES ASSUME NEW k \in Keys \ (overlapped' \cup crossed'), NEW q \in last'[k]
             PROVE  Whole(k, q)'
  BY DEF AllWhole
<1>1. /\ last' = last /\ overlapped' = overlapped /\ crossed \subseteq crossed'
      /\ merged' = merged
  BY DEF WriteChunks, Written
<1>2. Whole(k, q) BY <1>1 DEF AllWhole
<1>3. q.text \in Texts /\ q.imp \in 1 .. 5 BY <1>1, LastType
<1>4. ASSUME NEW i \in Planned(c), rows[i].key = k
      PROVE  i \in live /\ plan[c][i] = rows[i] /\ rows[i] \in Row
  <2>1. i \in live BY DEF WriteChunks
  <2>2. plan[c][i].key = k BY <1>4, <2>1 DEF KInv, Named
  <2>3. c \notin behind BY <2>2 DEF WriteChunks, Written
  <2>4. plan[c][i] = rows[i] BY <2>3 DEF WriteChunks, KInv, Current, Pending
  <2>5. QED BY <2>1, <2>4 DEF IInv, TableOK
\* A row of k that says a chunk of the text says it still.
<1>5. ASSUME NEW i \in live, rows[i].key = k, NEW n \in 1 .. Len(Chunks[q.text]),
             rows[i].text = Chunks[q.text][n]
      PROVE  /\ i \in live' /\ rows'[i].key = k /\ rows'[i].part = rows[i].part
             /\ rows'[i].text = rows[i].text /\ rows'[i].imp = rows[i].imp
  <2>1. CASE i \notin Planned(c) BY <1>5, <2>1, WriteChunksRows
  <2>2. CASE i \in Planned(c)
    <3>1. plan[c][i] = rows[i] /\ rows[i] \in Row BY <1>4, <1>5, <2>2
    <3>2. i \in live' /\ rows'[i] = [rows[i] EXCEPT !.text = Chunks[rows[i].text][1]]
      BY <2>2, <3>1, WriteChunksRows
    <3>3. Chunks[rows[i].text] = <<rows[i].text>> BY <1>3, <1>5, ChunkShort
    <3>4. Chunks[rows[i].text][1] = rows[i].text BY <3>3
    <3>5. QED BY <1>5, <3>1, <3>2, <3>4 DEF Row
  <2>3. QED BY <2>1, <2>2
<1>6. ASSUME NEW n \in 2 .. Len(Chunks[q.text]), Chunked(k, q, n) PROVE Chunked(k, q, n)'
  <2>1. CASE <<k, n>> \in merged BY <1>1, <2>1 DEF Chunked
  <2>2. CASE <<k, n>> \notin merged
    <3>1. PICK j \in live : /\ rows[j].key = k /\ rows[j].part = n
                            /\ rows[j].text = Chunks[q.text][n]
                            /\ rows[j].imp > StaleMinImportance
      BY <1>6, <2>2 DEF Chunked
    <3>2. n \in 1 .. Len(Chunks[q.text]) OBVIOUS
    <3>3. /\ j \in live' /\ rows'[j].key = k /\ rows'[j].part = rows[j].part
          /\ rows'[j].text = rows[j].text /\ rows'[j].imp = rows[j].imp
      BY <1>5, <3>1, <3>2
    <3>4. QED BY <3>1, <3>3 DEF Chunked
  <2>3. QED BY <2>1, <2>2
<1>7. ASSUME NEW i \in Heads(k)'
      PROVE  /\ rows'[i].text \in {q.text, Chunks[q.text][1]}
             /\ rows'[i].imp = q.imp
             /\ rows'[i].text # q.text /\ q.imp - 1 > StaleMinImportance =>
                  \A n \in 2 .. Len(Chunks[q.text]) : Chunked(k, q, n)'
  <2>1. i \in Heads(k) /\ i \in live /\ rows[i].key = k
    BY <1>7, WriteChunksTable DEF Heads
  <2>2. /\ rows[i].text \in {q.text, Chunks[q.text][1]} /\ rows[i].imp = q.imp
        /\ rows[i].text # q.text /\ q.imp - 1 > StaleMinImportance =>
             \A n \in 2 .. Len(Chunks[q.text]) : Chunked(k, q, n)
    BY <1>2, <2>1 DEF Whole
  <2>3. CASE i \notin Planned(c)
    <3>1. rows'[i] = rows[i] BY <2>1, <2>3, WriteChunksRows
    <3>2. QED BY <1>6, <2>2, <3>1
  <2>4. CASE rows[i].text = Chunks[q.text][1]
    <3>1. 1 \in 1 .. Len(Chunks[q.text]) BY <1>3, FirstChunk
    <3>2. rows'[i].text = rows[i].text /\ rows'[i].imp = rows[i].imp
      BY <1>5, <2>1, <2>4, <3>1
    <3>3. QED BY <1>6, <2>2, <3>2
  <2>5. CASE i \in Planned(c) /\ rows[i].text = q.text
    <3>1. plan[c][i] = rows[i] /\ rows[i] \in Row BY <1>4, <2>1, <2>5
    <3>2. rows'[i] = [rows[i] EXCEPT !.text = Chunks[q.text][1]]
      BY <2>5, <3>1, WriteChunksRows
    <3>3. ASSUME q.imp - 1 > StaleMinImportance, NEW n \in 2 .. Len(Chunks[q.text])
          PROVE  Chunked(k, q, n)'
      <4>1. PICK j \in live' : rows'[j] = ChunkRow(rows[i], n)
        BY <2>5, <3>1, WriteChunksRows
      <4>2. rows'[j].imp > StaleMinImportance
        BY <1>3, <2>2, <3>3, <4>1 DEF ChunkRow, StaleMinImportance
      <4>3. QED BY <2>1, <2>5, <4>1, <4>2 DEF Chunked, ChunkRow
    <3>4. QED BY <2>2, <3>1, <3>2, <3>3 DEF Row
  <2>6. QED BY <2>2, <2>3, <2>4, <2>5
<1>8. QED BY <1>7 DEF Whole

\* A chunk that is deleted is remembered as a duplicate; none is pruned.
LEMMA DeleteWhole ==
  ASSUME IInv, KInv, AllWhole, NEW c \in Passes,
         DeleteDuplicates(c) \/ DeleteStale(c) \/ Abort(c)
  PROVE  AllWhole'
<1> SUFFICES ASSUME NEW k \in Keys \ (overlapped' \cup crossed'), NEW q \in last'[k]
             PROVE  Whole(k, q)'
  BY DEF AllWhole
<1>1. last' = last /\ overlapped' = overlapped /\ crossed \subseteq crossed'
      /\ merged \subseteq merged'
  BY DEF DeleteDuplicates, DeleteStale, Abort, Written, Merge
<1>2. Whole(k, q) BY <1>1 DEF AllWhole
<1>3. live' \subseteq live /\ \A i \in live' : rows'[i] = rows[i] BY DeleteRows
<1>4. \A i \in Heads(k)' : /\ i \in Heads(k)
                           /\ rows'[i].text = rows[i].text /\ rows'[i].imp = rows[i].imp
  BY <1>3 DEF Heads
<1>5. ASSUME NEW n \in 2 .. Len(Chunks[q.text]), Chunked(k, q, n), <<k, n>> \notin merged'
      PROVE  Chunked(k, q, n)'
  <2>1. PICK j \in live : /\ rows[j].key = k /\ rows[j].part = n
                          /\ rows[j].text = Chunks[q.text][n]
                          /\ rows[j].imp > StaleMinImportance
    BY <1>1, <1>5 DEF Chunked
  <2>2. j \in live'
    <3>1. CASE DeleteStale(c)
      <4>1. SUFFICES ASSUME j \in Planned(c) PROVE FALSE
        BY <3>1 DEF DeleteStale, Only, live
      <4>2. plan[c][j].key = k BY <2>1, <4>1 DEF KInv, Named
      <4>3. c \notin behind BY <3>1, <4>1, <4>2 DEF DeleteStale, Written
      <4>4. plan[c][j] = rows[j]
        BY <3>1, <4>1, <4>3 DEF DeleteStale, KInv, Current, Pending
      <4>5. rows[j].imp <= StaleMinImportance
        BY <3>1, <4>1, <4>4 DEF DeleteStale, KInv, Low
      <4>6. rows[j].imp \in 1 .. 5 BY DEF IInv, TableOK, Row, Importances
      <4>7. QED BY <2>1, <4>5, <4>6 DEF StaleMinImportance
    <3>2. ASSUME NEW S, Merge(S) PROVE j \in live'
      <4>1. j \in S => <<k, n>> \in merged' BY <2>1, <3>2 DEF Merge
      <4>2. QED BY <1>5, <3>2, <4>1 DEF Merge, Only, live
    <3>3. CASE UNCHANGED table BY <3>3 DEF table, live
    <3>4. QED BY <3>1, <3>2, <3>3 DEF DeleteDuplicates, Abort, table
  <2>3. QED BY <1>3, <2>1, <2>2 DEF Chunked
<1>6. \A n \in 2 .. Len(Chunks[q.text]) : Chunked(k, q, n) => Chunked(k, q, n)'
  BY <1>5 DEF Chunked
<1>7. QED BY <1>2, <1>4, <1>6, WholeStays

LEMMA WholeNext == IInv /\ KInv /\ AllSingle /\ AllWhole /\ [Next]_vars => AllWhole'
BY HarmlessSteps, HarmlessWhole, WriteWhole, ChunkWhole, DeleteWhole

\* What has been cut down to its first chunk and matters has its other chunks beside it,
\* each a row of its key or deleted as a duplicate.
THEOREM KeptWholeHolds == Spec => []KeptWhole
<1>1. Init => AllSingle
  BY DEF Init, AllSingle, Single, Heads, Writing, live
<1>2. Init => AllWhole BY DEF Init, AllWhole
<1>3. IInv /\ AllSingle /\ [Next]_vars => AllSingle' BY NextSingle
<1>4. QED BY <1>1, <1>2, <1>3, WholeNext, WholeKept, KHolds, InvHolds, PTL DEF Spec
=============================================================================
