---------------------------- MODULE AgentMemory ----------------------------
(***************************************************************************)
(* The memories of one agent: rows of a table that are written by key,     *)
(* recalled for a task, and consolidated in the background after a task    *)
(* (backend/app/services/memory_service.py, memory_consolidator.py,        *)
(* execution_service.py, backend/app/models/memory.py).                    *)
(*                                                                         *)
(* The table has no unique key.  A write looks its key up, waits for the   *)
(* embedding of its text, and then updates or inserts.  A consolidation    *)
(* has three steps, and each reads the table, decides, and commits; writes,*)
(* recalls and other consolidations come in between, and a commit changes  *)
(* or deletes the rows that were read whatever has become of them since.   *)
(*                                                                         *)
(* A row keeps the embedding that its text had when it was written, if one *)
(* could be had.  Chunking changes the text and not the embedding, and     *)
(* gives its new rows none, so that two rows are compared by embeddings    *)
(* that need not be those of their texts, or by their words.               *)
(*                                                                         *)
(* A row's key is the key it was written by and the number of its chunk.   *)
(* Ages come in two, and the order among rows of one age is not modelled.  *)
(* The variables named history are there for the properties only.          *)
(***************************************************************************)
EXTENDS Naturals, FiniteSets, Sequences

CONSTANTS Writers,     \* calls of create_agent_memory
          Passes,      \* calls of consolidate_agent
          Keys,        \* keys of memories
          Texts,       \* contents
          Chunks,      \* per text, what chunk_text makes of it: <<t>> of a short one
          Near,        \* pairs of texts whose embeddings' cosine reaches
                       \* SIMILARITY_THRESHOLD
          Overlap,     \* pairs of texts the overlap of whose words reaches it
          NoEmbedding, \* no embedding
          Requests,    \* what writers may write
          MaxRows,     \* bound: rows ever inserted
          AgeBound     \* bound: times that all rows are left alone for 90 days

Importances == 1 .. 5
StaleMinImportance == 2
Ids == 1 .. MaxRows
Parts == Nat \ {0}

ASSUME MemoryAssumption ==
  /\ Chunks \in [Texts -> Seq(Texts)]
  /\ \A t \in Texts : Chunks[t] # << >>
  /\ \A t \in Texts : \A i \in DOMAIN Chunks[t] : Len(Chunks[Chunks[t][i]]) = 1
  /\ \A t \in Texts : Len(Chunks[t]) = 1 => Chunks[t] = <<t>>
  /\ \A t \in Texts : <<t, t>> \in Near \cap Overlap
  /\ \A p \in Near : <<p[2], p[1]>> \in Near
  /\ \A p \in Overlap : <<p[2], p[1]>> \in Overlap
  /\ NoEmbedding \notin Texts
  /\ Requests \subseteq [key : Keys, text : Texts, imp : Importances]
  /\ MaxRows \in Nat
  /\ AgeBound \in Nat

\* emb is the text whose embedding the row has.
Row == [key : Keys, part : Parts, text : Texts, emb : Texts \cup {NoEmbedding},
        imp : Importances, stale : BOOLEAN]

VARIABLES rows,     \* the table, by number (stale: last accessed 90 days ago)
          next,     \* the number of the next row
          wpc,      \* per writer, where it is
          request,  \* per writer, what it writes ({}: nothing yet)
          basis,    \* per writer, the row it has found ({}: none), as it was
          pass,     \* per consolidation, where it is
          plan,     \* per consolidation, the rows its step is about to change, as
                    \* they were read
          recalled, \* the rows a recall has read and not yet touched
          ages,     \* what AgeBound counts
          behind,   \* history: consolidations whose plan is older than the table
          calm,     \* history: consolidations since whose start nobody else wrote
          overlapped, \* history: keys of two writes that were under way together
          crossed,  \* history: keys whose last write met a consolidation half way
          merged,   \* history: keys and parts deleted as duplicates since
          last      \* history: per key, the last write to return ({}: none)

table   == <<rows, next>>
writing == <<wpc, request, basis>>
passing == <<pass, plan>>
history == <<behind, calm, overlapped, crossed, merged, last>>
vars    == <<rows, next, wpc, request, basis, pass, plan, recalled, ages,
             behind, calm, overlapped, crossed, merged, last>>

live == DOMAIN rows
Planned(c) == DOMAIN plan[c]

\* A step of a consolidation is about to read or, "-ing", has read and not written.
Reading == {"chunk", "dedup", "prune"}
Pending == {"chunking", "deduping", "pruning"}

TypeOK == /\ next \in 1 .. MaxRows + 1
          /\ live \subseteq 1 .. next - 1
          /\ \A i \in live : rows[i] \in Row
          /\ wpc \in [Writers -> {"new", "embedding", "written", "raised"}]
          /\ request \in [Writers -> SUBSET Requests]
          /\ basis \in [Writers -> SUBSET (Ids \X Row)]
          /\ pass \in [Passes -> {"new", "done", "aborted"} \cup Reading \cup Pending]
          /\ \A c \in Passes : \A i \in Planned(c) : i \in Ids /\ plan[c][i] \in Row
          /\ recalled \subseteq Ids
          /\ ages \in 0 .. AgeBound
          /\ behind \subseteq Passes /\ calm \subseteq Passes
          /\ overlapped \subseteq Keys /\ crossed \subseteq Keys
          /\ merged \subseteq Keys \X Parts
          /\ last \in [Keys -> SUBSET Requests]

Init == /\ rows = << >> /\ next = 1
        /\ wpc = [w \in Writers |-> "new"]
        /\ request = [w \in Writers |-> {}]
        /\ basis = [w \in Writers |-> {}]
        /\ pass = [c \in Passes |-> "new"]
        /\ plan = [c \in Passes |-> << >>]
        /\ recalled = {} /\ ages = 0
        /\ behind = {} /\ calm = {} /\ overlapped = {} /\ crossed = {} /\ merged = {}
        /\ last = [k \in Keys |-> {}]

\* The rows of the table that are left when only S may be.
Only(S) == [i \in live \cap S |-> rows[i]]

\* The table is changed by one of `by`, or by somebody else if `by` is empty.
Disturb(by) == /\ behind' = behind \cup {c \in Passes \ by : pass[c] \in Pending}
               /\ calm' = calm \cap by

-----------------------------------------------------------------------------
(* create_agent_memory *)

\* The rows of a key that are not tails.
Heads(k) == {i \in live : rows[i].key = k /\ rows[i].part = 1}

\* Mutant of Matches: the lookup is left out.
MatchesNone(k) == {}

\* What the lookup by key finds.
Matches(k) == Heads(k)

Writing(k) == {w \in Writers : wpc[w] = "embedding" /\ \E q \in request[w] : q.key = k}

\* The key is looked up; of two rows scalar_one_or_none makes an exception.
Lookup(w, q) ==
  /\ wpc[w] = "new"
  /\ request' = [request EXCEPT ![w] = {q}]
  /\ IF Cardinality(Matches(q.key)) > 1
       THEN wpc' = [wpc EXCEPT ![w] = "raised"] /\ basis' = basis
       ELSE /\ wpc' = [wpc EXCEPT ![w] = "embedding"]
            /\ basis' = [basis EXCEPT ![w] = {<<i, rows[i]>> : i \in Matches(q.key)}]
  /\ overlapped' = IF Writing(q.key) = {} THEN overlapped ELSE overlapped \cup {q.key}
  /\ UNCHANGED <<table, passing, recalled, ages, behind, calm, crossed, merged, last>>

\* The write returns, and is from now on the last of its key.
Acknowledge(w, q, met) ==
  /\ wpc' = [wpc EXCEPT ![w] = "written"]
  /\ basis' = [basis EXCEPT ![w] = {}]
  /\ last' = [last EXCEPT ![q.key] = {q}]
  /\ merged' = {m \in merged : m[1] # q.key}
  /\ crossed' = IF met THEN crossed \cup {q.key} ELSE crossed \ {q.key}
  /\ Disturb({})
  /\ UNCHANGED <<request, passing, recalled, ages, overlapped>>

\* The embedding of a text: none without an API key, or when the call fails.
Embeddings(t) == {t, NoEmbedding}

\* There was no row: one is inserted.
Insert(w, q) ==
  /\ wpc[w] = "embedding" /\ q \in request[w] /\ basis[w] = {} /\ next <= MaxRows
  /\ \E e \in Embeddings(q.text) :
       rows' = [i \in live \cup {next} |-> IF i = next
                  THEN [key |-> q.key, part |-> 1, text |-> q.text, emb |-> e,
                        imp |-> q.imp, stale |-> FALSE]
                  ELSE rows[i]]
  /\ next' = next + 1
  /\ Acknowledge(w, q, FALSE)

\* A column that is now `now` after an UPDATE of what differs from what was found.
Sent(new, found, now) == IF new = found THEN now ELSE new

\* There was one: what the request changes of it as it was found is updated, and
\* last_accessed is not.
Update(w, q, b) ==
  /\ wpc[w] = "embedding" /\ q \in request[w] /\ b \in basis[w] /\ b[1] \in live
  /\ \E e \in Embeddings(q.text) :
       rows' = [rows EXCEPT ![b[1]].text = Sent(q.text, b[2].text, @),
                            ![b[1]].emb  = Sent(e, b[2].emb, @),
                            ![b[1]].imp  = Sent(q.imp, b[2].imp, @)]
  /\ next' = next
  /\ Acknowledge(w, q, rows[b[1]] # b[2])

\* There was one and it is gone: the commit fails.
UpdateFails(w, b) ==
  /\ wpc[w] = "embedding" /\ b \in basis[w] /\ b[1] \notin live
  /\ wpc' = [wpc EXCEPT ![w] = "raised"]
  /\ basis' = [basis EXCEPT ![w] = {}]
  /\ UNCHANGED <<table, request, passing, recalled, ages, history>>

-----------------------------------------------------------------------------
(* get_agent_memories_raw, as a task's context is built *)

\* The memories of importance 2 or more are read (the table is not over the limit).
Recall == /\ recalled = {}
          /\ recalled' = {i \in live : rows[i].imp >= 2}
          /\ UNCHANGED <<table, writing, passing, ages, history>>

\* last_accessed is set, unless one of the rows is gone: then nothing is written and
\* the task fails.
Touch == /\ recalled # {}
         /\ recalled' = {}
         /\ IF recalled \subseteq live
              THEN /\ rows' = [i \in live |-> IF i \in recalled
                                              THEN [rows[i] EXCEPT !.stale = FALSE] ELSE rows[i]]
                   /\ Disturb({})
              ELSE UNCHANGED <<rows, behind, calm>>
         /\ UNCHANGED <<next, writing, passing, ages, overlapped, crossed, merged, last>>

\* Ninety days go by, with no recall.
Age == /\ ages < AgeBound /\ recalled = {}
       /\ ages' = ages + 1
       /\ rows' = [i \in live |-> [rows[i] EXCEPT !.stale = TRUE]]
       /\ Disturb({})
       /\ UNCHANGED <<next, writing, passing, recalled, overlapped, crossed, merged, last>>

-----------------------------------------------------------------------------
(* consolidate_agent *)

Long(t) == Len(Chunks[t]) > 1

\* A consolidation is started after a task.
Start(c) == /\ pass[c] = "new"
            /\ pass' = [pass EXCEPT ![c] = "chunk"]
            /\ calm' = calm \cup {c}
            /\ UNCHANGED <<table, writing, plan, recalled, ages, behind, overlapped, crossed,
                           merged, last>>

\* A step reads the table and decides on the rows S.
Read(c, step, S) == /\ pass' = [pass EXCEPT ![c] = step]
                    /\ plan' = [plan EXCEPT ![c] = [i \in S |-> rows[i]]]
                    /\ behind' = behind \ {c}
                    /\ UNCHANGED <<table, writing, recalled, ages, calm, overlapped, crossed,
                                   merged, last>>

\* A step has committed what it decided and the consolidation goes on.
Written(c, step) == /\ pass' = [pass EXCEPT ![c] = step]
                    /\ plan' = [plan EXCEPT ![c] = << >>]
                    /\ crossed' = IF c \notin behind THEN crossed
                                  ELSE crossed \cup {plan[c][i].key : i \in Planned(c)}
                    /\ IF Planned(c) = {} THEN UNCHANGED <<behind, calm>> ELSE Disturb({c})
                    /\ UNCHANGED <<writing, recalled, ages, overlapped, last>>

\* _chunk_long_memories.
ReadLong(c) == /\ pass[c] = "chunk"
               /\ Read(c, "chunking", {i \in live : Long(rows[i].text)})

\* Mutant of Tails: the first chunk is the memory.
TailsNone(c) == {}

\* The chunks to insert: per row, all but the first.
Tails(c) == UNION {{i} \X (2 .. Len(Chunks[plan[c][i].text])) : i \in Planned(c)}

\* Mutant of ChunkRow: the importance of a tail has no floor.
ChunkRowUnfloored(r, n) == [key |-> r.key, part |-> n, text |-> Chunks[r.text][n],
                            emb |-> NoEmbedding, imp |-> r.imp - 1, stale |-> FALSE]

\* The row of a chunk: it weighs a little less than the memory, and its embedding is
\* not asked for.
ChunkRow(r, n) == [key |-> r.key, part |-> n, text |-> Chunks[r.text][n],
                   emb |-> NoEmbedding, imp |-> IF r.imp > 1 THEN r.imp - 1 ELSE 1,
                   stale |-> FALSE]

\* A row keeps its first chunk, with the embedding of the whole, and the others become
\* rows.
WriteChunks(c) ==
  /\ pass[c] = "chunking" /\ Planned(c) \subseteq live
  /\ LET new == Cardinality(Tails(c)) IN
     /\ next + new <= MaxRows + 1
     /\ next' = next + new
     /\ \E of \in [next .. next + new - 1 -> Tails(c)] :
          /\ {of[i] : i \in DOMAIN of} = Tails(c)
          /\ rows' = [i \in live \cup DOMAIN of |->
               CASE i \in DOMAIN of -> ChunkRow(plan[c][of[i][1]], of[i][2])
                 [] i \in Planned(c) -> [rows[i] EXCEPT !.text = Chunks[plan[c][i].text][1]]
                 [] OTHER -> rows[i]]
  /\ Written(c, "dedup")
  /\ UNCHANGED merged

\* i comes before j in the order of importance and last access, or may.
Ahead(i, j) == \/ rows[i].imp > rows[j].imp
               \/ rows[i].imp = rows[j].imp /\ (rows[i].stale => rows[j].stale)

Embedded(i) == rows[i].emb # NoEmbedding

\* _similarity reaches the threshold: that of the embeddings the rows have, or of their
\* words if one of them has none.
Alike(i, j) == IF Embedded(i) /\ Embedded(j)
               THEN <<rows[i].emb, rows[j].emb>> \in Near
               ELSE <<rows[i].text, rows[j].text>> \in Overlap

\* What the first pass of _deduplicate leaves: of each content, the first row.
Distinct(D) ==
  /\ \A i, j \in D : i # j => rows[i].text # rows[j].text
  /\ \A i \in live \ D : \E j \in D : rows[j].text = rows[i].text /\ Ahead(j, i)

\* Mutant of Survivors: the lower of two importances is kept.
SurvivorsLow(S) ==
  \E D \in SUBSET live :
    /\ Distinct(D) /\ S \subseteq D
    /\ \A i, j \in S : i # j => ~ Alike(i, j)
    /\ \A i \in D \ S : \E j \in S : Alike(i, j) /\ rows[j].imp <= rows[i].imp

\* Mutant of Survivors: rows without an embedding are not compared.
SurvivorsEmbedded(S) ==
  \E D \in SUBSET live :
    /\ Distinct(D) /\ S \subseteq D
    /\ \A i, j \in S : i # j /\ Embedded(i) /\ Embedded(j) => ~ Alike(i, j)
    /\ \A i \in D \ S : \E j \in S : Embedded(i) /\ Embedded(j) /\ Alike(i, j) /\ Ahead(j, i)

\* What both passes leave, in the order of the query: of the distinct rows, each that
\* is not like one kept before it.
Survivors(S) ==
  \E D \in SUBSET live :
    /\ Distinct(D) /\ S \subseteq D
    /\ \A i, j \in S : i # j => ~ Alike(i, j)
    /\ \A i \in D \ S : \E j \in S : Alike(i, j) /\ Ahead(j, i)

ReadDuplicates(c) == /\ pass[c] = "dedup"
                     /\ \E S \in SUBSET live : Survivors(S) /\ Read(c, "deduping", live \ S)

Merge(S) == /\ rows' = Only(live \ S)
            /\ merged' = merged \cup {<<rows[i].key, rows[i].part>> : i \in S \cap live}
            /\ next' = next

\* Those of the duplicates that are still there are deleted.
DeleteDuplicates(c) == /\ pass[c] = "deduping"
                       /\ Merge(Planned(c))
                       /\ Written(c, "prune")

\* Mutant of ReadStale: the importance is not looked at.
ReadStaleAll(c) == /\ pass[c] = "prune"
                   /\ Read(c, "pruning", {i \in live : rows[i].stale})

\* _prune_stale.
ReadStale(c) ==
  /\ pass[c] = "prune"
  /\ Read(c, "pruning", {i \in live : rows[i].imp <= StaleMinImportance /\ rows[i].stale})

DeleteStale(c) == /\ pass[c] = "pruning"
                  /\ rows' = Only(live \ Planned(c))
                  /\ Written(c, "done")
                  /\ UNCHANGED <<next, merged>>

\* The consolidation shares its session with the execution that started it: any call
\* may raise, as may the commit of chunks when a row is gone or a key too long.
\* Deletions the session has already sent may go with a commit of the execution's.
Abort(c) == /\ pass[c] \in Reading \cup Pending
            /\ pass' = [pass EXCEPT ![c] = "aborted"]
            /\ plan' = [plan EXCEPT ![c] = << >>]
            /\ \/ UNCHANGED <<table, behind, calm, crossed, merged>>
               \/ /\ pass[c] = "deduping"
                  /\ \E S \in SUBSET Planned(c) :
                       /\ Merge(S)
                       /\ crossed' = IF c \notin behind THEN crossed
                                     ELSE crossed \cup {plan[c][i].key : i \in S}
                  /\ Disturb({c})
            /\ UNCHANGED <<writing, recalled, ages, overlapped, last>>

-----------------------------------------------------------------------------
(* The specification *)

Next == \/ \E w \in Writers :
             \/ \E q \in Requests : Lookup(w, q) \/ Insert(w, q)
             \/ \E q \in request[w], b \in basis[w] : Update(w, q, b)
             \/ \E b \in basis[w] : UpdateFails(w, b)
        \/ Recall \/ Touch \/ Age
        \/ \E c \in Passes : \/ Start(c)
                             \/ ReadLong(c) \/ WriteChunks(c)
                             \/ ReadDuplicates(c) \/ DeleteDuplicates(c)
                             \/ ReadStale(c) \/ DeleteStale(c)
                             \/ Abort(c)

Spec == Init /\ [][Next]_vars

-----------------------------------------------------------------------------
(* Properties *)

\* A key has one row, so that it can still be written, unless two writes of it were
\* under way together: then create_agent_memory may raise for it for ever.
OneRow == \A k \in Keys \ overlapped : Cardinality(Heads(k)) <= 1

\* What was last written under a key, with more than the importance that is pruned,
\* is still there: the text or, once chunked, the first chunk.  Only another write
\* or a consolidation that met it half way, or one that took it for a duplicate, may
\* take it away.
Kept == \A k \in Keys \ (overlapped \cup crossed) : \A q \in last[k] :
          q.imp > StaleMinImportance /\ <<k, 1>> \notin merged =>
            \E i \in Heads(k) : /\ rows[i].text \in {q.text, Chunks[q.text][1]}
                                  /\ rows[i].imp = q.imp

\* When it has been cut down to its first chunk, its other chunks are there.
KeptWhole == \A k \in Keys \ (overlapped \cup crossed) : \A q \in last[k] :
               (q.imp - 1 > StaleMinImportance
                /\ \E i \in Heads(k) : rows[i].text # q.text) =>
                  \A n \in 2 .. Len(Chunks[q.text]) :
                    <<k, n>> \in merged \/ \E i \in live : /\ rows[i].key = k
                                                          /\ rows[i].part = n
                                                          /\ rows[i].text = Chunks[q.text][n]

\* A consolidation that was alone leaves no long memory, no two rows with one content
\* or that _similarity takes for duplicates, by the embeddings and the words they now
\* have, and none to prune: a step undoes nothing of what the steps before it did.
Normalised == \A c \in calm : pass[c] = "done" =>
                /\ \A i \in live : ~ Long(rows[i].text)
                /\ \A i, j \in live : i # j => rows[i].text # rows[j].text /\ ~ Alike(i, j)
                /\ \A i \in live : rows[i].stale => rows[i].imp > StaleMinImportance

\* j may stand for i: _similarity takes it for a duplicate of i or of a row with i's
\* content.
StandsFor(j, i) == \E m \in live : rows[m].text = rows[i].text /\ Alike(m, j)

\* A duplicate that is deleted leaves a row that stands for it and is of no less
\* importance, unless the table has changed since the consolidation decided: two
\* consolidations at a time may delete each the row that the other keeps.
CopyStays == [][\A c \in Passes \ behind :
                  pass[c] = "deduping" /\ pass[c]' # "deduping" =>
                    \A i \in live \ live' : \E j \in live' :
                      StandsFor(j, i) /\ rows[j].imp >= rows[i].imp]_vars
=============================================================================
