--------------------------- MODULE MCAgentMemory ---------------------------
(* Instance of AgentMemory for TLC. *)
EXTENDS AgentMemory, TLC

\* A long text of two chunks, and a text that is near to the whole and to the second
\* chunk, whose words overlap with it, and not to the first.
MCTexts   == {"long", "head", "tail", "near"}
MCChunks  == [t \in MCTexts |-> IF t = "long" THEN <<"head", "tail">> ELSE <<t>>]
Same      == {<<t, t>> : t \in MCTexts}
MCOverlap == Same \cup {<<"tail", "near">>, <<"near", "tail">>}
MCNear    == MCOverlap \cup {<<"long", "near">>, <<"near", "long">>}

\* Two keys, and importances on both sides of what is pruned.
MCRequests == [key : {"k1"}, text : {"long"}, imp : {2, 4}]
              \cup [key : {"k1", "k2"}, text : {"near"}, imp : {4}]
              \cup [key : {"k2"}, text : {"long"}, imp : {1}]

\* Nothing tells the writers apart, nor the consolidations.
WorkSymmetry == Permutations(Writers) \cup Permutations(Passes)
=============================================================================
