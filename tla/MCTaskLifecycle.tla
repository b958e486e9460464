-------------------------- MODULE MCTaskLifecycle --------------------------
(* Instances of TaskLifecycle for TLC. *)
EXTENDS TaskLifecycle, TLC

\* Tasks, agents, slots, handlers and entries are interchangeable.
Anonymous == Permutations(Task) \cup Permutations(Agent) \cup Permutations(Slot)
             \cup Permutations(Handler) \cup Permutations(Entry)
=============================================================================
