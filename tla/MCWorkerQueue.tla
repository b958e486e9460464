--------------------------- MODULE MCWorkerQueue ---------------------------
(* Instances of WorkerQueue for TLC. *)
EXTENDS WorkerQueue, TLC

\* Nothing tells the workers apart.
WorkerSymmetry == Permutations(Worker)

\* The second entry of the stream carries no task_id.
SecondHasNoTask == {2}
NoneWithoutTask == {}
=============================================================================
