--------------------------- MODULE MCTaskRegistry ---------------------------
(* Instances of TaskRegistry for TLC. *)
EXTENDS TaskRegistry, TLC

CONSTANTS t1, t2

\* t1 goes first when both tasks are queued.
MCPriority == [t \in Task |-> IF t = t1 THEN 1 ELSE 0]

\* Executors are interchangeable, and so are server threads.
MCSymmetry == Permutations(Worker) \cup Permutations(Slot)
=============================================================================
