-------------------------- MODULE MCAgentRegistry --------------------------
(* Instances of AgentRegistry for TLC. *)
EXTENDS AgentRegistry, TLC

CONSTANT Slots  \* the max_concurrency of every profile

MCMaxConcurrency == [p \in Profile |-> Slots]

\* Runs are interchangeable, and so are clients that do the same.
MCRunSymmetry == Permutations(Run)
MCSymmetry == Permutations(Run) \cup Permutations(Client)
=============================================================================
