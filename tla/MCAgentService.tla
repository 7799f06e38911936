--------------------------- MODULE MCAgentService ---------------------------
(* Instances of AgentService for TLC. *)
EXTENDS AgentService, TLC

CONSTANT Slots  \* the max_concurrency of every profile

MCMaxConcurrency == [p \in Profile |-> Slots]
MCRun == Ticket \X (0..MaxAttempts)

\* Daemons are interchangeable.
MCSymmetry == Permutations(Client)
=============================================================================
