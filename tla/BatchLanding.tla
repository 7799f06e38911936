---------------------------- MODULE BatchLanding ----------------------------
(***************************************************************************)
(* What integration epochs promise, without git, rows, crashes or doubts:  *)
(* a batch owns the target ref from its first landing until it is          *)
(* finished, no two batches own it at once, the lanes of a batch are       *)
(* credited in queue order and one by one, only the last one may be        *)
(* dropped, and a batch that is finished is never taken up again.          *)
(* MergeQueue implements it.                                               *)
(***************************************************************************)
EXTENDS Naturals

CONSTANTS Item, Batch, BatchOf, Pos

VARIABLES
    phase,     \* where each batch stands
    credited,  \* the lanes of a batch that count as landed
    dropped    \* the lanes of a batch that were given up

landingVars == <<phase, credited, dropped>>

Lanes(b) == {i \in Item : BatchOf[i] = b}
Left(b) == Lanes(b) \ (credited[b] \cup dropped[b])
Before(i) == {j \in Lanes(BatchOf[i]) : Pos[j] < Pos[i]}

LandingInit ==
    /\ phase = [b \in Batch |-> "waiting"]
    /\ credited = [b \in Batch |-> {}]
    /\ dropped = [b \in Batch |-> {}]

\* A batch takes the target, with lanes that landed before; they are a prefix of its queue.
Acquire(b) ==
    /\ phase[b] = "waiting"
    /\ \A c \in Batch : phase[c] # "owner"
    /\ \E P \in SUBSET Lanes(b) :
        /\ \A i \in P : Before(i) \subseteq P
        /\ credited' = [credited EXCEPT ![b] = P]
    /\ phase' = [phase EXCEPT ![b] = "owner"]
    /\ UNCHANGED dropped

Credit(i) ==
    /\ phase[BatchOf[i]] = "owner"
    /\ i \in Left(BatchOf[i])
    /\ Before(i) \subseteq credited[BatchOf[i]]
    /\ credited' = [credited EXCEPT ![BatchOf[i]] = @ \cup {i}]
    /\ UNCHANGED <<phase, dropped>>

Drop(i) ==
    /\ phase[BatchOf[i]] = "owner"
    /\ Left(BatchOf[i]) = {i}
    /\ dropped' = [dropped EXCEPT ![BatchOf[i]] = @ \cup {i}]
    /\ UNCHANGED <<phase, credited>>

Finish(b) ==
    /\ phase[b] = "owner"
    /\ Left(b) = {}
    /\ phase' = [phase EXCEPT ![b] = IF dropped[b] = {} THEN "landed" ELSE "incomplete"]
    /\ UNCHANGED <<credited, dropped>>

Abort(i) ==
    /\ phase[BatchOf[i]] = "owner"
    /\ Left(BatchOf[i]) = {i}
    /\ phase' = [phase EXCEPT ![BatchOf[i]] = "aborted"]
    /\ UNCHANGED <<credited, dropped>>

LandingNext ==
    \/ \E b \in Batch : Acquire(b) \/ Finish(b)
    \/ \E i \in Item : Credit(i) \/ Drop(i) \/ Abort(i)

LandingSpec == LandingInit /\ [][LandingNext]_landingVars
=============================================================================
