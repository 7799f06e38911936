---------------------------- MODULE BranchContext ----------------------------
(***************************************************************************)
(* The branch runtime contexts of                                          *)
(* src/agent/governance/parallel_branch_runtime.py: one durable row per    *)
(* lane, the fence that says which worker may write it, and the branch the *)
(* worker commits to.                                                      *)
(*                                                                         *)
(* A fence token is a number, in the order the service minted them. A row  *)
(* stores the token itself until the worker joins and only a hash, the     *)
(* verifier, from then on; a caller may present any token that was ever    *)
(* minted for the lane, since workers outlive their leases. The branch is  *)
(* a git ref that no fence protects: its revisions are numbered, 0 is the  *)
(* base the lane was cut from.                                             *)
(*                                                                         *)
(* Left out: session tokens, host identities, checkpoint ids, the content  *)
(* of the gates' evidence. A call that is refused changes nothing and is   *)
(* no step.                                                                *)
(***************************************************************************)
EXTENDS Naturals

CONSTANTS
    Item,         \* lanes; a lane's queue item has the same name
    Worker,       \* the lanes whose worker is at work; the others are past their finish gate
    Unallocated,  \* the lanes that may have no context yet
    MaxRev,       \* bound: revisions of a branch
    MaxToken      \* bound: fence tokens minted for a lane

ASSUME BoundAssumption == MaxRev \in Nat \ {0} /\ MaxToken \in Nat \ {0}
ASSUME LaneAssumption == Unallocated \subseteq Item /\ Worker \subseteq Item

VARIABLES
    ctx,     \* parallel_branch_runtime_contexts, by lane
    issued,  \* the newest fence token minted for the lane
    tip      \* the revision the lane's branch points to

contextVars == <<ctx, issued, tip>>

Token == 1..MaxToken
NoToken == 0

ContextStatus == {"absent", "worktree_ready", "running", "reclaimable", "validated",
                  "queued_for_merge", "merged", "merge_failed", "released_unlandable"}

\* gate: the last checkpoint is that of a passed finish gate. lease: where lease_expires_at stands.
Context == [status : ContextStatus, raw : Token \cup {NoToken}, verifier : Token \cup {NoToken},
            gate : BOOLEAN, lease : {"none", "ahead", "past"}]

AbsentContext == [status |-> "absent", raw |-> NoToken, verifier |-> NoToken, gate |-> FALSE,
                  lease |-> "none"]
AllocatedContext == [AbsentContext EXCEPT !.status = "worktree_ready", !.raw = 1]
FinishedContext == [AbsentContext EXCEPT !.status = "validated", !.verifier = 1, !.gate = TRUE]

StartContext(i) ==
    {IF i \in Worker THEN AllocatedContext ELSE FinishedContext}
        \cup (IF i \in Unallocated THEN {AbsentContext} ELSE {})

ContextInit ==
    /\ ctx \in [Item -> {AbsentContext, AllocatedContext, FinishedContext}]
    /\ \A i \in Item : ctx[i] \in StartContext(i)
    /\ issued = [i \in Item |-> IF ctx[i] = AbsentContext THEN NoToken ELSE 1]
    /\ tip = [i \in Item |-> IF ctx[i] = FinishedContext THEN 1 ELSE 0]

ActiveState == {"worktree_ready", "running"}

-----------------------------------------------------------------------------
\* runtime_context_fence_token_verifier: a stored verifier takes precedence over a raw fence.
Accepted(c) == IF c.verifier # NoToken THEN c.verifier ELSE c.raw

_require_current_fence(c, t) == t = Accepted(c)

\* upsert_branch_context refuses to take a released context to another status.
upsert_branch_context(i, c) ==
    /\ ctx[i].status = "released_unlandable" => c.status = "released_unlandable"
    /\ ctx' = [ctx EXCEPT ![i] = c]

\* The service mints a fence token for lane i.
Mint(i) ==
    /\ issued[i] < MaxToken
    /\ issued' = [issued EXCEPT ![i] = @ + 1]

-----------------------------------------------------------------------------
Allocate(i) ==
    /\ ctx[i].status = "absent"
    /\ Mint(i)
    /\ ctx' = [ctx EXCEPT ![i] = [AllocatedContext EXCEPT !.raw = issued'[i]]]
    /\ UNCHANGED tip

(***************************************************************************)
(* The first host envelope: the worker gets the fence, the row keeps its   *)
(* verifier only, and the lease starts.                                    *)
(***************************************************************************)
InitialJoin(i) ==
    /\ ctx[i].raw # NoToken
    /\ ctx[i].status \in ActiveState
    /\ ctx[i].verifier \in {NoToken, ctx[i].raw}
    /\ upsert_branch_context(i, [ctx[i] EXCEPT !.raw = NoToken, !.verifier = ctx[i].raw,
                                               !.lease = "ahead"])
    /\ UNCHANGED <<issued, tip>>

\* Whether a rejoin sends the lane back to its worker after a failed QA. Of the states that allow
\* it, merge_ready is left out: no operation modelled here writes it.
Revision(i, reopen) == reopen /\ ctx[i].status = "validated"

(***************************************************************************)
(* A new envelope for a worker that lost its session: a context with a     *)
(* verifier gets a new fence, one with a raw fence keeps it.               *)
(***************************************************************************)
Rejoin(i, reopen) ==
    /\ Accepted(ctx[i]) # NoToken
    /\ ctx[i].status \in ActiveState \/ Revision(i, reopen)
    /\ IF ctx[i].verifier = NoToken THEN UNCHANGED issued ELSE Mint(i)
    /\ upsert_branch_context(i,
        [ctx[i] EXCEPT !.status = IF Revision(i, reopen) THEN "worktree_ready" ELSE @,
                       !.raw = IF ctx[i].verifier = NoToken THEN @ ELSE NoToken,
                       !.verifier = IF @ = NoToken THEN @ ELSE issued'[i],
                       !.lease = "ahead"])
    /\ UNCHANGED tip

record_mf_subagent_startup(i, t) ==
    /\ ctx[i].status # "absent"
    /\ _require_current_fence(ctx[i], t)
    /\ upsert_branch_context(i, [ctx[i] EXCEPT !.status = "running"])
    /\ UNCHANGED <<issued, tip>>

\* The checkpoint replaces that of a finish gate; the status stays, a released one included.
record_branch_checkpoint(i, t) ==
    /\ ctx[i].status # "absent"
    /\ _require_current_fence(ctx[i], t)
    /\ ctx' = [ctx EXCEPT ![i].gate = FALSE]
    /\ UNCHANGED <<issued, tip>>

record_branch_finish_gate(i, t) ==
    /\ ctx[i].status \notin {"absent", "released_unlandable"}
    /\ _require_current_fence(ctx[i], t)
    /\ ctx' = [ctx EXCEPT ![i].status = "validated", ![i].gate = TRUE]
    /\ UNCHANGED <<issued, tip>>

Expired == {i \in Item : ctx[i].status = "running" /\ ctx[i].lease = "past"}

\* All expired lanes become reclaimable with a fresh raw fence; their verifiers stay.
recover_expired_branch_contexts ==
    /\ Expired # {}
    /\ \A i \in Expired : issued[i] < MaxToken
    /\ issued' = [i \in Item |-> IF i \in Expired THEN issued[i] + 1 ELSE issued[i]]
    /\ ctx' = [i \in Item |->
                IF i \in Expired
                THEN [ctx[i] EXCEPT !.status = "reclaimable", !.raw = issued'[i]]
                ELSE ctx[i]]
    /\ UNCHANGED tip

-----------------------------------------------------------------------------
\* The clock passes lease_expires_at, which every envelope sets anew.
LeaseExpires(i) ==
    /\ ctx[i].lease = "ahead"
    /\ ctx' = [ctx EXCEPT ![i].lease = "past"]
    /\ UNCHANGED <<issued, tip>>

\* The worker commits to its branch; git asks for no fence.
WorkerCommits(i) ==
    /\ ctx[i].status # "absent"
    /\ tip[i] < MaxRev
    /\ tip' = [tip EXCEPT ![i] = @ + 1]
    /\ UNCHANGED <<ctx, issued>>

-----------------------------------------------------------------------------
ContextTypeOK ==
    /\ ctx \in [Item -> Context]
    /\ issued \in [Item -> Token \cup {NoToken}]
    /\ tip \in [Item -> 0..MaxRev]
=============================================================================
