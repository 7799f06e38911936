----------------------------- MODULE MergeQueue -----------------------------
(***************************************************************************)
(* Landing batches of branches on a target ref: the merge queue and the    *)
(* integration epochs of src/agent/governance/parallel_branch_runtime.py,  *)
(* driven by the parallel-branches handlers of server.py.                  *)
(*                                                                         *)
(* A batch has a queue of lanes. Its first live merge opens an integration *)
(* epoch, which owns the target ref until every lane has landed in queue   *)
(* order, been released or been sealed, and a graph reconcile of the final *)
(* head has closed it. The epoch is armed (merge_in_doubt) and committed   *)
(* before git moves the ref, so that a crash between git and the database  *)
(* leaves a mark.                                                          *)
(*                                                                         *)
(* Every handler writes under the write lock of the one governance         *)
(* process; execute_merge_queue_item keeps it across its git commands. The *)
(* steps of that call are actions of their own, since git is shared with   *)
(* the rest of the world. Handlers that read before they lock are two      *)
(* actions with the request in pending.                                    *)
(*                                                                         *)
(* The target is the sequence of what was added to it; a head is a         *)
(* position in it, 0 is no head. Left out: evidence payloads and graph     *)
(* snapshots, the validated target head (the server refreshes it, a stale  *)
(* one only refuses), recovered QA candidates, backlog rows (WAIVED or     *)
(* OPEN is the operator's choice), standalone- batches.                    *)
(***************************************************************************)
EXTENDS BranchContext, Sequences, FiniteSets

CONSTANTS
    Batch,        \* batches; each has its own merge queue
    BatchOf,      \* the batch of a lane
    Pos,          \* queue_index of a lane's item
    DependsOn,    \* the lanes whose items must be merged first
    OffBatch,     \* bound: the lanes that are also merged by a standalone flow
    ByHand,       \* bound: the lanes that are also merged, or reported on, by hand
    MaxExternal,  \* bound: additions to the target from outside the service
    MaxPending    \* bound: requests between their checks and the lock

ASSUME QueueAssumption ==
    /\ BatchOf \in [Item -> Batch]
    /\ Pos \in [Item -> Nat]
    /\ DependsOn \in [Item -> SUBSET Item]
    /\ OffBatch \subseteq Item /\ ByHand \subseteq Item
    /\ \A i, j \in Item : BatchOf[i] = BatchOf[j] /\ Pos[i] = Pos[j] => i = j
    /\ "none" \notin Item \cup Batch
ASSUME CountAssumption == MaxExternal \in Nat /\ MaxPending \in Nat

VARIABLES
    row,      \* parallel_branch_merge_queue_items, by lane
    epoch,    \* parallel_branch_integration_epochs, by batch
    target,   \* what was added to the target ref, in order
    exec,     \* the call of execute_merge_queue_item that holds the lock
    pending   \* requests that passed their checks and wait for the lock

queueVars == <<row, epoch, target, exec, pending>>
vars == <<ctx, issued, tip, row, epoch, target, exec, pending>>

Flow == {"batch", "standalone"}
Terminal == {"released_unlandable", "terminal_no_pass"}
RowStatus == {"planned", "queued_for_merge", "merged", "merge_failed"} \cup Terminal
EpochStatus == {"none", "open", "merge_in_doubt", "reconcile_pending", "closed",
                "aborted_with_exception"}
Live == {"open", "merge_in_doubt", "reconcile_pending"}

\* head: branch_head, the QA candidate. commit: merge_commit. rev: the revision that commit
\* brought in, which the row does not store; the properties compare it with the target.
Row == [status : RowStatus, head : 0..MaxRev, commit : Nat, rev : 0..MaxRev]

\* prefix and remaining are the queue item lists, incomplete the released ones. credit is the
\* revision of each lane that the epoch took for landed; like rev it is there for the properties.
Epoch == [status : EpochStatus, prefix : SUBSET Item, remaining : SUBSET Item,
          active : Item \cup {"none"}, head : Nat, expected : Nat, incomplete : SUBSET Item,
          reconciled : Nat, credit : [Item -> 0..MaxRev]]

Addition == [item : Item \cup {"none"}, rev : 0..MaxRev, by : Flow \cup {"base", "other"}]

Exec == [phase : {"idle", "armed", "landed"}, item : Item \cup {"none"}, flow : Flow \cup {"none"},
         before : Nat, pos : Nat, rev : 0..MaxRev]

Request == {"allocate", "materialize"} \X Item

PlannedRow == [status |-> "planned", head |-> 0, commit |-> 0, rev |-> 0]
NoEpoch == [status |-> "none", prefix |-> {}, remaining |-> {}, active |-> "none", head |-> 0,
            expected |-> 0, incomplete |-> {}, reconciled |-> 0, credit |-> [i \in Item |-> 0]]
Idle == [phase |-> "idle", item |-> "none", flow |-> "none", before |-> 0, pos |-> 0, rev |-> 0]

\* A batch enters with a planned row for each of its lanes.
Init ==
    /\ ContextInit
    /\ row = [i \in Item |-> PlannedRow]
    /\ epoch = [b \in Batch |-> NoEpoch]
    /\ target = <<[item |-> "none", rev |-> 0, by |-> "base"]>>
    /\ exec = Idle
    /\ pending = {}

Queue(b) == {i \in Item : BatchOf[i] = b}
TargetHead == Len(target)
LockFree == exec = Idle

\* Seeded fault: a batch that waits for its reconcile no longer counts as the owner.
ActiveUntilLanded(b) == epoch[b].status \in {"open", "merge_in_doubt"}

Active(b) == epoch[b].status \in Live

\* git merge-base --is-ancestor: revision r of lane i is part of the target at position p.
Contained(i, r, p) == r = 0 \/ \E q \in 1..p : target[q].item = i /\ target[q].rev >= r

-----------------------------------------------------------------------------
\* The lane at the head of the remaining queue.
First(i, S) == IF S = {} THEN i = "none" ELSE i \in S /\ \A j \in S : Pos[i] <= Pos[j]

\* Seeded fault: a late write revives a final row.
UpsertAnyItem(i, r) == row' = [row EXCEPT ![i] = r]

\* upsert_merge_queue_item: a released or sealed row never gets another status.
upsert_merge_queue_item(i, r) ==
    /\ row[i].status \in Terminal => r.status = row[i].status
    /\ row' = [row EXCEPT ![i] = r]

Merged(b) == {i \in Queue(b) : row[i].status = "merged"}

\* Seeded fault: a merged row behind an unmerged one goes unnoticed.
AnyOrder(b) == b \in Batch

\* The merged rows of a queue come before its other rows.
Contiguous(b) == \A i \in Merged(b), j \in Queue(b) \ Merged(b) : Pos[i] < Pos[j]

(***************************************************************************)
(* open_or_validate_integration_epoch for lane i: the batch has no epoch   *)
(* yet and i is the first lane that is not merged, or its epoch has i at   *)
(* the cursor. EpochAt is that epoch, opened at head h.                    *)
(***************************************************************************)
MayEnterEpoch(i) ==
    LET b == BatchOf[i]
    IN  /\ \A c \in Batch \ {b} : ~Active(c)
        /\ \/ epoch[b].status \in {"open", "merge_in_doubt"} /\ epoch[b].active = i
           \/ /\ epoch[b].status = "none"
              /\ Contiguous(b)
              /\ First(i, Queue(b) \ Merged(b))

EpochAt(i, h) ==
    LET b == BatchOf[i]
    IN  IF epoch[b].status # "none" THEN epoch[b]
        ELSE [NoEpoch EXCEPT !.status = "open", !.prefix = Merged(b),
                             !.remaining = Queue(b) \ Merged(b), !.active = i, !.head = h,
                             !.credit = [j \in Item |-> IF j \in Merged(b) THEN row[j].rev ELSE 0]]

\* Epoch e of lane i's batch credits revision r of the lane at head h and moves its cursor.
advance_integration_epoch_after_merge(e, i, h, r) ==
    \E next \in Item \cup {"none"} :
        /\ First(next, e.remaining \ {i})
        /\ epoch' = [epoch EXCEPT ![BatchOf[i]] =
            [e EXCEPT !.prefix = @ \cup {i}, !.remaining = @ \ {i}, !.active = next, !.head = h,
                      !.expected = 0, !.credit[i] = r,
                      !.status = IF next = "none" THEN "reconcile_pending" ELSE "open"]]

\* Seeded fault: git runs before the epoch is marked.
LeaveUnarmed(e, i, h) ==
    /\ e.status = "open"
    /\ epoch' = [epoch EXCEPT ![BatchOf[i]] = [e EXCEPT !.expected = h]]

\* Only an open epoch is armed; a doubt is never armed again.
arm_integration_epoch_merge_in_doubt(e, i, h) ==
    /\ e.status = "open"
    /\ epoch' = [epoch EXCEPT ![BatchOf[i]] = [e EXCEPT !.status = "merge_in_doubt",
                                                        !.expected = h]]

(***************************************************************************)
(* record_merge_queue_result, the row and the context of lane i. The route *)
(* of the operator, whose reports name both heads of the target, needs no  *)
(* fence (_require_merge_queue_result_record_authority).                   *)
(***************************************************************************)
record_merge_queue_result(i, status, commit, rev) ==
    /\ upsert_merge_queue_item(i, [row[i] EXCEPT !.status = status, !.commit = commit, !.rev = rev])
    /\ IF ctx[i].status = "absent" THEN UNCHANGED ctx
       ELSE upsert_branch_context(i, [ctx[i] EXCEPT !.status = status])
    /\ UNCHANGED <<issued, tip>>

-----------------------------------------------------------------------------
(***************************************************************************)
(* parallel-branches/allocate and merge-queue/materialize look at the      *)
(* active epoch before they take the lock: it must be none, or have lane i *)
(* at its cursor.                                                          *)
(***************************************************************************)
DispatchAllowed(i) == \A b \in Batch : Active(b) => b = BatchOf[i] /\ epoch[b].active = i

AllocateCheck(i) ==
    /\ ctx[i].status = "absent"
    /\ DispatchAllowed(i)
    /\ Active(BatchOf[i]) => epoch[BatchOf[i]].status = "open" /\ row[i].status = "planned"
    /\ Cardinality(pending) < MaxPending
    /\ pending' = pending \cup {<<"allocate", i>>}
    /\ UNCHANGED <<contextVars, row, epoch, target, exec>>

AllocateWrite(i) ==
    /\ LockFree
    /\ <<"allocate", i>> \in pending
    /\ Allocate(i)
    /\ pending' = pending \ {<<"allocate", i>>}
    /\ UNCHANGED <<row, epoch, target, exec>>

MaterializeCheck(i) ==
    /\ ctx[i].status # "absent"
    /\ DispatchAllowed(i)
    /\ Cardinality(pending) < MaxPending
    /\ pending' = pending \cup {<<"materialize", i>>}
    /\ UNCHANGED <<contextVars, row, epoch, target, exec>>

\* The route of the observer, who has no fence: the lane has passed its finish gate.
FinishGateRoute(i) == ctx[i].gate /\ ctx[i].status \in {"validated", "queued_for_merge"}

\* The status the finish gate route leaves in the context.
StatusAfterFinishGate(status) == IF status = "queued_for_merge" THEN "validated" ELSE status

\* Seeded fault: the candidate is the revision after the tip.
CandidateAheadOfTip(i) == IF row[i].status = "planned" THEN tip[i] + 1 ELSE row[i].head

\* The first materialization fixes the candidate; later ones keep it (a planned row is one that
\* was never materialized, is_never_materialized_planned_merge_queue_item).
CandidateHead(i) == IF row[i].status = "planned" THEN tip[i] ELSE row[i].head

(***************************************************************************)
(* queue_merge_item_for_branch_context, by the finish gate route or with   *)
(* the fence of the lane. The row starts over: no merge commit is kept.    *)
(***************************************************************************)
Materialize(i) ==
    /\ LockFree
    /\ <<"materialize", i>> \in pending
    /\ \E status \in ContextStatus :
        /\ \/ FinishGateRoute(i) /\ status = StatusAfterFinishGate(ctx[i].status)
           \/ /\ \E t \in 1..issued[i] : _require_current_fence(ctx[i], t)
              /\ \/ status = "queued_for_merge"
                 \/ ctx[i].gate /\ status = StatusAfterFinishGate(ctx[i].status)
        /\ upsert_branch_context(i, [ctx[i] EXCEPT !.status = status])
    /\ upsert_merge_queue_item(i, [PlannedRow EXCEPT !.status = "queued_for_merge",
                                                     !.head = CandidateHead(i)])
    /\ pending' = pending \ {<<"materialize", i>>}
    /\ UNCHANGED <<issued, tip, epoch, target, exec>>

\* A request is refused under the lock, or its client gives up.
RequestEnds(q) ==
    /\ q \in pending
    /\ pending' = pending \ {q}
    /\ UNCHANGED <<contextVars, row, epoch, target, exec>>

-----------------------------------------------------------------------------
\* Seeded fault: an epoch freezes the target for its own batch only.
NotFrozenForBatch(i) ==
    Active(BatchOf[i]) => /\ epoch[BatchOf[i]].active = i
                          /\ epoch[BatchOf[i]].status # "reconcile_pending"

(***************************************************************************)
(* execute_merge_queue_item: an active epoch freezes the target for all    *)
(* but the lane at its cursor. A lane that is credited already is answered *)
(* from the records, which changes nothing.                                *)
(***************************************************************************)
NotFrozen(i) ==
    \A b \in Batch : Active(b) => /\ b = BatchOf[i]
                                  /\ epoch[b].active = i
                                  /\ epoch[b].status # "reconcile_pending"

\* Seeded fault: a lane in doubt is taken for landed.
IntegratedOrInDoubt(i) ==
    Contained(i, tip[i], TargetHead)
        \/ (epoch[BatchOf[i]].status = "merge_in_doubt" /\ epoch[BatchOf[i]].active = i)

AlreadyIntegrated(i) == Contained(i, tip[i], TargetHead)

\* In doubt, and the target is neither where it was nor has it the branch: blind replay refused.
InDoubtMoved(i) ==
    LET e == epoch[BatchOf[i]]
    IN  e.status = "merge_in_doubt" /\ ~AlreadyIntegrated(i) /\ TargetHead # e.expected

\* decide_merge_gate, with all evidence present.
GatePassed(i) ==
    /\ row[i].status = "queued_for_merge"
    /\ \A j \in DependsOn[i] : row[j].status = "merged"

\* Seeded fault: the records of a branch in the target are written only past the gate.
ExecuteIntegratedGated(i, flow) ==
    /\ LockFree
    /\ ctx[i].status # "absent"
    /\ NotFrozen(i)
    /\ AlreadyIntegrated(i) /\ GatePassed(i)
    /\ record_merge_queue_result(i, "merged", TargetHead, tip[i])
    /\ IF flow = "batch"
       THEN /\ MayEnterEpoch(i)
            /\ advance_integration_epoch_after_merge(EpochAt(i, TargetHead), i, TargetHead, tip[i])
       ELSE UNCHANGED epoch
    /\ UNCHANGED <<target, exec, pending>>

\* The branch is in the target: no gate, no git, only the records. Also how a doubt is resolved.
ExecuteIntegrated(i, flow) ==
    /\ LockFree
    /\ ctx[i].status # "absent"
    /\ NotFrozen(i)
    /\ AlreadyIntegrated(i)
    /\ record_merge_queue_result(i, "merged", TargetHead, tip[i])
    /\ IF flow = "batch"
       THEN /\ MayEnterEpoch(i)
            /\ advance_integration_epoch_after_merge(EpochAt(i, TargetHead), i, TargetHead, tip[i])
       ELSE UNCHANGED epoch
    /\ UNCHANGED <<target, exec, pending>>

(***************************************************************************)
(* The gate passed and the ref is where the preview saw it. A batch merge  *)
(* opens the epoch if need be, arms it and commits; a standalone flow      *)
(* leaves the epochs alone.                                                *)
(***************************************************************************)
Arm(i, flow) ==
    /\ LockFree
    /\ ctx[i].status # "absent"
    /\ NotFrozen(i)
    /\ ~AlreadyIntegrated(i) /\ ~InDoubtMoved(i)
    /\ GatePassed(i)
    /\ IF flow = "batch"
       THEN /\ MayEnterEpoch(i)
            /\ arm_integration_epoch_merge_in_doubt(EpochAt(i, TargetHead), i, TargetHead)
       ELSE UNCHANGED epoch
    /\ exec' = [Idle EXCEPT !.phase = "armed", !.item = i, !.flow = flow, !.before = TargetHead]
    /\ UNCHANGED <<contextVars, row, target, pending>>

\* write_merge_with_trailer merges the branch by name, whatever it points to now.
GitMerge ==
    /\ exec.phase = "armed"
    /\ ~AlreadyIntegrated(exec.item)
    /\ target' = Append(target, [item |-> exec.item, rev |-> tip[exec.item], by |-> exec.flow])
    /\ exec' = [exec EXCEPT !.phase = "landed", !.pos = TargetHead + 1, !.rev = tip[exec.item]]
    /\ UNCHANGED <<contextVars, row, epoch, pending>>

(***************************************************************************)
(* The merge conflicts, has nothing to merge, or its commit is refused.    *)
(* The failure is recorded when the clean-up finds the target unmoved; the *)
(* epoch stays as it is.                                                   *)
(***************************************************************************)
GitFails ==
    /\ exec.phase = "armed"
    /\ \/ /\ TargetHead = exec.before
          /\ record_merge_queue_result(exec.item, "merge_failed", row[exec.item].commit,
                                       row[exec.item].rev)
       \/ UNCHANGED <<contextVars, row>>
    /\ exec' = Idle
    /\ UNCHANGED <<epoch, target, pending>>

\* The merge is recorded if the target still stands at it, and the epoch advances.
RecordLanding ==
    /\ exec.phase = "landed"
    /\ TargetHead = exec.pos
    /\ record_merge_queue_result(exec.item, "merged", exec.pos, exec.rev)
    /\ IF exec.flow = "batch"
       THEN advance_integration_epoch_after_merge(epoch[BatchOf[exec.item]], exec.item, exec.pos,
                                                  exec.rev)
       ELSE UNCHANGED epoch
    /\ exec' = Idle
    /\ UNCHANGED <<target, pending>>

\* post_merge_target_owner_misaligned: nothing is recorded.
Misaligned ==
    /\ exec.phase = "landed"
    /\ TargetHead # exec.pos
    /\ exec' = Idle
    /\ UNCHANGED <<contextVars, row, epoch, target, pending>>

-----------------------------------------------------------------------------
(***************************************************************************)
(* merge-queue/merge-result: the operator reports a merge he made, or one  *)
(* that failed. The report is taken to be true. Epochs are not consulted.  *)
(***************************************************************************)
ReportMerged(i) ==
    /\ LockFree
    /\ \E q \in 1..TargetHead :
        /\ target[q].item = i
        /\ record_merge_queue_result(i, "merged", q, target[q].rev)
    /\ UNCHANGED <<epoch, target, exec, pending>>

ReportFailed(i) ==
    /\ LockFree
    /\ record_merge_queue_result(i, "merge_failed", row[i].commit, row[i].rev)
    /\ UNCHANGED <<epoch, target, exec, pending>>

(***************************************************************************)
(* _merge_queue_item_possible_landed_evidence: what forbids the release of *)
(* a lane. A failed merge is recorded with the target where it was, which  *)
(* confirms the failure: its target_head_after_merge is no evidence.       *)
(***************************************************************************)
PossiblyLanded(i) == row[i].status = "merged" \/ row[i].commit # 0

\* Seeded fault: the epoch does not keep the lane it gave up.
ReleaseUnrecorded(b) ==
    LET i == epoch[b].active
    IN  /\ LockFree
        /\ epoch[b].status = "open"
        /\ epoch[b].remaining = {i}
        /\ ~PossiblyLanded(i)
        /\ ctx[i].status # "absent"
        /\ upsert_merge_queue_item(i, [row[i] EXCEPT !.status = "released_unlandable"])
        /\ upsert_branch_context(i, [ctx[i] EXCEPT !.status = "released_unlandable"])
        /\ epoch' = [epoch EXCEPT ![b].remaining = {}, ![b].active = "none",
                                  ![b].status = "reconcile_pending"]
        /\ UNCHANGED <<issued, tip, target, exec, pending>>

(***************************************************************************)
(* release_integration_epoch_unlandable_child: the last lane of an open    *)
(* epoch is given up; its row and its context are final.                   *)
(***************************************************************************)
ReleaseUnlandable(b) ==
    LET i == epoch[b].active
    IN  /\ LockFree
        /\ epoch[b].status = "open"
        /\ epoch[b].remaining = {i}
        /\ ~PossiblyLanded(i)
        /\ ctx[i].status # "absent"
        /\ upsert_merge_queue_item(i, [row[i] EXCEPT !.status = "released_unlandable"])
        /\ upsert_branch_context(i, [ctx[i] EXCEPT !.status = "released_unlandable"])
        /\ epoch' = [epoch EXCEPT ![b].remaining = {}, ![b].active = "none",
                                  ![b].incomplete = @ \cup {i},
                                  ![b].status = "reconcile_pending"]
        /\ UNCHANGED <<issued, tip, target, exec, pending>>

(***************************************************************************)
(* The worldref seal: the last lane was never started and the target has   *)
(* moved on beyond the epoch, which is given up.                           *)
(***************************************************************************)
SealWorldref(b) ==
    LET i == epoch[b].active
    IN  /\ LockFree
        /\ epoch[b].status = "open"
        /\ epoch[b].remaining = {i}
        /\ row[i] = PlannedRow
        /\ ctx[i].status = "absent"
        /\ TargetHead # epoch[b].head
        /\ upsert_merge_queue_item(i, [row[i] EXCEPT !.status = "terminal_no_pass"])
        /\ epoch' = [epoch EXCEPT ![b].status = "aborted_with_exception"]
        /\ UNCHANGED <<contextVars, target, exec, pending>>

\* A repair pushed to the target while the next lane is only planned becomes the epoch's head.
reanchor_open_integration_epoch_after_direct_repair(b) ==
    /\ LockFree
    /\ epoch[b].status = "open"
    /\ epoch[b].active # "none"
    /\ epoch[b].head # TargetHead
    /\ row[epoch[b].active].status = "planned"
    /\ epoch' = [epoch EXCEPT ![b].head = TargetHead]
    /\ UNCHANGED <<contextVars, row, target, exec, pending>>

\* Seeded fault: only a descendant of the epoch's head closes it.
ReconciledDescendant(b, p) ==
    /\ LockFree
    /\ epoch[b].status = "reconcile_pending"
    /\ epoch[b].remaining = {}
    /\ p > epoch[b].head
    /\ epoch' = [epoch EXCEPT ![b].status = "closed", ![b].reconciled = p]
    /\ UNCHANGED <<contextVars, row, target, exec, pending>>

(***************************************************************************)
(* record_merge_queue_graph_epoch_after_reconcile: a full graph reconcile  *)
(* of position p, which may have been the head a while ago, is done. It    *)
(* marks the epoch reconciled and closes it, in one transaction, if it is  *)
(* of the epoch's head, or of a descendant when a lane was released.       *)
(***************************************************************************)
Reconciled(b, p) ==
    /\ LockFree
    /\ epoch[b].status = "reconcile_pending"
    /\ epoch[b].remaining = {}
    /\ p = epoch[b].head \/ (epoch[b].incomplete # {} /\ p > epoch[b].head)
    /\ epoch' = [epoch EXCEPT ![b].status = "closed", ![b].reconciled = p]
    /\ UNCHANGED <<contextVars, row, target, exec, pending>>

-----------------------------------------------------------------------------
\* The process dies, with the requests it was serving; the database keeps what was committed.
Crash ==
    /\ exec # Idle \/ pending # {}
    /\ exec' = Idle
    /\ pending' = {}
    /\ UNCHANGED <<contextVars, row, epoch, target>>

Others == {q \in 1..TargetHead : target[q].by = "other"}

\* Somebody pushes to the target: a commit of his own, or a merge of lane i's branch.
Push(i, r) ==
    /\ Cardinality(Others) < MaxExternal
    /\ target' = Append(target, [item |-> i, rev |-> r, by |-> "other"])
    /\ UNCHANGED <<contextVars, row, epoch, exec, pending>>

DirectPush == Push("none", 0)
HandMerge(i) == ctx[i].status # "absent" /\ tip[i] > 0 /\ ~AlreadyIntegrated(i) /\ Push(i, tip[i])

\* The writes of the branch contexts, under the lock, and what the worker and the clock do.
ContextStep(i) ==
    /\ \/ /\ LockFree
          /\ \/ InitialJoin(i)
             \/ \E reopen \in BOOLEAN : Rejoin(i, reopen)
             \/ \E t \in 1..issued[i] : \/ record_mf_subagent_startup(i, t)
                                        \/ record_branch_checkpoint(i, t)
                                        \/ record_branch_finish_gate(i, t)
       \/ LeaseExpires(i)
       \/ WorkerCommits(i)
    /\ UNCHANGED queueVars

RecoverExpired == LockFree /\ recover_expired_branch_contexts /\ UNCHANGED queueVars

Next ==
    \/ \E i \in Worker : ContextStep(i)
    \/ RecoverExpired
    \/ \E i \in Item :
        \/ AllocateCheck(i) \/ AllocateWrite(i)
        \/ MaterializeCheck(i) \/ Materialize(i)
        \/ ExecuteIntegrated(i, "batch") \/ Arm(i, "batch")
    \/ \E i \in OffBatch :
        ExecuteIntegrated(i, "standalone") \/ Arm(i, "standalone")
    \/ \E i \in ByHand : ReportMerged(i) \/ ReportFailed(i) \/ HandMerge(i)
    \/ \E q \in pending : RequestEnds(q)
    \/ GitMerge \/ GitFails \/ RecordLanding \/ Misaligned
    \/ \E b \in Batch :
        \/ ReleaseUnlandable(b) \/ SealWorldref(b)
        \/ reanchor_open_integration_epoch_after_direct_repair(b)
        \/ \E p \in 0..TargetHead : Reconciled(b, p)
    \/ Crash
    \/ DirectPush

Spec == Init /\ [][Next]_vars

(***************************************************************************)
(* The caller of a batch retries its canonical merge and reconciles the    *)
(* current head, as the epoch's next_legal_action tells him; a call that   *)
(* holds the lock goes on until it returns. Nobody is obliged to repair,   *)
(* to merge by hand, to release or to use another flow.                    *)
(***************************************************************************)
Fairness ==
    /\ \A i \in Item : WF_vars(ExecuteIntegrated(i, "batch")) /\ WF_vars(Arm(i, "batch"))
    /\ WF_vars(GitMerge \/ GitFails)
    /\ WF_vars(RecordLanding \/ Misaligned)
    /\ \A b \in Batch : WF_vars(Reconciled(b, TargetHead))

FairSpec == Spec /\ Fairness

-----------------------------------------------------------------------------
\* The values of the variables (one type invariant for contexts, rows, epochs and the target).
TypeOK ==
    /\ ContextTypeOK
    /\ row \in [Item -> Row]
    /\ epoch \in [Batch -> Epoch]
    /\ target \in Seq(Addition)
    /\ exec \in Exec
    /\ pending \subseteq Request

(***************************************************************************)
(* One target, one owner: at most one integration epoch is active, which   *)
(* the unique index on active epochs asks for.                             *)
(***************************************************************************)
OneActiveEpoch ==
    \A b, c \in Batch : epoch[b].status \in Live /\ epoch[c].status \in Live => b = c

(***************************************************************************)
(* The cursor of an epoch splits its queue: credited lanes come before the *)
(* remaining ones, the active lane is the first of these, and no lane is   *)
(* lost or counted twice, whatever is released, sealed, reported or        *)
(* materialized in between.                                                *)
(***************************************************************************)
CursorSound ==
    \A b \in Batch : epoch[b].status # "none" =>
        LET e == epoch[b]
        IN  /\ e.prefix \cup e.remaining \cup e.incomplete = Queue(b)
            /\ e.prefix \cap e.remaining = {} /\ e.prefix \cap e.incomplete = {}
            /\ \A i \in e.prefix, j \in e.remaining \cup e.incomplete : Pos[i] < Pos[j]
            /\ First(e.active, e.remaining)
            /\ e.status \in {"open", "merge_in_doubt"} => e.remaining # {}
            /\ e.status \in {"reconcile_pending", "closed"} => e.remaining = {}

(***************************************************************************)
(* Credit is backed by git: what an epoch took for landed is part of the   *)
(* target at the epoch's head, and when it is closed, at the head that was *)
(* reconciled.                                                             *)
(***************************************************************************)
CreditIsLanded ==
    \A b \in Batch : \A i \in epoch[b].prefix :
        /\ Contained(i, epoch[b].credit[i], epoch[b].head)
        /\ epoch[b].status = "closed" => epoch[b].head <= epoch[b].reconciled

(***************************************************************************)
(* A landing is never forgotten: every merge the service made for a batch  *)
(* is credited, or the epoch is still in doubt about that very lane, also  *)
(* after a crash between git and the database. So a released or sealed     *)
(* lane has no such merge.                                                 *)
(***************************************************************************)
LandingNeverForgotten ==
    \A q \in 1..TargetHead : target[q].by = "batch" =>
        LET i == target[q].item
            e == epoch[BatchOf[i]]
        IN  \/ i \in e.prefix /\ e.credit[i] >= target[q].rev
            \/ e.status = "merge_in_doubt" /\ e.active = i

\* The additions of a step that the service makes.
ServiceLands(i) ==
    /\ Len(target') > Len(target)
    /\ target'[Len(target')].item = i
    /\ target'[Len(target')].by \in Flow

(***************************************************************************)
(* The target is frozen: while an epoch is active the service lands only   *)
(* the lane at its cursor, and never a lane that was released or sealed.   *)
(***************************************************************************)
FrozenTarget ==
    [][\A i \in Item : ServiceLands(i) =>
        /\ \A b \in Batch : Active(b) => epoch[b].active = i
        /\ row[i].status \notin Terminal]_vars

(***************************************************************************)
(* "permanently terminal": a released or sealed row and a released context *)
(* keep their status, and a finished epoch is never taken up again.        *)
(***************************************************************************)
TerminalStays ==
    [][/\ \A i \in Item :
            /\ row[i].status \in Terminal => row'[i].status = row[i].status
            /\ ctx[i].status = "released_unlandable" => ctx'[i].status = "released_unlandable"
       /\ \A b \in Batch :
            epoch[b].status \in {"closed", "aborted_with_exception"} => epoch'[b] = epoch[b]]_vars

InDoubt(i) == epoch[BatchOf[i]].status = "merge_in_doubt" /\ epoch[BatchOf[i]].active = i

(***************************************************************************)
(* Crash recovery ends: when git has the branch of the lane in doubt, the  *)
(* retried merge settles the doubt, unless the branch moves on first.      *)
(***************************************************************************)
DoubtSettles ==
    \A i \in Item : InDoubt(i) /\ AlreadyIntegrated(i) ~> ~InDoubt(i) \/ ~AlreadyIntegrated(i)

(***************************************************************************)
(* A batch that has landed gives the target back once its head has been    *)
(* reconciled, unless somebody pushes to the target before.                *)
(***************************************************************************)
ReconcileCloses ==
    \A b \in Batch :
        epoch[b].status = "reconcile_pending" /\ TargetHead = epoch[b].head
            ~> ~Active(b) \/ TargetHead # epoch[b].head

(***************************************************************************)
(* "resume_batch_merge" is the next legal action of an epoch in doubt, and *)
(* a release asks to "resolve the in-doubt merge" first: retrying the      *)
(* batch merge ends every doubt.                                           *)
(***************************************************************************)
InDoubtResolves == \A i \in Item : InDoubt(i) ~> ~InDoubt(i)

(***************************************************************************)
(* "Only the current fence_token may checkpoint, complete, ..." and "a     *)
(* stale callback from an old agent must be recorded and ignored": a       *)
(* checkpoint or a finish gate with an older fence changes no context.     *)
(***************************************************************************)
StaleCallbackIgnored ==
    [][\A i \in Worker : \A t \in 1..issued[i] :
        record_branch_checkpoint(i, t) \/ record_branch_finish_gate(i, t) => t = issued[i]]_vars

-----------------------------------------------------------------------------
\* Refinement of BatchLanding: an active epoch, in doubt or not, owns the target.
Phase(b) ==
    CASE epoch[b].status = "none" -> "waiting"
      [] epoch[b].status \in Live -> "owner"
      [] epoch[b].status = "closed" -> IF epoch[b].incomplete = {} THEN "landed" ELSE "incomplete"
      [] OTHER -> "aborted"

Landing == INSTANCE BatchLanding WITH
    phase <- [b \in Batch |-> Phase(b)],
    credited <- [b \in Batch |-> epoch[b].prefix],
    dropped <- [b \in Batch |-> epoch[b].incomplete]

(***************************************************************************)
(* Integration epochs implement BatchLanding, through crashes between git  *)
(* and the database, failed and repeated merges, reports and repairs.      *)
(***************************************************************************)
LandsBatches == Landing!LandingSpec
=============================================================================
