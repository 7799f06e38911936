-------------------------- MODULE MergeQueueProofs --------------------------
(***************************************************************************)
(* Theorems about MergeQueue, for any batches, lanes, queue orders and     *)
(* dependencies, and any bounds.                                           *)
(***************************************************************************)
EXTENDS MergeQueue, TLAPS

(***************************************************************************)
(* The call that holds the lock: an armed batch merge is the epoch's own   *)
(* doubt, any other merge runs with the target its own, and what it merged *)
(* is where it says.                                                       *)
(***************************************************************************)
ExecSound ==
    /\ exec.phase = "idle" => exec = Idle
    /\ exec.phase # "idle" =>
        /\ exec.item \in Item /\ exec.flow \in Flow
        /\ \A b \in Batch : Active(b) => epoch[b].active = exec.item
        /\ exec.flow = "batch" => InDoubt(exec.item)
    /\ exec.phase = "armed" => row[exec.item].status = "queued_for_merge"
    /\ exec.phase = "landed" =>
        /\ exec.pos \in 1..TargetHead
        /\ target[exec.pos].item = exec.item /\ target[exec.pos].rev = exec.rev
        /\ \A q \in 1..TargetHead :
            target[q].item = exec.item /\ target[q].by = "batch" => target[q].rev <= exec.rev

\* The target holds revisions that were made, and merged rows name one of them.
TargetSound ==
    /\ \A q \in 1..TargetHead :
        /\ target[q].item \in Item => target[q].rev <= tip[target[q].item]
        /\ target[q].by = "batch" => target[q].item \in Item
    /\ \A i \in Item : row[i].status = "merged" => Contained(i, row[i].rev, TargetHead)

(***************************************************************************)
(* What is true of a record e as the epoch of batch b: its cursor splits   *)
(* the queue, it is blank before it is opened, gives up no lane while it   *)
(* is under way, is not ahead of git, its credit is backed by git, and no  *)
(* landing of the batch is missing from it.                                *)
(***************************************************************************)
EpochOK(b, e) ==
    /\ e \in Epoch
    /\ e.status = "none" => e = NoEpoch
    /\ e.status # "none" =>
        /\ e.prefix \cup e.remaining \cup e.incomplete = Queue(b)
        /\ e.prefix \cap e.remaining = {} /\ e.prefix \cap e.incomplete = {}
        /\ \A i \in e.prefix, j \in e.remaining \cup e.incomplete : Pos[i] < Pos[j]
        /\ First(e.active, e.remaining)
    /\ e.status \in {"open", "merge_in_doubt"} => e.remaining # {} /\ e.incomplete = {}
    /\ e.status \in {"reconcile_pending", "closed"} => e.remaining = {}
    /\ e.head <= TargetHead
    /\ e.status = "closed" => e.head <= e.reconciled
    /\ \A i \in e.prefix : Contained(i, e.credit[i], e.head)
    /\ \A q \in 1..TargetHead : target[q].by = "batch" /\ target[q].item \in Queue(b) =>
        \/ target[q].item \in e.prefix /\ e.credit[target[q].item] >= target[q].rev
        \/ e.status = "merge_in_doubt" /\ e.active = target[q].item

IInv ==
    /\ TypeOK
    /\ OneActiveEpoch
    /\ ExecSound
    /\ TargetSound
    /\ \A b \in Batch : EpochOK(b, epoch[b])

USE BoundAssumption, LaneAssumption

-----------------------------------------------------------------------------
(* Types *)

\* Writing columns of a context gives a context.
LEMMA ContextUpdate ==
    ASSUME NEW c \in Context, NEW s \in ContextStatus, NEW r \in Token \cup {NoToken},
           NEW v \in Token \cup {NoToken}, NEW g \in BOOLEAN, NEW l \in {"none", "ahead", "past"}
    PROVE  /\ [c EXCEPT !.status = s] \in Context
           /\ [c EXCEPT !.status = s, !.raw = r] \in Context
           /\ [c EXCEPT !.raw = r, !.verifier = v, !.lease = l] \in Context
           /\ [c EXCEPT !.status = s, !.raw = r, !.verifier = v, !.lease = l] \in Context
           /\ [c EXCEPT !.raw = r] \in Context
           /\ [c EXCEPT !.status = s, !.verifier = v, !.gate = g] \in Context
           /\ [c EXCEPT !.gate = g] \in Context
           /\ [c EXCEPT !.status = s, !.gate = g] \in Context
           /\ [c EXCEPT !.lease = l] \in Context
<1> USE DEF Context
<1>1. [c EXCEPT !.status = s] \in Context
    OBVIOUS
<1>2. [c EXCEPT !.status = s, !.raw = r] \in Context
    OBVIOUS
<1>3. [c EXCEPT !.raw = r, !.verifier = v, !.lease = l] \in Context
    OBVIOUS
<1>4. [c EXCEPT !.status = s, !.raw = r, !.verifier = v, !.lease = l] \in Context
    OBVIOUS
<1>5. [c EXCEPT !.raw = r] \in Context
    OBVIOUS
<1>6. [c EXCEPT !.gate = g] \in Context
    OBVIOUS
<1>7. [c EXCEPT !.status = s, !.gate = g] \in Context
    OBVIOUS
<1>8. [c EXCEPT !.lease = l] \in Context
    OBVIOUS
<1>9. [c EXCEPT !.status = s, !.verifier = v, !.gate = g] \in Context
    OBVIOUS
<1> QED BY <1>1, <1>2, <1>3, <1>4, <1>5, <1>6, <1>7, <1>8, <1>9

\* The columns of a context have their types.
LEMMA ContextFields ==
    ASSUME NEW c \in Context
    PROVE  /\ c.status \in ContextStatus /\ c.raw \in Token \cup {NoToken}
           /\ c.verifier \in Token \cup {NoToken} /\ c.lease \in {"none", "ahead", "past"}
BY DEF Context

LEMMA StatusNames ==
    {"worktree_ready", "running", "reclaimable", "validated", "queued_for_merge", "merged",
     "merge_failed", "released_unlandable"} \subseteq ContextStatus
BY DEF ContextStatus

\* The values the actions start from have their types.
LEMMA ConstantTypes ==
    /\ AbsentContext \in Context /\ AllocatedContext \in Context /\ FinishedContext \in Context
    /\ PlannedRow \in Row
    /\ NoEpoch \in Epoch
    /\ Idle \in Exec
<1>1. AbsentContext \in Context
    BY DEF AbsentContext, Context, ContextStatus, NoToken
<1>2. 1 \in Token
    BY DEF Token
<1>3. AllocatedContext \in Context
    BY <1>1, <1>2, ContextUpdate, StatusNames DEF AllocatedContext
<1>0. FinishedContext \in Context
    BY <1>1, <1>2, ContextUpdate, StatusNames DEF FinishedContext
<1>4. PlannedRow \in Row
    BY DEF PlannedRow, Row, RowStatus
<1>5. NoEpoch \in Epoch
    BY DEF NoEpoch, Epoch, EpochStatus
<1>6. Idle \in Exec
    BY DEF Idle, Exec
<1> QED BY <1>0, <1>1, <1>3, <1>4, <1>5, <1>6

LEMMA InitTypeOK == Init => TypeOK
<1> SUFFICES ASSUME Init PROVE TypeOK
    OBVIOUS
<1> USE DEF Init
<1>1. ContextTypeOK
    BY ConstantTypes DEF ContextInit, ContextTypeOK, Token, NoToken
<1>2. target \in Seq(Addition)
    BY DEF Addition
<1> QED BY <1>1, <1>2, ConstantTypes DEF TypeOK

\* Every step of the contexts alone keeps their types and never takes a commit back.
LEMMA ContextSteps ==
    ASSUME ContextTypeOK,
           \/ \E i \in Worker : ContextStep(i)
           \/ RecoverExpired
           \/ \E i \in Item : AllocateWrite(i)
    PROVE  ContextTypeOK' /\ \A i \in Item : tip[i] <= tip'[i]
<1> USE DEF ContextTypeOK
<1>1. CASE \E i \in Worker : ContextStep(i)
    <2> PICK i \in Worker : ContextStep(i)
        BY <1>1
    <2> DEFINE c == ctx[i]
    <2>0. i \in Item /\ c \in Context
        OBVIOUS
    <2>1. CASE InitialJoin(i)
        <3>1. [c EXCEPT !.raw = NoToken, !.verifier = c.raw, !.lease = "ahead"] \in Context
            BY <2>0, ContextUpdate, ContextFields
        <3> QED BY <2>0, <2>1, <3>1 DEF InitialJoin, upsert_branch_context
    <2>2. CASE \E reopen \in BOOLEAN : Rejoin(i, reopen)
        <3> PICK reopen \in BOOLEAN : Rejoin(i, reopen)
            BY <2>2
        <3>1. issued' \in [Item -> Token \cup {NoToken}] /\ issued'[i] \in Token \cup {NoToken}
            BY <2>0 DEF Rejoin, Mint, Token, NoToken
        <3> DEFINE s == IF Revision(i, reopen) THEN "worktree_ready" ELSE c.status
                   r == IF c.verifier = NoToken THEN c.raw ELSE NoToken
                   v == IF c.verifier = NoToken THEN c.verifier ELSE issued'[i]
        <3>2. s \in ContextStatus /\ r \in Token \cup {NoToken} /\ v \in Token \cup {NoToken}
            BY <2>0, <3>1, ContextFields, StatusNames
        <3>3. ctx' = [ctx EXCEPT ![i] = [c EXCEPT !.status = s, !.raw = r, !.verifier = v,
                                                  !.lease = "ahead"]]
            BY DEF Rejoin, upsert_branch_context
        <3> HIDE DEF s, r, v
        <3>4. [c EXCEPT !.status = s, !.raw = r, !.verifier = v, !.lease = "ahead"] \in Context
            BY <2>0, <3>2, ContextUpdate
        <3> QED BY <2>0, <3>1, <3>3, <3>4 DEF Rejoin
    <2>3. CASE \E t \in 1..issued[i] : record_mf_subagent_startup(i, t)
        <3>1. [c EXCEPT !.status = "running"] \in Context
            BY <2>0, ContextUpdate, StatusNames
        <3> QED BY <2>0, <2>3, <3>1 DEF record_mf_subagent_startup, upsert_branch_context
    <2>4. CASE \E t \in 1..issued[i] : record_branch_checkpoint(i, t)
        <3>1. [c EXCEPT !.gate = FALSE] \in Context
            BY <2>0, ContextUpdate, ContextFields
        <3> QED BY <2>0, <2>4, <3>1 DEF record_branch_checkpoint
    <2>5. CASE \E t \in 1..issued[i] : record_branch_finish_gate(i, t)
        <3>1. [c EXCEPT !.status = "validated", !.gate = TRUE] \in Context
            BY <2>0, ContextUpdate, StatusNames
        <3>2. ctx' = [ctx EXCEPT ![i] = [c EXCEPT !.status = "validated", !.gate = TRUE]]
            BY <2>5 DEF record_branch_finish_gate
        <3> QED BY <2>0, <2>5, <3>1, <3>2 DEF record_branch_finish_gate
    <2>6. CASE LeaseExpires(i)
        <3>1. [c EXCEPT !.lease = "past"] \in Context
            BY <2>0, ContextUpdate, ContextFields
        <3> QED BY <2>0, <2>6, <3>1 DEF LeaseExpires
    <2>7. CASE WorkerCommits(i)
        BY <2>0, <2>7 DEF WorkerCommits
    <2> QED BY <2>1, <2>2, <2>3, <2>4, <2>5, <2>6, <2>7 DEF ContextStep
<1>2. CASE RecoverExpired
    <2>1. issued' \in [Item -> Token \cup {NoToken}] /\ tip' = tip
        <3>1. /\ issued' = [i \in Item |-> IF i \in Expired THEN issued[i] + 1 ELSE issued[i]]
              /\ \A i \in Expired : issued[i] < MaxToken
              /\ tip' = tip
            BY <1>2 DEF RecoverExpired, recover_expired_branch_contexts
        <3> QED BY <3>1 DEF Token, NoToken
    <2>2. \A i \in Item : [ctx[i] EXCEPT !.status = "reclaimable", !.raw = issued'[i]] \in Context
        BY <2>1, ContextUpdate, StatusNames
    <2> DEFINE new(i) == [ctx[i] EXCEPT !.status = "reclaimable", !.raw = issued'[i]]
    <2>3. ctx' = [i \in Item |-> IF i \in Expired THEN new(i) ELSE ctx[i]]
        BY <1>2 DEF RecoverExpired, recover_expired_branch_contexts
    <2> HIDE DEF new
    <2>4. \A i \in Item : new(i) \in Context
        BY <2>2 DEF new
    <2> QED BY <2>1, <2>3, <2>4
<1>3. CASE \E i \in Item : AllocateWrite(i)
    <2> PICK i \in Item : AllocateWrite(i)
        BY <1>3
    <2>1. issued' \in [Item -> Token \cup {NoToken}] /\ tip' = tip
        BY DEF AllocateWrite, Allocate, Mint, Token, NoToken
    <2>2. [AllocatedContext EXCEPT !.raw = issued'[i]] \in Context
        BY <2>1, ContextUpdate, ContextFields, ConstantTypes
    <2>3. ctx' = [ctx EXCEPT ![i] = [AllocatedContext EXCEPT !.raw = issued'[i]]]
        BY DEF AllocateWrite, Allocate
    <2> QED BY <2>1, <2>2, <2>3
<1> QED BY <1>1, <1>2, <1>3

\* Writing columns of a queue row gives a row.
LEMMA RowUpdate ==
    ASSUME NEW r \in Row, NEW s \in RowStatus
    PROVE  /\ [r EXCEPT !.status = s] \in Row
           /\ [r EXCEPT !.status = s].status = s
BY DEF Row

LEMMA RowQueued ==
    ASSUME NEW r \in Row, NEW s \in RowStatus, NEW h \in 0..MaxRev
    PROVE  /\ [r EXCEPT !.status = s, !.head = h] \in Row
           /\ [r EXCEPT !.status = s, !.head = h].status = s
BY DEF Row

ResultRow(r, s, c, v) == [r EXCEPT !.status = s, !.commit = c, !.rev = v]

LEMMA RowResult ==
    ASSUME NEW r \in Row, NEW s \in RowStatus, NEW c \in Nat, NEW v \in 0..MaxRev
    PROVE  /\ ResultRow(r, s, c, v) \in Row
           /\ ResultRow(r, s, c, v).status = s /\ ResultRow(r, s, c, v).rev = v
BY DEF Row, ResultRow

LEMMA RowFields ==
    ASSUME NEW r \in Row
    PROVE  r.status \in RowStatus /\ r.head \in 0..MaxRev /\ r.commit \in Nat /\ r.rev \in 0..MaxRev
BY DEF Row

LEMMA EpochFields ==
    ASSUME NEW e \in Epoch
    PROVE  /\ e.status \in EpochStatus /\ e.prefix \in SUBSET Item /\ e.remaining \in SUBSET Item
           /\ e.active \in Item \cup {"none"} /\ e.head \in Nat /\ e.expected \in Nat
           /\ e.incomplete \in SUBSET Item /\ e.reconciled \in Nat
           /\ e.credit \in [Item -> 0..MaxRev]
BY DEF Epoch

\* The columns of an epoch that advances.
AdvancedTo(e, i, n, h, r, s) ==
    [e EXCEPT !.prefix = @ \cup {i}, !.remaining = @ \ {i}, !.active = n, !.head = h,
              !.expected = 0, !.credit[i] = r, !.status = s]

LEMMA AdvancedEpoch ==
    ASSUME NEW e \in Epoch, NEW i \in Item, NEW h \in Nat, NEW r \in 0..MaxRev,
           NEW n \in Item \cup {"none"}, NEW s \in EpochStatus
    PROVE  LET f == AdvancedTo(e, i, n, h, r, s)
           IN  /\ f \in Epoch
               /\ f.status = s /\ f.prefix = e.prefix \cup {i} /\ f.remaining = e.remaining \ {i}
               /\ f.active = n /\ f.head = h /\ f.incomplete = e.incomplete
               /\ f.credit[i] = r /\ \A k \in Item : k # i => f.credit[k] = e.credit[k]
<1> DEFINE f == AdvancedTo(e, i, n, h, r, s)
           P == e.prefix \cup {i}
           R == e.remaining \ {i}
           C == [e.credit EXCEPT ![i] = r]
<1>1. P \in SUBSET Item /\ R \in SUBSET Item /\ C \in [Item -> 0..MaxRev] /\ 0 \in Nat
    BY EpochFields
<1>2. f = [e EXCEPT !.prefix = P, !.remaining = R, !.active = n, !.head = h, !.expected = 0,
                    !.credit = C, !.status = s]
    BY DEF AdvancedTo
<1> HIDE DEF P, R, C, f
<1>3. /\ f \in Epoch
      /\ f.status = s /\ f.prefix = P /\ f.remaining = R /\ f.active = n /\ f.head = h
      /\ f.incomplete = e.incomplete /\ f.credit = C
    BY <1>1, <1>2 DEF Epoch
<1>4. C[i] = r /\ \A k \in Item : k # i => C[k] = e.credit[k]
    BY EpochFields DEF C
<1> QED BY <1>3, <1>4 DEF P, R, f

\* The columns of an epoch that is armed.
ArmedAt(e, h) == [e EXCEPT !.status = "merge_in_doubt", !.expected = h]

LEMMA ArmedEpoch ==
    ASSUME NEW e \in Epoch, NEW h \in Nat
    PROVE  LET f == ArmedAt(e, h)
           IN  /\ f \in Epoch
               /\ f.status = "merge_in_doubt" /\ f.prefix = e.prefix /\ f.remaining = e.remaining
               /\ f.active = e.active /\ f.head = e.head /\ f.incomplete = e.incomplete
               /\ f.credit = e.credit
<1>1. "merge_in_doubt" \in EpochStatus
    BY DEF EpochStatus
<1> QED BY <1>1 DEF Epoch, ArmedAt

\* The columns of an epoch that is opened.
OpenedAt(i, h, P, R, C) ==
    [NoEpoch EXCEPT !.status = "open", !.prefix = P, !.remaining = R, !.active = i, !.head = h,
                    !.credit = C]

LEMMA OpenedEpoch ==
    ASSUME NEW i \in Item, NEW h \in Nat, NEW P \in SUBSET Item, NEW R \in SUBSET Item,
           NEW C \in [Item -> 0..MaxRev]
    PROVE  LET f == OpenedAt(i, h, P, R, C)
           IN  /\ f \in Epoch
               /\ f.status = "open" /\ f.prefix = P /\ f.remaining = R /\ f.active = i
               /\ f.head = h /\ f.incomplete = {} /\ f.credit = C
<1>1. NoEpoch \in Epoch /\ NoEpoch.incomplete = {}
    BY ConstantTypes DEF NoEpoch
<1>2. "open" \in EpochStatus
    BY DEF EpochStatus
<1> QED BY <1>1, <1>2 DEF Epoch, OpenedAt

\* The columns of an epoch whose last lane is released, that is aborted, anchored again or closed.
ReleasedTo(e, i) ==
    [e EXCEPT !.remaining = {}, !.active = "none", !.incomplete = @ \cup {i},
              !.status = "reconcile_pending"]
AbortedTo(e) == [e EXCEPT !.status = "aborted_with_exception"]
AnchoredAt(e, h) == [e EXCEPT !.head = h]
ClosedAt(e, h) == [e EXCEPT !.status = "closed", !.reconciled = h]

LEMMA ReleasedEpoch ==
    ASSUME NEW e \in Epoch, NEW i \in Item
    PROVE  LET f == ReleasedTo(e, i)
           IN  /\ f \in Epoch /\ f.status = "reconcile_pending" /\ f.prefix = e.prefix
               /\ f.remaining = {} /\ f.active = "none" /\ f.head = e.head
               /\ f.incomplete = e.incomplete \cup {i} /\ f.credit = e.credit
<1> DEFINE I == e.incomplete \cup {i}
<1>1. "reconcile_pending" \in EpochStatus /\ I \in SUBSET Item
    BY EpochFields DEF EpochStatus
<1>2. ReleasedTo(e, i) = [e EXCEPT !.remaining = {}, !.active = "none", !.incomplete = I,
                                   !.status = "reconcile_pending"]
    BY DEF ReleasedTo
<1> HIDE DEF I
<1>3. LET f == ReleasedTo(e, i)
      IN  /\ f \in Epoch /\ f.status = "reconcile_pending" /\ f.prefix = e.prefix
          /\ f.remaining = {} /\ f.active = "none" /\ f.head = e.head
          /\ f.incomplete = I /\ f.credit = e.credit
    BY <1>1, <1>2 DEF Epoch
<1> QED BY <1>3 DEF I

LEMMA AbortedEpoch ==
    ASSUME NEW e \in Epoch
    PROVE  LET f == AbortedTo(e)
           IN  /\ f \in Epoch /\ f.status = "aborted_with_exception" /\ f.prefix = e.prefix
               /\ f.remaining = e.remaining /\ f.active = e.active /\ f.head = e.head
               /\ f.incomplete = e.incomplete /\ f.credit = e.credit
<1>1. "aborted_with_exception" \in EpochStatus
    BY DEF EpochStatus
<1> QED BY <1>1 DEF Epoch, AbortedTo

LEMMA AnchoredEpoch ==
    ASSUME NEW e \in Epoch, NEW h \in Nat
    PROVE  LET f == AnchoredAt(e, h)
           IN  /\ f \in Epoch /\ f.status = e.status /\ f.prefix = e.prefix
               /\ f.remaining = e.remaining /\ f.active = e.active /\ f.head = h
               /\ f.incomplete = e.incomplete /\ f.credit = e.credit
BY DEF Epoch, AnchoredAt

LEMMA ClosedEpoch ==
    ASSUME NEW e \in Epoch, NEW h \in Nat
    PROVE  LET f == ClosedAt(e, h)
           IN  /\ f \in Epoch /\ f.status = "closed" /\ f.prefix = e.prefix
               /\ f.remaining = e.remaining /\ f.active = e.active /\ f.head = e.head
               /\ f.incomplete = e.incomplete /\ f.credit = e.credit /\ f.reconciled = h
<1>1. "closed" \in EpochStatus
    BY DEF EpochStatus
<1> QED BY <1>1 DEF Epoch, ClosedAt

-----------------------------------------------------------------------------
(* Lemmas about the operators *)

\* What is contained at a position is contained at every later one.
LEMMA ContainedLater ==
    ASSUME NEW i, NEW r, NEW p \in Nat, NEW n \in Nat, p <= n, Contained(i, r, p)
    PROVE  Contained(i, r, n)
BY DEF Contained

LEMMA HeadIsNat ==
    ASSUME TypeOK
    PROVE  /\ TargetHead \in Nat
           /\ \A q \in 1..TargetHead : target[q] \in Addition
BY DEF TypeOK, TargetHead

\* The first of a set of lanes is one of them, or "none" when there are none.
LEMMA FirstOf ==
    ASSUME NEW S \in SUBSET Item, NEW n \in Item \cup {"none"}, First(n, S)
    PROVE  /\ n = "none" <=> S = {}
           /\ n \in Item => n \in S /\ \A j \in S : Pos[n] <= Pos[j]
BY QueueAssumption DEF First

\* record_merge_queue_result writes the row and the context of one lane.
LEMMA RecordResult ==
    ASSUME TypeOK, NEW i \in Item, NEW s \in {"merged", "merge_failed"}, NEW c \in Nat,
           NEW v \in 0..MaxRev, record_merge_queue_result(i, s, c, v)
    PROVE  /\ ContextTypeOK' /\ row' \in [Item -> Row] /\ tip' = tip /\ issued' = issued
           /\ row'[i].status = s /\ row'[i].rev = v
           /\ \A j \in Item : j # i => row'[j] = row[j]
<1> DEFINE r == ResultRow(row[i], s, c, v)
           d == [ctx[i] EXCEPT !.status = s]
<1>1. row[i] \in Row /\ ctx[i] \in Context /\ s \in RowStatus /\ s \in ContextStatus
    BY DEF TypeOK, ContextTypeOK, RowStatus, ContextStatus
<1>2. r \in Row /\ r.status = s /\ r.rev = v
    BY <1>1, RowResult
<1>3. d \in Context
    BY <1>1, ContextUpdate, ContextFields
<1>4. row' = [row EXCEPT ![i] = r] /\ (ctx' = ctx \/ ctx' = [ctx EXCEPT ![i] = d])
    BY DEF record_merge_queue_result, upsert_merge_queue_item, upsert_branch_context, ResultRow
<1>5. UNCHANGED <<issued, tip>>
    BY DEF record_merge_queue_result
<1> HIDE DEF r, d
<1> QED BY <1>1, <1>2, <1>3, <1>4, <1>5 DEF TypeOK, ContextTypeOK

(***************************************************************************)
(* A step that leaves the epochs and the target alone, takes no commit     *)
(* back, keeps merged rows backed by git, and ends the call that holds the *)
(* lock or leaves its rows as they are.                                    *)
(***************************************************************************)
LEMMA Frame ==
    ASSUME IInv, TypeOK', UNCHANGED <<epoch, target>>,
           \A i \in Item : tip[i] <= tip'[i],
           \A i \in Item : row'[i].status = "merged" => Contained(i, row'[i].rev, TargetHead),
           exec' = Idle \/ (exec' = exec /\ row' = row)
    PROVE  IInv'
<1> USE DEF IInv
<1>1. OneActiveEpoch'
    BY DEF OneActiveEpoch
<1>2. TargetHead' = TargetHead /\ \A i, r, p : Contained(i, r, p)' = Contained(i, r, p)
    BY DEF TargetHead, Contained
<1>3. TargetSound'
    <2>1. \A q \in 1..TargetHead : target[q].item \in Item => target[q].rev <= tip'[target[q].item]
        <3> SUFFICES ASSUME NEW q \in 1..TargetHead, target[q].item \in Item
                     PROVE  target[q].rev <= tip'[target[q].item]
            OBVIOUS
        <3>1. target[q].rev <= tip[target[q].item]
            BY DEF TargetSound
        <3>2. /\ target[q].rev \in 0..MaxRev /\ tip[target[q].item] \in 0..MaxRev
              /\ tip'[target[q].item] \in 0..MaxRev
            BY HeadIsNat DEF Addition, TypeOK, ContextTypeOK
        <3> QED BY <3>1, <3>2
    <2>2. \A q \in 1..TargetHead : target[q].by = "batch" => target[q].item \in Item
        BY DEF TargetSound
    <2> QED BY <1>2, <2>1, <2>2 DEF TargetSound
<1>4. ASSUME NEW b \in Batch PROVE EpochOK(b, epoch[b])'
    BY <1>2 DEF EpochOK, Queue, First
<1>5. ExecSound'
    <2>1. CASE exec' = Idle
        BY <2>1 DEF ExecSound, Idle
    <2>2. CASE exec' = exec /\ row' = row
        BY <1>2, <2>2 DEF ExecSound, Active, InDoubt
    <2> QED BY <2>1, <2>2
<1> QED BY <1>1, <1>3, <1>4, <1>5

(***************************************************************************)
(* open_or_validate_integration_epoch: the epoch a merge of lane i enters  *)
(* is sound, under way, and has i at its cursor.                           *)
(***************************************************************************)
LEMMA EnteredEpoch ==
    ASSUME IInv, NEW i \in Item, MayEnterEpoch(i)
    PROVE  LET e == EpochAt(i, TargetHead)
           IN  /\ EpochOK(BatchOf[i], e)
               /\ e.status \in {"open", "merge_in_doubt"} /\ e.active = i
               /\ e = epoch[BatchOf[i]] \/ e.status = "open"
<1> DEFINE b == BatchOf[i]
           e == EpochAt(i, TargetHead)
<1>0. b \in Batch /\ EpochOK(b, epoch[b])
    BY QueueAssumption DEF IInv
<1>1. CASE epoch[b].status # "none"
    BY <1>0, <1>1 DEF MayEnterEpoch, EpochAt
<1>2. CASE epoch[b].status = "none"
    <2> DEFINE P == Merged(b)
               R == Queue(b) \ Merged(b)
               C == [j \in Item |-> IF j \in Merged(b) THEN row[j].rev ELSE 0]
    <2>1. P \in SUBSET Item /\ R \in SUBSET Item /\ C \in [Item -> 0..MaxRev] /\ TargetHead \in Nat
        BY HeadIsNat DEF IInv, TypeOK, Merged, Queue, Row
    <2>2. e = OpenedAt(i, TargetHead, P, R, C)
        BY <1>2 DEF EpochAt, OpenedAt
    <2>3. /\ e \in Epoch
          /\ e.status = "open" /\ e.prefix = P /\ e.remaining = R /\ e.active = i
          /\ e.head = TargetHead /\ e.incomplete = {} /\ e.credit = C
        <3> HIDE DEF P, R, C, e
        <3> DEFINE o == OpenedAt(i, TargetHead, P, R, C)
        <3>1. /\ o \in Epoch
              /\ o.status = "open" /\ o.prefix = P /\ o.remaining = R /\ o.active = i
              /\ o.head = TargetHead /\ o.incomplete = {} /\ o.credit = C
            BY ONLY <2>1, i \in Item, OpenedEpoch
        <3> QED BY <2>2, <3>1
    <2>4. Contiguous(b) /\ First(i, R)
        BY <1>2 DEF MayEnterEpoch
    <2>5. R # {}
        BY <2>1, <2>4, QueueAssumption DEF First
    <2>6. P \cup R = Queue(b) /\ P \cap R = {} /\ \A j \in P, k \in R : Pos[j] < Pos[k]
        BY <2>4 DEF Contiguous, Merged, Queue
    <2>7. \A j \in P : Contained(j, C[j], TargetHead)
        BY <2>1 DEF IInv, TargetSound, Merged, Queue
    <2>8. \A q \in 1..TargetHead : ~(target[q].by = "batch" /\ target[q].item \in Queue(b))
        BY <1>0, <1>2 DEF EpochOK, NoEpoch
    <2> HIDE DEF P, R, C, e, b
    <2>9. EpochOK(b, e)
        BY <2>1, <2>3, <2>4, <2>5, <2>6, <2>7, <2>8 DEF EpochOK
    <2> QED BY <2>3, <2>9 DEF e, b
<1> QED BY <1>1, <1>2

(***************************************************************************)
(* advance_integration_epoch_after_merge keeps a sound epoch sound, when   *)
(* the revision it credits is in the target and no landing is newer.       *)
(***************************************************************************)
LEMMA AdvanceSound ==
    ASSUME IInv, NEW i \in Item, NEW e, EpochOK(BatchOf[i], e),
           e.status \in {"open", "merge_in_doubt"}, e.active = i,
           NEW r \in 0..MaxRev, Contained(i, r, TargetHead),
           \A q \in 1..TargetHead :
               target[q].by = "batch" /\ target[q].item = i => target[q].rev <= r,
           advance_integration_epoch_after_merge(e, i, TargetHead, r)
    PROVE  \E f : /\ EpochOK(BatchOf[i], f)
                  /\ epoch' = [epoch EXCEPT ![BatchOf[i]] = f]
                  /\ f.status \in {"open", "reconcile_pending"}
                  /\ f.prefix = e.prefix \cup {i} /\ f.remaining = e.remaining \ {i}
                  /\ f.incomplete = {} /\ e.incomplete = {}
<1> DEFINE b == BatchOf[i]
<1>0. PICK n \in Item \cup {"none"} :
        /\ First(n, e.remaining \ {i})
        /\ epoch' = [epoch EXCEPT ![b] =
            [e EXCEPT !.prefix = @ \cup {i}, !.remaining = @ \ {i}, !.active = n,
                      !.head = TargetHead, !.expected = 0, !.credit[i] = r,
                      !.status = IF n = "none" THEN "reconcile_pending" ELSE "open"]]
    BY DEF advance_integration_epoch_after_merge
<1> DEFINE s == IF n = "none" THEN "reconcile_pending" ELSE "open"
           f == AdvancedTo(e, i, n, TargetHead, r, s)
<1>1. e \in Epoch /\ TargetHead \in Nat /\ s \in EpochStatus
    BY HeadIsNat DEF EpochOK, IInv, EpochStatus
<1>2. epoch' = [epoch EXCEPT ![b] = f]
    BY <1>0 DEF AdvancedTo
<1> HIDE DEF f, s
<1>3. /\ f \in Epoch
      /\ f.status = s /\ f.prefix = e.prefix \cup {i} /\ f.remaining = e.remaining \ {i}
      /\ f.active = n /\ f.head = TargetHead /\ f.incomplete = e.incomplete
      /\ f.credit[i] = r /\ \A k \in Item : k # i => f.credit[k] = e.credit[k]
    BY ONLY <1>1, i \in Item, r \in 0..MaxRev, n \in Item \cup {"none"}, AdvancedEpoch DEF f
<1>4. /\ e.incomplete = {} /\ e.prefix \cup e.remaining = Queue(b) /\ e.prefix \cap e.remaining = {}
      /\ \A k \in e.prefix, j \in e.remaining : Pos[k] < Pos[j]
      /\ i \in e.remaining /\ \A j \in e.remaining : Pos[i] <= Pos[j]
      /\ e.prefix \in SUBSET Item /\ e.remaining \in SUBSET Item /\ e.credit \in [Item -> 0..MaxRev]
      /\ e.head \in Nat /\ e.head <= TargetHead
    BY <1>1, EpochFields DEF EpochOK, First
<1>5. ASSUME NEW j \in e.remaining, j # i PROVE Pos[i] < Pos[j]
    <2>1. j \in Item /\ BatchOf[j] = BatchOf[i] /\ Pos[i] <= Pos[j]
        BY <1>4 DEF Queue
    <2>2. Pos[i] # Pos[j] /\ Pos[i] \in Nat /\ Pos[j] \in Nat
        BY <1>5, <2>1, QueueAssumption
    <2> QED BY <2>1, <2>2
<1>6. \A k \in f.prefix, j \in f.remaining : Pos[k] < Pos[j]
    BY <1>3, <1>4, <1>5
<1>7. s \in {"open", "reconcile_pending"} /\ (s = "open" <=> f.remaining # {})
    BY <1>0, <1>3, <1>4, FirstOf DEF s
<1>8. \A k \in f.prefix : Contained(k, f.credit[k], TargetHead)
    <2>1. f.credit[i] = r /\ \A k \in e.prefix : f.credit[k] = e.credit[k]
        BY ONLY <1>3, <1>4
    <2>2. \A k \in e.prefix : Contained(k, e.credit[k], TargetHead)
        BY <1>1, <1>4, ContainedLater DEF EpochOK
    <2> QED BY <1>3, <2>1, <2>2
<1>9. ASSUME NEW q \in 1..TargetHead, target[q].by = "batch", target[q].item \in Queue(b)
      PROVE  target[q].item \in f.prefix /\ f.credit[target[q].item] >= target[q].rev
    <2>1. CASE target[q].item = i
        <3>1. target[q].rev \in 0..MaxRev /\ target[q].rev <= r
            BY <1>9, <2>1, HeadIsNat DEF IInv, Addition
        <3> QED BY <1>3, <1>4, <2>1, <3>1
    <2>2. CASE target[q].item # i
        <3>1. target[q].item \in e.prefix /\ e.credit[target[q].item] >= target[q].rev
            BY <1>9, <2>2 DEF EpochOK
        <3> QED BY <1>3, <1>4, <2>2, <3>1
    <2> QED BY <2>1, <2>2
<1>10. First(f.active, f.remaining)
    BY <1>0, <1>3
<1>11. EpochOK(b, f)
    <2>1. f.prefix \cup f.remaining \cup f.incomplete = Queue(b) /\ f.incomplete = {}
        BY <1>3, <1>4
    <2>2. f.prefix \cap f.remaining = {}
        BY <1>3, <1>4
    <2> HIDE DEF b
    <2> QED BY <1>1, <1>3, <1>6, <1>7, <1>8, <1>9, <1>10, <2>1, <2>2 DEF EpochOK
<1> QED BY <1>2, <1>3, <1>4, <1>7, <1>11

(***************************************************************************)
(* A step that writes the epoch of one batch, and perhaps rows, contexts   *)
(* and the call under way, and leaves git alone.                           *)
(***************************************************************************)
LEMMA EpochStep ==
    ASSUME IInv, NEW b \in Batch, NEW f, EpochOK(b, f), epoch' = [epoch EXCEPT ![b] = f],
           UNCHANGED <<tip, target>>, ContextTypeOK', row' \in [Item -> Row], exec' \in Exec,
           pending' \subseteq Request, ExecSound',
           \A i \in Item : row'[i].status = "merged" => Contained(i, row'[i].rev, TargetHead),
           f.status \in Live => \A c \in Batch \ {b} : ~Active(c)
    PROVE  IInv'
<1>1. epoch \in [Batch -> Epoch] /\ f \in Epoch
    BY DEF IInv, TypeOK, EpochOK
<1>2. TypeOK'
    BY <1>1 DEF IInv, TypeOK
<1>3. epoch'[b] = f /\ \A c \in Batch \ {b} : epoch'[c] = epoch[c]
    BY <1>1
<1>4. OneActiveEpoch'
    BY <1>3 DEF IInv, OneActiveEpoch, Active
<1>5. TargetHead' = TargetHead /\ \A i, r, p : Contained(i, r, p)' = Contained(i, r, p)
    BY DEF TargetHead, Contained
<1>6. TargetSound'
    BY <1>5 DEF IInv, TargetSound
<1>7. ASSUME NEW c \in Batch PROVE EpochOK(c, epoch[c])'
    <2>1. EpochOK(c, epoch'[c])
        BY <1>3 DEF IInv
    <2> QED BY <1>5, <2>1 DEF EpochOK, Queue, First
<1> QED BY <1>2, <1>4, <1>6, <1>7 DEF IInv

LEMMA IdleSound == ASSUME exec' = Idle PROVE ExecSound' /\ exec' \in Exec
BY ConstantTypes DEF ExecSound, Idle

\* The rows after a result of one lane was recorded.
LEMMA RowsBacked ==
    ASSUME IInv, NEW i \in Item, NEW s \in {"merged", "merge_failed"}, NEW c \in Nat,
           NEW v \in 0..MaxRev, record_merge_queue_result(i, s, c, v),
           s = "merged" => Contained(i, v, TargetHead)
    PROVE  \A j \in Item : row'[j].status = "merged" => Contained(j, row'[j].rev, TargetHead)
BY RecordResult DEF IInv, TargetSound

-----------------------------------------------------------------------------
(* One lemma per action *)

LEMMA ExecuteIntegratedStep ==
    ASSUME IInv, NEW i \in Item, NEW flow \in Flow, ExecuteIntegrated(i, flow)
    PROVE  IInv'
<1> DEFINE b == BatchOf[i]
<1>1. /\ exec = Idle /\ exec' = exec /\ UNCHANGED <<target, pending>>
      /\ Contained(i, tip[i], TargetHead)
      /\ record_merge_queue_result(i, "merged", TargetHead, tip[i])
      /\ IF flow = "batch"
         THEN /\ MayEnterEpoch(i)
              /\ advance_integration_epoch_after_merge(EpochAt(i, TargetHead), i, TargetHead, tip[i])
         ELSE UNCHANGED epoch
    BY DEF ExecuteIntegrated, LockFree, AlreadyIntegrated
<1>2. TypeOK /\ TargetHead \in Nat /\ tip[i] \in 0..MaxRev /\ b \in Batch
    BY HeadIsNat, QueueAssumption DEF IInv, TypeOK, ContextTypeOK
<1>3. ContextTypeOK' /\ row' \in [Item -> Row] /\ tip' = tip
    BY <1>1, <1>2, RecordResult
<1>4. \A j \in Item : row'[j].status = "merged" => Contained(j, row'[j].rev, TargetHead)
    BY <1>1, <1>2, RowsBacked
<1>5. exec' = Idle /\ pending' \subseteq Request
    BY <1>1, <1>2 DEF TypeOK
<1>6. CASE flow = "batch"
    <2> DEFINE e == EpochAt(i, TargetHead)
    <2>1. EpochOK(b, e) /\ e.status \in {"open", "merge_in_doubt"} /\ e.active = i
        BY <1>1, <1>6, EnteredEpoch
    <2>2. \A q \in 1..TargetHead :
            target[q].by = "batch" /\ target[q].item = i => target[q].rev <= tip[i]
        BY DEF IInv, TargetSound
    <2>3. advance_integration_epoch_after_merge(e, i, TargetHead, tip[i])
        BY <1>1, <1>6
    <2> HIDE DEF e
    <2>4. PICK f : EpochOK(b, f) /\ epoch' = [epoch EXCEPT ![b] = f]
        BY <1>1, <1>2, <2>1, <2>2, <2>3, AdvanceSound
    <2>5. \A c \in Batch \ {b} : ~Active(c)
        BY <1>1, <1>6 DEF MayEnterEpoch
    <2> QED BY <1>1, <1>2, <1>3, <1>4, <1>5, <2>4, <2>5, EpochStep, IdleSound
<1>7. CASE flow = "standalone"
    <2>1. TypeOK' /\ UNCHANGED <<epoch, target>>
        BY <1>1, <1>2, <1>3, <1>5, <1>7, IdleSound DEF TypeOK
    <2>2. \A j \in Item : tip[j] <= tip'[j]
        BY <1>2, <1>3 DEF TypeOK, ContextTypeOK
    <2> QED BY <1>4, <1>5, <2>1, <2>2, Frame
<1> QED BY <1>6, <1>7 DEF Flow

LEMMA ArmStep ==
    ASSUME IInv, NEW i \in Item, NEW flow \in Flow, Arm(i, flow)
    PROVE  IInv'
<1> DEFINE b == BatchOf[i]
           x == [Idle EXCEPT !.phase = "armed", !.item = i, !.flow = flow, !.before = TargetHead]
<1>1. /\ UNCHANGED <<ctx, issued, tip, row, target, pending>>
      /\ NotFrozen(i) /\ row[i].status = "queued_for_merge"
      /\ IF flow = "batch"
         THEN /\ MayEnterEpoch(i)
              /\ arm_integration_epoch_merge_in_doubt(EpochAt(i, TargetHead), i, TargetHead)
         ELSE UNCHANGED epoch
      /\ exec' = x
    BY DEF Arm, contextVars, GatePassed
<1>2. TypeOK /\ TargetHead \in Nat /\ b \in Batch
    BY HeadIsNat, QueueAssumption DEF IInv, TypeOK
<1>3. x \in Exec /\ x.phase = "armed" /\ x.item = i /\ x.flow = flow
    BY <1>2, ConstantTypes DEF Exec, Idle
<1>4. /\ ContextTypeOK' /\ row' \in [Item -> Row] /\ exec' \in Exec /\ pending' \subseteq Request
      /\ \A j \in Item : row'[j].status = "merged" => Contained(j, row'[j].rev, TargetHead)
    <2>1. ContextTypeOK'
        BY <1>1, <1>2 DEF TypeOK, ContextTypeOK
    <2> QED BY <1>1, <1>2, <1>3, <2>1 DEF TypeOK, IInv, TargetSound
<1> HIDE DEF x
<1>5. CASE flow = "batch"
    <2> DEFINE e == EpochAt(i, TargetHead)
               f == ArmedAt(e, TargetHead)
    <2>1. EpochOK(b, e) /\ e.status = "open" /\ e.active = i
        BY <1>1, <1>5, EnteredEpoch DEF arm_integration_epoch_merge_in_doubt
    <2>2. epoch' = [epoch EXCEPT ![b] = f]
        BY <1>1, <1>5 DEF arm_integration_epoch_merge_in_doubt, ArmedAt
    <2> HIDE DEF e, f
    <2>3. /\ f \in Epoch
          /\ f.status = "merge_in_doubt" /\ f.prefix = e.prefix /\ f.remaining = e.remaining
          /\ f.active = e.active /\ f.head = e.head /\ f.incomplete = e.incomplete
          /\ f.credit = e.credit
        <3>1. e \in Epoch
            BY <2>1 DEF EpochOK
        <3> QED BY ONLY <1>2, <3>1, ArmedEpoch DEF f
    <2>4. EpochOK(b, f)
        BY <2>1, <2>3 DEF EpochOK
    <2>5. \A c \in Batch \ {b} : ~Active(c)
        BY <1>1, <1>5 DEF MayEnterEpoch
    <2>6. epoch'[b] = f /\ \A c \in Batch \ {b} : epoch'[c] = epoch[c]
        BY <1>2, <2>2 DEF TypeOK
    <2>7. ExecSound'
        BY <1>1, <1>3, <1>5, <2>1, <2>3, <2>5, <2>6 DEF ExecSound, Active, InDoubt, Flow
    <2> QED BY <1>1, <1>2, <1>4, <2>2, <2>4, <2>5, <2>7, EpochStep
<1>6. CASE flow = "standalone"
    <2>1. UNCHANGED epoch
        BY <1>1, <1>6
    <2>2. ExecSound'
        BY <1>1, <1>3, <1>6, <2>1 DEF ExecSound, Active, NotFrozen, Flow
    <2>3. EpochOK(b, epoch[b]) /\ epoch' = [epoch EXCEPT ![b] = epoch[b]]
        BY <1>2, <2>1 DEF IInv, TypeOK
    <2>4. epoch[b].status \in Live => \A c \in Batch \ {b} : ~Active(c)
        BY <1>2 DEF IInv, OneActiveEpoch, Active
    <2> QED BY <1>1, <1>2, <1>4, <2>2, <2>3, <2>4, EpochStep
<1> QED BY <1>5, <1>6 DEF Flow

\* Contained, of a target t.
ContainedIn(t, i, r, p) == r = 0 \/ \E q \in 1..p : t[q].item = i /\ t[q].rev >= r

(***************************************************************************)
(* Something is added to the target: a revision that was made, and for a   *)
(* batch only while its epoch is in doubt about that lane.                 *)
(***************************************************************************)
LEMMA AppendFacts ==
    ASSUME TypeOK, NEW a \in Addition, target' = Append(target, a)
    PROVE  /\ target' \in Seq(Addition) /\ TargetHead' = TargetHead + 1
           /\ \A q \in 1..TargetHead : target'[q] = target[q]
           /\ target'[TargetHead + 1] = a
           /\ \A i, r : \A p \in Nat :
                p <= TargetHead /\ Contained(i, r, p) => ContainedIn(target', i, r, p)
<1>1. target \in Seq(Addition)
    BY DEF TypeOK
<1>2. /\ target' \in Seq(Addition) /\ Len(target') = Len(target) + 1
      /\ \A q \in 1..Len(target) : target'[q] = target[q]
      /\ target'[Len(target) + 1] = a
    BY <1>1
<1>3. Len(target) \in Nat
    BY <1>1
<1> QED BY <1>2, <1>3 DEF TargetHead, Contained, ContainedIn

LEMMA AppendStep ==
    ASSUME IInv, NEW a \in Addition, target' = Append(target, a),
           UNCHANGED <<ctx, issued, tip, row, epoch, pending>>, exec' \in Exec, ExecSound',
           a.item \in Item => a.rev <= tip[a.item],
           a.by = "batch" => a.item \in Item /\ InDoubt(a.item)
    PROVE  IInv'
<1>1. TypeOK /\ TargetHead \in Nat
    BY HeadIsNat DEF IInv
<1>2. /\ target' \in Seq(Addition) /\ TargetHead' = TargetHead + 1
      /\ \A q \in 1..TargetHead : target'[q] = target[q]
      /\ target'[TargetHead + 1] = a
      /\ \A i, r : \A p \in Nat :
            p <= TargetHead /\ Contained(i, r, p) => ContainedIn(target', i, r, p)
    BY <1>1, AppendFacts
<1>3. \A q \in 1..TargetHead' : q \in 1..TargetHead \/ q = TargetHead + 1
    BY <1>1, <1>2
<1>4. TypeOK'
    BY <1>1, <1>2 DEF TypeOK, ContextTypeOK
<1>5. OneActiveEpoch'
    BY DEF IInv, OneActiveEpoch
<1>6. TargetSound'
    <2>1. \A q \in 1..TargetHead' :
            /\ target'[q].item \in Item => target'[q].rev <= tip[target'[q].item]
            /\ target'[q].by = "batch" => target'[q].item \in Item
        BY <1>2, <1>3 DEF IInv, TargetSound
    <2>2. ASSUME NEW i \in Item, row[i].status = "merged"
          PROVE  ContainedIn(target', i, row[i].rev, TargetHead')
        <3>1. ContainedIn(target', i, row[i].rev, TargetHead)
            BY <1>1, <1>2, <2>2 DEF IInv, TargetSound
        <3>2. 1..TargetHead \subseteq 1..TargetHead'
            BY <1>1, <1>2
        <3> QED BY ONLY <3>1, <3>2 DEF ContainedIn
    <2> QED BY <2>1, <2>2 DEF TargetSound, Contained, ContainedIn
<1>7. ASSUME NEW b \in Batch PROVE EpochOK(b, epoch[b])'
    <2> DEFINE e == epoch[b]
    <2>1. EpochOK(b, e) /\ e' = e /\ e.head \in Nat
        BY <1>1, EpochFields DEF IInv, TypeOK
    <2>2. e.head <= TargetHead'
        BY <1>1, <1>2, <2>1 DEF EpochOK
    <2>3. \A i \in e.prefix : ContainedIn(target', i, e.credit[i], e.head)
        BY <1>2, <2>1 DEF EpochOK
    <2>4. ASSUME NEW q \in 1..TargetHead', target'[q].by = "batch", target'[q].item \in Queue(b)
          PROVE  \/ target'[q].item \in e.prefix /\ e.credit[target'[q].item] >= target'[q].rev
                 \/ e.status = "merge_in_doubt" /\ e.active = target'[q].item
        <3>1. CASE q \in 1..TargetHead
            BY <1>2, <2>1, <2>4, <3>1 DEF EpochOK
        <3>2. CASE q = TargetHead + 1
            BY <1>2, <2>4, <3>2 DEF InDoubt, Queue
        <3> QED BY <1>3, <3>1, <3>2
    <2> HIDE DEF e
    <2>5. EpochOK(b, e)'
        BY <2>1, <2>2, <2>3, <2>4 DEF EpochOK, Queue, First, Contained, ContainedIn
    <2> QED BY <2>1, <2>5 DEF e
<1> QED BY <1>4, <1>5, <1>6, <1>7 DEF IInv

LEMMA GitMergeStep == ASSUME IInv, GitMerge PROVE IInv'
<1> DEFINE i == exec.item
           a == [item |-> i, rev |-> tip[i], by |-> exec.flow]
           x == [exec EXCEPT !.phase = "landed", !.pos = TargetHead + 1, !.rev = tip[i]]
<1>1. /\ exec.phase = "armed" /\ target' = Append(target, a) /\ exec' = x
      /\ UNCHANGED <<ctx, issued, tip, row, epoch, pending>>
    BY DEF GitMerge, contextVars
<1>2. TypeOK /\ TargetHead \in Nat /\ exec \in Exec
    BY HeadIsNat DEF IInv, TypeOK
<1>3. /\ i \in Item /\ exec.flow \in Flow /\ tip[i] \in 0..MaxRev
      /\ \A b \in Batch : Active(b) => epoch[b].active = i
      /\ exec.flow = "batch" => InDoubt(i)
    BY <1>1, <1>2 DEF IInv, ExecSound, TypeOK, ContextTypeOK
<1>4. a \in Addition
    BY <1>3 DEF Addition, Flow
<1>5. /\ x \in Exec /\ x.phase = "landed" /\ x.item = i /\ x.flow = exec.flow
      /\ x.pos = TargetHead + 1 /\ x.rev = tip[i]
    <2>1. TargetHead + 1 \in Nat
        BY <1>2
    <2> QED BY <1>2, <1>3, <2>1 DEF Exec
<1>6. /\ TargetHead' = TargetHead + 1
      /\ \A q \in 1..TargetHead : target'[q] = target[q]
      /\ target'[TargetHead + 1] = a
    BY <1>1, <1>2, <1>4, AppendFacts
<1>7. a.item = i /\ a.rev = tip[i] /\ a.by = exec.flow /\ a.rev <= tip[i]
    BY <1>3
<1> HIDE DEF a, x
<1>8. ExecSound'
    <2>1. \A q \in 1..TargetHead' : target'[q].item = i => target'[q].rev <= tip[i]
        <3>1. \A q \in 1..TargetHead : target[q].item = i => target[q].rev <= tip[i]
            BY <1>3 DEF IInv, TargetSound
        <3>2. \A q \in 1..TargetHead' : q \in 1..TargetHead \/ q = TargetHead + 1
            BY <1>2, <1>6
        <3> QED BY <1>6, <1>7, <3>1, <3>2
    <2>2. exec'.pos \in 1..TargetHead'
        BY <1>1, <1>2, <1>5, <1>6
    <2> HIDE DEF i
    <2> QED BY <1>1, <1>3, <1>5, <1>6, <1>7, <2>1, <2>2 DEF ExecSound, Active, InDoubt
<1> QED BY <1>1, <1>3, <1>4, <1>5, <1>7, <1>8, AppendStep

LEMMA PushStep ==
    ASSUME IInv, NEW i \in Item \cup {"none"}, NEW r \in 0..MaxRev, Push(i, r),
           i \in Item => r <= tip[i]
    PROVE  IInv'
<1> DEFINE a == [item |-> i, rev |-> r, by |-> "other"]
<1>1. target' = Append(target, a) /\ UNCHANGED <<ctx, issued, tip, row, epoch, exec, pending>>
    BY DEF Push, contextVars
<1>2. a \in Addition /\ a.item = i /\ a.rev = r /\ a.by = "other"
    BY DEF Addition
<1>3. TypeOK /\ TargetHead \in Nat
    BY HeadIsNat DEF IInv
<1> HIDE DEF a
<1>4. /\ TargetHead' = TargetHead + 1
      /\ \A q \in 1..TargetHead : target'[q] = target[q]
      /\ target'[TargetHead + 1] = a
    BY <1>1, <1>2, <1>3, AppendFacts
<1>5. ExecSound'
    <2>1. \A q \in 1..TargetHead' : target'[q].by = "batch" => q \in 1..TargetHead /\ target'[q] = target[q]
        BY <1>2, <1>3, <1>4
    <2>2. 1..TargetHead \subseteq 1..TargetHead'
        BY <1>3, <1>4
    <2> QED BY <1>1, <1>4, <2>1, <2>2 DEF IInv, ExecSound, Active, InDoubt
<1>6. exec' \in Exec
    BY <1>1, <1>3 DEF TypeOK
<1> QED BY <1>1, <1>2, <1>5, <1>6, AppendStep

LEMMA GitFailsStep == ASSUME IInv, GitFails PROVE IInv'
<1> DEFINE i == exec.item
<1>1. exec.phase = "armed" /\ exec' = Idle /\ UNCHANGED <<epoch, target, pending>>
    BY DEF GitFails
<1>2. TypeOK /\ i \in Item /\ row[i] \in Row
    BY <1>1 DEF IInv, ExecSound, TypeOK
<1>3. \/ record_merge_queue_result(i, "merge_failed", row[i].commit, row[i].rev)
      \/ UNCHANGED <<ctx, issued, tip, row>>
    BY DEF GitFails, contextVars
<1>4. /\ ContextTypeOK' /\ row' \in [Item -> Row] /\ tip' = tip
      /\ \A j \in Item : row'[j].status = "merged" => Contained(j, row'[j].rev, TargetHead)
    <2>1. CASE record_merge_queue_result(i, "merge_failed", row[i].commit, row[i].rev)
        BY <1>2, <2>1, RecordResult, RowsBacked, RowFields
    <2>2. CASE UNCHANGED <<ctx, issued, tip, row>>
        <3>1. ContextTypeOK'
            BY <1>2, <2>2 DEF TypeOK, ContextTypeOK
        <3> QED BY <1>2, <2>2, <3>1 DEF IInv, TargetSound, TypeOK
    <2> QED BY <1>3, <2>1, <2>2
<1>5. TypeOK'
    BY <1>1, <1>2, <1>4, IdleSound DEF TypeOK
<1>6. \A j \in Item : tip[j] <= tip'[j]
    BY <1>2, <1>4 DEF TypeOK, ContextTypeOK
<1> QED BY <1>1, <1>4, <1>5, <1>6, Frame

LEMMA RecordLandingStep == ASSUME IInv, RecordLanding PROVE IInv'
<1> DEFINE i == exec.item
           b == BatchOf[i]
<1>1. /\ exec.phase = "landed" /\ TargetHead = exec.pos /\ exec' = Idle
      /\ UNCHANGED <<target, pending>>
      /\ record_merge_queue_result(i, "merged", TargetHead, exec.rev)
      /\ IF exec.flow = "batch"
         THEN advance_integration_epoch_after_merge(epoch[b], i, TargetHead, exec.rev)
         ELSE UNCHANGED epoch
    BY DEF RecordLanding
<1>2. /\ TypeOK /\ TargetHead \in Nat /\ i \in Item /\ b \in Batch /\ exec.rev \in 0..MaxRev
      /\ exec.flow \in Flow
    BY <1>1, HeadIsNat, QueueAssumption DEF IInv, ExecSound, TypeOK, Exec
<1>3. /\ target[TargetHead].item = i /\ target[TargetHead].rev = exec.rev
      /\ TargetHead \in 1..TargetHead
      /\ \A q \in 1..TargetHead :
            target[q].by = "batch" /\ target[q].item = i => target[q].rev <= exec.rev
    BY <1>1 DEF IInv, ExecSound
<1>4. Contained(i, exec.rev, TargetHead)
    BY <1>2, <1>3 DEF Contained
<1>5. ContextTypeOK' /\ row' \in [Item -> Row] /\ tip' = tip
    BY <1>1, <1>2, RecordResult
<1>6. \A j \in Item : row'[j].status = "merged" => Contained(j, row'[j].rev, TargetHead)
    BY <1>1, <1>2, <1>4, RowsBacked
<1>7. pending' \subseteq Request
    BY <1>1, <1>2 DEF TypeOK
<1>8. CASE exec.flow = "batch"
    <2>1. EpochOK(b, epoch[b]) /\ epoch[b].status = "merge_in_doubt" /\ epoch[b].active = i
        BY <1>1, <1>2, <1>8 DEF IInv, ExecSound, InDoubt
    <2>2. advance_integration_epoch_after_merge(epoch[b], i, TargetHead, exec.rev)
        BY <1>1, <1>8
    <2> HIDE DEF i
    <2>3. PICK f : EpochOK(b, f) /\ epoch' = [epoch EXCEPT ![b] = f]
        BY <1>2, <1>3, <1>4, <2>1, <2>2, AdvanceSound
    <2>4. \A c \in Batch \ {b} : ~Active(c)
        BY <1>2, <2>1 DEF IInv, OneActiveEpoch, Active, Live
    <2> QED BY <1>1, <1>2, <1>5, <1>6, <1>7, <2>3, <2>4, EpochStep, IdleSound
<1>9. CASE exec.flow # "batch"
    <2>1. TypeOK' /\ UNCHANGED <<epoch, target>>
        BY <1>1, <1>2, <1>5, <1>7, <1>9, IdleSound DEF TypeOK
    <2>2. \A j \in Item : tip[j] <= tip'[j]
        BY <1>2, <1>5 DEF TypeOK, ContextTypeOK
    <2> QED BY <1>1, <1>6, <2>1, <2>2, Frame
<1> QED BY <1>8, <1>9

\* The operator's reports write the row and the context of one lane.
LEMMA ReportStep ==
    ASSUME IInv, NEW i \in Item, ReportMerged(i) \/ ReportFailed(i)
    PROVE  IInv'
<1>1. exec = Idle /\ UNCHANGED <<epoch, target, exec, pending>>
    BY DEF ReportMerged, ReportFailed, LockFree
<1>2. TypeOK /\ row[i] \in Row /\ TargetHead \in Nat
    BY HeadIsNat DEF IInv, TypeOK
<1>3. PICK s \in {"merged", "merge_failed"}, c \in Nat, v \in 0..MaxRev :
        /\ record_merge_queue_result(i, s, c, v)
        /\ s = "merged" => Contained(i, v, TargetHead)
    <2>1. CASE ReportMerged(i)
        <3>1. PICK q \in 1..TargetHead :
                target[q].item = i /\ record_merge_queue_result(i, "merged", q, target[q].rev)
            BY <2>1 DEF ReportMerged
        <3>2. q \in Nat /\ target[q].rev \in 0..MaxRev
            BY <1>2, HeadIsNat DEF Addition
        <3>3. Contained(i, target[q].rev, TargetHead)
            BY <3>1, <3>2 DEF Contained
        <3> QED BY <3>1, <3>2, <3>3
    <2>2. CASE ReportFailed(i)
        BY <1>2, <2>2, RowFields DEF ReportFailed
    <2> QED BY <2>1, <2>2
<1>4. /\ ContextTypeOK' /\ row' \in [Item -> Row] /\ tip' = tip
      /\ \A j \in Item : row'[j].status = "merged" => Contained(j, row'[j].rev, TargetHead)
    BY <1>2, <1>3, RecordResult, RowsBacked
<1>5. TypeOK'
    BY <1>1, <1>2, <1>4 DEF TypeOK
<1>6. \A j \in Item : tip[j] <= tip'[j]
    BY <1>2, <1>4 DEF TypeOK, ContextTypeOK
<1> QED BY <1>1, <1>4, <1>5, <1>6, Frame

LEMMA MaterializeStep ==
    ASSUME IInv, NEW i \in Item, Materialize(i)
    PROVE  IInv'
<1> DEFINE r == [PlannedRow EXCEPT !.status = "queued_for_merge", !.head = CandidateHead(i)]
<1>1. /\ exec = Idle /\ UNCHANGED <<issued, tip, epoch, target, exec>>
      /\ pending' = pending \ {<<"materialize", i>>}
      /\ row' = [row EXCEPT ![i] = r]
    BY DEF Materialize, LockFree, upsert_merge_queue_item
<1>2. PICK s \in ContextStatus : ctx' = [ctx EXCEPT ![i] = [ctx[i] EXCEPT !.status = s]]
    BY DEF Materialize, upsert_branch_context
<1>3. TypeOK /\ row[i] \in Row /\ ctx[i] \in Context /\ tip[i] \in 0..MaxRev
    BY DEF IInv, TypeOK, ContextTypeOK
<1>4. [ctx[i] EXCEPT !.status = s] \in Context
    BY <1>3, ContextUpdate, ContextFields
<1>5. CandidateHead(i) \in 0..MaxRev
    BY <1>3, RowFields DEF CandidateHead
<1>6. "queued_for_merge" \in RowStatus
    BY DEF RowStatus
<1>7. r \in Row /\ r.status = "queued_for_merge"
    <2>1. r \in Row
        BY <1>5, <1>6, ConstantTypes, RowQueued
    <2>2. r.status = "queued_for_merge"
        BY <1>5, <1>6, ConstantTypes DEF Row
    <2> QED BY <2>1, <2>2
<1> HIDE DEF r
<1>8. ContextTypeOK' /\ row' \in [Item -> Row]
    BY <1>1, <1>2, <1>3, <1>4, <1>7 DEF TypeOK, ContextTypeOK
<1>9. TypeOK'
    BY <1>1, <1>3, <1>8 DEF TypeOK
<1>10. \A j \in Item : row'[j].status = "merged" => Contained(j, row'[j].rev, TargetHead)
    BY <1>1, <1>3, <1>7 DEF IInv, TargetSound, TypeOK
<1>11. \A j \in Item : tip[j] <= tip'[j]
    BY <1>1, <1>3 DEF TypeOK, ContextTypeOK
<1> QED BY <1>1, <1>9, <1>10, <1>11, Frame

\* Steps that touch neither rows nor epochs nor git.
LEMMA QuietStep ==
    ASSUME IInv,
           \/ \E i \in Worker : ContextStep(i)
           \/ RecoverExpired
           \/ \E i \in Item : AllocateCheck(i) \/ AllocateWrite(i) \/ MaterializeCheck(i)
           \/ \E q \in pending : RequestEnds(q)
           \/ Misaligned \/ Crash
    PROVE  IInv'
<1>1. TypeOK
    BY DEF IInv
<1>2. /\ UNCHANGED <<row, epoch, target>> /\ exec' \in {exec, Idle}
      /\ pending' \subseteq pending \/ \E i \in Item : pending' \in
            {pending \cup {<<"allocate", i>>}, pending \cup {<<"materialize", i>>}}
    BY DEF ContextStep, RecoverExpired, AllocateCheck, AllocateWrite, MaterializeCheck,
           RequestEnds, Misaligned, Crash, queueVars
<1>3. ContextTypeOK' /\ \A i \in Item : tip[i] <= tip'[i]
    <2>1. CASE \/ \E i \in Worker : ContextStep(i)
               \/ RecoverExpired
               \/ \E i \in Item : AllocateWrite(i)
        BY <1>1, <2>1, ContextSteps DEF TypeOK
    <2>2. CASE UNCHANGED <<ctx, issued, tip>>
        BY <1>1, <2>2 DEF TypeOK, ContextTypeOK
    <2> QED BY <2>1, <2>2 DEF AllocateCheck, MaterializeCheck, RequestEnds, Misaligned, Crash,
                              contextVars
<1>4. pending' \subseteq Request
    BY <1>1, <1>2 DEF TypeOK, Request
<1>5. TypeOK'
    BY <1>1, <1>2, <1>3, <1>4, ConstantTypes DEF TypeOK
<1>6. \A i \in Item : row'[i].status = "merged" => Contained(i, row'[i].rev, TargetHead)
    BY <1>2 DEF IInv, TargetSound
<1> QED BY <1>2, <1>3, <1>5, <1>6, Frame

LEMMA ReleaseStep ==
    ASSUME IInv, NEW b \in Batch, ReleaseUnlandable(b)
    PROVE  IInv'
<1> DEFINE e == epoch[b]
           i == e.active
           r == [row[i] EXCEPT !.status = "released_unlandable"]
           d == [ctx[i] EXCEPT !.status = "released_unlandable"]
           f == ReleasedTo(e, i)
<1>1. /\ exec = Idle /\ UNCHANGED <<issued, tip, target, exec, pending>>
      /\ e.status = "open" /\ e.remaining = {i}
      /\ row' = [row EXCEPT ![i] = r] /\ ctx' = [ctx EXCEPT ![i] = d]
    BY DEF ReleaseUnlandable, LockFree, upsert_merge_queue_item, upsert_branch_context
<1>2. TypeOK /\ e \in Epoch /\ EpochOK(b, e)
    BY DEF IInv, TypeOK
<1>3. i \in Item
    BY <1>1, <1>2, EpochFields
<1>4. epoch' = [epoch EXCEPT ![b] = f]
    BY DEF ReleaseUnlandable, ReleasedTo
<1>5. row[i] \in Row /\ ctx[i] \in Context
    BY <1>2, <1>3 DEF TypeOK, ContextTypeOK
<1>6. r \in Row /\ r.status = "released_unlandable"
    <2>1. "released_unlandable" \in RowStatus
        BY DEF RowStatus, Terminal
    <2>2. r \in Row
        BY <1>5, <2>1, RowUpdate
    <2>3. r.status = "released_unlandable"
        BY <1>5 DEF Row
    <2> QED BY <2>2, <2>3
<1>7. d \in Context
    BY <1>5, ContextUpdate, ContextFields, StatusNames
<1>8. /\ f \in Epoch /\ f.status = "reconcile_pending" /\ f.prefix = e.prefix
      /\ f.remaining = {} /\ f.active = "none" /\ f.head = e.head
      /\ f.incomplete = e.incomplete \cup {i} /\ f.credit = e.credit
    <2> HIDE DEF e, i
    <2> QED BY ONLY <1>2, <1>3, ReleasedEpoch
<1> HIDE DEF e, r, d, f, i
<1>9. EpochOK(b, f)
    <2>1. /\ e.prefix \cup {i} = Queue(b) /\ e.prefix \cap {i} = {} /\ f.incomplete = {i}
          /\ \A j \in e.prefix : Pos[j] < Pos[i]
        BY <1>1, <1>2, <1>8 DEF EpochOK
    <2>2. First(f.active, f.remaining)
        BY <1>8 DEF First
    <2>3. /\ f.head <= TargetHead /\ \A j \in f.prefix : Contained(j, f.credit[j], f.head)
          /\ \A q \in 1..TargetHead : target[q].by = "batch" /\ target[q].item \in Queue(b) =>
                target[q].item \in f.prefix /\ f.credit[target[q].item] >= target[q].rev
        BY <1>1, <1>2, <1>8 DEF EpochOK
    <2> QED BY <1>8, <2>1, <2>2, <2>3 DEF EpochOK
<1>10. ContextTypeOK' /\ row' \in [Item -> Row] /\ pending' \subseteq Request
    BY <1>1, <1>2, <1>3, <1>6, <1>7 DEF TypeOK, ContextTypeOK
<1>11. \A j \in Item : row'[j].status = "merged" => Contained(j, row'[j].rev, TargetHead)
    BY <1>1, <1>2, <1>3, <1>6 DEF IInv, TargetSound, TypeOK
<1>12. \A c \in Batch \ {b} : ~Active(c)
    BY <1>1 DEF IInv, OneActiveEpoch, Active, Live, e
<1>13. exec' = Idle
    BY <1>1
<1> QED BY <1>1, <1>4, <1>9, <1>10, <1>11, <1>12, <1>13, EpochStep, IdleSound

LEMMA SealStep ==
    ASSUME IInv, NEW b \in Batch, SealWorldref(b)
    PROVE  IInv'
<1> DEFINE e == epoch[b]
           i == e.active
           r == [row[i] EXCEPT !.status = "terminal_no_pass"]
           f == AbortedTo(e)
<1>1. /\ exec = Idle /\ UNCHANGED <<ctx, issued, tip, target, exec, pending>>
      /\ e.status = "open" /\ e.remaining = {i}
      /\ row' = [row EXCEPT ![i] = r]
    BY DEF SealWorldref, LockFree, upsert_merge_queue_item, contextVars
<1>2. TypeOK /\ e \in Epoch /\ EpochOK(b, e)
    BY DEF IInv, TypeOK
<1>3. i \in Item
    BY <1>1, <1>2, EpochFields
<1>4. epoch' = [epoch EXCEPT ![b] = f]
    BY DEF SealWorldref, AbortedTo
<1>5. row[i] \in Row
    BY <1>2, <1>3 DEF TypeOK
<1>6. r \in Row /\ r.status = "terminal_no_pass"
    <2>1. "terminal_no_pass" \in RowStatus
        BY DEF RowStatus, Terminal
    <2>2. r \in Row
        BY <1>5, <2>1, RowUpdate
    <2>3. r.status = "terminal_no_pass"
        BY <1>5 DEF Row
    <2> QED BY <2>2, <2>3
<1>7. /\ f \in Epoch /\ f.status = "aborted_with_exception" /\ f.prefix = e.prefix
      /\ f.remaining = e.remaining /\ f.active = e.active /\ f.head = e.head
      /\ f.incomplete = e.incomplete /\ f.credit = e.credit
    <2> HIDE DEF e, i
    <2> QED BY ONLY <1>2, AbortedEpoch
<1> HIDE DEF e, r, f, i
<1>8. EpochOK(b, f)
    BY <1>1, <1>2, <1>7 DEF EpochOK
<1>9. ContextTypeOK' /\ row' \in [Item -> Row] /\ pending' \subseteq Request
    BY <1>1, <1>2, <1>3, <1>6 DEF TypeOK, ContextTypeOK
<1>10. \A j \in Item : row'[j].status = "merged" => Contained(j, row'[j].rev, TargetHead)
    BY <1>1, <1>2, <1>3, <1>6 DEF IInv, TargetSound, TypeOK
<1>11. exec' = Idle /\ f.status \notin Live
    BY <1>1, <1>7 DEF Live
<1> QED BY <1>1, <1>4, <1>8, <1>9, <1>10, <1>11, EpochStep, IdleSound

\* A direct repair moves the epoch's head, a reconcile closes the epoch.
LEMMA ReanchorOrReconcileStep ==
    ASSUME IInv, NEW b \in Batch,
           \/ reanchor_open_integration_epoch_after_direct_repair(b)
           \/ \E p \in 0..TargetHead : Reconciled(b, p)
    PROVE  IInv'
<1> DEFINE e == epoch[b]
<1>1. exec = Idle /\ UNCHANGED <<ctx, issued, tip, row, target, exec, pending>>
    BY DEF reanchor_open_integration_epoch_after_direct_repair, Reconciled, LockFree, contextVars
<1>2. TypeOK /\ e \in Epoch /\ EpochOK(b, e) /\ TargetHead \in Nat
    BY HeadIsNat DEF IInv, TypeOK
<1>3. e.head \in Nat /\ e.head <= TargetHead /\ \A j \in e.prefix : Contained(j, e.credit[j], e.head)
    BY <1>2, EpochFields DEF EpochOK
<1>4. PICK f : EpochOK(b, f) /\ epoch' = [epoch EXCEPT ![b] = f] /\ e.status \in Live
    <2>1. CASE reanchor_open_integration_epoch_after_direct_repair(b)
        <3> DEFINE f == AnchoredAt(e, TargetHead)
        <3>1. epoch' = [epoch EXCEPT ![b] = f] /\ e.status = "open" /\ e.active # "none"
            BY <2>1 DEF reanchor_open_integration_epoch_after_direct_repair, AnchoredAt
        <3>2. e.active \in Item
            BY <1>2, <3>1, EpochFields
        <3>3. /\ f \in Epoch /\ f.status = e.status /\ f.prefix = e.prefix
              /\ f.remaining = e.remaining /\ f.active = e.active /\ f.head = TargetHead
              /\ f.incomplete = e.incomplete /\ f.credit = e.credit
            <4> HIDE DEF e
            <4> QED BY ONLY <1>2, AnchoredEpoch
        <3> HIDE DEF e, f
        <3>4. \A j \in f.prefix : Contained(j, f.credit[j], f.head)
            BY <1>2, <1>3, <3>3, ContainedLater
        <3>5. EpochOK(b, f)
            BY <1>2, <3>1, <3>3, <3>4 DEF EpochOK
        <3> QED BY <3>1, <3>5 DEF Live
    <2>2. CASE \E p \in 0..TargetHead : Reconciled(b, p)
        <3> PICK p \in 0..TargetHead : Reconciled(b, p)
            BY <2>2
        <3> DEFINE f == ClosedAt(e, p)
        <3>1. /\ epoch' = [epoch EXCEPT ![b] = f] /\ e.status = "reconcile_pending"
              /\ p = e.head \/ p > e.head
            BY DEF Reconciled, ClosedAt
        <3>2. p \in Nat /\ e.head <= p
            BY <1>2, <1>3, <3>1
        <3>3. /\ f \in Epoch /\ f.status = "closed" /\ f.prefix = e.prefix
              /\ f.remaining = e.remaining /\ f.active = e.active /\ f.head = e.head
              /\ f.incomplete = e.incomplete /\ f.credit = e.credit /\ f.reconciled = p
            <4> HIDE DEF e
            <4> QED BY ONLY <1>2, <3>2, ClosedEpoch
        <3> HIDE DEF e, f
        <3>4. EpochOK(b, f)
            BY <1>2, <3>1, <3>2, <3>3 DEF EpochOK
        <3> QED BY <3>1, <3>4 DEF Live
    <2> QED BY <2>1, <2>2
<1>5. ContextTypeOK' /\ row' \in [Item -> Row] /\ pending' \subseteq Request
    BY <1>1, <1>2 DEF TypeOK, ContextTypeOK
<1>6. \A j \in Item : row'[j].status = "merged" => Contained(j, row'[j].rev, TargetHead)
    BY <1>1 DEF IInv, TargetSound
<1>7. \A c \in Batch \ {b} : ~Active(c)
    BY <1>4 DEF IInv, OneActiveEpoch, Active
<1>8. exec' = Idle
    BY <1>1
<1> HIDE DEF e
<1> QED BY <1>1, <1>4, <1>5, <1>6, <1>7, <1>8, EpochStep, IdleSound

-----------------------------------------------------------------------------
(* The inductive invariant *)

LEMMA InitInvariant == Init => IInv
<1> SUFFICES ASSUME Init PROVE IInv
    OBVIOUS
<1> DEFINE base == [item |-> "none", rev |-> 0, by |-> "base"]
<1>1. TypeOK
    BY InitTypeOK
<1>2. /\ epoch = [b \in Batch |-> NoEpoch] /\ row = [i \in Item |-> PlannedRow] /\ exec = Idle
      /\ target = <<base>>
    BY DEF Init
<1>3. NoEpoch.status = "none" /\ NoEpoch.prefix = {} /\ NoEpoch.head = 0
    BY DEF NoEpoch
<1>4. PlannedRow.status = "planned" /\ Idle.phase = "idle"
    BY DEF PlannedRow, Idle
<1>5. TargetHead = 1 /\ target[1] = base /\ base.item = "none" /\ base.by = "base"
    BY <1>2 DEF TargetHead
<1>6. OneActiveEpoch
    BY <1>2, <1>3 DEF OneActiveEpoch, Live
<1>7. ExecSound
    BY <1>2, <1>4 DEF ExecSound
<1>8. TargetSound
    <2>1. \A q \in 1..TargetHead : target[q] = base
        BY <1>5
    <2> HIDE DEF base
    <2> QED BY <1>2, <1>4, <1>5, <2>1, QueueAssumption DEF TargetSound
<1>9. ASSUME NEW b \in Batch PROVE EpochOK(b, epoch[b])
    <2>1. epoch[b] = NoEpoch /\ epoch[b] \in Epoch
        BY <1>1, <1>2 DEF TypeOK
    <2>2. \A q \in 1..TargetHead : target[q].by # "batch"
        BY <1>5
    <2> QED BY <1>3, <1>5, <2>1, <2>2 DEF EpochOK
<1> QED BY <1>1, <1>6, <1>7, <1>8, <1>9 DEF IInv

LEMMA NextInvariant == IInv /\ [Next]_vars => IInv'
<1> SUFFICES ASSUME IInv, [Next]_vars PROVE IInv'
    OBVIOUS
<1>1. CASE UNCHANGED vars
    BY <1>1 DEF vars, IInv, TypeOK, ContextTypeOK, OneActiveEpoch, ExecSound, TargetSound, EpochOK,
                TargetHead, Contained, InDoubt, Active
<1>2. CASE \/ \E i \in Worker : ContextStep(i)
           \/ RecoverExpired
           \/ \E i \in Item : AllocateCheck(i) \/ AllocateWrite(i) \/ MaterializeCheck(i)
           \/ \E q \in pending : RequestEnds(q)
           \/ Misaligned \/ Crash
    BY <1>2, QuietStep
<1>3. CASE \E i \in Item : Materialize(i)
    BY <1>3, MaterializeStep
<1>4. CASE \/ \E i \in Item : ExecuteIntegrated(i, "batch") \/ Arm(i, "batch")
           \/ \E i \in OffBatch : ExecuteIntegrated(i, "standalone") \/ Arm(i, "standalone")
    <2>1. PICK i \in Item, flow \in Flow : ExecuteIntegrated(i, flow) \/ Arm(i, flow)
        BY <1>4, QueueAssumption DEF Flow
    <2> QED BY <2>1, ExecuteIntegratedStep, ArmStep
<1>5. CASE \E i \in ByHand : ReportMerged(i) \/ ReportFailed(i)
    <2>1. PICK i \in Item : ReportMerged(i) \/ ReportFailed(i)
        BY <1>5, QueueAssumption
    <2> QED BY <2>1, ReportStep
<1>6. CASE \E i \in ByHand : HandMerge(i)
    <2>1. PICK i \in Item : Push(i, tip[i])
        BY <1>6, QueueAssumption DEF HandMerge
    <2>2. tip[i] \in 0..MaxRev /\ tip[i] <= tip[i]
        BY DEF IInv, TypeOK, ContextTypeOK
    <2> QED BY <2>1, <2>2, PushStep
<1>7. CASE DirectPush
    <2>1. Push("none", 0) /\ "none" \notin Item /\ 0 \in 0..MaxRev
        BY <1>7, QueueAssumption, BoundAssumption DEF DirectPush
    <2> QED BY <2>1, PushStep
<1>8. CASE GitMerge \/ GitFails \/ RecordLanding
    BY <1>8, GitMergeStep, GitFailsStep, RecordLandingStep
<1>9. CASE \E b \in Batch : ReleaseUnlandable(b) \/ SealWorldref(b)
    BY <1>9, ReleaseStep, SealStep
<1>10. CASE \E b \in Batch :
            \/ reanchor_open_integration_epoch_after_direct_repair(b)
            \/ \E p \in 0..TargetHead : Reconciled(b, p)
    BY <1>10, ReanchorOrReconcileStep
<1> QED BY <1>1, <1>2, <1>3, <1>4, <1>5, <1>6, <1>7, <1>8, <1>9, <1>10 DEF Next

LEMMA InvariantHolds == Spec => []IInv
BY InitInvariant, NextInvariant, PTL DEF Spec

-----------------------------------------------------------------------------
(* The theorems *)

(***************************************************************************)
(* Contexts, queue rows, epochs and the target keep their types: a row is  *)
(* never given a candidate beyond the last revision, nor an epoch a        *)
(* status its table does not know.                                         *)
(***************************************************************************)
THEOREM TypeCorrect == Spec => []TypeOK
<1>1. IInv => TypeOK
    BY DEF IInv
<1> QED BY <1>1, InvariantHolds, PTL

(***************************************************************************)
(* At most one batch owns the target, for any number of batches: the       *)
(* unique index on active epochs is never what stops a second one.         *)
(***************************************************************************)
THEOREM OneOwner == Spec => []OneActiveEpoch
<1>1. IInv => OneActiveEpoch
    BY DEF IInv
<1> QED BY <1>1, InvariantHolds, PTL

(***************************************************************************)
(* open_or_validate, advance, release and seal together keep the cursor of *)
(* every epoch at the first of the lanes that are left.                    *)
(***************************************************************************)
THEOREM CursorHolds == Spec => []CursorSound
<1>1. IInv => CursorSound
    BY DEF IInv, CursorSound, EpochOK
<1> QED BY <1>1, InvariantHolds, PTL

(***************************************************************************)
(* What advance_integration_epoch_after_merge credits is in the target, at *)
(* the epoch's head and at the head that closed it, whatever pushes, hand  *)
(* merges, crashes and retries come between.                               *)
(***************************************************************************)
THEOREM CreditBacked == Spec => []CreditIsLanded
<1>1. IInv => CreditIsLanded
    <2> SUFFICES ASSUME IInv, NEW b \in Batch, NEW i \in epoch[b].prefix
                 PROVE  /\ Contained(i, epoch[b].credit[i], epoch[b].head)
                        /\ epoch[b].status = "closed" => epoch[b].head <= epoch[b].reconciled
        BY DEF CreditIsLanded
    <2>1. EpochOK(b, epoch[b])
        BY DEF IInv
    <2> QED BY <2>1 DEF EpochOK
<1> QED BY <1>1, InvariantHolds, PTL

(***************************************************************************)
(* arm_integration_epoch_merge_in_doubt does its work: whenever the        *)
(* process dies, a merge that git made for a batch is credited or in doubt.*)
(***************************************************************************)
THEOREM NothingForgotten == Spec => []LandingNeverForgotten
<1>1. IInv => LandingNeverForgotten
    <2> SUFFICES ASSUME IInv, NEW q \in 1..TargetHead, target[q].by = "batch"
                 PROVE  LET i == target[q].item
                            e == epoch[BatchOf[i]]
                        IN  \/ i \in e.prefix /\ e.credit[i] >= target[q].rev
                            \/ e.status = "merge_in_doubt" /\ e.active = i
        BY DEF LandingNeverForgotten
    <2> DEFINE i == target[q].item
    <2>1. i \in Item
        BY DEF IInv, TargetSound
    <2>2. BatchOf[i] \in Batch /\ i \in Queue(BatchOf[i])
        BY <2>1, QueueAssumption DEF Queue
    <2>3. EpochOK(BatchOf[i], epoch[BatchOf[i]])
        BY <2>2 DEF IInv
    <2> QED BY <2>2, <2>3 DEF EpochOK
<1> QED BY <1>1, InvariantHolds, PTL

-----------------------------------------------------------------------------
(* What a step may do *)

\* The steps that add to the target: the service's own merge and a push.
LEMMA TargetMoves ==
    ASSUME IInv, [Next]_vars
    PROVE  \/ UNCHANGED target
           \/ GitMerge
           \/ \E i \in Item \cup {"none"}, r \in 0..MaxRev : Push(i, r)
<1>1. CASE UNCHANGED vars
    BY <1>1 DEF vars
<1>2. CASE \/ \E i \in Worker : ContextStep(i)
           \/ RecoverExpired
           \/ \E i \in Item : AllocateCheck(i) \/ AllocateWrite(i) \/ MaterializeCheck(i)
           \/ \E q \in pending : RequestEnds(q)
           \/ \E i \in Item : Materialize(i)
    BY <1>2 DEF ContextStep, RecoverExpired, AllocateCheck, AllocateWrite, MaterializeCheck,
                RequestEnds, Materialize, queueVars
<1>3. CASE \/ \E i \in Item : ExecuteIntegrated(i, "batch") \/ Arm(i, "batch")
           \/ \E i \in OffBatch : ExecuteIntegrated(i, "standalone") \/ Arm(i, "standalone")
           \/ \E i \in ByHand : ReportMerged(i) \/ ReportFailed(i)
           \/ GitFails \/ RecordLanding \/ Misaligned \/ Crash
    BY <1>3 DEF ExecuteIntegrated, Arm, ReportMerged, ReportFailed, GitFails, RecordLanding,
                Misaligned, Crash
<1>4. CASE \E b \in Batch :
            \/ ReleaseUnlandable(b) \/ SealWorldref(b)
            \/ reanchor_open_integration_epoch_after_direct_repair(b)
            \/ \E p \in 0..TargetHead : Reconciled(b, p)
    BY <1>4 DEF ReleaseUnlandable, SealWorldref, Reconciled,
                reanchor_open_integration_epoch_after_direct_repair
<1>5. CASE GitMerge
    BY <1>5
<1>6. CASE \E i \in ByHand : HandMerge(i)
    <2>1. PICK i \in Item : Push(i, tip[i])
        BY <1>6, QueueAssumption DEF HandMerge
    <2>2. tip[i] \in 0..MaxRev
        BY DEF IInv, TypeOK, ContextTypeOK
    <2> QED BY <2>1, <2>2
<1>7. CASE DirectPush
    <2>1. Push("none", 0) /\ 0 \in 0..MaxRev
        BY <1>7, BoundAssumption DEF DirectPush
    <2> QED BY <2>1
<1> QED BY <1>1, <1>2, <1>3, <1>4, <1>5, <1>6, <1>7 DEF Next

LEMMA StepFrozen ==
    ASSUME IInv, [Next]_vars, NEW i \in Item, ServiceLands(i)
    PROVE  /\ \A b \in Batch : Active(b) => epoch[b].active = i
           /\ row[i].status \notin Terminal
<1>1. TypeOK /\ TargetHead \in Nat
    BY HeadIsNat DEF IInv, TypeOK
<1>2. CASE UNCHANGED target
    BY <1>1, <1>2 DEF ServiceLands, TargetHead
<1>3. CASE \E k \in Item \cup {"none"}, r \in 0..MaxRev : Push(k, r)
    <2> PICK k \in Item \cup {"none"}, r \in 0..MaxRev : Push(k, r)
        BY <1>3
    <2> DEFINE a == [item |-> k, rev |-> r, by |-> "other"]
    <2>1. a \in Addition /\ a.by = "other" /\ target' = Append(target, a)
        BY DEF Addition, Push
    <2> HIDE DEF a
    <2>2. Len(target') = TargetHead + 1 /\ target'[TargetHead + 1] = a
        BY <1>1, <2>1, AppendFacts DEF TargetHead
    <2> QED BY <2>1, <2>2 DEF ServiceLands, Flow
<1>4. CASE GitMerge
    <2> DEFINE k == exec.item
               a == [item |-> k, rev |-> tip[k], by |-> exec.flow]
    <2>1. exec.phase = "armed" /\ target' = Append(target, a)
        BY <1>4 DEF GitMerge
    <2>2. /\ k \in Item /\ exec.flow \in Flow /\ row[k].status = "queued_for_merge"
          /\ \A b \in Batch : Active(b) => epoch[b].active = k
        BY <2>1 DEF IInv, ExecSound
    <2>3. a \in Addition /\ a.item = k
        BY <2>2 DEF IInv, TypeOK, ContextTypeOK, Addition, Flow
    <2> HIDE DEF a
    <2>4. Len(target') = TargetHead + 1 /\ target'[TargetHead + 1] = a
        BY <1>1, <2>1, <2>3, AppendFacts DEF TargetHead
    <2>5. i = k
        BY <2>3, <2>4 DEF ServiceLands
    <2> QED BY <2>2, <2>5 DEF Terminal
<1> QED BY <1>2, <1>3, <1>4, TargetMoves

(***************************************************************************)
(* execute_merge_queue_item never lands a lane past an active epoch of     *)
(* another one, nor a released or sealed lane: the check it made before it *)
(* armed still holds when git moves the ref.                               *)
(***************************************************************************)
THEOREM TargetIsFrozen == Spec => FrozenTarget
<1>1. IInv /\ [Next]_vars =>
        [\A i \in Item : ServiceLands(i) =>
            /\ \A b \in Batch : Active(b) => epoch[b].active = i
            /\ row[i].status \notin Terminal]_vars
    BY StepFrozen
<1> QED BY <1>1, InvariantHolds, PTL DEF Spec, FrozenTarget

(***************************************************************************)
(* How a step changes the epoch of batch b into f: it is opened, keeps its *)
(* lanes, credits the lane at its cursor, releases it, is given up with    *)
(* it, or is closed.                                                       *)
(***************************************************************************)
EpochMove(b, f) ==
    LET e == epoch[b]
    IN  /\ f \in Epoch
        /\ \/ /\ e.status = "none" /\ f.status \in Live /\ f.incomplete = {}
              /\ \A c \in Batch \ {b} : ~Active(c)
           \/ /\ e.status \in Live /\ f.status \in Live
              /\ f.prefix = e.prefix /\ f.incomplete = e.incomplete
           \/ /\ e.status \in {"open", "merge_in_doubt"} /\ f.status \in Live
              /\ f.prefix = e.prefix \cup {e.active} /\ f.incomplete = e.incomplete
           \/ /\ e.status = "open" /\ e.remaining = {e.active} /\ f.status \in Live
              /\ f.prefix = e.prefix /\ f.incomplete = e.incomplete \cup {e.active}
           \/ /\ e.status = "open" /\ e.remaining = {e.active}
              /\ f.status = "aborted_with_exception"
              /\ f.prefix = e.prefix /\ f.incomplete = e.incomplete
           \/ /\ e.status = "reconcile_pending" /\ f.status = "closed"
              /\ f.prefix = e.prefix /\ f.incomplete = e.incomplete

LEMMA AdvanceFields ==
    ASSUME NEW i \in Item, NEW e \in Epoch, NEW h \in Nat, NEW r \in 0..MaxRev,
           advance_integration_epoch_after_merge(e, i, h, r)
    PROVE  \E f \in Epoch :
            /\ epoch' = [epoch EXCEPT ![BatchOf[i]] = f] /\ f.status \in Live
            /\ f.prefix = e.prefix \cup {i} /\ f.incomplete = e.incomplete
<1>1. PICK n \in Item \cup {"none"} :
        epoch' = [epoch EXCEPT ![BatchOf[i]] =
            AdvancedTo(e, i, n, h, r, IF n = "none" THEN "reconcile_pending" ELSE "open")]
    BY DEF advance_integration_epoch_after_merge, AdvancedTo
<1> DEFINE s == IF n = "none" THEN "reconcile_pending" ELSE "open"
           f == AdvancedTo(e, i, n, h, r, s)
<1>2. s \in EpochStatus /\ s \in Live
    BY DEF EpochStatus, Live
<1>3. epoch' = [epoch EXCEPT ![BatchOf[i]] = f]
    BY <1>1
<1> HIDE DEF f, s
<1>4. /\ f \in Epoch
      /\ f.status = s /\ f.prefix = e.prefix \cup {i} /\ f.remaining = e.remaining \ {i}
      /\ f.active = n /\ f.head = h /\ f.incomplete = e.incomplete
      /\ f.credit[i] = r /\ \A k \in Item : k # i => f.credit[k] = e.credit[k]
    BY ONLY <1>2, e \in Epoch, i \in Item, h \in Nat, r \in 0..MaxRev, n \in Item \cup {"none"},
            AdvancedEpoch DEF f
<1> QED BY <1>2, <1>3, <1>4

\* A lane that may enter the epoch of its batch opens it or is at its cursor.
LEMMA EnteredMove ==
    ASSUME IInv, NEW i \in Item, MayEnterEpoch(i), NEW f \in Epoch, f.status \in Live,
           LET e == EpochAt(i, TargetHead)
           IN  /\ f.prefix = e.prefix \/ f.prefix = e.prefix \cup {i}
               /\ f.incomplete = e.incomplete
    PROVE  BatchOf[i] \in Batch /\ EpochMove(BatchOf[i], f)
<1> DEFINE b == BatchOf[i]
           e == EpochAt(i, TargetHead)
<1>1. /\ b \in Batch /\ EpochOK(b, e) /\ e.active = i
      /\ e.status \in {"open", "merge_in_doubt"} /\ e.incomplete = {}
    BY EnteredEpoch, QueueAssumption DEF EpochOK
<1>2. \A c \in Batch \ {b} : ~Active(c)
    BY DEF MayEnterEpoch
<1>3. CASE epoch[b].status = "none"
    <2> HIDE DEF e
    <2> QED BY <1>1, <1>2, <1>3 DEF EpochMove, e
<1>4. CASE epoch[b].status # "none"
    <2>1. e = epoch[b]
        BY <1>4 DEF EpochAt
    <2> HIDE DEF e
    <2> QED BY <1>1, <2>1 DEF EpochMove, Live, e
<1> QED BY <1>1, <1>3, <1>4

LEMMA ExecuteMoves ==
    ASSUME IInv, NEW i \in Item, NEW flow \in Flow, ExecuteIntegrated(i, flow) \/ Arm(i, flow)
    PROVE  \/ UNCHANGED epoch
           \/ \E b \in Batch : \E f : epoch' = [epoch EXCEPT ![b] = f] /\ EpochMove(b, f)
<1>1. TargetHead \in Nat /\ tip[i] \in 0..MaxRev
    BY HeadIsNat DEF IInv, TypeOK, ContextTypeOK
<1> DEFINE e == EpochAt(i, TargetHead)
<1>2. CASE flow = "batch" /\ ExecuteIntegrated(i, flow)
    <2>1. MayEnterEpoch(i) /\ advance_integration_epoch_after_merge(e, i, TargetHead, tip[i])
        BY <1>2 DEF ExecuteIntegrated
    <2>2. e \in Epoch
        BY <2>1, EnteredEpoch DEF EpochOK
    <2> HIDE DEF e
    <2>3. PICK f \in Epoch : /\ epoch' = [epoch EXCEPT ![BatchOf[i]] = f] /\ f.status \in Live
                             /\ f.prefix = e.prefix \cup {i} /\ f.incomplete = e.incomplete
        BY <1>1, <2>1, <2>2, AdvanceFields
    <2>4. BatchOf[i] \in Batch /\ EpochMove(BatchOf[i], f)
        BY <2>1, <2>3, EnteredMove DEF e
    <2> QED BY <2>3, <2>4
<1>3. CASE flow = "batch" /\ Arm(i, flow)
    <2> DEFINE f == ArmedAt(e, TargetHead)
    <2>1. MayEnterEpoch(i) /\ epoch' = [epoch EXCEPT ![BatchOf[i]] = f]
        BY <1>3 DEF Arm, arm_integration_epoch_merge_in_doubt, ArmedAt
    <2>2. e \in Epoch
        BY <2>1, EnteredEpoch DEF EpochOK
    <2>3. f \in Epoch /\ f.status \in Live /\ f.prefix = e.prefix /\ f.incomplete = e.incomplete
        <3> HIDE DEF e
        <3> QED BY <1>1, <2>2, ArmedEpoch DEF Live
    <2> HIDE DEF f
    <2>4. BatchOf[i] \in Batch /\ EpochMove(BatchOf[i], f)
        BY <2>1, <2>3, EnteredMove
    <2> QED BY <2>1, <2>4
<1>4. CASE flow # "batch"
    BY <1>4 DEF ExecuteIntegrated, Arm
<1> QED BY <1>2, <1>3, <1>4

LEMMA EpochMoves ==
    ASSUME IInv, [Next]_vars
    PROVE  \/ UNCHANGED epoch
           \/ \E b \in Batch : \E f : epoch' = [epoch EXCEPT ![b] = f] /\ EpochMove(b, f)
<1>1. CASE UNCHANGED vars
    BY <1>1 DEF vars
<1>2. CASE \/ \E i \in Worker : ContextStep(i)
           \/ RecoverExpired
           \/ \E i \in Item : AllocateCheck(i) \/ AllocateWrite(i) \/ MaterializeCheck(i)
           \/ \E q \in pending : RequestEnds(q)
           \/ \E i \in Item : Materialize(i)
    BY <1>2 DEF ContextStep, RecoverExpired, AllocateCheck, AllocateWrite, MaterializeCheck,
                RequestEnds, Materialize, queueVars
<1>3. CASE \/ \E i \in ByHand : ReportMerged(i) \/ ReportFailed(i) \/ HandMerge(i)
           \/ GitMerge \/ GitFails \/ Misaligned \/ Crash \/ DirectPush
    BY <1>3 DEF ReportMerged, ReportFailed, HandMerge, GitMerge, GitFails, Misaligned, Crash,
                DirectPush, Push
<1>4. CASE \/ \E i \in Item : ExecuteIntegrated(i, "batch") \/ Arm(i, "batch")
           \/ \E i \in OffBatch : ExecuteIntegrated(i, "standalone") \/ Arm(i, "standalone")
    <2>1. PICK i \in Item, flow \in Flow : ExecuteIntegrated(i, flow) \/ Arm(i, flow)
        BY <1>4, QueueAssumption DEF Flow
    <2> QED BY <2>1, ExecuteMoves
<1>5. CASE RecordLanding
    <2> DEFINE i == exec.item
               e == epoch[BatchOf[i]]
    <2>1. exec.phase = "landed" /\ TargetHead = exec.pos
        BY <1>5 DEF RecordLanding
    <2>2. CASE exec.flow = "batch"
        <3>1. advance_integration_epoch_after_merge(e, i, exec.pos, exec.rev)
            BY <1>5, <2>2 DEF RecordLanding
        <3>2. /\ i \in Item /\ BatchOf[i] \in Batch /\ e \in Epoch /\ e.status = "merge_in_doubt"
              /\ e.active = i /\ exec.pos \in Nat /\ exec.rev \in 0..MaxRev
            BY <2>1, <2>2, QueueAssumption DEF IInv, ExecSound, InDoubt, TypeOK, Exec
        <3> HIDE DEF i, e
        <3>3. PICK f \in Epoch :
                /\ epoch' = [epoch EXCEPT ![BatchOf[i]] = f] /\ f.status \in Live
                /\ f.prefix = e.prefix \cup {i} /\ f.incomplete = e.incomplete
            BY <3>1, <3>2, AdvanceFields
        <3>4. EpochMove(BatchOf[i], f)
            BY <3>2, <3>3 DEF EpochMove, e
        <3> QED BY <3>2, <3>3, <3>4
    <2>3. CASE exec.flow # "batch"
        BY <1>5, <2>3 DEF RecordLanding
    <2> QED BY <2>2, <2>3
<1>6. ASSUME NEW b \in Batch,
             \/ ReleaseUnlandable(b) \/ SealWorldref(b)
             \/ reanchor_open_integration_epoch_after_direct_repair(b)
             \/ \E p \in 0..TargetHead : Reconciled(b, p)
      PROVE  \E f : epoch' = [epoch EXCEPT ![b] = f] /\ EpochMove(b, f)
    <2> DEFINE e == epoch[b]
    <2>1. e \in Epoch /\ TargetHead \in Nat /\ EpochOK(b, e)
        BY HeadIsNat DEF IInv, TypeOK
    <2>2. CASE ReleaseUnlandable(b)
        <3>1. /\ epoch' = [epoch EXCEPT ![b] = ReleasedTo(e, e.active)]
              /\ e.status = "open" /\ e.remaining = {e.active}
            BY <2>2 DEF ReleaseUnlandable, ReleasedTo
        <3>2. e.active \in Item
            BY <2>1, <3>1, EpochFields
        <3> HIDE DEF e
        <3>3. LET f == ReleasedTo(e, e.active)
              IN  /\ f \in Epoch /\ f.status \in Live /\ f.prefix = e.prefix
                  /\ f.incomplete = e.incomplete \cup {e.active}
            BY <2>1, <3>2, ReleasedEpoch DEF Live
        <3>4. EpochMove(b, ReleasedTo(e, e.active))
            BY <3>1, <3>3 DEF EpochMove, e
        <3> QED BY <3>1, <3>4
    <2>3. CASE SealWorldref(b)
        <3>1. /\ epoch' = [epoch EXCEPT ![b] = AbortedTo(e)]
              /\ e.status = "open" /\ e.remaining = {e.active}
            BY <2>3 DEF SealWorldref, AbortedTo
        <3> HIDE DEF e
        <3>2. LET f == AbortedTo(e)
              IN  /\ f \in Epoch /\ f.status = "aborted_with_exception" /\ f.prefix = e.prefix
                  /\ f.incomplete = e.incomplete
            BY <2>1, AbortedEpoch
        <3>3. EpochMove(b, AbortedTo(e))
            BY <3>1, <3>2 DEF EpochMove, e
        <3> QED BY <3>1, <3>3
    <2>4. CASE reanchor_open_integration_epoch_after_direct_repair(b)
        <3>1. epoch' = [epoch EXCEPT ![b] = AnchoredAt(e, TargetHead)] /\ e.status = "open"
            BY <2>4 DEF reanchor_open_integration_epoch_after_direct_repair, AnchoredAt
        <3> HIDE DEF e
        <3>2. LET f == AnchoredAt(e, TargetHead)
              IN  /\ f \in Epoch /\ f.status = e.status /\ f.prefix = e.prefix
                  /\ f.incomplete = e.incomplete
            BY <2>1, AnchoredEpoch
        <3>3. EpochMove(b, AnchoredAt(e, TargetHead))
            BY <3>1, <3>2 DEF EpochMove, Live, e
        <3> QED BY <3>1, <3>3
    <2>5. CASE \E p \in 0..TargetHead : Reconciled(b, p)
        <3> PICK p \in 0..TargetHead : Reconciled(b, p)
            BY <2>5
        <3>0. p \in Nat
            BY <2>1
        <3>1. epoch' = [epoch EXCEPT ![b] = ClosedAt(e, p)] /\ e.status = "reconcile_pending"
            BY DEF Reconciled, ClosedAt
        <3> HIDE DEF e
        <3>2. LET f == ClosedAt(e, p)
              IN  /\ f \in Epoch /\ f.status = "closed" /\ f.prefix = e.prefix
                  /\ f.incomplete = e.incomplete
            BY <2>1, <3>0, ClosedEpoch
        <3>3. EpochMove(b, ClosedAt(e, p))
            BY <3>1, <3>2 DEF EpochMove, e
        <3> QED BY <3>1, <3>3
    <2> QED BY <1>6, <2>2, <2>3, <2>4, <2>5
<1> QED BY <1>1, <1>2, <1>3, <1>4, <1>5, <1>6 DEF Next

\* The rows change by upsert_merge_queue_item only.
LEMMA RowMoves ==
    ASSUME IInv, [Next]_vars
    PROVE  UNCHANGED row \/ \E i \in Item : \E r : upsert_merge_queue_item(i, r)
<1>1. CASE UNCHANGED vars
    BY <1>1 DEF vars
<1>2. CASE \/ \E i \in Worker : ContextStep(i)
           \/ RecoverExpired
           \/ \E i \in Item : AllocateCheck(i) \/ AllocateWrite(i) \/ MaterializeCheck(i)
           \/ \E q \in pending : RequestEnds(q)
    BY <1>2 DEF ContextStep, RecoverExpired, AllocateCheck, AllocateWrite, MaterializeCheck,
                RequestEnds, queueVars
<1>3. CASE \/ \E i \in ByHand : HandMerge(i)
           \/ GitMerge \/ Misaligned \/ Crash \/ DirectPush
    BY <1>3 DEF HandMerge, GitMerge, Misaligned, Crash, DirectPush, Push
<1>4. CASE \/ \E i \in Item : Materialize(i) \/ ExecuteIntegrated(i, "batch") \/ Arm(i, "batch")
           \/ \E i \in OffBatch : ExecuteIntegrated(i, "standalone") \/ Arm(i, "standalone")
           \/ \E i \in ByHand : ReportMerged(i) \/ ReportFailed(i)
    BY <1>4, QueueAssumption DEF Materialize, ExecuteIntegrated, Arm, ReportMerged, ReportFailed,
                                 record_merge_queue_result
<1>5. CASE GitFails \/ RecordLanding
    <2>1. exec.item \in Item
        BY <1>5 DEF GitFails, RecordLanding, IInv, ExecSound
    <2> QED BY <1>5, <2>1 DEF GitFails, RecordLanding, record_merge_queue_result
<1>6. ASSUME NEW b \in Batch,
             \/ ReleaseUnlandable(b) \/ SealWorldref(b)
             \/ reanchor_open_integration_epoch_after_direct_repair(b)
             \/ \E p \in 0..TargetHead : Reconciled(b, p)
      PROVE  UNCHANGED row \/ \E i \in Item : \E r : upsert_merge_queue_item(i, r)
    <2>1. CASE ReleaseUnlandable(b) \/ SealWorldref(b)
        <3>1. epoch[b].remaining = {epoch[b].active} /\ epoch[b] \in Epoch
            BY <2>1 DEF ReleaseUnlandable, SealWorldref, IInv, TypeOK
        <3>2. epoch[b].active \in Item
            BY <3>1, EpochFields
        <3> QED BY <2>1, <3>2 DEF ReleaseUnlandable, SealWorldref
    <2>2. CASE \/ reanchor_open_integration_epoch_after_direct_repair(b)
               \/ \E p \in 0..TargetHead : Reconciled(b, p)
        BY <2>2 DEF reanchor_open_integration_epoch_after_direct_repair, Reconciled
    <2> QED BY <1>6, <2>1, <2>2
<1> QED BY <1>1, <1>2, <1>3, <1>4, <1>5, <1>6 DEF Next

\* No step takes a released context to another status.
LEMMA ReleasedContextStays ==
    ASSUME IInv, [Next]_vars, NEW i \in Item, ctx[i].status = "released_unlandable"
    PROVE  ctx'[i].status = "released_unlandable"
<1>1. ctx \in [Item -> Context]
    BY DEF IInv, TypeOK, ContextTypeOK
<1>2. ASSUME NEW j, NEW c, upsert_branch_context(j, c)
      PROVE  ctx'[i].status = "released_unlandable"
    BY <1>1, <1>2 DEF upsert_branch_context
<1>3. CASE \/ UNCHANGED ctx
           \/ \E j, c : upsert_branch_context(j, c)
    BY <1>2, <1>3
<1>4. CASE UNCHANGED vars
    BY <1>3, <1>4 DEF vars
<1>5. CASE \E j \in Worker : ContextStep(j)
    <2> PICK j \in Worker : ContextStep(j)
        BY <1>5
    <2>1. j \in Item /\ ctx[j] \in Context
        BY <1>1, LaneAssumption
    <2>2. CASE \/ InitialJoin(j)
               \/ \E reopen \in BOOLEAN : Rejoin(j, reopen)
               \/ \E t \in 1..issued[j] : record_mf_subagent_startup(j, t)
               \/ WorkerCommits(j)
        BY <1>3, <2>2 DEF InitialJoin, Rejoin, record_mf_subagent_startup, WorkerCommits
    <2>3. CASE \E t \in 1..issued[j] : record_branch_checkpoint(j, t)
        <3>1. ctx' = [ctx EXCEPT ![j] = [ctx[j] EXCEPT !.gate = FALSE]]
            BY <2>3 DEF record_branch_checkpoint
        <3>2. [ctx[j] EXCEPT !.gate = FALSE].status = ctx[j].status
            BY <2>1 DEF Context
        <3> QED BY <1>1, <2>1, <3>1, <3>2
    <2>4. CASE \E t \in 1..issued[j] : record_branch_finish_gate(j, t)
        <3>1. /\ ctx[j].status # "released_unlandable"
              /\ ctx' = [ctx EXCEPT ![j] = [ctx[j] EXCEPT !.status = "validated", !.gate = TRUE]]
            BY <2>4 DEF record_branch_finish_gate
        <3> QED BY <1>1, <2>1, <3>1
    <2>5. CASE LeaseExpires(j)
        <3>1. ctx' = [ctx EXCEPT ![j] = [ctx[j] EXCEPT !.lease = "past"]]
            BY <2>5 DEF LeaseExpires
        <3>2. [ctx[j] EXCEPT !.lease = "past"].status = ctx[j].status
            BY <2>1 DEF Context
        <3> QED BY <1>1, <2>1, <3>1, <3>2
    <2> QED BY <2>2, <2>3, <2>4, <2>5 DEF ContextStep
<1>6. CASE RecoverExpired
    BY <1>6 DEF RecoverExpired, recover_expired_branch_contexts, Expired
<1>7. CASE \E j \in Item : AllocateWrite(j)
    <2>1. PICK j \in Item : /\ ctx[j].status = "absent"
                            /\ \E c : ctx' = [ctx EXCEPT ![j] = c]
        BY <1>7 DEF AllocateWrite, Allocate
    <2> QED BY <1>1, <2>1
<1>8. CASE \/ \E j \in Item : \/ AllocateCheck(j) \/ MaterializeCheck(j) \/ Materialize(j)
                              \/ ExecuteIntegrated(j, "batch") \/ Arm(j, "batch")
           \/ \E j \in OffBatch : ExecuteIntegrated(j, "standalone") \/ Arm(j, "standalone")
           \/ \E j \in ByHand : ReportMerged(j) \/ ReportFailed(j) \/ HandMerge(j)
           \/ \E q \in pending : RequestEnds(q)
    BY <1>3, <1>8 DEF AllocateCheck, MaterializeCheck, Materialize, ExecuteIntegrated, Arm,
                      ReportMerged, ReportFailed, HandMerge, Push, RequestEnds,
                      record_merge_queue_result, contextVars
<1>9. CASE \/ GitMerge \/ GitFails \/ RecordLanding \/ Misaligned \/ Crash \/ DirectPush
           \/ \E b \in Batch :
                \/ ReleaseUnlandable(b) \/ SealWorldref(b)
                \/ reanchor_open_integration_epoch_after_direct_repair(b)
                \/ \E p \in 0..TargetHead : Reconciled(b, p)
    BY <1>3, <1>9 DEF GitMerge, GitFails, RecordLanding, Misaligned, Crash, DirectPush, Push,
                      ReleaseUnlandable, SealWorldref, Reconciled, record_merge_queue_result,
                      reanchor_open_integration_epoch_after_direct_repair, contextVars
<1> QED BY <1>4, <1>5, <1>6, <1>7, <1>8, <1>9 DEF Next

(***************************************************************************)
(* What release_integration_epoch_unlandable_child and the worldref seal   *)
(* ended stays ended, for late callbacks, reports, retries and requests    *)
(* that passed their checks before; so does a closed epoch.                *)
(***************************************************************************)
THEOREM TerminalIsFinal == Spec => TerminalStays
<1>1. ASSUME IInv, [Next]_vars, NEW i \in Item, row[i].status \in Terminal
      PROVE  row'[i].status = row[i].status
    <2>1. row \in [Item -> Row]
        BY <1>1 DEF IInv, TypeOK
    <2> QED BY <1>1, <2>1, RowMoves DEF upsert_merge_queue_item
<1>2. ASSUME IInv, [Next]_vars, NEW b \in Batch,
             epoch[b].status \in {"closed", "aborted_with_exception"}
      PROVE  epoch'[b] = epoch[b]
    <2>1. epoch \in [Batch -> Epoch]
        BY <1>2 DEF IInv, TypeOK
    <2>2. CASE \E c \in Batch : \E f : epoch' = [epoch EXCEPT ![c] = f] /\ EpochMove(c, f)
        <3>1. PICK c \in Batch : \E f : epoch' = [epoch EXCEPT ![c] = f] /\ EpochMove(c, f)
            BY <2>2
        <3>2. PICK f : epoch' = [epoch EXCEPT ![c] = f] /\ EpochMove(c, f)
            BY <3>1
        <3>3. epoch[c].status \notin {"closed", "aborted_with_exception"}
            BY <3>2 DEF EpochMove, Live
        <3> QED BY <1>2, <2>1, <3>2, <3>3
    <2> QED BY <1>2, <2>2, EpochMoves
<1>3. IInv /\ [Next]_vars =>
        [/\ \A i \in Item :
              /\ row[i].status \in Terminal => row'[i].status = row[i].status
              /\ ctx[i].status = "released_unlandable" => ctx'[i].status = "released_unlandable"
         /\ \A b \in Batch :
              epoch[b].status \in {"closed", "aborted_with_exception"} => epoch'[b] = epoch[b]]_vars
    BY <1>1, <1>2, ReleasedContextStays
<1> QED BY <1>3, InvariantHolds, PTL DEF Spec, TerminalStays

-----------------------------------------------------------------------------
(* The refinement *)

phaseBar == [b \in Batch |-> Phase(b)]
creditedBar == [b \in Batch |-> epoch[b].prefix]
droppedBar == [b \in Batch |-> epoch[b].incomplete]

\* The phases of the statuses.
LEMMA PhaseOf ==
    ASSUME NEW b \in Batch, epoch[b] \in Epoch
    PROVE  /\ epoch[b].status = "none" => Phase(b) = "waiting"
           /\ epoch[b].status \in Live <=> Phase(b) = "owner"
           /\ epoch[b].status = "closed" =>
                Phase(b) = IF epoch[b].incomplete = {} THEN "landed" ELSE "incomplete"
           /\ epoch[b].status = "aborted_with_exception" => Phase(b) = "aborted"
<1>1. epoch[b].status \in EpochStatus
    BY EpochFields
<1> QED BY <1>1 DEF Phase, Live, EpochStatus

\* A step that leaves the epochs alone is a stutter of BatchLanding.
LEMMA StutterMove ==
    ASSUME UNCHANGED epoch
    PROVE  UNCHANGED Landing!landingVars
BY DEF Landing!landingVars, Phase

\* What a move of the epoch of batch b does to the variables of BatchLanding.
LEMMA MappedMove ==
    ASSUME IInv, IInv', NEW b \in Batch, NEW f \in Epoch, epoch' = [epoch EXCEPT ![b] = f]
    PROVE  /\ epoch'[b] = f /\ f \in Epoch
           /\ phaseBar' = [phaseBar EXCEPT ![b] = Phase(b)']
           /\ creditedBar' = [creditedBar EXCEPT ![b] = f.prefix]
           /\ droppedBar' = [droppedBar EXCEPT ![b] = f.incomplete]
<1>1. epoch \in [Batch -> Epoch]
    BY DEF IInv, TypeOK
<1>2. epoch'[b] = f /\ \A c \in Batch \ {b} : epoch'[c] = epoch[c]
    BY <1>1
<1>3. \A c \in Batch \ {b} : Phase(c)' = Phase(c)
    BY <1>2 DEF Phase
<1>4. phaseBar' = [c \in Batch |-> Phase(c)']
    BY DEF phaseBar
<1>5. phaseBar' = [phaseBar EXCEPT ![b] = Phase(b)']
    BY <1>3, <1>4 DEF phaseBar
<1>6. creditedBar' = [creditedBar EXCEPT ![b] = f.prefix]
    <2>1. \A c \in Batch : epoch'[c].prefix = IF c = b THEN f.prefix ELSE epoch[c].prefix
        BY <1>2
    <2> QED BY <2>1, Zenon DEF creditedBar
<1>7. droppedBar' = [droppedBar EXCEPT ![b] = f.incomplete]
    <2>1. \A c \in Batch : epoch'[c].incomplete = IF c = b THEN f.incomplete ELSE epoch[c].incomplete
        BY <1>2
    <2> QED BY <2>1, Zenon DEF droppedBar
<1> QED BY <1>2, <1>5, <1>6, <1>7

\* A move of one epoch is a step or a stutter of BatchLanding.
LEMMA MoveRefines ==
    ASSUME IInv, IInv', NEW b \in Batch, NEW f, epoch' = [epoch EXCEPT ![b] = f], EpochMove(b, f)
    PROVE  [Landing!LandingNext]_(Landing!landingVars)
<1> DEFINE e == epoch[b]
<1>1. f \in Epoch /\ e \in Epoch /\ EpochOK(b, e) /\ \A c \in Batch : epoch[c] \in Epoch
    BY DEF EpochMove, IInv, TypeOK
<1>2. /\ epoch'[b] = f /\ phaseBar' = [phaseBar EXCEPT ![b] = Phase(b)']
      /\ creditedBar' = [creditedBar EXCEPT ![b] = f.prefix]
      /\ droppedBar' = [droppedBar EXCEPT ![b] = f.incomplete]
    BY <1>1, MappedMove
<1>3. /\ creditedBar[b] = e.prefix /\ droppedBar[b] = e.incomplete
      /\ \A c \in Batch : phaseBar[c] = Phase(c)
    BY DEF creditedBar, droppedBar, phaseBar
<1>4. /\ Phase(b) = "owner" <=> e.status \in Live
      /\ e.status = "none" => Phase(b) = "waiting"
    BY <1>1, PhaseOf
<1>5. /\ f.status \in Live => Phase(b)' = "owner"
      /\ f.status = "closed" => Phase(b)' = IF f.incomplete = {} THEN "landed" ELSE "incomplete"
      /\ f.status = "aborted_with_exception" => Phase(b)' = "aborted"
    BY <1>1, <1>2 DEF Phase, Live
<1>6. /\ e.status # "none" =>
            /\ e.prefix \cup e.remaining \cup e.incomplete = Queue(b)
            /\ e.prefix \cap e.remaining = {} /\ e.prefix \cap e.incomplete = {}
            /\ First(e.active, e.remaining)
      /\ e.status \in {"open", "merge_in_doubt"} => e.remaining # {} /\ e.incomplete = {}
      /\ e.status = "reconcile_pending" => e.remaining = {}
    BY <1>1 DEF EpochOK
<1>7. Landing!Lanes(b) = Queue(b) /\ Landing!Left(b) = Queue(b) \ (e.prefix \cup e.incomplete)
    BY DEF Landing!Lanes, Landing!Left, Queue
<1>8. /\ phaseBar \in [Batch -> {Phase(c) : c \in Batch}]
      /\ creditedBar \in [Batch -> {epoch[c].prefix : c \in Batch}]
      /\ droppedBar \in [Batch -> {epoch[c].incomplete : c \in Batch}]
    BY DEF phaseBar, creditedBar, droppedBar
<1> HIDE DEF e
<1>9. CASE /\ e.status = "none" /\ f.status \in Live /\ f.incomplete = {}
           /\ \A c \in Batch \ {b} : ~Active(c)
    <2>1. EpochOK(b, f)'
        BY <1>2 DEF IInv
    <2>2. f.status # "none" /\ f.prefix \subseteq Queue(b)
          /\ \A i \in f.prefix, j \in Queue(b) \ f.prefix : Pos[i] < Pos[j]
        BY <1>9, <2>1 DEF EpochOK, Live, Queue
    <2>3. f.prefix \in SUBSET Landing!Lanes(b) /\ \A i \in f.prefix : Landing!Before(i) \subseteq f.prefix
        <3> SUFFICES ASSUME NEW i \in f.prefix, NEW j \in Landing!Before(i) PROVE j \in f.prefix
            BY <1>7, <2>2
        <3>1. i \in Item /\ BatchOf[i] = b /\ j \in Item /\ BatchOf[j] = b /\ Pos[j] < Pos[i]
            BY <2>2 DEF Landing!Before, Landing!Lanes, Queue
        <3>2. Pos[i] \in Nat /\ Pos[j] \in Nat /\ j \in Queue(b)
            BY <3>1, QueueAssumption DEF Queue
        <3> QED BY <2>2, <3>1, <3>2
    <2>4. phaseBar[b] = "waiting" /\ \A c \in Batch : phaseBar[c] # "owner"
        <3>1. ASSUME NEW c \in Batch PROVE phaseBar[c] # "owner"
            <4>1. epoch[c].status \notin Live
                BY <1>9 DEF Active, e, Live
            <4> QED BY <1>1, <1>3, <4>1, PhaseOf
        <3> QED BY <1>3, <1>4, <1>9, <3>1
    <2>5. droppedBar' = droppedBar
        <3>1. e.incomplete = {}
            BY <1>1, <1>9 DEF EpochOK, NoEpoch
        <3> QED BY <1>2, <1>3, <1>8, <1>9, <3>1
    <2>6. phaseBar' = [phaseBar EXCEPT ![b] = "owner"]
        BY <1>2, <1>5, <1>9
    <2>7. Landing!Acquire(b)
        BY <1>2, <2>3, <2>4, <2>5, <2>6 DEF Landing!Acquire, phaseBar, creditedBar, droppedBar
    <2> QED BY <2>7 DEF Landing!LandingNext
<1>10. CASE /\ e.status \in Live /\ f.status \in Live
            /\ f.prefix = e.prefix /\ f.incomplete = e.incomplete
    <2>1. phaseBar' = phaseBar /\ creditedBar' = creditedBar /\ droppedBar' = droppedBar
        BY <1>2, <1>3, <1>4, <1>5, <1>8, <1>10
    <2> QED BY <2>1 DEF Landing!landingVars, phaseBar, creditedBar, droppedBar
<1>11. CASE /\ e.status \in {"open", "merge_in_doubt"} /\ f.status \in Live
            /\ f.prefix = e.prefix \cup {e.active} /\ f.incomplete = e.incomplete
    <2>0. e.active \in Item
        BY <1>6, <1>11 DEF First, Queue
    <2> PICK i \in Item : i = e.active
        BY <2>0
    <2>1. i \in e.remaining /\ e.incomplete = {} /\ \A j \in e.remaining : Pos[i] <= Pos[j]
        BY <1>6, <1>11 DEF First
    <2>2. i \in Item /\ BatchOf[i] = b /\ i \in Landing!Left(b)
        BY <1>6, <1>7, <1>11, <2>1 DEF Queue
    <2>3. Landing!Before(i) \subseteq e.prefix
        <3> SUFFICES ASSUME NEW j \in Landing!Before(i) PROVE j \in e.prefix
            OBVIOUS
        <3>1. j \in Queue(b) /\ j \in Item /\ Pos[j] < Pos[i]
            BY <2>2 DEF Landing!Before, Landing!Lanes, Queue
        <3>2. Pos[i] \in Nat /\ Pos[j] \in Nat
            BY <2>2, <3>1, QueueAssumption
        <3>3. j \notin e.remaining
            BY <2>1, <3>1, <3>2
        <3> QED BY <1>6, <1>11, <2>1, <3>1, <3>3
    <2>4. phaseBar[b] = "owner" /\ phaseBar' = phaseBar /\ droppedBar' = droppedBar
        BY <1>2, <1>3, <1>4, <1>5, <1>8, <1>11 DEF Live
    <2>5. creditedBar' = [creditedBar EXCEPT ![b] = creditedBar[b] \cup {i}]
        BY <1>2, <1>3, <1>11
    <2>6. Landing!Credit(i)
        BY <1>3, <2>2, <2>3, <2>4, <2>5 DEF Landing!Credit, phaseBar, creditedBar, droppedBar
    <2>7. \E k \in Item : Landing!Credit(k)
        BY <2>2, <2>6
    <2> QED BY ONLY <2>7 DEF Landing!LandingNext
<1>12. CASE /\ e.status = "open" /\ e.remaining = {e.active} /\ f.status \in Live
            /\ f.prefix = e.prefix /\ f.incomplete = e.incomplete \cup {e.active}
    <2>0. e.active \in Item
        BY <1>6, <1>12 DEF First, Queue
    <2> PICK i \in Item : i = e.active
        BY <2>0
    <2>1. i \in Item /\ BatchOf[i] = b /\ Landing!Left(b) = {i}
        BY <1>6, <1>7, <1>12 DEF Queue
    <2>2. phaseBar[b] = "owner" /\ phaseBar' = phaseBar /\ creditedBar' = creditedBar
        BY <1>2, <1>3, <1>4, <1>5, <1>8, <1>12 DEF Live
    <2>3. droppedBar' = [droppedBar EXCEPT ![b] = droppedBar[b] \cup {i}]
        BY <1>2, <1>3, <1>12
    <2>4. Landing!Drop(i)
        BY <2>1, <2>2, <2>3 DEF Landing!Drop, phaseBar, creditedBar, droppedBar
    <2>5. \E k \in Item : Landing!Drop(k)
        BY <2>1, <2>4
    <2> QED BY ONLY <2>5 DEF Landing!LandingNext
<1>13. CASE /\ e.status = "open" /\ e.remaining = {e.active}
            /\ f.status = "aborted_with_exception"
            /\ f.prefix = e.prefix /\ f.incomplete = e.incomplete
    <2>0. e.active \in Item
        BY <1>6, <1>13 DEF First, Queue
    <2> PICK i \in Item : i = e.active
        BY <2>0
    <2>1. i \in Item /\ BatchOf[i] = b /\ Landing!Left(b) = {i}
        BY <1>6, <1>7, <1>13 DEF Queue
    <2>2. phaseBar[b] = "owner" /\ creditedBar' = creditedBar /\ droppedBar' = droppedBar
        BY <1>2, <1>3, <1>4, <1>8, <1>13 DEF Live
    <2>3. phaseBar' = [phaseBar EXCEPT ![b] = "aborted"]
        BY <1>2, <1>5, <1>13
    <2>4. Landing!Abort(i)
        BY <2>1, <2>2, <2>3 DEF Landing!Abort, phaseBar, creditedBar, droppedBar
    <2>5. \E k \in Item : Landing!Abort(k)
        BY <2>1, <2>4
    <2> QED BY ONLY <2>5 DEF Landing!LandingNext
<1>14. CASE /\ e.status = "reconcile_pending" /\ f.status = "closed"
            /\ f.prefix = e.prefix /\ f.incomplete = e.incomplete
    <2>1. Landing!Left(b) = {}
        BY <1>6, <1>7, <1>14
    <2>2. phaseBar[b] = "owner" /\ creditedBar' = creditedBar /\ droppedBar' = droppedBar
        BY <1>2, <1>3, <1>4, <1>8, <1>14 DEF Live
    <2>3. phaseBar' = [phaseBar EXCEPT ![b] =
                            IF droppedBar[b] = {} THEN "landed" ELSE "incomplete"]
        BY <1>2, <1>3, <1>5, <1>14
    <2>4. Landing!Finish(b)
        BY <2>1, <2>2, <2>3 DEF Landing!Finish, phaseBar, creditedBar, droppedBar
    <2> QED BY <2>4 DEF Landing!LandingNext
<1> QED BY <1>9, <1>10, <1>11, <1>12, <1>13, <1>14 DEF EpochMove, e

(***************************************************************************)
(* Integration epochs implement BatchLanding, for any number of batches    *)
(* and lanes: what open_or_validate, arm, advance, release, seal and close *)
(* do to the tables, in whatever order crashes, retries, reports and       *)
(* pushes leave them, is a batch taking, serving and giving back the       *)
(* target.                                                                 *)
(***************************************************************************)
THEOREM EpochsImplementLanding == Spec => LandsBatches
<1>1. Init => Landing!LandingInit
    <2> SUFFICES ASSUME Init PROVE Landing!LandingInit
        OBVIOUS
    <2>1. \A b \in Batch : epoch[b] = NoEpoch
        BY DEF Init
    <2>2. NoEpoch.status = "none" /\ NoEpoch.prefix = {} /\ NoEpoch.incomplete = {}
        BY DEF NoEpoch
    <2>3. \A b \in Batch : Phase(b) = "waiting" /\ epoch[b].prefix = {} /\ epoch[b].incomplete = {}
        BY <2>1, <2>2 DEF Phase, Live
    <2> QED BY <2>3 DEF Landing!LandingInit
<1>2. IInv /\ [Next]_vars => [Landing!LandingNext]_(Landing!landingVars)
    <2> SUFFICES ASSUME IInv, [Next]_vars PROVE [Landing!LandingNext]_(Landing!landingVars)
        OBVIOUS
    <2>1. IInv'
        BY NextInvariant
    <2>2. CASE UNCHANGED epoch
        BY <2>2, StutterMove
    <2>3. CASE \E b \in Batch : \E f : epoch' = [epoch EXCEPT ![b] = f] /\ EpochMove(b, f)
        BY <2>1, <2>3, MoveRefines
    <2> QED BY <2>2, <2>3, EpochMoves
<1> QED BY <1>1, <1>2, InvariantHolds, PTL DEF Spec, LandsBatches, Landing!LandingSpec
=============================================================================
