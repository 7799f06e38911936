# Aming Claw: a verification project

Aming Claw is a local governance layer for AI-coded development. Agents do not
act on their own memory: a governance service hands out tasks, checks evidence
and drives the next step, and a host-side service owns the processes in which
agents run. This directory holds TLA+ modules of the parts of that system where
several actors share state, the TLC configurations that check them on small
instances, and proofs of their main invariants for every size.

`PROJECT.json` lists components, runs, mutants, the map from definitions to
source lines, findings, hazards and theorems. Paths below are relative to
`src/`.

## Inventory

### Governance service (`agent/governance/`)

One process, a threading HTTP server, one SQLite database per project opened
with a connection per request. Python's `sqlite3` default mode is used: a
SELECT outside a transaction reads the committed state and takes no lock, the
first write statement begins the transaction.

| Part | State | Operations | Works with |
| --- | --- | --- | --- |
| Task registry (`task_registry.py`) | `tasks`, `task_attempts`, `project_version.observer_mode` | create, claim, complete, hold, release, cancel, progress, notify, recover | executors over HTTP, auto chain, gateway |
| Auto chain (`auto_chain.py`, `chain_context.py`) | task rows, chain context | dispatch of a finished task to its next stage, gates, retries, corrective chains | called at the end of `complete_task` |
| Outbox (`outbox.py`, `redis_client.py`, `event_bus.py`) | `outbox` rows | write with the transaction, deliver, retry, dead letter | Redis, worker thread |
| Deferred queue and reconcile session (`reconcile_deferred_queue.py`, `reconcile_session.py`) | queue rows, the session row | enqueue, lease, defer, terminal states; start, finalise, roll back | reconcile phases |
| Parallel branches (`parallel_branch_runtime.py`, handlers in `server.py`) | branch contexts with fences and leases, merge queue rows, integration epochs | allocate, join, checkpoint, finish gate, recover, materialize, execute, report, release, seal, re-anchor, reconcile | git, workers, operators |
| Managed refs (`managed_ref_runtime.py`) | ref policies and records | register, record updates | git |
| Contract runtime (`contracts/runtime.py`, `contract_state_runtime.py`, `mf_subagent_contract.py`) | contract executions as event logs | the lines of a contract | server, timeline |
| Observer sessions (`observer_session.py`) | sessions, their command queue | claim, notify, complete | MCP clients |
| Batch jobs (`batch_jobs.py`) | job rows with leases | create, claim, complete, fail | workers |
| Timeline, gates, state service (`task_timeline.py`, `contracts/write_gate.py`, `state_service.py`, `precheck_service.py`) | evidence rows | append, evaluate | all of the above |
| Graph (`graph_snapshot_store.py`, `state_reconcile.py`, `reconcile_phases/`) | snapshots of a code graph | build, activate, query | dashboard |
| Read cache (`dashboard_read_cache.py`) | in-memory entries | get, refresh, invalidate | server threads |

### Host-side agent service (`agent/cli_agent_service/`)

A daemon behind a Unix socket, kept alive by launchd, with a private SQLite
registry.

| Part | State | Operations | Works with |
| --- | --- | --- | --- |
| Registry (`registry.py`, `db.py`) | profiles and their availability, runs, leases | register, reserve, renew, release, record start and exit, signal, reconcile | every other part |
| Scheduler (`scheduler.py`) | none | evaluate profiles, reserve one | registry |
| Supervisor (`supervisor.py`) | active runs, monitor threads | start, monitor, cancel, reconcile at restart | registry, OS processes |
| Service (`service.py`) | socket, stop event | admit a governed run, stop, profile and desktop operations | scheduler, supervisor |
| Profiles, certification, envelopes (`profile_control.py`, `certification.py`, `launchers.py`) | files, in-memory envelopes | validation, staging | service |
| Guided runtime (`guided_runtime.py`) | none | a walk through governance calls | governance HTTP API |

### Executors, gateways, tools

`agent/executor_worker.py` and `agent/mcp/executor.py` poll the task registry,
run an AI process and report. `agent/telegram_gateway/` reports notifications.
`agent/service_manager.py`, `agent/deploy_chain.py`,
`agent/manager_http_server.py` and `agent/workspace_queue.py` restart services
and keep small file-backed queues. `agent/mcp/tools.py`, `agent/cli.py`,
`dbservice/` and `frontend/dashboard/` are translation, I/O and user interface.

### What is hard

- *Reads outside the lock.* `complete_task`, `recover_stale_tasks`,
  `reconcile_runs` and `record_profile_signal` read rows, decide, and write
  later without looking again.
- *Unreliable callers.* An executor repeats a completion that timed out; the
  first copy may arrive after the task was recovered and claimed again.
- *Crashes between two steps.* Commit and dispatch of a completion; spawn of a
  process and the record of its pid; exit of a process and its record.
- *Clocks.* A transaction judges leases by a time it read before it waited for
  the write lock.
- *Git beside the database.* A merge moves a ref that no transaction covers;
  the process may die, git may fail and somebody may push at any point around it.
- *Checks before the lock.* `materialize` and `allocate` look at the active
  epoch, then wait for the write lock and do not look again.
- *Two daemons.* A health request that is answered too late makes a second
  daemon take over while the first still has a request under way.

What correctness means for the parts modelled so far: a claim is closed only by
its holder, an observer or recovery; the two status columns agree;
a profile's capacity is respected; only a run under way
holds capacity; a result stays; a ticket has one live process; no run is left
over by a daemon that died; an exit is noticed; one batch owns the target ref; lanes land in queue order; credit is
backed by git and no landing is forgotten; what was given up stays given up. `PROJECT.json` lists the hazards line by line with the properties that
cover them.

## Modules

| Module | Models | Role |
| --- | --- | --- |
| `TaskRegistry` | task registry and its HTTP callers | component |
| `MCTaskRegistry` | | instance for TLC |
| `TaskRegistryProofs` | | theorems |
| `AgentRegistry` | registry of the agent service | component |
| `MCAgentRegistry` | | instance for TLC |
| `AgentRegistryProofs` | | theorems |
| `AgentService` | daemon, scheduler and supervisor on top of the registry | composition: `EXTENDS AgentRegistry` |
| `TicketAttempts` | what the service promises for a ticket | abstract specification |
| `MCAgentService` | | instance for TLC |
| `AgentServiceProofs` | | theorems |
| `BranchContext` | a worker's branch context, its fence and its lease | component |
| `MergeQueue` | merge queue, integration epochs, `execute_merge_queue_item`, git | composition: `EXTENDS BranchContext` |
| `BatchLanding` | what integration epochs promise | abstract specification |
| `MCMergeQueue` | | instance for TLC |
| `MergeQueueProofs` | | theorems |

Operators marked "Seeded fault" stand before the definition they are a broken
version of. No specification uses them; a mutant run puts one in place of that
definition and expects the property named with it to fail.

### TaskRegistry

`task` is the `tasks` table. A row keeps `status`, `execution_status`,
`notification_status`, `assigned_to`, `attempt_count`; `fence` stands for
`metadata.fence_token` (tokens are unique, so the number of the claim that drew
one names it), `lease` and `pid` for what `lease_expires_at` and `worker_pid`
say now, `result` for `result_json` and `completed_at`. `attempts[t][n]` is a
row of `task_attempts`, with two history fields that say who closed it.
`created` is the order of `created_at`. `req` is the set of calls of
`complete_task` under way, `rec` the call of `recover_stale_tasks`,
`creating[t]` the initial status that a call of `create_task` has read.

An action is one transaction. `claim_task`, `hold_task`, `release_task`, `cancel_task`, `mark_notified`, `update_progress` and
`set_observer_mode` are one action each. `create_task` reads the observer mode
before it takes the write lock: `create_task_read`, `create_task_insert`.
`complete_task` is `complete_task_read` (everything up to its first write; its
checks read the row in autocommit mode) and `complete_task_write`.
`recover_stale_tasks` is split at its two SELECTs and two rounds of updates.
`ServiceCrash` loses the calls under way; `WorkerDies` and `LeaseExpires` are
the environment.

Requests are sent by the claimant of any attempt made so far, with its fence
(`mcp/executor.py`) or without (`executor_worker.py`), or by an observer: this
covers delay, repetition and reordering.

Left out: prompts, timestamps, timeline, audit and the best-effort mirror in
the backlog, which nothing in the registry reads; the call of `auto_chain` after
the commit of a completion, and its replay for a terminal task: it changes other
tasks through `create_task` only; the fan-in of parallel tasks;
`escalate_task`, which no code but tests calls; requests that end in an error.

### AgentRegistry

`profile` joins `agent_profiles` and `agent_profile_states`, `run` is
`agent_runs`, `lease[r]` the active lease of a run (an index allows one; a
lease that is over is never read again). `scan[c]` holds what a call of
`reconcile_runs` has read and not yet written, `signal[c]` the call of
`record_profile_signal` between its two transactions.

Time is what a comparison can tell: a lease has lapsed, a deadline has passed.
Each operation reads the clock before `BEGIN IMMEDIATE` waits for the lock, so
a transaction picks a *view*: a set `L` of lapsed leases and `E` of elapsed
deadlines that its clock shows, any subset of the real ones. An operation that
raises rolls back, which is a stuttering step.

`_profile_state_snapshot_tx` is the self-healing that every operation applies to
the profile it touches, and it is part of each action. `reconcile_runs` is
`ReconcileRead` followed by one `ReconcileRow` per row in any order, as other
callers' steps can come between any two of them.

### AgentService

A daemon is one incarnation with an `owner_id` of its own. `daemon[d]` says
where its main thread is: starting (`scan`, `rows`), idle, or in one request
(`evaluate` .. `fail`, the steps of `_admit_governed_host_envelope_run`,
`schedule_run` and `start_run` between two changes of shared state), and whether
it was told to stop. `proc[r]` is the process of a run, which lives in a session
of its own and survives the daemon; `monitor[r]` its monitor thread. Run
`<<t, 0>>` is the canonical run of ticket `t`, `<<t, k>>` its k-th retry.

The registry's variables change only through the actions of `AgentRegistry`: the
service is a composition with it. At a restart `ScanRuns` reads the rows, then
each is probed (`ProbeRun`) and written (`ReconcileRun`) in two steps, between
which the process may end and other threads may write. Seen from a ticket, the service implements `TicketAttempts`:
its runs are attempts made in turn. An attempt is *open* while its run is not
registered, *held* while the daemon that reserved it may still spawn (`Standing`
is the refinement mapping), then *alive*, and *over* for good.

Two constants choose the environment. `Overlap`: whether a daemon may be started
while another is alive. Under launchd it is not, but `serve_forever` defends
itself only with a health request that a busy daemon fails to answer within
0.2 s, so a manual start can. `ProbeFaults`: whether reading the identity of a
live process may fail, as `process_start_identity` allows.

Simplifications: the profiles a request may use are any of the eligible ones in
any order; the lookups of one admission are one step (what they read is stale
anyway by the time the run is reserved); all profiles are evaluated in one
step; SIGKILL works; a transaction of a living daemon succeeds.

### BranchContext

`ctx[i]` is the row of lane `i` in `parallel_branch_runtime_contexts`: its
status, the raw `fence_token`, the stored verifier of a fence, whether its last
checkpoint is that of a passed finish gate, and where its lease stands. A fence
token is the number of its minting, `issued[i]` the newest one, `tip[i]` the
revision the lane's branch points to. `Accepted` is the precedence of
`runtime_context_fence_token_verifier`: a verifier beats a raw fence.

One action per handler: `Allocate`, `InitialJoin` (the raw fence goes to the
worker, the verifier stays), `Rejoin` (a new fence, or the lane sent back after
a failed QA), `record_mf_subagent_startup`, `record_branch_checkpoint`,
`record_branch_finish_gate`, `recover_expired_branch_contexts`; the worker's
commits and the clock are the environment. A lane begins as allocated, as
finished, or (`Unallocated`) as only planned; `Worker` are the lanes whose worker
is still at work. Statuses no modelled operation writes or tells apart
(`merge_ready`, `validating`, ...) are left out, and so are session tokens,
contract revisions and access audits.

### MergeQueue

`row[i]` is the queue item of lane `i`, `epoch[b]` the integration epoch of
batch `b`, `target` the sequence of what was added to the target ref: a head is
a position in it, `Contained` is `git merge-base --is-ancestor`. `rev` in a row
and `credit` in an epoch name the revision that landed; the code does not store
them, and only properties read them.

All handlers write under the process-wide write lock, so a handler is one
action with two exceptions. `execute_merge_queue_item` holds the lock while it
runs git, which shares the ref with the rest of the world: `Arm` (checks, gate,
the epoch opened if need be, armed and committed), `GitMerge` or `GitFails`,
`RecordLanding` or `Misaligned`; `ExecuteIntegrated` is the path on which the
branch is in the target already. `exec` is the call under way. `allocate` and
`materialize` check the active epoch before they take the lock: `AllocateCheck`
/ `AllocateWrite`, `MaterializeCheck` / `Materialize`, with the request in
`pending` between them. `record_merge_queue_graph_epoch_after_reconcile` marks
and closes in one transaction: `Reconciled(b, p)`, for a reconcile of any head
the target ever had. `Crash` loses `exec` and `pending` and keeps what was
committed. `Push` is what others do to the target.

`ReportMerged` takes the operator at his word only for merges that exist: that
a report is true is an assumption, and `CreditIsLanded` depends on it.

Left out: evidence payloads and graph snapshots (a gate that fails for lack of
evidence only refuses), the validated target head (the server refreshes it),
recovered QA candidates and the post-merge recovery route of `materialize`,
backlog rows, `standalone-` batches, release replays and rollovers, batch
rollback. `FinishGateRoute` and `Revision` name only those of the code's statuses
that a modelled operation writes. No operation writes the
status `merging`, and a recorded failure leaves `target_head_after_merge` equal
to the head before, which the code takes for no evidence, so `PossiblyLanded`
needs neither. The authority check of `record_merge_queue_result` compares a worker's
fence; an operator's report that names both heads passes it without one, and
`ReportMerged` and `ReportFailed` are that operator's.

`BatchLanding` says the same with none of it: a batch takes the target with a
prefix of its queue, credits its lanes one by one in order, may drop the last
one, and gives the target back for good. The refinement mapping reads the phase
of a batch from its epoch's status (an epoch in doubt still owns the target),
the credited lanes from `prefix`, the dropped ones from `incomplete`.

## Runs

| Run | Bounds | Shows |
| --- | --- | --- |
| `task_races` | 1 task, 2 executors, 1 request thread, 2 claims, 1 service crash | attempts, fences, ownership, agreement of the status columns under every interleaving of claim, completion, recovery, cancel, hold, and a crash |
| `task_recovery` | 1 task, 1 executor, 2 claims, 1 service crash | liveness: recovery frees a task of a dead executor |
| `task_cancel` | 1 task | finding: a completion overwrites a cancellation |
| `registry_capacity` | 2 runs, 1 profile with 1 slot, 2 clients, 1 of them reconciling | capacity and ownership of leases |
| `registry_signals` | 2 runs, 1 profile, 2 clients signalling | no lease on an unavailable profile |
| `service_restart` | 1 ticket with 1 retry, 3 daemons in turn, 2 crashes | results stay, completed tickets stay closed, no run is left over by a daemon that died |
| `service_overlap` | 1 ticket with 1 retry, 2 daemons at once, 1 crash | over means dead, one process per ticket, refinement of `TicketAttempts` |
| `service_notice` | 2 tickets, 1 slot, 2 daemons in turn | liveness: exits are recorded, admissions settle |
| `merge_landing` | batches of 2 and 1 lanes, no worker at work, 1 push, 1 request in flight | one owner, queue order, frozen target, final states, refinement of `BatchLanding` |
| `merge_lane` | 1 lane with its worker, 2 revisions, 2 fences, 1 push | credit backed by git, no landing forgotten; liveness: doubts about landed branches are settled, landed batches are closed |
| `merge_in_doubt` | as `merge_lane`, nobody else pushes | finding: retrying does not resolve a doubt |
| `branch_reclaim` | 1 lane with its worker | finding: the old worker of a reclaimed lane is still heard |

*Why the bounds are enough.* The races of `TaskRegistry` are between one
request and the claims around it: two claims give an old and a new holder, two
executors tell "same worker" from "other worker"; two completions inside the
server at once are left to the theorems. Tasks share nothing but the claim order and the rows one
recovery selects, so one task is checked. For the registry, two runs and one
slot are the smallest competition, and one reconciling client against another
client gives every stale write. For the service, a retry is needed for a second
process; two crashes let the daemon that repairs a crash crash itself. For the merge
queue, two batches are needed for a competition and two lanes in one of them for
an order; a worker's revisions and fences concern one lane only, so they are
checked on one lane, where the second revision gives a branch that moves on
after its candidate was fixed or landed. One push is enough to make every head
stale once, and one request in flight to be overtaken by anything. The theorems
lift the safety results to every size.

*Names of the bounds.* `MaxClaims`, `MaxCrashes`, `MaxSignals`, `Slot` and the
number of daemons are bounds; `MaxAttempts` is a column or ticket field.
`MaxRev`, `MaxToken`, `MaxExternal` and `MaxPending` bound revisions, fences,
pushes and requests in flight; `OffBatch` and `ByHand` choose the lanes for
which standalone flows, and hand merges and reports, are explored.
`Replaceable` keeps the last daemon alive.

*Symmetry.* Executors, runs, clients and daemons are permuted only in runs without liveness properties.

*Deadlock.* The service and merge runs allow the system to stop: when every
ticket is used up, or every batch is finished, there is nothing left to do.

*Fairness.* `TaskRegistry`: the executor's loop asks for recovery in every
twelfth poll (`executor_worker.py:3228`), and the server finishes calls it has begun; nothing
obliges an executor to claim or complete. `AgentService`: the daemon's main
thread and its monitors keep running, and the launchd job has `KeepAlive`
(`scripts/install-cli-agent-service-macos.sh:61`), so a daemon follows one that
ended. A process need not exit, a lease need not lapse, nobody need ask for a
run. `MergeQueue`: the caller of a batch repeats its merge and reconciles the
current head, which is what the epoch's `next_legal_action` tells him to do
(`parallel_branch_runtime.py:11917`), and a call that holds the lock goes on.
Nobody is obliged to repair, to merge by hand, to release or to report.

## Findings

- `task_cancel`: `complete_task` checks the row before it holds the lock and
  then updates it unconditionally; a cancellation in between is lost.
- `merge_in_doubt`: only an open epoch can be armed. A crash or a failed merge
  after arming leaves an epoch in doubt whose batch merge is refused from then
  on, while a release, too, asks to resolve the doubt first. It ends only when the branch
  gets into the target some other way.
- `branch_reclaim`: recovery of an expired lane rotates the raw fence, but the
  verifier stored when the worker joined keeps precedence, so the old worker is
  still accepted and a new one would not be.

## Limits of what holds

The models also show where a property stops holding. No run repeats these, the
constants that bring them about are in the modules:

- `ProbeFaults = TRUE`: a failure to read a process's identity counts as its
  absence (`cli_agent_service/registry.py:248`), so a surviving process's run is
  called lost and a successor is spawned beside it. `OneProcessPerTicket` and
  `CompletedClosesTicket` need probes that answer.
- `Overlap = TRUE`: `reconcile_runs` writes rows with no condition on their
  state (`registry.py:1083`), so the result recorded meanwhile by another daemon
  is overwritten. `ResultRetained` and `CompletedClosesTicket` need daemons in turn, and
  so does `RunsAttended`, which speaks of the one daemon that serves.
- `MaxCrashes > 0`: a process that survived a daemon crash is called live and
  watched by nobody (`registry.py:1069`). `ExitNoticed` needs a daemon that
  stops in order.
- `complete_task` writes back the notification status it read
  (`task_registry.py:614`), so "sent" can become "pending" again.
- `complete_task` writes the task row with no condition (`task_registry.py:613`).
  A completion that passed its checks, fenced or not, and is overtaken by
  recovery and a new claim closes only its own attempt, but its status replaces
  that of the newer claim in the row: the new holder's task looks finished or
  queued. `CompletionByClaimant` and `FencedCompletion` speak of attempts only.
- The hand-over of a success to `auto_chain` may be lost. It happens after the
  commit; a crash before it, an exception or exhausted lock retries inside it
  (`task_registry.py:869`) leave a finished task without its next stage, and a
  repeated completion is refused as already terminal. Only a call with
  `replay_auto_chain` repairs it, while `docs/governance/auto-chain.md:21` says
  the next stage's task is created automatically. The call is not modelled.
- git merges a branch by name (`parallel_branch_runtime.py:27226`), so what
  lands need not be the candidate fixed by the materialization, only the credit
  says what landed.

## Proofs

`TaskRegistryProofs`: for any sets of tasks, executors and threads and any
bounds. Assumptions: the actors are distinct, chat tasks are tasks, priorities
and bounds are natural numbers. The inductive invariant `IInv` joins `TypeOK`,
`ClaimsTracked`, `HistoryInv`, `ActiveTaskIsHeld`, `FinishedRowsAgree` and `RequestDecided`. The properties are not inductive alone, because a completion in flight carries columns it read: `ClaimsTracked`
says that what it carries names a claim that was really its sender's, and
`RequestDecided` that its outcome and the status it will write fit together.
`Frame` covers the actions that open no attempt, then there is one lemma per
action that does more: `ClaimStep`, `ReadStep`, `WriteStep`, `RequeueStep`,
`CancelStep`. From `Invariance` follow `RunningAttemptIsNewest`,
`ActiveTasksHeld`, `ClaimsAreTracked`, `ClaimantCompletes`, `FenceHolds`,
`RowsAgree`, and the action property `HistoryIsAppendOnly`.

`AgentRegistryProofs`: for any finite set of runs, any profiles, clients and
capacities. Assumptions: `Run` is finite, every capacity is a positive number,
reconciling clients are clients, signals ask for states of a profile. `IInv`
joins the type invariant, the bound of a signal under way, "a registered run
has a profile", "a scanned run exists", `LeaseBelongsToOpenRun` and
`CapacityRespected`. Capacity is not inductive alone: a lease of a run that is
registered again under another profile would count for another profile;
`LeaseBelongsToOpenRun` excludes it. The step that adds a lease is the only one that can raise
the count, and it counts with a view: the lapsed leases of the view are ended
by the same transaction, so the count it compares is the count of what stays.

`MergeQueueProofs`: for any sets of batches and lanes, any assignment and order
of queues, any dependencies and bounds. Assumptions: every lane has a batch and
a position that no other lane of the batch has, the lanes of the bounds are
lanes, `"none"` names neither. `IInv` joins `TypeOK`, `OneActiveEpoch`,
`ExecSound`, `TargetSound` and, for each batch, `EpochOK(b, epoch[b])`. None of
the properties is inductive alone. A landing is credited only when the call that
made it returns: `ExecSound` says that until then an armed batch merge is the
doubt of its own epoch, that every active epoch has its lane at the cursor, and
that what it merged is where it says. An epoch may open with lanes merged
before: `TargetSound` says that merged rows name a revision that is in the
target. `EpochOK` is stated for a record rather than a variable, so that the
lemmas about opening (`EnteredEpoch`), advancing (`AdvanceSound`), arming,
releasing and closing speak of the record an action writes, and `EpochStep`
puts it into the table. `Frame` covers the actions that leave epochs and target
alone, `AppendStep` those that add to the target.

From `InvariantHolds` follow `TypeCorrect`, `OneOwner`, `CursorHolds`,
`CreditBacked` and `NothingForgotten`. `TargetMoves`, `RowMoves` and
`EpochMoves` classify what a step may do to one table; from them follow the
action properties `TargetIsFrozen` and `TerminalIsFinal`, and the refinement
`EpochsImplementLanding`: `EpochMove` lists the six ways in which a step changes
an epoch, and `MoveRefines` maps each to a step or a stutter of `BatchLanding`.

`AgentServiceProofs`: for any finite set of tickets, any number of retries,
profiles, daemons and crashes. Assumptions: the runs are the tickets' attempts,
every daemon reconciles, nobody signals. `RegistryStep` shows that every step of
the service is a step of the registry or leaves its tables alone, as the
composition intends; with it the registry's `IInv` holds of the service, and
`ServiceRespectsCapacity` needs no argument of its own.

The other results speak of the few things the processes depend on. `Effect`
lists what a step may do to daemons, rows, scans, processes and monitors, one
disjunct per kind of step, and one lemma per action shows that it has its effect
(`NextEffect`); the invariants are then proved about effects. The others rest on
`OwnerInv` and on a friendlier environment:

- `OwnerInv`, in every environment. A run has at most one owner, the daemon that
  reserved it and has not handed it to a monitor (`OneOwner`); until its start is
  recorded it is not over, and no scan can say that it is (`StartPending`);
  whoever is about to record its end knows it is dead (`ReportedIsDead`); what a
  probe found belongs to a row still to be written (`Probed`).
- `DeadInv`, without probe faults, daemons overlapping or not. `OverIsDead` is
  not inductive, because `reconcile_runs` writes back what it read, and what
  it found out, earlier: `ScannedResultIsDead`, `ProbedIsDead`. `OneProcessPerTicket` is
  not, because an admission acts on states read earlier: `EarlierSettled` says
  that once a run is asked for, the runs before it are dead and have nobody left
  who could start them.
- `SoloInv`, without overlap, probes reliable or not. One daemon is alive and all
  monitors are its own (`OneDaemon`), so what it scanned is still what the table
  holds (`ScanCurrent`), and nobody is left to write to a run that is over
  (`OverIsReleased`).
- `RetryInv`, without overlap and probe faults: the runs before a requested one
  have failed or are lost (`EarlierFailed`), and no probe under way can make a
  lost one live again (`LostUnmatched`).
- `AttendInv`, without overlap. `RunsAttended` is not inductive, because it says
  nothing of a daemon that still reconciles: `LeftOverScanned` says that what its
  predecessors left leased or running is among the rows it has still to write.
  `StartLeased` is needed because a start that fails without a lease of its own
  is answered and records nothing.

From `DeadInv` follow `OverMeansDead`, `NoDuplicateSpawn` and the refinement
`ServiceImplementsAttempts`: `EffectOnAttempts` shows that a step moves at most
one run, and that a run is reserved only after those before it are settled,
which is the abstract "over". From `SoloInv` follows `ResultsAreRetained`, from
`RetryInv` `CompletionClosesTicket`, from `AttendInv` `NoRunLeftOver`. The
hypotheses `~ProbeFaults` and `~Overlap` are those of the section above: TLC refutes the properties without them, and where a
theorem does not name one it holds with the fault too. `ResultsAreRetained` and
`NoRunLeftOver` are proved for probes that may fail, beyond what the runs check.

Only model-checked: the liveness properties `StuckTaskRecovered`, `ExitNoticed`,
`AdmissionSettles`, `DoubtSettles` and `ReconcileCloses`. Liveness under fairness
and `ENABLED` are out of the proof system's reach, and so are induction over
data and RECURSIVE operators; the modules use neither of the last two. Every
invariant, action property and refinement that a run checks is also a theorem,
and each theorem with a property names the statement its run checks.

## Not modelled

`PROJECT.json` gives the reason for every component. In short: evaluation of
documents (contract definitions, gates, timelines) is data rather than control;
graph construction is sequential analysis; HTTP, MCP, command line, dashboard
and gateway code translates and transports.

The map covers a small share of the repository's half a million lines. Two
fifths of them are one file, `server.py`, nearly all of it route handlers that
authorise, validate and format; most of the rest builds and compares JSON
documents. Of `parallel_branch_runtime.py` the modelled operations are those
that write the three tables; the greater part computes evidence, plans and
reports from them. The models stand for the code in which several actors change
shared state, and that code is a small part of the lines.

## Plan

Done: `TaskRegistry`, `AgentRegistry`, `AgentService`, `BranchContext`,
`MergeQueue`, `BatchLanding`, `TicketAttempts`, and the proofs of their safety.

1. `Outbox`: rows written with their transaction, delivery thread, retries and
   dead letter, Redis going away; abstract specification "at least once".
2. `DeferredQueue` and `ReconcileSession`: leases, deferral, terminal states;
   the session excludes and a finished session leaves no half state.
3. `AutoChain` on top of `TaskRegistry`: stages, gates, retries, corrective
   chains; a chain makes progress or stops with a reason.
4. Batch runtimes and rollback of `parallel_branch_runtime.py`, on top of
   `MergeQueue`; `managed_ref_runtime.py` as its ref update.
5. `BatchJobs`, `ObserverCommands`, `DashboardCache`, `WorkspaceQueue`: smaller
   queues with leases, threads and files.
6. Proofs: an abstract specification of the attempt log of `TaskRegistry` (one
   open attempt, closed once, by its claimant or by recovery) and its refinement,
   which joins the history theorems into one statement.
