---------------------------- MODULE TaskRegistry ----------------------------
(***************************************************************************)
(* The task registry of the governance service                             *)
(* (src/agent/governance/task_registry.py and the task routes of           *)
(* src/agent/governance/server.py): tasks in one SQLite table, the history *)
(* of their attempts in another, and request handlers that run in          *)
(* parallel threads, each with its own connection.                         *)
(*                                                                         *)
(* A handler is one action when all it does lies in one write transaction. *)
(* create_task, complete_task and recover_stale_tasks read first, in       *)
(* autocommit mode, and write later, so each is one action per transaction *)
(* and what it read is kept in between (creating, req, rec).               *)
(*                                                                         *)
(* Executors may crash, and their HTTP calls may be delayed, repeated or   *)
(* time out: the server can meet, at any time, a completion sent by the    *)
(* claimant of any attempt made so far.                                    *)
(*                                                                         *)
(* Left out: prompts, timestamps, the timeline and audit records and the   *)
(* best-effort mirror of a task's status in its backlog row (nothing in    *)
(* the registry reads them), requests that end in an error without a write *)
(* (they would be stuttering steps), and the best-effort call of           *)
(* auto_chain after the commit of a completion, whose successor tasks are  *)
(* created by create_task like any other.                                  *)
(***************************************************************************)
EXTENDS Naturals, FiniteSets, Sequences

CONSTANTS
    Task,         \* the task ids
    Worker,       \* the principals of executor sessions
    Observer,     \* a principal whose id starts with "observer"
    System,       \* who closes an attempt when no completion request does
    Slot,         \* the server threads that may be inside complete_task
    ChatTask,     \* the tasks created with a chat_id in their metadata
    Priority,     \* the priority column
    MaxAttempts,  \* the max_attempts column
    MaxClaims,    \* bound: claims of one task
    MaxCrashes    \* bound: crashes of the governance service

ASSUME ActorAssumption == Observer \notin Worker /\ System \notin Worker /\ Observer # System
ASSUME ChatAssumption == ChatTask \subseteq Task
ASSUME PriorityAssumption == Priority \in [Task -> Nat]
ASSUME BoundAssumption == MaxAttempts \in Nat /\ MaxClaims \in Nat /\ MaxCrashes \in Nat

VARIABLES
    task,          \* the tasks table: one row per task id
    created,       \* the order of the created_at column
    attempts,      \* the task_attempts table: attempts[t][n] is attempt n of t
    observerMode,  \* project_version.observer_mode
    creating,      \* creating[t]: the initial status that the call creating t has read
    req,           \* the calls of complete_task under way
    rec,           \* the call of recover_stale_tasks under way
    crashes        \* crashes of the governance service so far

vars == <<task, created, attempts, observerMode, creating, req, rec, crashes>>

Actor == Worker \cup {Observer}
TERMINAL_STATUSES == {"succeeded", "failed", "cancelled", "timed_out", "design_mismatch"}
Outcome == {"succeeded", "failed", "timed_out"}
Status == TERMINAL_STATUSES \cup {"absent", "queued", "observer_hold", "claimed", "running"}
Attempt == 1..MaxClaims

(***************************************************************************)
(* A row of the tasks table. fence stands for metadata.fence_token: tokens *)
(* are unique, so the number of the claim that drew it names it; 0 is      *)
(* none. lease and pid say of lease_expires_at whether it has passed and   *)
(* of worker_pid whether that process still runs. result stands for        *)
(* result_json and completed_at, which every statement sets or clears      *)
(* together.                                                               *)
(***************************************************************************)
Row == [status : Status, execution_status : Status, notification_status : {"none", "pending", "sent"},
        assigned_to : Worker \cup {System}, attempt_count : 0..MaxClaims, fence : 0..MaxClaims,
        lease : {"none", "live", "expired"}, pid : {"none", "live", "dead"},
        result : {"none", "reported", "cancelled"}]

(***************************************************************************)
(* A row of task_attempts. closed_by and token are history: who closed the *)
(* attempt, and with which fence (0: none was supplied).                   *)
(***************************************************************************)
AttemptRow == [by : Worker \cup {System}, status : Outcome \cup {"none", "running", "cancelled"},
               closed_by : Actor \cup {System}, token : 0..MaxClaims]

(***************************************************************************)
(* What one call of complete_task carries from its read to its writes:     *)
(* the columns it read, and what it decided from them.                     *)
(***************************************************************************)
Request == [slot : Slot, task : Task, by : Actor, token : 0..MaxClaims,
            outcome : Outcome, attempt_count : 0..MaxClaims,
            exec_status : Outcome \cup {"queued", "observer_hold"},
            notify_status : {"none", "pending", "sent"}]

Recovery == [phase : {"idle", "lease", "pid"}, rows : SUBSET Task]

AbsentRow == [status |-> "absent", execution_status |-> "absent", notification_status |-> "none",
              assigned_to |-> System, attempt_count |-> 0, fence |-> 0, lease |-> "none",
              pid |-> "none", result |-> "none"]
NoAttempt == [by |-> System, status |-> "none", closed_by |-> System, token |-> 0]
NoRecovery == [phase |-> "idle", rows |-> {}]

Init ==
    /\ task = [t \in Task |-> AbsentRow]
    /\ created = <<>>
    /\ attempts = [t \in Task |-> [n \in Attempt |-> NoAttempt]]
    /\ observerMode = FALSE
    /\ creating = [t \in Task |-> "none"]
    /\ req = {}
    /\ rec = NoRecovery
    /\ crashes = 0

Exists(t) == task[t].status # "absent"
Active(t) == task[t].execution_status \in {"claimed", "running"}
RunningAttempts(t) == {n \in Attempt : attempts[t][n].status = "running"}

\* Both status columns of a row at once.
SetStatus(row, s) == [row EXCEPT !.status = s, !.execution_status = s]

\* Seeded fault: attempts left open by an earlier claim stay open.
CloseNothing(t, s) == attempts[t]

\* The rows of the attempt history of t after its running attempts are closed with status s.
CloseRunning(t, s) ==
    [n \in Attempt |-> IF attempts[t][n].status = "running"
                       THEN [attempts[t][n] EXCEPT !.status = s]
                       ELSE attempts[t][n]]

-----------------------------------------------------------------------------
\* Seeded fault: the wrong one of the registry's pause statuses.
InitialStatusWaiting == IF observerMode THEN "waiting_human" ELSE "queued"

InitialStatus == IF observerMode THEN "observer_hold" ELSE "queued"

\* The observer mode is read before the write lock, and the row inserted under it.
create_task_read(t) ==
    /\ ~Exists(t) /\ creating[t] = "none"
    /\ creating' = [creating EXCEPT ![t] = InitialStatus]
    /\ UNCHANGED <<task, created, attempts, observerMode, req, rec, crashes>>

create_task_insert(t) ==
    /\ creating[t] # "none" /\ ~Exists(t)
    /\ task' = [task EXCEPT ![t] = [SetStatus(@, creating[t]) EXCEPT
                        !.notification_status = IF t \in ChatTask THEN "pending" ELSE "none"]]
    /\ created' = Append(created, t)
    /\ creating' = [creating EXCEPT ![t] = "none"]
    /\ UNCHANGED <<attempts, observerMode, req, rec, crashes>>

\* Task a precedes task b in ORDER BY priority DESC, created_at ASC.
Before(a, b) ==
    \/ Priority[a] > Priority[b]
    \/ /\ Priority[a] = Priority[b]
       /\ \E i, j \in DOMAIN created : i < j /\ created[i] = a /\ created[j] = b

Claimable(t) ==
    /\ task[t].execution_status = "queued"
    /\ \A u \in Task \ {t} : task[u].execution_status = "queued" => ~Before(u, t)

\* Seeded fault: a re-claim that keeps the fence token of the earlier claim.
ClaimedRowOldFence(row, w, n) ==
    [row EXCEPT !.status = "claimed", !.execution_status = "claimed", !.assigned_to = w,
                !.attempt_count = n, !.fence = IF @ = 0 THEN n ELSE @, !.lease = "live",
                !.pid = "live", !.result = "none"]

\* The row after claim n, by w: new owner, fence and lease, terminal fields cleared.
ClaimedRow(row, w, n) ==
    [row EXCEPT !.status = "claimed", !.execution_status = "claimed", !.assigned_to = w,
                !.attempt_count = n, !.fence = n, !.lease = "live", !.pid = "live", !.result = "none"]

\* One transaction under the write lock: the first queued task becomes w's,
\* with a new fence and lease; attempts still open are superseded.
claim_task(w, t) ==
    LET n == task[t].attempt_count + 1 IN
    /\ Claimable(t)
    /\ n \in Attempt
    /\ task' = [task EXCEPT ![t] = ClaimedRow(@, w, n)]
    /\ attempts' = [attempts EXCEPT ![t] = [CloseRunning(t, "failed") EXCEPT
                        ![n] = [by |-> w, status |-> "running", closed_by |-> System, token |-> 0]]]
    /\ UNCHANGED <<created, observerMode, creating, req, rec, crashes>>

-----------------------------------------------------------------------------
\* The tokens a completion of t by a can carry: none, or the one of a claim it made.
Tokens(t, a) == {0} \cup {n \in Attempt : attempts[t][n].by = a}

\* A failed attempt is retried, or held for the observer, while the budget lasts.
ExecStatus(t, outcome) ==
    IF outcome = "failed" /\ task[t].attempt_count < MaxAttempts THEN InitialStatus ELSE outcome

NotifyStatus(t, outcome, replySent) ==
    IF /\ ExecStatus(t, outcome) \in TERMINAL_STATUSES
       /\ task[t].notification_status = "none"
       /\ t \in ChatTask
    THEN IF replySent THEN "sent" ELSE "pending"
    ELSE task[t].notification_status

\* Seeded fault: complete_task without the ownership check.
MayCompleteAnyone(t, a, token) ==
    /\ Exists(t)
    /\ token # 0 => task[t].fence \in {0, token}
    /\ task[t].status \notin TERMINAL_STATUSES

\* Seeded fault: complete_task without the fence check.
MayCompleteUnfenced(t, a, token) ==
    /\ Exists(t)
    /\ a # Observer => task[t].assigned_to = a
    /\ task[t].status \notin TERMINAL_STATUSES

\* The checks of complete_task that let a request through to the writes.
MayComplete(t, a, token) ==
    /\ Exists(t)
    /\ a # Observer => task[t].assigned_to = a
    /\ token # 0 => task[t].fence \in {0, token}
    /\ task[t].status \notin TERMINAL_STATUSES

\* The read-and-check part, before the write lock. An executor completes a
\* task it claimed at some time; an observer any task, without a fence.
complete_task_read(s, t, a, token, outcome, replySent) ==
    /\ s \notin {q.slot : q \in req}
    /\ a # Observer => \E n \in Attempt : attempts[t][n].by = a
    /\ token \in Tokens(t, a)
    /\ MayComplete(t, a, token)
    /\ req' = req \cup {[slot |-> s, task |-> t, by |-> a, token |-> token,
                         outcome |-> outcome, attempt_count |-> task[t].attempt_count,
                         exec_status |-> ExecStatus(t, outcome),
                         notify_status |-> NotifyStatus(t, outcome, replySent)]}
    /\ UNCHANGED <<task, created, attempts, observerMode, creating, rec, crashes>>

\* The update of the row the request read, whatever became of it since.
CompletedRow(row, q) ==
    [SetStatus(row, q.exec_status) EXCEPT
                !.notification_status = q.notify_status,
                !.result = IF q.exec_status \in TERMINAL_STATUSES THEN "reported" ELSE "none"]

\* Seeded fault: the attempt is updated without "AND status = 'running'".
CompletedAttemptsAny(h, q) ==
    [n \in Attempt |-> IF n = q.attempt_count
                       THEN [h[n] EXCEPT !.status = q.outcome, !.closed_by = q.by, !.token = q.token]
                       ELSE h[n]]

\* The attempt that was newest when the request read the row, if it is still running.
CompletedAttempts(h, q) ==
    [n \in Attempt |-> IF n = q.attempt_count /\ h[n].status = "running"
                       THEN [h[n] EXCEPT !.status = q.outcome, !.closed_by = q.by, !.token = q.token]
                       ELSE h[n]]

complete_task_write(q) ==
    /\ q \in req
    /\ task' = [task EXCEPT ![q.task] = CompletedRow(@, q)]
    /\ attempts' = [attempts EXCEPT ![q.task] = CompletedAttempts(@, q)]
    /\ req' = req \ {q}
    /\ UNCHANGED <<created, observerMode, creating, rec, crashes>>

-----------------------------------------------------------------------------
hold_task(t) ==
    /\ task[t].execution_status = "queued"
    /\ task' = [task EXCEPT ![t] = SetStatus(@, "observer_hold")]
    /\ UNCHANGED <<created, attempts, observerMode, creating, req, rec, crashes>>

release_task(t) ==
    /\ task[t].execution_status = "observer_hold"
    /\ task' = [task EXCEPT ![t] = SetStatus(@, "queued")]
    /\ UNCHANGED <<created, attempts, observerMode, creating, req, rec, crashes>>

set_observer_mode ==
    /\ observerMode' = ~observerMode
    /\ UNCHANGED <<task, created, attempts, creating, req, rec, crashes>>

CancelledRow(row) ==
    [SetStatus(row, "cancelled") EXCEPT !.result = IF @ = "none" THEN "cancelled" ELSE @]

\* Cancels a task in any status; an earlier result is kept (COALESCE).
cancel_task(t) ==
    /\ Exists(t)
    /\ task' = [task EXCEPT ![t] = CancelledRow(@)]
    /\ attempts' = [attempts EXCEPT ![t] = CloseRunning(t, "cancelled")]
    /\ UNCHANGED <<created, observerMode, creating, req, rec, crashes>>

\* A report that the user was notified, taken for any task in any status.
mark_notified(t) ==
    /\ Exists(t)
    /\ task' = [task EXCEPT ![t] = [@ EXCEPT !.notification_status = "sent"]]
    /\ UNCHANGED <<created, attempts, observerMode, creating, req, rec, crashes>>

\* Seeded fault: a heartbeat that does not ask for the task's status.
update_progress_any(t) ==
    /\ Exists(t)
    /\ task' = [task EXCEPT ![t] = [@ EXCEPT !.execution_status = "running", !.lease = "live"]]
    /\ UNCHANGED <<created, attempts, observerMode, creating, req, rec, crashes>>

\* A heartbeat, from any session: it renews the lease and sets only execution_status.
update_progress(t) ==
    /\ Active(t)
    /\ task' = [task EXCEPT ![t] = [@ EXCEPT !.execution_status = "running", !.lease = "live"]]
    /\ UNCHANGED <<created, attempts, observerMode, creating, req, rec, crashes>>

-----------------------------------------------------------------------------
\* Seeded fault: recovery that keeps the result of the row it re-queues.
RequeuedRowWithResult(row) == SetStatus(row, "queued")

\* Both phases put a task back the same way, whatever became of it since it was read.
RequeuedRow(row) == [SetStatus(row, "queued") EXCEPT !.result = "none"]

requeue(rows) ==
    /\ task' = [t \in Task |-> IF t \in rows THEN RequeuedRow(task[t]) ELSE task[t]]
    /\ attempts' = [t \in Task |-> IF t \in rows THEN CloseRunning(t, "failed") ELSE attempts[t]]

ExpiredLease(t) == Active(t) /\ task[t].lease = "expired"

\* Phase 2 asks for leases that had not passed when the call began: all active
\* tasks that phase 1 did not put back.
DeadPid(t) == Active(t) /\ task[t].pid = "dead"

recover_select_leases ==
    /\ rec.phase = "idle"
    /\ rec' = [phase |-> "lease", rows |-> {t \in Task : ExpiredLease(t)}]
    /\ UNCHANGED <<task, created, attempts, observerMode, creating, req, crashes>>

\* The first UPDATE opens the write transaction, so phase 2 reads inside it.
recover_leases_and_pids ==
    /\ rec.phase = "lease" /\ rec.rows # {}
    /\ requeue(rec.rows \cup {t \in Task : DeadPid(t)})
    /\ rec' = NoRecovery
    /\ UNCHANGED <<created, observerMode, creating, req, crashes>>

\* Seeded fault: phase 2 looks at claimed tasks only, not at running ones.
recover_select_pids_claimed ==
    /\ rec.phase = "lease" /\ rec.rows = {}
    /\ rec' = [phase |-> "pid", rows |-> {t \in Task : DeadPid(t) /\ task[t].execution_status = "claimed"}]
    /\ UNCHANGED <<task, created, attempts, observerMode, creating, req, crashes>>

\* With no expired lease nothing was written: phase 2 reads in autocommit mode.
recover_select_pids ==
    /\ rec.phase = "lease" /\ rec.rows = {}
    /\ rec' = [phase |-> "pid", rows |-> {t \in Task : DeadPid(t)}]
    /\ UNCHANGED <<task, created, attempts, observerMode, creating, req, crashes>>

recover_pids ==
    /\ rec.phase = "pid"
    /\ requeue(rec.rows)
    /\ rec' = NoRecovery
    /\ UNCHANGED <<created, observerMode, creating, req, crashes>>

recover_stale_tasks ==
    recover_select_leases \/ recover_leases_and_pids \/ recover_select_pids \/ recover_pids

-----------------------------------------------------------------------------
\* Environment: time passes a lease, an executor process dies, the service dies
\* with the calls it was serving (its open transactions roll back).
LeaseExpires(t) ==
    /\ Active(t) /\ task[t].lease = "live"
    /\ task' = [task EXCEPT ![t] = [@ EXCEPT !.lease = "expired"]]
    /\ UNCHANGED <<created, attempts, observerMode, creating, req, rec, crashes>>

WorkerDies(w) ==
    /\ \E t \in Task : task[t].assigned_to = w /\ task[t].pid = "live"
    /\ task' = [t \in Task |-> IF task[t].assigned_to = w /\ task[t].pid = "live"
                               THEN [task[t] EXCEPT !.pid = "dead"] ELSE task[t]]
    /\ UNCHANGED <<created, attempts, observerMode, creating, req, rec, crashes>>

ServiceCrash ==
    /\ crashes < MaxCrashes
    /\ crashes' = crashes + 1
    /\ creating' = [t \in Task |-> "none"]
    /\ req' = {}
    /\ rec' = NoRecovery
    /\ UNCHANGED <<task, created, attempts, observerMode>>

CompleteRead(t) ==
    \E s \in Slot, a \in Actor, token \in 0..MaxClaims, outcome \in Outcome, replySent \in BOOLEAN :
        complete_task_read(s, t, a, token, outcome, replySent)

Next ==
    \/ \E t \in Task :
        \/ create_task_read(t)
        \/ create_task_insert(t)
        \/ \E w \in Worker : claim_task(w, t)
        \/ CompleteRead(t)
        \/ hold_task(t)
        \/ release_task(t)
        \/ cancel_task(t)
        \/ mark_notified(t)
        \/ update_progress(t)
        \/ LeaseExpires(t)
    \/ \E q \in req : complete_task_write(q)
    \/ set_observer_mode
    \/ recover_stale_tasks
    \/ \E w \in Worker : WorkerDies(w)
    \/ ServiceCrash

Spec == Init /\ [][Next]_vars

\* The executor's main loop asks for recovery again and again, and the server
\* finishes the calls it has begun.
Fairness ==
    /\ WF_vars(recover_stale_tasks)
    /\ WF_vars(\E q \in req : complete_task_write(q))

FairSpec == Spec /\ Fairness

-----------------------------------------------------------------------------
(***************************************************************************)
(* Properties                                                              *)
(***************************************************************************)
\* Every table and every request in flight has the shape the code gives it.
TypeOK ==
    /\ task \in [Task -> Row]
    /\ created \in Seq(Task)
    /\ attempts \in [Task -> [Attempt -> AttemptRow]]
    /\ observerMode \in BOOLEAN
    /\ creating \in [Task -> {"none", "queued", "observer_hold"}]
    /\ req \subseteq Request
    /\ rec \in Recovery
    /\ crashes \in 0..MaxCrashes

\* Whatever requests race, a task never has two running attempts, and the one
\* it has is the newest: claim_task supersedes before it inserts, and no other
\* statement opens an attempt.
OneRunningAttempt ==
    \A t \in Task : RunningAttempts(t) \subseteq {task[t].attempt_count}

\* A task that counts as claimed or running is really held: owner, fence and
\* attempt history all name its newest claim, and that attempt is still open.
\* So a holder's fence is never refused while its claim stands.
ActiveTaskIsHeld ==
    \A t \in Task : Active(t) =>
        LET n == task[t].attempt_count IN
        /\ n \in Attempt /\ task[t].fence = n
        /\ attempts[t][n].status = "running"
        /\ attempts[t][n].by = task[t].assigned_to

\* The row names its newest claim, nobody has claimed beyond it, and a completion
\* on its way to its writes was sent by the holder of the claim it will close (or
\* by an observer) and carries that claim's fence or none.
ClaimsTracked ==
    /\ \A t \in Task :
        /\ task[t].fence = task[t].attempt_count
        /\ task[t].attempt_count # 0 => attempts[t][task[t].attempt_count].by = task[t].assigned_to
        /\ \A n \in Attempt : n > task[t].attempt_count => attempts[t][n] = NoAttempt
    /\ \A q \in req :
        /\ q.attempt_count <= task[q.task].attempt_count
        /\ q.by # Observer => q.attempt_count # 0 /\ attempts[q.task][q.attempt_count].by = q.by
        /\ q.token \in {0, q.attempt_count}

\* An active task never looks completed and a finished one always does, in both
\* status columns (claim_task's comment), although update_progress writes one
\* column only and complete_task reads the other.
FinishedRowsAgree ==
    \A t \in Task :
        /\ task[t].result # "none" <=> task[t].execution_status \in TERMINAL_STATUSES
        /\ task[t].status # task[t].execution_status =>
               task[t].status = "claimed" /\ task[t].execution_status = "running"

\* An attempt counts as succeeded or timed out only if its own claimant, or an
\* observer, reported that, even when the report is written after the task was
\* recovered and claimed again.
CompletionByClaimant ==
    \A t \in Task, n \in Attempt :
        attempts[t][n].status \in {"succeeded", "timed_out"} =>
            attempts[t][n].closed_by \in {attempts[t][n].by, Observer}

\* A completion that carries a fence token never closes the attempt of another
\* claim, in spite of the gap between its fence check and its writes.
FencedCompletion ==
    \A t \in Task, n \in Attempt : attempts[t][n].token \in {0, n}

\* History is append-only: a closed attempt is never reopened or rewritten, and
\* attempt numbers and fences never go back.
ClosedAttemptsFrozen ==
    [][\A t \in Task :
         /\ task'[t].attempt_count >= task[t].attempt_count
         /\ \A n \in Attempt :
              attempts[t][n].status \notin {"none", "running"} => attempts'[t][n] = attempts[t][n]]_vars

\* A task whose executor died does not stay claimed for ever.
StuckTaskRecovered ==
    \A t \in Task : DeadPid(t) ~> ~DeadPid(t)

\* Cancelling is final: "Cancel a task. Terminal state - no auto-chain, no retry."
CancelIsFinal ==
    [][\A t \in Task : task[t].execution_status = "cancelled" => task'[t].execution_status = "cancelled"]_vars
=============================================================================
