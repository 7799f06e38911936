------------------------- MODULE TaskRegistryProofs -------------------------
(***************************************************************************)
(* Proofs about TaskRegistry, for any number of tasks, executors, server   *)
(* threads, claims and crashes.                                            *)
(***************************************************************************)
EXTENDS TaskRegistry, TLAPS

-----------------------------------------------------------------------------
(***************************************************************************)
(* Rows and records: what the updates of the handlers return. The sets of  *)
(* statuses and attempt numbers stay opaque here.                          *)
(***************************************************************************)
\* Setting columns of a row to values of their types gives a row.
LEMMA RowUpdate ==
  ASSUME NEW row \in Row, NEW s \in Status, NEW nt \in {"none", "pending", "sent"},
         NEW r \in {"none", "reported", "cancelled"}, NEW le \in {"none", "live", "expired"},
         NEW pd \in {"none", "live", "dead"}
  PROVE  /\ SetStatus(row, s) \in Row
         /\ [row EXCEPT !.notification_status = nt] \in Row
         /\ [row EXCEPT !.result = r] \in Row
         /\ [row EXCEPT !.lease = le] \in Row
         /\ [row EXCEPT !.pid = pd] \in Row
         /\ [row EXCEPT !.execution_status = s, !.lease = le] \in Row
<1>1. SetStatus(row, s) \in Row
  BY DEF SetStatus, Row
<1>2. [row EXCEPT !.notification_status = nt] \in Row
  BY DEF Row
<1>3. [row EXCEPT !.result = r] \in Row
  BY DEF Row
<1>4. [row EXCEPT !.lease = le] \in Row
  BY DEF Row
<1>5. [row EXCEPT !.pid = pd] \in Row
  BY DEF Row
<1>6. [row EXCEPT !.execution_status = s, !.lease = le] \in Row
  BY DEF Row
<1> QED
  BY <1>1, <1>2, <1>3, <1>4, <1>5, <1>6

\* claim_task's update of the row.
LEMMA ClaimedRowType ==
  ASSUME NEW row \in Row, NEW w \in Worker, NEW n \in Attempt
  PROVE  ClaimedRow(row, w, n) \in Row
<1>1. n \in 0..MaxClaims
  BY BoundAssumption DEF Attempt
<1>2. "claimed" \in Status
  BY DEF Status
<1> QED
  BY <1>1, <1>2 DEF ClaimedRow, Row

\* complete_task's update of the row: claim columns stay, the rest is what the request decided.
LEMMA CompletedRowType ==
  ASSUME NEW row \in Row, NEW q \in Request
  PROVE  CompletedRow(row, q) \in Row
<1>1. q.exec_status \in Status
  BY DEF Status, Request, Outcome, TERMINAL_STATUSES
<1>2. q.notify_status \in {"none", "pending", "sent"}
  BY DEF Request
<1> QED
  BY <1>1, <1>2 DEF CompletedRow, SetStatus, Row

\* A completed row has the status the request decided on in both columns and keeps its claim.
LEMMA CompletedRowFields ==
  ASSUME NEW row \in Row, NEW q \in Request
  PROVE  LET r == CompletedRow(row, q)
         IN  /\ r.status = q.exec_status /\ r.execution_status = q.exec_status
             /\ r.attempt_count = row.attempt_count /\ r.fence = row.fence
             /\ r.assigned_to = row.assigned_to
             /\ r.result = IF q.exec_status \in TERMINAL_STATUSES THEN "reported" ELSE "none"
BY DEF CompletedRow, SetStatus, Row

\* The re-queued and the cancelled row: claim columns stay.
LEMMA RequeuedRowFields ==
  ASSUME NEW row \in Row
  PROVE  LET r == RequeuedRow(row)
         IN  /\ r \in Row
             /\ r.status = "queued" /\ r.execution_status = "queued" /\ r.result = "none"
             /\ r.attempt_count = row.attempt_count /\ r.fence = row.fence
             /\ r.assigned_to = row.assigned_to
<1>1. "queued" \in Status
  BY DEF Status
<1>2. RequeuedRow(row) \in Row
  BY <1>1, RowUpdate DEF RequeuedRow
<1> QED
  BY <1>2 DEF RequeuedRow, SetStatus, Row

\* A cancelled row is final in both status columns and keeps its claim.
LEMMA CancelledRowFields ==
  ASSUME NEW row \in Row
  PROVE  LET r == CancelledRow(row)
         IN  /\ r \in Row
             /\ r.status = "cancelled" /\ r.execution_status = "cancelled" /\ r.result # "none"
             /\ r.attempt_count = row.attempt_count /\ r.fence = row.fence
             /\ r.assigned_to = row.assigned_to
<1>1. "cancelled" \in Status
  BY DEF Status, TERMINAL_STATUSES
<1>2. SetStatus(row, "cancelled").result \in {"none", "reported", "cancelled"}
  BY DEF SetStatus, Row
<1>3. CancelledRow(row) \in Row
  BY <1>1, <1>2, RowUpdate DEF CancelledRow
<1> QED
  BY <1>3 DEF CancelledRow, SetStatus, Row

\* Closing an attempt keeps who made it, and only a completion records who closed it.
LEMMA AttemptUpdate ==
  ASSUME NEW a \in AttemptRow, NEW s \in {"failed", "cancelled"}
  PROVE  LET b == [a EXCEPT !.status = s]
         IN  b \in AttemptRow /\ b.status = s /\ b.by = a.by /\ b.closed_by = a.closed_by /\ b.token = a.token
<1>1. s \in Outcome \cup {"none", "running", "cancelled"}
  BY DEF Outcome
<1> QED
  BY <1>1 DEF AttemptRow

\* Closing an attempt with a completion keeps its number and claimant and records who closed it.
LEMMA AttemptCompletion ==
  ASSUME NEW a \in AttemptRow, NEW q \in Request
  PROVE  LET b == [a EXCEPT !.status = q.outcome, !.closed_by = q.by, !.token = q.token]
         IN  b \in AttemptRow /\ b.status = q.outcome /\ b.by = a.by /\ b.closed_by = q.by /\ b.token = q.token
<1>1. q.outcome \in Outcome /\ q.by \in Actor /\ q.token \in 0..MaxClaims
  BY DEF Request
<1> QED
  BY <1>1 DEF AttemptRow

\* Closing the running attempts of a task keeps its history well-typed.
LEMMA CloseRunningType ==
  ASSUME TypeOK, NEW t \in Task, NEW s \in {"failed", "cancelled"}
  PROVE  CloseRunning(t, s) \in [Attempt -> AttemptRow]
<1>1. \A n \in Attempt : attempts[t][n] \in AttemptRow
  BY DEF TypeOK
<1>2. \A n \in Attempt : [attempts[t][n] EXCEPT !.status = s] \in AttemptRow
  BY <1>1, AttemptUpdate
<1> QED
  BY <1>1, <1>2 DEF CloseRunning

-----------------------------------------------------------------------------
USE DEF Actor, Outcome, Status, TERMINAL_STATUSES, Attempt

(***************************************************************************)
(* The inductive invariant. ClaimsTracked ties the rows and the requests   *)
(* in flight to the attempt history; without it a stale completion could   *)
(* close an attempt its sender never made.                                 *)
(***************************************************************************)
HistoryInv == OneRunningAttempt /\ CompletionByClaimant /\ FencedCompletion
IInv == TypeOK /\ ClaimsTracked /\ HistoryInv /\ ActiveTaskIsHeld /\ FinishedRowsAgree

\* The initial tables are well-typed: no task, no attempt, no request.
LEMMA InitTypeOK == Init => TypeOK
<1> SUFFICES ASSUME Init PROVE TypeOK
  OBVIOUS
<1>1. task \in [Task -> Row]
  BY BoundAssumption DEF Init, AbsentRow, Row
<1>2. attempts \in [Task -> [Attempt -> AttemptRow]]
  BY BoundAssumption DEF Init, NoAttempt, AttemptRow
<1>3. rec \in Recovery
  BY DEF Init, NoRecovery, Recovery
<1>4. created \in Seq(Task) /\ req \subseteq Request /\ crashes \in 0..MaxCrashes
  BY BoundAssumption DEF Init
<1>5. observerMode \in BOOLEAN /\ creating \in [Task -> {"none", "queued", "observer_hold"}]
  BY DEF Init
<1> QED
  BY <1>1, <1>2, <1>3, <1>4, <1>5 DEF TypeOK

\* Every step keeps the tables and the requests well-typed.
LEMMA NextTypeOK == TypeOK /\ [Next]_vars => TypeOK'
<1> SUFFICES ASSUME TypeOK, [Next]_vars PROVE TypeOK'
  OBVIOUS
<1> USE BoundAssumption
<1>1. ASSUME NEW t \in Task, create_task_insert(t) PROVE TypeOK'
  <2>1. task[t] \in Row /\ creating[t] \in Status
    BY <1>1 DEF TypeOK, create_task_insert
  <2>2. SetStatus(task[t], creating[t]) \in Row
    BY <2>1, RowUpdate
  <2>3. [SetStatus(task[t], creating[t]) EXCEPT
            !.notification_status = IF t \in ChatTask THEN "pending" ELSE "none"] \in Row
    BY <2>2, RowUpdate
  <2> QED
    BY <1>1, <2>3 DEF create_task_insert, TypeOK
<1>2. ASSUME NEW t \in Task, NEW w \in Worker, claim_task(w, t) PROVE TypeOK'
  <2> DEFINE n == task[t].attempt_count + 1
  <2>1. ClaimedRow(task[t], w, n) \in Row
    BY <1>2, ClaimedRowType DEF claim_task, TypeOK
  <2>2. [CloseRunning(t, "failed") EXCEPT ![n] =
            [by |-> w, status |-> "running", closed_by |-> System, token |-> 0]] \in [Attempt -> AttemptRow]
    BY <1>2, CloseRunningType DEF claim_task, AttemptRow
  <2> QED
    BY <1>2, <2>1, <2>2 DEF claim_task, TypeOK
<1>3. ASSUME NEW t \in Task, CompleteRead(t) PROVE TypeOK'
  <2>1. PICK s \in Slot, a \in Actor, token \in 0..MaxClaims, o \in Outcome, r \in BOOLEAN :
            complete_task_read(s, t, a, token, o, r)
    BY <1>3 DEF CompleteRead
  <2>2. ExecStatus(t, o) \in Outcome \cup {"queued", "observer_hold"}
    BY DEF ExecStatus, InitialStatus
  <2>3. NotifyStatus(t, o, r) \in {"none", "pending", "sent"}
    BY DEF NotifyStatus, TypeOK, Row
  <2>4. [slot |-> s, task |-> t, by |-> a, token |-> token,
         outcome |-> o, attempt_count |-> task[t].attempt_count,
         exec_status |-> ExecStatus(t, o), notify_status |-> NotifyStatus(t, o, r)] \in Request
    BY <2>2, <2>3 DEF Request, TypeOK, Row
  <2> QED
    BY <2>1, <2>4 DEF complete_task_read, TypeOK
<1>4. ASSUME NEW t \in Task, create_task_read(t) PROVE TypeOK'
  BY <1>4 DEF create_task_read, InitialStatus, TypeOK
<1>5. ASSUME NEW t \in Task, hold_task(t) PROVE TypeOK'
  BY <1>5, RowUpdate DEF hold_task, TypeOK
<1>6. ASSUME NEW t \in Task, release_task(t) PROVE TypeOK'
  BY <1>6, RowUpdate DEF release_task, TypeOK
<1>7. ASSUME NEW t \in Task, cancel_task(t) PROVE TypeOK'
  BY <1>7, CloseRunningType, CancelledRowFields DEF cancel_task, TypeOK
<1>8. ASSUME NEW t \in Task, mark_notified(t) PROVE TypeOK'
  BY <1>8, RowUpdate DEF mark_notified, TypeOK
<1>9. ASSUME NEW t \in Task, update_progress(t) PROVE TypeOK'
  BY <1>9, RowUpdate DEF update_progress, TypeOK
<1>10. ASSUME NEW t \in Task, LeaseExpires(t) PROVE TypeOK'
  BY <1>10, RowUpdate DEF LeaseExpires, TypeOK
<1>11. ASSUME NEW q \in req, complete_task_write(q) PROVE TypeOK'
  <2>1. q \in Request
    BY DEF TypeOK
  <2>2. CompletedRow(task[q.task], q) \in Row
    BY <2>1, CompletedRowType DEF TypeOK, Request
  <2>3. CompletedAttempts(attempts[q.task], q) \in [Attempt -> AttemptRow]
    <3>1. \A n \in Attempt : attempts[q.task][n] \in AttemptRow
      BY <2>1 DEF TypeOK, Request
    <3> QED
      BY <2>1, <3>1, AttemptCompletion DEF CompletedAttempts
  <2> QED
    BY <1>11, <2>1, <2>2, <2>3 DEF complete_task_write, TypeOK
<1>13. CASE set_observer_mode
  BY <1>13 DEF set_observer_mode, TypeOK
<1>14. ASSUME NEW rows, requeue(rows), rec' = NoRecovery,
              UNCHANGED <<created, observerMode, creating, req, crashes>>
       PROVE  TypeOK'
  <2>1. task' \in [Task -> Row]
    BY <1>14, RequeuedRowFields DEF requeue, TypeOK
  <2>2. attempts' \in [Task -> [Attempt -> AttemptRow]]
    BY <1>14, CloseRunningType DEF requeue, TypeOK
  <2> QED
    BY <1>14, <2>1, <2>2 DEF TypeOK, NoRecovery, Recovery
<1>15. CASE recover_stale_tasks
  BY <1>14, <1>15 DEF recover_stale_tasks, recover_select_leases, recover_leases_and_pids,
     recover_select_pids, recover_pids, TypeOK, Recovery
<1>16. ASSUME NEW w \in Worker, WorkerDies(w) PROVE TypeOK'
  BY <1>16, RowUpdate DEF WorkerDies, TypeOK
<1>17. CASE ServiceCrash
  BY <1>17 DEF ServiceCrash, TypeOK, NoRecovery, Recovery
<1>18. CASE UNCHANGED vars
  BY <1>18 DEF vars, TypeOK
<1> QED
  BY <1>1, <1>2, <1>3, <1>4, <1>5, <1>6, <1>7, <1>8, <1>9, <1>10, <1>11, <1>13,
     <1>15, <1>16, <1>17, <1>18 DEF Next

\* The registry's tables and the requests it serves keep their shape.
THEOREM TypeCorrect == Spec => []TypeOK
BY InitTypeOK, NextTypeOK, PTL DEF Spec

-----------------------------------------------------------------------------
(***************************************************************************)
(* What the steps other than a claim and a completion leave alone: owner,  *)
(* count and fence of every row, and all of the history except that open   *)
(* attempts may be closed as failed or cancelled.                          *)
(***************************************************************************)
KeepsClaims ==
    \A t \in Task : /\ task'[t].attempt_count = task[t].attempt_count
                    /\ task'[t].fence = task[t].fence
                    /\ task'[t].assigned_to = task[t].assigned_to
ClosesOnly ==
    \A t \in Task, n \in Attempt :
        \/ attempts'[t][n] = attempts[t][n]
        \/ /\ attempts[t][n].status = "running"
           /\ attempts'[t][n].status \in {"failed", "cancelled"}
           /\ attempts'[t][n].by = attempts[t][n].by
           /\ attempts'[t][n].closed_by = attempts[t][n].closed_by
           /\ attempts'[t][n].token = attempts[t][n].token

\* Steps of that kind keep what is known about claims, history and requests.
LEMMA Frame ==
  ASSUME IInv, TypeOK', KeepsClaims, ClosesOnly, req' \subseteq req
  PROVE  ClaimsTracked' /\ HistoryInv'
<1> USE DEF KeepsClaims, ClosesOnly
<1>1. TypeOK /\ ClaimsTracked /\ HistoryInv
  BY DEF IInv
<1>2. \A t \in Task : task[t].attempt_count \in 0..MaxClaims
  BY <1>1 DEF TypeOK, Row
<1>3. ASSUME NEW t \in Task
      PROVE  /\ task'[t].fence = task'[t].attempt_count
             /\ task'[t].attempt_count # 0 => attempts'[t][task'[t].attempt_count].by = task'[t].assigned_to
  <2>1. task[t].attempt_count # 0 => task[t].attempt_count \in Attempt
    BY <1>2, BoundAssumption
  <2> QED
    BY <1>1, <2>1 DEF ClaimsTracked
<1>4. ASSUME NEW t \in Task, NEW n \in Attempt, n > task'[t].attempt_count
      PROVE  attempts'[t][n] = NoAttempt
  BY <1>1, <1>4 DEF ClaimsTracked, NoAttempt
<1>5. ASSUME NEW q \in req'
      PROVE  /\ q.attempt_count <= task'[q.task].attempt_count
             /\ q.by # Observer => q.attempt_count # 0 /\ attempts'[q.task][q.attempt_count].by = q.by
             /\ q.token \in {0, q.attempt_count}
  <2>1. q \in req /\ q.task \in Task /\ q.attempt_count \in 0..MaxClaims
    BY <1>1 DEF TypeOK, Request
  <2>2. q.attempt_count # 0 => q.attempt_count \in Attempt
    BY <2>1, BoundAssumption
  <2> QED
    BY <1>1, <1>5, <2>1, <2>2 DEF ClaimsTracked
<1>6. ClaimsTracked'
  BY <1>3, <1>4, <1>5 DEF ClaimsTracked
<1>7. OneRunningAttempt'
  BY <1>1 DEF HistoryInv, OneRunningAttempt, RunningAttempts
<1>8. CompletionByClaimant'
  BY <1>1 DEF HistoryInv, CompletionByClaimant
<1>9. FencedCompletion'
  BY <1>1 DEF HistoryInv, FencedCompletion
<1> QED
  BY <1>6, <1>7, <1>8, <1>9 DEF HistoryInv

\* A handler that writes rows, but no claim, no history and no request, keeps
\* the invariant if it keeps its three statements about single rows.
LEMMA RowStep ==
  ASSUME IInv, TypeOK', KeepsClaims, UNCHANGED <<attempts, req, crashes>>,
         \A t \in Task :
            /\ task'[t].execution_status \in {"claimed", "running"} => Active(t)
            /\ task'[t].result # "none" <=> task'[t].execution_status \in TERMINAL_STATUSES
            /\ task'[t].status # task'[t].execution_status =>
                 task'[t].status = "claimed" /\ task'[t].execution_status = "running"
  PROVE  IInv'
<1>1. ClaimsTracked' /\ HistoryInv'
  BY Frame DEF ClosesOnly
<1>2. ActiveTaskIsHeld'
  BY DEF IInv, ActiveTaskIsHeld, Active, KeepsClaims
<1>3. FinishedRowsAgree'
  BY DEF FinishedRowsAgree
<1> QED
  BY <1>1, <1>2, <1>3 DEF IInv

\* claim_task: the new attempt is the newest, and the only running one.
LEMMA ClaimStep ==
  ASSUME IInv, TypeOK', NEW t \in Task, NEW w \in Worker, claim_task(w, t)
  PROVE  IInv'
<1> DEFINE n == task[t].attempt_count + 1
<1>1. TypeOK /\ ClaimsTracked /\ HistoryInv /\ ActiveTaskIsHeld /\ FinishedRowsAgree
  BY DEF IInv
<1>2. /\ n \in Attempt /\ task[t].attempt_count \in 0..MaxClaims
      /\ task[t].attempt_count < n
  BY <1>1, BoundAssumption DEF claim_task, TypeOK, Row
<1>3. /\ task'[t].attempt_count = n /\ task'[t].fence = n /\ task'[t].assigned_to = w
      /\ task'[t].status = "claimed" /\ task'[t].execution_status = "claimed" /\ task'[t].result = "none"
      /\ \A u \in Task : u # t => task'[u] = task[u]
  BY <1>1 DEF claim_task, ClaimedRow, TypeOK, Row
<1>4. /\ attempts'[t][n] = [by |-> w, status |-> "running", closed_by |-> System, token |-> 0]
      /\ \A u \in Task : u # t => attempts'[u] = attempts[u]
      /\ \A m \in Attempt : m # n => attempts'[t][m] = CloseRunning(t, "failed")[m]
  BY <1>1, <1>2 DEF claim_task, TypeOK, CloseRunning
<1>5. \A m \in Attempt : m # n =>
        /\ attempts'[t][m].status # "running"
        /\ \/ attempts'[t][m] = attempts[t][m]
           \/ /\ attempts[t][m].status = "running"
              /\ attempts'[t][m].status = "failed"
              /\ attempts'[t][m].by = attempts[t][m].by
              /\ attempts'[t][m].token = attempts[t][m].token
  <2> TAKE m \in Attempt
  <2> HAVE m # n
  <2>1. attempts[t][m] \in AttemptRow
    BY <1>1 DEF TypeOK
  <2> QED
    BY <1>4, <2>1 DEF CloseRunning, AttemptRow
<1>6. UNCHANGED <<req, crashes>>
  BY DEF claim_task
<1>7. ASSUME NEW u \in Task
      PROVE  /\ task'[u].fence = task'[u].attempt_count
             /\ task'[u].attempt_count # 0 => attempts'[u][task'[u].attempt_count].by = task'[u].assigned_to
             /\ \A m \in Attempt : m > task'[u].attempt_count => attempts'[u][m] = NoAttempt
  <2>1. CASE u = t
    <3>1. \A m \in Attempt : m > n => m > task[t].attempt_count /\ m # n
      BY <1>2
    <3>2. \A m \in Attempt : m > n => attempts'[t][m] = NoAttempt
      BY <1>1, <1>5, <3>1 DEF ClaimsTracked, NoAttempt
    <3> QED
      BY <1>3, <1>4, <2>1, <3>2
  <2>2. CASE u # t
    BY <1>1, <1>3, <1>4, <2>2 DEF ClaimsTracked
  <2> QED
    BY <2>1, <2>2
<1>8. ASSUME NEW q \in req'
      PROVE  /\ q.attempt_count <= task'[q.task].attempt_count
             /\ q.by # Observer => q.attempt_count # 0 /\ attempts'[q.task][q.attempt_count].by = q.by
             /\ q.token \in {0, q.attempt_count}
  <2>1. q \in req /\ q.task \in Task /\ q.attempt_count \in 0..MaxClaims
    BY <1>1, <1>6 DEF TypeOK, Request
  <2>2. /\ q.attempt_count <= task[q.task].attempt_count
        /\ q.by # Observer => q.attempt_count # 0 /\ attempts[q.task][q.attempt_count].by = q.by
        /\ q.token \in {0, q.attempt_count}
    BY <1>1, <1>8, <2>1 DEF ClaimsTracked
  <2>3. CASE q.task = t
    <3>1. q.attempt_count < n /\ (q.attempt_count # 0 => q.attempt_count \in Attempt)
      BY <1>2, <2>1, <2>2, <2>3, BoundAssumption
    <3>2. q.attempt_count # 0 => attempts'[t][q.attempt_count].by = attempts[t][q.attempt_count].by
      BY <1>5, <3>1
    <3> QED
      BY <1>2, <1>3, <2>1, <2>2, <2>3, <3>1, <3>2
  <2>4. CASE q.task # t
    BY <1>3, <1>4, <2>1, <2>2, <2>4
  <2> QED
    BY <2>3, <2>4
<1>9. ClaimsTracked'
  BY <1>7, <1>8 DEF ClaimsTracked
<1>10. OneRunningAttempt'
  <2> SUFFICES ASSUME NEW u \in Task, NEW m \in Attempt, attempts'[u][m].status = "running"
               PROVE  m = task'[u].attempt_count
    BY DEF OneRunningAttempt, RunningAttempts
  <2> QED
    BY <1>1, <1>3, <1>4, <1>5 DEF HistoryInv, OneRunningAttempt, RunningAttempts
<1>11. CompletionByClaimant'
  <2> SUFFICES ASSUME NEW u \in Task, NEW m \in Attempt,
                      attempts'[u][m].status \in {"succeeded", "timed_out"}
               PROVE  attempts'[u][m].closed_by \in {attempts'[u][m].by, Observer}
    BY DEF CompletionByClaimant
  <2>1. attempts'[u][m] = attempts[u][m]
    BY <1>4, <1>5
  <2> QED
    BY <1>1, <2>1 DEF HistoryInv, CompletionByClaimant
<1>12. FencedCompletion'
  <2> SUFFICES ASSUME NEW u \in Task, NEW m \in Attempt
               PROVE  attempts'[u][m].token \in {0, m}
    BY DEF FencedCompletion
  <2> QED
    BY <1>1, <1>4, <1>5 DEF HistoryInv, FencedCompletion
<1>13. ActiveTaskIsHeld'
  BY <1>1, <1>2, <1>3, <1>4 DEF ActiveTaskIsHeld, Active
<1>14. FinishedRowsAgree'
  BY <1>1, <1>3 DEF FinishedRowsAgree
<1> QED
  BY <1>9, <1>10, <1>11, <1>12, <1>13, <1>14 DEF IInv, HistoryInv

\* complete_task up to its writes: a request enters with the claim it was checked against.
LEMMA ReadStep ==
  ASSUME IInv, TypeOK', NEW t \in Task, CompleteRead(t)
  PROVE  IInv'
<1>1. PICK s \in Slot, a \in Actor, token \in 0..MaxClaims, o \in Outcome, r \in BOOLEAN :
          complete_task_read(s, t, a, token, o, r)
  BY DEF CompleteRead
<1> DEFINE new == [slot |-> s, task |-> t, by |-> a, token |-> token,
                   outcome |-> o, attempt_count |-> task[t].attempt_count,
                   exec_status |-> ExecStatus(t, o), notify_status |-> NotifyStatus(t, o, r)]
<1>2. req' = req \cup {new} /\ UNCHANGED <<task, attempts, crashes>>
  BY <1>1 DEF complete_task_read
<1>3. TypeOK /\ ClaimsTracked /\ HistoryInv /\ ActiveTaskIsHeld /\ FinishedRowsAgree
  BY DEF IInv
<1>4. task[t].attempt_count \in 0..MaxClaims /\ task[t].fence = task[t].attempt_count
  BY <1>3 DEF TypeOK, Row, ClaimsTracked
<1>5. ASSUME a # Observer
      PROVE  task[t].attempt_count # 0 /\ attempts[t][task[t].attempt_count].by = a
  <2>1. a \in Worker
    BY <1>5
  <2>2. PICK n \in Attempt : attempts[t][n].by = a
    BY <1>1, <1>5 DEF complete_task_read
  <2>3. attempts[t][n] # NoAttempt
    BY <2>1, <2>2, ActorAssumption DEF NoAttempt
  <2>4. ~(n > task[t].attempt_count)
    BY <1>3, <2>3 DEF ClaimsTracked
  <2>5. task[t].attempt_count # 0
    BY <1>4, <2>4, BoundAssumption
  <2>6. task[t].assigned_to = a
    BY <1>1, <1>5 DEF complete_task_read, MayComplete
  <2> QED
    BY <1>3, <2>5, <2>6 DEF ClaimsTracked
<1>6. token \in {0, task[t].attempt_count}
  <2> SUFFICES ASSUME token # 0 PROVE token = task[t].attempt_count
    OBVIOUS
  <2>1. token \in Attempt /\ attempts[t][token].by = a
    BY <1>1 DEF complete_task_read, Tokens
  <2>2. a # Observer
    <3>1. attempts[t][token] \in AttemptRow
      BY <1>3, <2>1 DEF TypeOK
    <3> QED
      BY <2>1, <3>1, ActorAssumption DEF AttemptRow
  <2>3. task[t].fence \in {0, token}
    BY <1>1 DEF complete_task_read, MayComplete
  <2> QED
    BY <1>4, <1>5, <2>2, <2>3
<1>7. ASSUME NEW q \in req'
      PROVE  /\ q.attempt_count <= task'[q.task].attempt_count
             /\ q.by # Observer => q.attempt_count # 0 /\ attempts'[q.task][q.attempt_count].by = q.by
             /\ q.token \in {0, q.attempt_count}
  <2>1. CASE q \in req
    BY <1>2, <1>3, <1>7, <2>1 DEF ClaimsTracked
  <2>2. CASE q = new
    <3>1. q.attempt_count = task[t].attempt_count /\ q.task = t /\ q.by = a /\ q.token = token
      BY <2>2
    <3>2. q.attempt_count <= task[t].attempt_count
      BY <1>4, <3>1
    <3> QED
      BY <1>2, <1>5, <1>6, <3>1, <3>2
  <2> QED
    BY <1>2, <2>1, <2>2
<1>8. ClaimsTracked'
  BY <1>2, <1>3, <1>7 DEF ClaimsTracked
<1>9. HistoryInv' /\ ActiveTaskIsHeld' /\ FinishedRowsAgree'
  BY <1>2, <1>3 DEF HistoryInv, OneRunningAttempt, RunningAttempts, CompletionByClaimant, FencedCompletion,
     ActiveTaskIsHeld, Active, FinishedRowsAgree
<1> QED
  BY <1>8, <1>9 DEF IInv

\* The writes of complete_task: only the attempt the request was checked against can close.
LEMMA WriteStep ==
  ASSUME IInv, TypeOK', NEW q \in req, complete_task_write(q)
  PROVE  IInv'
<1> DEFINE t == q.task
           c == q.attempt_count
<1>1. TypeOK /\ ClaimsTracked /\ HistoryInv /\ ActiveTaskIsHeld /\ FinishedRowsAgree
  BY DEF IInv
<1>2. /\ q \in Request /\ t \in Task /\ c \in 0..MaxClaims
      /\ q.exec_status \in Outcome \cup {"queued", "observer_hold"}
  BY <1>1 DEF TypeOK, Request, complete_task_write
<1>3. /\ c <= task[t].attempt_count
      /\ q.by # Observer => c # 0 /\ attempts[t][c].by = q.by
      /\ q.token \in {0, c}
  BY <1>1, <1>2 DEF ClaimsTracked
<1>4. /\ task'[t].attempt_count = task[t].attempt_count /\ task'[t].fence = task[t].fence
      /\ task'[t].assigned_to = task[t].assigned_to
      /\ task'[t].status = q.exec_status /\ task'[t].execution_status = q.exec_status
      /\ task'[t].result = IF q.exec_status \in TERMINAL_STATUSES THEN "reported" ELSE "none"
      /\ \A u \in Task : u # t => task'[u] = task[u]
  BY <1>1, <1>2, CompletedRowFields DEF complete_task_write, TypeOK
<1>5. \A u \in Task, n \in Attempt :
        \/ attempts'[u][n] = attempts[u][n]
        \/ /\ u = t /\ n = c
           /\ attempts[u][n].status = "running"
           /\ attempts'[u][n].status = q.outcome
           /\ attempts'[u][n].by = attempts[u][n].by
           /\ attempts'[u][n].closed_by = q.by
           /\ attempts'[u][n].token = q.token
  <2> TAKE u \in Task, n \in Attempt
  <2>1. attempts[u][n] \in AttemptRow
    BY <1>1 DEF TypeOK
  <2>2. CASE u # t
    BY <1>1, <2>2 DEF complete_task_write, TypeOK
  <2>3. CASE u = t
    <3>1. attempts'[t] = CompletedAttempts(attempts[t], q)
      BY <1>1, <1>2 DEF complete_task_write, TypeOK
    <3> DEFINE b == [attempts[t][n] EXCEPT !.status = q.outcome, !.closed_by = q.by, !.token = q.token]
    <3>2. b.status = q.outcome /\ b.by = attempts[t][n].by /\ b.closed_by = q.by /\ b.token = q.token
      BY <1>2, <2>1, <2>3, AttemptCompletion
    <3>3. attempts'[t][n] = IF n = c /\ attempts[t][n].status = "running" THEN b ELSE attempts[t][n]
      BY <3>1 DEF CompletedAttempts
    <3> HIDE DEF b
    <3> QED
      BY <2>3, <3>2, <3>3
  <2> QED
    BY <2>2, <2>3
<1>6. req' = req \ {q}
  BY DEF complete_task_write
<1>8. ASSUME NEW u \in Task
      PROVE  /\ task'[u].fence = task'[u].attempt_count
             /\ task'[u].attempt_count # 0 => attempts'[u][task'[u].attempt_count].by = task'[u].assigned_to
             /\ \A m \in Attempt : m > task'[u].attempt_count => attempts'[u][m] = NoAttempt
  <2>1. task[u].attempt_count \in 0..MaxClaims
    BY <1>1 DEF TypeOK, Row
  <2>2. task[u].attempt_count # 0 => task[u].attempt_count \in Attempt
    BY <2>1, BoundAssumption
  <2>3. task'[u].attempt_count = task[u].attempt_count /\ task'[u].fence = task[u].fence
        /\ task'[u].assigned_to = task[u].assigned_to
    BY <1>4
  <2>4. \A m \in Attempt : attempts'[u][m].by = attempts[u][m].by
    BY <1>5
  <2>5. ASSUME NEW m \in Attempt, m > task[u].attempt_count PROVE attempts'[u][m] = NoAttempt
    <3>1. attempts[u][m] = NoAttempt
      BY <1>1, <2>5 DEF ClaimsTracked
    <3> QED
      BY <1>5, <3>1 DEF NoAttempt
  <2> QED
    BY <1>1, <2>2, <2>3, <2>4, <2>5 DEF ClaimsTracked
<1>9. ASSUME NEW p \in req'
      PROVE  /\ p.attempt_count <= task'[p.task].attempt_count
             /\ p.by # Observer => p.attempt_count # 0 /\ attempts'[p.task][p.attempt_count].by = p.by
             /\ p.token \in {0, p.attempt_count}
  <2>1. p \in req /\ p.task \in Task /\ p.attempt_count \in 0..MaxClaims
    BY <1>1, <1>6 DEF TypeOK, Request
  <2>2. p.attempt_count # 0 => p.attempt_count \in Attempt
    BY <2>1, BoundAssumption
  <2>3. task'[p.task].attempt_count = task[p.task].attempt_count
    BY <1>4, <2>1
  <2>4. \A m \in Attempt : attempts'[p.task][m].by = attempts[p.task][m].by
    BY <1>5, <2>1
  <2> QED
    BY <1>1, <1>9, <2>1, <2>2, <2>3, <2>4 DEF ClaimsTracked
<1>10. ClaimsTracked'
  BY <1>8, <1>9 DEF ClaimsTracked
<1>11. OneRunningAttempt'
  <2> SUFFICES ASSUME NEW u \in Task, NEW m \in Attempt, attempts'[u][m].status = "running"
               PROVE  m = task'[u].attempt_count
    BY DEF OneRunningAttempt, RunningAttempts
  <2>1. attempts[u][m].status = "running" /\ task'[u].attempt_count = task[u].attempt_count
    BY <1>4, <1>5
  <2> QED
    BY <1>1, <2>1 DEF HistoryInv, OneRunningAttempt, RunningAttempts
<1>12. CompletionByClaimant'
  <2> SUFFICES ASSUME NEW u \in Task, NEW m \in Attempt,
                      attempts'[u][m].status \in {"succeeded", "timed_out"}
               PROVE  attempts'[u][m].closed_by \in {attempts'[u][m].by, Observer}
    BY DEF CompletionByClaimant
  <2> QED
    BY <1>1, <1>3, <1>5 DEF HistoryInv, CompletionByClaimant
<1>13. FencedCompletion'
  <2> SUFFICES ASSUME NEW u \in Task, NEW m \in Attempt PROVE attempts'[u][m].token \in {0, m}
    BY DEF FencedCompletion
  <2> QED
    BY <1>1, <1>3, <1>5 DEF HistoryInv, FencedCompletion
<1>14. ActiveTaskIsHeld'
  <2> SUFFICES ASSUME NEW u \in Task, task'[u].execution_status \in {"claimed", "running"}
               PROVE  LET n == task'[u].attempt_count IN
                      /\ n \in Attempt /\ task'[u].fence = n
                      /\ attempts'[u][n].status = "running"
                      /\ attempts'[u][n].by = task'[u].assigned_to
    BY DEF ActiveTaskIsHeld, Active
  <2>1. u # t
    BY <1>2, <1>4
  <2> QED
    BY <1>1, <1>4, <1>5, <2>1 DEF ActiveTaskIsHeld, Active
<1>15. FinishedRowsAgree'
  BY <1>1, <1>2, <1>4 DEF FinishedRowsAgree
<1> QED
  BY <1>10, <1>11, <1>12, <1>13, <1>14, <1>15 DEF IInv, HistoryInv

\* Re-queuing a set of tasks, whatever their status by then.
LEMMA RequeueStep ==
  ASSUME IInv, TypeOK', NEW rows, requeue(rows), UNCHANGED <<req, crashes>>
  PROVE  IInv'
<1>1. TypeOK /\ ActiveTaskIsHeld /\ FinishedRowsAgree
  BY DEF IInv
<1>2. \A t \in Task :
        /\ t \notin rows => task'[t] = task[t] /\ attempts'[t] = attempts[t]
        /\ t \in rows => /\ task'[t].status = "queued" /\ task'[t].execution_status = "queued"
                         /\ task'[t].result = "none"
                         /\ attempts'[t] = CloseRunning(t, "failed")
  BY <1>1, RequeuedRowFields DEF requeue, TypeOK
<1>3. KeepsClaims
  BY <1>1, RequeuedRowFields DEF KeepsClaims, requeue, TypeOK
<1>4. ClosesOnly
  <2> SUFFICES ASSUME NEW t \in Task, NEW n \in Attempt, attempts'[t][n] # attempts[t][n]
               PROVE  /\ attempts[t][n].status = "running"
                      /\ attempts'[t][n].status \in {"failed", "cancelled"}
                      /\ attempts'[t][n].by = attempts[t][n].by
                      /\ attempts'[t][n].closed_by = attempts[t][n].closed_by
                      /\ attempts'[t][n].token = attempts[t][n].token
    BY DEF ClosesOnly
  <2>1. attempts[t][n] \in AttemptRow
    BY <1>1 DEF TypeOK
  <2> DEFINE b == [attempts[t][n] EXCEPT !.status = "failed"]
  <2>2. b.status = "failed" /\ b.by = attempts[t][n].by
        /\ b.closed_by = attempts[t][n].closed_by /\ b.token = attempts[t][n].token
    BY <2>1, AttemptUpdate
  <2>3. CloseRunning(t, "failed")[n] = IF attempts[t][n].status = "running" THEN b ELSE attempts[t][n]
    BY DEF CloseRunning
  <2>4. attempts'[t] = CloseRunning(t, "failed")
    BY <1>2
  <2> HIDE DEF b
  <2> QED
    BY <2>2, <2>3, <2>4
<1>5. ClaimsTracked' /\ HistoryInv'
  BY <1>3, <1>4, Frame
<1>6. ActiveTaskIsHeld'
  BY <1>1, <1>2 DEF ActiveTaskIsHeld, Active
<1>7. FinishedRowsAgree'
  BY <1>1, <1>2 DEF FinishedRowsAgree
<1> QED
  BY <1>5, <1>6, <1>7 DEF IInv

\* Cancelling a task in any status.
LEMMA CancelStep ==
  ASSUME IInv, TypeOK', NEW t \in Task, cancel_task(t)
  PROVE  IInv'
<1>1. TypeOK /\ ActiveTaskIsHeld /\ FinishedRowsAgree
  BY DEF IInv
<1>2. /\ task'[t].status = "cancelled" /\ task'[t].execution_status = "cancelled"
      /\ task'[t].result # "none"
      /\ \A u \in Task : u # t => task'[u] = task[u] /\ attempts'[u] = attempts[u]
      /\ attempts'[t] = CloseRunning(t, "cancelled")
  BY <1>1, CancelledRowFields DEF cancel_task, TypeOK
<1>3. KeepsClaims
  BY <1>1, CancelledRowFields DEF KeepsClaims, cancel_task, TypeOK
<1>4. ClosesOnly
  <2> SUFFICES ASSUME NEW u \in Task, NEW n \in Attempt, attempts'[u][n] # attempts[u][n]
               PROVE  /\ attempts[u][n].status = "running"
                      /\ attempts'[u][n].status \in {"failed", "cancelled"}
                      /\ attempts'[u][n].by = attempts[u][n].by
                      /\ attempts'[u][n].closed_by = attempts[u][n].closed_by
                      /\ attempts'[u][n].token = attempts[u][n].token
    BY DEF ClosesOnly
  <2>1. attempts[u][n] \in AttemptRow
    BY <1>1 DEF TypeOK
  <2> DEFINE b == [attempts[u][n] EXCEPT !.status = "cancelled"]
  <2>2. b.status = "cancelled" /\ b.by = attempts[u][n].by
        /\ b.closed_by = attempts[u][n].closed_by /\ b.token = attempts[u][n].token
    BY <2>1, AttemptUpdate
  <2>3. CloseRunning(u, "cancelled")[n] = IF attempts[u][n].status = "running" THEN b ELSE attempts[u][n]
    BY DEF CloseRunning
  <2>4. attempts'[u] = CloseRunning(u, "cancelled")
    BY <1>2
  <2> HIDE DEF b
  <2> QED
    BY <2>2, <2>3, <2>4
<1>5. UNCHANGED <<req, crashes>>
  BY DEF cancel_task
<1>6. ClaimsTracked' /\ HistoryInv'
  BY <1>3, <1>4, <1>5, Frame
<1>7. ActiveTaskIsHeld'
  BY <1>1, <1>2 DEF ActiveTaskIsHeld, Active
<1>8. FinishedRowsAgree'
  BY <1>1, <1>2, <1>5 DEF FinishedRowsAgree
<1> QED
  BY <1>6, <1>7, <1>8 DEF IInv

\* Every step of the registry and of its environment keeps the invariant.
LEMMA NextIInv == IInv /\ [Next]_vars => IInv'
<1> SUFFICES ASSUME IInv, [Next]_vars PROVE IInv'
  OBVIOUS
<1>0. TypeOK /\ TypeOK' /\ FinishedRowsAgree /\ \A t \in Task : task[t] \in Row
  BY NextTypeOK DEF IInv, TypeOK
<1>1. ASSUME NEW t \in Task, create_task_insert(t) PROVE IInv'
  <2> DEFINE r == [SetStatus(task[t], creating[t]) EXCEPT
                      !.notification_status = IF t \in ChatTask THEN "pending" ELSE "none"]
  <2>1. task' = [task EXCEPT ![t] = r] /\ UNCHANGED <<attempts, req, crashes>>
    BY <1>1 DEF create_task_insert
  <2>2. /\ r.status = creating[t] /\ r.execution_status = creating[t] /\ r.result = task[t].result
        /\ r.attempt_count = task[t].attempt_count /\ r.fence = task[t].fence
        /\ r.assigned_to = task[t].assigned_to
    BY <1>0 DEF SetStatus, Row
  <2>3. creating[t] \in {"queued", "observer_hold"}
    BY <1>0, <1>1 DEF create_task_insert, TypeOK
  <2>4. task[t].status = "absent"
    BY <1>1 DEF create_task_insert, Exists
  <2>5. task[t].result = "none"
    BY <1>0, <2>4 DEF FinishedRowsAgree
  <2>6. task'[t] = r /\ \A u \in Task : u # t => task'[u] = task[u]
    BY <1>0, <2>1 DEF TypeOK
  <2> HIDE DEF r
  <2>7. KeepsClaims
    BY <2>2, <2>6 DEF KeepsClaims
  <2> QED
    BY <1>0, <2>1, <2>2, <2>3, <2>5, <2>6, <2>7, RowStep DEF FinishedRowsAgree, Active
<1>2. ASSUME NEW t \in Task, NEW w \in Worker, claim_task(w, t) PROVE IInv'
  BY <1>0, <1>2, ClaimStep
<1>3. ASSUME NEW t \in Task, CompleteRead(t) PROVE IInv'
  BY <1>0, <1>3, ReadStep
<1>4. ASSUME UNCHANGED <<task, attempts, req, crashes>> PROVE IInv'
  BY <1>0, <1>4 DEF IInv, ClaimsTracked, HistoryInv, OneRunningAttempt, RunningAttempts, CompletionByClaimant,
     FencedCompletion, ActiveTaskIsHeld, Active, FinishedRowsAgree
<1>5. ASSUME NEW t \in Task, create_task_read(t) PROVE IInv'
  BY <1>4, <1>5 DEF create_task_read
<1>6. ASSUME NEW t \in Task, NEW s \in {"queued", "observer_hold"},
             task[t].execution_status \in {"queued", "observer_hold"},
             task' = [task EXCEPT ![t] = SetStatus(@, s)], UNCHANGED <<attempts, req, crashes>>
      PROVE  IInv'
  <2> DEFINE r == SetStatus(task[t], s)
  <2>1. /\ r.status = s /\ r.execution_status = s /\ r.result = task[t].result
        /\ r.attempt_count = task[t].attempt_count /\ r.fence = task[t].fence
        /\ r.assigned_to = task[t].assigned_to
    BY <1>0 DEF SetStatus, Row
  <2>2. task'[t] = r /\ \A u \in Task : u # t => task'[u] = task[u]
    BY <1>0, <1>6 DEF TypeOK
  <2> HIDE DEF r
  <2>3. KeepsClaims
    BY <2>1, <2>2 DEF KeepsClaims
  <2> QED
    BY <1>0, <1>6, <2>1, <2>2, <2>3, RowStep DEF FinishedRowsAgree, Active
<1>7. ASSUME NEW t \in Task, hold_task(t) \/ release_task(t) PROVE IInv'
  BY <1>6, <1>7 DEF hold_task, release_task
<1>8. ASSUME NEW t \in Task, cancel_task(t) PROVE IInv'
  BY <1>0, <1>8, CancelStep
<1>9. ASSUME NEW t \in Task, mark_notified(t) PROVE IInv'
  <2> DEFINE r == [task[t] EXCEPT !.notification_status = "sent"]
  <2>1. /\ r.status = task[t].status /\ r.execution_status = task[t].execution_status
        /\ r.result = task[t].result /\ r.attempt_count = task[t].attempt_count
        /\ r.fence = task[t].fence /\ r.assigned_to = task[t].assigned_to
    BY <1>0 DEF Row
  <2>2. /\ task'[t] = r /\ \A u \in Task : u # t => task'[u] = task[u]
        /\ UNCHANGED <<attempts, req, crashes>>
    BY <1>0, <1>9 DEF mark_notified, TypeOK
  <2> HIDE DEF r
  <2>3. KeepsClaims
    BY <2>1, <2>2 DEF KeepsClaims
  <2> QED
    BY <1>0, <2>1, <2>2, <2>3, RowStep DEF FinishedRowsAgree, Active
<1>10. ASSUME NEW t \in Task, update_progress(t) PROVE IInv'
  <2> DEFINE r == [task[t] EXCEPT !.execution_status = "running", !.lease = "live"]
  <2>1. /\ r.status = task[t].status /\ r.execution_status = "running"
        /\ r.result = task[t].result /\ r.attempt_count = task[t].attempt_count
        /\ r.fence = task[t].fence /\ r.assigned_to = task[t].assigned_to
    BY <1>0 DEF Row
  <2>2. /\ task'[t] = r /\ \A u \in Task : u # t => task'[u] = task[u]
        /\ UNCHANGED <<attempts, req, crashes>> /\ Active(t)
    BY <1>0, <1>10 DEF update_progress, TypeOK
  <2> HIDE DEF r
  <2>3. KeepsClaims
    BY <2>1, <2>2 DEF KeepsClaims
  <2> QED
    BY <1>0, <2>1, <2>2, <2>3, RowStep DEF FinishedRowsAgree, Active
<1>11. ASSUME NEW t \in Task, LeaseExpires(t) PROVE IInv'
  <2> DEFINE r == [task[t] EXCEPT !.lease = "expired"]
  <2>1. /\ r.status = task[t].status /\ r.execution_status = task[t].execution_status
        /\ r.result = task[t].result /\ r.attempt_count = task[t].attempt_count
        /\ r.fence = task[t].fence /\ r.assigned_to = task[t].assigned_to
    BY <1>0 DEF Row
  <2>2. /\ task'[t] = r /\ \A u \in Task : u # t => task'[u] = task[u]
        /\ UNCHANGED <<attempts, req, crashes>>
    BY <1>0, <1>11 DEF LeaseExpires, TypeOK
  <2> HIDE DEF r
  <2>3. KeepsClaims
    BY <2>1, <2>2 DEF KeepsClaims
  <2> QED
    BY <1>0, <2>1, <2>2, <2>3, RowStep DEF FinishedRowsAgree, Active
<1>12. ASSUME NEW q \in req, complete_task_write(q) PROVE IInv'
  BY <1>0, <1>12, WriteStep
<1>14. CASE set_observer_mode
  BY <1>4, <1>14 DEF set_observer_mode
<1>15. CASE recover_stale_tasks
  <2>1. CASE recover_select_leases \/ recover_select_pids
    BY <1>4, <2>1 DEF recover_select_leases, recover_select_pids
  <2>2. CASE recover_leases_and_pids \/ recover_pids
    BY <1>0, <2>2, RequeueStep DEF recover_leases_and_pids, recover_pids
  <2> QED
    BY <1>15, <2>1, <2>2 DEF recover_stale_tasks
<1>16. ASSUME NEW w \in Worker, WorkerDies(w) PROVE IInv'
  <2>1. \A u \in Task :
            /\ task'[u].status = task[u].status /\ task'[u].execution_status = task[u].execution_status
            /\ task'[u].result = task[u].result /\ task'[u].attempt_count = task[u].attempt_count
            /\ task'[u].fence = task[u].fence /\ task'[u].assigned_to = task[u].assigned_to
    BY <1>0, <1>16 DEF WorkerDies, Row
  <2>2. UNCHANGED <<attempts, req, crashes>>
    BY <1>16 DEF WorkerDies
  <2>3. KeepsClaims
    BY <2>1 DEF KeepsClaims
  <2> QED
    BY <1>0, <2>1, <2>2, <2>3, RowStep DEF FinishedRowsAgree, Active
<1>17. CASE ServiceCrash
  <2>1. req' = {} /\ crashes' > 0 /\ UNCHANGED <<task, attempts>>
    BY <1>0, <1>17, BoundAssumption DEF ServiceCrash, TypeOK
  <2>2. ClaimsTracked' /\ HistoryInv'
    BY <1>0, <2>1, Frame DEF KeepsClaims, ClosesOnly
  <2>3. ActiveTaskIsHeld' /\ FinishedRowsAgree'
    BY <2>1 DEF IInv, ActiveTaskIsHeld, Active, FinishedRowsAgree
  <2> QED
    BY <1>0, <2>2, <2>3 DEF IInv
<1>18. CASE UNCHANGED vars
  BY <1>4, <1>18 DEF vars
<1> QED
  BY <1>1, <1>2, <1>3, <1>5, <1>7, <1>8, <1>9, <1>10, <1>11, <1>12, <1>14,
     <1>15, <1>16, <1>17, <1>18 DEF Next

\* The empty registry satisfies the invariant.
LEMMA InitIInv == Init => IInv
<1> SUFFICES ASSUME Init PROVE IInv
  OBVIOUS
<1>1. \A t \in Task : task[t] = AbsentRow /\ \A n \in Attempt : attempts[t][n] = NoAttempt
  BY DEF Init
<1>2. req = {}
  BY DEF Init
<1>3. ClaimsTracked /\ ActiveTaskIsHeld /\ FinishedRowsAgree
  BY <1>1, <1>2 DEF ClaimsTracked, ActiveTaskIsHeld, Active, FinishedRowsAgree, AbsentRow
<1>4. HistoryInv
  BY <1>1 DEF HistoryInv, OneRunningAttempt, RunningAttempts, CompletionByClaimant, FencedCompletion, NoAttempt
<1> QED
  BY <1>3, <1>4, InitTypeOK DEF IInv

\* The invariant holds in every reachable state.
THEOREM Invariance == Spec => []IInv
BY InitIInv, NextIInv, PTL DEF Spec

\* However claims, delayed and repeated completions, recovery, cancellation and crashes interleave, a
\* task has at most one running attempt, its newest.
THEOREM RunningAttemptIsNewest == Spec => []OneRunningAttempt
BY Invariance, PTL DEF IInv, HistoryInv

\* A claimed or running task is held by the claim its row names.
THEOREM ActiveTasksHeld == Spec => []ActiveTaskIsHeld
BY Invariance, PTL DEF IInv

\* Rows and requests in flight follow the attempt history.
THEOREM ClaimsAreTracked == Spec => []ClaimsTracked
BY Invariance, PTL DEF IInv

\* An attempt is completed by its claimant or an observer, also when the write comes late.
THEOREM ClaimantCompletes == Spec => []CompletionByClaimant
BY Invariance, PTL DEF IInv, HistoryInv

\* A fenced completion never closes another claim's attempt.
THEOREM FenceHolds == Spec => []FencedCompletion
BY Invariance, PTL DEF IInv, HistoryInv

\* No active row looks completed, and no finished one looks active.
THEOREM RowsAgree == Spec => []FinishedRowsAgree
BY Invariance, PTL DEF IInv

-----------------------------------------------------------------------------
\* What ClosedAttemptsFrozen says of one step.
HistoryKept ==
    \A t \in Task :
        /\ task'[t].attempt_count >= task[t].attempt_count
        /\ \A n \in Attempt :
             attempts[t][n].status \notin {"none", "running"} => attempts'[t][n] = attempts[t][n]

\* Every statement that touches task_attempts either inserts a new number or
\* asks for rows that are running.
LEMMA StepKeepsHistory == IInv /\ [Next]_vars => HistoryKept
<1> SUFFICES ASSUME IInv, [Next]_vars PROVE HistoryKept
  OBVIOUS
<1>0. /\ TypeOK /\ ClaimsTracked
      /\ \A t \in Task : task[t] \in Row /\ task[t].attempt_count \in Nat
  BY BoundAssumption DEF IInv, TypeOK, Row
<1>1. ASSUME attempts' = attempts, \A t \in Task : task'[t].attempt_count = task[t].attempt_count
      PROVE  HistoryKept
  BY <1>0, <1>1 DEF HistoryKept
<1>2. ASSUME NEW t \in Task, create_task_insert(t) PROVE HistoryKept
  BY <1>0, <1>1, <1>2 DEF create_task_insert, SetStatus, TypeOK, Row
<1>3. ASSUME NEW t \in Task, NEW w \in Worker, claim_task(w, t) PROVE HistoryKept
  <2> DEFINE n == task[t].attempt_count + 1
  <2>1. n \in Attempt /\ n > task[t].attempt_count
    BY <1>0, <1>3 DEF claim_task
  <2>2. attempts[t][n].status = "none"
    BY <1>0, <2>1 DEF ClaimsTracked, NoAttempt
  <2>3. task'[t].attempt_count = n /\ \A u \in Task : u # t => task'[u] = task[u] /\ attempts'[u] = attempts[u]
    BY <1>0, <1>3 DEF claim_task, ClaimedRow, TypeOK, Row
  <2>4. \A m \in Attempt : m # n => attempts'[t][m] = CloseRunning(t, "failed")[m]
    BY <1>0, <1>3, <2>1 DEF claim_task, TypeOK, CloseRunning
  <2>5. \A m \in Attempt : attempts[t][m].status # "running" => CloseRunning(t, "failed")[m] = attempts[t][m]
    BY DEF CloseRunning
  <2> QED
    BY <1>0, <2>1, <2>2, <2>3, <2>4, <2>5 DEF HistoryKept
<1>4. ASSUME NEW t \in Task, CompleteRead(t) PROVE HistoryKept
  BY <1>1, <1>4 DEF CompleteRead, complete_task_read
<1>5. ASSUME NEW t \in Task, create_task_read(t) PROVE HistoryKept
  BY <1>1, <1>5 DEF create_task_read
<1>6. ASSUME NEW t \in Task, hold_task(t) PROVE HistoryKept
  BY <1>0, <1>1, <1>6 DEF hold_task, SetStatus, TypeOK, Row
<1>7. ASSUME NEW t \in Task, release_task(t) PROVE HistoryKept
  BY <1>0, <1>1, <1>7 DEF release_task, SetStatus, TypeOK, Row
<1>8. ASSUME NEW t \in Task, cancel_task(t) PROVE HistoryKept
  <2>1. /\ \A u \in Task : task'[u].attempt_count = task[u].attempt_count
        /\ attempts'[t] = CloseRunning(t, "cancelled")
        /\ \A u \in Task : u # t => attempts'[u] = attempts[u]
    BY <1>0, <1>8, CancelledRowFields DEF cancel_task, TypeOK
  <2>2. \A m \in Attempt : attempts[t][m].status # "running" => CloseRunning(t, "cancelled")[m] = attempts[t][m]
    BY DEF CloseRunning
  <2> QED
    BY <1>0, <2>1, <2>2 DEF HistoryKept
<1>9. ASSUME NEW t \in Task, mark_notified(t) PROVE HistoryKept
  BY <1>0, <1>1, <1>9 DEF mark_notified, TypeOK, Row
<1>10. ASSUME NEW t \in Task, update_progress(t) PROVE HistoryKept
  BY <1>0, <1>1, <1>10 DEF update_progress, TypeOK, Row
<1>11. ASSUME NEW t \in Task, LeaseExpires(t) PROVE HistoryKept
  BY <1>0, <1>1, <1>11 DEF LeaseExpires, TypeOK, Row
<1>12. ASSUME NEW q \in req, complete_task_write(q) PROVE HistoryKept
  <2>1. q \in Request /\ q.task \in Task
    BY <1>0 DEF TypeOK, Request
  <2>2. /\ \A u \in Task : task'[u].attempt_count = task[u].attempt_count
        /\ attempts'[q.task] = CompletedAttempts(attempts[q.task], q)
        /\ \A u \in Task : u # q.task => attempts'[u] = attempts[u]
    BY <1>0, <1>12, <2>1, CompletedRowFields DEF complete_task_write, TypeOK
  <2>3. \A m \in Attempt : attempts[q.task][m].status # "running" =>
            CompletedAttempts(attempts[q.task], q)[m] = attempts[q.task][m]
    BY DEF CompletedAttempts
  <2> QED
    BY <1>0, <2>1, <2>2, <2>3 DEF HistoryKept
<1>14. CASE set_observer_mode \/ ServiceCrash \/ UNCHANGED vars
  BY <1>1, <1>14 DEF set_observer_mode, ServiceCrash, vars
<1>15. ASSUME NEW rows, requeue(rows) PROVE HistoryKept
  <2>1. \A u \in Task : task'[u].attempt_count = task[u].attempt_count
    BY <1>0, <1>15, RequeuedRowFields DEF requeue
  <2>2. \A u \in Task : attempts'[u] \in {attempts[u], CloseRunning(u, "failed")}
    BY <1>15 DEF requeue
  <2>3. \A u \in Task, m \in Attempt :
            attempts[u][m].status # "running" => CloseRunning(u, "failed")[m] = attempts[u][m]
    BY DEF CloseRunning
  <2> QED
    BY <1>0, <2>1, <2>2, <2>3 DEF HistoryKept
<1>16. CASE recover_stale_tasks
  BY <1>1, <1>15, <1>16 DEF recover_stale_tasks, recover_select_leases, recover_select_pids,
     recover_leases_and_pids, recover_pids
<1>17. ASSUME NEW w \in Worker, WorkerDies(w) PROVE HistoryKept
  BY <1>0, <1>1, <1>17 DEF WorkerDies, Row
<1> QED
  BY <1>2, <1>3, <1>4, <1>5, <1>6, <1>7, <1>8, <1>9, <1>10, <1>11, <1>12, <1>14,
     <1>16, <1>17 DEF Next

\* Closed attempts are never rewritten and attempt numbers never go back.
THEOREM HistoryIsAppendOnly == Spec => ClosedAttemptsFrozen
<1>1. IInv /\ [Next]_vars =>
        [\A t \in Task :
         /\ task'[t].attempt_count >= task[t].attempt_count
         /\ \A n \in Attempt :
              attempts[t][n].status \notin {"none", "running"} => attempts'[t][n] = attempts[t][n]]_vars
  BY StepKeepsHistory DEF HistoryKept
<1> QED
  BY <1>1, Invariance, PTL DEF Spec, ClosedAttemptsFrozen
=============================================================================
