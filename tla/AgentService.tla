---------------------------- MODULE AgentService ----------------------------
(***************************************************************************)
(* The CLI agent service (src/agent/cli_agent_service/service.py,          *)
(* scheduler.py and supervisor.py) on top of its registry: daemons that    *)
(* serve one request at a time on a Unix socket, admit one run per         *)
(* execution ticket (and successors of runs that failed), spawn a process  *)
(* for it and watch it from a monitor thread. A daemon may crash at any    *)
(* point; its processes run in sessions of their own and survive it, and   *)
(* the next daemon reconciles the registry with what it finds.             *)
(*                                                                         *)
(* A daemon is one incarnation: it starts once, and its owner_id is its    *)
(* pid. Run <<t, 0>> is the canonical run of ticket t, <<t, k>> its k-th   *)
(* retry. The steps of the registry are those of AgentRegistry.            *)
(*                                                                         *)
(* Left out: matching a ticket against the authority's answer, host        *)
(* envelopes, receipts, managed profile homes beyond their success or      *)
(* failure, desktop hosts and profile operations.                          *)
(***************************************************************************)
EXTENDS AgentRegistry

CONSTANTS
    Ticket,       \* execution tickets
    MaxAttempts,  \* retry_policy.max_attempts of every ticket
    Overlap,      \* whether a daemon may be started while another is alive
    ProbeFaults,  \* whether reading a live process's identity may fail
    MaxCrashes    \* bound: daemon crashes

ASSUME AttemptAssumption == MaxAttempts \in Nat /\ Run = Ticket \X (0..MaxAttempts)
ASSUME FlagAssumption == Overlap \in BOOLEAN /\ ProbeFaults \in BOOLEAN /\ MaxCrashes \in Nat
ASSUME DaemonAssumption == Reconciler = Client /\ SignalTarget = {}

VARIABLES
    daemon,   \* per daemon: where its main thread is, and the request it serves
    sock,     \* the daemon the socket path leads to
    proc,     \* the process spawned for a run
    monitor,  \* the monitor thread of a run
    crashes   \* daemon crashes so far

serviceVars == <<daemon, sock, proc, monitor, crashes>>
vars == <<registryVars, serviceVars>>

NoRun == <<>>
Phase == {"off", "scan", "rows", "idle", "evaluate", "reserve", "start", "spawn", "record", "watch",
          "fail", "dead"}

\* run is the run of the request, or the one reconcile_runs is at once it knows what the probe shows.
Daemon == [phase : Phase, run : Run \cup {NoRun}, probe : Probe \cup {"none"},
           eligible : SUBSET Profile, stop : BOOLEAN]

\* alive, or the exit code its parent would collect.
Process == {"none", "alive"} \cup ExitCode
Monitor == [by : Client \cup {"none"}, phase : {"none", "watch", "report"}, cancelled : BOOLEAN,
            code : ExitCode \cup {"none"}]

Off == [phase |-> "off", run |-> NoRun, probe |-> "none", eligible |-> {}, stop |-> FALSE]
NoMonitor == [by |-> "none", phase |-> "none", cancelled |-> FALSE, code |-> "none"]

\* The profiles were registered by profile operations.
Init ==
    /\ RegistryInit
    /\ profile = [p \in Profile |-> ReadyProfile]
    /\ daemon = [d \in Client |-> Off]
    /\ sock = "none"
    /\ proc = [r \in Run |-> "none"]
    /\ monitor = [r \in Run |-> NoMonitor]
    /\ crashes = 0

Alive(d) == daemon[d].phase \notin {"off", "dead"}
Goto(d, phase) == [daemon EXCEPT ![d].phase = phase]
Done(d) == [daemon EXCEPT ![d] = [Off EXCEPT !.phase = "idle", !.stop = daemon[d].stop]]

\* The daemon waits for a request.
Serving(d) == daemon[d].phase = "idle" /\ ~daemon[d].stop

\* The monitors after the threads of daemon d are gone.
Unwatched(d) == [r \in Run |-> IF monitor[r].by = d THEN NoMonitor ELSE monitor[r]]

-----------------------------------------------------------------------------
(* Start, reconciliation and end of a daemon *)

(***************************************************************************)
(* _remove_stale_socket: the socket path is missing, or its daemon does    *)
(* not answer the health request, because it is gone or because its main   *)
(* thread is busy with a request for longer than the 0.2 s timeout.        *)
(***************************************************************************)
StaleSocket == sock \in Client => ~Serving(sock)

serve_forever(d) ==
    /\ daemon[d].phase = "off"
    /\ StaleSocket
    /\ Overlap \/ \A e \in Client : ~Alive(e)
    /\ daemon' = Goto(d, "scan")
    /\ sock' = "none"
    /\ UNCHANGED <<registryVars, proc, monitor, crashes>>

ScanRuns(d) ==
    /\ daemon[d].phase = "scan"
    /\ ReconcileRead(d)
    /\ daemon' = Goto(d, "rows")
    /\ UNCHANGED <<sock, proc, monitor, crashes>>

\* The process of run r has a parent that has not waited for it.
Unreaped(r) ==
    monitor[r].phase = "watch" \/ \E d \in Client : daemon[d].phase = "watch" /\ daemon[d].run = r

(***************************************************************************)
(* What process_start_identity tells of the pid stored for run r. A dead   *)
(* process keeps its identity until it is reaped; later its pid may be     *)
(* reused. The reader also returns None when it cannot find out, and None  *)
(* is taken for an absent process.                                         *)
(***************************************************************************)
Probes(r) ==
    IF proc[r] = "alive"
    THEN {"match"} \cup (IF ProbeFaults THEN {"gone"} ELSE {})
    ELSE {"gone", "other"} \cup (IF Unreaped(r) THEN {"match"} ELSE {})

\* reconcile_runs looks at the process of run r ...
ProbeRun(d, r) ==
    /\ daemon[d].phase = "rows" /\ daemon[d].probe = "none"
    /\ r \in DOMAIN scan[d]
    /\ \E probe \in Probes(r) : daemon' = [daemon EXCEPT ![d].run = r, ![d].probe = probe]
    /\ UNCHANGED <<registryVars, sock, proc, monitor, crashes>>

\* ... and then writes the row in a transaction.
ReconcileRun(d) ==
    /\ daemon[d].phase = "rows" /\ daemon[d].probe # "none"
    /\ ReconcileRow(d, daemon[d].run, daemon[d].probe)
    /\ daemon' = [daemon EXCEPT ![d].run = NoRun, ![d].probe = "none"]
    /\ UNCHANGED <<sock, proc, monitor, crashes>>

\* server.bind: it fails when another daemon has bound the path, and the clean-up removes the path.
Bind(d) ==
    /\ daemon[d].phase = "rows" /\ scan[d] = NoScan
    /\ \/ sock = "none" /\ sock' = d /\ daemon' = Done(d)
       \/ sock # "none" /\ sock' = "none" /\ daemon' = [daemon EXCEPT ![d] = [Off EXCEPT !.phase = "dead"]]
    /\ UNCHANGED <<registryVars, proc, monitor, crashes>>

\* Bound: the incarnations of the daemon. The last one does not end.
Replaceable(d) == \E e \in Client \ {d} : daemon[e].phase # "dead"

(***************************************************************************)
(* A stop request, SIGTERM in the middle of anything, or an error that     *)
(* ends the loop of serve_forever: a request under way is still finished.  *)
(***************************************************************************)
stop(d) ==
    /\ Alive(d) /\ ~daemon[d].stop /\ Replaceable(d)
    /\ daemon' = [daemon EXCEPT ![d].stop = TRUE]
    /\ UNCHANGED <<registryVars, sock, proc, monitor, crashes>>

\* cancel_run, called by cancel_all: the event is set and the process group terminated.
cancel_run(d, r) ==
    /\ daemon[d].stop
    /\ monitor[r].by = d /\ ~monitor[r].cancelled
    /\ monitor' = [monitor EXCEPT ![r].cancelled = TRUE]
    /\ \/ proc[r] = "alive" /\ \E code \in ExitCode : proc' = [proc EXCEPT ![r] = code]
       \/ proc[r] # "alive" /\ proc' = proc
    /\ UNCHANGED <<registryVars, daemon, sock, crashes>>

\* The daemon leaves once cancel_all is through; it does not wait for its monitor threads.
Leave(d) ==
    /\ daemon[d].phase = "idle" /\ daemon[d].stop
    /\ \A r \in Run : monitor[r].by = d => monitor[r].cancelled
    /\ daemon' = [daemon EXCEPT ![d] = [Off EXCEPT !.phase = "dead"]]
    /\ sock' = "none"
    /\ monitor' = Unwatched(d)
    /\ UNCHANGED <<registryVars, proc, crashes>>

\* The socket file stays, and so do the rows the daemon had read but not written, which nobody uses.
Crash(d) ==
    /\ Alive(d) /\ Replaceable(d) /\ crashes < MaxCrashes
    /\ daemon' = [daemon EXCEPT ![d] = [Off EXCEPT !.phase = "dead"]]
    /\ monitor' = Unwatched(d)
    /\ crashes' = crashes + 1
    /\ UNCHANGED <<registryVars, sock, proc>>

-----------------------------------------------------------------------------
(* One request: _admit_governed_host_envelope_run *)

Retryable == {"failed", "lost"}

\* Seeded fault: an orphaned run is retried too.
AdmissibleOrphan(t, k) ==
    /\ run[<<t, k>>].state = "absent"
    /\ \A j \in 0..(k - 1) : run[<<t, j>>].state \in Retryable \cup {"orphaned"}

\* Seeded fault: a run that completed is followed by another one too.
AdmissibleAfterSuccess(t, k) ==
    /\ run[<<t, k>>].state = "absent"
    /\ \A j \in 0..(k - 1) : run[<<t, j>>].state \in Retryable \cup {"completed"}

(***************************************************************************)
(* The run a request for ticket t is admitted as: the canonical run, or    *)
(* the first retry that does not exist once every run before it is over    *)
(* without success.                                                        *)
(***************************************************************************)
Admissible(t, k) ==
    /\ run[<<t, k>>].state = "absent"
    /\ \A j \in 0..(k - 1) : run[<<t, j>>].state \in Retryable

\* The request may have been queued before the socket path was taken from the daemon.
Admit(d, t, k) ==
    /\ Serving(d)
    /\ Admissible(t, k)
    /\ daemon' = [daemon EXCEPT ![d].phase = "evaluate", ![d].run = <<t, k>>]
    /\ UNCHANGED <<registryVars, sock, proc, monitor, crashes>>

\* evaluate_profiles: the capacity of every profile, each brought up to date as it is read.
EvaluateProfiles(d) ==
    /\ daemon[d].phase = "evaluate"
    /\ profile_capacity(Registered)
    /\ daemon' = [daemon EXCEPT ![d].phase = "reserve",
                                ![d].eligible = {p \in Profile : profile'[p].state = "ready"}]
    /\ UNCHANGED <<sock, proc, monitor, crashes>>

\* Seeded fault: a run id that exists is reserved again.
ReserveAgain(d, p) ==
    /\ daemon[d].phase = "reserve" /\ p \in daemon[d].eligible
    /\ register_run_and_acquire_lease(d, daemon[d].run, p)
    /\ daemon' = Goto(d, "start")
    /\ UNCHANGED <<sock, proc, monitor, crashes>>

(***************************************************************************)
(* schedule_run tries the eligible profiles in turn (the request sets the  *)
(* order); require_new_run makes it refuse a run id that exists.           *)
(***************************************************************************)
Reserve(d, p) ==
    /\ daemon[d].phase = "reserve" /\ p \in daemon[d].eligible
    /\ run[daemon[d].run].state = "absent"
    /\ register_run_and_acquire_lease(d, daemon[d].run, p)
    /\ daemon' = Goto(d, "start")
    /\ UNCHANGED <<sock, proc, monitor, crashes>>

\* register_run_and_acquire_lease may raise LeaseConflictError for run r and profile p.
Conflict(r, p) ==
    \E L \in LapsedView, E \in ElapsedView : ~Granted(r, WithRun(r, p), L, E)

ReserveConflict(d, p) ==
    /\ daemon[d].phase = "reserve" /\ p \in daemon[d].eligible
    /\ Conflict(daemon[d].run, p)
    /\ daemon' = [daemon EXCEPT ![d].eligible = @ \ {p}]
    /\ UNCHANGED <<registryVars, sock, proc, monitor, crashes>>

\* No profile is left, and they are evaluated again; or another daemon has registered the run.
Refuse(d) ==
    /\ daemon[d].phase = "reserve"
    /\ \/ daemon[d].eligible = {} /\ profile_capacity(Registered)
       \/ run[daemon[d].run].state # "absent" /\ UNCHANGED registryVars
    /\ daemon' = Done(d)
    /\ UNCHANGED <<sock, proc, monitor, crashes>>

\* The profile's home cannot be used: the admission is recorded as failed.
ProfileUnavailable(d) ==
    /\ daemon[d].phase = "start"
    /\ daemon' = Goto(d, "fail")
    /\ UNCHANGED <<registryVars, sock, proc, monitor, crashes>>

\* start_run takes the lease again: it keeps the one it has, or takes a new one if that has lapsed.
start_run(d) ==
    LET r == daemon[d].run
    IN  /\ daemon[d].phase = "start"
        /\ RetainLease(d, r) \/ register_run_and_acquire_lease(d, r, run[r].profile)
        /\ daemon' = Goto(d, "spawn")
        /\ UNCHANGED <<sock, proc, monitor, crashes>>

\* Staging or start_run fails: the failure is recorded only if the run still shows an active lease.
StartFails(d) ==
    /\ daemon[d].phase = "start"
    /\ \/ Active(lease[daemon[d].run]) /\ daemon' = Goto(d, "fail")
       \/ ~Active(lease[daemon[d].run]) /\ daemon' = Done(d)
    /\ UNCHANGED <<registryVars, sock, proc, monitor, crashes>>

Spawn(d) ==
    /\ daemon[d].phase = "spawn"
    /\ proc' = [proc EXCEPT ![daemon[d].run] = "alive"]
    /\ daemon' = Goto(d, "record")
    /\ UNCHANGED <<registryVars, sock, monitor, crashes>>

\* Seeded fault: a failed spawn answers the request and records nothing.
SpawnFailsQuietly(d) ==
    /\ daemon[d].phase = "spawn"
    /\ daemon' = Done(d)
    /\ UNCHANGED <<registryVars, sock, proc, monitor, crashes>>

SpawnFails(d) ==
    /\ daemon[d].phase = "spawn"
    /\ daemon' = Goto(d, "fail")
    /\ UNCHANGED <<registryVars, sock, proc, monitor, crashes>>

RecordStart(d) ==
    /\ daemon[d].phase = "record"
    /\ record_process_start(daemon[d].run)
    /\ daemon' = Goto(d, "watch")
    /\ UNCHANGED <<sock, proc, monitor, crashes>>

StartMonitor(d) ==
    /\ daemon[d].phase = "watch"
    /\ monitor' = [monitor EXCEPT ![daemon[d].run] = [NoMonitor EXCEPT !.by = d, !.phase = "watch"]]
    /\ daemon' = Done(d)
    /\ UNCHANGED <<registryVars, sock, proc, crashes>>

\* Seeded fault: the failure is recorded and the process left running.
LeaveSpawned(d) ==
    /\ daemon[d].phase \in {"record", "watch"}
    /\ daemon' = Goto(d, "fail")
    /\ UNCHANGED <<registryVars, sock, proc, monitor, crashes>>

(***************************************************************************)
(* Something fails once the process is there (its identity cannot be read, *)
(* its lease is gone, a receipt cannot be written): it is killed ...       *)
(***************************************************************************)
KillSpawned(d) ==
    /\ daemon[d].phase \in {"record", "watch"}
    /\ proc' = [proc EXCEPT ![daemon[d].run] = IF @ = "alive" THEN "nonzero" ELSE @]
    /\ daemon' = Goto(d, "fail")
    /\ UNCHANGED <<registryVars, sock, monitor, crashes>>

\* ... and the run recorded as failed (record_exit with code 127).
FailStart(d) ==
    /\ daemon[d].phase = "fail"
    /\ record_exit(daemon[d].run, "nonzero")
    /\ daemon' = Done(d)
    /\ UNCHANGED <<sock, proc, monitor, crashes>>

-----------------------------------------------------------------------------
(* The monitor thread of a run, and its process *)

Watching(r) == monitor[r].phase = "watch"

\* The process may have ended since it was polled.
MonitorHeartbeat(r) ==
    /\ Watching(r)
    /\ heartbeat(monitor[r].by, r)
    /\ UNCHANGED serviceVars

\* The lease is gone or a receipt cannot be written: the process is terminated; it may exit with 0.
HeartbeatFails(r) ==
    /\ Watching(r) /\ proc[r] = "alive"
    /\ \E code \in ExitCode : proc' = [proc EXCEPT ![r] = code]
    /\ UNCHANGED <<registryVars, daemon, sock, monitor, crashes>>

\* Seeded fault: the exit code is taken without waiting for the process.
ReapUnpolled(r) ==
    /\ Watching(r)
    /\ monitor' = [monitor EXCEPT ![r].phase = "report", ![r].code = proc[r]]
    /\ UNCHANGED <<registryVars, daemon, sock, proc, crashes>>

\* The process is reaped; a cancellation seen now overrides its exit code (130).
Reap(r) ==
    /\ Watching(r) /\ proc[r] \in ExitCode
    /\ monitor' = [monitor EXCEPT ![r].phase = "report",
                                  ![r].code = IF monitor[r].cancelled THEN "nonzero" ELSE proc[r]]
    /\ UNCHANGED <<registryVars, daemon, sock, proc, crashes>>

\* Seeded fault: the thread ends without recording the exit.
ReportNothing(r) ==
    /\ monitor[r].phase = "report"
    /\ monitor' = [monitor EXCEPT ![r] = NoMonitor]
    /\ UNCHANGED <<registryVars, daemon, sock, proc, crashes>>

Report(r) ==
    /\ monitor[r].phase = "report"
    /\ record_exit(r, monitor[r].code)
    /\ monitor' = [monitor EXCEPT ![r] = NoMonitor]
    /\ UNCHANGED <<daemon, sock, proc, crashes>>

ProcessExits(r, code) ==
    /\ proc[r] = "alive"
    /\ proc' = [proc EXCEPT ![r] = code]
    /\ UNCHANGED <<registryVars, daemon, sock, monitor, crashes>>

LeaseTimesOut(r) == LeaseLapses(r) /\ UNCHANGED serviceVars

-----------------------------------------------------------------------------
RequestStep(d) ==
    \/ EvaluateProfiles(d) \/ Refuse(d) \/ ProfileUnavailable(d) \/ start_run(d) \/ StartFails(d)
    \/ Spawn(d) \/ SpawnFails(d) \/ RecordStart(d) \/ StartMonitor(d) \/ KillSpawned(d) \/ FailStart(d)
    \/ \E p \in Profile : Reserve(d, p) \/ ReserveConflict(d, p)

RestartStep(d) == ScanRuns(d) \/ Bind(d) \/ ReconcileRun(d) \/ \E r \in Run : ProbeRun(d, r)

StopStep(d) == Leave(d) \/ \E r \in Run : cancel_run(d, r)

MonitorStep(r) == MonitorHeartbeat(r) \/ HeartbeatFails(r) \/ Reap(r) \/ Report(r)

Next ==
    \/ \E d \in Client : serve_forever(d) \/ RestartStep(d) \/ stop(d) \/ StopStep(d) \/ Crash(d)
    \/ \E d \in Client, t \in Ticket, k \in 0..MaxAttempts : Admit(d, t, k)
    \/ \E d \in Client : RequestStep(d)
    \/ \E r \in Run : MonitorStep(r) \/ LeaseTimesOut(r)
    \/ \E r \in Run, code \in ExitCode : ProcessExits(r, code)

Spec == Init /\ [][Next]_vars

(***************************************************************************)
(* A daemon keeps running its threads, and launchd starts the next one     *)
(* when it dies. A process need not exit and nobody need ask for a run.    *)
(***************************************************************************)
Fairness ==
    /\ \A d \in Client : WF_vars(serve_forever(d)) /\ WF_vars(RestartStep(d)) /\ WF_vars(StopStep(d))
                         /\ WF_vars(RequestStep(d))
    /\ \A r \in Run : WF_vars(Reap(r)) /\ WF_vars(Report(r))

FairSpec == Spec /\ Fairness

-----------------------------------------------------------------------------
(* Properties *)

\* Type invariant: where daemons, processes and monitors can be.
TypeOK ==
    /\ RegistryTypeOK
    /\ daemon \in [Client -> Daemon]
    /\ sock \in Client \cup {"none"}
    /\ proc \in [Run -> Process]
    /\ monitor \in [Run -> Monitor]
    /\ crashes \in 0..MaxCrashes

Over(r) == run[r].state \in {"completed", "failed", "lost"}

(***************************************************************************)
(* A run is recorded as over only when its process is gone, through        *)
(* crashes, restarts and lapsed leases: what allows a retry is certain.    *)
(***************************************************************************)
OverIsDead == \A r \in Run : Over(r) => proc[r] # "alive"

(***************************************************************************)
(* "never duplicate-spawn an uncertain run": the runs of one ticket never  *)
(* have two live processes, whatever a restarted daemon could find out.    *)
(***************************************************************************)
OneProcessPerTicket ==
    \A t \in Ticket : Cardinality({k \in 0..MaxAttempts : proc[<<t, k>>] = "alive"}) <= 1

(***************************************************************************)
(* A result is kept: once a run is completed or failed, no later exit,     *)
(* lease or reconciliation changes it ("terminal host result retained").   *)
(***************************************************************************)
ResultRetained ==
    [][\A r \in Run : run[r].state \in TerminalResult => run'[r].state = run[r].state]_vars

(***************************************************************************)
(* A ticket whose run completed is closed: none of its other runs is under *)
(* way or completes as well.                                               *)
(***************************************************************************)
CompletedClosesTicket ==
    \A r, q \in Run : r[1] = q[1] /\ r # q /\ run[r].state = "completed" =>
                          run[q].state \in Retryable \cup {"absent"}

\* Daemon d has reserved a profile for run r and not yet handed it to a monitor or recorded its failure.
Attends(d, r) == daemon[d].phase \in {"start", "spawn", "record", "watch", "fail"} /\ daemon[d].run = r

(***************************************************************************)
(* No run is left over: once a daemon serves requests, every run that the  *)
(* registry shows as leased or running is in the hands of the daemon's     *)
(* request or of a monitor thread, wherever the daemons before it died.    *)
(***************************************************************************)
RunsAttended ==
    \A d \in Client : daemon[d].phase \notin {"off", "scan", "rows", "dead"} =>
        \A r \in Run : run[r].state \in {"leased", "running"} =>
            monitor[r].phase # "none" \/ Attends(d, r)

(***************************************************************************)
(* "Mark the run failed or lost": when the process of a started run ends,  *)
(* the run is eventually recorded as over.                                 *)
(***************************************************************************)
ExitNoticed == \A r \in Run : (run[r].pid /\ proc[r] \in ExitCode) ~> Over(r)

(***************************************************************************)
(* No admission is left hanging: a run that reserved a profile is started  *)
(* or recorded as failed, also when its lease lapses in between.           *)
(***************************************************************************)
AdmissionSettles == \A r \in Run : run[r].state = "leased" ~> run[r].state # "leased"

-----------------------------------------------------------------------------
(***************************************************************************)
(* Refinement of TicketAttempts: a run is held while the daemon that       *)
(* reserved it may still spawn its process.                                *)
(***************************************************************************)
Unspawned(r) == \E d \in Client : daemon[d].phase \in {"start", "spawn"} /\ daemon[d].run = r

Standing(r) ==
    IF run[r].state = "absent" THEN "open"
    ELSE IF Unspawned(r) THEN "held"
    ELSE IF proc[r] = "alive" THEN "alive"
    ELSE "over"

Attempts == INSTANCE TicketAttempts WITH attempt <- [r \in Run |-> Standing(r)]

(***************************************************************************)
(* The runs of a ticket implement TicketAttempts: no run is spawned twice, *)
(* and none is reserved before those before it are over for good, however  *)
(* daemons overlap, crash and act on what they read earlier.               *)
(***************************************************************************)
AttemptsInTurn == Attempts!AttemptsSpec
=============================================================================
