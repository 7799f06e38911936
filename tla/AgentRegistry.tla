---------------------------- MODULE AgentRegistry ----------------------------
(***************************************************************************)
(* The host-private registry of the CLI agent service                      *)
(* (src/agent/cli_agent_service/registry.py and db.py): agent profiles and *)
(* their availability, runs, and the leases that reserve the capacity of a *)
(* profile for a run.                                                      *)
(*                                                                         *)
(* Every operation runs in BEGIN IMMEDIATE transactions, so an action is   *)
(* one transaction. record_profile_signal and reconcile_runs use several:  *)
(* they read first and write later, with what they read kept in signal and *)
(* scan. An operation that raises rolls its transaction back, the expiry   *)
(* of leases included, and is a stuttering step here.                      *)
(*                                                                         *)
(* Time is abstracted to what a comparison with the clock can tell: a      *)
(* lease lapses, a deadline passes. The code reads the clock before it     *)
(* waits for the write lock (and reconcile_runs once for all its rows), so *)
(* a transaction may or may not see a lapse: it picks a view, the lapsed   *)
(* leases L and the elapsed deadlines E that its clock shows.              *)
(*                                                                         *)
(* Left out: profile and run payloads, which are immutable once stored,    *)
(* reason codes, argv hashes and receipts.                                 *)
(***************************************************************************)
EXTENDS Naturals, FiniteSets

CONSTANTS
    Run,             \* run ids
    Profile,         \* profile ids
    Client,          \* who calls the registry; its owner_id in leases
    MaxConcurrency,  \* the max_concurrency column
    Reconciler,      \* the clients that call reconcile_runs
    SignalTarget,    \* the profile states that signals ask for
    MaxSignals       \* bound: the consecutive_crashes column

ASSUME RunAssumption == IsFiniteSet(Run)
ASSUME ConcurrencyAssumption == MaxConcurrency \in [Profile -> Nat \ {0}]
ASSUME SignalsAssumption == MaxSignals \in Nat

ASSUME ClientAssumption == Reconciler \subseteq Client /\ "none" \notin Client

VARIABLES
    profile,  \* agent_profiles joined with agent_profile_states
    run,      \* agent_runs
    lease,    \* the active row of agent_leases of each run, if any
    scan,     \* the rows a call of reconcile_runs has read and not yet written
    signal    \* the call of record_profile_signal under way, if any

registryVars == <<profile, run, lease, scan, signal>>

ProfileState == {"ready", "busy", "cooling_down", "quota_exhausted", "auth_required", "unhealthy",
                 "disabled"}
ASSUME TargetAssumption == SignalTarget \subseteq ProfileState

Timed == {"cooling_down", "unhealthy", "quota_exhausted"}
TerminalResult == {"completed", "failed"}
RunState == {"registered", "leased", "running", "live", "completed", "failed", "lost", "orphaned"}
ExitCode == {"zero", "nonzero"}

\* deadline stands for the one of cooldown_until and quota_reset_at that belongs to the state.
ProfileRow == [state : ProfileState \cup {"absent"}, deadline : {"none", "ahead", "elapsed"},
               crashes : 0..MaxSignals]

\* pid says whether pid and process_start_identity are stored.
RunRow == [state : RunState \cup {"absent"}, profile : Profile \cup {"none"}, pid : BOOLEAN,
           exit : ExitCode \cup {"none"}]

\* fresh: expires_at is still ahead. A lease that is over is never read again, so it is no lease.
LeaseRow == [owner : Client \cup {"none"}, fresh : BOOLEAN]

\* What reconcile_runs reads of a run; held: it has an active lease that has not expired.
ScanRow == [state : RunState, pid : BOOLEAN, exit : ExitCode \cup {"none"}, held : BOOLEAN]

Signal == [target : ProfileState, profile : Profile, deadline : {"none", "ahead", "elapsed"},
           crashes : 0..MaxSignals]

AbsentProfile == [state |-> "absent", deadline |-> "none", crashes |-> 0]
ReadyProfile == [state |-> "ready", deadline |-> "none", crashes |-> 0]
AbsentRun == [state |-> "absent", profile |-> "none", pid |-> FALSE, exit |-> "none"]
NoLease == [owner |-> "none", fresh |-> FALSE]
NoScan == [r \in {} |-> AbsentRun]
NoSignal == [target |-> "none", profile |-> "none", deadline |-> "none", crashes |-> 0]

\* The database may already hold profiles.
RegistryInit ==
    /\ profile \in [Profile -> {AbsentProfile, ReadyProfile}]
    /\ run = [r \in Run |-> AbsentRun]
    /\ lease = [r \in Run |-> NoLease]
    /\ scan = [c \in Client |-> NoScan]
    /\ signal = [c \in Client |-> NoSignal]

\* A row of agent_leases is active; index one_active_lease_per_run allows one such row per run.
Active(row) == row # NoLease

Registered == {p \in Profile : profile[p].state # "absent"}
Known == {r \in Run : run[r].state # "absent"}

-----------------------------------------------------------------------------
\* The views a transaction's clock may give: lapsed leases, elapsed deadlines.
LapsedView == SUBSET {r \in Run : Active(lease[r]) /\ ~lease[r].fresh}
ElapsedView == SUBSET {p \in Profile : profile[p].deadline = "elapsed"}

_expire_leases_tx(L) == [r \in Run |-> IF r \in L THEN NoLease ELSE lease[r]]

\* The runs that hold a lease of p in the table ls and that the view L does not show as lapsed.
HeldIn(ls, rs, p, L) == {r \in Run : Active(ls[r]) /\ rs[r].profile = p /\ r \notin L}

(***************************************************************************)
(* _profile_state_snapshot_tx: the row of profile p after the self-healing *)
(* every transaction applies to it, with n leases in use: a passed         *)
(* deadline makes it ready, and ready and busy follow the count.           *)
(***************************************************************************)
_profile_state_snapshot_tx(row, p, n, E) ==
    LET settled == IF row.state \in Timed /\ p \in E THEN ReadyProfile ELSE row
    IN  [settled EXCEPT !.state =
            IF @ = "busy" /\ n < MaxConcurrency[p] THEN "ready"
            ELSE IF @ = "ready" /\ n >= MaxConcurrency[p] THEN "busy" ELSE @]

\* Profile p brought up to date with the tables ls and rs.
Snapshot(p, ls, rs, L, E) ==
    _profile_state_snapshot_tx(profile[p], p, Cardinality(HeldIn(ls, rs, p, L)), E)

SnapshotOne(p, ls, rs, L, E) == [profile EXCEPT ![p] = Snapshot(p, ls, rs, L, E)]

-----------------------------------------------------------------------------
register_profile(p) ==
    /\ profile[p].state = "absent"
    /\ profile' = [profile EXCEPT ![p] = ReadyProfile]
    /\ UNCHANGED <<run, lease, scan, signal>>

\* get_profile_state, profile_capacity and list_profile_states: reads that bring rows up to date.
ReadProfiles(P, L, E) ==
    /\ lease' = _expire_leases_tx(L)
    /\ profile' = [p \in Profile |-> IF p \in P THEN Snapshot(p, lease', run, L, E) ELSE profile[p]]

profile_capacity(P) ==
    /\ P # {}
    /\ \E L \in LapsedView, E \in ElapsedView : ReadProfiles(P, L, E)
    /\ UNCHANGED <<run, scan, signal>>

(***************************************************************************)
(* record_profile_signal reads the profile in one transaction and writes   *)
(* it in another, set_profile_state, with the same clock. The deadline of  *)
(* the signal may be missing, ahead, or already past (retry_at).           *)
(***************************************************************************)
record_profile_signal(c, p, target, deadline) ==
    /\ signal[c] = NoSignal /\ p \in Registered
    /\ deadline = "none" \/ target \in Timed
    /\ \E L \in LapsedView, E \in ElapsedView :
        /\ ReadProfiles({p}, L, E)
        /\ target = "unhealthy" => profile'[p].crashes < MaxSignals
        /\ signal' = [signal EXCEPT ![c] = [target |-> target, profile |-> p, deadline |-> deadline,
                                            crashes |-> profile'[p].crashes]]
    /\ UNCHANGED <<run, scan>>

\* The row set_profile_state writes over what the snapshot gave.
SignalledRow(now, s) ==
    IF s.target \in {"ready", "busy"} THEN [ReadyProfile EXCEPT !.state = s.target]
    ELSE [state |-> s.target, deadline |-> s.deadline,
          crashes |-> IF s.target = "unhealthy" THEN s.crashes + 1 ELSE now.crashes]

set_profile_state(c) ==
    /\ signal[c] # NoSignal
    /\ \E L \in LapsedView, E \in ElapsedView :
        LET p == signal[c].profile
            ls == _expire_leases_tx(L)
            row == SignalledRow(Snapshot(p, ls, run, L, E), signal[c])
        IN  /\ lease' = ls
            /\ profile' = [profile EXCEPT ![p] =
                   _profile_state_snapshot_tx(row, p, Cardinality(HeldIn(ls, run, p, L)),
                                              IF row.deadline = "elapsed" THEN {p} ELSE {})]
    /\ signal' = [signal EXCEPT ![c] = NoSignal]
    /\ UNCHANGED <<run, scan>>

register_run(r, p) ==
    /\ run[r].state = "absent" /\ p \in Registered
    /\ run' = [run EXCEPT ![r] = [AbsentRun EXCEPT !.state = "registered", !.profile = p]]
    /\ UNCHANGED <<profile, lease, scan, signal>>

-----------------------------------------------------------------------------
Leasable == RunState \ {"completed", "failed", "lost"}

\* Seeded fault: the profile's state and capacity are taken from an earlier read.
GrantedUnchecked(r, rs, L, E) ==
    /\ rs[r].state \in Leasable
    /\ ~Active(_expire_leases_tx(L)[r])

(***************************************************************************)
(* _acquire_lease_tx grants run r, of the table rs, a lease in the view L, *)
(* E: the run is not over and not leased, and its profile is ready.        *)
(***************************************************************************)
Granted(r, rs, L, E) ==
    LET p == rs[r].profile
        held == HeldIn(_expire_leases_tx(L), rs, p, L)
        now == _profile_state_snapshot_tx(profile[p], p, Cardinality(held), E)
    IN  /\ rs[r].state \in Leasable
        /\ ~Active(_expire_leases_tx(L)[r])
        /\ now.state = "ready"
        /\ Cardinality(held) < MaxConcurrency[p]

NewLease(c) == [owner |-> c, fresh |-> TRUE]

_acquire_lease_tx(c, r, rs) ==
    \E L \in LapsedView, E \in ElapsedView :
        /\ Granted(r, rs, L, E)
        /\ lease' = [_expire_leases_tx(L) EXCEPT ![r] = NewLease(c)]
        /\ run' = [rs EXCEPT ![r].state = "leased"]
        /\ profile' = SnapshotOne(rs[r].profile, lease', run', L, E)
        /\ UNCHANGED <<scan, signal>>

acquire_lease(c, r) == _acquire_lease_tx(c, r, run)

\* The runs table once run r is registered for profile p; an existing row is kept.
WithRun(r, p) ==
    IF run[r].state = "absent"
    THEN [run EXCEPT ![r] = [AbsentRun EXCEPT !.state = "registered", !.profile = p]] ELSE run

\* register_run_and_acquire_lease when no lease exists: registration and lease in one transaction.
\* It calls register_profile first, a transaction of its own.
register_run_and_acquire_lease(c, r, p) ==
    /\ p \in Registered
    /\ run[r].profile \in {p, "none"}
    /\ _acquire_lease_tx(c, r, WithRun(r, p))

\* register_run_and_acquire_lease when the caller already owns the active lease of the run.
RetainLease(c, r) ==
    /\ run[r].state \in Leasable
    /\ lease[r].owner = c
    /\ \E L \in LapsedView : r \notin L /\ lease' = _expire_leases_tx(L)
    /\ UNCHANGED <<profile, run, scan, signal>>

heartbeat(c, r) ==
    /\ lease[r].owner = c
    /\ lease' = [lease EXCEPT ![r].fresh = TRUE]
    /\ UNCHANGED <<profile, run, scan, signal>>

\* The active lease of r, if any, ends.
EndLease(r) == [lease EXCEPT ![r] = NoLease]

release_lease(c, r) ==
    /\ lease[r].owner = c
    /\ lease' = EndLease(r)
    /\ run' = [run EXCEPT ![r].state = "registered"]
    /\ \E L \in LapsedView, E \in ElapsedView :
            profile' = SnapshotOne(run[r].profile, lease', run', L, E)
    /\ UNCHANGED <<scan, signal>>

\* Anyone may record the start, as long as the run has an active lease.
record_process_start(r) ==
    /\ Active(lease[r])
    /\ run' = [run EXCEPT ![r].state = "running", ![r].pid = TRUE]
    /\ UNCHANGED <<profile, lease, scan, signal>>

\* Seeded fault: the lease of a finished run stays active.
RecordExitKeepsLease(r, code) ==
    /\ r \in Known
    /\ run' = [run EXCEPT ![r].state = IF code = "zero" THEN "completed" ELSE "failed", ![r].exit = code]
    /\ UNCHANGED <<profile, lease, scan, signal>>

record_exit(r, code) ==
    LET result == IF code = "zero" THEN "completed" ELSE "failed"
    IN  /\ r \in Known
        /\ run' = [run EXCEPT ![r].state = result, ![r].exit = code]
        /\ lease' = EndLease(r)
        /\ \E L \in LapsedView, E \in ElapsedView :
                profile' = SnapshotOne(run[r].profile, lease', run', L, E)
        /\ UNCHANGED <<scan, signal>>

-----------------------------------------------------------------------------
\* Seeded fault: only the runs that have a pid are read.
ReconcileReadStarted(c) ==
    /\ c \in Reconciler /\ scan[c] = NoScan
    /\ \E L \in LapsedView :
        scan' = [scan EXCEPT ![c] = [r \in {q \in Known : run[q].pid} |->
                    [state |-> run[r].state, pid |-> run[r].pid, exit |-> run[r].exit,
                     held |-> Active(lease[r]) /\ r \notin L]]]
    /\ UNCHANGED <<profile, run, lease, signal>>

\* reconcile_runs reads every run outside any transaction ...
ReconcileRead(c) ==
    /\ c \in Reconciler /\ scan[c] = NoScan
    /\ \E L \in LapsedView :
        scan' = [scan EXCEPT ![c] = [r \in Known |->
                    [state |-> run[r].state, pid |-> run[r].pid, exit |-> run[r].exit,
                     held |-> Active(lease[r]) /\ r \notin L]]]
    /\ UNCHANGED <<profile, run, lease, signal>>

\* Seeded fault: a process that is gone is looked up by its exit code alone, with no default.
ClassifyNoDefault(row, probe) ==
    IF row.state \in TerminalResult THEN row.state
    ELSE IF ~row.pid \/ probe # "gone" THEN "orphaned"
    ELSE [none |-> "none", zero |-> "completed", nonzero |-> "failed"][row.exit]

\* Seeded fault: the process decides, also for a run whose result is recorded.
ClassifyByProcess(row, probe) ==
    IF ~row.pid \/ probe = "unobservable" THEN "orphaned"
    ELSE [other |-> "lost", match |-> "live", gone |-> "lost"][probe]

(***************************************************************************)
(* ... and classifies each row, given what probing the stored pid shows:   *)
(* the same process ("match"), another one that has its pid ("other"), no  *)
(* process ("gone"), or an error ("unobservable").                         *)
(***************************************************************************)
Probe == {"match", "other", "gone", "unobservable"}

Classify(row, probe) ==
    IF row.state \in TerminalResult THEN row.state
    ELSE IF ~row.pid \/ probe = "unobservable" THEN "orphaned"
    ELSE CASE probe = "other" -> "lost"
           [] probe = "match" -> IF row.held THEN "live" ELSE "orphaned"
           [] probe = "gone" -> [none |-> "lost", zero |-> "completed", nonzero |-> "failed"][row.exit]

\* The leases after the row of r is written: only a live run keeps its lease.
ReconciledLease(r, class) == IF class = "live" THEN lease ELSE EndLease(r)

\* Each row is then written in a transaction of its own, whatever happened to the run meanwhile.
ReconcileRow(c, r, probe) ==
    LET class == Classify(scan[c][r], probe)
    IN  /\ r \in DOMAIN scan[c]
        /\ run' = [run EXCEPT ![r].state = class]
        /\ lease' = ReconciledLease(r, class)
        /\ \E L \in LapsedView, E \in ElapsedView :
                profile' = SnapshotOne(run[r].profile, lease', run', L, E)
        /\ scan' = [scan EXCEPT ![c] = [x \in DOMAIN scan[c] \ {r} |-> scan[c][x]]]
        /\ UNCHANGED signal

-----------------------------------------------------------------------------
\* The expires_at of an active lease passes.
LeaseLapses(r) ==
    /\ Active(lease[r]) /\ lease[r].fresh
    /\ lease' = [lease EXCEPT ![r].fresh = FALSE]
    /\ UNCHANGED <<profile, run, scan, signal>>

\* The cooldown_until or quota_reset_at of a profile passes.
DeadlinePasses(p) ==
    /\ profile[p].deadline = "ahead"
    /\ profile' = [profile EXCEPT ![p].deadline = "elapsed"]
    /\ UNCHANGED <<run, lease, scan, signal>>

RunStep(c, r) ==
    \/ acquire_lease(c, r) \/ RetainLease(c, r) \/ heartbeat(c, r) \/ release_lease(c, r)
    \/ \E p \in Profile : register_run_and_acquire_lease(c, r, p)
    \/ \E probe \in Probe : ReconcileRow(c, r, probe)

ClientStep(c) ==
    \/ ReconcileRead(c)
    \/ \E p \in Profile, target \in SignalTarget, deadline \in {"none", "ahead", "elapsed"} :
            record_profile_signal(c, p, target, deadline)
    \/ set_profile_state(c)

RegistryNext ==
    \/ \E p \in Profile : register_profile(p) \/ DeadlinePasses(p) \/ profile_capacity({p})
    \/ profile_capacity(Registered)
    \/ \E r \in Run, p \in Profile : register_run(r, p)
    \/ \E r \in Run : record_process_start(r) \/ LeaseLapses(r)
    \/ \E r \in Run, code \in ExitCode : record_exit(r, code)
    \/ \E c \in Client, r \in Run : RunStep(c, r)
    \/ \E c \in Client : ClientStep(c)

RegistrySpec == RegistryInit /\ [][RegistryNext]_registryVars

-----------------------------------------------------------------------------
(* Properties *)

\* Type invariant: the columns and the local variables of calls hold values of their types.
RegistryTypeOK ==
    /\ profile \in [Profile -> ProfileRow]
    /\ run \in [Run -> RunRow]
    /\ lease \in [Run -> LeaseRow]
    /\ scan \in [Client -> UNION {[D -> ScanRow] : D \in SUBSET Run}]
    /\ signal \in [Client -> Signal \cup {NoSignal}]

\* The runs that hold a lease of profile p.
Held(p) == HeldIn(lease, run, p, {})

(***************************************************************************)
(* Capacity: however acquisitions, renewals, expiries, exits and           *)
(* reconciliations of several clients interleave, a profile never has more *)
(* active leases than its max_concurrency.                                 *)
(***************************************************************************)
CapacityRespected == \A p \in Profile : Cardinality(Held(p)) <= MaxConcurrency[p]

(***************************************************************************)
(* Only a run under way holds capacity: a run that is finished, lost or    *)
(* orphaned, or was never leased, has no active lease, whichever of        *)
(* record_exit, release_lease and a late reconcile_runs wrote it last.     *)
(***************************************************************************)
LeaseBelongsToOpenRun ==
    \A r \in Run : Active(lease[r]) => run[r].state \in {"leased", "running", "live"}

(***************************************************************************)
(* A profile that is disabled or needs authentication, or whose cooldown   *)
(* has not passed, is given no new lease (_acquire_lease_tx).              *)
(***************************************************************************)
LeaseOnlyWhenSchedulable ==
    [][\A r \in Run :
          ~Active(lease[r]) /\ Active(lease'[r]) =>
             LET row == profile[run'[r].profile]
             IN  row.state \in {"ready", "busy"} \/ (row.state \in Timed /\ row.deadline = "elapsed")
      ]_registryVars
=============================================================================
