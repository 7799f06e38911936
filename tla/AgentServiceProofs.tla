------------------------- MODULE AgentServiceProofs -------------------------
(***************************************************************************)
(* Proofs about AgentService, for any number of tickets, retries,          *)
(* profiles and daemons: the type invariant, and the capacity of profiles; *)
(* that a run is recorded as over only when its process is gone and that a *)
(* ticket never has two processes, also when daemons overlap; and, when    *)
(* they do not, that results are kept, a completed run closes its ticket   *)
(* and no run is left over by a daemon that died.                          *)
(***************************************************************************)
EXTENDS AgentService, AgentRegistryProofs

\* The daemon serves a request for a run; it owns the run once it has reserved a profile for it.
Own == {"start", "spawn", "record", "watch", "fail"}
Requests == {"evaluate", "reserve"} \cup Own
Serves(d, r) == daemon[d].phase \in Requests /\ daemon[d].run = r
Owns(d, r) == daemon[d].phase \in Own /\ daemon[d].run = r

\* The process of the run has not been recorded: its owner is not through with record_process_start.
Unrecorded(d, r) == daemon[d].phase \in {"start", "spawn", "record"} /\ daemon[d].run = r

-----------------------------------------------------------------------------
(* The invariants *)

\* The variables the service adds to the registry: their types, and what a phase says of the rest.
ServiceTypes ==
    /\ daemon \in [Client -> Daemon]
    /\ sock \in Client \cup {"none"}
    /\ proc \in [Run -> Process]
    /\ monitor \in [Run -> Monitor]
    /\ crashes \in 0..MaxCrashes
    /\ \A d \in Client : daemon[d].phase \in Requests => daemon[d].run \in Run
    /\ \A r \in Run : monitor[r].phase # "none" => monitor[r].by \in Client
    /\ \A r \in Run : monitor[r].phase = "report" => monitor[r].code \in ExitCode

\* A run has one owner at most, which registered it and has not started its monitor.
OneOwner ==
    \A d \in Client, r \in Run : Owns(d, r) =>
        /\ run[r].state # "absent"
        /\ monitor[r].phase = "none"
        /\ \A e \in Client : Owns(e, r) => e = d

\* A run nobody registered has no process, no pid and no monitor.
AbsentUntouched ==
    \A r \in Run : run[r].state = "absent" =>
        proc[r] = "none" /\ ~run[r].pid /\ monitor[r].phase = "none"

\* Until its start is recorded, a run is not over and no daemon's scan can say that it is.
StartPending ==
    \A d \in Client, r \in Run : Unrecorded(d, r) =>
        /\ ~run[r].pid /\ ~Over(r)
        /\ daemon[d].phase # "record" => proc[r] = "none"
        /\ \A c \in Client : r \in DOMAIN scan[c] =>
               ~scan[c][r].pid /\ scan[c][r].state \notin TerminalResult

\* A process whose exit is about to be recorded is dead.
ReportedIsDead ==
    /\ \A r \in Run : monitor[r].phase = "report" => proc[r] # "alive"
    /\ \A d \in Client, r \in Run : daemon[d].phase = "fail" /\ daemon[d].run = r => proc[r] # "alive"

\* What reconcile_runs has found out belongs to a row that it has read and not yet written.
Probed ==
    \A d \in Client :
        /\ daemon[d].phase \in {"off", "scan"} => daemon[d].probe = "none"
        /\ daemon[d].phase = "rows" /\ daemon[d].probe # "none" =>
               daemon[d].run \in DOMAIN scan[d] /\ daemon[d].probe \in Probe \ {"unobservable"}

(***************************************************************************)
(* Who may touch a run when: nothing here depends on overlapping daemons   *)
(* or on the reliability of probes.                                        *)
(***************************************************************************)
OwnerInv == OneOwner /\ AbsentUntouched /\ StartPending /\ ReportedIsDead /\ Probed

\* A result that some daemon has read is that of a dead process.
ScannedResultIsDead ==
    \A c \in Client, r \in Run :
        r \in DOMAIN scan[c] /\ scan[c][r].state \in TerminalResult => proc[r] # "alive"

\* A process that some daemon has found gone is dead, and its row may still be unwritten.
ProbedIsDead ==
    \A d \in Client :
        daemon[d].phase = "rows" /\ daemon[d].probe \in {"gone", "other"} /\ scan[d][daemon[d].run].pid
            => proc[daemon[d].run] # "alive"

\* The run's process is dead or was never started, and nobody will start it.
Settled(r) ==
    /\ run[r].state # "absent"
    /\ proc[r] # "alive"
    /\ \A d \in Client : ~(daemon[d].phase \in {"start", "spawn"} /\ daemon[d].run = r)

\* The run is registered, or some daemon serves a request for it.
Requested(r) == run[r].state # "absent" \/ \E d \in Client : Serves(d, r)

\* Once a run is asked for, the runs of its ticket before it are settled.
EarlierSettled ==
    \A t \in Ticket, k \in 0..MaxAttempts :
        Requested(<<t, k>>) => \A j \in 0..(k - 1) : Settled(<<t, j>>)

(***************************************************************************)
(* With probes that do not fail, "over" can be trusted: OverIsDead needs   *)
(* ScannedResultIsDead and ProbedIsDead, because reconcile_runs writes     *)
(* what it has read, and what it has found out, some time ago, and         *)
(* OneProcessPerTicket needs EarlierSettled, because the states of earlier *)
(* runs, read by the admission, may change before the process of the new   *)
(* run is spawned.                                                         *)
(***************************************************************************)
Dead == OverIsDead /\ ScannedResultIsDead /\ ProbedIsDead
DeadInv == Dead /\ EarlierSettled

\* Without overlap, one daemon is alive, and all monitors are threads of it that it started later.
OneDaemon ==
    /\ \A d, e \in Client : Alive(d) /\ Alive(e) => d = e
    /\ \A r \in Run : monitor[r].phase # "none" =>
           daemon[monitor[r].by].phase \notin {"off", "dead", "scan", "rows"}

\* Without overlap, the rows that reconcile_runs has read stay what the table holds.
ScanCurrent ==
    \A d \in Client, r \in Run :
        daemon[d].phase = "rows" /\ r \in DOMAIN scan[d] =>
            scan[d][r].state = run[r].state /\ scan[d][r].pid = run[r].pid /\ scan[d][r].exit = run[r].exit

\* A run that is over is out of everybody's hands.
OverIsReleased ==
    \A r \in Run : Over(r) => monitor[r].phase = "none" /\ \A d \in Client : ~Owns(d, r)

\* The exit column is written with a result, and a lost run had a process.
ExitMeansResult ==
    \A r \in Run : /\ run[r].exit # "none" => run[r].state \in TerminalResult
                   /\ run[r].state = "lost" => run[r].pid

(***************************************************************************)
(* With one daemon at a time nobody writes behind the back of              *)
(* reconcile_runs, and nobody is left to write to a run that is over.      *)
(***************************************************************************)
SoloInv == OneDaemon /\ ScanCurrent /\ OverIsReleased /\ ExitMeansResult

(***************************************************************************)
(* One daemon, reliable probes: what allowed a retry still holds when the  *)
(* retry runs, and for ever after.                                         *)
(***************************************************************************)
EarlierFailed ==
    \A t \in Ticket, k \in 0..MaxAttempts :
        Requested(<<t, k>>) => \A j \in 0..(k - 1) : run[<<t, j>>].state \in Retryable

\* reconcile_runs does not take a lost run for a live one.
LostUnmatched ==
    \A d \in Client : daemon[d].phase = "rows" /\ daemon[d].probe = "match" => run[daemon[d].run].state # "lost"

RetryInv == EarlierFailed /\ LostUnmatched

\* One daemon: until start_run, the lease that it has reserved for its request is active and its own.
StartLeased == \A d \in Client : daemon[d].phase = "start" => lease[daemon[d].run].owner = d

\* The scan of a new daemon has every run that may have been left over.
LeftOverScanned ==
    \A d \in Client, r \in Run :
        daemon[d].phase = "rows" /\ run[r].state \in {"leased", "running"} => r \in DOMAIN scan[d]

(***************************************************************************)
(* RunsAttended needs LeftOverScanned, for the rows reconcile_runs has not *)
(* written yet, and StartLeased, because a request that fails without an   *)
(* active lease is answered and records nothing.                           *)
(***************************************************************************)
AttendInv == RunsAttended /\ LeftOverScanned /\ StartLeased

-----------------------------------------------------------------------------
(* What the steps do to the variables the invariants read *)

\* Only the record of daemon d changes; its phase, and its phase while it serves the same run.
Frees(d, from, to) ==
    /\ daemon[d].phase \in from /\ daemon'[d].phase = to
    /\ daemon'[d].probe \in {"none", daemon[d].probe}
    /\ \A e \in Client \ {d} : daemon'[e] = daemon[e]
Moves(d, from, to) == Frees(d, from, to) /\ daemon'[d].run = daemon[d].run

\* Only the row of run r changes.
Writes(r, state) ==
    /\ run'[r].state = state
    /\ \A q \in Run \ {r} : run'[q] = run[q]

Starts(d) ==
    /\ Overlap \/ \A e \in Client : ~Alive(e)
    /\ Frees(d, {"off"}, "scan")
    /\ UNCHANGED <<run, scan, proc, monitor>>

Scans(d) ==
    /\ Frees(d, {"scan"}, "rows")
    /\ \A c \in Client \ {d} : scan'[c] = scan[c]
    /\ DOMAIN scan'[d] = Known
    /\ \A r \in Known : /\ scan'[d][r].state = run[r].state
                        /\ scan'[d][r].pid = run[r].pid /\ scan'[d][r].exit = run[r].exit
    /\ UNCHANGED <<run, proc, monitor>>

\* reconcile_runs has looked at the process of run r, and goes on to write its row.
Looks(d, r) ==
    /\ daemon[d].phase = "rows" /\ daemon'[d].phase = "rows"
    /\ r \in DOMAIN scan[d] /\ daemon'[d].run = r /\ daemon'[d].probe \in Probes(r)
    /\ \A e \in Client \ {d} : daemon'[e] = daemon[e]
    /\ UNCHANGED <<run, scan, proc, monitor>>

Reconciles(d, r) ==
    /\ Frees(d, {"rows"}, "rows") /\ daemon'[d].probe = "none"
    /\ daemon[d].run = r /\ daemon[d].probe # "none" /\ r \in DOMAIN scan[d]
    /\ Writes(r, Classify(scan[d][r], daemon[d].probe))
    /\ run'[r].pid = run[r].pid /\ run'[r].exit = run[r].exit
    /\ \A c \in Client \ {d} : scan'[c] = scan[c]
    /\ DOMAIN scan'[d] = DOMAIN scan[d] \ {r}
    /\ \A q \in DOMAIN scan'[d] : scan'[d][q] = scan[d][q]
    /\ UNCHANGED <<proc, monitor>>

Dies(d) ==
    /\ Frees(d, Phase \ {"off", "dead"}, "dead")
    /\ \A r \in Run : \/ monitor'[r].phase = "none"
                      \/ monitor'[r] = monitor[r] /\ (monitor[r].by # d \/ daemon[d].phase = "rows")
    /\ UNCHANGED <<run, scan, proc>>

Idles(d) ==
    /\ Frees(d, {"rows", "reserve", "start"}, "idle")
    /\ daemon[d].phase = "rows" => DOMAIN scan[d] = {}
    /\ daemon[d].phase = "start" => ~Active(lease[daemon[d].run])
    /\ UNCHANGED <<run, scan, proc, monitor>>

Asks(d, t, k) ==
    /\ Admissible(t, k)
    /\ Frees(d, {"idle"}, "evaluate") /\ daemon'[d].run = <<t, k>>
    /\ UNCHANGED <<run, scan, proc, monitor>>

\* A step of a request, or of none, that leaves the run alone.
Proceeds(d) ==
    /\ \/ Moves(d, {daemon[d].phase}, daemon[d].phase)
       \/ Moves(d, {"evaluate"}, "reserve")
       \/ Moves(d, {"start"}, "spawn")
       \/ Moves(d, {"start", "spawn"}, "fail")
    /\ UNCHANGED <<run, scan, proc, monitor>>

Reserves(d) ==
    /\ Moves(d, {"reserve"}, "start")
    /\ run[daemon[d].run].state = "absent"
    /\ Writes(daemon[d].run, "leased") /\ ~run'[daemon[d].run].pid /\ run'[daemon[d].run].exit = "none"
    /\ lease'[daemon[d].run].owner = d
    /\ UNCHANGED <<scan, proc, monitor>>

LeasesAgain(d) ==
    LET r == daemon[d].run
    IN  /\ Moves(d, {"start"}, "spawn")
        /\ run[r].state \in Leasable \cup {"absent"}
        /\ Writes(r, "leased")
        /\ run[r].state # "absent" => run'[r].pid = run[r].pid /\ run'[r].exit = run[r].exit
        /\ UNCHANGED <<scan, proc, monitor>>

\* The process of run r becomes p.
Sets(r, p) == proc'[r] = p /\ \A q \in Run \ {r} : proc'[q] = proc[q]

Spawns(d) ==
    Moves(d, {"spawn"}, "record") /\ Sets(daemon[d].run, "alive") /\ UNCHANGED <<run, scan, monitor>>

Records(d) ==
    LET r == daemon[d].run
    IN  /\ Moves(d, {"record"}, "watch")
        /\ run[r].state \notin {"completed", "failed", "lost"}
        /\ Writes(r, "running") /\ run'[r].pid /\ run'[r].exit = run[r].exit
        /\ UNCHANGED <<scan, proc, monitor>>

Watches(d) ==
    LET r == daemon[d].run
    IN  /\ Frees(d, {"watch"}, "idle")
        /\ monitor'[r].phase = "watch" /\ monitor'[r].by = d
        /\ \A q \in Run \ {r} : monitor'[q] = monitor[q]
        /\ UNCHANGED <<run, scan, proc>>

Kills(d) ==
    /\ Moves(d, {"record", "watch"}, "fail")
    /\ \E p \in Process \ {"alive"} : Sets(daemon[d].run, p)
    /\ UNCHANGED <<run, scan, monitor>>

\* The result of run r is recorded.
Results(r) ==
    /\ r \in Known /\ \E state \in TerminalResult : Writes(r, state)
    /\ run'[r].pid = run[r].pid
    /\ UNCHANGED <<scan, proc>>

Fails(d) == Frees(d, {"fail"}, "idle") /\ Results(daemon[d].run) /\ UNCHANGED monitor

Reports(r) ==
    /\ monitor[r].phase = "report" /\ monitor'[r].phase = "none"
    /\ \A q \in Run \ {r} : monitor'[q] = monitor[q]
    /\ Results(r) /\ UNCHANGED daemon

\* The process of a run ends, or stays; a monitor may be told to cancel.
Ends(r) ==
    /\ \E p \in ExitCode \cup {proc[r]} : Sets(r, p) /\ (p = proc[r] \/ proc[r] = "alive")
    /\ \A q \in Run : monitor'[q].phase = monitor[q].phase /\ monitor'[q].by = monitor[q].by
    /\ UNCHANGED <<daemon, run, scan>>

Reaps(r) ==
    /\ proc[r] \in ExitCode
    /\ monitor[r].phase = "watch" /\ monitor'[r].phase = "report" /\ monitor'[r].by = monitor[r].by
    /\ \A q \in Run \ {r} : monitor'[q] = monitor[q]
    /\ UNCHANGED <<daemon, run, scan, proc>>

Rests == UNCHANGED <<daemon, run, scan, proc, monitor>>

\* Every step of the service is one of these.
Effect ==
    \/ \E d \in Client : \/ Starts(d) \/ Scans(d) \/ Dies(d) \/ Idles(d) \/ Proceeds(d) \/ Reserves(d)
                         \/ LeasesAgain(d) \/ Spawns(d) \/ Records(d) \/ Watches(d) \/ Kills(d) \/ Fails(d)
                         \/ \E r \in Run : Looks(d, r) \/ Reconciles(d, r)
                         \/ \E t \in Ticket, k \in 0..MaxAttempts : Asks(d, t, k)
    \/ \E r \in Run : Ends(r) \/ Reaps(r) \/ Reports(r)
    \/ Rests

-----------------------------------------------------------------------------
(* Updates of the service's variables *)

\* The record of one daemon is replaced.
LEMMA DaemonUpdate ==
    ASSUME daemon \in [Client -> Daemon], NEW d \in Client, NEW f \in Daemon,
           daemon' = [daemon EXCEPT ![d] = f]
    PROVE  /\ daemon' \in [Client -> Daemon]
           /\ daemon'[d] = f
           /\ \A e \in Client \ {d} : daemon'[e] = daemon[e]
OBVIOUS

\* A daemon goes on to another phase of its work.
LEMMA GotoFacts ==
    ASSUME daemon \in [Client -> Daemon], NEW d \in Client, NEW to \in Phase, daemon' = Goto(d, to)
    PROVE  /\ daemon' \in [Client -> Daemon]
           /\ Moves(d, {daemon[d].phase}, to)
<1> DEFINE f == [daemon[d] EXCEPT !.phase = to]
<1>1. daemon[d] \in Daemon
    OBVIOUS
<1>2. f \in Daemon /\ f.phase = to /\ f.run = daemon[d].run /\ f.probe = daemon[d].probe
    BY <1>1 DEF Daemon
<1>3. daemon' = [daemon EXCEPT ![d] = f]
    BY DEF Goto
<1> HIDE DEF f
<1> QED BY <1>2, <1>3, DaemonUpdate DEF Moves, Frees

\* A daemon is through with its work, or dead.
LEMMA OffFacts ==
    ASSUME daemon \in [Client -> Daemon], NEW d \in Client,
           \/ daemon' = Done(d)
           \/ daemon' = [daemon EXCEPT ![d] = [Off EXCEPT !.phase = "dead"]]
    PROVE  /\ daemon' \in [Client -> Daemon]
           /\ daemon' = Done(d) => Frees(d, {daemon[d].phase}, "idle")
           /\ daemon' = [daemon EXCEPT ![d] = [Off EXCEPT !.phase = "dead"]]
                => Frees(d, {daemon[d].phase}, "dead")
<1> DEFINE f == [Off EXCEPT !.phase = "idle", !.stop = daemon[d].stop]
           g == [Off EXCEPT !.phase = "dead"]
<1>1. daemon[d].stop \in BOOLEAN
    BY DEF Daemon
<1>2. f \in Daemon /\ f.phase = "idle" /\ f.probe = "none" /\ g \in Daemon /\ g.phase = "dead" /\ g.probe = "none"
    BY <1>1 DEF Off, Daemon, Phase
<1>3. Done(d) = [daemon EXCEPT ![d] = f]
    BY DEF Done
<1>4. [daemon EXCEPT ![d] = [Off EXCEPT !.phase = "dead"]] = [daemon EXCEPT ![d] = g]
    OBVIOUS
<1> HIDE DEF f, g
<1> QED BY <1>2, <1>3, <1>4, DaemonUpdate DEF Frees

\* When only the record of a daemon changes, its type and the run of its request are to be shown.
LEMMA DaemonTypes ==
    ASSUME ServiceTypes, NEW d \in Client, daemon' \in [Client -> Daemon],
           \A e \in Client \ {d} : daemon'[e] = daemon[e],
           daemon'[d].phase \in Requests => daemon'[d].run \in Run,
           sock' \in Client \cup {"none"}, UNCHANGED <<proc, monitor, crashes>>
    PROVE  ServiceTypes'
BY DEF ServiceTypes

\* A request in one of its phases names a run.
LEMMA ServedRun ==
    ASSUME ServiceTypes, NEW d \in Client, daemon[d].phase \in Requests
    PROVE  daemon[d].run \in Run
BY DEF ServiceTypes

\* Start of a daemon.
LEMMA StartEffect ==
    ASSUME ServiceTypes, NEW d \in Client, serve_forever(d)
    PROVE  ServiceTypes' /\ Starts(d)
<1>1. daemon' \in [Client -> Daemon] /\ Moves(d, {"off"}, "scan")
    BY GotoFacts DEF serve_forever, Phase, ServiceTypes
<1>2. "scan" \notin Requests
    BY DEF Requests, Own
<1>3. sock' \in Client \cup {"none"} /\ UNCHANGED <<proc, monitor, crashes>>
    BY DEF serve_forever
<1> QED BY <1>1, <1>2, <1>3, DaemonTypes DEF serve_forever, Starts, Moves, Frees, registryVars

\* The rows of a scan have their type, and their runs exist.
LEMMA ScanRows ==
    ASSUME IInv, NEW c \in Client, NEW r \in DOMAIN scan[c]
    PROVE  r \in Run /\ scan[c][r] \in ScanRow /\ run[r].state # "absent"
<1>1. PICK D \in SUBSET Run : scan[c] \in [D -> ScanRow]
    BY Types
<1> QED BY <1>1 DEF IInv, ScanKnown

\* The scan of reconcile_runs.
LEMMA ScanEffect ==
    ASSUME ServiceTypes, IInv, NEW d \in Client, ScanRuns(d)
    PROVE  ServiceTypes' /\ Scans(d)
<1>1. daemon' \in [Client -> Daemon] /\ Moves(d, {"scan"}, "rows")
    BY GotoFacts DEF ScanRuns, Phase, ServiceTypes
<1>2. "rows" \notin Requests
    BY DEF Requests, Own
<1>3. ServiceTypes'
    BY <1>1, <1>2, DaemonTypes DEF ScanRuns, ServiceTypes, Moves, Frees
<1> DEFINE f(L) == [q \in Known |-> [state |-> run[q].state, pid |-> run[q].pid, exit |-> run[q].exit,
                                     held |-> Active(lease[q]) /\ q \notin L]]
<1>4. PICK L \in LapsedView : scan' = [scan EXCEPT ![d] = f(L)]
    BY DEF ScanRuns, ReconcileRead
<1>5. /\ DOMAIN f(L) = Known
      /\ \A r \in Known : f(L)[r].state = run[r].state /\ f(L)[r].pid = run[r].pid /\ f(L)[r].exit = run[r].exit
    OBVIOUS
<1> HIDE DEF f
<1>6. scan'[d] = f(L) /\ \A c \in Client \ {d} : scan'[c] = scan[c]
    BY <1>4, Types
<1> QED BY <1>1, <1>3, <1>5, <1>6 DEF ScanRuns, ReconcileRead, Scans, Moves

\* Probing shows one of three outcomes; process_start_identity never raises.
LEMMA ProbesType == ASSUME NEW r \in Run PROVE Probes(r) \subseteq Probe \ {"unobservable"}
BY DEF Probes, Probe

\* reconcile_runs looks at a process.
LEMMA ProbeEffect ==
    ASSUME ServiceTypes, NEW d \in Client, NEW r \in Run, ProbeRun(d, r)
    PROVE  ServiceTypes' /\ Looks(d, r)
<1>1. PICK probe \in Probes(r) : daemon' = [daemon EXCEPT ![d].run = r, ![d].probe = probe]
    BY DEF ProbeRun
<1>2. /\ daemon[d].phase = "rows" /\ r \in DOMAIN scan[d]
      /\ UNCHANGED <<run, scan, sock, proc, monitor, crashes>>
    BY DEF ProbeRun, registryVars
<1> DEFINE f == [daemon[d] EXCEPT !.run = r, !.probe = probe]
<1>3. daemon[d] \in Daemon /\ probe \in Probe
    BY ProbesType DEF ServiceTypes
<1>4. f \in Daemon /\ f.phase = "rows" /\ f.run = r /\ f.probe = probe
    BY <1>2, <1>3 DEF Daemon
<1>5. daemon' = [daemon EXCEPT ![d] = f]
    BY <1>1
<1> HIDE DEF f
<1>6. daemon' \in [Client -> Daemon] /\ daemon'[d] = f /\ \A e \in Client \ {d} : daemon'[e] = daemon[e]
    BY <1>4, <1>5, DaemonUpdate DEF ServiceTypes
<1>7. ServiceTypes'
    BY <1>2, <1>4, <1>6, DaemonTypes DEF ServiceTypes
<1> QED BY <1>2, <1>4, <1>6, <1>7 DEF Looks

\* A row written by reconcile_runs.
LEMMA ReconcileEffect ==
    ASSUME ServiceTypes, IInv, NEW d \in Client, ReconcileRun(d)
    PROVE  ServiceTypes' /\ \E r \in Run : Reconciles(d, r)
<1> DEFINE r == daemon[d].run
           probe == daemon[d].probe
           f == [daemon[d] EXCEPT !.run = NoRun, !.probe = "none"]
<1>1. /\ daemon[d].phase = "rows" /\ probe # "none" /\ ReconcileRow(d, r, probe)
      /\ daemon' = [daemon EXCEPT ![d] = f] /\ UNCHANGED <<sock, proc, monitor, crashes>>
    BY DEF ReconcileRun
<1>2. daemon[d] \in Daemon
    BY DEF ServiceTypes
<1>3. f \in Daemon /\ f.phase = "rows" /\ f.probe = "none"
    BY <1>1, <1>2 DEF Daemon
<1> HIDE DEF f
<1>4. daemon' \in [Client -> Daemon] /\ Frees(d, {"rows"}, "rows") /\ daemon'[d].probe = "none"
    BY <1>1, <1>3, DaemonUpdate DEF Frees, ServiceTypes
<1>5. "rows" \notin Requests
    BY DEF Requests, Own
<1>6. ServiceTypes'
    BY <1>1, <1>4, <1>5, DaemonTypes DEF Frees, ServiceTypes
<1> DEFINE class == Classify(scan[d][r], probe)
           g == [x \in DOMAIN scan[d] \ {r} |-> scan[d][x]]
<1>7. /\ r \in DOMAIN scan[d] /\ run' = [run EXCEPT ![r].state = class]
      /\ scan' = [scan EXCEPT ![d] = g]
    BY <1>1 DEF ReconcileRow
<1>8. DOMAIN g = DOMAIN scan[d] \ {r} /\ \A q \in DOMAIN g : g[q] = scan[d][q]
    OBVIOUS
<1>9. r \in Run
    BY <1>7, ScanRows
<1> HIDE DEF g, class
<1>10. scan'[d] = g /\ \A c \in Client \ {d} : scan'[c] = scan[c]
    BY <1>7, Types
<1>11. /\ run'[r].state = class /\ run'[r].pid = run[r].pid /\ run'[r].exit = run[r].exit
       /\ \A q \in Run \ {r} : run'[q] = run[q]
    <2>1. run \in [Run -> RunRow] /\ run[r] \in RunRow
        BY <1>9, Types
    <2> DEFINE b == [run[r] EXCEPT !.state = class]
    <2>2. b.state = class /\ b.pid = run[r].pid /\ b.exit = run[r].exit
        BY <2>1 DEF RunRow
    <2>3. run' = [run EXCEPT ![r] = b]
        BY <1>7
    <2> HIDE DEF b
    <2> QED BY <1>9, <2>1, <2>2, <2>3
<1>12. Writes(r, Classify(scan[d][r], daemon[d].probe))
    BY <1>11 DEF Writes, class
<1>13. Reconciles(d, r)
    BY <1>1, <1>4, <1>7, <1>8, <1>10, <1>11, <1>12 DEF Reconciles
<1> QED BY <1>6, <1>9, <1>13

\* The end of a start: the daemon serves, or fails to bind and dies.
LEMMA BindEffect ==
    ASSUME ServiceTypes, NEW d \in Client, Bind(d)
    PROVE  ServiceTypes' /\ (Idles(d) \/ Dies(d))
<1>1. daemon[d].phase = "rows" /\ UNCHANGED <<run, scan, proc, monitor, crashes>>
    BY DEF Bind, registryVars
<1>2. sock' \in Client \cup {"none"}
    BY DEF Bind
<1>3. daemon \in [Client -> Daemon]
    BY DEF ServiceTypes
<1>4. daemon' \in [Client -> Daemon] /\ (Frees(d, {"rows"}, "idle") \/ Frees(d, {"rows"}, "dead"))
    BY <1>1, <1>3, OffFacts DEF Bind
<1>7. DOMAIN scan[d] = {}
    BY DEF Bind, NoScan
<1>5. "idle" \notin Requests /\ "dead" \notin Requests
    BY DEF Requests, Own
<1>6. ServiceTypes'
    BY <1>1, <1>2, <1>4, <1>5, DaemonTypes DEF Frees
<1> QED BY <1>1, <1>4, <1>6, <1>7 DEF Idles, Dies, Frees, Phase

\* The monitors of a daemon that is gone.
LEMMA UnwatchedFacts ==
    ASSUME ServiceTypes, NEW d \in Client, monitor' = Unwatched(d)
    PROVE  /\ monitor' \in [Run -> Monitor]
           /\ \A r \in Run : monitor'[r] = NoMonitor \/ (monitor'[r] = monitor[r] /\ monitor[r].by # d)
<1>1. NoMonitor \in Monitor
    BY DEF NoMonitor, Monitor
<1> QED BY <1>1 DEF Unwatched, ServiceTypes

\* The end of a daemon, in order or by a crash.
LEMMA DeathEffect ==
    ASSUME ServiceTypes, NEW d \in Client, Leave(d) \/ Crash(d)
    PROVE  ServiceTypes' /\ Dies(d)
<1>1. /\ daemon[d].phase \notin {"off", "dead"} /\ daemon[d] \in Daemon
      /\ daemon' = [daemon EXCEPT ![d] = [Off EXCEPT !.phase = "dead"]]
      /\ monitor' = Unwatched(d)
      /\ UNCHANGED <<run, scan, proc>>
    BY DEF Leave, Crash, Alive, registryVars, ServiceTypes
<1>2. sock' \in Client \cup {"none"} /\ crashes' \in 0..MaxCrashes
    BY FlagAssumption DEF Leave, Crash, ServiceTypes
<1>3. daemon' \in [Client -> Daemon] /\ Frees(d, {daemon[d].phase}, "dead")
    BY <1>1, OffFacts DEF ServiceTypes
<1>4. daemon[d].phase \in Phase \ {"off", "dead"}
    BY <1>1 DEF Daemon
<1>5. /\ monitor' \in [Run -> Monitor]
      /\ \A r \in Run : monitor'[r] = NoMonitor \/ (monitor'[r] = monitor[r] /\ monitor[r].by # d)
    BY <1>1, UnwatchedFacts
<1>6. NoMonitor.phase = "none"
    BY DEF NoMonitor
<1>7. ServiceTypes'
    <2>1. "dead" \notin Requests
        BY DEF Requests, Own
    <2>2. \A e \in Client : daemon'[e].phase \in Requests => daemon'[e].run \in Run
        BY <1>3, <2>1 DEF Frees, ServiceTypes
    <2>3. \A r \in Run : /\ monitor'[r].phase # "none" => monitor'[r].by \in Client
                         /\ monitor'[r].phase = "report" => monitor'[r].code \in ExitCode
        BY <1>5, <1>6 DEF ServiceTypes
    <2> QED BY <1>1, <1>2, <1>3, <1>5, <2>2, <2>3 DEF ServiceTypes
<1> QED BY <1>1, <1>3, <1>4, <1>5, <1>6, <1>7 DEF Dies, Frees

\* A request to stop.
LEMMA StopEffect ==
    ASSUME ServiceTypes, NEW d \in Client, stop(d)
    PROVE  ServiceTypes' /\ Proceeds(d)
<1> DEFINE f == [daemon[d] EXCEPT !.stop = TRUE]
<1>1. daemon[d] \in Daemon
    BY DEF ServiceTypes
<1>2. f \in Daemon /\ f.phase = daemon[d].phase /\ f.run = daemon[d].run /\ f.probe = daemon[d].probe
    BY <1>1 DEF Daemon
<1>3. daemon' = [daemon EXCEPT ![d] = f] /\ UNCHANGED <<run, scan, sock, proc, monitor, crashes>>
    BY DEF stop, registryVars
<1> HIDE DEF f
<1>4. daemon' \in [Client -> Daemon] /\ Moves(d, {daemon[d].phase}, daemon[d].phase)
    BY <1>2, <1>3, DaemonUpdate DEF Moves, Frees, ServiceTypes
<1>5. ServiceTypes'
    BY <1>3, <1>4, DaemonTypes DEF Moves, Frees, ServiceTypes
<1> QED BY <1>3, <1>4, <1>5 DEF Proceeds

\* The process of one run changes, and of the monitors at most the cancellation.
LEMMA EndTypes ==
    ASSUME ServiceTypes, NEW r \in Run, NEW p \in ExitCode \cup {proc[r]}, p = proc[r] \/ proc[r] = "alive",
           proc' = [proc EXCEPT ![r] = p],
           monitor' \in [Run -> Monitor],
           \A q \in Run : /\ monitor'[q].phase = monitor[q].phase /\ monitor'[q].by = monitor[q].by
                          /\ monitor'[q].code = monitor[q].code,
           UNCHANGED <<daemon, run, scan, sock, crashes>>
    PROVE  ServiceTypes' /\ Ends(r)
<1>1. proc \in [Run -> Process] /\ p \in Process
    BY DEF ServiceTypes, Process
<1>2. proc' \in [Run -> Process] /\ Sets(r, p)
    BY <1>1 DEF Sets
<1>3. ServiceTypes'
    BY <1>2 DEF ServiceTypes
<1> QED BY <1>2, <1>3 DEF Ends

\* cancel_run.
LEMMA CancelEffect ==
    ASSUME ServiceTypes, NEW d \in Client, NEW r \in Run, cancel_run(d, r)
    PROVE  ServiceTypes' /\ Ends(r)
<1> DEFINE b == [monitor[r] EXCEPT !.cancelled = TRUE]
<1>1. monitor[r] \in Monitor /\ monitor \in [Run -> Monitor] /\ proc \in [Run -> Process]
    BY DEF ServiceTypes
<1>2. b \in Monitor /\ b.phase = monitor[r].phase /\ b.by = monitor[r].by /\ b.code = monitor[r].code
    BY <1>1 DEF Monitor
<1>3. monitor' = [monitor EXCEPT ![r] = b] /\ UNCHANGED <<daemon, run, scan, sock, crashes>>
    BY DEF cancel_run, registryVars
<1> HIDE DEF b
<1>4. /\ monitor' \in [Run -> Monitor]
      /\ \A q \in Run : /\ monitor'[q].phase = monitor[q].phase /\ monitor'[q].by = monitor[q].by
                        /\ monitor'[q].code = monitor[q].code
    BY <1>1, <1>2, <1>3
<1>5. PICK p \in ExitCode \cup {proc[r]} :
        proc' = [proc EXCEPT ![r] = p] /\ (p = proc[r] \/ proc[r] = "alive")
    BY <1>1 DEF cancel_run
<1> QED BY <1>3, <1>4, <1>5, EndTypes

\* A process ends by itself, or its monitor ends it.
LEMMA ExitEffect ==
    ASSUME ServiceTypes, NEW r \in Run, HeartbeatFails(r) \/ \E code \in ExitCode : ProcessExits(r, code)
    PROVE  ServiceTypes' /\ Ends(r)
<1>1. PICK p \in ExitCode : proc' = [proc EXCEPT ![r] = p] /\ proc[r] = "alive"
    BY DEF HeartbeatFails, ProcessExits
<1>2. UNCHANGED <<daemon, run, scan, sock, monitor, crashes>>
    BY DEF HeartbeatFails, ProcessExits, registryVars
<1> QED BY <1>1, <1>2, EndTypes DEF ServiceTypes

\* The admission of a request.
LEMMA AdmitEffect ==
    ASSUME ServiceTypes, NEW d \in Client, NEW t \in Ticket, NEW k \in 0..MaxAttempts, Admit(d, t, k)
    PROVE  ServiceTypes' /\ Asks(d, t, k)
<1> DEFINE f == [daemon[d] EXCEPT !.phase = "evaluate", !.run = <<t, k>>]
<1>1. daemon[d] \in Daemon /\ daemon[d].phase = "idle" /\ Admissible(t, k)
    BY DEF ServiceTypes, Admit, Serving
<1>2. <<t, k>> \in Run
    BY AttemptAssumption
<1>3. f \in Daemon /\ f.phase = "evaluate" /\ f.run = <<t, k>> /\ f.probe = daemon[d].probe
    BY <1>1, <1>2 DEF Daemon, Phase
<1>4. daemon' = [daemon EXCEPT ![d] = f] /\ UNCHANGED <<run, scan, sock, proc, monitor, crashes>>
    BY DEF Admit, registryVars
<1> HIDE DEF f
<1>5. /\ daemon' \in [Client -> Daemon] /\ daemon'[d] = f
      /\ \A e \in Client \ {d} : daemon'[e] = daemon[e]
    BY <1>3, <1>4, DaemonUpdate DEF ServiceTypes
<1>6. ServiceTypes'
    BY <1>2, <1>3, <1>4, <1>5, DaemonTypes DEF ServiceTypes
<1> QED BY <1>1, <1>3, <1>4, <1>5, <1>6 DEF Asks, Frees

\* evaluate_profiles, and a profile that turns out to be taken.
LEMMA EvaluateEffect ==
    ASSUME ServiceTypes, NEW d \in Client, EvaluateProfiles(d) \/ \E p \in Profile : ReserveConflict(d, p)
    PROVE  ServiceTypes' /\ Proceeds(d)
<1>1. daemon[d] \in Daemon /\ daemon \in [Client -> Daemon]
    BY DEF ServiceTypes
<1>2. UNCHANGED <<run, scan, sock, proc, monitor, crashes>>
    BY DEF EvaluateProfiles, profile_capacity, ReserveConflict, registryVars
<1>3. ASSUME EvaluateProfiles(d)
      PROVE  daemon' \in [Client -> Daemon] /\ Moves(d, {"evaluate"}, "reserve")
    <2> DEFINE S == {p \in Profile : profile'[p].state = "ready"}
               f == [daemon[d] EXCEPT !.phase = "reserve", !.eligible = S]
    <2>1. daemon' = [daemon EXCEPT ![d] = f] /\ daemon[d].phase = "evaluate"
        BY <1>3 DEF EvaluateProfiles
    <2>2. S \in SUBSET Profile
        OBVIOUS
    <2> HIDE DEF S
    <2>3. f \in Daemon /\ f.phase = "reserve" /\ f.run = daemon[d].run /\ f.probe = daemon[d].probe
        BY <1>1, <2>2 DEF Daemon, Phase
    <2> HIDE DEF f
    <2> QED BY <1>1, <2>1, <2>3, DaemonUpdate DEF Moves, Frees
<1>4. ASSUME NEW p \in Profile, ReserveConflict(d, p)
      PROVE  daemon' \in [Client -> Daemon] /\ Moves(d, {daemon[d].phase}, daemon[d].phase)
    <2> DEFINE f == [daemon[d] EXCEPT !.eligible = @ \ {p}]
    <2>1. daemon' = [daemon EXCEPT ![d] = f]
        BY <1>4 DEF ReserveConflict
    <2>2. f \in Daemon /\ f.phase = daemon[d].phase /\ f.run = daemon[d].run /\ f.probe = daemon[d].probe
        BY <1>1 DEF Daemon
    <2> HIDE DEF f
    <2> QED BY <1>1, <2>1, <2>2, DaemonUpdate DEF Moves, Frees
<1>5. "evaluate" \in Requests
    BY DEF Requests
<1>6. ServiceTypes'
    BY <1>2, <1>3, <1>4, <1>5, ServedRun, DaemonTypes DEF Moves, Frees, ServiceTypes
<1> QED BY <1>2, <1>3, <1>4, <1>6 DEF Proceeds

\* A step of a request that goes to another phase and leaves processes and monitors alone.
LEMMA GotoTypes ==
    ASSUME ServiceTypes, NEW d \in Client, NEW to \in Phase, daemon' = Goto(d, to),
           daemon[d].phase \in Requests, UNCHANGED <<sock, proc, monitor, crashes>>
    PROVE  ServiceTypes' /\ Moves(d, {daemon[d].phase}, to)
<1>1. daemon' \in [Client -> Daemon] /\ Moves(d, {daemon[d].phase}, to)
    BY GotoFacts DEF ServiceTypes
<1> QED BY <1>1, ServedRun, DaemonTypes DEF Moves, Frees, ServiceTypes

\* The end of a request that leaves processes and monitors alone.
LEMMA DoneTypes ==
    ASSUME ServiceTypes, NEW d \in Client, daemon' = Done(d), UNCHANGED <<sock, proc, monitor, crashes>>
    PROVE  ServiceTypes' /\ Frees(d, {daemon[d].phase}, "idle")
<1>1. daemon' \in [Client -> Daemon] /\ Frees(d, {daemon[d].phase}, "idle")
    BY OffFacts DEF ServiceTypes
<1>2. "idle" \notin Requests
    BY DEF Requests, Own
<1> QED BY <1>1, <1>2, DaemonTypes DEF Frees, ServiceTypes

\* What register_run_and_acquire_lease does to the table of runs.
LEMMA AcquireRows ==
    ASSUME IInv, NEW c \in Client, NEW r \in Run, NEW p \in Profile, register_run_and_acquire_lease(c, r, p)
    PROVE  /\ Writes(r, "leased") /\ UNCHANGED scan
           /\ run[r].state \in Leasable \cup {"absent"}
           /\ run[r].state # "absent" => run'[r].pid = run[r].pid /\ run'[r].exit = run[r].exit
           /\ run[r].state = "absent" => ~run'[r].pid /\ run'[r].exit = "none"
<1> DEFINE rs == WithRun(r, p)
<1>1. /\ rs \in [Run -> RunRow]
      /\ \A q \in Run : q # r => rs[q] = run[q]
      /\ run[r].state # "absent" => rs[r] = run[r]
    BY WithRunFacts
<1>2. run[r].state = "absent" => ~rs[r].pid /\ rs[r].exit = "none"
    <2> DEFINE b == [AbsentRun EXCEPT !.state = "registered", !.profile = p]
    <2>1. ~b.pid /\ b.exit = "none"
        BY DEF AbsentRun
    <2>2. run[r].state = "absent" => rs = [run EXCEPT ![r] = b]
        BY DEF WithRun
    <2> HIDE DEF b, rs
    <2> QED BY <2>1, <2>2, Types
<1>3. PICK L \in LapsedView, E \in ElapsedView :
        Granted(r, rs, L, E) /\ run' = [rs EXCEPT ![r].state = "leased"] /\ UNCHANGED scan
    BY DEF register_run_and_acquire_lease, _acquire_lease_tx
<1>4. rs[r].state \in Leasable
    BY <1>3 DEF Granted
<1> DEFINE g == [rs[r] EXCEPT !.state = "leased"]
<1>5. rs[r] \in RunRow
    BY <1>1
<1>6. g.state = "leased" /\ g.pid = rs[r].pid /\ g.exit = rs[r].exit
    BY <1>5 DEF RunRow
<1>7. run' = [rs EXCEPT ![r] = g]
    BY <1>3
<1> HIDE DEF g, rs
<1>8. run'[r] = g /\ \A q \in Run \ {r} : run'[q] = run[q]
    BY <1>1, <1>7
<1> QED BY <1>1, <1>2, <1>3, <1>4, <1>6, <1>8 DEF Writes

\* A profile is reserved for a new run.
LEMMA ReserveEffect ==
    ASSUME ServiceTypes, IInv, NEW d \in Client, NEW p \in Profile, Reserve(d, p)
    PROVE  ServiceTypes' /\ Reserves(d)
<1>1. daemon[d].phase = "reserve" /\ "reserve" \in Requests /\ "start" \in Phase
    BY DEF Reserve, Requests, Phase
<1>2. daemon[d].run \in Run
    BY <1>1, ServedRun
<1>3. ServiceTypes' /\ Moves(d, {"reserve"}, "start")
    BY <1>1, GotoTypes DEF Reserve
<1>4. lease'[daemon[d].run].owner = d
    BY <1>2 DEF Reserve, register_run_and_acquire_lease, _acquire_lease_tx, _expire_leases_tx, NewLease
<1> QED BY <1>2, <1>3, <1>4, AcquireRows DEF Reserve, Reserves

\* start_run.
LEMMA StartRunEffect ==
    ASSUME ServiceTypes, IInv, NEW d \in Client, start_run(d)
    PROVE  ServiceTypes' /\ (Proceeds(d) \/ LeasesAgain(d))
<1>1. daemon[d].phase = "start" /\ "start" \in Requests /\ "spawn" \in Phase
    BY DEF start_run, Requests, Own, Phase
<1>2. daemon[d].run \in Run
    BY <1>1, ServedRun
<1>3. ServiceTypes' /\ Moves(d, {"start"}, "spawn")
    BY <1>1, GotoTypes DEF start_run
<1>4. UNCHANGED <<proc, monitor>>
    BY DEF start_run
<1>5. CASE RetainLease(d, daemon[d].run)
    BY <1>3, <1>4, <1>5 DEF RetainLease, Proceeds
<1>6. CASE register_run_and_acquire_lease(d, daemon[d].run, run[daemon[d].run].profile)
    <2>1. run[daemon[d].run].profile \in Profile
        BY <1>6 DEF register_run_and_acquire_lease, Registered
    <2> QED BY <1>2, <1>3, <1>4, <1>6, <2>1, AcquireRows DEF LeasesAgain
<1> QED BY <1>5, <1>6 DEF start_run

\* The request is refused, or its start fails without a lease to give back.
LEMMA RefuseEffect ==
    ASSUME ServiceTypes, NEW d \in Client, Refuse(d) \/ (StartFails(d) /\ daemon' = Done(d))
    PROVE  ServiceTypes' /\ Idles(d)
<1>1. /\ daemon[d].phase \in {"reserve", "start"} /\ daemon' = Done(d)
      /\ daemon[d].phase = "start" => ~Active(lease[daemon[d].run])
      /\ UNCHANGED <<run, scan, sock, proc, monitor, crashes>>
    <2>1. Goto(d, "fail") # Done(d)
        <3>1. Goto(d, "fail")[d].phase = "fail" /\ Done(d)[d].phase = "idle"
            BY DEF Goto, Done, Off, ServiceTypes, Daemon
        <3> QED BY <3>1
    <2> QED BY <2>1 DEF Refuse, StartFails, profile_capacity, registryVars
<1>2. ServiceTypes' /\ Frees(d, {daemon[d].phase}, "idle")
    BY <1>1, DoneTypes
<1> QED BY <1>1, <1>2 DEF Idles, Frees

\* The start fails before there is a process.
LEMMA GiveUpEffect ==
    ASSUME ServiceTypes, NEW d \in Client,
           ProfileUnavailable(d) \/ SpawnFails(d) \/ (StartFails(d) /\ daemon' = Goto(d, "fail"))
    PROVE  ServiceTypes' /\ Proceeds(d)
<1>1. /\ daemon[d].phase \in {"start", "spawn"} /\ daemon' = Goto(d, "fail")
      /\ UNCHANGED <<run, scan, sock, proc, monitor, crashes>>
    BY DEF ProfileUnavailable, SpawnFails, StartFails, registryVars
<1>2. daemon[d].phase \in Requests /\ "fail" \in Phase
    BY <1>1 DEF Requests, Own, Phase
<1>3. ServiceTypes' /\ Moves(d, {daemon[d].phase}, "fail")
    BY <1>1, <1>2, GotoTypes
<1> QED BY <1>1, <1>3 DEF Proceeds, Moves, Frees

\* A request goes to another phase and the process of its run changes.
LEMMA ProcessTypes ==
    ASSUME ServiceTypes, NEW d \in Client, NEW to \in Phase, NEW p \in Process,
           daemon[d].phase \in Requests, daemon' = Goto(d, to), proc' = [proc EXCEPT ![daemon[d].run] = p],
           UNCHANGED <<sock, monitor, crashes>>
    PROVE  ServiceTypes' /\ Moves(d, {daemon[d].phase}, to) /\ Sets(daemon[d].run, p)
<1>1. daemon' \in [Client -> Daemon] /\ Moves(d, {daemon[d].phase}, to)
    BY GotoFacts DEF ServiceTypes
<1>2. daemon[d].run \in Run
    BY ServedRun
<1>3. proc' \in [Run -> Process] /\ Sets(daemon[d].run, p)
    BY <1>2 DEF Sets, ServiceTypes
<1>4. \A e \in Client : daemon'[e].phase \in Requests => daemon'[e].run \in Run
    BY <1>1, <1>2 DEF Moves, Frees, ServiceTypes
<1> QED BY <1>1, <1>3, <1>4 DEF ServiceTypes

\* The process is spawned.
LEMMA SpawnEffect ==
    ASSUME ServiceTypes, NEW d \in Client, Spawn(d)
    PROVE  ServiceTypes' /\ Spawns(d)
<1>1. daemon[d].phase = "spawn" /\ "spawn" \in Requests /\ "record" \in Phase /\ "alive" \in Process
    BY DEF Spawn, Requests, Own, Phase, Process
<1>2. ServiceTypes' /\ Moves(d, {"spawn"}, "record") /\ Sets(daemon[d].run, "alive")
    BY <1>1, ProcessTypes DEF Spawn
<1> QED BY <1>2 DEF Spawn, Spawns, registryVars

\* The process is killed because something else failed.
LEMMA KillEffect ==
    ASSUME ServiceTypes, NEW d \in Client, KillSpawned(d)
    PROVE  ServiceTypes' /\ Kills(d)
<1> DEFINE r == daemon[d].run
           p == IF proc[r] = "alive" THEN "nonzero" ELSE proc[r]
<1>1. daemon[d].phase \in {"record", "watch"} /\ daemon[d].phase \in Requests /\ "fail" \in Phase
    BY DEF KillSpawned, Requests, Own, Phase
<1>2. r \in Run
    BY <1>1, ServedRun
<1>3. p \in Process \ {"alive"}
    BY <1>2 DEF ServiceTypes, Process, ExitCode
<1>4. proc' = [proc EXCEPT ![daemon[d].run] = p]
    BY DEF KillSpawned
<1> HIDE DEF p
<1>5. ServiceTypes' /\ Moves(d, {daemon[d].phase}, "fail") /\ Sets(r, p)
    BY <1>1, <1>3, <1>4, ProcessTypes DEF KillSpawned
<1> QED BY <1>1, <1>3, <1>5 DEF KillSpawned, Kills, Moves, Frees, registryVars

\* The start of the process is recorded.
LEMMA RecordEffect ==
    ASSUME ServiceTypes, IInv, NEW d \in Client, RecordStart(d)
    PROVE  ServiceTypes' /\ Records(d)
<1> DEFINE r == daemon[d].run
<1>1. daemon[d].phase = "record" /\ "record" \in Requests /\ "watch" \in Phase
    BY DEF RecordStart, Requests, Own, Phase
<1>2. r \in Run
    BY <1>1, ServedRun
<1>3. ServiceTypes' /\ Moves(d, {"record"}, "watch")
    BY <1>1, GotoTypes DEF RecordStart
<1>4. run[r].state \notin {"completed", "failed", "lost"}
    BY <1>2 DEF RecordStart, record_process_start, IInv, LeaseBelongsToOpenRun
<1> DEFINE b == [run[r] EXCEPT !.state = "running", !.pid = TRUE]
<1>5. run \in [Run -> RunRow] /\ run[r] \in RunRow
    BY <1>2, Types
<1>6. b.state = "running" /\ b.pid /\ b.exit = run[r].exit
    BY <1>5 DEF RunRow
<1>7. run' = [run EXCEPT ![r] = b] /\ UNCHANGED <<scan, proc, monitor>>
    BY DEF RecordStart, record_process_start
<1> HIDE DEF b
<1>8. Writes(r, "running") /\ run'[r].pid /\ run'[r].exit = run[r].exit
    BY <1>2, <1>5, <1>6, <1>7 DEF Writes
<1> QED BY <1>3, <1>4, <1>7, <1>8 DEF Records

\* The monitor thread is started.
LEMMA MonitorEffect ==
    ASSUME ServiceTypes, NEW d \in Client, StartMonitor(d)
    PROVE  ServiceTypes' /\ Watches(d)
<1> DEFINE r == daemon[d].run
           b == [NoMonitor EXCEPT !.by = d, !.phase = "watch"]
<1>1. daemon[d].phase = "watch" /\ "watch" \in Requests
    BY DEF StartMonitor, Requests, Own
<1>2. r \in Run
    BY <1>1, ServedRun
<1>3. daemon' \in [Client -> Daemon] /\ Frees(d, {"watch"}, "idle")
    BY <1>1, OffFacts DEF StartMonitor, ServiceTypes
<1>4. b \in Monitor /\ b.phase = "watch" /\ b.by = d
    BY DEF NoMonitor, Monitor
<1>5. monitor' = [monitor EXCEPT ![r] = b] /\ UNCHANGED <<run, scan, sock, proc, crashes>>
    BY DEF StartMonitor, registryVars
<1> HIDE DEF b
<1>6. /\ monitor' \in [Run -> Monitor] /\ monitor'[r] = b
      /\ \A q \in Run \ {r} : monitor'[q] = monitor[q]
    BY <1>2, <1>4, <1>5 DEF ServiceTypes
<1>7. ServiceTypes'
    <2>1. "idle" \notin Requests
        BY DEF Requests, Own
    <2>2. \A e \in Client : daemon'[e].phase \in Requests => daemon'[e].run \in Run
        BY <1>3, <2>1 DEF Frees, ServiceTypes
    <2>3. \A q \in Run : /\ monitor'[q].phase # "none" => monitor'[q].by \in Client
                         /\ monitor'[q].phase = "report" => monitor'[q].code \in ExitCode
        BY <1>4, <1>6 DEF ServiceTypes
    <2> QED BY <1>3, <1>5, <1>6, <2>2, <2>3 DEF ServiceTypes
<1> QED BY <1>3, <1>4, <1>5, <1>6, <1>7 DEF Watches

\* What record_exit does to the table of runs.
LEMMA ExitRows ==
    ASSUME IInv, NEW r \in Run, NEW code, record_exit(r, code), UNCHANGED proc
    PROVE  Results(r)
<1> DEFINE result == IF code = "zero" THEN "completed" ELSE "failed"
           b == [run[r] EXCEPT !.state = result, !.exit = code]
<1>1. result \in TerminalResult
    BY DEF TerminalResult
<1>2. run \in [Run -> RunRow] /\ run[r] \in RunRow
    BY Types
<1>3. run' = [run EXCEPT ![r] = b] /\ r \in Known /\ UNCHANGED scan
    BY DEF record_exit
<1> HIDE DEF result
<1>4. b.state = result /\ b.pid = run[r].pid
    BY <1>2 DEF RunRow
<1> HIDE DEF b
<1>5. Writes(r, result) /\ run'[r].pid = run[r].pid
    BY <1>2, <1>3, <1>4 DEF Writes
<1> QED BY <1>1, <1>3, <1>5 DEF Results

\* The failure of a start is recorded.
LEMMA FailEffect ==
    ASSUME ServiceTypes, IInv, NEW d \in Client, FailStart(d)
    PROVE  ServiceTypes' /\ Fails(d)
<1>1. daemon[d].phase = "fail" /\ "fail" \in Requests /\ UNCHANGED <<sock, proc, monitor, crashes>>
    BY DEF FailStart, Requests, Own
<1>2. daemon[d].run \in Run
    BY <1>1, ServedRun
<1>3. ServiceTypes' /\ Frees(d, {"fail"}, "idle")
    BY <1>1, DoneTypes DEF FailStart
<1> QED BY <1>1, <1>2, <1>3, ExitRows DEF FailStart, Fails

\* The monitor reaps its process.
LEMMA ReapEffect ==
    ASSUME ServiceTypes, NEW r \in Run, Reap(r)
    PROVE  ServiceTypes' /\ Reaps(r)
<1> DEFINE code == IF monitor[r].cancelled THEN "nonzero" ELSE proc[r]
           b == [monitor[r] EXCEPT !.phase = "report", !.code = code]
<1>1. monitor[r] \in Monitor /\ monitor[r].phase = "watch" /\ proc[r] \in ExitCode
    BY DEF ServiceTypes, Reap, Watching
<1>2. code \in ExitCode
    BY <1>1 DEF ExitCode
<1>3. monitor' = [monitor EXCEPT ![r] = b] /\ UNCHANGED <<daemon, run, scan, sock, proc, crashes>>
    BY DEF Reap, registryVars
<1> HIDE DEF code
<1>4. b \in Monitor /\ b.phase = "report" /\ b.by = monitor[r].by /\ b.code \in ExitCode
    BY <1>1, <1>2 DEF Monitor
<1> HIDE DEF b
<1>5. /\ monitor' \in [Run -> Monitor] /\ monitor'[r] = b
      /\ \A q \in Run \ {r} : monitor'[q] = monitor[q]
    BY <1>3, <1>4 DEF ServiceTypes
<1>6. ServiceTypes'
    BY <1>1, <1>3, <1>4, <1>5 DEF ServiceTypes
<1> QED BY <1>1, <1>3, <1>4, <1>5, <1>6 DEF Reaps

\* The monitor records the exit and ends.
LEMMA ReportEffect ==
    ASSUME ServiceTypes, IInv, NEW r \in Run, Report(r)
    PROVE  ServiceTypes' /\ Reports(r)
<1>1. /\ monitor[r].phase = "report" /\ monitor' = [monitor EXCEPT ![r] = NoMonitor]
      /\ UNCHANGED <<daemon, sock, proc, crashes>>
    BY DEF Report
<1>2. NoMonitor \in Monitor /\ NoMonitor.phase = "none"
    BY DEF NoMonitor, Monitor
<1>3. /\ monitor' \in [Run -> Monitor] /\ monitor'[r] = NoMonitor
      /\ \A q \in Run \ {r} : monitor'[q] = monitor[q]
    BY <1>1, <1>2 DEF ServiceTypes
<1>4. ServiceTypes'
    BY <1>1, <1>2, <1>3 DEF ServiceTypes
<1>5. Results(r)
    BY <1>1, ExitRows DEF Report
<1> QED BY <1>1, <1>2, <1>3, <1>4, <1>5 DEF Reports

\* Renewals and lapses of leases concern the registry alone.
LEMMA LeaseEffect ==
    ASSUME ServiceTypes, NEW r \in Run, MonitorHeartbeat(r) \/ LeaseTimesOut(r)
    PROVE  ServiceTypes' /\ Rests
<1>1. Rests /\ UNCHANGED <<sock, crashes>>
    BY DEF MonitorHeartbeat, heartbeat, LeaseTimesOut, LeaseLapses, serviceVars, Rests
<1> QED BY <1>1 DEF Rests, ServiceTypes

\* Every step of the service keeps its types and is one of the effects.
LEMMA NextEffect == ASSUME ServiceTypes, IInv, [Next]_vars PROVE ServiceTypes' /\ Effect
<1>1. CASE UNCHANGED vars
    BY <1>1 DEF vars, registryVars, serviceVars, ServiceTypes, Effect, Rests
<1>2. ASSUME NEW d \in Client, serve_forever(d) \/ RestartStep(d) \/ stop(d) \/ StopStep(d) \/ Crash(d)
      PROVE  ServiceTypes' /\ Effect
    <2>1. CASE serve_forever(d) \/ ScanRuns(d) \/ Bind(d) \/ stop(d) \/ Leave(d) \/ Crash(d)
        BY <2>1, StartEffect, ScanEffect, BindEffect, StopEffect, DeathEffect DEF Effect
    <2>2. ASSUME NEW r \in Run, ProbeRun(d, r) \/ cancel_run(d, r)
          PROVE  ServiceTypes' /\ Effect
        BY <2>2, ProbeEffect, CancelEffect DEF Effect
    <2>3. CASE ReconcileRun(d)
        BY <2>3, ReconcileEffect DEF Effect
    <2> QED BY <1>2, <2>1, <2>2, <2>3 DEF RestartStep, StopStep
<1>3. ASSUME NEW d \in Client, NEW t \in Ticket, NEW k \in 0..MaxAttempts, Admit(d, t, k)
      PROVE  ServiceTypes' /\ Effect
    BY <1>3, AdmitEffect DEF Effect
<1>4. ASSUME NEW d \in Client, RequestStep(d)
      PROVE  ServiceTypes' /\ Effect
    <2>1. CASE EvaluateProfiles(d) \/ Refuse(d) \/ ProfileUnavailable(d) \/ start_run(d)
        BY <2>1, EvaluateEffect, RefuseEffect, GiveUpEffect, StartRunEffect DEF Effect
    <2>2. CASE StartFails(d)
        <3>1. daemon' = Goto(d, "fail") \/ daemon' = Done(d)
            BY <2>2 DEF StartFails
        <3> QED BY <2>2, <3>1, RefuseEffect, GiveUpEffect DEF Effect
    <2>3. CASE Spawn(d) \/ SpawnFails(d) \/ RecordStart(d) \/ StartMonitor(d) \/ KillSpawned(d) \/ FailStart(d)
        BY <2>3, SpawnEffect, GiveUpEffect, RecordEffect, MonitorEffect, KillEffect, FailEffect DEF Effect
    <2>4. ASSUME NEW p \in Profile, Reserve(d, p) \/ ReserveConflict(d, p)
          PROVE  ServiceTypes' /\ Effect
        BY <2>4, ReserveEffect, EvaluateEffect DEF Effect
    <2> QED BY <1>4, <2>1, <2>2, <2>3, <2>4 DEF RequestStep
<1>5. ASSUME NEW r \in Run, MonitorStep(r) \/ LeaseTimesOut(r)
      PROVE  ServiceTypes' /\ Effect
    BY <1>5, LeaseEffect, ExitEffect, ReapEffect, ReportEffect DEF MonitorStep, Effect
<1>6. ASSUME NEW r \in Run, NEW code \in ExitCode, ProcessExits(r, code)
      PROVE  ServiceTypes' /\ Effect
    BY <1>6, ExitEffect DEF Effect
<1> QED BY <1>1, <1>2, <1>3, <1>4, <1>5, <1>6 DEF Next

-----------------------------------------------------------------------------
(* The service and its registry *)

(***************************************************************************)
(* Every step of the service is one transaction of the registry, for a     *)
(* run, a client and an exit code that the registry knows, or leaves the   *)
(* registry alone.                                                         *)
(***************************************************************************)
LEMMA RegistryStep == ASSUME ServiceTypes, IInv, [Next]_vars PROVE [RegistryNext]_registryVars
<1>1. CASE UNCHANGED vars
    BY <1>1 DEF vars
<1>2. ASSUME NEW d \in Client, serve_forever(d) \/ RestartStep(d) \/ stop(d) \/ StopStep(d) \/ Crash(d)
      PROVE  [RegistryNext]_registryVars
    <2>1. CASE serve_forever(d) \/ Bind(d) \/ stop(d) \/ Leave(d) \/ Crash(d)
        BY <2>1 DEF serve_forever, Bind, stop, Leave, Crash
    <2>2. CASE ScanRuns(d)
        BY <2>2 DEF ScanRuns, ClientStep, RegistryNext
    <2>3. CASE ReconcileRun(d)
        <3>1. daemon[d].probe \in Probe /\ ReconcileRow(d, daemon[d].run, daemon[d].probe)
            BY <2>3 DEF ReconcileRun, ServiceTypes, Daemon
        <3>2. RunStep(d, daemon[d].run) /\ daemon[d].run \in Run
            BY <3>1, ScanRows DEF RunStep, ReconcileRow
        <3> QED BY <3>2 DEF RegistryNext
    <2>4. ASSUME NEW r \in Run, ProbeRun(d, r) \/ cancel_run(d, r)
          PROVE  UNCHANGED registryVars
        BY <2>4 DEF ProbeRun, cancel_run
    <2> QED BY <1>2, <2>1, <2>2, <2>3, <2>4 DEF RestartStep, StopStep
<1>3. ASSUME NEW d \in Client, NEW t \in Ticket, NEW k \in 0..MaxAttempts, Admit(d, t, k)
      PROVE  [RegistryNext]_registryVars
    BY <1>3 DEF Admit
<1>4. ASSUME NEW d \in Client, RequestStep(d)
      PROVE  [RegistryNext]_registryVars
    <2>1. CASE EvaluateProfiles(d) \/ Refuse(d)
        BY <2>1 DEF EvaluateProfiles, Refuse, RegistryNext
    <2>2. CASE \/ ProfileUnavailable(d) \/ StartFails(d) \/ Spawn(d) \/ SpawnFails(d) \/ StartMonitor(d)
               \/ KillSpawned(d)
        BY <2>2 DEF ProfileUnavailable, StartFails, Spawn, SpawnFails, StartMonitor, KillSpawned
    <2>3. CASE start_run(d)
        <3>1. daemon[d].run \in Run
            BY <2>3, ServedRun DEF start_run, Requests, Own
        <3>2. \/ RetainLease(d, daemon[d].run)
              \/ \E p \in Profile : register_run_and_acquire_lease(d, daemon[d].run, p)
            BY <2>3 DEF start_run, register_run_and_acquire_lease, Registered
        <3>3. RunStep(d, daemon[d].run)
            BY <3>2 DEF RunStep
        <3> QED BY <3>1, <3>3 DEF RegistryNext
    <2>4. CASE RecordStart(d)
        <3>1. daemon[d].run \in Run
            BY <2>4, ServedRun DEF RecordStart, Requests, Own
        <3> QED BY <2>4, <3>1 DEF RecordStart, RegistryNext
    <2>5. CASE FailStart(d)
        <3>1. daemon[d].run \in Run
            BY <2>5, ServedRun DEF FailStart, Requests, Own
        <3> QED BY <2>5, <3>1 DEF FailStart, RegistryNext, ExitCode
    <2>6. ASSUME NEW p \in Profile, Reserve(d, p)
          PROVE  RegistryNext
        <3>1. daemon[d].run \in Run
            BY <2>6, ServedRun DEF Reserve, Requests, Own
        <3>2. RunStep(d, daemon[d].run)
            BY <2>6 DEF Reserve, RunStep
        <3> QED BY <3>1, <3>2 DEF RegistryNext
    <2>7. ASSUME NEW p \in Profile, ReserveConflict(d, p)
          PROVE  UNCHANGED registryVars
        BY <2>7 DEF ReserveConflict
    <2> QED BY <1>4, <2>1, <2>2, <2>3, <2>4, <2>5, <2>6, <2>7 DEF RequestStep
<1>5. ASSUME NEW r \in Run, MonitorStep(r) \/ LeaseTimesOut(r)
      PROVE  [RegistryNext]_registryVars
    <2>1. CASE MonitorHeartbeat(r)
        <3>1. monitor[r].by \in Client
            BY <2>1 DEF MonitorHeartbeat, Watching, ServiceTypes
        <3>2. RunStep(monitor[r].by, r)
            BY <2>1 DEF MonitorHeartbeat, RunStep
        <3> QED BY <3>1, <3>2 DEF RegistryNext
    <2>2. CASE HeartbeatFails(r) \/ Reap(r)
        BY <2>2 DEF HeartbeatFails, Reap
    <2>3. CASE Report(r)
        <3>1. monitor[r].code \in ExitCode
            BY <2>3 DEF Report, ServiceTypes
        <3> QED BY <2>3, <3>1 DEF Report, RegistryNext
    <2>4. CASE LeaseTimesOut(r)
        BY <2>4 DEF LeaseTimesOut, RegistryNext
    <2> QED BY <1>5, <2>1, <2>2, <2>3, <2>4 DEF MonitorStep
<1>6. ASSUME NEW r \in Run, NEW code \in ExitCode, ProcessExits(r, code)
      PROVE  [RegistryNext]_registryVars
    BY <1>6 DEF ProcessExits
<1> QED BY <1>1, <1>2, <1>3, <1>4, <1>5, <1>6 DEF Next

\* Initially nothing runs.
LEMMA InitTypes == Init => ServiceTypes /\ IInv
<1> SUFFICES ASSUME Init
             PROVE  ServiceTypes /\ IInv
    OBVIOUS
<1>1. Off \in Daemon /\ Off.phase = "off" /\ NoMonitor \in Monitor /\ NoMonitor.phase = "none"
    BY DEF Off, Daemon, Phase, NoMonitor, Monitor
<1>2. "off" \notin Requests
    BY DEF Requests, Own
<1>3. ServiceTypes
    BY <1>1, <1>2, FlagAssumption DEF Init, ServiceTypes, Process
<1> QED BY <1>3, InitInv DEF Init

\* The types of the service and the invariant of its registry hold in every reachable state.
LEMMA ServiceTyped == Spec => [](ServiceTypes /\ IInv)
<1>1. ServiceTypes /\ IInv /\ [Next]_vars => (ServiceTypes /\ IInv)'
    BY NextEffect, RegistryStep, NextInv
<1> QED BY <1>1, InitTypes, PTL DEF Spec

\* Type correctness of the service: daemons, processes and monitors are where TypeOK says.
THEOREM ServiceTypeCorrect == Spec => []TypeOK
<1>1. ServiceTypes /\ IInv => TypeOK
    BY DEF ServiceTypes, IInv, TypeOK
<1> QED BY <1>1, ServiceTyped, PTL

(***************************************************************************)
(* In the running service a profile never has more active leases than its  *)
(* max_concurrency, and only runs under way hold one, through overlapping  *)
(* daemons, crashes and restarts (register_run_and_acquire_lease,          *)
(* record_exit, reconcile_runs).                                           *)
(***************************************************************************)
THEOREM ServiceRespectsCapacity == Spec => [](CapacityRespected /\ LeaseBelongsToOpenRun)
<1>1. ServiceTypes /\ IInv => CapacityRespected /\ LeaseBelongsToOpenRun
    BY DEF IInv
<1> QED BY <1>1, ServiceTyped, PTL

\* What reconcile_runs may make of a row it has read.
LEMMA ClassifyFacts ==
    ASSUME NEW row \in ScanRow, NEW probe \in Probe \ {"unobservable"}
    PROVE  LET class == Classify(row, probe)
           IN  /\ class \in {"live", "orphaned", "completed", "failed", "lost"}
               /\ row.state \in TerminalResult => class = row.state
               /\ row.state \notin TerminalResult /\ ~row.pid => class = "orphaned"
               /\ class = "lost" => row.pid
               /\ class \in {"completed", "failed", "lost"} =>
                      row.state \in TerminalResult \/ (row.pid /\ probe \in {"gone", "other"})
               /\ row.state = "lost" /\ row.pid /\ row.exit = "none" /\ probe # "match" => class = "lost"
<1> DEFINE class == Classify(row, probe)
<1>1. CASE row.state \in TerminalResult
    BY <1>1 DEF Classify, TerminalResult
<1>2. CASE row.state \notin TerminalResult /\ ~row.pid
    BY <1>2 DEF Classify, TerminalResult
<1>3. CASE row.state \notin TerminalResult /\ row.pid
    <2>1. CASE probe = "other"
        BY <1>3, <2>1 DEF Classify, TerminalResult
    <2>2. CASE probe = "match"
        BY <1>3, <2>2 DEF Classify, TerminalResult
    <2>3. CASE probe = "gone"
        <3>1. class = [none |-> "lost", zero |-> "completed", nonzero |-> "failed"][row.exit]
            BY <1>3, <2>3 DEF Classify
        <3>2. row.exit \in {"zero", "nonzero", "none"}
            BY DEF ScanRow, ExitCode
        <3>3. class \in {"lost", "completed", "failed"} /\ (row.exit = "none" => class = "lost")
            BY <3>1, <3>2
        <3> QED BY <1>3, <2>3, <3>3 DEF TerminalResult
    <2> QED BY <2>1, <2>2, <2>3 DEF Probe
<1> QED BY <1>1, <1>2, <1>3

\* The row that reconcile_runs is about to write, and what it knows of the process.
LEMMA ReconciledRow ==
    ASSUME IInv, OwnerInv, NEW d \in Client, NEW r \in Run, Reconciles(d, r)
    PROVE  /\ scan[d][r] \in ScanRow /\ run[r].state # "absent"
           /\ daemon[d].run = r /\ daemon[d].phase = "rows"
           /\ daemon[d].probe \in Probe \ {"unobservable"}
           /\ run'[r].state = Classify(scan[d][r], daemon[d].probe)
           /\ \A q \in Run \ {r} : run'[q] = run[q]
BY ScanRows DEF Reconciles, Frees, Writes, OwnerInv, Probed

-----------------------------------------------------------------------------
(* Owners *)

LEMMA OwnerStep == ASSUME ServiceTypes, IInv, OwnerInv, Effect PROVE OwnerInv'
<1> USE DEF OwnerInv, OneOwner, AbsentUntouched, StartPending, ReportedIsDead, Probed, Owns, Own, Unrecorded,
            Over, TerminalResult
<1>1. ASSUME NEW d \in Client, Starts(d)
      PROVE  OwnerInv'
    BY <1>1 DEF Starts, Frees
<1>2. ASSUME NEW d \in Client, Scans(d)
      PROVE  OwnerInv'
    BY <1>2 DEF Scans, Frees
<1>3. ASSUME NEW d \in Client, Dies(d)
      PROVE  OwnerInv'
    BY <1>3 DEF Dies, Frees
<1>4. ASSUME NEW d \in Client, Idles(d)
      PROVE  OwnerInv'
    BY <1>4 DEF Idles, Frees
<1>5. ASSUME NEW d \in Client, Proceeds(d)
      PROVE  OwnerInv'
    BY <1>5 DEF Proceeds, Moves, Frees
<1>6. ASSUME NEW d \in Client, Reserves(d)
      PROVE  OwnerInv'
    BY <1>6 DEF Reserves, Moves, Frees, Writes, IInv, ScanKnown
<1>7. ASSUME NEW d \in Client, LeasesAgain(d)
      PROVE  OwnerInv'
    BY <1>7 DEF LeasesAgain, Moves, Frees, Writes
<1>8. ASSUME NEW d \in Client, Spawns(d)
      PROVE  OwnerInv'
    BY <1>8 DEF Spawns, Moves, Frees, Sets
<1>9. ASSUME NEW d \in Client, Records(d)
      PROVE  OwnerInv'
    BY <1>9 DEF Records, Moves, Frees, Writes
<1>10. ASSUME NEW d \in Client, Watches(d)
      PROVE  OwnerInv'
    BY <1>10 DEF Watches, Frees
<1>11. ASSUME NEW d \in Client, Kills(d)
      PROVE  OwnerInv'
    BY <1>11 DEF Kills, Moves, Frees, Sets
<1>12. ASSUME NEW d \in Client, Fails(d)
      PROVE  OwnerInv'
    BY <1>12 DEF Fails, Frees, Results, Writes, Known
<1>13. ASSUME NEW d \in Client, NEW r \in Run, Reconciles(d, r)
      PROVE  OwnerInv'
    <2> DEFINE row == scan[d][r]
               class == Classify(row, daemon[d].probe)
    <2>1. /\ row \in ScanRow /\ daemon[d].probe \in Probe \ {"unobservable"} /\ run[r].state # "absent"
          /\ run'[r].state = class /\ \A q \in Run \ {r} : run'[q] = run[q]
        BY <1>13, ReconciledRow
    <2>2. /\ class # "absent"
          /\ row.state \notin TerminalResult /\ ~row.pid => class = "orphaned"
        BY <2>1, ClassifyFacts
    <2> HIDE DEF class
    <2> QED BY <1>13, <2>1, <2>2 DEF Reconciles, Frees
<1>14. ASSUME NEW d \in Client, NEW t \in Ticket, NEW k \in 0..MaxAttempts, Asks(d, t, k)
      PROVE  OwnerInv'
    BY <1>14 DEF Asks, Frees, Admissible
<1>15. ASSUME NEW r \in Run, Ends(r)
      PROVE  OwnerInv'
    BY <1>15 DEF Ends, Sets, ExitCode
<1>16. ASSUME NEW r \in Run, Reaps(r)
      PROVE  OwnerInv'
    BY <1>16 DEF Reaps, ExitCode
<1>17. ASSUME NEW r \in Run, Reports(r)
      PROVE  OwnerInv'
    BY <1>17 DEF Reports, Results, Writes, Known
<1>18. CASE Rests
    BY <1>18 DEF Rests
<1>19. ASSUME NEW d \in Client, NEW r \in Run, Looks(d, r)
      PROVE  OwnerInv'
    <2>1. daemon'[d].probe \in Probe \ {"unobservable"}
        BY <1>19, ProbesType DEF Looks
    <2> QED BY <1>19, <2>1 DEF Looks
<1> QED BY <1>1, <1>2, <1>3, <1>4, <1>5, <1>6, <1>7, <1>8, <1>9, <1>10, <1>11, <1>12, <1>13, <1>14, <1>15, <1>16, <1>17, <1>18, <1>19 DEF Effect

\* The owners' invariant holds initially.
LEMMA OwnerInit == Init => OwnerInv
BY DEF Init, RegistryInit, AbsentRun, NoMonitor, Off, OwnerInv, OneOwner, AbsentUntouched, StartPending,
       ReportedIsDead, Probed, Owns, Own, Unrecorded

\* The owners' invariant, with the types and the invariant of the registry.
LEMMA OwnersHold == Spec => [](ServiceTypes /\ IInv /\ OwnerInv)
<1>1. ServiceTypes /\ IInv /\ OwnerInv /\ [Next]_vars => OwnerInv'
    BY NextEffect, OwnerStep
<1> QED BY <1>1, OwnerInit, ServiceTyped, PTL DEF Spec

-----------------------------------------------------------------------------
(* Over is dead, and one process per ticket *)

\* A run that is over has a dead process, and so has a run whose result some daemon has read.
LEMMA DeadStep ==
    ASSUME ServiceTypes, IInv, OwnerInv, ~ProbeFaults, Dead, Effect
    PROVE  Dead'
<1> USE DEF OwnerInv, StartPending, ReportedIsDead, Unrecorded, Over, TerminalResult, OverIsDead,
            ScannedResultIsDead, ProbedIsDead, Probed, Dead
<1>0. \A c \in Client : daemon[c].phase = "rows" /\ daemon[c].probe \in {"gone", "other"} =>
          daemon[c].run \in Run /\ daemon[c].run \in DOMAIN scan[c]
    BY ScanRows
<1>1. ASSUME NEW d \in Client, Starts(d)
      PROVE  Dead'
    BY <1>1 DEF Starts, Frees
<1>2. ASSUME NEW d \in Client, Scans(d)
      PROVE  Dead'
    BY <1>2 DEF Scans, Frees, Known
<1>3. ASSUME NEW d \in Client, Dies(d)
      PROVE  Dead'
    BY <1>3 DEF Dies, Frees
<1>4. ASSUME NEW d \in Client, Idles(d)
      PROVE  Dead'
    BY <1>4 DEF Idles, Frees
<1>5. ASSUME NEW d \in Client, Proceeds(d)
      PROVE  Dead'
    BY <1>5 DEF Proceeds, Moves, Frees
<1>6. ASSUME NEW d \in Client, Reserves(d)
      PROVE  Dead'
    BY <1>6 DEF Reserves, Moves, Frees, Writes
<1>7. ASSUME NEW d \in Client, LeasesAgain(d)
      PROVE  Dead'
    BY <1>7 DEF LeasesAgain, Moves, Frees, Writes
<1>8. ASSUME NEW d \in Client, Spawns(d)
      PROVE  Dead'
    <2>1. daemon[d].phase = "spawn" /\ daemon[d].run \in Run
        BY <1>8 DEF Spawns, Moves, Frees, ServiceTypes, Requests, Own
    <2>2. OverIsDead' /\ ScannedResultIsDead'
        BY <1>8, <2>1 DEF Spawns, Moves, Frees, Sets
    <2>3. ProbedIsDead'
        BY <1>0, <1>8, <2>1 DEF Spawns, Moves, Frees, Sets
    <2> QED BY <2>2, <2>3
<1>9. ASSUME NEW d \in Client, Records(d)
      PROVE  Dead'
    BY <1>9 DEF Records, Moves, Frees, Writes
<1>10. ASSUME NEW d \in Client, Watches(d)
      PROVE  Dead'
    BY <1>10 DEF Watches, Frees
<1>11. ASSUME NEW d \in Client, Kills(d)
      PROVE  Dead'
    BY <1>0, <1>11 DEF Kills, Moves, Frees, Sets
<1>12. ASSUME NEW d \in Client, Fails(d)
      PROVE  Dead'
    BY <1>12 DEF Fails, Frees, Results, Writes, Known
<1>13. ASSUME NEW d \in Client, NEW r \in Run, Reconciles(d, r)
      PROVE  Dead'
    <2> DEFINE row == scan[d][r]
               class == Classify(row, daemon[d].probe)
    <2>1. /\ row \in ScanRow /\ daemon[d].probe \in Probe \ {"unobservable"}
          /\ daemon[d].run = r /\ daemon[d].phase = "rows"
          /\ run'[r].state = class /\ \A q \in Run \ {r} : run'[q] = run[q]
        BY <1>13, ReconciledRow
    <2>2. class \in {"completed", "failed", "lost"} =>
              row.state \in TerminalResult \/ (row.pid /\ daemon[d].probe \in {"gone", "other"})
        BY <2>1, ClassifyFacts
    <2>3. class \in {"completed", "failed", "lost"} => proc[r] # "alive"
        BY <1>13, <2>1, <2>2 DEF Reconciles
    <2> HIDE DEF class
    <2>4. OverIsDead' /\ ScannedResultIsDead'
        BY <1>13, <2>1, <2>3 DEF Reconciles
    <2>5. ProbedIsDead'
        BY <1>13, <2>1 DEF Reconciles, Frees
    <2> QED BY <2>4, <2>5
<1>14. ASSUME NEW d \in Client, NEW t \in Ticket, NEW k \in 0..MaxAttempts, Asks(d, t, k)
      PROVE  Dead'
    BY <1>14 DEF Asks, Frees
<1>15. ASSUME NEW r \in Run, Ends(r)
      PROVE  Dead'
    BY <1>0, <1>15 DEF Ends, Sets, ExitCode
<1>16. ASSUME NEW r \in Run, Reaps(r)
      PROVE  Dead'
    BY <1>16 DEF Reaps, ExitCode
<1>17. ASSUME NEW r \in Run, Reports(r)
      PROVE  Dead'
    BY <1>17 DEF Reports, Results, Writes, Known
<1>18. CASE Rests
    BY <1>18 DEF Rests
<1>19. ASSUME NEW d \in Client, NEW r \in Run, Looks(d, r)
      PROVE  Dead'
    <2>1. daemon'[d].probe \in {"gone", "other"} => proc[r] # "alive"
        BY <1>19 DEF Looks, Probes
    <2> QED BY <1>19, <2>1 DEF Looks
<1> QED BY <1>1, <1>2, <1>3, <1>4, <1>5, <1>6, <1>7, <1>8, <1>9, <1>10, <1>11, <1>12, <1>13, <1>14, <1>15, <1>16, <1>17, <1>18, <1>19 DEF Effect

\* A settled run stays settled: it is registered, and processes are spawned from phase spawn only.
LEMMA SettledStays ==
    ASSUME ServiceTypes, IInv, OwnerInv, Effect, NEW q \in Run, Settled(q)
    PROVE  Settled(q)'
<1> USE DEF Settled
<1>1. ASSUME NEW d \in Client, Starts(d)
      PROVE  Settled(q)'
    BY <1>1 DEF Starts, Frees
<1>2. ASSUME NEW d \in Client, Scans(d)
      PROVE  Settled(q)'
    BY <1>2 DEF Scans, Frees, Known
<1>3. ASSUME NEW d \in Client, Dies(d)
      PROVE  Settled(q)'
    BY <1>3 DEF Dies, Frees
<1>4. ASSUME NEW d \in Client, Idles(d)
      PROVE  Settled(q)'
    BY <1>4 DEF Idles, Frees
<1>5. ASSUME NEW d \in Client, Proceeds(d)
      PROVE  Settled(q)'
    BY <1>5 DEF Proceeds, Moves, Frees
<1>6. ASSUME NEW d \in Client, Reserves(d)
      PROVE  Settled(q)'
    BY <1>6 DEF Reserves, Moves, Frees, Writes
<1>7. ASSUME NEW d \in Client, LeasesAgain(d)
      PROVE  Settled(q)'
    BY <1>7 DEF LeasesAgain, Moves, Frees, Writes
<1>8. ASSUME NEW d \in Client, Spawns(d)
      PROVE  Settled(q)'
    BY <1>8 DEF Spawns, Moves, Frees, Sets
<1>9. ASSUME NEW d \in Client, Records(d)
      PROVE  Settled(q)'
    BY <1>9 DEF Records, Moves, Frees, Writes
<1>10. ASSUME NEW d \in Client, Watches(d)
      PROVE  Settled(q)'
    BY <1>10 DEF Watches, Frees
<1>11. ASSUME NEW d \in Client, Kills(d)
      PROVE  Settled(q)'
    BY <1>11 DEF Kills, Moves, Frees, Sets
<1>12. ASSUME NEW d \in Client, Fails(d)
      PROVE  Settled(q)'
    BY <1>12 DEF TerminalResult, Fails, Frees, Results, Writes, Known
<1>13. ASSUME NEW d \in Client, NEW r \in Run, Reconciles(d, r)
      PROVE  Settled(q)'
    <2>1. Classify(scan[d][r], daemon[d].probe) # "absent"
        BY <1>13, ReconciledRow, ClassifyFacts
    <2> QED BY <1>13, <2>1, ReconciledRow DEF Reconciles, Frees
<1>14. ASSUME NEW d \in Client, NEW t \in Ticket, NEW k \in 0..MaxAttempts, Asks(d, t, k)
      PROVE  Settled(q)'
    BY <1>14 DEF Asks, Frees
<1>15. ASSUME NEW r \in Run, Ends(r)
      PROVE  Settled(q)'
    BY <1>15 DEF Ends, Sets, ExitCode
<1>16. ASSUME NEW r \in Run, Reaps(r)
      PROVE  Settled(q)'
    BY <1>16 DEF Reaps, ExitCode
<1>17. ASSUME NEW r \in Run, Reports(r)
      PROVE  Settled(q)'
    BY <1>17 DEF TerminalResult, Reports, Results, Writes, Known
<1>18. CASE Rests
    BY <1>18 DEF Rests
<1>19. ASSUME NEW d \in Client, NEW r \in Run, Looks(d, r)
      PROVE  Settled(q)'
    BY <1>19 DEF Looks
<1> QED BY <1>1, <1>2, <1>3, <1>4, <1>5, <1>6, <1>7, <1>8, <1>9, <1>10, <1>11, <1>12, <1>13, <1>14, <1>15, <1>16, <1>17, <1>18, <1>19 DEF Effect

\* A run becomes requested only when a daemon admits it.
LEMMA RequestedBefore ==
    ASSUME ServiceTypes, IInv, OwnerInv, Effect, NEW q \in Run, Requested(q)'
    PROVE  \/ Requested(q)
           \/ \E d \in Client, t \in Ticket, k \in 0..MaxAttempts : Asks(d, t, k) /\ q = <<t, k>>
<1> SUFFICES ASSUME ~Requested(q)
             PROVE  \E d \in Client, t \in Ticket, k \in 0..MaxAttempts : Asks(d, t, k) /\ q = <<t, k>>
    OBVIOUS
<1> DEFINE Asked == \E d \in Client, t \in Ticket, k \in 0..MaxAttempts : Asks(d, t, k) /\ q = <<t, k>>
<1> USE DEF Requested, Serves, Requests, Own
<1>0. SUFFICES Asked
    OBVIOUS
<1>1. ASSUME NEW d \in Client, Starts(d)
      PROVE  Asked
    BY <1>1 DEF Starts, Frees
<1>2. ASSUME NEW d \in Client, Scans(d)
      PROVE  Asked
    BY <1>2 DEF Scans, Frees, Known
<1>3. ASSUME NEW d \in Client, Dies(d)
      PROVE  Asked
    BY <1>3 DEF Dies, Frees
<1>4. ASSUME NEW d \in Client, Idles(d)
      PROVE  Asked
    BY <1>4 DEF Idles, Frees
<1>5. ASSUME NEW d \in Client, Proceeds(d)
      PROVE  Asked
    BY <1>5 DEF Proceeds, Moves, Frees
<1>6. ASSUME NEW d \in Client, Reserves(d)
      PROVE  Asked
    BY <1>6 DEF Reserves, Moves, Frees, Writes
<1>7. ASSUME NEW d \in Client, LeasesAgain(d)
      PROVE  Asked
    BY <1>7 DEF LeasesAgain, Moves, Frees, Writes
<1>8. ASSUME NEW d \in Client, Spawns(d)
      PROVE  Asked
    BY <1>8 DEF Spawns, Moves, Frees, Sets
<1>9. ASSUME NEW d \in Client, Records(d)
      PROVE  Asked
    BY <1>9 DEF Records, Moves, Frees, Writes
<1>10. ASSUME NEW d \in Client, Watches(d)
      PROVE  Asked
    BY <1>10 DEF Watches, Frees
<1>11. ASSUME NEW d \in Client, Kills(d)
      PROVE  Asked
    BY <1>11 DEF Kills, Moves, Frees, Sets
<1>12. ASSUME NEW d \in Client, Fails(d)
      PROVE  Asked
    BY <1>12 DEF Fails, Frees, Results, Writes, Known
<1>13. ASSUME NEW d \in Client, NEW r \in Run, Reconciles(d, r)
      PROVE  Asked
    BY <1>13, ReconciledRow DEF Reconciles, Frees
<1>14. ASSUME NEW d \in Client, NEW t \in Ticket, NEW k \in 0..MaxAttempts, Asks(d, t, k)
      PROVE  Asked
    <2>1. q = <<t, k>>
        BY <1>14 DEF Asks, Frees
    <2> QED BY <1>14, <2>1
<1>15. ASSUME NEW r \in Run, Ends(r)
      PROVE  Asked
    BY <1>15 DEF Ends, Sets, ExitCode
<1>16. ASSUME NEW r \in Run, Reaps(r)
      PROVE  Asked
    BY <1>16 DEF Reaps, ExitCode
<1>17. ASSUME NEW r \in Run, Reports(r)
      PROVE  Asked
    BY <1>17 DEF Reports, Results, Writes, Known
<1>18. CASE Rests
    BY <1>18 DEF Rests
<1>19. ASSUME NEW d \in Client, NEW r \in Run, Looks(d, r)
      PROVE  Asked
    BY <1>19 DEF Looks
<1> QED BY <1>1, <1>2, <1>3, <1>4, <1>5, <1>6, <1>7, <1>8, <1>9, <1>10, <1>11, <1>12, <1>13, <1>14, <1>15, <1>16, <1>17, <1>18, <1>19 DEF Effect

\* What the admission requires of earlier runs is that they are settled, and they stay so.
LEMMA EarlierStep ==
    ASSUME ServiceTypes, IInv, OwnerInv, OverIsDead, EarlierSettled, Effect
    PROVE  EarlierSettled'
<1> SUFFICES ASSUME NEW t \in Ticket, NEW k \in 0..MaxAttempts, Requested(<<t, k>>)', NEW j \in 0..(k - 1)
             PROVE  Settled(<<t, j>>)'
    BY DEF EarlierSettled
<1>1. <<t, k>> \in Run /\ <<t, j>> \in Run
    BY AttemptAssumption
<1>2. CASE Requested(<<t, k>>)
    <2>1. Settled(<<t, j>>)
        BY <1>2 DEF EarlierSettled
    <2> QED BY <1>1, <2>1, SettledStays
<1>3. ASSUME NEW d \in Client, NEW u \in Ticket, NEW m \in 0..MaxAttempts, Asks(d, u, m), <<t, k>> = <<u, m>>
      PROVE  Settled(<<t, j>>)'
    <2>1. u = t /\ m = k
        BY <1>3
    <2>2. run[<<t, j>>].state \in Retryable
        BY <1>3, <2>1 DEF Asks, Admissible
    <2>3. Over(<<t, j>>)
        BY <2>2 DEF Retryable, Over
    <2>4. Settled(<<t, j>>)
        BY <1>1, <2>2, <2>3 DEF Settled, OverIsDead, OwnerInv, StartPending, Unrecorded, Retryable
    <2> QED BY <1>1, <2>4, SettledStays
<1> QED BY <1>1, <1>2, <1>3, RequestedBefore

\* The invariant about processes holds initially.
LEMMA DeadInit == Init => DeadInv
<1> SUFFICES ASSUME Init
             PROVE  DeadInv
    OBVIOUS
<1>1. Dead
    BY DEF Init, RegistryInit, AbsentRun, NoScan, Off, Over, Dead, OverIsDead, ScannedResultIsDead, ProbedIsDead
<1>2. \A r \in Run : ~Requested(r)
    BY DEF Init, RegistryInit, AbsentRun, Off, Requested, Serves, Requests, Own
<1>3. EarlierSettled
    BY <1>2, AttemptAssumption DEF EarlierSettled
<1> QED BY <1>1, <1>3 DEF DeadInv

\* The invariant about processes, with what it rests on.
LEMMA DeadHolds == ASSUME ~ProbeFaults PROVE Spec => [](ServiceTypes /\ IInv /\ OwnerInv /\ DeadInv)
<1>1. ServiceTypes /\ IInv /\ OwnerInv /\ DeadInv /\ [Next]_vars => DeadInv'
    BY NextEffect, DeadStep, EarlierStep DEF DeadInv, Dead
<1> QED BY <1>1, DeadInit, OwnersHold, PTL DEF Spec

(***************************************************************************)
(* A run is recorded as completed, failed or lost only when its process is *)
(* gone (record_exit, reconcile_runs): for any number of overlapping       *)
(* daemons, any crashes and lapsed leases. Probes must not fail: a failure *)
(* to read the identity of a live process counts as its absence.           *)
(***************************************************************************)
THEOREM OverMeansDead == ASSUME ~ProbeFaults PROVE Spec => []OverIsDead
<1>1. DeadInv => OverIsDead
    BY DEF DeadInv, Dead
<1> QED BY <1>1, DeadHolds, PTL

(***************************************************************************)
(* The runs of a ticket never have two live processes                      *)
(* (_admit_governed_host_envelope_run), for any number of retries and of   *)
(* overlapping daemons, though the states an admission has read may change *)
(* before it spawns. Probes must not fail.                                 *)
(***************************************************************************)
THEOREM NoDuplicateSpawn == ASSUME ~ProbeFaults PROVE Spec => []OneProcessPerTicket
<1>1. ServiceTypes /\ IInv /\ OwnerInv /\ DeadInv => OneProcessPerTicket
    <2> SUFFICES ASSUME OwnerInv, DeadInv, NEW t \in Ticket
                 PROVE  Cardinality({k \in 0..MaxAttempts : proc[<<t, k>>] = "alive"}) <= 1
        BY DEF OneProcessPerTicket
    <2> DEFINE S == {k \in 0..MaxAttempts : proc[<<t, k>>] = "alive"}
    <2>1. ASSUME NEW k \in S, NEW j \in S, j < k
          PROVE  FALSE
        <3>1. <<t, k>> \in Run /\ proc[<<t, k>>] = "alive" /\ k \in 0..MaxAttempts
            BY <2>1, AttemptAssumption
        <3>2. Requested(<<t, k>>)
            BY <3>1 DEF OwnerInv, AbsentUntouched, Requested
        <3>3. j \in 0..(k - 1)
            BY <2>1, AttemptAssumption
        <3>4. Settled(<<t, j>>)
            BY <3>1, <3>2, <3>3 DEF DeadInv, EarlierSettled
        <3> QED BY <2>1, <3>4 DEF Settled
    <2>2. \A k, j \in S : k = j
        <3>1. S \subseteq Int
            BY AttemptAssumption
        <3> HIDE DEF S
        <3> QED BY <2>1, <3>1
    <2>3. CASE S = {}
        <3>1. Cardinality(S) = 0
            <4> HIDE DEF S
            <4> QED BY <2>3, FS_EmptySet
        <3> QED BY <3>1
    <2>4. CASE S # {}
        <3>1. PICK k \in S : S = {k}
            BY <2>2, <2>4
        <3>2. Cardinality(S) = 1
            BY <3>1, FS_Singleton
        <3> QED BY <3>2
    <2> QED BY <2>3, <2>4
<1> QED BY <1>1, DeadHolds, PTL

-----------------------------------------------------------------------------
(* One daemon at a time *)

\* Without overlap, nobody writes behind the back of reconcile_runs or to a run that is over.
LEMMA SoloStep ==
    ASSUME ServiceTypes, IInv, OwnerInv, ~Overlap, SoloInv, Effect
    PROVE  SoloInv'
<1> USE DEF ServiceTypes, OwnerInv, OneOwner, SoloInv, OneDaemon, ScanCurrent, OverIsReleased, ExitMeansResult,
            Alive, Owns, Own, Over, TerminalResult
<1>1. ASSUME NEW d \in Client, Starts(d)
      PROVE  SoloInv'
    BY <1>1 DEF Starts, Frees
<1>2. ASSUME NEW d \in Client, Scans(d)
      PROVE  SoloInv'
    BY <1>2 DEF Scans, Frees, Known
<1>3. ASSUME NEW d \in Client, Dies(d)
      PROVE  SoloInv'
    BY <1>3 DEF Dies, Frees
<1>4. ASSUME NEW d \in Client, Idles(d)
      PROVE  SoloInv'
    BY <1>4 DEF Idles, Frees
<1>5. ASSUME NEW d \in Client, Proceeds(d)
      PROVE  SoloInv'
    BY <1>5 DEF Proceeds, Moves, Frees
<1>6. ASSUME NEW d \in Client, Reserves(d)
      PROVE  SoloInv'
    BY <1>6 DEF Reserves, Moves, Frees, Writes
<1>7. ASSUME NEW d \in Client, LeasesAgain(d)
      PROVE  SoloInv'
    BY <1>7 DEF Leasable, RunState, LeasesAgain, Moves, Frees, Writes
<1>8. ASSUME NEW d \in Client, Spawns(d)
      PROVE  SoloInv'
    BY <1>8 DEF Spawns, Moves, Frees, Sets
<1>9. ASSUME NEW d \in Client, Records(d)
      PROVE  SoloInv'
    BY <1>9 DEF Records, Moves, Frees, Writes
<1>10. ASSUME NEW d \in Client, Watches(d)
      PROVE  SoloInv'
    BY <1>10 DEF Watches, Frees
<1>11. ASSUME NEW d \in Client, Kills(d)
      PROVE  SoloInv'
    BY <1>11 DEF Kills, Moves, Frees, Sets
<1>12. ASSUME NEW d \in Client, Fails(d)
      PROVE  SoloInv'
    BY <1>12 DEF Fails, Frees, Results, Writes, Known
<1>13. ASSUME NEW d \in Client, NEW r \in Run, Reconciles(d, r)
      PROVE  SoloInv'
    <2> DEFINE row == scan[d][r]
               class == Classify(row, daemon[d].probe)
    <2>1. /\ row \in ScanRow /\ daemon[d].probe \in Probe \ {"unobservable"} /\ daemon[d].phase = "rows"
          /\ run'[r].state = class /\ \A q \in Run \ {r} : run'[q] = run[q]
        BY <1>13, ReconciledRow
    <2>2. /\ row.state \in TerminalResult => class = row.state
          /\ class = "lost" => row.pid
        BY <2>1, ClassifyFacts
    <2>3. monitor[r].phase = "none"
        BY <2>1
    <2> HIDE DEF class
    <2> QED BY <1>13, <2>1, <2>2, <2>3 DEF Reconciles, Frees
<1>14. ASSUME NEW d \in Client, NEW t \in Ticket, NEW k \in 0..MaxAttempts, Asks(d, t, k)
      PROVE  SoloInv'
    BY <1>14 DEF Asks, Frees
<1>15. ASSUME NEW r \in Run, Ends(r)
      PROVE  SoloInv'
    BY <1>15 DEF Ends, Sets, ExitCode
<1>16. ASSUME NEW r \in Run, Reaps(r)
      PROVE  SoloInv'
    BY <1>16 DEF Reaps, ExitCode
<1>17. ASSUME NEW r \in Run, Reports(r)
      PROVE  SoloInv'
    BY <1>17 DEF Reports, Results, Writes, Known
<1>18. CASE Rests
    BY <1>18 DEF Rests
<1>19. ASSUME NEW d \in Client, NEW r \in Run, Looks(d, r)
      PROVE  SoloInv'
    BY <1>19 DEF Looks
<1> QED BY <1>1, <1>2, <1>3, <1>4, <1>5, <1>6, <1>7, <1>8, <1>9, <1>10, <1>11, <1>12, <1>13, <1>14, <1>15, <1>16, <1>17, <1>18, <1>19 DEF Effect

\* Initially no daemon runs.
LEMMA SoloInit == Init => SoloInv
BY DEF Init, RegistryInit, AbsentRun, NoMonitor, Off, SoloInv, OneDaemon, ScanCurrent, OverIsReleased,
       ExitMeansResult, Alive, Over

\* The invariant about a single daemon, with what it rests on.
LEMMA SoloHolds == ASSUME ~Overlap PROVE Spec => [](ServiceTypes /\ IInv /\ OwnerInv /\ SoloInv)
<1>1. ServiceTypes /\ IInv /\ OwnerInv /\ SoloInv /\ [Next]_vars => SoloInv'
    BY NextEffect, SoloStep
<1> QED BY <1>1, SoloInit, OwnersHold, PTL DEF Spec

\* A run that is over stays what it is; if it is lost, provided that no probe says otherwise.
LEMMA OverStays ==
    ASSUME ServiceTypes, IInv, OwnerInv, SoloInv, Effect, NEW q \in Run, Over(q),
           run[q].state = "lost" => LostUnmatched
    PROVE  run'[q].state = run[q].state
<1> USE DEF SoloInv, OverIsReleased, Owns, Own, Over, TerminalResult
<1>1. ASSUME NEW d \in Client, Starts(d)
      PROVE  run'[q].state = run[q].state
    BY <1>1 DEF Starts, Frees
<1>2. ASSUME NEW d \in Client, Scans(d)
      PROVE  run'[q].state = run[q].state
    BY <1>2 DEF Scans, Frees, Known
<1>3. ASSUME NEW d \in Client, Dies(d)
      PROVE  run'[q].state = run[q].state
    BY <1>3 DEF Dies, Frees
<1>4. ASSUME NEW d \in Client, Idles(d)
      PROVE  run'[q].state = run[q].state
    BY <1>4 DEF Idles, Frees
<1>5. ASSUME NEW d \in Client, Proceeds(d)
      PROVE  run'[q].state = run[q].state
    BY <1>5 DEF Proceeds, Moves, Frees
<1>6. ASSUME NEW d \in Client, Reserves(d)
      PROVE  run'[q].state = run[q].state
    BY <1>6 DEF Reserves, Moves, Frees, Writes
<1>7. ASSUME NEW d \in Client, LeasesAgain(d)
      PROVE  run'[q].state = run[q].state
    BY <1>7 DEF Leasable, RunState, LeasesAgain, Moves, Frees, Writes
<1>8. ASSUME NEW d \in Client, Spawns(d)
      PROVE  run'[q].state = run[q].state
    BY <1>8 DEF Spawns, Moves, Frees, Sets
<1>9. ASSUME NEW d \in Client, Records(d)
      PROVE  run'[q].state = run[q].state
    BY <1>9 DEF Records, Moves, Frees, Writes
<1>10. ASSUME NEW d \in Client, Watches(d)
      PROVE  run'[q].state = run[q].state
    BY <1>10 DEF Watches, Frees
<1>11. ASSUME NEW d \in Client, Kills(d)
      PROVE  run'[q].state = run[q].state
    BY <1>11 DEF Kills, Moves, Frees, Sets
<1>12. ASSUME NEW d \in Client, Fails(d)
      PROVE  run'[q].state = run[q].state
    BY <1>12 DEF Fails, Frees, Results, Writes, Known
<1>13. ASSUME NEW d \in Client, NEW r \in Run, Reconciles(d, r)
      PROVE  run'[q].state = run[q].state
    <2>1. CASE r # q
        BY <1>13, <2>1, ReconciledRow
    <2>2. CASE r = q
        <3> DEFINE row == scan[d][q]
                   class == Classify(row, daemon[d].probe)
        <3>1. /\ row \in ScanRow /\ daemon[d].probe \in Probe \ {"unobservable"}
              /\ daemon[d].run = q /\ daemon[d].phase = "rows" /\ run'[q].state = class
            BY <1>13, <2>2, ReconciledRow
        <3>2. row.state = run[q].state /\ row.pid = run[q].pid /\ row.exit = run[q].exit
            BY <1>13, <2>2, <3>1 DEF Reconciles, ScanCurrent
        <3>3. CASE run[q].state \in TerminalResult
            BY <3>1, <3>2, <3>3, ClassifyFacts
        <3>4. CASE run[q].state = "lost"
            <4>1. row.state = "lost" /\ row.pid /\ row.exit = "none"
                BY <3>2, <3>4 DEF ExitMeansResult
            <4>2. daemon[d].probe # "match"
                BY <3>1, <3>4 DEF LostUnmatched
            <4>3. class = "lost"
                BY <3>1, <4>1, <4>2, ClassifyFacts
            <4> QED BY <3>1, <3>4, <4>3
        <3> QED BY <3>3, <3>4
    <2> QED BY <2>1, <2>2
<1>14. ASSUME NEW d \in Client, NEW t \in Ticket, NEW k \in 0..MaxAttempts, Asks(d, t, k)
      PROVE  run'[q].state = run[q].state
    BY <1>14 DEF Asks, Frees
<1>15. ASSUME NEW r \in Run, Ends(r)
      PROVE  run'[q].state = run[q].state
    BY <1>15 DEF Ends, Sets, ExitCode
<1>16. ASSUME NEW r \in Run, Reaps(r)
      PROVE  run'[q].state = run[q].state
    BY <1>16 DEF Reaps, ExitCode
<1>17. ASSUME NEW r \in Run, Reports(r)
      PROVE  run'[q].state = run[q].state
    BY <1>17 DEF Reports, Results, Writes, Known
<1>18. CASE Rests
    BY <1>18 DEF Rests
<1>19. ASSUME NEW d \in Client, NEW r \in Run, Looks(d, r)
      PROVE  run'[q].state = run[q].state
    BY <1>19 DEF Looks
<1> QED BY <1>1, <1>2, <1>3, <1>4, <1>5, <1>6, <1>7, <1>8, <1>9, <1>10, <1>11, <1>12, <1>13, <1>14, <1>15, <1>16, <1>17, <1>18, <1>19 DEF Effect

(***************************************************************************)
(* A result is kept: without overlap of daemons, no later exit, lease or   *)
(* reconciliation changes a completed or failed run (record_exit,          *)
(* reconcile_runs), also when probes fail.                                 *)
(***************************************************************************)
THEOREM ResultsAreRetained == ASSUME ~Overlap PROVE Spec => ResultRetained
<1>1. ServiceTypes /\ IInv /\ OwnerInv /\ SoloInv /\ [Next]_vars =>
        [\A r \in Run : run[r].state \in TerminalResult => run'[r].state = run[r].state]_vars
    BY NextEffect, OverStays DEF Over, TerminalResult
<1> QED BY <1>1, SoloHolds, PTL DEF Spec, ResultRetained

\* A daemon comes to know of a process by looking at it.
LEMMA RowsBefore ==
    ASSUME OwnerInv, Effect, NEW d \in Client, daemon'[d].phase = "rows", daemon'[d].probe # "none",
           ~\E r \in Run : Looks(d, r)
    PROVE  daemon[d].phase = "rows" /\ daemon[d].probe = daemon'[d].probe /\ daemon'[d].run = daemon[d].run
<1> USE DEF Frees
<1>1. CASE daemon'[d] = daemon[d]
    BY <1>1
<1>2. CASE \/ Starts(d) \/ Dies(d) \/ Idles(d) \/ Proceeds(d) \/ Reserves(d) \/ LeasesAgain(d)
           \/ Spawns(d) \/ Records(d) \/ Watches(d) \/ Kills(d) \/ Fails(d)
    BY <1>2 DEF Starts, Dies, Idles, Proceeds, Reserves, LeasesAgain, Spawns, Records, Watches, Kills, Fails, Moves
<1>3. CASE Scans(d)
    BY <1>3 DEF Scans, OwnerInv, Probed
<1>4. ASSUME NEW r \in Run, Reconciles(d, r)
      PROVE  FALSE
    BY <1>4 DEF Reconciles
<1>5. ASSUME NEW t \in Ticket, NEW k \in 0..MaxAttempts, Asks(d, t, k)
      PROVE  FALSE
    BY <1>5 DEF Asks
<1>6. ASSUME NEW e \in Client \ {d},
             \/ Starts(e) \/ Scans(e) \/ Dies(e) \/ Idles(e) \/ Proceeds(e) \/ Reserves(e) \/ LeasesAgain(e)
             \/ Spawns(e) \/ Records(e) \/ Watches(e) \/ Kills(e) \/ Fails(e)
             \/ \E r \in Run : Looks(e, r) \/ Reconciles(e, r)
             \/ \E t \in Ticket, k \in 0..MaxAttempts : Asks(e, t, k)
      PROVE  daemon'[d] = daemon[d]
    BY <1>6 DEF Starts, Scans, Dies, Idles, Proceeds, Reserves, LeasesAgain, Spawns, Records, Watches, Kills,
       Fails, Looks, Reconciles, Asks, Moves
<1>7. CASE (\E r \in Run : Ends(r) \/ Reaps(r) \/ Reports(r)) \/ Rests
    BY <1>7, <1>1 DEF Ends, Reaps, Reports, Rests
<1> QED BY <1>1, <1>2, <1>3, <1>4, <1>5, <1>6, <1>7 DEF Effect

\* A lost run has a dead process that was reaped, and nobody else makes a run lost meanwhile.
LEMMA LostUnmatchedStep ==
    ASSUME ServiceTypes, IInv, OwnerInv, SoloInv, OverIsDead, LostUnmatched, Effect
    PROVE  LostUnmatched'
<1> SUFFICES ASSUME NEW d \in Client, daemon'[d].phase = "rows", daemon'[d].probe = "match",
                    run'[daemon'[d].run].state = "lost"
             PROVE  FALSE
    BY DEF LostUnmatched
<1>1. ASSUME NEW r \in Run, Looks(d, r)
      PROVE  FALSE
    <2>1. Over(r) /\ "match" \in Probes(r)
        BY <1>1 DEF Looks, Over
    <2>2. proc[r] # "alive" /\ ~Unreaped(r)
        BY <2>1 DEF OverIsDead, SoloInv, OverIsReleased, Unreaped, Owns, Own
    <2> QED BY <2>1, <2>2 DEF Probes
<1>2. CASE ~\E r \in Run : Looks(d, r)
    <2>1. daemon[d].phase = "rows" /\ daemon[d].probe = "match" /\ daemon'[d].run = daemon[d].run
        BY <1>2, RowsBefore
    <2>2. run[daemon[d].run].state # "lost" /\ daemon[d].run \in Run
        BY <2>1, ScanRows DEF LostUnmatched, OwnerInv, Probed
    <2>3. ASSUME NEW e \in Client, NEW r \in Run, Reconciles(e, r)
          PROVE  FALSE
        <3>1. e = d
            BY <2>1, <2>3 DEF Reconciles, Frees, Alive, SoloInv, OneDaemon
        <3> QED BY <2>3, <3>1 DEF Reconciles
    <2>4. run'[daemon[d].run].state # "lost"
        BY <2>2, <2>3 DEF Effect, Starts, Scans, Looks, Dies, Idles, Asks, Proceeds, Reserves,
           LeasesAgain, Spawns, Records, Watches, Kills, Fails, Reports, Results, TerminalResult, Ends, Reaps,
           Rests, Writes
    <2> QED BY <2>1, <2>4
<1> QED BY <1>1, <1>2

\* What allowed a retry goes on to hold.
LEMMA EarlierFailedStep ==
    ASSUME ServiceTypes, IInv, OwnerInv, SoloInv, RetryInv, Effect
    PROVE  EarlierFailed'
<1> USE DEF RetryInv
<1> SUFFICES ASSUME NEW t \in Ticket, NEW k \in 0..MaxAttempts, Requested(<<t, k>>)', NEW j \in 0..(k - 1)
             PROVE  run'[<<t, j>>].state \in Retryable
    BY DEF EarlierFailed
<1>1. <<t, k>> \in Run /\ <<t, j>> \in Run
    BY AttemptAssumption
<1>2. run[<<t, j>>].state \in Retryable
    <2>1. CASE Requested(<<t, k>>)
        BY <2>1 DEF EarlierFailed
    <2>2. ASSUME NEW d \in Client, NEW u \in Ticket, NEW m \in 0..MaxAttempts, Asks(d, u, m),
                 <<t, k>> = <<u, m>>
          PROVE  run[<<t, j>>].state \in Retryable
        BY <2>2 DEF Asks, Admissible
    <2> QED BY <1>1, <2>1, <2>2, RequestedBefore
<1>3. Over(<<t, j>>)
    BY <1>2 DEF Retryable, Over
<1> QED BY <1>1, <1>2, <1>3, OverStays

(***************************************************************************)
(* A ticket whose run completed is closed: without overlap and with probes *)
(* that do not fail, no other run of it is under way or completes as well  *)
(* (_admit_governed_host_envelope_run), for any number of retries and      *)
(* restarts.                                                               *)
(***************************************************************************)
THEOREM CompletionClosesTicket == ASSUME ~Overlap, ~ProbeFaults PROVE Spec => []CompletedClosesTicket
<1>1. Init => RetryInv
    <2> SUFFICES ASSUME Init
                 PROVE  RetryInv
        OBVIOUS
    <2>1. \A r \in Run : ~Requested(r)
        BY DEF Init, RegistryInit, AbsentRun, Off, Requested, Serves, Requests, Own
    <2>2. LostUnmatched
        BY DEF Init, Off, LostUnmatched
    <2> QED BY <2>1, <2>2, AttemptAssumption DEF RetryInv, EarlierFailed
<1>2. ServiceTypes /\ IInv /\ OwnerInv /\ DeadInv /\ SoloInv /\ RetryInv /\ [Next]_vars => RetryInv'
    BY NextEffect, EarlierFailedStep, LostUnmatchedStep DEF DeadInv, Dead, RetryInv
<1>3. RetryInv => CompletedClosesTicket
    <2> USE DEF RetryInv
    <2> SUFFICES ASSUME RetryInv, NEW r \in Run, NEW q \in Run, r[1] = q[1], r # q,
                        run[r].state = "completed"
                 PROVE  run[q].state \in Retryable \cup {"absent"}
        BY DEF CompletedClosesTicket
    <2>1. PICK t \in Ticket, k \in 0..MaxAttempts : r = <<t, k>>
        BY AttemptAssumption
    <2>2. PICK j \in 0..MaxAttempts : q = <<t, j>>
        BY <2>1, AttemptAssumption
    <2>3. j # k /\ j \in Int /\ k \in Int
        BY <2>1, <2>2, AttemptAssumption
    <2>4. CASE j < k
        <3>1. j \in 0..(k - 1)
            BY <2>3, <2>4
        <3>2. Requested(<<t, k>>)
            BY <2>1 DEF Requested
        <3> QED BY <2>2, <3>1, <3>2 DEF EarlierFailed
    <2>5. CASE k < j
        <3>1. k \in 0..(j - 1)
            BY <2>3, <2>5
        <3>2. ~Requested(<<t, j>>)
            BY <2>1, <3>1 DEF EarlierFailed, Retryable
        <3> QED BY <2>2, <3>2 DEF Requested
    <2> QED BY <2>3, <2>4, <2>5
<1> QED BY <1>1, <1>2, <1>3, DeadHolds, SoloHolds, PTL DEF Spec

-----------------------------------------------------------------------------
(* No run is left over *)

\* The leases that a view of the clock does not show as lapsed stay.
LEMMA OtherLeases ==
    ASSUME IInv, NEW r \in Run, NEW q \in Run, q # r,
           \/ lease' = EndLease(r)
           \/ lease' = [lease EXCEPT ![r].fresh = TRUE] \/ lease' = [lease EXCEPT ![r].fresh = FALSE]
    PROVE  lease'[q] = lease[q]
BY Types DEF EndLease

\* While its request is at start, nobody takes the lease from the only daemon.
LEMMA LeaseKept ==
    ASSUME ServiceTypes, IInv, OwnerInv, OneDaemon, [Next]_vars,
           NEW d \in Client, daemon[d].phase = "start", daemon'[d].phase = "start"
    PROVE  lease'[daemon[d].run].owner = lease[daemon[d].run].owner
<1> DEFINE q == daemon[d].run
<1>1. q \in Run /\ Owns(d, q) /\ monitor[q].phase = "none"
    BY ServedRun DEF Requests, Own, Owns, OwnerInv, OneOwner
<1>2. \A e \in Client : Alive(e) => e = d
    BY DEF OneDaemon, Alive
<1>3. CASE UNCHANGED lease
    BY <1>3
<1>4. ASSUME NEW e \in Client, serve_forever(e) \/ RestartStep(e) \/ stop(e) \/ StopStep(e) \/ Crash(e)
      PROVE  UNCHANGED lease
    <2>1. CASE serve_forever(e) \/ stop(e) \/ Leave(e) \/ Crash(e) \/ \E r \in Run : cancel_run(e, r)
        BY <2>1 DEF serve_forever, stop, Leave, Crash, cancel_run, registryVars
    <2>2. CASE ScanRuns(e) \/ Bind(e) \/ \E r \in Run : ProbeRun(e, r)
        BY <2>2 DEF ScanRuns, ReconcileRead, Bind, ProbeRun, registryVars
    <2>3. CASE ReconcileRun(e)
        BY <1>2, <2>3 DEF ReconcileRun, Alive
    <2> QED BY <1>4, <2>1, <2>2, <2>3 DEF RestartStep, StopStep
<1>5. ASSUME NEW e \in Client, NEW t \in Ticket, NEW k \in 0..MaxAttempts, Admit(e, t, k)
      PROVE  UNCHANGED lease
    BY <1>5 DEF Admit, registryVars
<1>6. ASSUME NEW e \in Client, RequestStep(e)
      PROVE  UNCHANGED lease
    <2>1. CASE \/ ProfileUnavailable(e) \/ StartFails(e) \/ Spawn(e) \/ SpawnFails(e) \/ RecordStart(e)
               \/ StartMonitor(e) \/ KillSpawned(e) \/ \E p \in Profile : ReserveConflict(e, p)
        BY <2>1 DEF ProfileUnavailable, StartFails, Spawn, SpawnFails, RecordStart, record_process_start,
           StartMonitor, KillSpawned, ReserveConflict, registryVars
    <2>2. CASE EvaluateProfiles(e) \/ Refuse(e) \/ FailStart(e) \/ \E p \in Profile : Reserve(e, p)
        BY <1>2, <2>2 DEF EvaluateProfiles, Refuse, FailStart, Reserve, Alive
    <2>3. CASE start_run(e)
        <3>1. e = d /\ daemon' = Goto(d, "spawn")
            BY <1>2, <2>3 DEF start_run, Alive
        <3>2. daemon'[d].phase = "spawn"
            BY <3>1, GotoFacts DEF ServiceTypes, Phase, Moves, Frees
        <3> QED BY <3>2
    <2> QED BY <1>6, <2>1, <2>2, <2>3 DEF RequestStep
<1>7. ASSUME NEW r \in Run, MonitorStep(r) \/ LeaseTimesOut(r)
      PROVE  lease'[q].owner = lease[q].owner
    <2>1. CASE HeartbeatFails(r) \/ Reap(r)
        BY <2>1 DEF HeartbeatFails, Reap, registryVars
    <2>2. CASE Report(r)
        <3>1. r # q /\ lease' = EndLease(r)
            BY <1>1, <2>2 DEF Report, record_exit
        <3> QED BY <1>1, <3>1, OtherLeases
    <2>3. CASE MonitorHeartbeat(r) \/ LeaseTimesOut(r)
        <3>1. lease' = [lease EXCEPT ![r].fresh = TRUE] \/ lease' = [lease EXCEPT ![r].fresh = FALSE]
            BY <2>3 DEF MonitorHeartbeat, heartbeat, LeaseTimesOut, LeaseLapses
        <3>2. lease \in [Run -> LeaseRow]
            BY Types
        <3> QED BY <1>1, <3>1, <3>2 DEF LeaseRow
    <2> QED BY <1>7, <2>1, <2>2, <2>3 DEF MonitorStep
<1>8. ASSUME NEW r \in Run, NEW code \in ExitCode, ProcessExits(r, code)
      PROVE  UNCHANGED lease
    BY <1>8 DEF ProcessExits, registryVars
<1>9. CASE UNCHANGED vars
    BY <1>9 DEF vars, registryVars
<1> QED BY <1>3, <1>4, <1>5, <1>6, <1>7, <1>8, <1>9 DEF Next

\* A request comes to start only with the lease it has reserved.
LEMMA StartLeasedStep ==
    ASSUME ServiceTypes, IInv, OwnerInv, OneDaemon, StartLeased, [Next]_vars
    PROVE  StartLeased'
<1> SUFFICES ASSUME NEW d \in Client, daemon'[d].phase = "start"
             PROVE  lease'[daemon'[d].run].owner = d
    BY DEF StartLeased
<1>1. Effect
    BY NextEffect
<1>2. CASE Reserves(d)
    BY <1>2 DEF Reserves, Moves
<1>3. CASE ~Reserves(d)
    <2>1. daemon[d].phase = "start" /\ daemon'[d].run = daemon[d].run
        <3> USE DEF Frees, Moves
        <3>1. ASSUME NEW e \in Client,
                     \/ Starts(e) \/ Scans(e) \/ Dies(e) \/ Idles(e) \/ Proceeds(e) \/ Reserves(e)
                     \/ LeasesAgain(e) \/ Spawns(e) \/ Records(e) \/ Watches(e) \/ Kills(e) \/ Fails(e)
              PROVE  daemon[d].phase = "start" /\ daemon'[d].run = daemon[d].run
            BY <1>3, <3>1 DEF Starts, Scans, Dies, Idles, Proceeds, Reserves, LeasesAgain, Spawns, Records, Watches,
               Kills, Fails
        <3>2. ASSUME NEW e \in Client,
                     \/ \E r \in Run : Looks(e, r) \/ Reconciles(e, r)
                     \/ \E t \in Ticket, k \in 0..MaxAttempts : Asks(e, t, k)
              PROVE  daemon[d].phase = "start" /\ daemon'[d].run = daemon[d].run
            BY <3>2 DEF Looks, Reconciles, Asks
        <3>3. CASE (\E r \in Run : Ends(r) \/ Reaps(r) \/ Reports(r)) \/ Rests
            BY <3>3 DEF Ends, Reaps, Reports, Rests
        <3> QED BY <1>1, <3>1, <3>2, <3>3 DEF Effect
    <2> QED BY <2>1, LeaseKept DEF StartLeased
<1> QED BY <1>2, <1>3

\* A run under way passes from the request to its monitor, and from a dead daemon to the next scan.
LEMMA AttendStep ==
    ASSUME ServiceTypes, IInv, OwnerInv, SoloInv, AttendInv, Effect
    PROVE  RunsAttended' /\ LeftOverScanned'
<1> DEFINE Attended == RunsAttended /\ LeftOverScanned
<1>0. SUFFICES Attended'
    OBVIOUS
<1> USE DEF ServiceTypes, SoloInv, OneDaemon, Alive, AttendInv, RunsAttended, LeftOverScanned, Attends, Requests, Own
<1>1. ASSUME NEW d \in Client, Starts(d)
      PROVE  Attended'
    BY <1>1 DEF Starts, Frees
<1>2. ASSUME NEW d \in Client, Scans(d)
      PROVE  Attended'
    BY <1>2 DEF Scans, Frees, Known
<1>3. ASSUME NEW d \in Client, Dies(d)
      PROVE  Attended'
    BY <1>3 DEF Dies, Frees
<1>4. ASSUME NEW d \in Client, Idles(d)
      PROVE  Attended'
    <2>1. daemon[d].phase # "start"
        <3>1. NoLease.owner \notin Client
            BY ClientAssumption DEF NoLease
        <3> QED BY <1>4, <3>1 DEF Idles, StartLeased, Active
    <2> QED BY <1>4, <2>1 DEF Idles, Frees
<1>5. ASSUME NEW d \in Client, Proceeds(d)
      PROVE  Attended'
    BY <1>5 DEF Proceeds, Moves, Frees
<1>6. ASSUME NEW d \in Client, Reserves(d)
      PROVE  Attended'
    BY <1>6 DEF Reserves, Moves, Frees, Writes
<1>7. ASSUME NEW d \in Client, LeasesAgain(d)
      PROVE  Attended'
    BY <1>7 DEF LeasesAgain, Moves, Frees, Writes
<1>8. ASSUME NEW d \in Client, Spawns(d)
      PROVE  Attended'
    BY <1>8 DEF Spawns, Moves, Frees
<1>9. ASSUME NEW d \in Client, Records(d)
      PROVE  Attended'
    BY <1>9 DEF Records, Moves, Frees, Writes
<1>10. ASSUME NEW d \in Client, Watches(d)
      PROVE  Attended'
    BY <1>10 DEF Watches, Frees
<1>11. ASSUME NEW d \in Client, Kills(d)
      PROVE  Attended'
    BY <1>11 DEF Kills, Moves, Frees
<1>12. ASSUME NEW d \in Client, Fails(d)
      PROVE  Attended'
    BY <1>12 DEF Fails, Frees, Results, Writes, TerminalResult
<1>13. ASSUME NEW d \in Client, NEW r \in Run, Reconciles(d, r)
      PROVE  Attended'
    <2>1. Classify(scan[d][r], daemon[d].probe) \notin {"leased", "running"}
        BY <1>13, ReconciledRow, ClassifyFacts
    <2> QED BY <1>13, <2>1, ReconciledRow DEF Reconciles, Frees
<1>14. ASSUME NEW d \in Client, NEW t \in Ticket, NEW k \in 0..MaxAttempts, Asks(d, t, k)
      PROVE  Attended'
    BY <1>14 DEF Asks, Frees
<1>15. ASSUME NEW r \in Run, Ends(r)
      PROVE  Attended'
    BY <1>15 DEF Ends
<1>16. ASSUME NEW r \in Run, Reaps(r)
      PROVE  Attended'
    BY <1>16 DEF Reaps
<1>17. ASSUME NEW r \in Run, Reports(r)
      PROVE  Attended'
    BY <1>17 DEF Reports, Results, Writes, TerminalResult
<1>18. CASE Rests
    BY <1>18 DEF Rests
<1>19. ASSUME NEW d \in Client, NEW r \in Run, Looks(d, r)
      PROVE  Attended'
    BY <1>19 DEF Looks
<1> QED BY <1>1, <1>2, <1>3, <1>4, <1>5, <1>6, <1>7, <1>8, <1>9, <1>10, <1>11, <1>12, <1>13, <1>14, <1>15, <1>16, <1>17, <1>18, <1>19 DEF Effect

(***************************************************************************)
(* Without overlap, wherever daemons die between the reservation of a run  *)
(* and the start of its monitor, a daemon that serves requests has no run  *)
(* shown as leased or running besides its own (reconcile_restart,          *)
(* reconcile_runs, start_run), also when probes fail: for any number of    *)
(* crashes, runs and profiles.                                             *)
(***************************************************************************)
THEOREM NoRunLeftOver == ASSUME ~Overlap PROVE Spec => []RunsAttended
<1>1. Init => AttendInv
    BY DEF Init, RegistryInit, AbsentRun, Off, AttendInv, RunsAttended, LeftOverScanned, StartLeased
<1>2. ServiceTypes /\ IInv /\ OwnerInv /\ SoloInv /\ AttendInv /\ [Next]_vars => AttendInv'
    BY NextEffect, AttendStep, StartLeasedStep DEF AttendInv, SoloInv
<1>3. AttendInv => RunsAttended
    BY DEF AttendInv
<1> QED BY <1>1, <1>2, <1>3, SoloHolds, PTL DEF Spec

-----------------------------------------------------------------------------
(* The service implements TicketAttempts *)

\* The run's standing changes, and no other run's does.
Shift(r, from, to) ==
    /\ Standing(r) = from /\ Standing(r)' = to
    /\ \A q \in Run \ {r} : Standing(q)' = Standing(q)

\* What a step may do to the standing of the runs.
AttemptStep ==
    \/ \A q \in Run : Standing(q)' = Standing(q)
    \/ \E t \in Ticket, k \in 0..MaxAttempts :
           Shift(<<t, k>>, "open", "held") /\ \A j \in 0..(k - 1) : Settled(<<t, j>>)
    \/ \E r \in Run : Shift(r, "held", "alive") \/ Shift(r, "held", "over") \/ Shift(r, "alive", "over")

\* One owner at most, and nothing to revive a settled run: runs move on one by one, in turn.
LEMMA EffectOnAttempts ==
    ASSUME ServiceTypes, IInv, OwnerInv, DeadInv, Effect
    PROVE  AttemptStep
<1> USE DEF Standing, Unspawned
<1>1. ASSUME NEW d \in Client, Starts(d)
      PROVE  AttemptStep
    <2>1. \A q \in Run : Standing(q)' = Standing(q)
        BY <1>1 DEF Starts, Frees
    <2> QED BY <2>1 DEF AttemptStep
<1>2. ASSUME NEW d \in Client, Scans(d)
      PROVE  AttemptStep
    <2>1. \A q \in Run : Standing(q)' = Standing(q)
        BY <1>2 DEF Scans, Frees
    <2> QED BY <2>1 DEF AttemptStep
<1>3. ASSUME NEW d \in Client, Dies(d)
      PROVE  AttemptStep
    <2>1. CASE daemon[d].phase \in {"start", "spawn"} /\ daemon'[d].phase \notin {"start", "spawn"}
        <3>1. PICK r \in Run : r = daemon[d].run /\ Owns(d, r) /\ Unrecorded(d, r)
            BY <2>1 DEF ServiceTypes, Requests, Own, Owns, Unrecorded
        <3>2. run[r].state # "absent" /\ proc[r] # "alive" /\ \A e \in Client \ {d} : ~Owns(e, r)
            BY <2>1, <3>1 DEF OwnerInv, OneOwner, StartPending
        <3>3. Shift(r, "held", "over")
            BY <1>3, <2>1, <3>1, <3>2 DEF Dies, Frees, Owns, Own, Shift
        <3> QED BY <3>3 DEF AttemptStep
    <2>2. CASE ~(daemon[d].phase \in {"start", "spawn"} /\ daemon'[d].phase \notin {"start", "spawn"})
        <3>1. \A q \in Run : Standing(q)' = Standing(q)
            BY <1>3, <2>2 DEF Dies, Frees
        <3> QED BY <3>1 DEF AttemptStep
    <2> QED BY <2>1, <2>2
<1>4. ASSUME NEW d \in Client, Idles(d)
      PROVE  AttemptStep
    <2>1. CASE daemon[d].phase \in {"start", "spawn"} /\ daemon'[d].phase \notin {"start", "spawn"}
        <3>1. PICK r \in Run : r = daemon[d].run /\ Owns(d, r) /\ Unrecorded(d, r)
            BY <2>1 DEF ServiceTypes, Requests, Own, Owns, Unrecorded
        <3>2. run[r].state # "absent" /\ proc[r] # "alive" /\ \A e \in Client \ {d} : ~Owns(e, r)
            BY <2>1, <3>1 DEF OwnerInv, OneOwner, StartPending
        <3>3. Shift(r, "held", "over")
            BY <1>4, <2>1, <3>1, <3>2 DEF Idles, Frees, Owns, Own, Shift
        <3> QED BY <3>3 DEF AttemptStep
    <2>2. CASE ~(daemon[d].phase \in {"start", "spawn"} /\ daemon'[d].phase \notin {"start", "spawn"})
        <3>1. \A q \in Run : Standing(q)' = Standing(q)
            BY <1>4, <2>2 DEF Idles, Frees
        <3> QED BY <3>1 DEF AttemptStep
    <2> QED BY <2>1, <2>2
<1>5. ASSUME NEW d \in Client, Proceeds(d)
      PROVE  AttemptStep
    <2>1. CASE daemon[d].phase \in {"start", "spawn"} /\ daemon'[d].phase \notin {"start", "spawn"}
        <3>1. PICK r \in Run : r = daemon[d].run /\ Owns(d, r) /\ Unrecorded(d, r)
            BY <2>1 DEF ServiceTypes, Requests, Own, Owns, Unrecorded
        <3>2. run[r].state # "absent" /\ proc[r] # "alive" /\ \A e \in Client \ {d} : ~Owns(e, r)
            BY <2>1, <3>1 DEF OwnerInv, OneOwner, StartPending
        <3>3. Shift(r, "held", "over")
            BY <1>5, <2>1, <3>1, <3>2 DEF Proceeds, Moves, Frees, Owns, Own, Shift
        <3> QED BY <3>3 DEF AttemptStep
    <2>2. CASE ~(daemon[d].phase \in {"start", "spawn"} /\ daemon'[d].phase \notin {"start", "spawn"})
        <3>1. \A q \in Run : Standing(q)' = Standing(q)
            BY <1>5, <2>2 DEF Proceeds, Moves, Frees
        <3> QED BY <3>1 DEF AttemptStep
    <2> QED BY <2>1, <2>2
<1>6. ASSUME NEW d \in Client, Reserves(d)
      PROVE  AttemptStep
    <2>1. PICK r \in Run : r = daemon[d].run /\ Requested(r)
        BY <1>6 DEF Reserves, Moves, Frees, ServiceTypes, Requests, Requested, Serves
    <2>2. PICK t \in Ticket, k \in 0..MaxAttempts : r = <<t, k>>
        BY <2>1, AttemptAssumption
    <2>3. \A j \in 0..(k - 1) : Settled(<<t, j>>)
        BY <2>1, <2>2 DEF DeadInv, EarlierSettled
    <2>4. Shift(r, "open", "held")
        BY <1>6, <2>1 DEF Reserves, Moves, Frees, Writes, Shift
    <2> QED BY <2>2, <2>3, <2>4 DEF AttemptStep
<1>7. ASSUME NEW d \in Client, LeasesAgain(d)
      PROVE  AttemptStep
    <2>1. \A q \in Run : Standing(q)' = Standing(q)
        BY <1>7 DEF LeasesAgain, Moves, Frees, Writes, OwnerInv, OneOwner, Owns, Own
    <2> QED BY <2>1 DEF AttemptStep
<1>8. ASSUME NEW d \in Client, Spawns(d)
      PROVE  AttemptStep
    <2>1. PICK r \in Run : r = daemon[d].run /\ Owns(d, r)
        BY <1>8 DEF Spawns, Moves, Frees, ServiceTypes, Requests, Own, Owns
    <2>2. run[r].state # "absent" /\ \A e \in Client \ {d} : ~Owns(e, r)
        BY <2>1 DEF OwnerInv, OneOwner
    <2>3. Shift(r, "held", "alive")
        BY <1>8, <2>1, <2>2 DEF Spawns, Moves, Frees, Sets, Owns, Own, ServiceTypes, Shift
    <2> QED BY <2>3 DEF AttemptStep
<1>9. ASSUME NEW d \in Client, Records(d)
      PROVE  AttemptStep
    <2>1. \A q \in Run : Standing(q)' = Standing(q)
        BY <1>9 DEF Records, Moves, Frees, Writes, OwnerInv, OneOwner, Owns, Own
    <2> QED BY <2>1 DEF AttemptStep
<1>10. ASSUME NEW d \in Client, Watches(d)
      PROVE  AttemptStep
    <2>1. \A q \in Run : Standing(q)' = Standing(q)
        BY <1>10 DEF Watches, Frees
    <2> QED BY <2>1 DEF AttemptStep
<1>11. ASSUME NEW d \in Client, Kills(d)
      PROVE  AttemptStep
    <2>1. PICK r \in Run : r = daemon[d].run
        BY <1>11 DEF Kills, Moves, Frees, ServiceTypes, Requests, Own
    <2>2. CASE Standing(r) = "alive" /\ proc'[r] # "alive"
        <3>1. Shift(r, "alive", "over")
            BY <1>11, <2>2, <2>1 DEF Kills, Moves, Frees, Sets, Shift
        <3> QED BY <3>1 DEF AttemptStep
    <2>3. CASE ~(Standing(r) = "alive" /\ proc'[r] # "alive")
        <3>1. \A q \in Run : Standing(q)' = Standing(q)
            BY <1>11, <2>3, <2>1 DEF Kills, Moves, Frees, Sets
        <3> QED BY <3>1 DEF AttemptStep
    <2> QED BY <2>2, <2>3
<1>12. ASSUME NEW d \in Client, Fails(d)
      PROVE  AttemptStep
    <2>1. \A q \in Run : Standing(q)' = Standing(q)
        BY <1>12 DEF Fails, Frees, Results, Writes, Known, TerminalResult
    <2> QED BY <2>1 DEF AttemptStep
<1>13. ASSUME NEW d \in Client, NEW r \in Run, Reconciles(d, r)
      PROVE  AttemptStep
    <2>1. Classify(scan[d][r], daemon[d].probe) # "absent"
        BY <1>13, ReconciledRow, ClassifyFacts
    <2>2. \A q \in Run : Standing(q)' = Standing(q)
        BY <1>13, <2>1, ReconciledRow DEF Reconciles, Frees
    <2> QED BY <2>2 DEF AttemptStep
<1>14. ASSUME NEW d \in Client, NEW t \in Ticket, NEW k \in 0..MaxAttempts, Asks(d, t, k)
      PROVE  AttemptStep
    <2>1. \A q \in Run : Standing(q)' = Standing(q)
        BY <1>14 DEF Asks, Frees
    <2> QED BY <2>1 DEF AttemptStep
<1>15. ASSUME NEW r \in Run, Ends(r)
      PROVE  AttemptStep
    <2>1. CASE Standing(r) = "alive" /\ proc'[r] # "alive"
        <3>1. Shift(r, "alive", "over")
            BY <1>15, <2>1 DEF Ends, Sets, ExitCode, Shift
        <3> QED BY <3>1 DEF AttemptStep
    <2>2. CASE ~(Standing(r) = "alive" /\ proc'[r] # "alive")
        <3>1. \A q \in Run : Standing(q)' = Standing(q)
            BY <1>15, <2>2 DEF Ends, Sets, ExitCode
        <3> QED BY <3>1 DEF AttemptStep
    <2> QED BY <2>1, <2>2
<1>16. ASSUME NEW r \in Run, Reaps(r)
      PROVE  AttemptStep
    <2>1. \A q \in Run : Standing(q)' = Standing(q)
        BY <1>16 DEF Reaps
    <2> QED BY <2>1 DEF AttemptStep
<1>17. ASSUME NEW r \in Run, Reports(r)
      PROVE  AttemptStep
    <2>1. \A q \in Run : Standing(q)' = Standing(q)
        BY <1>17 DEF Reports, Results, Writes, Known, TerminalResult
    <2> QED BY <2>1 DEF AttemptStep
<1>18. CASE Rests
    <2>1. \A q \in Run : Standing(q)' = Standing(q)
        BY <1>18 DEF Rests
    <2> QED BY <2>1 DEF AttemptStep
<1>19. ASSUME NEW d \in Client, NEW r \in Run, Looks(d, r)
      PROVE  AttemptStep
    <2>1. \A q \in Run : Standing(q)' = Standing(q)
        BY <1>19 DEF Looks
    <2> QED BY <2>1 DEF AttemptStep
<1> QED BY <1>1, <1>2, <1>3, <1>4, <1>5, <1>6, <1>7, <1>8, <1>9, <1>10, <1>11, <1>12, <1>13, <1>14, <1>15, <1>16, <1>17, <1>18, <1>19 DEF Effect

\* A run whose standing changes is one entry of the abstract table.
LEMMA ShiftBecomes ==
    ASSUME NEW r \in Run, NEW from, NEW to, Shift(r, from, to)
    PROVE  Attempts!Becomes(r, from, to)
<1> DEFINE before == [q \in Run |-> Standing(q)]
           after == [q \in Run |-> Standing(q)']
<1>1. before[r] = from /\ after = [before EXCEPT ![r] = to]
    BY DEF Shift
<1> QED BY <1>1 DEF Attempts!Becomes

(***************************************************************************)
(* Through overlapping daemons, crashes, lapsed leases and reconciliation, *)
(* the runs of a ticket are attempts made in turn (schedule_run with       *)
(* require_new_run, start_run, reconcile_restart): each is reserved once,  *)
(* when those before it are over for good, and gets one process at most.   *)
(* Probes must not fail.                                                   *)
(***************************************************************************)
THEOREM ServiceImplementsAttempts == ASSUME ~ProbeFaults PROVE Spec => AttemptsInTurn
<1>1. Init => Attempts!AttemptsInit
    <2> SUFFICES ASSUME Init
                 PROVE  Attempts!AttemptsInit
        OBVIOUS
    <2>1. \A r \in Run : Standing(r) = "open"
        BY DEF Init, RegistryInit, AbsentRun, Standing
    <2> QED BY <2>1, AttemptAssumption DEF Attempts!AttemptsInit, Attempts!Attempt
<1>2. ServiceTypes /\ IInv /\ OwnerInv /\ DeadInv /\ [Next]_vars
          => [Attempts!AttemptsNext]_[r \in Run |-> Standing(r)]
    <2> SUFFICES ASSUME ServiceTypes, IInv, OwnerInv, DeadInv, [Next]_vars
                 PROVE  [Attempts!AttemptsNext]_[r \in Run |-> Standing(r)]
        OBVIOUS
    <2>1. AttemptStep
        BY NextEffect, EffectOnAttempts
    <2>2. CASE \A q \in Run : Standing(q)' = Standing(q)
        BY <2>2
    <2>3. ASSUME NEW t \in Ticket, NEW k \in 0..MaxAttempts, Shift(<<t, k>>, "open", "held"),
                 \A j \in 0..(k - 1) : Settled(<<t, j>>)
          PROVE  Attempts!AttemptsNext
        <3>1. <<t, k>> \in Run /\ \A j \in 0..(k - 1) : <<t, j>> \in Run
            BY AttemptAssumption
        <3>2. Attempts!Becomes(<<t, k>>, "open", "held")
            BY <2>3, <3>1, ShiftBecomes
        <3>3. \A j \in 0..(k - 1) : Standing(<<t, j>>) = "over"
            BY <2>3 DEF Settled, Standing, Unspawned
        <3>4. Attempts!Take(t, k)
            BY <3>1, <3>2, <3>3 DEF Attempts!Take
        <3> QED BY <3>4 DEF Attempts!AttemptsNext
    <2>4. ASSUME NEW r \in Run,
                 Shift(r, "held", "alive") \/ Shift(r, "held", "over") \/ Shift(r, "alive", "over")
          PROVE  Attempts!AttemptsNext
        <3>1. \/ Attempts!Becomes(r, "held", "alive") \/ Attempts!Becomes(r, "held", "over")
              \/ Attempts!Becomes(r, "alive", "over")
            BY <2>4, ShiftBecomes
        <3>2. Attempts!Launch(r) \/ Attempts!GiveUp(r) \/ Attempts!End(r)
            BY <3>1 DEF Attempts!Launch, Attempts!GiveUp, Attempts!End
        <3> QED BY <3>2, AttemptAssumption DEF Attempts!AttemptsNext, Attempts!Attempt
    <2> QED BY <2>1, <2>2, <2>3, <2>4 DEF AttemptStep
<1> QED BY <1>1, <1>2, DeadHolds, PTL DEF Spec, AttemptsInTurn, Attempts!AttemptsSpec

=============================================================================
