------------------------ MODULE AgentRegistryProofs ------------------------
(***************************************************************************)
(* Proofs about AgentRegistry, for any number of runs, profiles and        *)
(* clients and any capacities: the type invariant, the capacity of         *)
(* profiles, that only open runs hold leases, and when leases are granted. *)
(***************************************************************************)
EXTENDS AgentRegistry, FiniteSetTheorems, TLAPS

\* A pending crash signal has room to be counted: the bound is checked when the signal is read.
SignalBounded ==
    \A c \in Client : signal[c].target = "unhealthy" => signal[c].crashes < MaxSignals

\* A registered run names a profile.
KnownHasProfile == \A r \in Run : run[r].state # "absent" => run[r].profile \in Profile

\* reconcile_runs reads only runs that exist, and runs are never deleted.
ScanKnown == \A c \in Client : \A r \in DOMAIN scan[c] : run[r].state # "absent"

(***************************************************************************)
(* The inductive invariant. Capacity alone is not inductive: a lease of a  *)
(* run that is registered again under another profile would count for both *)
(* profiles, which LeaseBelongsToOpenRun rules out, and a reconciliation   *)
(* of a run nobody registered would create one.                            *)
(***************************************************************************)
IInv ==
    /\ RegistryTypeOK
    /\ SignalBounded
    /\ KnownHasProfile
    /\ ScanKnown
    /\ LeaseBelongsToOpenRun
    /\ CapacityRespected

-----------------------------------------------------------------------------
(* Lemmas about the operators *)

\* The runs that hold a lease of a profile are finitely many.
LEMMA HeldFinite ==
    ASSUME NEW ls, NEW rs, NEW p, NEW L
    PROVE  IsFiniteSet(HeldIn(ls, rs, p, L)) /\ Cardinality(HeldIn(ls, rs, p, L)) \in Nat
<1>1. HeldIn(ls, rs, p, L) \subseteq Run BY DEF HeldIn
<1> QED BY <1>1, RunAssumption, FS_Subset, FS_CardinalityType

\* A snapshot of a profile row is a profile row.
LEMMA SnapshotTxType ==
    ASSUME NEW row \in ProfileRow, NEW p \in Profile, NEW n, NEW E
    PROVE  _profile_state_snapshot_tx(row, p, n, E) \in ProfileRow
<1> DEFINE settled == IF row.state \in Timed /\ p \in E THEN ReadyProfile ELSE row
<1>1. settled \in ProfileRow BY SignalsAssumption DEF ReadyProfile, ProfileRow, ProfileState
<1> DEFINE s == IF settled.state = "busy" /\ n < MaxConcurrency[p] THEN "ready"
                ELSE IF settled.state = "ready" /\ n >= MaxConcurrency[p] THEN "busy" ELSE settled.state
<1>2. s \in ProfileState \cup {"absent"} BY <1>1 DEF ProfileRow, ProfileState
<1>3. _profile_state_snapshot_tx(row, p, n, E) = [settled EXCEPT !.state = s]
      BY DEF _profile_state_snapshot_tx
<1> HIDE DEF settled, s
<1> QED BY <1>1, <1>2, <1>3 DEF ProfileRow

\* Bringing one profile up to date keeps the type of the table.
LEMMA SnapshotOneType ==
    ASSUME profile \in [Profile -> ProfileRow], NEW p \in Profile, NEW ls, NEW rs, NEW L, NEW E
    PROVE  SnapshotOne(p, ls, rs, L, E) \in [Profile -> ProfileRow]
<1>1. Snapshot(p, ls, rs, L, E) \in ProfileRow BY SnapshotTxType DEF Snapshot
<1> QED BY <1>1 DEF SnapshotOne

\* Expiry only takes leases away.
LEMMA ExpireFacts ==
    ASSUME lease \in [Run -> LeaseRow], NEW L
    PROVE  /\ _expire_leases_tx(L) \in [Run -> LeaseRow]
           /\ \A q \in Run : Active(_expire_leases_tx(L)[q]) => Active(lease[q])
<1>1. NoLease \in LeaseRow BY DEF NoLease, LeaseRow
<1> QED BY <1>1 DEF _expire_leases_tx, Active

\* Ending a lease takes that lease away and no other.
LEMMA EndFacts ==
    ASSUME lease \in [Run -> LeaseRow], NEW r \in Run
    PROVE  /\ EndLease(r) \in [Run -> LeaseRow]
           /\ ~Active(EndLease(r)[r])
           /\ \A q \in Run : Active(EndLease(r)[q]) => Active(lease[q])
<1>1. NoLease \in LeaseRow BY DEF NoLease, LeaseRow
<1> QED BY <1>1 DEF EndLease, Active

\* Writing the state column of a run touches nothing else.
LEMMA StateFacts ==
    ASSUME NEW rs \in [Run -> RunRow], NEW r \in Run, NEW s \in RunState, NEW rt, rt = [rs EXCEPT ![r].state = s]
    PROVE  /\ rt \in [Run -> RunRow]
           /\ rt[r].state = s
           /\ \A q \in Run : rt[q].profile = rs[q].profile
           /\ \A q \in Run : q # r => rt[q] = rs[q]
<1>1. [rs[r] EXCEPT !.state = s] \in RunRow BY DEF RunRow
<1>2. [rs[r] EXCEPT !.state = s].profile = rs[r].profile BY DEF RunRow
<1>3. [rs[r] EXCEPT !.state = s].state = s BY DEF RunRow
<1>4. rt = [rs EXCEPT ![r] = [rs[r] EXCEPT !.state = s]] OBVIOUS
<1> DEFINE b == [rs[r] EXCEPT !.state = s]
<1>5. b \in RunRow /\ b.profile = rs[r].profile /\ b.state = s BY <1>1, <1>2, <1>3
<1>6. rt = [rs EXCEPT ![r] = b] BY <1>4
<1> HIDE DEF b
<1> QED BY <1>5, <1>6

\* When leases are only taken away and runs keep their profiles, capacity is kept.
LEMMA FewerLeases ==
    ASSUME CapacityRespected,
           \A q \in Run : Active(lease'[q]) => Active(lease[q]) /\ run'[q].profile = run[q].profile
    PROVE  CapacityRespected'
<1> SUFFICES ASSUME NEW p \in Profile PROVE Cardinality(Held(p)') <= MaxConcurrency[p]
    BY DEF CapacityRespected
<1>1. Held(p)' \subseteq Held(p) BY DEF Held, HeldIn
<1>2. IsFiniteSet(Held(p)) /\ Cardinality(Held(p)) \in Nat BY HeldFinite DEF Held
<1>3. Cardinality(Held(p)') <= Cardinality(Held(p)) /\ Cardinality(Held(p)') \in Nat
      BY <1>1, <1>2, FS_Subset, FS_CardinalityType
<1>4. Cardinality(Held(p)) <= MaxConcurrency[p] BY DEF CapacityRespected
<1> QED BY <1>2, <1>3, <1>4, ConcurrencyAssumption

\* Rows an operation starts from or writes.
LEMMA RowTypes ==
    /\ AbsentProfile \in ProfileRow /\ ReadyProfile \in ProfileRow
    /\ AbsentRun \in RunRow
    /\ \A c \in Client : NewLease(c) \in LeaseRow
    /\ \A p \in Profile : [AbsentRun EXCEPT !.state = "registered", !.profile = p] \in RunRow
<1>1. AbsentProfile \in ProfileRow /\ ReadyProfile \in ProfileRow
      BY SignalsAssumption DEF AbsentProfile, ReadyProfile, ProfileRow, ProfileState
<1>2. AbsentRun \in RunRow BY DEF AbsentRun, RunRow
<1>3. \A c \in Client : NewLease(c) \in LeaseRow BY DEF NewLease, LeaseRow
<1>4. \A p \in Profile : [AbsentRun EXCEPT !.state = "registered", !.profile = p] \in RunRow
      BY DEF AbsentRun, RunRow, RunState
<1> QED BY <1>1, <1>2, <1>3, <1>4

\* What the state of a run looks like after the row of one run is set to an existing state.
LEMMA StillKnown ==
    ASSUME IInv, NEW r \in Run, NEW s \in RunState, run[r].state # "absent",
           run' \in [Run -> RunRow], run'[r].state = s,
           \A q \in Run : run'[q].profile = run[q].profile,
           \A q \in Run : q # r => run'[q] = run[q]
    PROVE  /\ KnownHasProfile'
           /\ \A q \in Run : run[q].state # "absent" => run'[q].state # "absent"
<1>1. s # "absent" BY DEF RunState
<1> QED BY <1>1 DEF IInv, KnownHasProfile

\* Classifying a row of the scan gives a classification.
LEMMA ClassifyType ==
    ASSUME NEW row \in ScanRow, NEW probe \in Probe
    PROVE  Classify(row, probe) \in RunState
<1>1. CASE row.state \in TerminalResult BY <1>1 DEF Classify, TerminalResult, RunState
<1>2. CASE row.state \notin TerminalResult /\ (~row.pid \/ probe = "unobservable")
      BY <1>2 DEF Classify, RunState
<1>3. CASE row.state \notin TerminalResult /\ ~(~row.pid \/ probe = "unobservable")
  <2>1. row.exit \in {"zero", "nonzero", "none"} BY DEF ScanRow, ExitCode
  <2>2. probe \in {"match", "other", "gone"} BY <1>3 DEF Probe
  <2>3. CASE probe = "other" BY <1>3, <2>3 DEF Classify, RunState
  <2>4. CASE probe = "match" BY <1>3, <2>4 DEF Classify, RunState
  <2>5. CASE probe = "gone"
    <3>1. [none |-> "lost", zero |-> "completed", nonzero |-> "failed"][row.exit] \in RunState
          BY <2>1 DEF RunState
    <3>2. Classify(row, probe) = [none |-> "lost", zero |-> "completed", nonzero |-> "failed"][row.exit]
          BY <1>3, <2>5 DEF Classify
    <3> QED BY <3>1, <3>2
  <2> QED BY <2>2, <2>3, <2>4, <2>5
<1> QED BY <1>1, <1>2, <1>3

-----------------------------------------------------------------------------
(* The invariant holds initially and is kept by every transaction *)

\* A database without runs satisfies the invariant.
LEMMA InitInv == RegistryInit => IInv
<1> SUFFICES ASSUME RegistryInit PROVE IInv OBVIOUS
<1> USE RowTypes DEF RegistryInit
<1>1. RegistryTypeOK
  <2>1. profile \in [Profile -> ProfileRow] OBVIOUS
  <2>2. run \in [Run -> RunRow] OBVIOUS
  <2>3. lease \in [Run -> LeaseRow] BY DEF NoLease, LeaseRow
  <2>4. scan \in [Client -> UNION {[D -> ScanRow] : D \in SUBSET Run}]
    <3>1. NoScan \in [{} -> ScanRow] BY DEF NoScan
    <3>2. NoScan \in UNION {[D -> ScanRow] : D \in SUBSET Run} BY <3>1
    <3> QED BY <3>2
  <2>5. signal \in [Client -> Signal \cup {NoSignal}] OBVIOUS
  <2> QED BY <2>1, <2>2, <2>3, <2>4, <2>5 DEF RegistryTypeOK
<1>2. SignalBounded BY DEF SignalBounded, NoSignal
<1>3. KnownHasProfile BY DEF KnownHasProfile, AbsentRun
<1>4. ScanKnown BY DEF ScanKnown, NoScan
<1>5. LeaseBelongsToOpenRun BY DEF LeaseBelongsToOpenRun, Active
<1>6. CapacityRespected
  <2> SUFFICES ASSUME NEW p \in Profile PROVE Cardinality(Held(p)) <= MaxConcurrency[p]
      BY DEF CapacityRespected
  <2>1. Held(p) = {} BY DEF Held, HeldIn, Active
  <2>2. Cardinality(Held(p)) = 0 BY <2>1, FS_EmptySet
  <2>3. MaxConcurrency[p] \in Nat \ {0} BY ConcurrencyAssumption
  <2> HIDE RowTypes DEF RegistryInit
  <2> QED BY <2>2, <2>3
<1> QED BY <1>1, <1>2, <1>3, <1>4, <1>5, <1>6 DEF IInv

\* Operations on profiles: no run changes, leases are only expired.
LEMMA ProfilesStep ==
    ASSUME IInv, NEW L, lease' = _expire_leases_tx(L) \/ lease' = lease, run' = run, scan' = scan,
           profile' \in [Profile -> ProfileRow], signal' \in [Client -> Signal \cup {NoSignal}],
           SignalBounded'
    PROVE  IInv'
<1>1. RegistryTypeOK BY DEF IInv
<1>2. /\ lease' \in [Run -> LeaseRow]
      /\ \A q \in Run : Active(lease'[q]) => Active(lease[q])
  <2>1. lease \in [Run -> LeaseRow] BY <1>1 DEF RegistryTypeOK
  <2> QED BY <2>1, ExpireFacts
<1>3. RegistryTypeOK' BY <1>1, <1>2 DEF RegistryTypeOK
<1>4. KnownHasProfile' BY DEF IInv, KnownHasProfile
<1>5. ScanKnown' BY DEF IInv, ScanKnown
<1>6. LeaseBelongsToOpenRun' BY <1>2 DEF IInv, LeaseBelongsToOpenRun
<1>7. CapacityRespected' BY <1>2, FewerLeases DEF IInv
<1> QED BY <1>3, <1>4, <1>5, <1>6, <1>7 DEF IInv

\* Reading profiles keeps the type of the table.
LEMMA ReadProfilesType ==
    ASSUME profile \in [Profile -> ProfileRow], NEW P, NEW L, NEW E, ReadProfiles(P, L, E)
    PROVE  profile' \in [Profile -> ProfileRow]
<1>1. \A p \in Profile : Snapshot(p, lease', run, L, E) \in ProfileRow BY SnapshotTxType DEF Snapshot
<1> QED BY <1>1 DEF ReadProfiles

\* register_profile.
LEMMA RegisterProfileInv == ASSUME IInv, NEW p \in Profile, register_profile(p) PROVE IInv'
<1>1. profile' \in [Profile -> ProfileRow]
      BY RowTypes DEF IInv, RegistryTypeOK, register_profile
<1>2. signal' \in [Client -> Signal \cup {NoSignal}] /\ SignalBounded'
      BY DEF IInv, RegistryTypeOK, register_profile, SignalBounded
<1> QED BY <1>1, <1>2, ProfilesStep DEF register_profile

\* A deadline passes.
LEMMA DeadlineInv == ASSUME IInv, NEW p \in Profile, DeadlinePasses(p) PROVE IInv'
<1>1. profile' \in [Profile -> ProfileRow]
  <2>1. profile[p] \in ProfileRow BY DEF IInv, RegistryTypeOK
  <2>2. [profile[p] EXCEPT !.deadline = "elapsed"] \in ProfileRow BY <2>1 DEF ProfileRow
  <2> QED BY <2>2 DEF IInv, RegistryTypeOK, DeadlinePasses
<1>2. signal' \in [Client -> Signal \cup {NoSignal}] /\ SignalBounded'
      BY DEF IInv, RegistryTypeOK, DeadlinePasses, SignalBounded
<1> QED BY <1>1, <1>2, ProfilesStep DEF DeadlinePasses

\* The capacity reads.
LEMMA CapacityReadInv == ASSUME IInv, NEW P, profile_capacity(P) PROVE IInv'
<1>1. PICK L \in LapsedView, E \in ElapsedView : ReadProfiles(P, L, E) BY DEF profile_capacity
<1>2. profile' \in [Profile -> ProfileRow] BY <1>1, ReadProfilesType DEF IInv, RegistryTypeOK
<1>3. signal' \in [Client -> Signal \cup {NoSignal}] /\ SignalBounded'
      BY DEF IInv, RegistryTypeOK, profile_capacity, SignalBounded
<1> QED BY <1>1, <1>2, <1>3, ProfilesStep DEF profile_capacity, ReadProfiles

\* The read of record_profile_signal.
LEMMA SignalInv ==
    ASSUME IInv, NEW c \in Client, NEW p \in Profile, NEW target \in SignalTarget,
           NEW deadline \in {"none", "ahead", "elapsed"}, record_profile_signal(c, p, target, deadline)
    PROVE  IInv'
<1>1. PICK L \in LapsedView, E \in ElapsedView :
        /\ ReadProfiles({p}, L, E)
        /\ target = "unhealthy" => profile'[p].crashes < MaxSignals
        /\ signal' = [signal EXCEPT ![c] = [target |-> target, profile |-> p, deadline |-> deadline,
                                            crashes |-> profile'[p].crashes]]
      BY DEF record_profile_signal
<1>2. profile' \in [Profile -> ProfileRow] BY <1>1, ReadProfilesType DEF IInv, RegistryTypeOK
<1> DEFINE sg == [target |-> target, profile |-> p, deadline |-> deadline, crashes |-> profile'[p].crashes]
<1>3. sg \in Signal
  <2>1. profile'[p] \in ProfileRow BY <1>2
  <2>2. profile'[p].crashes \in 0..MaxSignals BY <2>1 DEF ProfileRow
  <2>3. target \in ProfileState BY TargetAssumption
  <2> QED BY <2>2, <2>3 DEF Signal
<1>4. sg.target = "unhealthy" => sg.crashes < MaxSignals BY <1>1
<1>5. signal' = [signal EXCEPT ![c] = sg] BY <1>1
<1> HIDE DEF sg
<1>6. signal' \in [Client -> Signal \cup {NoSignal}] BY <1>3, <1>5 DEF IInv, RegistryTypeOK
<1>7. SignalBounded' BY <1>4, <1>5 DEF IInv, RegistryTypeOK, SignalBounded
<1> QED BY <1>1, <1>2, <1>6, <1>7, ProfilesStep DEF record_profile_signal, ReadProfiles

\* The row set_profile_state writes is a profile row.
LEMMA SignalledRowType ==
    ASSUME NEW row \in ProfileRow, NEW sg \in Signal,
           sg.target = "unhealthy" => sg.crashes < MaxSignals
    PROVE  SignalledRow(row, sg) \in ProfileRow
<1>1. CASE sg.target \in {"ready", "busy"}
  <2>1. [ReadyProfile EXCEPT !.state = sg.target] \in ProfileRow
        BY <1>1, RowTypes DEF ReadyProfile, ProfileRow, ProfileState
  <2> QED BY <1>1, <2>1 DEF SignalledRow
<1>2. CASE sg.target \notin {"ready", "busy"}
  <2> DEFINE n == IF sg.target = "unhealthy" THEN sg.crashes + 1 ELSE row.crashes
  <2>1. row.crashes \in 0..MaxSignals /\ sg.crashes \in 0..MaxSignals BY DEF ProfileRow, Signal
  <2>2. n \in 0..MaxSignals BY <2>1, SignalsAssumption
  <2>3. sg.target \in ProfileState \cup {"absent"} /\ sg.deadline \in {"none", "ahead", "elapsed"} BY DEF Signal
  <2>4. SignalledRow(row, sg) = [state |-> sg.target, deadline |-> sg.deadline, crashes |-> n]
        BY <1>2 DEF SignalledRow
  <2> HIDE DEF n
  <2> QED BY <2>2, <2>3, <2>4 DEF ProfileRow
<1> QED BY <1>1, <1>2

\* The write of record_profile_signal, set_profile_state.
LEMMA SetStateInv == ASSUME IInv, NEW c \in Client, set_profile_state(c) PROVE IInv'
<1> DEFINE p == signal[c].profile
<1>1. signal[c] \in Signal /\ p \in Profile
      BY DEF IInv, RegistryTypeOK, set_profile_state, Signal
<1> DEFINE ls(L) == _expire_leases_tx(L)
           row(L, E) == SignalledRow(Snapshot(p, ls(L), run, L, E), signal[c])
           fin(L, E) == _profile_state_snapshot_tx(row(L, E), p, Cardinality(HeldIn(ls(L), run, p, L)),
                                                   IF row(L, E).deadline = "elapsed" THEN {p} ELSE {})
<1>2. PICK L \in LapsedView, E \in ElapsedView :
        lease' = ls(L) /\ profile' = [profile EXCEPT ![p] = fin(L, E)]
      BY DEF set_profile_state
<1>3. profile \in [Profile -> ProfileRow] BY DEF IInv, RegistryTypeOK
<1>4. Snapshot(p, ls(L), run, L, E) \in ProfileRow
  <2>1. profile[p] \in ProfileRow BY <1>1, <1>3
  <2> HIDE DEF p
  <2> QED BY <1>1, <2>1, SnapshotTxType DEF Snapshot
<1>5. row(L, E) \in ProfileRow
  <2>1. signal[c].target = "unhealthy" => signal[c].crashes < MaxSignals BY DEF IInv, SignalBounded
  <2> QED BY <1>1, <1>4, <2>1, SignalledRowType
<1>6. fin(L, E) \in ProfileRow
  <2> HIDE DEF p, row
  <2> QED BY <1>1, <1>5, SnapshotTxType
<1>7. profile' \in [Profile -> ProfileRow]
  <2> HIDE DEF p, fin
  <2> QED BY <1>2, <1>3, <1>6
<1>8. signal' \in [Client -> Signal \cup {NoSignal}] BY DEF IInv, RegistryTypeOK, set_profile_state
<1>9. SignalBounded' BY DEF IInv, RegistryTypeOK, set_profile_state, SignalBounded, NoSignal
<1> QED BY <1>2, <1>7, <1>8, <1>9, ProfilesStep DEF set_profile_state

(***************************************************************************)
(* Operations that set the state of one run and at most take leases away:  *)
(* the run must not keep a lease unless its new state is an open one.      *)
(***************************************************************************)
LEMMA RunStateStep ==
    ASSUME IInv, NEW r \in Run, NEW st \in RunState, run[r].state # "absent",
           run' \in [Run -> RunRow], run'[r].state = st,
           \A q \in Run : run'[q].profile = run[q].profile,
           \A q \in Run : q # r => run'[q] = run[q],
           lease' \in [Run -> LeaseRow],
           \A q \in Run : Active(lease'[q]) => Active(lease[q]),
           st \in {"leased", "running", "live"} \/ ~Active(lease'[r]),
           profile' \in [Profile -> ProfileRow], signal' = signal,
           scan' \in [Client -> UNION {[D -> ScanRow] : D \in SUBSET Run}],
           \A c \in Client : DOMAIN scan'[c] \subseteq DOMAIN scan[c]
    PROVE  IInv'
<1>1. RegistryTypeOK' BY DEF IInv, RegistryTypeOK
<1>2. SignalBounded' BY DEF IInv, SignalBounded
<1>3. /\ KnownHasProfile'
      /\ \A q \in Run : run[q].state # "absent" => run'[q].state # "absent"
      BY StillKnown
<1>4. ScanKnown'
  <2> SUFFICES ASSUME NEW c \in Client, NEW q \in DOMAIN scan'[c] PROVE run'[q].state # "absent"
      BY DEF ScanKnown
  <2>1. q \in DOMAIN scan[c] OBVIOUS
  <2>2. q \in Run BY <2>1 DEF IInv, RegistryTypeOK
  <2> QED BY <2>1, <2>2, <1>3 DEF IInv, ScanKnown
<1>5. LeaseBelongsToOpenRun' BY DEF IInv, LeaseBelongsToOpenRun
<1>6. CapacityRespected' BY FewerLeases DEF IInv
<1> QED BY <1>1, <1>2, <1>3, <1>4, <1>5, <1>6 DEF IInv

\* The types of the tables, and that a run with a lease is known and has a profile.
LEMMA Types ==
    ASSUME IInv
    PROVE  /\ profile \in [Profile -> ProfileRow] /\ run \in [Run -> RunRow] /\ lease \in [Run -> LeaseRow]
           /\ scan \in [Client -> UNION {[D -> ScanRow] : D \in SUBSET Run}]
           /\ \A r \in Run : Active(lease[r]) => run[r].state # "absent"
           /\ \A r \in Run : run[r].state # "absent" => run[r].profile \in Profile
BY DEF IInv, RegistryTypeOK, LeaseBelongsToOpenRun, KnownHasProfile

\* A lease that names an owner is active.
LEMMA OwnedIsActive == ASSUME NEW c \in Client, NEW r \in Run, lease[r].owner = c, c # "none" PROVE Active(lease[r])
BY DEF Active, NoLease

\* Leases only change their expiry, or are expired: renewals and lapses.
LEMMA LeaseOnlyStep ==
    ASSUME IInv, lease' \in [Run -> LeaseRow], \A q \in Run : Active(lease'[q]) => Active(lease[q]),
           profile' = profile, run' = run, scan' = scan, signal' = signal
    PROVE  IInv'
<1>1. RegistryTypeOK' BY DEF IInv, RegistryTypeOK
<1>2. SignalBounded' /\ KnownHasProfile' /\ ScanKnown'
      BY DEF IInv, SignalBounded, KnownHasProfile, ScanKnown
<1>3. LeaseBelongsToOpenRun' BY DEF IInv, LeaseBelongsToOpenRun
<1>4. CapacityRespected' BY FewerLeases DEF IInv
<1> QED BY <1>1, <1>2, <1>3, <1>4 DEF IInv

\* The expiry of a lease passes.
LEMMA LapseInv == ASSUME IInv, NEW r \in Run, LeaseLapses(r) PROVE IInv'
<1> DEFINE b == [lease[r] EXCEPT !.fresh = FALSE]
<1>1. lease[r] \in LeaseRow /\ Active(lease[r]) BY Types DEF LeaseLapses
<1>2. b \in LeaseRow BY <1>1 DEF LeaseRow
<1>3. lease' = [lease EXCEPT ![r] = b] BY DEF LeaseLapses
<1> HIDE DEF b
<1>4. lease' \in [Run -> LeaseRow] BY <1>2, <1>3, Types
<1>5. \A q \in Run : Active(lease'[q]) => Active(lease[q]) BY <1>1, <1>3, Types
<1> QED BY <1>4, <1>5, LeaseOnlyStep DEF LeaseLapses

\* A renewal.
LEMMA HeartbeatInv == ASSUME IInv, NEW c \in Client, NEW r \in Run, heartbeat(c, r) PROVE IInv'
<1> DEFINE b == [lease[r] EXCEPT !.fresh = TRUE]
<1>1. lease[r] \in LeaseRow /\ Active(lease[r]) BY Types, OwnedIsActive, ClientAssumption DEF heartbeat
<1>2. b \in LeaseRow BY <1>1 DEF LeaseRow
<1>3. lease' = [lease EXCEPT ![r] = b] BY DEF heartbeat
<1> HIDE DEF b
<1>4. lease' \in [Run -> LeaseRow] BY <1>2, <1>3, Types
<1>5. \A q \in Run : Active(lease'[q]) => Active(lease[q]) BY <1>1, <1>3, Types
<1> QED BY <1>4, <1>5, LeaseOnlyStep DEF heartbeat

\* A lease taken again by its owner.
LEMMA RetainInv == ASSUME IInv, NEW c \in Client, NEW r \in Run, RetainLease(c, r) PROVE IInv'
<1>1. PICK L \in LapsedView : lease' = _expire_leases_tx(L) BY DEF RetainLease
<1>2. lease \in [Run -> LeaseRow] BY Types
<1>3. lease' \in [Run -> LeaseRow] /\ \A q \in Run : Active(lease'[q]) => Active(lease[q])
      BY <1>1, <1>2, ExpireFacts
<1> QED BY <1>3, LeaseOnlyStep DEF RetainLease

\* A release: the run is registered again and its lease over.
LEMMA ReleaseInv == ASSUME IInv, NEW c \in Client, NEW r \in Run, release_lease(c, r) PROVE IInv'
<1>1. Active(lease[r]) BY OwnedIsActive, ClientAssumption DEF release_lease
<1>2. run[r].state # "absent" /\ run[r].profile \in Profile BY <1>1, Types
<1>3. "registered" \in RunState BY DEF RunState
<1>4. /\ run' \in [Run -> RunRow] /\ run'[r].state = "registered"
      /\ \A q \in Run : run'[q].profile = run[q].profile
      /\ \A q \in Run : q # r => run'[q] = run[q]
  <2>1. run \in [Run -> RunRow] /\ run' = [run EXCEPT ![r].state = "registered"] BY Types DEF release_lease
  <2> QED BY <1>3, <2>1, StateFacts
<1>5. /\ lease' \in [Run -> LeaseRow] /\ ~Active(lease'[r])
      /\ \A q \in Run : Active(lease'[q]) => Active(lease[q])
      BY Types, EndFacts DEF release_lease
<1>6. profile' \in [Profile -> ProfileRow] BY <1>2, Types, SnapshotOneType DEF release_lease
<1>7. scan' \in [Client -> UNION {[D -> ScanRow] : D \in SUBSET Run}] BY Types DEF release_lease
<1> QED BY <1>2, <1>3, <1>4, <1>5, <1>6, <1>7, RunStateStep DEF release_lease

\* A process start: the lease stays, the run is running.
LEMMA StartInv == ASSUME IInv, NEW r \in Run, record_process_start(r) PROVE IInv'
<1>1. Active(lease[r]) /\ run[r].state # "absent" BY Types DEF record_process_start
<1> DEFINE b == [run[r] EXCEPT !.state = "running", !.pid = TRUE]
<1>2. "running" \in RunState BY DEF RunState
<1>3. run[r] \in RunRow BY Types
<1>4. b \in RunRow /\ b.state = "running" /\ b.profile = run[r].profile BY <1>2, <1>3 DEF RunRow
<1>5. run' = [run EXCEPT ![r] = b] BY DEF record_process_start
<1> HIDE DEF b
<1>6. /\ run' \in [Run -> RunRow] /\ run'[r].state = "running"
      /\ \A q \in Run : run'[q].profile = run[q].profile
      /\ \A q \in Run : q # r => run'[q] = run[q]
      BY <1>4, <1>5, Types
<1>7. /\ lease' \in [Run -> LeaseRow] /\ profile' \in [Profile -> ProfileRow]
      /\ scan' \in [Client -> UNION {[D -> ScanRow] : D \in SUBSET Run}]
      BY Types DEF record_process_start
<1> QED BY <1>1, <1>2, <1>6, <1>7, RunStateStep DEF record_process_start

\* An exit: the run is over and its lease too.
LEMMA ExitInv == ASSUME IInv, NEW r \in Run, NEW code \in ExitCode, record_exit(r, code) PROVE IInv'
<1> DEFINE result == IF code = "zero" THEN "completed" ELSE "failed"
           b == [run[r] EXCEPT !.state = result, !.exit = code]
<1>1. run[r].state # "absent" /\ run[r].profile \in Profile BY Types DEF record_exit, Known
<1>2. result \in RunState BY DEF RunState
<1>3. run[r] \in RunRow BY Types
<1>4. b \in RunRow /\ b.state = result /\ b.profile = run[r].profile
  <2> HIDE DEF result
  <2> QED BY <1>2, <1>3 DEF RunRow
<1>5. run' = [run EXCEPT ![r] = b] BY DEF record_exit
<1>6. lease' = EndLease(r) BY DEF record_exit
<1> HIDE DEF b, result
<1>7. /\ run' \in [Run -> RunRow] /\ run'[r].state = result
      /\ \A q \in Run : run'[q].profile = run[q].profile
      /\ \A q \in Run : q # r => run'[q] = run[q]
      BY <1>4, <1>5, Types
<1>8. /\ lease' \in [Run -> LeaseRow] /\ ~Active(lease'[r])
      /\ \A q \in Run : Active(lease'[q]) => Active(lease[q])
      BY <1>6, Types, EndFacts
<1>9. profile' \in [Profile -> ProfileRow] BY <1>1, Types, SnapshotOneType DEF record_exit
<1>10. scan' \in [Client -> UNION {[D -> ScanRow] : D \in SUBSET Run}] /\ scan' = scan /\ signal' = signal
       BY Types DEF record_exit
<1> QED BY <1>1, <1>2, <1>7, <1>8, <1>9, <1>10, RunStateStep

\* A new run: it holds no lease and no scan has seen it.
LEMMA RegisterRunInv == ASSUME IInv, NEW r \in Run, NEW p \in Profile, register_run(r, p) PROVE IInv'
<1> DEFINE b == [AbsentRun EXCEPT !.state = "registered", !.profile = p]
<1>1. b \in RunRow BY RowTypes
<1>2. b.state = "registered" /\ b.profile = p BY DEF AbsentRun
<1>3. run' = [run EXCEPT ![r] = b] BY DEF register_run
<1> HIDE DEF b
<1>4. run[r].state = "absent" /\ ~Active(lease[r]) BY Types DEF register_run
<1>5. run' \in [Run -> RunRow] BY <1>1, <1>3, Types
<1>6. RegistryTypeOK' BY <1>5 DEF IInv, RegistryTypeOK, register_run
<1>7. SignalBounded' BY DEF IInv, SignalBounded, register_run
<1>8. KnownHasProfile' BY <1>2, <1>3, Types DEF KnownHasProfile
<1>9. ScanKnown'
  <2> SUFFICES ASSUME NEW c \in Client, NEW q \in DOMAIN scan[c] PROVE run'[q].state # "absent"
      BY DEF ScanKnown, register_run
  <2>1. q \in Run BY DEF IInv, RegistryTypeOK
  <2>2. run[q].state # "absent" BY DEF IInv, ScanKnown
  <2> QED BY <1>2, <1>3, <2>1, <2>2, Types
<1>10. lease' = lease BY DEF register_run
<1>11. LeaseBelongsToOpenRun' BY <1>3, <1>4, <1>10, Types DEF IInv, LeaseBelongsToOpenRun
<1>12. CapacityRespected'
  <2>1. \A q \in Run : Active(lease'[q]) => Active(lease[q]) /\ run'[q].profile = run[q].profile
        BY <1>3, <1>4, <1>10, Types
  <2> QED BY <2>1, FewerLeases DEF IInv
<1> QED BY <1>6, <1>7, <1>8, <1>9, <1>11, <1>12 DEF IInv

\* The runs table with run r registered: nothing known changes.
LEMMA WithRunFacts ==
    ASSUME IInv, NEW r \in Run, NEW p \in Profile
    PROVE  /\ WithRun(r, p) \in [Run -> RunRow]
           /\ WithRun(r, p)[r].profile \in Profile
           /\ \A q \in Run : q # r => WithRun(r, p)[q] = run[q]
           /\ \A q \in Run : run[q].state # "absent" => WithRun(r, p)[q] = run[q]
<1> DEFINE b == [AbsentRun EXCEPT !.state = "registered", !.profile = p]
<1>1. b \in RunRow BY RowTypes
<1>2. b.profile = p BY DEF AbsentRun
<1>3. WithRun(r, p) = IF run[r].state = "absent" THEN [run EXCEPT ![r] = b] ELSE run BY DEF WithRun
<1> HIDE DEF b
<1> QED BY <1>1, <1>2, <1>3, Types

(***************************************************************************)
(* A grant. Every lease the view shows as lapsed is gone, the rest of the  *)
(* profile's leases were counted in the same transaction, and the new one  *)
(* makes one more.                                                         *)
(***************************************************************************)
LEMMA AcquireInv ==
    ASSUME IInv, NEW c \in Client, NEW r \in Run, NEW rs \in [Run -> RunRow],
           rs[r].profile \in Profile,
           \A q \in Run : q # r => rs[q] = run[q],
           \A q \in Run : run[q].state # "absent" => rs[q] = run[q],
           _acquire_lease_tx(c, r, rs)
    PROVE  IInv'
<1> DEFINE p == rs[r].profile
<1>1. PICK L \in LapsedView, E \in ElapsedView :
        /\ Granted(r, rs, L, E)
        /\ lease' = [_expire_leases_tx(L) EXCEPT ![r] = NewLease(c)]
        /\ run' = [rs EXCEPT ![r].state = "leased"]
        /\ profile' = SnapshotOne(p, lease', run', L, E)
        /\ UNCHANGED <<scan, signal>>
      BY DEF _acquire_lease_tx
<1> DEFINE ls == _expire_leases_tx(L)
<1>2. ls \in [Run -> LeaseRow] /\ \A q \in Run : Active(ls[q]) => Active(lease[q]) BY Types, ExpireFacts
<1>3. NewLease(c) \in LeaseRow BY RowTypes
<1> HIDE DEF ls
<1>4. lease' = [ls EXCEPT ![r] = NewLease(c)] BY <1>1 DEF ls
<1>5. lease' \in [Run -> LeaseRow] BY <1>2, <1>3, <1>4
<1>6. \A q \in Run : q # r /\ Active(lease'[q]) => Active(ls[q]) /\ Active(lease[q]) BY <1>2, <1>4
<1>7. "leased" \in RunState BY DEF RunState
<1>8. /\ run' \in [Run -> RunRow] /\ run'[r].state = "leased"
      /\ \A q \in Run : run'[q].profile = rs[q].profile
      /\ \A q \in Run : q # r => run'[q] = rs[q]
  <2>1. run' = [rs EXCEPT ![r].state = "leased"] BY <1>1
  <2> QED BY <1>7, <2>1, StateFacts
<1>9. profile' \in [Profile -> ProfileRow]
  <2> HIDE DEF p
  <2>1. p \in Profile BY DEF p
  <2> QED BY <1>1, <2>1, Types, SnapshotOneType
<1>10. RegistryTypeOK' BY <1>1, <1>5, <1>8, <1>9 DEF IInv, RegistryTypeOK
<1>11. SignalBounded' BY <1>1 DEF IInv, SignalBounded
<1>12. \A q \in Run : run[q].state # "absent" => run'[q].state # "absent" BY <1>8
<1>13. KnownHasProfile' BY <1>8, Types DEF KnownHasProfile
<1>14. ScanKnown'
  <2> SUFFICES ASSUME NEW d \in Client, NEW q \in DOMAIN scan[d] PROVE run'[q].state # "absent"
      BY <1>1 DEF ScanKnown
  <2>1. q \in Run BY DEF IInv, RegistryTypeOK
  <2> QED BY <1>12, <2>1 DEF IInv, ScanKnown
<1>15. LeaseBelongsToOpenRun'
  <2> SUFFICES ASSUME NEW q \in Run, Active(lease'[q]) PROVE run'[q].state \in {"leased", "running", "live"}
      BY DEF LeaseBelongsToOpenRun
  <2>1. CASE q = r BY <1>8, <2>1
  <2>2. CASE q # r
    <3>1. Active(lease[q]) BY <1>6, <2>2
    <3>2. run'[q] = run[q] BY <1>8, <2>2
    <3> QED BY <3>1, <3>2 DEF IInv, LeaseBelongsToOpenRun
  <2> QED BY <2>1, <2>2
<1>16. CapacityRespected'
  <2> SUFFICES ASSUME NEW m \in Profile PROVE Cardinality(Held(m)') <= MaxConcurrency[m]
      BY DEF CapacityRespected
  <2>0. MaxConcurrency[m] \in Nat BY ConcurrencyAssumption
  <2>1. CASE m = p
    <3> DEFINE H == HeldIn(ls, rs, p, L)
    <3>1. Cardinality(H) < MaxConcurrency[p] BY <1>1 DEF Granted, ls
    <3>2. IsFiniteSet(H) /\ Cardinality(H) \in Nat BY HeldFinite
    <3>3. \A q \in L : q \in Run => ~Active(ls[q]) BY DEF ls, _expire_leases_tx, Active
    <3>4. Held(m)' \subseteq H \cup {r}
      <4> SUFFICES ASSUME NEW q \in Held(m)', q # r PROVE q \in H OBVIOUS
      <4>1. q \in Run /\ Active(lease'[q]) /\ run'[q].profile = m BY DEF Held, HeldIn
      <4>2. Active(ls[q]) /\ rs[q].profile = p BY <1>6, <1>8, <2>1, <4>1
      <4> QED BY <3>3, <4>1, <4>2 DEF HeldIn
    <3> HIDE DEF H
    <3>5. IsFiniteSet(H \cup {r}) /\ Cardinality(H \cup {r}) <= Cardinality(H) + 1
          /\ Cardinality(H \cup {r}) \in Nat
      <4>1. /\ IsFiniteSet(H \cup {r})
            /\ Cardinality(H \cup {r}) = IF r \in H THEN Cardinality(H) ELSE Cardinality(H) + 1
            BY <3>2, FS_AddElement
      <4> QED BY <3>2, <4>1
    <3>6. Cardinality(Held(m)') <= Cardinality(H \cup {r}) /\ Cardinality(Held(m)') \in Nat
          BY <3>4, <3>5, FS_Subset, FS_CardinalityType
    <3> QED BY <2>0, <2>1, <3>1, <3>2, <3>5, <3>6
  <2>2. CASE m # p
    <3>1. Held(m)' \subseteq Held(m)
      <4> SUFFICES ASSUME NEW q \in Held(m)' PROVE q \in Held(m) OBVIOUS
      <4>1. q \in Run /\ Active(lease'[q]) /\ run'[q].profile = m BY DEF Held, HeldIn
      <4>2. q # r BY <1>8, <2>2, <4>1
      <4>3. Active(lease[q]) /\ run[q].profile = m BY <1>6, <1>8, <4>1, <4>2
      <4> QED BY <4>1, <4>3 DEF Held, HeldIn
    <3>2. IsFiniteSet(Held(m)) /\ Cardinality(Held(m)) \in Nat BY HeldFinite DEF Held
    <3>3. Cardinality(Held(m)') <= Cardinality(Held(m)) /\ Cardinality(Held(m)') \in Nat
          BY <3>1, <3>2, FS_Subset, FS_CardinalityType
    <3>4. Cardinality(Held(m)) <= MaxConcurrency[m] BY DEF IInv, CapacityRespected
    <3> QED BY <2>0, <3>2, <3>3, <3>4
  <2> QED BY <2>1, <2>2
<1> QED BY <1>10, <1>11, <1>13, <1>14, <1>15, <1>16 DEF IInv

\* The read of reconcile_runs.
LEMMA ReconcileReadInv == ASSUME IInv, NEW c \in Client, ReconcileRead(c) PROVE IInv'
<1> DEFINE f(L) == [q \in Known |-> [state |-> run[q].state, pid |-> run[q].pid, exit |-> run[q].exit,
                                     held |-> Active(lease[q]) /\ q \notin L]]
<1>1. PICK L \in LapsedView : scan' = [scan EXCEPT ![c] = f(L)] BY DEF ReconcileRead
<1>2. f(L) \in [Known -> ScanRow]
  <2> SUFFICES ASSUME NEW q \in Known
               PROVE [state |-> run[q].state, pid |-> run[q].pid, exit |-> run[q].exit,
                      held |-> Active(lease[q]) /\ q \notin L] \in ScanRow
      OBVIOUS
  <2>1. run[q] \in RunRow /\ run[q].state # "absent" BY Types DEF Known
  <2>2. run[q].state \in RunState /\ run[q].pid \in BOOLEAN /\ run[q].exit \in ExitCode \cup {"none"}
        BY <2>1 DEF RunRow
  <2>3. (Active(lease[q]) /\ q \notin L) \in BOOLEAN OBVIOUS
  <2> QED BY <2>2, <2>3 DEF ScanRow
<1>3. Known \in SUBSET Run BY DEF Known
<1>4. f(L) \in UNION {[D -> ScanRow] : D \in SUBSET Run} BY <1>2, <1>3
<1>5. DOMAIN f(L) = Known OBVIOUS
<1> HIDE DEF f
<1>6. scan' \in [Client -> UNION {[D -> ScanRow] : D \in SUBSET Run}] BY <1>1, <1>4, Types
<1>7. RegistryTypeOK' BY <1>6 DEF IInv, RegistryTypeOK, ReconcileRead
<1>8. SignalBounded' /\ KnownHasProfile' /\ LeaseBelongsToOpenRun'
      BY DEF IInv, SignalBounded, KnownHasProfile, LeaseBelongsToOpenRun, ReconcileRead
<1>9. ScanKnown'
  <2> SUFFICES ASSUME NEW d \in Client, NEW q \in DOMAIN scan'[d] PROVE run[q].state # "absent"
      BY DEF ScanKnown, ReconcileRead
  <2>1. CASE d = c
    <3>1. scan'[d] = f(L) BY <1>1, <2>1, Types
    <3> QED BY <1>5, <3>1 DEF Known
  <2>2. CASE d # c BY <1>1, <2>2 DEF IInv, ScanKnown, RegistryTypeOK
  <2> QED BY <2>1, <2>2
<1>10. CapacityRespected' BY FewerLeases DEF IInv, ReconcileRead
<1> QED BY <1>7, <1>8, <1>9, <1>10 DEF IInv

\* The write of one row by reconcile_runs, however old its scan is.
LEMMA ReconcileRowInv ==
    ASSUME IInv, NEW c \in Client, NEW r \in Run, NEW probe \in Probe, ReconcileRow(c, r, probe)
    PROVE  IInv'
<1> DEFINE class == Classify(scan[c][r], probe)
           g == [x \in DOMAIN scan[c] \ {r} |-> scan[c][x]]
<1>1. PICK D \in SUBSET Run : scan[c] \in [D -> ScanRow] BY Types
<1>2. r \in D /\ run[r].state # "absent"
      BY <1>1 DEF ReconcileRow, IInv, ScanKnown
<1>3. class \in RunState BY <1>1, <1>2, ClassifyType
<1>4. /\ run' = [run EXCEPT ![r].state = class] /\ lease' = ReconciledLease(r, class)
      /\ scan' = [scan EXCEPT ![c] = g] /\ signal' = signal
      BY DEF ReconcileRow
<1>5. g \in [D \ {r} -> ScanRow] /\ DOMAIN g \subseteq DOMAIN scan[c] BY <1>1
<1>6. g \in UNION {[F -> ScanRow] : F \in SUBSET Run}
  <2>1. D \ {r} \in SUBSET Run OBVIOUS
  <2> QED BY <1>5, <2>1
<1>7. profile' \in [Profile -> ProfileRow] BY <1>2, Types, SnapshotOneType DEF ReconcileRow
<1> HIDE DEF class, g
<1>8. /\ run' \in [Run -> RunRow] /\ run'[r].state = class
      /\ \A q \in Run : run'[q].profile = run[q].profile
      /\ \A q \in Run : q # r => run'[q] = run[q]
  <2>1. run \in [Run -> RunRow] /\ run' = [run EXCEPT ![r].state = class] BY <1>4, Types
  <2> QED BY <1>3, <2>1, StateFacts
<1>9. /\ lease' \in [Run -> LeaseRow]
      /\ \A q \in Run : Active(lease'[q]) => Active(lease[q])
      /\ class \in {"leased", "running", "live"} \/ ~Active(lease'[r])
      BY <1>4, Types, EndFacts DEF ReconciledLease
<1>10. /\ scan' \in [Client -> UNION {[F -> ScanRow] : F \in SUBSET Run}]
       /\ \A d \in Client : DOMAIN scan'[d] \subseteq DOMAIN scan[d]
       BY <1>4, <1>5, <1>6, Types
<1> QED BY <1>2, <1>3, <1>4, <1>7, <1>8, <1>9, <1>10, RunStateStep

\* Every step of the registry keeps the invariant.
LEMMA NextInv == ASSUME IInv, [RegistryNext]_registryVars PROVE IInv'
<1>1. CASE UNCHANGED registryVars
      BY <1>1 DEF registryVars, IInv, RegistryTypeOK, SignalBounded, KnownHasProfile, ScanKnown,
                  LeaseBelongsToOpenRun, CapacityRespected, Held, HeldIn
<1>2. ASSUME NEW p \in Profile, register_profile(p) \/ DeadlinePasses(p) \/ profile_capacity({p}) PROVE IInv'
      BY <1>2, RegisterProfileInv, DeadlineInv, CapacityReadInv
<1>3. CASE profile_capacity(Registered) BY <1>3, CapacityReadInv
<1>4. ASSUME NEW r \in Run, NEW p \in Profile, register_run(r, p) PROVE IInv' BY <1>4, RegisterRunInv
<1>5. ASSUME NEW r \in Run, record_process_start(r) \/ LeaseLapses(r) PROVE IInv' BY <1>5, StartInv, LapseInv
<1>6. ASSUME NEW r \in Run, NEW code \in ExitCode, record_exit(r, code) PROVE IInv' BY <1>6, ExitInv
<1>7. ASSUME NEW c \in Client, NEW r \in Run, RunStep(c, r) PROVE IInv'
  <2>1. CASE acquire_lease(c, r)
    <3>1. run[r].state # "absent"
      <4>1. PICK L \in LapsedView, E \in ElapsedView : Granted(r, run, L, E)
            BY <2>1 DEF acquire_lease, _acquire_lease_tx
      <4> QED BY <4>1 DEF Granted, Leasable, RunState
    <3>2. run \in [Run -> RunRow] /\ run[r].profile \in Profile BY <3>1, Types
    <3> QED BY <2>1, <3>2, AcquireInv DEF acquire_lease
  <2>2. CASE RetainLease(c, r) \/ heartbeat(c, r) \/ release_lease(c, r)
        BY <2>2, RetainInv, HeartbeatInv, ReleaseInv
  <2>3. ASSUME NEW p \in Profile, register_run_and_acquire_lease(c, r, p) PROVE IInv'
    <3> DEFINE rs == WithRun(r, p)
    <3>1. /\ rs \in [Run -> RunRow] /\ rs[r].profile \in Profile
          /\ \A q \in Run : q # r => rs[q] = run[q]
          /\ \A q \in Run : run[q].state # "absent" => rs[q] = run[q]
          BY WithRunFacts
    <3>2. _acquire_lease_tx(c, r, rs) BY <2>3 DEF register_run_and_acquire_lease
    <3> HIDE DEF rs
    <3> QED BY <3>1, <3>2, AcquireInv
  <2>4. ASSUME NEW probe \in Probe, ReconcileRow(c, r, probe) PROVE IInv' BY <2>4, ReconcileRowInv
  <2> QED BY <1>7, <2>1, <2>2, <2>3, <2>4 DEF RunStep
<1>8. ASSUME NEW c \in Client, ClientStep(c) PROVE IInv'
      BY <1>8, ReconcileReadInv, SignalInv, SetStateInv DEF ClientStep
<1> QED BY <1>1, <1>2, <1>3, <1>4, <1>5, <1>6, <1>7, <1>8 DEF RegistryNext

-----------------------------------------------------------------------------
(* Theorems *)

\* The inductive invariant holds in every reachable state of the registry.
THEOREM Invariance == RegistrySpec => []IInv
<1>1. IInv /\ [RegistryNext]_registryVars => IInv' BY NextInv
<1> QED BY <1>1, InitInv, PTL DEF RegistrySpec

\* Type correctness: the columns and the locals of calls always hold values of their types.
THEOREM TypeCorrect == RegistrySpec => []RegistryTypeOK
<1>1. IInv => RegistryTypeOK BY DEF IInv
<1> QED BY <1>1, Invariance, PTL

\* Capacity: a profile never has more active leases than max_concurrency (_acquire_lease_tx).
THEOREM CapacityHolds == RegistrySpec => []CapacityRespected
<1>1. IInv => CapacityRespected BY DEF IInv
<1> QED BY <1>1, Invariance, PTL

\* Only a run under way holds a lease, however late a reconciliation writes (reconcile_runs).
THEOREM LeasesBelongToOpenRuns == RegistrySpec => []LeaseBelongsToOpenRun
<1>1. IInv => LeaseBelongsToOpenRun BY DEF IInv
<1> QED BY <1>1, Invariance, PTL

\* The step predicate of LeaseOnlyWhenSchedulable.
Schedulable(row) == row.state \in {"ready", "busy"} \/ (row.state \in Timed /\ row.deadline = "elapsed")
GrantsSchedulable ==
    \A r \in Run : ~Active(lease[r]) /\ Active(lease'[r]) => Schedulable(profile[run'[r].profile])

\* A snapshot is ready only if the row was ready, busy, or past its deadline.
LEMMA ReadySnapshot ==
    ASSUME NEW row \in ProfileRow, NEW p, NEW n, NEW E,
           _profile_state_snapshot_tx(row, p, n, E).state = "ready"
    PROVE  row.state \in {"ready", "busy"} \/ (row.state \in Timed /\ p \in E)
<1>1. CASE row.state \in Timed /\ p \in E BY <1>1
<1>2. CASE ~(row.state \in Timed /\ p \in E)
  <2> DEFINE s == IF row.state = "busy" /\ n < MaxConcurrency[p] THEN "ready"
                  ELSE IF row.state = "ready" /\ n >= MaxConcurrency[p] THEN "busy" ELSE row.state
  <2>1. _profile_state_snapshot_tx(row, p, n, E) = [row EXCEPT !.state = s]
        BY <1>2 DEF _profile_state_snapshot_tx
  <2>2. [row EXCEPT !.state = s].state = s BY DEF ProfileRow
  <2> QED BY <2>1, <2>2
<1> QED BY <1>1, <1>2

\* A grant goes to a profile that may be scheduled, and adds no lease but its own.
LEMMA GrantSchedulable ==
    ASSUME IInv, NEW c \in Client, NEW r \in Run, NEW rs \in [Run -> RunRow], rs[r].profile \in Profile,
           _acquire_lease_tx(c, r, rs)
    PROVE  GrantsSchedulable
<1> DEFINE p == rs[r].profile
<1>1. PICK L \in LapsedView, E \in ElapsedView :
        /\ Granted(r, rs, L, E)
        /\ lease' = [_expire_leases_tx(L) EXCEPT ![r] = NewLease(c)]
        /\ run' = [rs EXCEPT ![r].state = "leased"]
      BY DEF _acquire_lease_tx
<1>2. profile[p] \in ProfileRow BY Types
<1>3. Schedulable(profile[p])
  <2>1. _profile_state_snapshot_tx(profile[p], p, Cardinality(HeldIn(_expire_leases_tx(L), rs, p, L)), E).state
           = "ready"
        BY <1>1 DEF Granted
  <2> HIDE DEF p
  <2>2. profile[p].state \in {"ready", "busy"} \/ (profile[p].state \in Timed /\ p \in E)
        BY <1>2, <2>1, ReadySnapshot
  <2> QED BY <2>2 DEF ElapsedView, Schedulable
<1>4. "leased" \in RunState BY DEF RunState
<1>5. run'[r].profile = p BY <1>1, <1>4, StateFacts
<1>6. \A q \in Run : q # r /\ Active(lease'[q]) => Active(lease[q])
  <2>1. lease \in [Run -> LeaseRow] BY Types
  <2>2. _expire_leases_tx(L) \in [Run -> LeaseRow]
        /\ \A q \in Run : Active(_expire_leases_tx(L)[q]) => Active(lease[q])
        BY <2>1, ExpireFacts
  <2> QED BY <1>1, <2>2
<1> QED BY <1>3, <1>5, <1>6 DEF GrantsSchedulable

\* A step that only takes leases away grants none.
LEMMA NoGrant ==
    ASSUME \A q \in Run : Active(lease'[q]) => Active(lease[q]) PROVE GrantsSchedulable
BY DEF GrantsSchedulable

\* Every step of the registry grants leases to schedulable profiles only.
LEMMA StepSchedulable == ASSUME IInv, [RegistryNext]_registryVars PROVE GrantsSchedulable
<1>0. lease \in [Run -> LeaseRow] BY Types
<1> DEFINE Fewer == \A q \in Run : Active(lease'[q]) => Active(lease[q])
<1>1. CASE UNCHANGED registryVars BY <1>1, NoGrant DEF registryVars
<1>2. ASSUME NEW P, profile_capacity(P) PROVE GrantsSchedulable
  <2>1. PICK L \in LapsedView : lease' = _expire_leases_tx(L) BY <1>2 DEF profile_capacity, ReadProfiles
  <2> QED BY <1>0, <2>1, ExpireFacts, NoGrant
<1>3. ASSUME NEW p \in Profile, register_profile(p) \/ DeadlinePasses(p) PROVE GrantsSchedulable
      BY <1>3, NoGrant DEF register_profile, DeadlinePasses
<1>4. ASSUME NEW r \in Run, NEW p \in Profile, register_run(r, p) PROVE GrantsSchedulable
      BY <1>4, NoGrant DEF register_run
<1>5. ASSUME NEW r \in Run, record_process_start(r) PROVE GrantsSchedulable
      BY <1>5, NoGrant DEF record_process_start
<1>6. ASSUME NEW r \in Run, LeaseLapses(r) PROVE GrantsSchedulable
  <2>1. lease' = [lease EXCEPT ![r] = [lease[r] EXCEPT !.fresh = FALSE]] /\ Active(lease[r]) BY <1>6 DEF LeaseLapses
  <2>2. Fewer BY <1>0, <2>1
  <2> QED BY <2>2, NoGrant
<1>7. ASSUME NEW r \in Run, NEW code \in ExitCode, record_exit(r, code) PROVE GrantsSchedulable
  <2>1. lease' = EndLease(r) BY <1>7 DEF record_exit
  <2> QED BY <1>0, <2>1, EndFacts, NoGrant
<1>8. ASSUME NEW c \in Client, NEW r \in Run, RunStep(c, r) PROVE GrantsSchedulable
  <2>1. CASE acquire_lease(c, r)
    <3>1. run[r].state # "absent"
      <4>1. PICK L \in LapsedView, E \in ElapsedView : Granted(r, run, L, E)
            BY <2>1 DEF acquire_lease, _acquire_lease_tx
      <4> QED BY <4>1 DEF Granted, Leasable, RunState
    <3>2. run \in [Run -> RunRow] /\ run[r].profile \in Profile BY <3>1, Types
    <3> QED BY <2>1, <3>2, GrantSchedulable DEF acquire_lease
  <2>2. CASE RetainLease(c, r)
    <3>1. PICK L \in LapsedView : lease' = _expire_leases_tx(L) BY <2>2 DEF RetainLease
    <3> QED BY <1>0, <3>1, ExpireFacts, NoGrant
  <2>3. CASE heartbeat(c, r)
    <3>1. lease' = [lease EXCEPT ![r] = [lease[r] EXCEPT !.fresh = TRUE]] BY <2>3 DEF heartbeat
    <3>2. Active(lease[r]) BY <2>3, OwnedIsActive, ClientAssumption DEF heartbeat
    <3>3. Fewer BY <1>0, <3>1, <3>2
    <3> QED BY <3>3, NoGrant
  <2>4. CASE release_lease(c, r)
    <3>1. lease' = EndLease(r) BY <2>4 DEF release_lease
    <3> QED BY <1>0, <3>1, EndFacts, NoGrant
  <2>5. ASSUME NEW p \in Profile, register_run_and_acquire_lease(c, r, p) PROVE GrantsSchedulable
    <3> DEFINE rs == WithRun(r, p)
    <3>1. rs \in [Run -> RunRow] /\ rs[r].profile \in Profile BY WithRunFacts
    <3>2. _acquire_lease_tx(c, r, rs) BY <2>5 DEF register_run_and_acquire_lease
    <3> HIDE DEF rs
    <3> QED BY <3>1, <3>2, GrantSchedulable
  <2>6. ASSUME NEW probe \in Probe, ReconcileRow(c, r, probe) PROVE GrantsSchedulable
    <3>1. lease' = lease \/ lease' = EndLease(r) BY <2>6 DEF ReconcileRow, ReconciledLease
    <3> QED BY <1>0, <3>1, EndFacts, NoGrant
  <2> QED BY <1>8, <2>1, <2>2, <2>3, <2>4, <2>5, <2>6 DEF RunStep
<1>9. ASSUME NEW c \in Client, ClientStep(c) PROVE GrantsSchedulable
  <2>1. CASE ReconcileRead(c) BY <2>1, NoGrant DEF ReconcileRead
  <2>2. ASSUME NEW p \in Profile, NEW target \in SignalTarget, NEW deadline \in {"none", "ahead", "elapsed"},
               record_profile_signal(c, p, target, deadline)
        PROVE  GrantsSchedulable
    <3>1. PICK L \in LapsedView : lease' = _expire_leases_tx(L)
          BY <2>2 DEF record_profile_signal, ReadProfiles
    <3> QED BY <1>0, <3>1, ExpireFacts, NoGrant
  <2>3. CASE set_profile_state(c)
    <3>1. PICK L \in LapsedView : lease' = _expire_leases_tx(L) BY <2>3 DEF set_profile_state
    <3> QED BY <1>0, <3>1, ExpireFacts, NoGrant
  <2> QED BY <1>9, <2>1, <2>2, <2>3 DEF ClientStep
<1> QED BY <1>1, <1>2, <1>3, <1>4, <1>5, <1>6, <1>7, <1>8, <1>9 DEF RegistryNext

(***************************************************************************)
(* A profile that is disabled, needs authentication or is cooling down is  *)
(* given no lease (_acquire_lease_tx).                                     *)
(***************************************************************************)
THEOREM LeasesAreSchedulable == RegistrySpec => LeaseOnlyWhenSchedulable
<1>1. IInv /\ [RegistryNext]_registryVars =>
        [\A r \in Run :
           ~Active(lease[r]) /\ Active(lease'[r]) =>
              LET row == profile[run'[r].profile]
              IN  row.state \in {"ready", "busy"} \/ (row.state \in Timed /\ row.deadline = "elapsed")
        ]_registryVars
      BY StepSchedulable DEF GrantsSchedulable, Schedulable
<1> QED BY <1>1, Invariance, PTL DEF RegistrySpec, LeaseOnlyWhenSchedulable
=============================================================================
