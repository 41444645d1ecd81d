----------------------- MODULE ResourceRecoveryProofs -----------------------
(***************************************************************************)
(* Proofs about ResourceRecovery for any number of containers, cleanup     *)
(* processes, faults and steps of other users.                             *)
(***************************************************************************)
EXTENDS ResourceRecovery, TLAPS

\* What every copy of the record says, whether it is in the file, in the
\* memory of a process or about to be put back: it names containers of the
\* run only, those it calls removed are gone, and the registry goes last.
Sound(resources, own, existing) ==
    /\ resources \in Resources
    /\ \A k \in Kinds : resources[k].id \in own \cup {NoId}
    /\ \A k \in Kinds : resources[k].status = "removed" => resources[k].id \notin existing
    /\ resources["registry"].status = "removed" => resources["kind"].status # "active"

HostInv ==
    /\ mine \subseteq used /\ used \subseteq Ids
    /\ alive \subseteq used /\ cluster \subseteq used
    /\ regName \in used \cup {NoId}
    /\ handle \in [Kinds -> mine \cup {NoId}]

Labels == RunLabels \cup RecoveryLabels \cup CleanerLabels

LocalsInv ==
    /\ pc \in [Procs -> Labels]
    /\ mem \in [Procs -> Resources]
    /\ prev \in [Procs -> Resources]

DocsInv ==
    /\ Sound(record, mine, alive)
    /\ \A p \in Procs : Sound(mem[p], mine, alive) /\ Sound(prev[p], mine, alive)

\* The registry's turn comes when the cluster's is over.
RegistrySteps == {"registry_inspect", "registry_remove", "registry_confirm"}
TurnInv ==
    \A p \in Procs : pc[p] \in RegistrySteps => mem[p]["kind"].status # "active"

\* While the run records its resources nobody cleans up.
RecordingSteps == {"start_registry", "record_registry", "create_kind", "record_kind"}
RecordingInv ==
    pc[Main] \in RecordingSteps =>
        /\ record["registry"].status # "removed"
        /\ \A p \in Cleaners : pc[p] = "idle"

\* Unless others create clusters of the run's name, what has that name and
\* what has been removed is the run's.
OwnInv == ~SharedClusterName => removed \subseteq mine /\ cluster \subseteq mine

IInv == HostInv /\ OwnInv /\ LocalsInv /\ DocsInv /\ TurnInv /\ RecordingInv

-----------------------------------------------------------------------------
(* Sound records. *)

LEMMA NoRecordIsSound ==
    ASSUME NEW own, NEW existing \in SUBSET Ids
    PROVE  Sound(NoRecord, own, existing)
BY DEF Sound, NoRecord, NoResource, Resources, Resource, Kinds

\* A container that did not exist does not come into being under its old ID.
LEMMA SoundStays ==
    ASSUME NEW own, NEW existing, NEW own2, NEW existing2, NEW given, NEW d,
           Sound(d, own, existing), NoId \notin existing2,
           own \subseteq own2, own \subseteq given, existing2 \cap given \subseteq existing
    PROVE  Sound(d, own2, existing2)
BY DEF Sound

LEMMA MarkedIsSound ==
    ASSUME NEW own, NEW existing, NEW d, NEW k \in Kinds,
           Sound(d, own, existing), d[k].id \notin existing,
           k = "registry" => d["kind"].status # "active"
    PROVE  Sound(MarkRemoved(d, k), own, existing)
BY DEF Sound, MarkRemoved, Resources, Resource, Kinds

LEMMA RecordedIsSound ==
    ASSUME NEW own \in SUBSET Ids, NEW existing, NEW d, NEW k \in Kinds,
           NEW i \in own \cup {NoId},
           Sound(d, own, existing), d["registry"].status # "removed"
    PROVE  /\ Sound([d EXCEPT ![k] = Active(i)], own, existing)
           /\ [d EXCEPT ![k] = Active(i)]["registry"].status # "removed"
BY DEF Sound, Active, Resources, Resource, Kinds

-----------------------------------------------------------------------------
(* What a step of a process may do to the record and its copies. *)

MemStep(p) ==
    \/ mem' = mem
    \/ \E d \in {NoRecord, record} : mem' = [mem EXCEPT ![p] = d]
    \/ \E k \in Kinds :
          /\ mem' = [mem EXCEPT ![p] = MarkRemoved(mem[p], k)]
          /\ mem[p][k].id \notin alive
          /\ k = "registry" => pc[p] \in RegistrySteps

PrevStep(p) ==
    prev' = prev \/ \E d \in {NoRecord, record} : prev' = [prev EXCEPT ![p] = d]

SavingSteps == {"save", "seal_record"}
RecordStep(p) ==
    \/ record' = record
    \/ record' \in {mem[p], prev[p]} /\ pc[p] \in SavingSteps
    \/ \E k \in Kinds :
          /\ record' = [record EXCEPT ![k] = Active(handle[k])]
          /\ pc[Main] \in RecordingSteps
          /\ p = Main

PcStep(p) ==
    \E l \in Labels :
        /\ pc' = [pc EXCEPT ![p] = l]
        /\ l \in RecordingSteps => p = Main /\ pc[p] \in RecordingSteps
        /\ l \in RegistrySteps => mem'[p]["kind"].status # "active"
        /\ p \in Cleaners => pc[p] # "idle" \/ pc[Main] = "exited"

Moves(p) == MemStep(p) /\ PrevStep(p) /\ RecordStep(p) /\ PcStep(p)

\* Containers appear with fresh IDs only, and the run's stay the run's.
HostStep == mine \subseteq mine' /\ alive' \cap used \subseteq alive

LEMMA MovesKeepDocs ==
    ASSUME IInv, NEW p \in Procs, Moves(p), HostStep, HostInv'
    PROVE  DocsInv' /\ LocalsInv'
<1> USE ResourceAssumptions
<1> DEFINE S(d) == Sound(d, mine, alive)
           T(d) == Sound(d, mine', alive')
<1>1. ASSUME NEW d, S(d) PROVE T(d)
  BY <1>1, SoundStays DEF IInv, HostInv, HostStep
<1>2. S(record) /\ S(NoRecord) /\ \A q \in Procs : S(mem[q]) /\ S(prev[q])
  BY NoRecordIsSound DEF IInv, DocsInv, HostInv
<1>3. \A d : S(d) => d \in Resources
  BY DEF Sound
<1>4. T(record')
  <2>1. CASE \E k \in Kinds : /\ record' = [record EXCEPT ![k] = Active(handle[k])]
                              /\ pc[Main] \in RecordingSteps
    <3>1. PICK k \in Kinds : record' = [record EXCEPT ![k] = Active(handle[k])]
      BY <2>1
    <3>2. record["registry"].status # "removed"
      BY <2>1 DEF IInv, RecordingInv
    <3>3. handle[k] \in mine \cup {NoId} /\ mine \in SUBSET Ids
      BY DEF IInv, HostInv
    <3>4. S(record')
      BY <1>2, <3>1, <3>2, <3>3, RecordedIsSound
    <3> QED
      BY <1>1, <3>4
  <2>2. CASE record' \in {record, mem[p], prev[p]}
    BY <1>1, <1>2, <2>2
  <2> QED
    BY <2>1, <2>2 DEF Moves, RecordStep
<1>5. mem' \in [Procs -> Resources] /\ \A q \in Procs : T(mem'[q])
  <2>1. CASE mem' = mem
    BY <1>1, <1>2, <2>1 DEF IInv, LocalsInv
  <2>2. ASSUME NEW d, S(d), mem' = [mem EXCEPT ![p] = d]
        PROVE  mem' \in [Procs -> Resources] /\ \A q \in Procs : T(mem'[q])
    <3>1. mem' \in [Procs -> Resources]
      BY <1>3, <2>2 DEF IInv, LocalsInv
    <3>2. \A q \in Procs : mem'[q] = IF q = p THEN d ELSE mem[q]
      BY <2>2 DEF IInv, LocalsInv
    <3>3. T(d) /\ \A q \in Procs : T(mem[q])
      BY <1>1, <1>2, <2>2
    <3> QED
      BY <3>1, <3>2, <3>3
  <2>3. CASE \E d \in {NoRecord, record} : mem' = [mem EXCEPT ![p] = d]
    BY <1>2, <2>2, <2>3
  <2>4. CASE \E k \in Kinds :
               /\ mem' = [mem EXCEPT ![p] = MarkRemoved(mem[p], k)]
               /\ mem[p][k].id \notin alive
               /\ k = "registry" => pc[p] \in RegistrySteps
    <3>1. PICK k \in Kinds :
               /\ mem' = [mem EXCEPT ![p] = MarkRemoved(mem[p], k)]
               /\ mem[p][k].id \notin alive
               /\ k = "registry" => pc[p] \in RegistrySteps
      BY <2>4
    <3>2. k = "registry" => mem[p]["kind"].status # "active"
      BY <3>1 DEF IInv, TurnInv
    <3>3. S(MarkRemoved(mem[p], k))
      BY <1>2, <3>1, <3>2, MarkedIsSound
    <3> QED
      BY <2>2, <3>1, <3>3
  <2> QED
    BY <2>1, <2>3, <2>4 DEF Moves, MemStep
<1>6. prev' \in [Procs -> Resources] /\ \A q \in Procs : T(prev'[q])
  <2>1. CASE prev' = prev
    BY <1>1, <1>2, <2>1 DEF IInv, LocalsInv
  <2>2. ASSUME NEW d \in {NoRecord, record}, prev' = [prev EXCEPT ![p] = d]
        PROVE  prev' \in [Procs -> Resources] /\ \A q \in Procs : T(prev'[q])
    <3>1. T(d) /\ d \in Resources /\ \A q \in Procs : T(prev[q])
      BY <1>1, <1>2, <1>3
    <3>2. prev' \in [Procs -> Resources]
      BY <2>2, <3>1 DEF IInv, LocalsInv
    <3>3. \A q \in Procs : prev'[q] = IF q = p THEN d ELSE prev[q]
      BY <2>2 DEF IInv, LocalsInv
    <3> QED
      BY <3>1, <3>2, <3>3
  <2> QED
    BY <2>1, <2>2 DEF Moves, PrevStep
<1>7. pc' \in [Procs -> Labels]
  BY DEF IInv, LocalsInv, Moves, PcStep
<1> QED
  BY <1>4, <1>5, <1>6, <1>7 DEF DocsInv, LocalsInv

LEMMA MovesKeepTurns ==
    ASSUME IInv, NEW p \in Procs, Moves(p)
    PROVE  TurnInv' /\ RecordingInv'
<1> USE ResourceAssumptions
<1>1. PICK l \in Labels :
        /\ pc' = [pc EXCEPT ![p] = l]
        /\ l \in RecordingSteps => p = Main /\ pc[p] \in RecordingSteps
        /\ l \in RegistrySteps => mem'[p]["kind"].status # "active"
        /\ p \in Cleaners => pc[p] # "idle" \/ pc[Main] = "exited"
  BY DEF Moves, PcStep
<1>2. \A q \in Procs : pc'[q] = IF q = p THEN l ELSE pc[q]
  BY <1>1 DEF IInv, LocalsInv
<1>3. TurnInv'
  <2>1. \A q \in Procs \ {p} : mem'[q] = mem[q]
    BY DEF Moves, MemStep, IInv, LocalsInv
  <2>2. \A q \in Procs \ {p} : pc'[q] \in RegistrySteps => mem'[q]["kind"].status # "active"
    BY <1>2, <2>1 DEF IInv, TurnInv
  <2> QED
    BY <1>1, <1>2, <2>2 DEF TurnInv
<1>4. RecordingInv'
  <2> SUFFICES ASSUME pc'[Main] \in RecordingSteps
               PROVE  /\ record'["registry"].status # "removed"
                      /\ \A q \in Cleaners : pc'[q] = "idle"
    BY DEF RecordingInv
  <2>1. pc[Main] \in RecordingSteps
    BY <1>1, <1>2 DEF Procs
  <2>2. record["registry"].status # "removed" /\ \A q \in Cleaners : pc[q] = "idle"
    BY <2>1 DEF IInv, RecordingInv
  <2>3. p = Main
    BY <1>1, <2>1, <2>2 DEF Procs, RecordingSteps
  <2>4. record'["registry"].status # "removed"
    <3>1. pc[p] \notin SavingSteps
      BY <2>1, <2>3 DEF RecordingSteps, SavingSteps
    <3>2. ASSUME NEW k \in Kinds, record' = [record EXCEPT ![k] = Active(handle[k])]
          PROVE  record'["registry"].status # "removed"
      BY <2>2, <3>2 DEF IInv, DocsInv, Sound, Resources, Kinds, Active
    <3> QED
      BY <2>2, <3>1, <3>2 DEF Moves, RecordStep
  <2> QED
    BY <1>2, <2>2, <2>3, <2>4 DEF Procs
<1> QED
  BY <1>3, <1>4

-----------------------------------------------------------------------------
(* What a step may do to the host. *)

HostKept == HostStep /\ HostInv' /\ OwnInv'

LEMMA HostUntouched ==
    ASSUME IInv, UNCHANGED <<host, handle, removed>>
    PROVE  HostKept
BY DEF IInv, HostInv, OwnInv, HostKept, HostStep, host

LEMMA RemovalKeepsHost ==
    ASSUME IInv, NEW i \in mine \cup {NoId}, RemoveById(i), UNCHANGED handle
    PROVE  HostKept
<1> USE ResourceAssumptions DEF RemoveById
<1>1. HostStep /\ HostInv'
  BY DEF IInv, HostInv, HostStep
<1>2. removed' \subseteq removed \cup mine
  BY DEF IInv, HostInv
<1>3. OwnInv'
  BY <1>2 DEF IInv, OwnInv
<1> QED
  BY <1>1, <1>3 DEF HostKept

LEMMA DeletionKeepsHost ==
    ASSUME IInv, DeleteByName, UNCHANGED handle
    PROVE  HostKept
BY DEF DeleteByName, Listed, IInv, HostInv, OwnInv, HostKept, HostStep

LEMMA StartRegistryKeepsHost ==
    ASSUME IInv, StartRegistry
    PROVE  HostKept
<1>1. CASE \E i \in Ids : /\ Created(i) /\ regName' = i
                          /\ handle' \in {handle, [handle EXCEPT !["registry"] = i]}
  BY <1>1 DEF StartRegistry, Created, IInv, HostInv, OwnInv, HostKept, HostStep, Kinds
<1>2. CASE UNCHANGED <<mine, used, alive, hidden, regName, handle>>
  BY <1>2, HostUntouched DEF StartRegistry, host
<1> QED
  BY <1>1, <1>2 DEF StartRegistry

LEMMA CreateKindKeepsHost ==
    ASSUME IInv, CreateKind
    PROVE  HostKept
<1>1. CASE \E i \in Ids : /\ Created(i) /\ cluster' = {i}
                          /\ handle' \in {handle, [handle EXCEPT !["kind"] = i]}
  BY <1>1 DEF CreateKind, Created, IInv, HostInv, OwnInv, HostKept, HostStep, Kinds
<1>2. CASE UNCHANGED <<mine, used, alive, hidden, cluster, handle>>
  BY <1>2, HostUntouched DEF CreateKind, host
<1> QED
  BY <1>1, <1>2 DEF CreateKind

LEMMA OthersKeepHost ==
    ASSUME IInv, Other
    PROVE  HostKept
<1>1. UNCHANGED <<handle, removed, mine>>
  BY DEF Other, OtherRemoves, OtherCreates, OtherRenames, OtherSwitchesProvider, locals
<1>2. HostStep /\ HostInv'
  <2>1. ASSUME NEW i \in Ids, OtherRemoves(i) PROVE HostStep /\ HostInv'
    BY <1>1, <2>1 DEF OtherRemoves, IInv, HostInv, HostStep
  <2>2. ASSUME NEW i \in Ids, OtherCreates(i) PROVE HostStep /\ HostInv'
    BY <1>1, <2>2 DEF OtherCreates, IInv, HostInv, HostStep
  <2>3. CASE OtherRenames
    BY <1>1, <2>3 DEF OtherRenames, IInv, HostInv, HostStep
  <2>4. CASE OtherSwitchesProvider
    BY <1>1, <2>4 DEF OtherSwitchesProvider, IInv, HostInv, HostStep
  <2> QED
    BY <2>1, <2>2, <2>3, <2>4 DEF Other
<1>3. ~SharedClusterName => cluster' \subseteq cluster
  BY DEF Other, OtherRemoves, OtherCreates, OtherRenames, OtherSwitchesProvider
<1>4. OwnInv'
  BY <1>1, <1>3 DEF IInv, OwnInv
<1> QED
  BY <1>2, <1>4 DEF HostKept

-----------------------------------------------------------------------------
(* Every step of a process moves it and keeps the host. *)

\* A process that goes on or gives up, and writes nothing.
LEMMA QuietMoves ==
    ASSUME NEW p \in Procs, NEW l \in Labels \ RegistrySteps, Goto(p, l),
           UNCHANGED <<mem, prev, record>>,
           l \in RecordingSteps => p = Main /\ pc[p] \in RecordingSteps,
           p \in Cleaners => pc[p] # "idle" \/ pc[Main] = "exited"
    PROVE  Moves(p)
BY DEF Moves, MemStep, PrevStep, RecordStep, PcStep, Goto

LEMMA FailingMoves ==
    ASSUME NEW p \in Procs, Fails(p), UNCHANGED record,
           p \in Cleaners => pc[p] # "idle" \/ pc[Main] = "exited"
    PROVE  Moves(p) /\ UNCHANGED handle
BY DEF Fails, Forget, ForgetReseal, Moves, MemStep, PrevStep, RecordStep,
       PcStep, Goto, Labels, RunLabels, CleanerLabels, RecordingSteps, RegistrySteps

LEMMA RunMoves ==
    ASSUME IInv, RunStep
    PROVE  Moves(Main) /\ HostKept
<1> USE ResourceAssumptions
<1> USE DEF At
<1> DEFINE Quiet == UNCHANGED <<mem, prev, record>>
<1>0. Main \in Procs
  BY DEF Procs
<1>1. CASE StartRegistry
  <2>1. \E l \in {"record_registry", "destroy_registry"} : Goto(Main, l)
    BY <1>1 DEF StartRegistry
  <2>2. Quiet /\ pc[Main] = "start_registry"
    BY <1>1 DEF StartRegistry, files
  <2>3. Moves(Main)
    BY <1>0, <2>1, <2>2, QuietMoves DEF Labels, RunLabels, RegistrySteps, RecordingSteps
  <2> QED
    BY <1>1, <2>3, StartRegistryKeepsHost
<1>2. CASE CreateKind
  <2>1. \E l \in {"record_kind", "destroy_kind"} : Goto(Main, l)
    BY <1>2 DEF CreateKind
  <2>2. Quiet /\ pc[Main] = "create_kind"
    BY <1>2 DEF CreateKind, files
  <2>3. Moves(Main)
    BY <1>0, <2>1, <2>2, QuietMoves DEF Labels, RunLabels, RegistrySteps, RecordingSteps
  <2> QED
    BY <1>2, <2>3, CreateKindKeepsHost
<1>3. ASSUME NEW k \in Kinds, NEW l \in RecordingSteps,
             NEW next \in {"create_kind", "work"},
             NEW otherwise \in {"destroy_registry", "destroy_kind"},
             Record(k, l, next, otherwise)
      PROVE  Moves(Main) /\ HostKept
  <2>1. \E m \in {next, otherwise} : Goto(Main, m)
    BY <1>3 DEF Record
  <2>2. pc[Main] \in RecordingSteps
    BY <1>3 DEF Record
  <2>3. PcStep(Main)
    BY <2>1, <2>2 DEF PcStep, Goto, Labels, RunLabels, RegistrySteps, Procs
  <2>4. UNCHANGED <<host, mem, prev, handle, removed>>
    BY <1>3 DEF Record
  <2>5. record' = record \/ record' = [record EXCEPT ![k] = Active(handle[k])]
    BY <1>3 DEF Record
  <2>6. RecordStep(Main)
    BY <2>2, <2>5 DEF RecordStep
  <2> QED
    BY <2>3, <2>4, <2>6, HostUntouched DEF Moves, MemStep, PrevStep
<1>4. CASE RecordRegistry
  BY <1>3, <1>4 DEF RecordRegistry, Kinds, RecordingSteps
<1>5. CASE RecordKind
  BY <1>3, <1>5 DEF RecordKind, Kinds, RecordingSteps
<1>6. CASE FinishWork
  <2>1. \E l \in {"destroy_kind", "close_manifest"} : Goto(Main, l)
    BY <1>6 DEF FinishWork
  <2>2. Quiet /\ pc[Main] = "work" /\ UNCHANGED <<host, handle, removed>>
    BY <1>6 DEF FinishWork, files
  <2> QED
    BY <1>0, <2>1, <2>2, QuietMoves, HostUntouched
    DEF Labels, RunLabels, RegistrySteps, RecordingSteps
<1>7. CASE DestroyKind
  <2>1. \E l \in {"destroy_registry", "delete_kind"} : Goto(Main, l)
    BY <1>7 DEF DestroyKind
  <2>2. Quiet /\ pc[Main] = "destroy_kind" /\ UNCHANGED <<host, handle, removed>>
    BY <1>7 DEF DestroyKind, files
  <2> QED
    BY <1>0, <2>1, <2>2, QuietMoves, HostUntouched
    DEF Labels, RunLabels, RegistrySteps, RecordingSteps
<1>8. CASE DeleteKind
  <2>1. Goto(Main, "destroy_registry") /\ Quiet /\ pc[Main] = "delete_kind" /\ UNCHANGED handle
    BY <1>8 DEF DeleteKind, files
  <2>2. DeleteByName \/ UNCHANGED <<host, removed>>
    BY <1>8 DEF DeleteKind
  <2> QED
    BY <1>0, <2>1, <2>2, QuietMoves, HostUntouched, DeletionKeepsHost
    DEF Labels, RunLabels, RegistrySteps, RecordingSteps
<1>9. CASE DestroyRegistry
  <2>1. Goto(Main, "recover") /\ Quiet /\ pc[Main] = "destroy_registry" /\ UNCHANGED handle
    BY <1>9 DEF DestroyRegistry, files
  <2>2. (regName \in mine /\ RemoveById(regName)) \/ UNCHANGED <<host, removed>>
    BY <1>9 DEF DestroyRegistry
  <2> QED
    BY <1>0, <2>1, <2>2, QuietMoves, HostUntouched, RemovalKeepsHost
    DEF Labels, RunLabels, RegistrySteps, RecordingSteps
<1>10. CASE SkipRecovery
  <2>1. /\ Goto(Main, "close_manifest") /\ Quiet /\ pc[Main] = "recover"
        /\ UNCHANGED <<host, handle, removed>>
    BY <1>10 DEF SkipRecovery, files
  <2> QED
    BY <1>0, <2>1, QuietMoves, HostUntouched
    DEF Labels, RunLabels, RegistrySteps, RecordingSteps
<1>11. CASE CloseManifest
  <2>1. \E l \in {"close_sums", "exited"} : Goto(Main, l)
    BY <1>11 DEF CloseManifest
  <2>2. Quiet /\ pc[Main] = "close_manifest" /\ UNCHANGED <<host, handle, removed>>
    BY <1>11 DEF CloseManifest
  <2> QED
    BY <1>0, <2>1, <2>2, QuietMoves, HostUntouched
    DEF Labels, RunLabels, RegistrySteps, RecordingSteps
<1>12. CASE CloseSums
  <2>1. /\ Goto(Main, "exited") /\ Quiet /\ pc[Main] = "close_sums"
        /\ UNCHANGED <<host, handle, removed>>
    BY <1>12 DEF CloseSums
  <2> QED
    BY <1>0, <2>1, QuietMoves, HostUntouched
    DEF Labels, RunLabels, RegistrySteps, RecordingSteps
<1> QED
  BY <1>1, <1>2, <1>4, <1>5, <1>6, <1>7, <1>8, <1>9, <1>10, <1>11, <1>12 DEF RunStep

\* cleanup() turns to the registry only once the cluster is not active.
LEMMA NextResource ==
    ASSUME NEW p, NEW d
    PROVE  /\ NextStep(p, d) \in {"kind_list", "registry_inspect", "close_manifest", "final_verify"}
           /\ NextStep(p, d) = "registry_inspect" => d["kind"].status # "active"
BY DEF NextStep

LEMMA SavedMoves ==
    ASSUME NEW p \in Procs, UNCHANGED <<mem, prev, handle>>,
           record' = record \/ (record' = mem[p] /\ pc[p] \in SavingSteps),
           Goto(p, NextStep(p, mem[p])), pc[p] # "idle"
    PROVE  Moves(p)
<1>1. PcStep(p)
  BY NextResource DEF PcStep, Goto, Labels, RunLabels, RecoveryLabels, CleanerLabels,
     RegistrySteps, RecordingSteps
<1> QED
  BY <1>1 DEF Moves, MemStep, PrevStep, RecordStep

LEMMA RecoverMoves ==
    ASSUME IInv, NEW p \in Procs, Recover(p)
    PROVE  Moves(p) /\ HostKept
<1> USE ResourceAssumptions
<1> USE DEF At
<1> DEFINE Idle == pc[p] = "idle"
           Quiet == UNCHANGED <<mem, prev, record, handle>>
<1>a. Fails(p) /\ UNCHANGED <<host, removed, record>> /\ ~Idle => Moves(p) /\ HostKept
  BY FailingMoves, HostUntouched
<1>b. Quiet /\ UNCHANGED <<host, removed>> => HostKept
  BY HostUntouched
<1>c. ASSUME NEW k \in Kinds, Confirmed(p, k), mem[p][k].id \notin alive,
             k = "registry" => pc[p] \in RegistrySteps,
             UNCHANGED <<host, record, removed>>, ~Idle
      PROVE  Moves(p) /\ HostKept
  <2>1. PcStep(p)
    BY <1>c DEF Confirmed, PcStep, Goto, Labels, RecoveryLabels, RegistrySteps, RecordingSteps
  <2> QED
    BY <1>c, <2>1, HostUntouched DEF Confirmed, Moves, MemStep, PrevStep, RecordStep
<1>1. CASE Load(p)
  <2>1. UNCHANGED <<host, record, removed>> /\ (p \in Cleaners => pc[Main] = "exited")
    BY <1>1 DEF Load, files
  <2>2. CASE Fails(p)
    BY <2>1, <2>2, FailingMoves, HostUntouched
  <2>3. CASE /\ mem' = [mem EXCEPT ![p] = record]
             /\ Goto(p, NextStep(p, record))
             /\ UNCHANGED <<prev, handle>>
    <3>1. mem'[p] = record
      BY <2>3 DEF IInv, LocalsInv
    <3>2. PcStep(p)
      BY <2>1, <2>3, <3>1, NextResource DEF PcStep, Goto, Labels, RunLabels, RecoveryLabels,
         CleanerLabels, RegistrySteps, RecordingSteps
    <3> QED
      BY <2>1, <2>3, <3>2, HostUntouched DEF Moves, MemStep, PrevStep, RecordStep
  <2> QED
    BY <1>1, <2>2, <2>3 DEF Load
<1>2. CASE KindList(p)
  <2>1. UNCHANGED <<host, record, removed>> /\ ~Idle
    BY <1>2 DEF KindList, files
  <2>2. Fails(p) \/ (UNCHANGED <<mem, prev, handle>> /\ \E l \in {"kind_absent", "kind_verify"} : Goto(p, l))
    BY <1>2 DEF KindList
  <2> QED
    BY <2>1, <2>2, <1>a, <1>b, QuietMoves, HostUntouched
    DEF Labels, RecoveryLabels, RegistrySteps, RecordingSteps
<1>3. CASE KindAbsent(p)
  <2>1. UNCHANGED <<host, record, removed>> /\ ~Idle
    BY <1>3 DEF KindAbsent, files
  <2>2. Fails(p) \/ (Confirmed(p, "kind") /\ mem[p]["kind"].id \notin alive)
    BY <1>3 DEF KindAbsent
  <2> QED
    BY <1>3, <2>1, <2>2, <1>a, <1>c DEF KindAbsent, RegistrySteps, Kinds
<1>4. CASE KindVerify(p)
  <2>1. UNCHANGED <<host, record, removed>> /\ ~Idle
    BY <1>4 DEF KindVerify, files
  <2>2. Fails(p) \/ (UNCHANGED <<mem, prev, handle>> /\ \E l \in {"kind_delete"} : Goto(p, l))
    BY <1>4 DEF KindVerify
  <2> QED
    BY <2>1, <2>2, <1>a, <1>b, QuietMoves, HostUntouched
    DEF Labels, RecoveryLabels, RegistrySteps, RecordingSteps
<1>5. CASE KindDelete(p)
  <2>1. UNCHANGED record /\ ~Idle
    BY <1>5 DEF KindDelete, files
  <2>2. Fails(p) \/ (Goto(p, "kind_confirm") /\ UNCHANGED <<mem, prev, handle>>)
    BY <1>5 DEF KindDelete
  <2>3. DeleteByName \/ UNCHANGED <<host, removed>>
    BY <1>5 DEF KindDelete
  <2>4. Moves(p) /\ UNCHANGED handle
    BY <2>1, <2>2, FailingMoves, QuietMoves
    DEF Labels, RecoveryLabels, RegistrySteps, RecordingSteps
  <2> QED
    BY <2>3, <2>4, HostUntouched, DeletionKeepsHost
<1>6. CASE KindConfirm(p)
  <2>1. UNCHANGED <<host, record, removed>> /\ ~Idle
    BY <1>6 DEF KindConfirm, files
  <2>2. Fails(p) \/ (Confirmed(p, "kind") /\ mem[p]["kind"].id \notin alive)
    BY <1>6 DEF KindConfirm
  <2> QED
    BY <1>6, <2>1, <2>2, <1>a, <1>c DEF KindConfirm, RegistrySteps, Kinds
<1>7. CASE RegistryInspect(p)
  <2>1. UNCHANGED <<host, record, removed>> /\ ~Idle
    BY <1>7 DEF RegistryInspect, files
  <2>2. \/ Fails(p)
        \/ Confirmed(p, "registry") /\ mem[p]["registry"].id \notin alive
        \/ Goto(p, "registry_remove") /\ UNCHANGED <<mem, prev, handle>>
    BY <1>7 DEF RegistryInspect
  <2>3. CASE Goto(p, "registry_remove") /\ UNCHANGED <<mem, prev, handle>>
    <3>1. mem[p]["kind"].status # "active"
      BY <1>7 DEF RegistryInspect, RegistrySteps, IInv, TurnInv
    <3>2. PcStep(p)
      BY <2>1, <2>3, <3>1 DEF PcStep, Goto, Labels, RecoveryLabels, RegistrySteps, RecordingSteps
    <3> QED
      BY <1>b, <2>1, <2>3, <3>2 DEF Moves, MemStep, PrevStep, RecordStep
  <2> QED
    BY <1>7, <2>1, <2>2, <2>3, <1>a, <1>c DEF RegistryInspect, RegistrySteps, Kinds
<1>8. CASE RegistryRemove(p)
  <2>1. UNCHANGED record /\ ~Idle /\ pc[p] \in RegistrySteps
    BY <1>8 DEF RegistryRemove, files, RegistrySteps
  <2>2. Fails(p) \/ (Goto(p, "registry_confirm") /\ UNCHANGED <<mem, prev, handle>>)
    BY <1>8 DEF RegistryRemove
  <2>3. RemoveById(mem[p]["registry"].id) \/ UNCHANGED <<host, removed>>
    BY <1>8 DEF RegistryRemove
  <2>4. mem[p]["registry"].id \in mine \cup {NoId}
    BY DEF IInv, DocsInv, Sound, Kinds
  <2>5. CASE Goto(p, "registry_confirm") /\ UNCHANGED <<mem, prev, handle>>
    <3>1. mem[p]["kind"].status # "active"
      BY <2>1 DEF IInv, TurnInv
    <3>2. PcStep(p)
      BY <2>1, <2>5, <3>1 DEF PcStep, Goto, Labels, RecoveryLabels, RegistrySteps, RecordingSteps
    <3> QED
      BY <2>1, <2>3, <2>4, <2>5, <3>2, HostUntouched, RemovalKeepsHost
      DEF Moves, MemStep, PrevStep, RecordStep
  <2>6. CASE Fails(p)
    BY <2>1, <2>3, <2>4, <2>6, FailingMoves, HostUntouched, RemovalKeepsHost
  <2> QED
    BY <2>2, <2>5, <2>6
<1>9. CASE RegistryConfirm(p)
  <2>1. UNCHANGED <<host, record, removed>> /\ ~Idle
    BY <1>9 DEF RegistryConfirm, files
  <2>2. Fails(p) \/ (Confirmed(p, "registry") /\ mem[p]["registry"].id \notin alive)
    BY <1>9 DEF RegistryConfirm
  <2> QED
    BY <1>9, <2>1, <2>2, <1>a, <1>c DEF RegistryConfirm, RegistrySteps, Kinds
<1>10. CASE SavePlain(p)
  <2>1. UNCHANGED <<host, removed>> /\ ~Idle /\ pc[p] \in SavingSteps
    BY <1>10 DEF SavePlain, SavingSteps
  <2>2. \/ Fails(p) /\ UNCHANGED record
        \/ record' = mem[p] /\ Goto(p, NextStep(p, mem[p])) /\ UNCHANGED <<mem, prev, handle>>
    BY <1>10 DEF SavePlain
  <2> QED
    BY <1>a, <2>1, <2>2, SavedMoves, HostUntouched
<1>11. CASE SealVerify(p)
  <2>1. UNCHANGED <<host, record, removed>> /\ ~Idle
    BY <1>11 DEF SealVerify, files
  <2>2. CASE Fails(p)
    BY <1>a, <2>1, <2>2
  <2>3. CASE /\ prev' = [prev EXCEPT ![p] = record]
             /\ Goto(p, "seal_record")
             /\ UNCHANGED <<mem, handle>>
    <3>1. PcStep(p)
      BY <2>1, <2>3 DEF PcStep, Goto, Labels, RecoveryLabels, RegistrySteps, RecordingSteps
    <3> QED
      BY <2>1, <2>3, <3>1, HostUntouched DEF Moves, MemStep, PrevStep, RecordStep
  <2> QED
    BY <1>11, <2>2, <2>3 DEF SealVerify
<1>s. ASSUME SealFails(p), UNCHANGED <<host, record, removed>>, ~Idle
      PROVE  Moves(p) /\ HostKept
  <2>1. Fails(p) \/ (Goto(p, "seal_record") /\ UNCHANGED <<mem, prev, handle>>)
    BY <1>s DEF SealFails
  <2> QED
    BY <1>s, <2>1, <1>a, <1>b, QuietMoves
    DEF Labels, RecoveryLabels, RegistrySteps, RecordingSteps
<1>12. CASE SealRecord(p)
  <2>1. UNCHANGED <<host, removed>> /\ ~Idle /\ pc[p] \in SavingSteps
    BY <1>12 DEF SealRecord, SealStep, SavingSteps
  <2>2. \/ SealFails(p) /\ UNCHANGED record
        \/ /\ record' \in {mem[p], prev[p]}
           /\ Goto(p, "seal_entries")
           /\ UNCHANGED <<mem, prev, handle>>
    BY <1>12 DEF SealRecord, SealStep, files
  <2>3. CASE /\ record' \in {mem[p], prev[p]}
             /\ Goto(p, "seal_entries")
             /\ UNCHANGED <<mem, prev, handle>>
    <3>1. PcStep(p)
      BY <2>1, <2>3 DEF PcStep, Goto, Labels, RecoveryLabels, RegistrySteps, RecordingSteps
    <3> QED
      BY <2>1, <2>3, <3>1, HostUntouched DEF Moves, MemStep, PrevStep, RecordStep
  <2> QED
    BY <1>s, <2>1, <2>2, <2>3
<1>13. CASE SealEntries(p)
  <2>1. UNCHANGED <<host, record, removed>> /\ ~Idle
    BY <1>13 DEF SealEntries, SealStep, files
  <2>2. SealFails(p) \/ (UNCHANGED <<mem, prev, handle>> /\ Goto(p, "seal_manifest"))
    BY <1>13 DEF SealEntries, SealStep
  <2> QED
    BY <1>s, <1>b, <2>1, <2>2, QuietMoves
    DEF Labels, RecoveryLabels, RegistrySteps, RecordingSteps
<1>14. CASE SealManifest(p)
  <2>1. UNCHANGED <<host, record, removed>> /\ ~Idle
    BY <1>14 DEF SealManifest, SealStep, files
  <2>2. SealFails(p) \/ (UNCHANGED <<mem, prev, handle>> /\ Goto(p, "seal_inventory"))
    BY <1>14 DEF SealManifest, SealStep
  <2> QED
    BY <1>s, <1>b, <2>1, <2>2, QuietMoves
    DEF Labels, RecoveryLabels, RegistrySteps, RecordingSteps
<1>15. CASE SealInventory(p)
  <2>1. UNCHANGED <<host, record, removed>> /\ ~Idle
    BY <1>15 DEF SealInventory, SealStep, files
  <2>2. SealFails(p) \/ (UNCHANGED <<mem, prev, handle>> /\ Goto(p, "seal_sums"))
    BY <1>15 DEF SealInventory, SealStep
  <2> QED
    BY <1>s, <1>b, <2>1, <2>2, QuietMoves
    DEF Labels, RecoveryLabels, RegistrySteps, RecordingSteps
<1>16. CASE SealSums(p)
  <2>1. UNCHANGED <<host, record, removed>> /\ ~Idle
    BY <1>16 DEF SealSums
  <2>2. SealFails(p) \/ Fails(p) \/ (UNCHANGED <<mem, prev, handle>> /\ Goto(p, "seal_check"))
    BY <1>16 DEF SealSums
  <2> QED
    BY <1>s, <1>a, <1>b, <2>1, <2>2, QuietMoves
    DEF Labels, RecoveryLabels, RegistrySteps, RecordingSteps
<1>17. CASE SealCheck(p)
  <2>1. UNCHANGED <<host, record, removed>> /\ ~Idle
    BY <1>17 DEF SealCheck, files
  <2>2. \/ SealFails(p)
        \/ Goto(p, NextStep(p, mem[p])) /\ UNCHANGED <<mem, prev, handle>>
    BY <1>17 DEF SealCheck
  <2> QED
    BY <1>s, <1>b, <2>1, <2>2, SavedMoves
<1> QED
  BY <1>1, <1>2, <1>3, <1>4, <1>5, <1>6, <1>7, <1>8, <1>9, <1>10, <1>11, <1>12, <1>13,
     <1>14, <1>15, <1>16, <1>17 DEF Recover

-----------------------------------------------------------------------------
(* The theorems. *)

LEMMA InitIsInv ==
    Init => IInv
<1> USE ResourceAssumptions
<1> SUFFICES ASSUME Init PROVE IInv
  OBVIOUS
<1>1. NoRecord \in Resources /\ Sound(NoRecord, mine, alive)
  BY NoRecordIsSound DEF Init, NoRecord, NoResource, Resources, Resource, Kinds
<1>2. HostInv /\ OwnInv
  BY DEF Init, HostInv, OwnInv, Kinds
<1>3. LocalsInv /\ DocsInv
  BY <1>1 DEF Init, LocalsInv, DocsInv, Procs, Labels, RunLabels, CleanerLabels
<1>4. TurnInv /\ RecordingInv
  BY DEF Init, TurnInv, RecordingInv, RegistrySteps, RecordingSteps, NoRecord, NoResource,
     Procs, Kinds
<1> QED
  BY <1>2, <1>3, <1>4 DEF IInv

\* Every step is a move of some process, if only of the run staying where it
\* is, and keeps the host.
LEMMA StepMoves ==
    ASSUME IInv, [Next]_vars
    PROVE  (\E p \in Procs : Moves(p)) /\ HostKept
<1> USE ResourceAssumptions
<1>0. Main \in Procs /\ Cleaners \subseteq Procs
  BY DEF Procs
<1>1. CASE RunStep
  BY <1>0, <1>1, RunMoves
<1>2. ASSUME NEW p \in Procs, Recover(p)
      PROVE  Moves(p) /\ HostKept
  BY <1>2, RecoverMoves
<1>3. ASSUME NEW p \in Procs, Crash(p)
      PROVE  Moves(p) /\ HostKept
  <2>1. UNCHANGED <<host, record, removed, handle>>
    BY <1>3 DEF Crash, Forget, files
  <2>2. PcStep(p)
    BY <1>3 DEF Crash, PcStep, Goto, Labels, RunLabels, CleanerLabels, RegistrySteps, RecordingSteps
  <2>3. Moves(p)
    BY <1>3, <2>1, <2>2 DEF Crash, Forget, ForgetReseal, Moves, MemStep, PrevStep, RecordStep
  <2> QED
    BY <2>1, <2>3, HostUntouched
<1>4. ASSUME NEW p \in Cleaners, FinalVerify(p)
      PROVE  Moves(p) /\ HostKept
  <2>1. UNCHANGED <<host, record, removed, handle>>
    BY <1>4 DEF FinalVerify, Forget, files
  <2>2. PcStep(p)
    BY <1>4 DEF FinalVerify, At, PcStep, Goto, Labels, CleanerLabels, RegistrySteps, RecordingSteps
  <2>3. Moves(p)
    BY <1>4, <2>1, <2>2 DEF FinalVerify, Forget, ForgetReseal, Moves, MemStep, PrevStep, RecordStep
  <2> QED
    BY <2>1, <2>3, HostUntouched
<1>5. ASSUME UNCHANGED <<pc, mem, prev, record>>
      PROVE  Moves(Main)
  <2>1. pc' = [pc EXCEPT ![Main] = pc[Main]] /\ pc[Main] \in Labels
    BY <1>0, <1>5 DEF IInv, LocalsInv
  <2>2. pc[Main] \in RegistrySteps => mem'[Main]["kind"].status # "active"
    BY <1>0, <1>5 DEF IInv, TurnInv
  <2>3. PcStep(Main)
    BY <1>0, <2>1, <2>2 DEF PcStep
  <2> QED
    BY <1>5, <2>3 DEF Moves, MemStep, PrevStep, RecordStep
<1>6. CASE Other
  BY <1>0, <1>5, <1>6, OthersKeepHost DEF Other, locals, files
<1>7. CASE UNCHANGED vars
  BY <1>0, <1>5, <1>7, HostUntouched DEF vars, locals, files
<1> QED
  BY <1>0, <1>1, <1>2, <1>3, <1>4, <1>6, <1>7 DEF Next

LEMMA NextKeepsInv ==
    IInv /\ [Next]_vars => IInv'
<1> SUFFICES ASSUME IInv, [Next]_vars PROVE IInv'
  OBVIOUS
<1>1. PICK p \in Procs : Moves(p)
  BY StepMoves
<1>2. HostKept
  BY StepMoves
<1>3. DocsInv' /\ LocalsInv'
  BY <1>1, <1>2, MovesKeepDocs DEF HostKept
<1>4. TurnInv' /\ RecordingInv'
  BY <1>1, MovesKeepTurns
<1> QED
  BY <1>2, <1>3, <1>4 DEF IInv, HostKept

\* The strengthened invariant holds in every reachable state: each copy of
\* the record, in resources.json or in a process that loads, saves or
\* restores it, is sound.
THEOREM Invariance == Spec => []IInv
  BY InitIsInv, NextKeepsInv, PTL DEF Spec

\* What resources.json calls removed does not exist, so a cleanup that skips
\* it leaves nothing behind, whatever interleaving of cleanups wrote it.
THEOREM RemovedStaysGone == Spec => []RemovedIsGone
<1>1. IInv => RemovedIsGone
  BY DEF IInv, DocsInv, Sound, RemovedIsGone
<1> QED
  BY <1>1, Invariance, PTL

\* cleanup() never gives the registry up before the cluster that pulls from
\* it, however many cleanups overlap.
THEOREM RegistryGoesLast == Spec => []RegistryOutlivesCluster
<1>1. IInv => RegistryOutlivesCluster
  BY DEF IInv, DocsInv, Sound, RegistryOutlivesCluster
<1> QED
  BY <1>1, Invariance, PTL

\* The run and its cleanups remove containers of the run only, provided
\* nobody else creates a cluster of the run's name: kind has no other
\* identity to delete a cluster by.
THEOREM OthersAreSpared ==
    ASSUME ~SharedClusterName
    PROVE  Spec => []OnlyRunContainersRemoved
<1>1. IInv => OnlyRunContainersRemoved
  BY DEF IInv, OwnInv, OnlyRunContainersRemoved
<1> QED
  BY <1>1, Invariance, PTL

-----------------------------------------------------------------------------
(* A cleanup that reports completion.  Every copy of the record names the   *)
(* same containers once the run has recorded them, whichever process saves  *)
(* which copy last.                                                         *)

SameIds(d, e) == \A k \in Kinds : d[k].id = e[k].id

\* A resource that was never recorded has no container.
Blank(d) == \A k \in Kinds : d[k].status = "none" => d[k].id = NoId

BlankInv == Blank(record) /\ \A p \in Procs : Blank(mem[p]) /\ Blank(prev[p])

SealSteps ==
    {"seal_record", "seal_entries", "seal_manifest", "seal_inventory", "seal_sums",
     "seal_check"}

OwnCopies(p) ==
    /\ pc[p] \in RecoveryLabels \cup {"final_verify"} => SameIds(mem[p], record)
    /\ pc[p] \in SealSteps => SameIds(prev[p], record)
    /\ pc[p] = "final_verify" => \A k \in Kinds : mem[p][k].status # "active"

CopiesInv == \A p \in Procs : OwnCopies(p)

\* What a cleanup has reported stays true.
Complete ==
    /\ pc[Main] \notin RecordingSteps
    /\ \A k \in Kinds : record[k].id \notin alive

Results == {"none", "retained", "error", "complete"}
CompleteInv ==
    /\ result \in [Procs -> Results]
    /\ \A p \in Cleaners : result[p] = "complete" => Complete

RecoveryInv == IInv /\ BlankInv /\ CopiesInv /\ CompleteInv

LEMMA MarkKeepsIds ==
    ASSUME NEW d \in Resources, NEW k \in Kinds
    PROVE  SameIds(MarkRemoved(d, k), d) /\ (Blank(d) => Blank(MarkRemoved(d, k)))
BY DEF MarkRemoved, Resources, Resource, Kinds, SameIds, Blank

LEMMA MovesKeepBlank ==
    ASSUME IInv, BlankInv, NEW p \in Procs, Moves(p)
    PROVE  BlankInv'
<1>1. Blank(NoRecord)
  BY DEF Blank, NoRecord, NoResource, Kinds
<1>2. Blank(record')
  <2>1. ASSUME NEW k \in Kinds, record' = [record EXCEPT ![k] = Active(handle[k])]
        PROVE  Blank(record')
    BY <2>1 DEF BlankInv, Blank, Active, IInv, DocsInv, Sound, Resources, Kinds
  <2> QED
    BY <2>1 DEF BlankInv, Moves, RecordStep
<1>3. \A q \in Procs : Blank(mem'[q])
  <2>1. mem \in [Procs -> Resources]
    BY DEF IInv, LocalsInv
  <2>2. ASSUME NEW d, Blank(d), mem' = [mem EXCEPT ![p] = d]
        PROVE  \A q \in Procs : Blank(mem'[q])
    BY <2>1, <2>2 DEF BlankInv
  <2>3. \A k \in Kinds : Blank(MarkRemoved(mem[p], k))
    BY <2>1, MarkKeepsIds DEF BlankInv
  <2> QED
    BY <1>1, <2>2, <2>3 DEF Moves, MemStep, BlankInv
<1>4. \A q \in Procs : Blank(prev'[q])
  BY <1>1 DEF Moves, PrevStep, IInv, LocalsInv, BlankInv
<1> QED
  BY <1>2, <1>3, <1>4 DEF BlankInv

\* A process that has given up, or has not begun, holds no copy that counts.
LEMMA IdleCopies ==
    ASSUME NEW p, pc'[p] \notin RecoveryLabels \cup {"final_verify"}
    PROVE  OwnCopies(p)'
BY DEF OwnCopies, SealSteps, RecoveryLabels

LEMMA FailsIsIdle ==
    ASSUME IInv, NEW p \in Procs, Fails(p)
    PROVE  OwnCopies(p)'
<1>1. pc'[p] \in {"close_manifest", "idle"}
  BY DEF Fails, Goto, IInv, LocalsInv
<1> QED
  BY <1>1, IdleCopies DEF RecoveryLabels

LEMMA NextVerifies ==
    ASSUME NEW p, NEW d, NextStep(p, d) = "final_verify"
    PROVE  \A k \in Kinds : d[k].status # "active"
BY DEF NextStep, Kinds

\* A cleanup goes on with a copy of the record as it is.
LEMMA GoesOnCopies ==
    ASSUME IInv, NEW p \in Procs, NEW d, mem'[p] = d, SameIds(d, record'),
           Goto(p, NextStep(p, d))
    PROVE  OwnCopies(p)'
<1>1. pc'[p] = NextStep(p, d)
  BY DEF Goto, IInv, LocalsInv
<1> QED
  BY <1>1, NextResource, NextVerifies DEF OwnCopies, SealSteps

LEMMA RecoverKeepsCopies ==
    ASSUME IInv, CopiesInv, NEW p \in Procs, Recover(p)
    PROVE  SameIds(record', record) /\ OwnCopies(p)'
<1>0. OwnCopies(p) /\ SameIds(record, record)
  BY DEF CopiesInv, SameIds
<1>t. pc \in [Procs -> Labels] /\ mem \in [Procs -> Resources] /\ prev \in [Procs -> Resources]
  BY DEF IInv, LocalsInv
<1> USE DEF At
\* Steps that leave the record and its copies alone, within the same part.
<1>q. ASSUME NEW l \in RecoveryLabels, Goto(p, l), pc[p] \in RecoveryLabels,
             l \in SealSteps => pc[p] \in SealSteps, UNCHANGED <<mem, prev, record>>
      PROVE  SameIds(record', record) /\ OwnCopies(p)'
  BY <1>0, <1>t, <1>q DEF Goto, OwnCopies, RecoveryLabels
<1>f. ASSUME Fails(p), UNCHANGED record
      PROVE  SameIds(record', record) /\ OwnCopies(p)'
  BY <1>0, <1>f, FailsIsIdle
<1>s. ASSUME SealFails(p), UNCHANGED record, pc[p] \in SealSteps
      PROVE  SameIds(record', record) /\ OwnCopies(p)'
  BY <1>f, <1>q, <1>s DEF SealFails, SealSteps, RecoveryLabels
<1>c. ASSUME NEW k \in Kinds, Confirmed(p, k), UNCHANGED record, pc[p] \in RecoveryLabels
      PROVE  SameIds(record', record) /\ OwnCopies(p)'
  <2>1. mem'[p] = MarkRemoved(mem[p], k) /\ pc'[p] = "save" /\ record' = record
    BY <1>c, <1>t DEF Confirmed, Goto
  <2>2. SameIds(mem'[p], record)
    BY <1>0, <1>c, <1>t, <2>1, MarkKeepsIds DEF OwnCopies, SameIds
  <2> QED
    BY <1>0, <2>1, <2>2 DEF OwnCopies, SealSteps
<1>1. CASE Load(p)
  <2>1. CASE mem' = [mem EXCEPT ![p] = record] /\ Goto(p, NextStep(p, record)) /\ UNCHANGED record
    BY <1>0, <1>t, <2>1, GoesOnCopies DEF SameIds
  <2> QED
    BY <1>1, <1>f, <2>1 DEF Load, files
<1>2. CASE KindList(p)
  BY <1>2, <1>f, <1>q DEF KindList, files, RecoveryLabels, SealSteps
<1>3. CASE KindAbsent(p)
  BY <1>3, <1>f, <1>c DEF KindAbsent, files, RecoveryLabels, Kinds
<1>4. CASE KindVerify(p)
  BY <1>4, <1>f, <1>q DEF KindVerify, files, RecoveryLabels, SealSteps
<1>5. CASE KindDelete(p)
  BY <1>5, <1>f, <1>q DEF KindDelete, files, RecoveryLabels, SealSteps
<1>6. CASE KindConfirm(p)
  BY <1>6, <1>f, <1>c DEF KindConfirm, files, RecoveryLabels, Kinds
<1>7. CASE RegistryInspect(p)
  BY <1>7, <1>f, <1>c, <1>q DEF RegistryInspect, files, RecoveryLabels, Kinds, SealSteps
<1>8. CASE RegistryRemove(p)
  BY <1>8, <1>f, <1>q DEF RegistryRemove, files, RecoveryLabels, SealSteps
<1>9. CASE RegistryConfirm(p)
  BY <1>9, <1>f, <1>c DEF RegistryConfirm, files, RecoveryLabels, Kinds
<1>10. CASE SavePlain(p)
  <2>1. CASE record' = mem[p] /\ Goto(p, NextStep(p, mem[p])) /\ UNCHANGED mem
    <3>1. SameIds(record', record) /\ SameIds(mem[p], record')
      BY <1>0, <1>10, <2>1 DEF SavePlain, OwnCopies, RecoveryLabels, SameIds
    <3> QED
      BY <2>1, <3>1, GoesOnCopies
  <2> QED
    BY <1>10, <1>f, <2>1 DEF SavePlain
<1>11. CASE SealVerify(p)
  <2>1. CASE prev' = [prev EXCEPT ![p] = record] /\ Goto(p, "seal_record") /\ UNCHANGED <<mem, record>>
    BY <1>0, <1>11, <1>t, <2>1 DEF SealVerify, Goto, OwnCopies, RecoveryLabels, SameIds
  <2> QED
    BY <1>11, <1>f, <2>1 DEF SealVerify, files
<1>12. CASE SealRecord(p)
  <2>1. CASE record' \in {mem[p], prev[p]} /\ Goto(p, "seal_entries") /\ UNCHANGED <<mem, prev>>
    BY <1>0, <1>12, <1>t, <2>1
    DEF SealRecord, SealStep, Goto, OwnCopies, RecoveryLabels, SealSteps, SameIds
  <2> QED
    BY <1>12, <1>s, <2>1 DEF SealRecord, SealStep, files, SealSteps
<1>13. CASE SealEntries(p)
  BY <1>13, <1>s, <1>q DEF SealEntries, SealStep, files, SealSteps, RecoveryLabels
<1>14. CASE SealManifest(p)
  BY <1>14, <1>s, <1>q DEF SealManifest, SealStep, files, SealSteps, RecoveryLabels
<1>15. CASE SealInventory(p)
  BY <1>15, <1>s, <1>q DEF SealInventory, SealStep, files, SealSteps, RecoveryLabels
<1>16. CASE SealSums(p)
  BY <1>16, <1>f, <1>s, <1>q DEF SealSums, SealSteps, RecoveryLabels
<1>17. CASE SealCheck(p)
  <2>1. CASE Goto(p, NextStep(p, mem[p])) /\ UNCHANGED <<mem, record>>
    <3>1. SameIds(mem[p], record')
      BY <1>0, <1>17, <2>1 DEF SealCheck, OwnCopies, RecoveryLabels
    <3> QED
      BY <1>0, <2>1, <3>1, GoesOnCopies
  <2> QED
    BY <1>17, <1>s, <2>1 DEF SealCheck, files, SealSteps
<1> QED
  BY <1>1, <1>2, <1>3, <1>4, <1>5, <1>6, <1>7, <1>8, <1>9, <1>10, <1>11, <1>12, <1>13,
     <1>14, <1>15, <1>16, <1>17 DEF Recover

LEMMA RunKeepsCopies ==
    ASSUME IInv, RunStep
    PROVE  /\ OwnCopies(Main)'
           /\ SameIds(record', record) \/ pc[Main] \in RecordingSteps
<1>1. pc'[Main] \in RunLabels
  BY ResourceAssumptions
  DEF RunStep, StartRegistry, RecordRegistry, CreateKind, RecordKind, Record, FinishWork,
      DestroyKind, DeleteKind, DestroyRegistry, SkipRecovery, CloseManifest, CloseSums,
      Goto, IInv, LocalsInv, RunLabels, Procs
<1>2. record' = record \/ pc[Main] \in RecordingSteps
  BY DEF RunStep, StartRegistry, RecordRegistry, CreateKind, RecordKind, Record, FinishWork,
      DestroyKind, DeleteKind, DestroyRegistry, SkipRecovery, CloseManifest, CloseSums,
      files, At, RecordingSteps
<1>3. OwnCopies(Main)'
  BY <1>1, IdleCopies DEF RunLabels, RecoveryLabels
<1> QED
  BY <1>2, <1>3 DEF SameIds

\* The copies of the processes that do not move name what they named.
LEMMA OthersKeepCopies ==
    ASSUME IInv, CopiesInv, NEW p \in Procs, Moves(p), OwnCopies(p)',
           SameIds(record', record) \/ (p = Main /\ pc[Main] \in RecordingSteps)
    PROVE  CopiesInv'
<1> SUFFICES ASSUME NEW q \in Procs, q # p PROVE OwnCopies(q)'
  BY DEF CopiesInv
<1>1. pc'[q] = pc[q] /\ mem'[q] = mem[q] /\ prev'[q] = prev[q]
  BY DEF Moves, PcStep, MemStep, PrevStep, IInv, LocalsInv
<1>2. CASE SameIds(record', record)
  BY <1>1, <1>2 DEF CopiesInv, OwnCopies, SameIds
<1>3. CASE p = Main /\ pc[Main] \in RecordingSteps
  <2>1. pc[q] = "idle"
    BY <1>3 DEF IInv, RecordingInv, Procs
  <2> QED
    BY <1>1, <2>1, IdleCopies DEF RecoveryLabels
<1> QED
  BY <1>2, <1>3

LEMMA CopiesStay ==
    ASSUME IInv, CopiesInv, [Next]_vars
    PROVE  /\ CopiesInv'
           /\ SameIds(record', record) \/ pc[Main] \in RecordingSteps
<1> USE ResourceAssumptions
<1>0. Main \in Procs /\ Cleaners \subseteq Procs
  BY DEF Procs
<1>1. CASE RunStep
  BY <1>0, <1>1, RunMoves, RunKeepsCopies, OthersKeepCopies
<1>2. ASSUME NEW p \in Procs, Recover(p)
      PROVE  CopiesInv' /\ SameIds(record', record)
  BY <1>2, RecoverMoves, RecoverKeepsCopies, OthersKeepCopies
<1>3. ASSUME NEW p \in Procs, pc'[p] \in {"idle", "exited"}, record' = record,
             \A q \in Procs \ {p} : pc'[q] = pc[q] /\ mem'[q] = mem[q] /\ prev'[q] = prev[q]
      PROVE  CopiesInv' /\ SameIds(record', record)
  <2>1. OwnCopies(p)'
    BY <1>3, IdleCopies DEF RecoveryLabels
  <2>2. \A q \in Procs \ {p} : OwnCopies(q)'
    BY <1>3 DEF CopiesInv, OwnCopies
  <2> QED
    BY <1>3, <2>1, <2>2 DEF CopiesInv, SameIds
<1>4. ASSUME NEW p \in Procs, Crash(p)
      PROVE  CopiesInv' /\ SameIds(record', record)
  BY <1>3, <1>4 DEF Crash, Goto, Forget, ForgetReseal, files, IInv, LocalsInv
<1>5. ASSUME NEW p \in Cleaners, FinalVerify(p)
      PROVE  CopiesInv' /\ SameIds(record', record)
  BY <1>0, <1>3, <1>5 DEF FinalVerify, Goto, Forget, ForgetReseal, files, IInv, LocalsInv
<1>6. CASE UNCHANGED <<pc, mem, prev, record>>
  BY <1>6 DEF CopiesInv, OwnCopies, SameIds
<1> QED
  BY <1>1, <1>2, <1>4, <1>5, <1>6 DEF Next, Other, vars, locals, files

-----------------------------------------------------------------------------
(* How the operations end. *)

ResultStep(p) ==
    result' = result \/ \E v \in Results \ {"complete"} : result' = [result EXCEPT ![p] = v]

LEMMA RunResult ==
    ASSUME RunStep
    PROVE  ResultStep(Main)
BY DEF RunStep, StartRegistry, RecordRegistry, CreateKind, RecordKind, Record, FinishWork,
    DestroyKind, DeleteKind, DestroyRegistry, SkipRecovery, CloseManifest, CloseSums,
    ResultStep, Results

LEMMA RecoverResult ==
    ASSUME NEW p, Recover(p)
    PROVE  ResultStep(p)
BY DEF Recover, Load, KindList, KindAbsent, KindVerify, KindDelete, KindConfirm,
    RegistryInspect, RegistryRemove, RegistryConfirm, SavePlain, SealVerify, SealRecord,
    SealEntries, SealManifest, SealInventory, SealSums, SealCheck, SealStep, SealFails,
    Fails, Confirmed, ResultStep, Results

LEMMA ResultMoves ==
    ASSUME [Next]_vars
    PROVE  \/ \E p \in Procs : ResultStep(p)
           \/ \E p \in Cleaners : FinalVerify(p)
<1>1. CASE RunStep
  BY <1>1, RunResult DEF Procs
<1>2. CASE \E p \in Procs : Recover(p)
  BY <1>2, RecoverResult
<1>3. CASE \E p \in Procs : Crash(p)
  BY <1>3 DEF Crash, ResultStep, Results
<1>4. CASE UNCHANGED result
  BY <1>4 DEF ResultStep, Procs
<1> QED
  BY <1>1, <1>2, <1>3, <1>4 DEF Next, Other, vars, locals

LEMMA CompleteStays ==
    ASSUME IInv, CopiesInv, Complete, [Next]_vars
    PROVE  Complete'
<1>1. SameIds(record', record)
  BY CopiesStay DEF Complete
<1>2. HostKept
  BY StepMoves
<1>3. pc'[Main] \notin RecordingSteps
  <2>1. PICK p \in Procs : Moves(p)
    BY StepMoves
  <2> QED
    BY <2>1 DEF Moves, PcStep, IInv, LocalsInv, Complete
<1>4. ASSUME NEW k \in Kinds PROVE record'[k].id \notin alive'
  <2>1. record'[k].id = record[k].id /\ record[k].id \in mine \cup {NoId}
    BY <1>1 DEF SameIds, IInv, DocsInv, Sound
  <2> QED
    BY <1>2, <2>1, ResourceAssumptions
    DEF HostKept, HostStep, HostInv, IInv, Complete
<1> QED
  BY <1>3, <1>4 DEF Complete

\* The verification that ends a cleanup passes when nothing is left.
LEMMA VerifiedIsComplete ==
    ASSUME IInv, BlankInv, CopiesInv, NEW p \in Cleaners, FinalVerify(p)
    PROVE  Complete'
<1>0. p \in Procs
  BY DEF Procs
<1>1. pc[p] = "final_verify"
  BY DEF FinalVerify, At
<1>2. pc'[Main] = pc[Main] /\ pc[Main] \notin RecordingSteps
  BY <1>0, <1>1, ResourceAssumptions
  DEF FinalVerify, Goto, IInv, LocalsInv, RecordingInv
<1>3. ASSUME NEW k \in Kinds PROVE record[k].id \notin alive
  <2>1. mem[p][k].id = record[k].id /\ mem[p][k].status # "active" /\ mem[p] \in Resources
    BY <1>0, <1>1 DEF CopiesInv, OwnCopies, SameIds, IInv, LocalsInv
  <2>2. CASE mem[p][k].status = "none"
    BY <1>0, <2>1, <2>2, ResourceAssumptions DEF BlankInv, Blank, IInv, HostInv
  <2>3. CASE mem[p][k].status = "removed"
    BY <1>0, <2>1, <2>3 DEF IInv, DocsInv, Sound
  <2> QED
    BY <2>1, <2>2, <2>3 DEF Resources, Resource
<1> QED
  BY <1>2, <1>3 DEF Complete, FinalVerify, host, files

LEMMA NextKeepsRecovery ==
    RecoveryInv /\ [Next]_vars => RecoveryInv'
<1> SUFFICES ASSUME RecoveryInv, [Next]_vars PROVE RecoveryInv'
  OBVIOUS
<1> USE DEF RecoveryInv
<1>1. IInv' /\ CopiesInv'
  BY NextKeepsInv, CopiesStay
<1>2. BlankInv'
  BY StepMoves, MovesKeepBlank
<1>3. CompleteInv'
  <2>1. CASE \E p \in Procs : ResultStep(p)
    <3>1. PICK p \in Procs : ResultStep(p)
      BY <2>1
    <3>2. /\ result' \in [Procs -> Results]
          /\ \A q \in Cleaners : result'[q] = "complete" => result[q] = "complete"
      BY <3>1 DEF ResultStep, CompleteInv, Results, Procs
    <3> QED
      BY <3>2, CompleteStays DEF CompleteInv
  <2>2. CASE \E p \in Cleaners : FinalVerify(p)
    <3>1. result' \in [Procs -> Results]
      BY <2>2 DEF FinalVerify, CompleteInv, Results, Procs
    <3> QED
      BY <2>2, <3>1, VerifiedIsComplete DEF CompleteInv
  <2> QED
    BY <2>1, <2>2, ResultMoves
<1> QED
  BY <1>1, <1>2, <1>3

LEMMA InitIsRecovery ==
    Init => RecoveryInv
<1> SUFFICES ASSUME Init PROVE RecoveryInv
  OBVIOUS
<1>1. BlankInv
  BY DEF Init, BlankInv, Blank, NoRecord, NoResource, Kinds
<1>2. CopiesInv
  BY DEF Init, CopiesInv, OwnCopies, RecoveryLabels, SealSteps
<1>3. CompleteInv
  BY DEF Init, CompleteInv, Results, Procs
<1> QED
  BY <1>1, <1>2, <1>3, InitIsInv DEF RecoveryInv

\* `execution cleanup` reports completion only when no resource on record
\* exists, and what it has reported stays true, although other cleanups go
\* on loading, saving and restoring copies of the record.
THEOREM CompletionIsClean == Spec => []CompleteIsClean
<1>1. RecoveryInv => CompleteIsClean
  BY DEF RecoveryInv, CompleteInv, Complete, CompleteIsClean
<1>2. Spec => []RecoveryInv
  BY InitIsRecovery, NextKeepsRecovery, PTL DEF Spec
<1> QED
  BY <1>1, <1>2, PTL

-----------------------------------------------------------------------------
(* A run that cleaned up without an error.  Its own cleanup believes the    *)
(* list of clusters and the registry's name; the invariant says what makes  *)
(* that enough: the containers the run has identified keep their place, and *)
(* kind answers for the run's own provider as long as the run lasts.        *)

Gone(k) == handle[k] \notin alive

KeepsPlace == handle["kind"] \in alive => handle["kind"] \in cluster
SeesCluster == pc[Main] # "exited" => hidden = FALSE

EarlyInv ==
    /\ pc[Main] \in {"start_registry", "record_registry", "create_kind"} =>
           handle["kind"] = NoId
    /\ pc[Main] = "start_registry" => handle["registry"] = NoId

AfterCleanup == RecoveryLabels \cup {"close_manifest", "close_sums", "exited"}
HandledInv ==
    /\ pc[Main] \in {"destroy_registry", "recover"} /\ result[Main] # "error" => Gone("kind")
    /\ pc[Main] = "recover" /\ result[Main] # "error" => Gone("registry")
    /\ pc[Main] \in AfterCleanup /\ result[Main] = "none" => \A k \in Kinds : Gone(k)

ExitInv == RecoveryInv /\ KeepsPlace /\ SeesCluster /\ EarlyInv /\ HandledInv

\* A container keeps its place in the cluster for as long as it exists.
ClusterStep == cluster \cap alive' \subseteq cluster'

LEMMA ClusterStays ==
    ASSUME IInv, [Next]_vars
    PROVE  ClusterStep
<1> USE DEF ClusterStep, IInv, HostInv
<1>1. CASE RunStep
  BY <1>1
  DEF RunStep, StartRegistry, RecordRegistry, CreateKind, RecordKind, Record, FinishWork,
      DestroyKind, DeleteKind, DestroyRegistry, SkipRecovery, CloseManifest, CloseSums,
      Created, DeleteByName, RemoveById, host
<1>2. CASE \E p \in Procs : Recover(p)
  BY <1>2
  DEF Recover, Load, KindList, KindAbsent, KindVerify, KindDelete, KindConfirm,
      RegistryInspect, RegistryRemove, RegistryConfirm, SavePlain, SealVerify, SealRecord,
      SealEntries, SealManifest, SealInventory, SealSums, SealCheck, SealStep,
      DeleteByName, RemoveById, host
<1>3. CASE Other
  BY <1>3 DEF Other, OtherRemoves, OtherCreates, OtherRenames, OtherSwitchesProvider
<1>4. CASE UNCHANGED cluster
  BY <1>4
<1> QED
  BY <1>1, <1>2, <1>3, <1>4 DEF Next, Crash, FinalVerify, vars, host

LEMMA GoneStays ==
    ASSUME IInv, [Next]_vars, UNCHANGED handle, NEW k \in Kinds, Gone(k)
    PROVE  Gone(k)'
<1>1. HostKept
  BY StepMoves
<1> QED
  BY <1>1, ResourceAssumptions DEF HostKept, HostStep, HostInv, IInv, Gone

\* Whoever acts, what the run has identified stays as it is until the run
\* itself goes on.
LEMMA OthersLeaveMain ==
    ASSUME IInv, result \in [Procs -> Results], [Next]_vars,
           ~RunStep, ~Recover(Main), ~Crash(Main)
    PROVE  /\ UNCHANGED <<handle, pc[Main], result[Main]>>
           /\ hidden' = hidden \/ pc[Main] = "exited"
<1> USE ResourceAssumptions
<1>1. ASSUME NEW p \in Cleaners, Recover(p)
      PROVE  UNCHANGED <<handle, hidden, pc[Main], result[Main]>>
  <2>1. Moves(p) /\ ResultStep(p)
    BY <1>1, RecoverMoves, RecoverResult DEF Procs
  <2>2. UNCHANGED <<pc[Main], result[Main]>>
    BY <2>1 DEF Moves, PcStep, ResultStep, IInv, LocalsInv, Procs
  <2>3. UNCHANGED <<handle, hidden>>
    BY <1>1
    DEF Recover, Load, KindList, KindAbsent, KindVerify, KindDelete, KindConfirm,
        RegistryInspect, RegistryRemove, RegistryConfirm, SavePlain, SealVerify, SealRecord,
        SealEntries, SealManifest, SealInventory, SealSums, SealCheck, SealStep, SealFails,
        Fails, Forget, Confirmed, DeleteByName, RemoveById, host
  <2> QED
    BY <2>2, <2>3
<1>2. ASSUME NEW p \in Cleaners, Crash(p) \/ FinalVerify(p)
      PROVE  UNCHANGED <<handle, hidden, pc[Main], result[Main]>>
  BY <1>2 DEF Crash, FinalVerify, Forget, Goto, host, IInv, LocalsInv, Procs
<1>3. CASE Other
  BY <1>3 DEF Other, OtherRemoves, OtherCreates, OtherRenames, OtherSwitchesProvider, At, locals
<1>4. CASE UNCHANGED vars
  BY <1>4 DEF vars, locals, host
<1> QED
  BY <1>1, <1>2, <1>3, <1>4 DEF Next, Procs

LEMMA OthersKeepExit ==
    ASSUME ExitInv, [Next]_vars, ~RunStep, ~Recover(Main), ~Crash(Main)
    PROVE  KeepsPlace' /\ SeesCluster' /\ EarlyInv' /\ HandledInv'
<1> USE DEF ExitInv, RecoveryInv
<1>1. /\ UNCHANGED <<handle, pc[Main], result[Main]>>
      /\ hidden' = hidden \/ pc[Main] = "exited"
  BY OthersLeaveMain DEF CompleteInv
<1>2. \A k \in Kinds : Gone(k) => Gone(k)'
  BY <1>1, GoneStays
<1>3. KeepsPlace'
  <2>1. Gone("kind") => Gone("kind")'
    BY <1>2 DEF Kinds
  <2> QED
    BY <1>1, <2>1, ClusterStays DEF KeepsPlace, ClusterStep, Gone
<1>4. SeesCluster' /\ EarlyInv'
  BY <1>1 DEF SeesCluster, EarlyInv
<1>5. HandledInv'
  BY <1>1, <1>2 DEF HandledInv, Kinds
<1> QED
  BY <1>3, <1>4, <1>5

LEMMA OwnRecovery ==
    ASSUME IInv, result \in [Procs -> Results], Recover(Main)
    PROVE  /\ UNCHANGED <<handle, hidden>>
           /\ pc[Main] \in RecoveryLabels \cup {"recover"}
           /\ pc'[Main] \in RecoveryLabels \cup {"close_manifest"}
           /\ IF pc[Main] = "recover" THEN result[Main] # "error"
              ELSE result'[Main] = "none" => result[Main] = "none"
<1> USE ResourceAssumptions
<1>0. Main \in Procs /\ Main \notin Cleaners
  BY DEF Procs
<1>1. UNCHANGED <<handle, hidden>>
  BY DEF Recover, Load, KindList, KindAbsent, KindVerify, KindDelete, KindConfirm,
      RegistryInspect, RegistryRemove, RegistryConfirm, SavePlain, SealVerify, SealRecord,
      SealEntries, SealManifest, SealInventory, SealSums, SealCheck, SealStep, SealFails,
      Fails, Forget, Confirmed, DeleteByName, RemoveById, host
<1>2. CASE Load(Main)
  BY <1>0, <1>1, <1>2
  DEF Load, At, Goto, Fails, NextStep, IInv, LocalsInv, RecoveryLabels
<1>3. CASE ~Load(Main)
  <2>1. pc[Main] \in RecoveryLabels
    BY <1>3
    DEF Recover, KindList, KindAbsent, KindVerify, KindDelete, KindConfirm,
        RegistryInspect, RegistryRemove, RegistryConfirm, SavePlain, SealVerify, SealRecord,
        SealEntries, SealManifest, SealInventory, SealSums, SealCheck, SealStep, At,
        RecoveryLabels
  <2>2. pc'[Main] \in RecoveryLabels \cup {"close_manifest"}
    BY <1>0, <1>3
    DEF Recover, KindList, KindAbsent, KindVerify, KindDelete, KindConfirm,
        RegistryInspect, RegistryRemove, RegistryConfirm, SavePlain, SealVerify, SealRecord,
        SealEntries, SealManifest, SealInventory, SealSums, SealCheck, SealStep, SealFails,
        Fails, Confirmed, NextStep, Goto, IInv, LocalsInv, RecoveryLabels
  <2>3. result' \in {result, [result EXCEPT ![Main] = "error"]}
    BY <1>3
    DEF Recover, KindList, KindAbsent, KindVerify, KindDelete, KindConfirm,
        RegistryInspect, RegistryRemove, RegistryConfirm, SavePlain, SealVerify, SealRecord,
        SealEntries, SealManifest, SealInventory, SealSums, SealCheck, SealStep, SealFails,
        Fails, Confirmed
  <2>4. result'[Main] = "none" => result[Main] = "none"
    BY <1>0, <2>3
  <2> QED
    BY <1>1, <2>1, <2>2, <2>4 DEF RecoveryLabels
<1> QED
  BY <1>2, <1>3

\* What holds as long as the run's own identifications do not change.
LEMMA HandleKept ==
    ASSUME ExitInv, [Next]_vars, UNCHANGED handle
    PROVE  KeepsPlace' /\ \A k \in Kinds : Gone(k) => Gone(k)'
<1>1. \A k \in Kinds : Gone(k) => Gone(k)'
  BY GoneStays DEF ExitInv, RecoveryInv
<1>2. ClusterStep /\ (Gone("kind") => Gone("kind")')
  BY <1>1, ClusterStays DEF ExitInv, RecoveryInv, Kinds
<1> QED
  BY <1>1, <1>2 DEF ExitInv, KeepsPlace, ClusterStep, Gone

LEMMA MainKeepsExit ==
    ASSUME ExitInv, [Next]_vars, Recover(Main) \/ Crash(Main)
    PROVE  KeepsPlace' /\ SeesCluster' /\ EarlyInv' /\ HandledInv'
<1> USE DEF ExitInv, RecoveryInv
<1>0. Main \in Procs
  BY DEF Procs
<1>1. CASE Recover(Main)
  <2>1. /\ UNCHANGED <<handle, hidden>>
        /\ pc[Main] \in RecoveryLabels \cup {"recover"}
        /\ pc'[Main] \in RecoveryLabels \cup {"close_manifest"}
        /\ IF pc[Main] = "recover" THEN result[Main] # "error"
           ELSE result'[Main] = "none" => result[Main] = "none"
    BY <1>1, OwnRecovery DEF CompleteInv
  <2>2. KeepsPlace' /\ \A k \in Kinds : Gone(k) => Gone(k)'
    BY <2>1, HandleKept
  <2>3. result'[Main] = "none" => \A k \in Kinds : Gone(k)
    BY <2>1 DEF HandledInv, AfterCleanup, Kinds
  <2>4. SeesCluster' /\ EarlyInv'
    BY <2>1 DEF SeesCluster, EarlyInv, RecoveryLabels
  <2>5. HandledInv'
    BY <2>1, <2>2, <2>3 DEF HandledInv, RecoveryLabels
  <2> QED
    BY <2>2, <2>4, <2>5
<1>2. CASE Crash(Main)
  <2>1. UNCHANGED <<handle, hidden>> /\ pc'[Main] = "exited" /\ result'[Main] = "error"
    BY <1>0, <1>2 DEF Crash, Goto, Forget, host, CompleteInv, IInv, LocalsInv
  <2>2. KeepsPlace'
    BY <2>1, HandleKept
  <2> QED
    BY <2>1, <2>2 DEF SeesCluster, EarlyInv, HandledInv
<1> QED
  BY <1>1, <1>2

\* The run up to its own cleanup.
LEMMA CreationKeepsExit ==
    ASSUME ExitInv, [Next]_vars,
           StartRegistry \/ RecordRegistry \/ CreateKind \/ RecordKind
    PROVE  KeepsPlace' /\ SeesCluster' /\ EarlyInv' /\ HandledInv'
<1> USE ResourceAssumptions DEF ExitInv, RecoveryInv
<1>0. /\ Main \in Procs /\ handle \in [Kinds -> mine \cup {NoId}] /\ NoId \notin alive'
      /\ pc \in [Procs -> Labels] /\ result \in [Procs -> Results] /\ mine \subseteq used
      /\ alive \subseteq used
  BY StepMoves DEF Procs, IInv, HostInv, LocalsInv, CompleteInv, HostKept
<1>h. pc[Main] # "exited" => hidden = FALSE
  BY DEF SeesCluster
<1>k. handle["kind"] \in alive => handle["kind"] \in cluster
  BY DEF KeepsPlace
<1>1. CASE StartRegistry
  <2>1. /\ pc[Main] = "start_registry" /\ handle["kind"] = NoId /\ handle'["kind"] = NoId
        /\ pc'[Main] \in {"record_registry", "destroy_registry"} /\ UNCHANGED <<hidden, result>>
    BY <1>0, <1>1 DEF StartRegistry, Created, At, Goto, EarlyInv, Kinds
  <2> QED
    BY <1>0, <1>h, <2>1
    DEF KeepsPlace, SeesCluster, EarlyInv, HandledInv, AfterCleanup, RecoveryLabels, Gone
<1>2. CASE RecordRegistry
  <2>1. /\ pc[Main] = "record_registry" /\ handle["kind"] = NoId /\ UNCHANGED <<hidden, handle>>
        /\ pc'[Main] \in {"create_kind", "destroy_registry"}
    BY <1>0, <1>2 DEF RecordRegistry, Record, At, Goto, EarlyInv, host
  <2> QED
    BY <1>0, <1>h, <2>1
    DEF KeepsPlace, SeesCluster, EarlyInv, HandledInv, AfterCleanup, RecoveryLabels, Gone
<1>3. CASE CreateKind
  <2>1. /\ pc[Main] = "create_kind" /\ UNCHANGED hidden
        /\ pc'[Main] \in {"record_kind", "destroy_kind"}
    BY <1>0, <1>3 DEF CreateKind, Created, At, Goto
  <2>2. KeepsPlace'
    <3>1. CASE UNCHANGED handle
      BY <3>1, HandleKept
    <3>2. CASE \E i \in Ids : cluster' = {i} /\ handle' = [handle EXCEPT !["kind"] = i]
      BY <1>0, <3>2 DEF KeepsPlace, Kinds
    <3> QED
      BY <1>3, <3>1, <3>2 DEF CreateKind
  <2> QED
    BY <1>h, <2>1, <2>2 DEF SeesCluster, EarlyInv, HandledInv, AfterCleanup, RecoveryLabels
<1>4. CASE RecordKind
  <2>1. /\ pc[Main] = "record_kind" /\ UNCHANGED <<hidden, handle>>
        /\ pc'[Main] \in {"work", "destroy_kind"}
    BY <1>0, <1>4 DEF RecordKind, Record, At, Goto, host
  <2>2. KeepsPlace'
    BY <2>1, HandleKept
  <2> QED
    BY <1>h, <2>1, <2>2 DEF SeesCluster, EarlyInv, HandledInv, AfterCleanup, RecoveryLabels
<1> QED
  BY <1>1, <1>2, <1>3, <1>4

LEMMA RemovalKeepsExit ==
    ASSUME ExitInv, [Next]_vars,
           \/ FinishWork \/ DestroyKind \/ DeleteKind \/ DestroyRegistry \/ SkipRecovery
           \/ CloseManifest \/ CloseSums
    PROVE  KeepsPlace' /\ SeesCluster' /\ EarlyInv' /\ HandledInv'
<1> USE ResourceAssumptions DEF ExitInv, RecoveryInv
<1>0. /\ Main \in Procs /\ NoId \notin alive'
      /\ pc \in [Procs -> Labels] /\ result \in [Procs -> Results]
  BY StepMoves DEF Procs, IInv, LocalsInv, CompleteInv, HostKept, HostInv
<1>1. UNCHANGED <<hidden, handle>>
  BY DEF FinishWork, DestroyKind, DeleteKind, DestroyRegistry, SkipRecovery, CloseManifest,
      CloseSums, host, DeleteByName, RemoveById
<1>2. KeepsPlace' /\ \A k \in Kinds : Gone(k) => Gone(k)'
  BY <1>1, HandleKept
<1>3. /\ pc[Main] \notin {"exited"}
      /\ pc'[Main] \in {"destroy_kind", "delete_kind", "destroy_registry", "recover",
                        "close_manifest", "close_sums", "exited"}
  BY <1>0
  DEF FinishWork, DestroyKind, DeleteKind, DestroyRegistry, SkipRecovery, CloseManifest,
      CloseSums, At, Goto
<1>4. SeesCluster' /\ EarlyInv'
  BY <1>1, <1>3 DEF SeesCluster, EarlyInv
<1>k. "kind" \in Kinds /\ "registry" \in Kinds
  BY DEF Kinds
<1>5. HandledInv'
  <2>1. CASE FinishWork
    BY <1>0, <2>1 DEF FinishWork, At, Goto, HandledInv, AfterCleanup, RecoveryLabels
  <2>2. CASE DestroyKind
    <3>1. pc'[Main] \in {"delete_kind", "destroy_registry"} /\ hidden = FALSE
      BY <1>0, <2>2 DEF DestroyKind, At, Goto, SeesCluster
    <3>2. pc'[Main] = "destroy_registry" /\ result'[Main] # "error" => Gone("kind")
      BY <1>0, <2>2, <3>1 DEF DestroyKind, Goto, Listed, KeepsPlace, Gone
    <3> QED
      BY <1>2, <1>k, <3>1, <3>2 DEF HandledInv, AfterCleanup, RecoveryLabels
  <2>3. CASE DeleteKind
    <3>1. pc'[Main] = "destroy_registry" /\ hidden = FALSE
      BY <1>0, <2>3 DEF DeleteKind, At, Goto, SeesCluster
    <3>2. result'[Main] # "error" => Gone("kind")'
      BY <1>0, <1>1, <2>3, <3>1 DEF DeleteKind, DeleteByName, Listed, KeepsPlace, Gone
    <3> QED
      BY <3>1, <3>2 DEF HandledInv, AfterCleanup, RecoveryLabels
  <2>4. CASE DestroyRegistry
    <3>1. pc[Main] = "destroy_registry" /\ pc'[Main] = "recover"
      BY <1>0, <2>4 DEF DestroyRegistry, At, Goto
    <3>2. result'[Main] # "error" => result[Main] # "error" /\ Gone("registry")'
      BY <1>0, <1>1, <2>4 DEF DestroyRegistry, RemoveById, Gone
    <3> QED
      BY <1>2, <1>k, <3>1, <3>2 DEF HandledInv, AfterCleanup, RecoveryLabels
  <2>5. CASE SkipRecovery
    <3>1. pc[Main] = "recover" /\ pc'[Main] = "close_manifest" /\ UNCHANGED result
      BY <1>0, <2>5 DEF SkipRecovery, At, Goto
    <3> QED
      BY <1>2, <3>1 DEF HandledInv, Kinds
  <2>6. CASE CloseManifest \/ CloseSums
    <3>1. /\ pc[Main] \in AfterCleanup /\ pc'[Main] \in {"close_sums", "exited"}
          /\ UNCHANGED result
      BY <1>0, <2>6 DEF CloseManifest, CloseSums, At, Goto, AfterCleanup
    <3> QED
      BY <1>2, <3>1 DEF HandledInv
  <2> QED
    BY <2>1, <2>2, <2>3, <2>4, <2>5, <2>6
<1> QED
  BY <1>2, <1>4, <1>5

LEMMA NextKeepsExit ==
    ExitInv /\ [Next]_vars => ExitInv'
<1> SUFFICES ASSUME ExitInv, [Next]_vars PROVE ExitInv'
  OBVIOUS
<1>1. RecoveryInv'
  BY NextKeepsRecovery DEF ExitInv
<1>2. KeepsPlace' /\ SeesCluster' /\ EarlyInv' /\ HandledInv'
  BY OthersKeepExit, MainKeepsExit, CreationKeepsExit, RemovalKeepsExit DEF RunStep
<1> QED
  BY <1>1, <1>2 DEF ExitInv

LEMMA InitIsExit ==
    Init => ExitInv
<1> SUFFICES ASSUME Init PROVE ExitInv
  OBVIOUS
<1>1. KeepsPlace /\ SeesCluster /\ EarlyInv /\ HandledInv
  BY DEF Init, KeepsPlace, SeesCluster, EarlyInv, HandledInv, AfterCleanup, RecoveryLabels,
      Procs, Kinds
<1> QED
  BY <1>1, InitIsRecovery DEF ExitInv

\* A run that ended without an error in its cleanup has left none of the
\* containers it had identified, although that cleanup goes by the list of
\* clusters and by the registry's name while others rename and remove
\* containers and take the names that are free.
THEOREM CleanExitIsClean == Spec => []CleanExitLeavesNothing
<1>1. ExitInv => CleanExitLeavesNothing
  BY DEF ExitInv, HandledInv, AfterCleanup, Gone, CleanExitLeavesNothing, At
<1>2. Spec => []ExitInv
  BY InitIsExit, NextKeepsExit, PTL DEF Spec
<1> QED
  BY <1>1, <1>2, PTL
=============================================================================
