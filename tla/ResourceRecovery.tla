-------------------------- MODULE ResourceRecovery --------------------------
(***************************************************************************)
(* The two external resources of a run, a registry container and a kind    *)
(* cluster of one node, from creation to removal, and the record that lets *)
(* another process remove them (resource_recovery.py, its client execute() *)
(* in execution.py and the command `execution cleanup` in cli.py).         *)
(*                                                                         *)
(* Docker identifies a container by an ID it never gives twice and by a    *)
(* name that somebody else may hold next; kind identifies a cluster by its *)
(* name alone.  Any command may fail before or after its effect, any write *)
(* may fail, and a process may die between any two steps.  Other users of  *)
(* the host remove, rename and create containers of their own.             *)
(***************************************************************************)
EXTENDS Naturals

CONSTANTS
    Ids,                \* immutable container IDs
    NoId,               \* "no container"
    Main,               \* the process that executes the run
    Cleaners,           \* the `execution cleanup` processes
    MaxFaults,          \* bound on failed commands, failed writes and crashes
    MaxMeddling,        \* bound on the steps of other users of the host
    SharedClusterName   \* whether others may create a cluster of that name

ASSUME ResourceAssumptions ==
    /\ NoId \notin Ids
    /\ Main \notin Cleaners
    /\ MaxFaults \in Nat
    /\ MaxMeddling \in Nat
    /\ SharedClusterName \in BOOLEAN

VARIABLES
    mine,       \* IDs of the containers the run has created
    used,       \* IDs Docker has given out
    alive,      \* IDs of the containers that exist
    regName,    \* the container that holds the registry's name
    cluster,    \* the nodes of the cluster that has the run's cluster name
    hidden,     \* kind answers from a provider that lacks this cluster
    record,     \* resources.json
    manifest,   \* what checksums.json holds the digest of
    sums,       \* what SHA256SUMS holds the digests of
    pc,         \* the next step of each process
    mem,        \* the resources each process has loaded
    sealed,     \* whether SHA256SUMS existed when they were loaded
    prev,       \* the record each process puts back if a reseal fails
    undoing,    \* whether the reseal has failed and puts it back
    digest,     \* the seal each process has computed and not yet written
    handle,     \* the IDs whose ownership Main has established itself
    result,     \* how the last operation of each process ended
    removed,    \* IDs of the containers the processes have removed
    faults, meddling

host == <<mine, used, alive, regName, cluster, hidden>>
files == <<record, manifest, sums>>
reseal == <<undoing, digest>>
locals == <<pc, mem, sealed, prev, reseal, handle, result>>
vars == <<host, files, locals, removed, faults, meddling>>

Procs == {Main} \cup Cleaners
Kinds == {"kind", "registry"}

Resource == [id : Ids \cup {NoId}, status : {"none", "active", "removed"}]
Resources == [Kinds -> Resource]

NoResource == [id |-> NoId, status |-> "none"]
NoRecord == [k \in Kinds |-> NoResource]    \* resources.json is missing
Active(i) == [id |-> i, status |-> "active"]

\* checksums.json or SHA256SUMS is missing.
Unsealed == <<>>

\* The seals _write_seals computes from the files as they are.
ManifestOf(resources) == <<resources>>
SumsOf(resources, checksums) == <<resources, checksums>>

\* verify_checksums and verify_evidence_bundle accept the directory.
SealValid ==
    /\ manifest = ManifestOf(record)
    /\ sums = SumsOf(record, manifest)

\* What `kind get clusters` and `kind get nodes` answer for the run's name.
Listed == IF hidden THEN {} ELSE cluster

\* Updated resources: one of them is gone.
MarkRemoved(resources, k) == [resources EXCEPT ![k].status = "removed"]

-----------------------------------------------------------------------------
Init ==
    /\ mine = {} /\ used = {} /\ alive = {}
    /\ regName = NoId
    /\ cluster = {}
    /\ hidden = FALSE
    /\ record = NoRecord
    /\ manifest = Unsealed
    /\ sums = Unsealed
    /\ pc = [p \in Procs |-> IF p = Main THEN "start_registry" ELSE "idle"]
    /\ mem = [p \in Procs |-> NoRecord]
    /\ sealed = [p \in Procs |-> FALSE]
    /\ prev = [p \in Procs |-> NoRecord]
    /\ undoing = [p \in Procs |-> FALSE]
    /\ digest = [p \in Procs |-> Unsealed]
    /\ handle = [k \in Kinds |-> NoId]
    /\ result = [p \in Procs |-> "none"]
    /\ removed = {}
    /\ faults = 0 /\ meddling = 0

At(p, label) == pc[p] = label
Goto(p, label) == pc' = [pc EXCEPT ![p] = label]

\* A command or a write goes wrong; the bound keeps the faults finite.
Fault == faults < MaxFaults /\ faults' = faults + 1
NoFault == UNCHANGED faults

\* The locals of a reseal, and those of a cleanup, are gone when it ends.
ForgetReseal(p) ==
    /\ prev' = [prev EXCEPT ![p] = NoRecord]
    /\ undoing' = [undoing EXCEPT ![p] = FALSE]
    /\ digest' = [digest EXCEPT ![p] = Unsealed]

Forget(p) ==
    /\ mem' = [mem EXCEPT ![p] = NoRecord]
    /\ sealed' = [sealed EXCEPT ![p] = FALSE]
    /\ ForgetReseal(p)
    /\ UNCHANGED handle

\* An exception ends the cleanup; execute() notes it and closes the bundle.
Fails(p) ==
    /\ Goto(p, IF p = Main THEN "close_manifest" ELSE "idle")
    /\ result' = [result EXCEPT ![p] = "error"]
    /\ Forget(p)

\* Faulty variant: the cleanup returns once the cluster is removed.
NextStepOneOnly(p, resources) ==
    IF resources["kind"].status = "active" THEN "kind_list"
    ELSE IF /\ resources["registry"].status = "active"
            /\ resources["kind"].status = "none"
         THEN "registry_inspect"
    ELSE IF p = Main THEN "close_manifest" ELSE "final_verify"

\* cleanup() goes on with the first resource that is still active.
NextStep(p, resources) ==
    IF resources["kind"].status = "active" THEN "kind_list"
    ELSE IF resources["registry"].status = "active" THEN "registry_inspect"
    ELSE IF p = Main THEN "close_manifest" ELSE "final_verify"

-----------------------------------------------------------------------------
(* The run creates and records its resources. *)

\* A new container of the run exists.
Created(i) ==
    /\ i \in Ids \ used
    /\ used' = used \cup {i}
    /\ mine' = mine \cup {i}
    /\ alive' = alive \cup {i}
    /\ UNCHANGED hidden

\* registry.start(): a `docker run` that raises after its effect leaves a
\* container whose identity the object never established.
StartRegistry ==
    /\ At(Main, "start_registry")
    /\ \/ \E i \in Ids :
             /\ regName = NoId
             /\ Created(i)
             /\ regName' = i
             /\ \/ /\ handle' = [handle EXCEPT !["registry"] = i]
                   /\ Goto(Main, "record_registry")
                   /\ NoFault
                \/ /\ Goto(Main, "destroy_registry")
                   /\ UNCHANGED handle
                   /\ Fault
       \/ /\ \/ regName # NoId /\ NoFault
             \/ Fault
          /\ Goto(Main, "destroy_registry")
          /\ UNCHANGED <<mine, used, alive, hidden, regName, handle>>
    /\ UNCHANGED <<cluster, files, mem, sealed, prev, reseal, result, removed,
                   meddling>>

\* cluster.create() has --retain: a create that fails after its effect
\* leaves a cluster whose node was never identified.
CreateKind ==
    /\ At(Main, "create_kind")
    /\ \/ \E i \in Ids :
             /\ cluster = {}
             /\ Created(i)
             /\ cluster' = {i}
             /\ \/ /\ handle' = [handle EXCEPT !["kind"] = i]
                   /\ Goto(Main, "record_kind")
                   /\ NoFault
                \/ /\ Goto(Main, "destroy_kind")
                   /\ UNCHANGED handle
                   /\ Fault
       \/ /\ \/ cluster # {} /\ NoFault
             \/ Fault
          /\ Goto(Main, "destroy_kind")
          /\ UNCHANGED <<mine, used, alive, hidden, cluster, handle>>
    /\ UNCHANGED <<regName, files, mem, sealed, prev, reseal, result, removed,
                   meddling>>

\* record_registry and record_kind: load, add one resource, save.  The
\* identity of a resource that is recorded already is never replaced.
Record(k, label, next, otherwise) ==
    /\ At(Main, label)
    /\ \/ /\ sums = Unsealed
          /\ record[k] \in {NoResource, Active(handle[k])}
          /\ record' = [record EXCEPT ![k] = Active(handle[k])]
          /\ Goto(Main, next)
          /\ NoFault
       \/ /\ Fault
          /\ Goto(Main, otherwise)
          /\ UNCHANGED record
    /\ UNCHANGED <<host, manifest, sums, mem, sealed, prev, reseal, handle,
                   result, removed,
                   meddling>>

RecordRegistry ==
    Record("registry", "record_registry", "create_kind", "destroy_registry")
RecordKind ==
    Record("kind", "record_kind", "work", "destroy_kind")

\* The deployment ends; the operator may have asked to keep the resources.
FinishWork ==
    /\ At(Main, "work")
    /\ \/ Goto(Main, "destroy_kind") /\ UNCHANGED result
       \/ /\ Goto(Main, "close_manifest")
          /\ result' = [result EXCEPT ![Main] = "retained"]
    /\ UNCHANGED <<host, files, mem, sealed, prev, reseal, handle, removed,
                   faults, meddling>>

-----------------------------------------------------------------------------
(* The run's own cleanup, before the record is consulted. *)

\* cluster.destroy(): list, and verify the node that was identified.
DestroyKind ==
    /\ At(Main, "destroy_kind")
    /\ \/ /\ Listed = {}
          /\ Goto(Main, "destroy_registry")
          /\ UNCHANGED result
          /\ NoFault
       \/ /\ Listed # {}
          /\ Listed = {handle["kind"]}
          /\ Goto(Main, "delete_kind")
          /\ UNCHANGED result
          /\ NoFault
       \/ /\ \/ Listed # {} /\ Listed # {handle["kind"]} /\ NoFault
             \/ Fault
          /\ Goto(Main, "destroy_registry")
          /\ result' = [result EXCEPT ![Main] = "error"]
    /\ UNCHANGED <<host, files, mem, sealed, prev, reseal, handle, removed,
                   meddling>>

\* `kind delete cluster --name` removes whatever has the name now.
DeleteByName ==
    /\ alive' = alive \ Listed
    /\ removed' = removed \cup (alive \cap Listed)
    /\ cluster' = cluster \ Listed
    /\ UNCHANGED <<mine, used, regName, hidden>>

DeleteKind ==
    /\ At(Main, "delete_kind")
    /\ Goto(Main, "destroy_registry")
    /\ \/ /\ DeleteByName
          /\ UNCHANGED result
          /\ NoFault
       \/ /\ \/ DeleteByName
             \/ UNCHANGED <<host, removed>>
          /\ result' = [result EXCEPT ![Main] = "error"]
          /\ Fault
    /\ UNCHANGED <<files, mem, sealed, prev, reseal, handle, meddling>>

\* `docker rm --force` of an immutable ID.
RemoveById(i) ==
    /\ alive' = alive \ {i}
    /\ removed' = removed \cup (alive \cap {i})
    /\ regName' = IF regName = i THEN NoId ELSE regName
    /\ cluster' = cluster \ {i}
    /\ UNCHANGED <<mine, used, hidden>>

\* Faulty variant: a registry missing under its name counts as removed.
DestroyRegistryByName ==
    /\ At(Main, "destroy_registry")
    /\ Goto(Main, "recover")
    /\ IF regName \in mine THEN RemoveById(regName) ELSE UNCHANGED <<host,
                                                                     removed>>
    /\ UNCHANGED <<files, mem, sealed, prev, reseal, handle, result, faults,
                   meddling>>

\* registry.logs() and registry.cleanup(): a container of the run that the
\* object has not established as started may be left alone, a missing one
\* fails the logs, and somebody else's container under the name fails both.
DestroyRegistry ==
    /\ At(Main, "destroy_registry")
    /\ Goto(Main, "recover")
    /\ LET owned == /\ regName \in mine
                    /\ handle["registry"] \in {NoId, regName}
       IN \/ /\ owned
             /\ \/ RemoveById(regName)
                \/ handle["registry"] = NoId /\ UNCHANGED <<host, removed>>
             /\ UNCHANGED result
             /\ NoFault
          \/ /\ ~owned
             /\ result' = [result EXCEPT ![Main] = "error"]
             /\ UNCHANGED <<host, removed>>
             /\ NoFault
          \/ /\ \/ owned /\ RemoveById(regName)
                \/ UNCHANGED <<host, removed>>
             /\ result' = [result EXCEPT ![Main] = "error"]
             /\ Fault
    /\ UNCHANGED <<files, mem, sealed, prev, reseal, handle, meddling>>

\* The record is only updated after a cleanup without failures.
SkipRecovery ==
    /\ At(Main, "recover")
    /\ record = NoRecord \/ result[Main] = "error"
    /\ Goto(Main, "close_manifest")
    /\ UNCHANGED <<host, files, mem, sealed, prev, reseal, handle, result,
                   removed, faults,
                   meddling>>

-----------------------------------------------------------------------------
(* ResourceRecoveryStore.cleanup(), in either process. *)

\* _load: the seals, if there are any, and the record.
Load(p) ==
    /\ \/ p = Main /\ At(p, "recover") /\ record # NoRecord /\ result[p] # "error"
       \/ p \in Cleaners /\ At(p, "idle") /\ At(Main, "exited")
    /\ \/ /\ sums = Unsealed \/ SealValid
          /\ record # NoRecord
          /\ mem' = [mem EXCEPT ![p] = record]
          /\ sealed' = [sealed EXCEPT ![p] = sums # Unsealed]
          /\ Goto(p, NextStep(p, record))
          /\ result' = [result EXCEPT ![p] = "none"]
          /\ UNCHANGED <<prev, reseal, handle>>
          /\ NoFault
       \/ /\ \/ sums # Unsealed /\ ~SealValid /\ NoFault
             \/ record = NoRecord /\ NoFault
             \/ Fault
          /\ Fails(p)
    /\ UNCHANGED <<host, files, removed, meddling>>

KindList(p) ==
    /\ At(p, "kind_list")
    /\ \/ /\ Goto(p, IF Listed = {} THEN "kind_absent" ELSE "kind_verify")
          /\ UNCHANGED <<mem, sealed, prev, reseal, handle, result>>
          /\ NoFault
       \/ Fails(p) /\ Fault
    /\ UNCHANGED <<host, files, removed, meddling>>

\* The resource is confirmed absent: the update is the next thing to save.
Confirmed(p, k) ==
    /\ mem' = [mem EXCEPT ![p] = MarkRemoved(mem[p], k)]
    /\ Goto(p, "save")
    /\ UNCHANGED <<sealed, prev, reseal, handle, result>>

\* Faulty variant: a cluster that is gone already is an error.
KindAbsentRefused(p) ==
    /\ At(p, "kind_absent")
    /\ Fails(p)
    /\ UNCHANGED <<host, files, removed, faults, meddling>>

\* The cluster is not listed: its node must not exist either.
KindAbsent(p) ==
    /\ At(p, "kind_absent")
    /\ \/ /\ mem[p]["kind"].id \notin alive
          /\ Confirmed(p, "kind")
          /\ NoFault
       \/ /\ \/ mem[p]["kind"].id \in alive /\ NoFault
             \/ Fault
          /\ Fails(p)
    /\ UNCHANGED <<host, files, removed, meddling>>

\* The listed node is the recorded one, by name, ID, labels and image.
KindVerify(p) ==
    /\ At(p, "kind_verify")
    /\ \/ /\ Listed = {mem[p]["kind"].id}
          /\ Goto(p, "kind_delete")
          /\ UNCHANGED <<mem, sealed, prev, reseal, handle, result>>
          /\ NoFault
       \/ /\ \/ Listed # {mem[p]["kind"].id} /\ NoFault
             \/ Fault
          /\ Fails(p)
    /\ UNCHANGED <<host, files, removed, meddling>>

KindDelete(p) ==
    /\ At(p, "kind_delete")
    /\ \/ /\ DeleteByName
          /\ Goto(p, "kind_confirm")
          /\ UNCHANGED <<mem, sealed, prev, reseal, handle, result>>
          /\ NoFault
       \/ /\ \/ DeleteByName
             \/ UNCHANGED <<host, removed>>
          /\ Fails(p)
          /\ Fault
    /\ UNCHANGED <<files, meddling>>

KindConfirm(p) ==
    /\ At(p, "kind_confirm")
    /\ \/ /\ Listed = {}
          /\ mem[p]["kind"].id \notin alive
          /\ Confirmed(p, "kind")
          /\ NoFault
       \/ /\ \/ Listed # {} /\ NoFault
             \/ mem[p]["kind"].id \in alive /\ NoFault
             \/ Fault
          /\ Fails(p)
    /\ UNCHANGED <<host, files, removed, meddling>>

\* Faulty variant: a free name is taken as the absence of the container.
RegistryInspectByName(p) ==
    /\ At(p, "registry_inspect")
    /\ \/ regName = NoId /\ Confirmed(p, "registry")
       \/ /\ regName = mem[p]["registry"].id
          /\ Goto(p, "registry_remove")
          /\ UNCHANGED <<mem, sealed, prev, reseal, handle, result>>
       \/ regName \notin {NoId, mem[p]["registry"].id} /\ Fails(p)
    /\ UNCHANGED <<host, files, removed, faults, meddling>>

\* The container under the registry's name must be the recorded one; if the
\* name is free the recorded ID must not exist under another name.
RegistryInspect(p) ==
    /\ At(p, "registry_inspect")
    /\ \/ /\ regName = NoId
          /\ mem[p]["registry"].id \notin alive
          /\ Confirmed(p, "registry")
          /\ NoFault
       \/ /\ regName = mem[p]["registry"].id
          /\ Goto(p, "registry_remove")
          /\ UNCHANGED <<mem, sealed, prev, reseal, handle, result>>
          /\ NoFault
       \/ /\ \/ regName = NoId /\ mem[p]["registry"].id \in alive /\ NoFault
             \/ regName \notin {NoId, mem[p]["registry"].id} /\ NoFault
             \/ Fault
          /\ Fails(p)
    /\ UNCHANGED <<host, files, removed, meddling>>

\* Faulty variant: the removal uses the name that was inspected.
RegistryRemoveByName(p) ==
    /\ At(p, "registry_remove")
    /\ RemoveById(regName)
    /\ Goto(p, "registry_confirm")
    /\ UNCHANGED <<files, mem, sealed, prev, reseal, handle, result, faults,
                   meddling>>

\* Docker may or may not call the removal of a missing container an error.
RegistryRemove(p) ==
    /\ At(p, "registry_remove")
    /\ \/ /\ RemoveById(mem[p]["registry"].id)
          /\ Goto(p, "registry_confirm")
          /\ UNCHANGED <<mem, sealed, prev, reseal, handle, result>>
          /\ NoFault
       \/ /\ mem[p]["registry"].id \notin alive
          /\ UNCHANGED <<host, removed>>
          /\ Fails(p)
          /\ NoFault
       \/ /\ \/ RemoveById(mem[p]["registry"].id)
             \/ UNCHANGED <<host, removed>>
          /\ Fails(p)
          /\ Fault
    /\ UNCHANGED <<files, meddling>>

RegistryConfirm(p) ==
    /\ At(p, "registry_confirm")
    /\ \/ /\ regName = NoId
          /\ mem[p]["registry"].id \notin alive
          /\ Confirmed(p, "registry")
          /\ NoFault
       \/ /\ \/ regName # NoId /\ NoFault
             \/ mem[p]["registry"].id \in alive /\ NoFault
             \/ Fault
          /\ Fails(p)
    /\ UNCHANGED <<host, files, removed, meddling>>

-----------------------------------------------------------------------------
(* _save: a plain write, or the reseal of a closed bundle.  A record under  *)
(* SHA256SUMS alone does not occur: only runs that close a bundle keep one, *)
(* and they write checksums.json first.                                     *)

SavePlain(p) ==
    /\ At(p, "save")
    /\ ~(sealed[p] /\ manifest # Unsealed)
    /\ \/ /\ record' = mem[p]
          /\ Goto(p, NextStep(p, mem[p]))
          /\ UNCHANGED <<mem, sealed, prev, reseal, handle, result>>
          /\ NoFault
       \/ /\ Fault
          /\ Fails(p)
          /\ UNCHANGED record
    /\ UNCHANGED <<host, manifest, sums, removed, meddling>>

\* update_sealed_resource_record verifies the bundle and reads the record
\* it would put back.
SealVerify(p) ==
    /\ At(p, "save")
    /\ sealed[p] /\ manifest # Unsealed
    /\ \/ /\ SealValid
          /\ prev' = [prev EXCEPT ![p] = record]
          /\ Goto(p, "seal_record")
          /\ UNCHANGED <<mem, sealed, reseal, handle, result>>
          /\ NoFault
       \/ /\ \/ ~SealValid /\ NoFault
             \/ Fault
          /\ Fails(p)
    /\ UNCHANGED <<host, files, removed, meddling>>

\* An error while the new record is sealed calls for the old one; an error
\* while the old one is sealed is ignored and the first one raised.
SealFails(p) ==
    IF undoing[p] THEN Fails(p)
    ELSE /\ undoing' = [undoing EXCEPT ![p] = TRUE]
         /\ Goto(p, "seal_record")
         /\ UNCHANGED <<mem, sealed, prev, digest, handle, result>>

SealStep(p, label, next, step) ==
    /\ At(p, label)
    /\ \/ /\ step
          /\ Goto(p, next)
          /\ UNCHANGED <<mem, sealed, prev, undoing, handle, result>>
          /\ NoFault
       \/ SealFails(p) /\ UNCHANGED files /\ Fault
    /\ UNCHANGED <<host, removed, meddling>>

SealRecord(p) ==
    SealStep(p, "seal_record", "seal_entries",
             /\ record' = IF undoing[p] THEN prev[p] ELSE mem[p]
             /\ UNCHANGED <<manifest, sums, digest>>)

SealEntries(p) ==
    SealStep(p, "seal_entries", "seal_manifest",
             /\ digest' = [digest EXCEPT ![p] = ManifestOf(record)]
             /\ UNCHANGED files)

SealManifest(p) ==
    SealStep(p, "seal_manifest", "seal_inventory",
             /\ manifest' = digest[p]
             /\ UNCHANGED <<record, sums, digest>>)

SealInventory(p) ==
    SealStep(p, "seal_inventory", "seal_sums",
             /\ digest' = [digest EXCEPT ![p] = SumsOf(record, manifest)]
             /\ UNCHANGED files)

SealSums(p) ==
    /\ At(p, "seal_sums")
    /\ \/ /\ sums' = digest[p]
          /\ IF undoing[p] THEN Fails(p)
             ELSE /\ Goto(p, "seal_check")
                  /\ UNCHANGED <<mem, sealed, prev, reseal, handle, result>>
          /\ NoFault
       \/ SealFails(p) /\ UNCHANGED sums /\ Fault
    /\ UNCHANGED <<host, record, manifest, removed, meddling>>

\* The rewritten bundle is verified as a whole before the next resource.
SealCheck(p) ==
    /\ At(p, "seal_check")
    /\ \/ /\ SealValid
          /\ Goto(p, NextStep(p, mem[p]))
          /\ UNCHANGED <<mem, sealed, prev, reseal, handle, result>>
          /\ NoFault
       \/ /\ \/ ~SealValid /\ NoFault
             \/ Fault
          /\ SealFails(p)
    /\ UNCHANGED <<host, files, removed, meddling>>

-----------------------------------------------------------------------------
(* The ends of the two processes. *)

\* assemble_evidence_bundle writes the seals of a bundle it accepts.
CloseManifest ==
    /\ At(Main, "close_manifest")
    /\ \/ manifest' = ManifestOf(record) /\ Goto(Main, "close_sums")
       \/ UNCHANGED manifest /\ Goto(Main, "exited")
    /\ UNCHANGED <<host, record, sums, mem, sealed, prev, reseal, handle,
                   result, removed,
                   faults, meddling>>

CloseSums ==
    /\ At(Main, "close_sums")
    /\ Goto(Main, "exited")
    /\ sums' = SumsOf(record, manifest)
    /\ UNCHANGED <<host, record, manifest, mem, sealed, prev, reseal, handle,
                   result, removed,
                   faults, meddling>>

\* `execution cleanup` verifies the bundle before it reports.
FinalVerify(p) ==
    /\ At(p, "final_verify")
    /\ Goto(p, "idle")
    /\ result' = [result EXCEPT ![p] = IF SealValid THEN "complete" ELSE "error"]
    /\ Forget(p)
    /\ UNCHANGED <<host, files, removed, faults, meddling>>

\* A process is killed.
Crash(p) ==
    /\ pc[p] \notin {"idle", "exited"}
    /\ Fault
    /\ Goto(p, IF p = Main THEN "exited" ELSE "idle")
    /\ result' = [result EXCEPT ![p] = "error"]
    /\ Forget(p)
    /\ UNCHANGED <<host, files, removed, meddling>>

-----------------------------------------------------------------------------
(* Other users of the host. *)

Meddle == meddling < MaxMeddling /\ meddling' = meddling + 1

\* Somebody removes a container, whosever it is.
OtherRemoves(i) ==
    /\ i \in alive
    /\ alive' = alive \ {i}
    /\ regName' = IF regName = i THEN NoId ELSE regName
    /\ cluster' = cluster \ {i}
    /\ UNCHANGED <<mine, used, hidden>>

\* Somebody renames the container that holds the registry's name.
OtherRenames ==
    /\ regName # NoId
    /\ regName' = NoId
    /\ UNCHANGED <<mine, used, alive, cluster, hidden>>

\* Somebody takes a free name for a container of their own.
OtherCreates(i) ==
    /\ i \in Ids \ used
    /\ used' = used \cup {i}
    /\ alive' = alive \cup {i}
    /\ \/ /\ regName = NoId
          /\ regName' = i
          /\ UNCHANGED cluster
       \/ /\ SharedClusterName
          /\ cluster = {}
          /\ cluster' = {i}
          /\ UNCHANGED regName
    /\ UNCHANGED <<mine, hidden>>

\* The cleanup runs with kind pointed at another provider than the run did.
OtherSwitchesProvider ==
    /\ At(Main, "exited")
    /\ hidden' = ~hidden
    /\ UNCHANGED <<mine, used, alive, regName, cluster>>

Other ==
    /\ Meddle
    /\ \/ \E i \in Ids : OtherRemoves(i) \/ OtherCreates(i)
       \/ OtherRenames
       \/ OtherSwitchesProvider
    /\ UNCHANGED <<files, locals, removed, faults>>

-----------------------------------------------------------------------------
Recover(p) ==
    \/ Load(p)
    \/ KindList(p) \/ KindAbsent(p) \/ KindVerify(p) \/ KindDelete(p) \/ KindConfirm(p)
    \/ RegistryInspect(p) \/ RegistryRemove(p) \/ RegistryConfirm(p)
    \/ SavePlain(p) \/ SealVerify(p)
    \/ SealRecord(p) \/ SealEntries(p) \/ SealManifest(p)
    \/ SealInventory(p) \/ SealSums(p) \/ SealCheck(p)

RunStep ==
    \/ StartRegistry \/ RecordRegistry \/ CreateKind \/ RecordKind \/ FinishWork
    \/ DestroyKind \/ DeleteKind \/ DestroyRegistry \/ SkipRecovery
    \/ CloseManifest \/ CloseSums

Next ==
    \/ RunStep
    \/ \E p \in Procs : Recover(p) \/ Crash(p)
    \/ \E p \in Cleaners : FinalVerify(p)
    \/ Other

Spec == Init /\ [][Next]_vars

\* Commands have time limits and an operator repeats an interrupted cleanup;
\* nothing makes a fault or another user act.
Fairness ==
    /\ WF_vars(RunStep \/ Recover(Main))
    /\ \A p \in Cleaners : WF_vars(Recover(p) \/ FinalVerify(p))

FairSpec == Spec /\ Fairness

-----------------------------------------------------------------------------
RunLabels ==
    {"start_registry", "record_registry", "create_kind", "record_kind", "work",
     "destroy_kind", "delete_kind", "destroy_registry", "recover",
     "close_manifest", "close_sums", "exited"}
RecoveryLabels ==
    {"kind_list", "kind_absent", "kind_verify", "kind_delete", "kind_confirm",
     "registry_inspect", "registry_remove", "registry_confirm", "save",
     "seal_record", "seal_entries", "seal_manifest", "seal_inventory",
     "seal_sums", "seal_check"}
CleanerLabels == {"idle", "final_verify"}

Manifests == {Unsealed} \cup [1..1 -> Resources]

\* The values the variables range over.
TypeOK ==
    /\ mine \subseteq used /\ used \subseteq Ids /\ alive \subseteq used
    /\ regName \in alive \cup {NoId}
    /\ cluster \subseteq alive
    /\ hidden \in BOOLEAN
    /\ record \in Resources
    /\ manifest \in Manifests
    /\ sums = Unsealed \/ sums \in Resources \X Manifests
    /\ pc \in [Procs -> RunLabels \cup RecoveryLabels \cup CleanerLabels]
    /\ mem \in [Procs -> Resources]
    /\ sealed \in [Procs -> BOOLEAN]
    /\ prev \in [Procs -> Resources]
    /\ undoing \in [Procs -> BOOLEAN]
    /\ \A p \in Procs : digest[p] \in Manifests \/ digest[p] \in Resources \X Manifests
    /\ handle \in [Kinds -> Ids \cup {NoId}]
    /\ result \in [Procs -> {"none", "retained", "error", "complete"}]
    /\ removed \subseteq used
    /\ faults \in 0..MaxFaults
    /\ meddling \in 0..MaxMeddling

\* A resource the record calls removed does not exist, under whatever name
\* and whichever provider kind was asked about: a later cleanup skips it.
RemovedIsGone ==
    \A k \in Kinds : record[k].status = "removed" => record[k].id \notin alive

\* The record never gives up the registry while it still owes the cluster,
\* which pulls from it: a failure between the two leaves the cluster first
\* in line for the next cleanup.
RegistryOutlivesCluster ==
    record["registry"].status = "removed" => record["kind"].status # "active"

\* No step of a run or of a cleanup removes somebody else's container,
\* whatever names they take while the commands run.
OnlyRunContainersRemoved == removed \subseteq mine

\* When a cleanup reports completion nothing that is on record exists.
CompleteIsClean ==
    \A p \in Cleaners, k \in Kinds :
        result[p] = "complete" => record[k].id \notin alive

\* A run that cleaned up without an error has left none of the containers
\* whose identity it had established, recorded or not.
CleanExitLeavesNothing ==
    At(Main, "exited") /\ result[Main] = "none" =>
        \A k \in Kinds : handle[k] \notin alive

\* The steps of a reseal between its first write and its verification.
Resealing ==
    \E p \in Procs : pc[p] \in {"seal_record", "seal_entries", "seal_manifest",
                              "seal_inventory", "seal_sums", "seal_check"}
SealBroken == sums # Unsealed /\ ~SealValid /\ ~Resealing

\* Repeating the cleanup converges whatever commands and writes fail, before
\* or after their effect: every resource on record is removed in the end,
\* unless a failure inside a reseal has broken the seal.  Others on the host
\* can keep it from that, for instance by renaming a container.
EventuallyClean ==
    (At(Main, "exited") /\ record # NoRecord)
        ~> (SealBroken \/ meddling > 0 \/ \A k \in Kinds : record[k].status # "active")

\* Documented: `execution cleanup` recovers "after interruption by removing
\* only exact sealed resource IDs"; so an interruption, its own included,
\* leaves a directory it can load.
CleanupCanBeRepeated == ~SealBroken

\* Documented: "if interruption prevents canonical closure [...] use the
\* persisted recovery record for exact cleanup"; so a cleanup that has
\* removed everything succeeds for a bundle that was never closed.
UnclosedRunCanBeCleaned == \A p \in Cleaners : At(p, "final_verify") => SealValid
=============================================================================
