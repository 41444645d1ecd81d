--------------------------- MODULE ClusterLifecycle ---------------------------
(***************************************************************************)
(* The commands `cluster kind create` and `cluster kind destroy` (cli.py)  *)
(* and the two objects they drive, EphemeralRegistry (registry.py) and     *)
(* KindCluster (kind_cluster.py), command by command.  create runs once,   *)
(* in a directory of its own, and hands its resources over to a later      *)
(* process through two ownership records under SHA256SUMS; destroy reopens *)
(* both resources, verifies their identity and removes them.               *)
(*                                                                         *)
(* Any command may fail before or after its effect, any write may fail,    *)
(* and a process may die anywhere.  Others stop, restart, rename and       *)
(* remove containers, and take the name of the registry when it is free.   *)
(* An interrupt in start, which catches RegistryError only, ends create    *)
(* like a death does.  The private kubeconfig and `status` are left out.   *)
(***************************************************************************)
EXTENDS Naturals

CONSTANTS
    Creator,        \* the process of `cluster kind create`
    Destroyers,     \* the processes of `cluster kind destroy`
    MaxFaults,      \* bound on failed commands, failed writes and deaths
    MaxMeddling     \* bound on the steps of others

ASSUME LifecycleAssumptions ==
    /\ Creator \notin Destroyers
    /\ MaxFaults \in Nat
    /\ MaxMeddling \in Nat

VARIABLES
    registry,   \* the registry container of the run
    regName,    \* who holds its name: nobody, that container, or a foreign one
    foreign,    \* the foreign container that took the name
    node,       \* the node of the run's cluster, and with it the cluster
    configured, \* what configure_local_registry has put in place
    files,      \* the files of the run directory
    sums,       \* the files SHA256SUMS lists
    pc,         \* the next step of each process
    known,      \* processes whose caller holds a registry to clean up
    ported,     \* processes whose registry object has a handle: a port to check
    owned,      \* processes whose cluster object knows the identity of its node
    identified, \* the resources whose identity create has established
    erred,      \* processes that have an error to report
    result,     \* how the last command of each process ended
    faults,     \* the failed commands, failed writes and deaths so far
    meddling    \* the steps of others so far

host == <<registry, regName, foreign, node, configured>>
directory == <<files, sums>>
objects == <<known, ported, owned, identified>>
bounds == <<faults, meddling>>
vars == <<host, directory, pc, objects, erred, result, bounds>>

Procs == {Creator} \cup Destroyers
Unsealed == {"none"}    \* there is no SHA256SUMS

Init ==
    /\ registry = "none" /\ regName = "free" /\ foreign = "none"
    /\ node = "none"
    /\ configured = {}
    /\ files = {} /\ sums = Unsealed
    /\ pc = [p \in Procs |-> IF p = Creator THEN "run" ELSE "idle"]
    /\ known = {} /\ ported = {} /\ owned = {} /\ identified = {}
    /\ erred = {}
    /\ result = [p \in Procs |-> "none"]
    /\ faults = 0 /\ meddling = 0

At(p, label) == pc[p] = label
Goto(p, label) == pc' = [pc EXCEPT ![p] = label]
GoesTo(p, label) == pc'[p] = label

Fault == faults < MaxFaults /\ faults' = faults + 1
NoFault == UNCHANGED faults

\* What the registry's name, or kind's list, answers.
Listed == node = "exists"

\* _assert_owned: the container under the name is the recorded one, and once
\* there is a handle its port is checked, which only a running container has.
IsOwn(p) ==
    /\ regName = "own"
    /\ p \in ported => registry = "running"

-----------------------------------------------------------------------------
(* Where an error leads.  In create, the handler destroys a cluster it holds *)
(* and then cleans up a registry it holds; destroy goes on with the next     *)
(* resource.                                                                 *)

AfterCluster(p) == IF p \in known THEN "r_inspect" ELSE "ended"

\* Faulty variant: the error is swallowed.
ErrsSilently(p) == UNCHANGED erred

Errs(p) == erred' = erred \cup {p}

\* Faulty variant: the handler closes the registry only.
HandlerOfRegistry == AfterCluster(Creator)

\* The handler of create.
Handler ==
    IF "cluster" \in identified THEN "k_list" ELSE AfterCluster(Creator)

CreateErrs ==
    /\ Errs(Creator)
    /\ Goto(Creator, Handler)

\* A step of create that goes on to the next one unless it fails.
CreateStep(label, next) ==
    /\ At(Creator, label)
    /\ \/ Goto(Creator, next) /\ UNCHANGED erred /\ NoFault
       \/ CreateErrs /\ Fault
    /\ UNCHANGED <<result, meddling>>

Succeeds(p) == p \notin erred'

-----------------------------------------------------------------------------
(* EphemeralRegistry.start. *)

\* A `docker run` that fails after its effect leaves a container the object
\* does not know of; one that fails to start leaves a container as well.
RunRegistry ==
    /\ At(Creator, "run")
    /\ \/ /\ regName = "free"
          /\ registry' = "running" /\ regName' = "own"
          /\ \/ /\ Goto(Creator, "inspect")
                /\ identified' = identified \cup {"registry"}
                /\ UNCHANGED erred /\ NoFault
             \/ CreateErrs /\ Fault /\ UNCHANGED identified
       \/ /\ CreateErrs
          /\ IF regName = "free" THEN Fault ELSE NoFault
          /\ UNCHANGED <<registry, regName, identified>>
    /\ UNCHANGED <<foreign, node, configured, directory, known, ported, owned,
                   result, meddling>>

\* A start that fails once the container is there cleans it up itself.
StartFails ==
    /\ Errs(Creator)
    /\ Goto(Creator, "r_inspect")

InspectRegistry ==
    /\ At(Creator, "inspect")
    /\ \/ /\ IsOwn(Creator) /\ registry = "running"
          /\ Goto(Creator, "ready")
          /\ ported' = ported \cup {Creator}
          /\ UNCHANGED erred /\ NoFault
       \/ /\ StartFails
          /\ IF IsOwn(Creator) /\ registry = "running" THEN Fault ELSE NoFault
          /\ UNCHANGED ported
    /\ UNCHANGED <<host, directory, known, owned, identified, result, meddling>>

\* The caller holds the registry from here on.
AwaitReady ==
    /\ At(Creator, "ready")
    /\ \/ /\ registry = "running"
          /\ Goto(Creator, "record_registry")
          /\ known' = known \cup {Creator}
          /\ UNCHANGED erred /\ NoFault
       \/ /\ StartFails
          /\ IF registry = "running" THEN Fault ELSE NoFault
          /\ UNCHANGED known
    /\ UNCHANGED <<host, directory, ported, owned, identified, result, meddling>>

-----------------------------------------------------------------------------
(* The records of the run directory.  A write that fails has put its file in *)
(* place or not.                                                             *)

Writes(label, next, file) ==
    /\ CreateStep(label, next)
    /\ \/ files' = files \cup {file}
       \/ ~Succeeds(Creator) /\ UNCHANGED files
    /\ UNCHANGED <<host, sums, objects>>

RecordRegistry == Writes("record_registry", "k_check", "registry")
RecordCluster == Writes("record_cluster", "g_verify", "cluster")
WriteSummary == Writes("summary", "seal", "lifecycle")

\* write_checksums and verify_checksums.
Seal ==
    /\ CreateStep("seal", "seal_check")
    /\ \/ sums' = files
       \/ ~Succeeds(Creator) /\ UNCHANGED sums
    /\ UNCHANGED <<host, files, objects>>

Verifies == sums = files

SealCheck ==
    /\ CreateStep("seal_check", "detach")
    /\ Succeeds(Creator) => Verifies
    /\ UNCHANGED <<host, directory, objects>>

-----------------------------------------------------------------------------
(* KindCluster.create and configure_local_registry. *)

\* The version is the pinned one and the name is not in use.
CheckKind ==
    /\ CreateStep("k_check", "k_create")
    /\ UNCHANGED <<host, directory, objects>>

\* --retain: a failed create leaves what it has created.
CreateKind ==
    /\ CreateStep("k_create", "k_discover")
    /\ IF Succeeds(Creator) THEN node' = "exists" ELSE node' \in {node, "exists"}
    /\ UNCHANGED <<registry, regName, foreign, configured, directory, objects>>

\* A step that needs the cluster, or the registry, to be as create left it.
Needs(condition, label, next) ==
    /\ At(Creator, label)
    /\ \/ condition /\ Goto(Creator, next) /\ UNCHANGED erred /\ NoFault
       \/ CreateErrs /\ IF condition THEN Fault ELSE NoFault
    /\ UNCHANGED <<result, meddling>>

DiscoverNodes ==
    /\ At(Creator, "k_discover")
    /\ \/ /\ Listed
          /\ Goto(Creator, "record_cluster")
          /\ owned' = owned \cup {Creator}
          /\ identified' = identified \cup {"cluster"}
          /\ UNCHANGED erred /\ NoFault
       \/ /\ CreateErrs
          /\ IF Listed THEN Fault ELSE NoFault
          /\ UNCHANGED <<owned, identified>>
    /\ UNCHANGED <<host, directory, known, ported, result, meddling>>

VerifyNodes ==
    /\ Needs(Listed, "g_verify", "g_alias")
    /\ UNCHANGED <<host, directory, objects>>

\* A step that puts one part of the configuration in place; it fails before
\* its effect or after it.
Configures(condition, label, next, part) ==
    /\ Needs(condition, label, next)
    /\ IF Succeeds(Creator) THEN configured' = configured \cup {part}
       ELSE configured' \in {configured} \cup
                (IF condition THEN {configured \cup {part}} ELSE {})
    /\ UNCHANGED <<registry, regName, foreign, node, directory, objects>>

WriteAlias == Configures(Listed, "g_alias", "g_inspect", "alias")

\* connect_kind_network: inspect, connect unless connected, inspect again.
InspectForNetwork ==
    /\ Needs(IsOwn(Creator), "g_inspect", "g_connect")
    /\ UNCHANGED <<host, directory, objects>>

ConnectNetwork ==
    Configures(registry \in {"running", "exited"}, "g_connect", "g_connected", "network")

ConfirmNetwork ==
    /\ Needs(IsOwn(Creator) /\ "network" \in configured, "g_connected", "g_publish")
    /\ UNCHANGED <<host, directory, objects>>

PublishConfigMap == Configures(Listed, "g_publish", "summary", "configmap")

\* detach forgets the cluster, which is now the records' to know.  An error
\* keeps what it knew; an interrupt after it does not.
Detach ==
    /\ CreateStep("detach", "ended")
    /\ \/ owned' = owned \ {Creator}
       \/ ~Succeeds(Creator) /\ UNCHANGED owned
    /\ UNCHANGED <<host, directory, known, ported, identified>>

-----------------------------------------------------------------------------
(* KindCluster.destroy, for the handler of create and for destroy. *)

ListClusters(p) ==
    /\ At(p, "k_list")
    /\ \/ /\ ~Listed
          /\ owned' = owned \ {p}
          /\ Goto(p, AfterCluster(p))
          /\ UNCHANGED erred /\ NoFault
       \/ /\ Listed /\ p \in owned
          /\ Goto(p, "k_verify")
          /\ UNCHANGED <<owned, erred>> /\ NoFault
       \/ /\ Errs(p)
          /\ Goto(p, AfterCluster(p))
          /\ IF Listed /\ p \notin owned THEN NoFault ELSE Fault
          /\ UNCHANGED owned
    /\ UNCHANGED <<host, directory, known, ported, identified, result, meddling>>

\* A step that needs a condition, whose error goes to the label onError.
Requires(p, condition, label, next, onError) ==
    /\ At(p, label)
    /\ \/ condition /\ Goto(p, next) /\ UNCHANGED erred /\ NoFault
       \/ /\ Errs(p)
          /\ Goto(p, onError)
          /\ IF condition THEN Fault ELSE NoFault
    /\ UNCHANGED <<result, meddling>>

VerifyBeforeDelete(p) ==
    /\ Requires(p, Listed, "k_verify", "k_delete", AfterCluster(p))
    /\ UNCHANGED <<host, directory, objects>>

\* kind deletes a cluster that is gone without an error.
DeleteCluster(p) ==
    /\ Requires(p, TRUE, "k_delete", "k_confirm", AfterCluster(p))
    /\ node' \in {"gone"} \cup (IF GoesTo(p, "k_confirm") THEN {} ELSE {node})
    /\ UNCHANGED <<registry, regName, foreign, configured, directory, objects>>

ConfirmDeleted(p) ==
    /\ At(p, "k_confirm")
    /\ Goto(p, AfterCluster(p))
    /\ \/ ~Listed /\ owned' = owned \ {p} /\ UNCHANGED erred /\ NoFault
       \/ /\ Errs(p)
          /\ IF ~Listed THEN Fault ELSE NoFault
          /\ UNCHANGED owned
    /\ UNCHANGED <<host, directory, known, ported, identified, result, meddling>>

-----------------------------------------------------------------------------
(* EphemeralRegistry.cleanup, likewise.  Docker inspects by name and removes *)
(* by identity.                                                              *)

InspectForCleanup(p) ==
    /\ At(p, "r_inspect")
    /\ \/ regName = "free" /\ Goto(p, "ended") /\ UNCHANGED erred /\ NoFault
       \/ IsOwn(p) /\ Goto(p, "r_remove") /\ UNCHANGED erred /\ NoFault
       \/ /\ Errs(p)
          /\ Goto(p, "ended")
          /\ IF regName = "free" \/ IsOwn(p) THEN Fault ELSE NoFault
    /\ UNCHANGED <<host, directory, objects, result, meddling>>

Alive == registry \in {"running", "exited"}

\* What a removal of the registry does to it and to its name.
Removed ==
    /\ registry' = "gone"
    /\ regName' = IF regName = "own" THEN "free" ELSE regName

\* Docker may or may not report an error for a container that is gone.
RemoveRegistry(p) ==
    /\ \/ Requires(p, TRUE, "r_remove", "r_confirm", "ended")
       \/ Requires(p, Alive, "r_remove", "r_confirm", "ended")
    /\ \/ Removed
       \/ ~GoesTo(p, "r_confirm") /\ UNCHANGED <<registry, regName>>
    /\ UNCHANGED <<foreign, node, configured, directory, objects>>

ConfirmRemoved(p) ==
    /\ Requires(p, regName = "free", "r_confirm", "ended", "ended")
    /\ UNCHANGED <<host, directory, objects>>

-----------------------------------------------------------------------------
(* destroy: the records, KindCluster.reopen and EphemeralRegistry.reopen. *)

\* _lifecycle_values.
Load(p) ==
    /\ At(p, "idle")
    /\ \/ /\ sums # Unsealed /\ Verifies
          /\ Goto(p, IF "cluster" \in files THEN "reopen_list" ELSE "reopen_registry")
          /\ result' = [result EXCEPT ![p] = "none"]
          /\ UNCHANGED bounds
       \/ /\ IF sums # Unsealed /\ Verifies THEN Fault ELSE NoFault
          /\ result' = [result EXCEPT ![p] = "error"]
          /\ UNCHANGED <<pc, meddling>>
    /\ UNCHANGED <<host, directory, objects, erred>>

\* Faulty variant: a cluster that cannot be reopened ends the command.
ReopenListStops(p) ==
    /\ Requires(p, Listed, "reopen_list", "reopen_verify", "ended")
    /\ UNCHANGED <<host, directory, objects>>

ReopenList(p) ==
    /\ Requires(p, Listed, "reopen_list", "reopen_verify", "reopen_registry")
    /\ UNCHANGED <<host, directory, objects>>

ReopenVerify(p) ==
    /\ Requires(p, Listed, "reopen_verify", "reopen_again", "reopen_registry")
    /\ UNCHANGED <<host, directory, objects>>

\* The kubeconfig is exported and the nodes are verified a second time.
ReopenAgain(p) ==
    /\ Requires(p, Listed, "reopen_again", "reopen_registry", "reopen_registry")
    /\ owned' = IF p \in erred' THEN owned ELSE owned \cup {p}
    /\ UNCHANGED <<host, directory, known, ported, identified>>

\* The recorded container, if there is a record, under its name with its port.
HasRegistry == "registry" \in files
Reopenable == HasRegistry => regName = "own" /\ registry = "running"

ReopenRegistry(p) ==
    /\ At(p, "reopen_registry")
    /\ \/ /\ Reopenable
          /\ known' = IF HasRegistry THEN known \cup {p} ELSE known
          /\ ported' = IF HasRegistry THEN ported \cup {p} ELSE ported
          /\ UNCHANGED erred /\ NoFault
       \/ /\ Errs(p)
          /\ IF Reopenable THEN Fault ELSE NoFault
          /\ UNCHANGED <<known, ported>>
    /\ Goto(p, IF p \in owned THEN "k_list" ELSE IF p \in known' THEN "r_inspect" ELSE "ended")
    /\ UNCHANGED <<host, directory, owned, identified, result, meddling>>

-----------------------------------------------------------------------------
(* The end of a process. *)

Forget(p) ==
    /\ known' = known \ {p} /\ ported' = ported \ {p} /\ owned' = owned \ {p}
    /\ erred' = erred \ {p}
    /\ UNCHANGED identified

Success(p) == IF p = Creator THEN "created" ELSE "destroyed"

\* A destroy may be repeated; create refuses a directory that exists.
Rest(p) == IF p = Creator THEN "exited" ELSE "idle"

Exit(p) ==
    /\ At(p, "ended")
    /\ result' = [result EXCEPT ![p] = IF p \in erred THEN "error" ELSE Success(p)]
    /\ Goto(p, Rest(p))
    /\ Forget(p)
    /\ UNCHANGED <<host, directory, bounds>>

Kill(p) ==
    /\ pc[p] \notin {"idle", "exited"}
    /\ Fault
    /\ result' = [result EXCEPT ![p] = "killed"]
    /\ Goto(p, Rest(p))
    /\ Forget(p)
    /\ UNCHANGED <<host, directory, meddling>>

-----------------------------------------------------------------------------
(* Others.  They leave the name of the cluster alone. *)

Meddle ==
    /\ meddling < MaxMeddling
    /\ meddling' = meddling + 1
    /\ UNCHANGED <<configured, directory, pc, objects, erred, result, faults>>

StopRegistry ==
    /\ registry = "running" /\ registry' = "exited"
    /\ UNCHANGED <<regName, foreign, node>>

RestartRegistry ==
    /\ registry = "exited" /\ registry' = "running"
    /\ UNCHANGED <<regName, foreign, node>>

LoseRegistry == Alive /\ Removed /\ UNCHANGED <<foreign, node>>

RenameRegistry ==
    /\ regName = "own" /\ regName' = "free"
    /\ UNCHANGED <<registry, foreign, node>>

TakeName ==
    /\ regName = "free" /\ foreign = "none"
    /\ regName' = "foreign" /\ foreign' = "exists"
    /\ UNCHANGED <<registry, node>>

LoseCluster ==
    /\ node = "exists" /\ node' = "gone"
    /\ UNCHANGED <<registry, regName, foreign>>

Others ==
    /\ Meddle
    /\ \/ StopRegistry \/ RestartRegistry \/ LoseRegistry \/ RenameRegistry
       \/ TakeName \/ LoseCluster

-----------------------------------------------------------------------------
Create ==
    \/ RunRegistry \/ InspectRegistry \/ AwaitReady \/ RecordRegistry
    \/ CheckKind \/ CreateKind \/ DiscoverNodes \/ RecordCluster
    \/ VerifyNodes \/ WriteAlias \/ InspectForNetwork \/ ConnectNetwork
    \/ ConfirmNetwork \/ PublishConfigMap
    \/ WriteSummary \/ Seal \/ SealCheck \/ Detach

Remove(p) ==
    \/ ListClusters(p) \/ VerifyBeforeDelete(p) \/ DeleteCluster(p)
    \/ ConfirmDeleted(p) \/ InspectForCleanup(p) \/ RemoveRegistry(p)
    \/ ConfirmRemoved(p)

Destroy(p) ==
    \/ Load(p) \/ ReopenList(p) \/ ReopenVerify(p) \/ ReopenAgain(p)
    \/ ReopenRegistry(p) \/ Remove(p) \/ Exit(p)

Next ==
    \/ Create
    \/ Remove(Creator)
    \/ Exit(Creator)
    \/ \E p \in Destroyers : Destroy(p)
    \/ \E p \in Procs : Kill(p)
    \/ Others

Spec == Init /\ [][Next]_vars

\* A command that has started runs on, and its operator repeats destroy.
FairSpec ==
    /\ Spec
    /\ WF_vars(Create \/ Remove(Creator) \/ Exit(Creator))
    /\ \A p \in Destroyers : WF_vars(Destroy(p))

-----------------------------------------------------------------------------
Labels ==
    {"run", "inspect", "ready", "record_registry", "k_check", "k_create",
     "k_discover", "record_cluster", "g_verify", "g_alias", "g_inspect",
     "g_connect", "g_connected", "g_publish", "summary", "seal", "seal_check",
     "detach", "k_list", "k_verify", "k_delete", "k_confirm", "r_inspect",
     "r_remove", "r_confirm", "reopen_list", "reopen_verify", "reopen_again",
     "reopen_registry", "idle", "ended", "exited"}

Files == {"registry", "cluster", "lifecycle"}
Parts == {"alias", "network", "configmap"}

\* Every variable has its type; a registry that a caller holds has a handle,
\* with the port the identity check compares.
TypeOK ==
    /\ registry \in {"none", "running", "exited", "gone"}
    /\ regName \in {"free", "own", "foreign"}
    /\ foreign \in {"none", "exists"}
    /\ node \in {"none", "exists", "gone"}
    /\ configured \subseteq Parts
    /\ files \subseteq Files
    /\ sums = Unsealed \/ sums \subseteq Files
    /\ pc \in [Procs -> Labels]
    /\ known \subseteq ported /\ ported \subseteq Procs
    /\ owned \subseteq Procs /\ erred \subseteq Procs
    /\ identified \subseteq {"registry", "cluster"}
    /\ result \in [Procs -> {"none", "created", "destroyed", "error", "killed"}]
    /\ faults \in 0..MaxFaults /\ meddling \in 0..MaxMeddling

\* Whoever reports that the run is destroyed is right: the cluster is gone,
\* and so is the registry, unless somebody has renamed it meanwhile.
DestroyTellsTheTruth ==
    \A p \in Destroyers :
        result[p] = "destroyed" =>
            /\ node # "exists"
            /\ Alive => regName # "own"

Held(resource) ==
    /\ resource \in identified
    /\ IF resource = "registry" THEN Alive ELSE Listed

\* One error in create leaves nothing that create had identified and destroy
\* would refuse: the handler has removed it, or the directory is sealed.
SingleFailureLeavesNoTrap ==
    (faults <= 1 /\ meddling = 0 /\ result[Creator] = "error") =>
        \/ sums # Unsealed /\ Verifies
        \/ ~Held("registry") /\ ~Held("cluster")

\* Once the directory is sealed, repeating destroy removes both resources,
\* whatever fails and whoever dies, as long as others leave them alone.
EventuallyDestroyed ==
    (sums # Unsealed /\ Verifies) ~> ((~Alive /\ ~Listed) \/ meddling > 0)

=============================================================================
