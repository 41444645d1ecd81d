----------------------- MODULE ClusterLifecycleProofs -----------------------
(***************************************************************************)
(* Proofs about ClusterLifecycle for any number of destroy commands and    *)
(* every bound on the faults and on the steps of others.                   *)
(***************************************************************************)
EXTENDS ClusterLifecycle, TLAPS

\* The steps of create while it has met no error.
CreateLabels ==
    {"run", "inspect", "ready", "record_registry", "k_check", "k_create",
     "k_discover", "record_cluster", "g_verify", "g_alias", "g_inspect", "g_connect",
     "g_connected", "g_publish", "summary", "seal", "seal_check", "detach"}

\* The steps of create that may find the directory sealed.
SealedLabels ==
    {"seal_check", "detach", "k_list", "k_verify", "k_delete", "k_confirm",
     "r_inspect", "r_remove", "r_confirm", "ended", "exited"}

\* The steps of create after each of the three files has been written.
AfterRegistryRecord ==
    {"k_check", "k_create", "k_discover", "record_cluster", "g_verify", "g_alias",
     "g_inspect", "g_connect", "g_connected", "g_publish", "summary", "seal"}
AfterClusterRecord ==
    {"g_verify", "g_alias", "g_inspect", "g_connect", "g_connected", "g_publish",
     "summary", "seal"}

\* What create has written when it comes to a step; a sealed directory is
\* complete, and stays as it is.
RecordsInv ==
    /\ pc[Creator] \in CreateLabels => Creator \notin erred
    /\ sums # Unsealed => /\ pc[Creator] \in SealedLabels
                          /\ sums = Files /\ files = Files
    /\ pc[Creator] \in AfterRegistryRecord => "registry" \in files
    /\ pc[Creator] \in AfterClusterRecord => "cluster" \in files
    /\ pc[Creator] = "seal" => "lifecycle" \in files
    /\ pc[Creator] \in {"seal_check", "detach"} => sums # Unsealed

ClusterGone == node # "exists"
RegistryGone == Alive => regName # "own"

\* A registry that start is about to hand to its caller has a handle.
HandleInv == pc[Creator] = "ready" => Creator \in ported

\* What a destroy knows, by its next step, if it has no error to report.
DestroyerInv(p) ==
    /\ pc[p] # "idle" \/ result[p] = "destroyed" => sums # Unsealed
    /\ pc[p] = "reopen_registry" => p \in owned \/ p \in erred
    /\ pc[p] \in {"k_list", "k_verify", "k_delete", "k_confirm"} =>
            p \in known \/ p \in erred
    /\ pc[p] \in {"r_inspect", "r_remove", "r_confirm"} => ClusterGone \/ p \in erred
    /\ pc[p] = "ended" => (ClusterGone /\ RegistryGone) \/ p \in erred
    /\ result[p] = "destroyed" => ClusterGone /\ RegistryGone

DestroyersInv == \A p \in Destroyers : DestroyerInv(p)

-----------------------------------------------------------------------------
\* The steps of create before its handler.
Forward ==
    {"inspect", "ready", "record_registry", "k_check", "k_create", "k_discover",
     "record_cluster", "g_verify", "g_alias", "g_inspect", "g_connect",
     "g_connected", "g_publish", "summary", "seal"}
BeforeReady == {"run", "inspect", "ready"}
AfterDiscover == AfterClusterRecord \cup {"record_cluster"}
HandlerLabels ==
    {"k_list", "k_verify", "k_delete", "k_confirm", "r_inspect", "r_remove", "r_confirm"}

\* At most one error, nobody else, and a directory that is not sealed.
Undisturbed == faults <= 1 /\ meddling = 0 /\ sums = Unsealed

\* What one error can leave create with, by its next step.
OneErrorInv ==
    LET at == pc[Creator]
    IN  /\ at \in Forward \cup {"run"} => faults = 0
        /\ at = "run" => regName = "free" /\ identified = {} /\ known = {}
        /\ at \in Forward => registry = "running" /\ regName = "own"
        /\ at \in BeforeReady => known = {}
        /\ at \in Forward \ BeforeReady => Creator \in known
        /\ at \in Forward \ AfterDiscover => "cluster" \notin identified
        /\ at \in AfterDiscover => "cluster" \in identified /\ Creator \in owned
        /\ at \in AfterDiscover \cup {"k_discover"} => node = "exists"
        /\ at = "g_connected" => "network" \in configured
        /\ at \in HandlerLabels => faults = 1
        /\ at \in {"k_list", "k_verify", "k_delete", "k_confirm"} =>
                /\ Creator \in known
                /\ registry = "running" /\ regName = "own"
        /\ at = "k_list" => Creator \in owned
        /\ at \in {"k_list", "k_verify"} => Listed
        /\ at = "k_confirm" => ~Listed
        /\ at \in {"r_inspect", "r_remove", "r_confirm"} => ~Held("cluster")
        /\ at \in {"r_inspect", "r_remove"} => registry = "running" /\ regName = "own"
        /\ at = "r_confirm" => ~Alive /\ regName = "free"
        /\ at = "ended" => ~Held("registry") /\ ~Held("cluster")
        /\ at = "exited" /\ result[Creator] = "error" =>
                ~Held("registry") /\ ~Held("cluster")
        /\ result[Creator] = "error" => at = "exited"

TrapInv == Undisturbed => OneErrorInv

IInv == TypeOK /\ HandleInv /\ RecordsInv /\ DestroyersInv /\ TrapInv

-----------------------------------------------------------------------------
(* The type invariant, by the parts of the state. *)

HostType ==
    /\ registry \in {"none", "running", "exited", "gone"}
    /\ regName \in {"free", "own", "foreign"}
    /\ foreign \in {"none", "exists"}
    /\ node \in {"none", "exists", "gone"}
    /\ configured \subseteq Parts
DirectoryType == files \subseteq Files /\ (sums = Unsealed \/ sums \subseteq Files)
ControlType == pc \in [Procs -> Labels]
ObjectsType ==
    /\ known \subseteq ported /\ ported \subseteq Procs
    /\ owned \subseteq Procs /\ erred \subseteq Procs
    /\ identified \subseteq {"registry", "cluster"}
ResultType == result \in [Procs -> {"none", "created", "destroyed", "error", "killed"}]
BoundsType == faults \in 0..MaxFaults /\ meddling \in 0..MaxMeddling

LEMMA TypeParts ==
    TypeOK <=> /\ HostType /\ DirectoryType /\ ControlType
               /\ ObjectsType /\ ResultType /\ BoundsType
BY DEF TypeOK, HostType, DirectoryType, ControlType, ObjectsType, ResultType,
   BoundsType

LEMMA TypePartsNext ==
    ASSUME HostType', DirectoryType', ControlType', ObjectsType', ResultType', BoundsType'
    PROVE  TypeOK'
BY DEF TypeOK, HostType, DirectoryType, ControlType, ObjectsType, ResultType,
   BoundsType

LEMMA CreateKeepsTypes ==
    ASSUME TypeOK, HandleInv, Create
    PROVE  TypeOK'
<1> USE TypeParts, LifecycleAssumptions
    DEF Procs, host, directory, objects, bounds, At, Goto, GoesTo, Fault, NoFault,
        Errs, AfterCluster, Handler, CreateErrs
<1>1. CASE RunRegistry
  <2>1. ControlType' /\ ResultType'
    BY <1>1 DEF RunRegistry, ControlType, ResultType, Labels
  <2>2. HostType' /\ DirectoryType' /\ ObjectsType' /\ BoundsType'
    BY <1>1 DEF RunRegistry, HandleInv, HostType, DirectoryType, ObjectsType,
       BoundsType, Parts, Files
  <2> QED
    BY <2>1, <2>2, TypePartsNext
<1>2. CASE InspectRegistry
  <2>1. ControlType' /\ ResultType'
    BY <1>2 DEF InspectRegistry, StartFails, ControlType, ResultType, Labels
  <2>2. HostType' /\ DirectoryType' /\ ObjectsType' /\ BoundsType'
    BY <1>2 DEF InspectRegistry, StartFails, HandleInv, HostType, DirectoryType,
       ObjectsType, BoundsType, Parts, Files
  <2> QED
    BY <2>1, <2>2, TypePartsNext
<1>3. CASE AwaitReady
  <2>1. ControlType' /\ ResultType'
    BY <1>3 DEF AwaitReady, StartFails, ControlType, ResultType, Labels
  <2>2. HostType' /\ DirectoryType' /\ ObjectsType' /\ BoundsType'
    BY <1>3 DEF AwaitReady, StartFails, HandleInv, HostType, DirectoryType,
       ObjectsType, BoundsType, Parts, Files
  <2> QED
    BY <2>1, <2>2, TypePartsNext
<1>4. CASE RecordRegistry
  <2>1. ControlType' /\ ResultType'
    BY <1>4 DEF RecordRegistry, Writes, CreateStep, Succeeds, ControlType, ResultType,
       Labels
  <2>2. HostType' /\ DirectoryType' /\ ObjectsType' /\ BoundsType'
    BY <1>4 DEF RecordRegistry, Writes, CreateStep, Succeeds, HandleInv, HostType,
       DirectoryType, ObjectsType, BoundsType, Parts, Files
  <2> QED
    BY <2>1, <2>2, TypePartsNext
<1>5. CASE CheckKind
  <2>1. ControlType' /\ ResultType'
    BY <1>5 DEF CheckKind, CreateStep, ControlType, ResultType, Labels
  <2>2. HostType' /\ DirectoryType' /\ ObjectsType' /\ BoundsType'
    BY <1>5 DEF CheckKind, CreateStep, HandleInv, HostType, DirectoryType,
       ObjectsType, BoundsType, Parts, Files
  <2> QED
    BY <2>1, <2>2, TypePartsNext
<1>6. CASE CreateKind
  <2>1. ControlType' /\ ResultType'
    BY <1>6 DEF CreateKind, CreateStep, Succeeds, ControlType, ResultType, Labels
  <2>2. HostType' /\ DirectoryType' /\ ObjectsType' /\ BoundsType'
    BY <1>6 DEF CreateKind, CreateStep, Succeeds, HandleInv, HostType, DirectoryType,
       ObjectsType, BoundsType, Parts, Files
  <2> QED
    BY <2>1, <2>2, TypePartsNext
<1>7. CASE DiscoverNodes
  <2>1. ControlType' /\ ResultType'
    BY <1>7 DEF DiscoverNodes, ControlType, ResultType, Labels
  <2>2. HostType' /\ DirectoryType' /\ ObjectsType' /\ BoundsType'
    BY <1>7 DEF DiscoverNodes, HandleInv, HostType, DirectoryType, ObjectsType,
       BoundsType, Parts, Files
  <2> QED
    BY <2>1, <2>2, TypePartsNext
<1>8. CASE RecordCluster
  <2>1. ControlType' /\ ResultType'
    BY <1>8 DEF RecordCluster, Writes, CreateStep, Succeeds, ControlType, ResultType,
       Labels
  <2>2. HostType' /\ DirectoryType' /\ ObjectsType' /\ BoundsType'
    BY <1>8 DEF RecordCluster, Writes, CreateStep, Succeeds, HandleInv, HostType,
       DirectoryType, ObjectsType, BoundsType, Parts, Files
  <2> QED
    BY <2>1, <2>2, TypePartsNext
<1>9. CASE VerifyNodes
  <2>1. ControlType' /\ ResultType'
    BY <1>9 DEF VerifyNodes, Needs, ControlType, ResultType, Labels
  <2>2. HostType' /\ DirectoryType' /\ ObjectsType' /\ BoundsType'
    BY <1>9 DEF VerifyNodes, Needs, HandleInv, HostType, DirectoryType, ObjectsType,
       BoundsType, Parts, Files
  <2> QED
    BY <2>1, <2>2, TypePartsNext
<1>10. CASE WriteAlias
  <2>1. ControlType' /\ ResultType'
    BY <1>10 DEF WriteAlias, Configures, Needs, Succeeds, ControlType, ResultType,
       Labels
  <2>2. HostType' /\ DirectoryType' /\ ObjectsType' /\ BoundsType'
    BY <1>10 DEF WriteAlias, Configures, Needs, Succeeds, HandleInv, HostType,
       DirectoryType, ObjectsType, BoundsType, Parts, Files
  <2> QED
    BY <2>1, <2>2, TypePartsNext
<1>11. CASE InspectForNetwork
  <2>1. ControlType' /\ ResultType'
    BY <1>11 DEF InspectForNetwork, Needs, ControlType, ResultType, Labels
  <2>2. HostType' /\ DirectoryType' /\ ObjectsType' /\ BoundsType'
    BY <1>11 DEF InspectForNetwork, Needs, HandleInv, HostType, DirectoryType,
       ObjectsType, BoundsType, Parts, Files
  <2> QED
    BY <2>1, <2>2, TypePartsNext
<1>12. CASE ConnectNetwork
  <2>1. ControlType' /\ ResultType'
    BY <1>12 DEF ConnectNetwork, Configures, Needs, Succeeds, ControlType, ResultType,
       Labels
  <2>2. HostType' /\ DirectoryType' /\ ObjectsType' /\ BoundsType'
    BY <1>12 DEF ConnectNetwork, Configures, Needs, Succeeds, HandleInv, HostType,
       DirectoryType, ObjectsType, BoundsType, Parts, Files
  <2> QED
    BY <2>1, <2>2, TypePartsNext
<1>13. CASE ConfirmNetwork
  <2>1. ControlType' /\ ResultType'
    BY <1>13 DEF ConfirmNetwork, Needs, ControlType, ResultType, Labels
  <2>2. HostType' /\ DirectoryType' /\ ObjectsType' /\ BoundsType'
    BY <1>13 DEF ConfirmNetwork, Needs, HandleInv, HostType, DirectoryType,
       ObjectsType, BoundsType, Parts, Files
  <2> QED
    BY <2>1, <2>2, TypePartsNext
<1>14. CASE PublishConfigMap
  <2>1. ControlType' /\ ResultType'
    BY <1>14 DEF PublishConfigMap, Configures, Needs, Succeeds, ControlType,
       ResultType, Labels
  <2>2. HostType' /\ DirectoryType' /\ ObjectsType' /\ BoundsType'
    BY <1>14 DEF PublishConfigMap, Configures, Needs, Succeeds, HandleInv, HostType,
       DirectoryType, ObjectsType, BoundsType, Parts, Files
  <2> QED
    BY <2>1, <2>2, TypePartsNext
<1>15. CASE WriteSummary
  <2>1. ControlType' /\ ResultType'
    BY <1>15 DEF WriteSummary, Writes, CreateStep, Succeeds, ControlType, ResultType,
       Labels
  <2>2. HostType' /\ DirectoryType' /\ ObjectsType' /\ BoundsType'
    BY <1>15 DEF WriteSummary, Writes, CreateStep, Succeeds, HandleInv, HostType,
       DirectoryType, ObjectsType, BoundsType, Parts, Files
  <2> QED
    BY <2>1, <2>2, TypePartsNext
<1>16. CASE Seal
  <2>1. ControlType' /\ ResultType'
    BY <1>16 DEF Seal, CreateStep, Succeeds, ControlType, ResultType, Labels
  <2>2. HostType' /\ DirectoryType' /\ ObjectsType' /\ BoundsType'
    BY <1>16 DEF Seal, CreateStep, Succeeds, HandleInv, HostType, DirectoryType,
       ObjectsType, BoundsType, Parts, Files
  <2> QED
    BY <2>1, <2>2, TypePartsNext
<1>17. CASE SealCheck
  <2>1. ControlType' /\ ResultType'
    BY <1>17 DEF SealCheck, CreateStep, ControlType, ResultType, Labels
  <2>2. HostType' /\ DirectoryType' /\ ObjectsType' /\ BoundsType'
    BY <1>17 DEF SealCheck, CreateStep, HandleInv, HostType, DirectoryType,
       ObjectsType, BoundsType, Parts, Files
  <2> QED
    BY <2>1, <2>2, TypePartsNext
<1>18. CASE Detach
  <2>1. ControlType' /\ ResultType'
    BY <1>18 DEF Detach, CreateStep, Succeeds, ControlType, ResultType, Labels
  <2>2. HostType' /\ DirectoryType' /\ ObjectsType' /\ BoundsType'
    BY <1>18 DEF Detach, CreateStep, Succeeds, HandleInv, HostType, DirectoryType,
       ObjectsType, BoundsType, Parts, Files
  <2> QED
    BY <2>1, <2>2, TypePartsNext
<1> QED
  BY <1>1, <1>2, <1>3, <1>4, <1>5, <1>6, <1>7, <1>8, <1>9, <1>10, <1>11, <1>12, <1>13,
     <1>14, <1>15, <1>16, <1>17, <1>18 DEF Create

LEMMA RemoveKeepsTypes ==
    ASSUME TypeOK, NEW p \in Procs, Remove(p)
    PROVE  TypeOK'
<1> USE TypeParts, LifecycleAssumptions
    DEF Procs, host, directory, objects, bounds, At, Goto, GoesTo, Fault, NoFault,
        Errs, AfterCluster, Handler, CreateErrs
<1>1. CASE ListClusters(p)
  <2>1. ControlType' /\ ResultType'
    BY <1>1 DEF ListClusters, ControlType, ResultType, Labels
  <2>2. HostType' /\ DirectoryType' /\ ObjectsType' /\ BoundsType'
    BY <1>1 DEF ListClusters, HostType, DirectoryType, ObjectsType, BoundsType
  <2> QED
    BY <2>1, <2>2, TypePartsNext
<1>2. CASE VerifyBeforeDelete(p)
  <2>1. ControlType' /\ ResultType'
    BY <1>2 DEF VerifyBeforeDelete, Requires, ControlType, ResultType, Labels
  <2>2. HostType' /\ DirectoryType' /\ ObjectsType' /\ BoundsType'
    BY <1>2 DEF VerifyBeforeDelete, Requires, HostType, DirectoryType, ObjectsType,
       BoundsType
  <2> QED
    BY <2>1, <2>2, TypePartsNext
<1>3. CASE DeleteCluster(p)
  <2>1. ControlType' /\ ResultType'
    BY <1>3 DEF DeleteCluster, Requires, ControlType, ResultType, Labels
  <2>2. HostType' /\ DirectoryType' /\ ObjectsType' /\ BoundsType'
    BY <1>3 DEF DeleteCluster, Requires, HostType, DirectoryType, ObjectsType,
       BoundsType
  <2> QED
    BY <2>1, <2>2, TypePartsNext
<1>4. CASE ConfirmDeleted(p)
  <2>1. ControlType' /\ ResultType'
    BY <1>4 DEF ConfirmDeleted, ControlType, ResultType, Labels
  <2>2. HostType' /\ DirectoryType' /\ ObjectsType' /\ BoundsType'
    BY <1>4 DEF ConfirmDeleted, HostType, DirectoryType, ObjectsType, BoundsType
  <2> QED
    BY <2>1, <2>2, TypePartsNext
<1>5. CASE InspectForCleanup(p)
  <2>1. ControlType' /\ ResultType'
    BY <1>5 DEF InspectForCleanup, ControlType, ResultType, Labels
  <2>2. HostType' /\ DirectoryType' /\ ObjectsType' /\ BoundsType'
    BY <1>5 DEF InspectForCleanup, HostType, DirectoryType, ObjectsType, BoundsType
  <2> QED
    BY <2>1, <2>2, TypePartsNext
<1>6. CASE RemoveRegistry(p)
  <2>1. ControlType' /\ ResultType'
    BY <1>6 DEF RemoveRegistry, Requires, Removed, ControlType, ResultType, Labels
  <2>2. HostType' /\ DirectoryType' /\ ObjectsType' /\ BoundsType'
    BY <1>6 DEF RemoveRegistry, Requires, Removed, HostType, DirectoryType,
       ObjectsType, BoundsType
  <2> QED
    BY <2>1, <2>2, TypePartsNext
<1>7. CASE ConfirmRemoved(p)
  <2>1. ControlType' /\ ResultType'
    BY <1>7 DEF ConfirmRemoved, Requires, ControlType, ResultType, Labels
  <2>2. HostType' /\ DirectoryType' /\ ObjectsType' /\ BoundsType'
    BY <1>7 DEF ConfirmRemoved, Requires, HostType, DirectoryType, ObjectsType,
       BoundsType
  <2> QED
    BY <2>1, <2>2, TypePartsNext
<1> QED
  BY <1>1, <1>2, <1>3, <1>4, <1>5, <1>6, <1>7 DEF Remove

\* The steps that only destroy takes.
Reopen(p) ==
    \/ Load(p) \/ ReopenList(p) \/ ReopenVerify(p) \/ ReopenAgain(p) \/ ReopenRegistry(p)

LEMMA ReopenKeepsTypes ==
    ASSUME TypeOK, NEW p \in Destroyers, Reopen(p)
    PROVE  TypeOK'
<1> USE TypeParts, LifecycleAssumptions
    DEF Procs, host, directory, objects, bounds, At, Goto, GoesTo, Fault, NoFault,
        Errs, AfterCluster, Handler, CreateErrs
<1>1. CASE Load(p)
  <2>1. ControlType' /\ ResultType'
    BY <1>1 DEF Load, ControlType, ResultType, Labels
  <2>2. HostType' /\ DirectoryType' /\ ObjectsType' /\ BoundsType'
    BY <1>1 DEF Load, HostType, DirectoryType, ObjectsType, BoundsType
  <2> QED
    BY <2>1, <2>2, TypePartsNext
<1>2. CASE ReopenList(p)
  <2>1. ControlType' /\ ResultType'
    BY <1>2 DEF ReopenList, Requires, ControlType, ResultType, Labels
  <2>2. HostType' /\ DirectoryType' /\ ObjectsType' /\ BoundsType'
    BY <1>2 DEF ReopenList, Requires, HostType, DirectoryType, ObjectsType, BoundsType
  <2> QED
    BY <2>1, <2>2, TypePartsNext
<1>3. CASE ReopenVerify(p)
  <2>1. ControlType' /\ ResultType'
    BY <1>3 DEF ReopenVerify, Requires, ControlType, ResultType, Labels
  <2>2. HostType' /\ DirectoryType' /\ ObjectsType' /\ BoundsType'
    BY <1>3 DEF ReopenVerify, Requires, HostType, DirectoryType, ObjectsType,
       BoundsType
  <2> QED
    BY <2>1, <2>2, TypePartsNext
<1>4. CASE ReopenAgain(p)
  <2>1. ControlType' /\ ResultType'
    BY <1>4 DEF ReopenAgain, Requires, ControlType, ResultType, Labels
  <2>2. HostType' /\ DirectoryType' /\ ObjectsType' /\ BoundsType'
    BY <1>4 DEF ReopenAgain, Requires, HostType, DirectoryType, ObjectsType,
       BoundsType
  <2> QED
    BY <2>1, <2>2, TypePartsNext
<1>5. CASE ReopenRegistry(p)
  <2>1. ControlType' /\ ResultType'
    BY <1>5 DEF ReopenRegistry, HasRegistry, ControlType, ResultType, Labels
  <2>2. HostType' /\ DirectoryType' /\ ObjectsType' /\ BoundsType'
    BY <1>5 DEF ReopenRegistry, HasRegistry, HostType, DirectoryType, ObjectsType,
       BoundsType
  <2> QED
    BY <2>1, <2>2, TypePartsNext
<1> QED
  BY <1>1, <1>2, <1>3, <1>4, <1>5 DEF Reopen

LEMMA EndKeepsTypes ==
    ASSUME TypeOK, NEW p \in Procs, Exit(p) \/ Kill(p)
    PROVE  TypeOK'
<1> USE TypeParts, LifecycleAssumptions
    DEF Procs, host, directory, objects, bounds, At, Goto, GoesTo, Fault, NoFault,
        Errs, AfterCluster, Handler, CreateErrs
<1>1. CASE Exit(p)
  <2>1. ControlType' /\ ResultType'
    BY <1>1 DEF Exit, Rest, Success, Forget, ControlType, ResultType, Labels
  <2>2. HostType' /\ DirectoryType' /\ ObjectsType' /\ BoundsType'
    BY <1>1 DEF Exit, Rest, Success, Forget, HostType, DirectoryType, ObjectsType,
       BoundsType
  <2> QED
    BY <2>1, <2>2, TypePartsNext
<1>2. CASE Kill(p)
  <2>1. ControlType' /\ ResultType'
    BY <1>2 DEF Kill, Rest, Forget, ControlType, ResultType, Labels
  <2>2. HostType' /\ DirectoryType' /\ ObjectsType' /\ BoundsType'
    BY <1>2 DEF Kill, Rest, Forget, HostType, DirectoryType, ObjectsType, BoundsType
  <2> QED
    BY <2>1, <2>2, TypePartsNext
<1> QED
  BY <1>1, <1>2

LEMMA OthersKeepTypes ==
    ASSUME TypeOK, Others
    PROVE  TypeOK'
<1>1. ControlType' /\ ResultType' /\ ObjectsType' /\ DirectoryType'
  BY TypeParts DEF Others, Meddle, ControlType, ResultType, ObjectsType,
     DirectoryType,
                   objects, directory
<1>2. BoundsType'
  BY TypeParts, LifecycleAssumptions DEF Others, Meddle, BoundsType
<1>3. HostType'
  BY TypeParts DEF Others, Meddle, StopRegistry, RestartRegistry, LoseRegistry,
     Removed,
                   RenameRegistry, TakeName, LoseCluster, HostType
<1> QED
  BY <1>1, <1>2, <1>3, TypePartsNext

-----------------------------------------------------------------------------
(* The steps, by who takes them. *)

Step(p) ==
    \/ p = Creator /\ Create
    \/ p \in Destroyers /\ Reopen(p)
    \/ Remove(p) \/ Exit(p) \/ Kill(p)

LEMMA StepsOfNext ==
    ASSUME Next
    PROVE  (\E p \in Procs : Step(p)) \/ Others
BY DEF Next, Step, Destroy, Reopen, Procs

LEMMA NextKeepsTypes ==
    ASSUME TypeOK, HandleInv, [Next]_vars
    PROVE  TypeOK'
<1>1. CASE Next
  BY <1>1, StepsOfNext, CreateKeepsTypes, RemoveKeepsTypes, ReopenKeepsTypes,
     EndKeepsTypes, OthersKeepTypes DEF Step
<1>2. CASE UNCHANGED vars
  BY <1>2 DEF vars, host, directory, objects, bounds, TypeOK
<1> QED
  BY <1>1, <1>2

\* A step of one process leaves what another knows and has to say alone.
LEMMA StepIsLocal ==
    ASSUME TypeOK, NEW q \in Procs, NEW p \in Procs, p # q, Step(q)
    PROVE  /\ pc'[p] = pc[p] /\ result'[p] = result[p]
           /\ p \in known' <=> p \in known
           /\ p \in ported' <=> p \in ported
           /\ p \in owned' <=> p \in owned
           /\ p \in erred' <=> p \in erred
<1> USE TypeParts, LifecycleAssumptions
    DEF Procs, host, directory, objects, bounds, At, Goto, GoesTo, Fault, NoFault,
        Errs, AfterCluster, Handler, CreateErrs, ControlType, ResultType
<1>1. CASE q = Creator /\ Create
  <2>1. CASE RunRegistry
    BY <1>1, <2>1 DEF RunRegistry
  <2>2. CASE InspectRegistry
    BY <1>1, <2>2 DEF InspectRegistry, StartFails
  <2>3. CASE AwaitReady
    BY <1>1, <2>3 DEF AwaitReady, StartFails
  <2>4. CASE RecordRegistry
    BY <1>1, <2>4 DEF RecordRegistry, Writes, CreateStep, Succeeds
  <2>5. CASE CheckKind
    BY <1>1, <2>5 DEF CheckKind, CreateStep
  <2>6. CASE CreateKind
    BY <1>1, <2>6 DEF CreateKind, CreateStep, Succeeds
  <2>7. CASE DiscoverNodes
    BY <1>1, <2>7 DEF DiscoverNodes
  <2>8. CASE RecordCluster
    BY <1>1, <2>8 DEF RecordCluster, Writes, CreateStep, Succeeds
  <2>9. CASE VerifyNodes
    BY <1>1, <2>9 DEF VerifyNodes, Needs
  <2>10. CASE WriteAlias
    BY <1>1, <2>10 DEF WriteAlias, Configures, Needs, Succeeds
  <2>11. CASE InspectForNetwork
    BY <1>1, <2>11 DEF InspectForNetwork, Needs
  <2>12. CASE ConnectNetwork
    BY <1>1, <2>12 DEF ConnectNetwork, Configures, Needs, Succeeds
  <2>13. CASE ConfirmNetwork
    BY <1>1, <2>13 DEF ConfirmNetwork, Needs
  <2>14. CASE PublishConfigMap
    BY <1>1, <2>14 DEF PublishConfigMap, Configures, Needs, Succeeds
  <2>15. CASE WriteSummary
    BY <1>1, <2>15 DEF WriteSummary, Writes, CreateStep, Succeeds
  <2>16. CASE Seal
    BY <1>1, <2>16 DEF Seal, CreateStep, Succeeds
  <2>17. CASE SealCheck
    BY <1>1, <2>17 DEF SealCheck, CreateStep
  <2>18. CASE Detach
    BY <1>1, <2>18 DEF Detach, CreateStep, Succeeds
  <2> QED
    BY <1>1, <2>1, <2>2, <2>3, <2>4, <2>5, <2>6, <2>7, <2>8, <2>9, <2>10, <2>11,
       <2>12, <2>13, <2>14, <2>15, <2>16, <2>17, <2>18 DEF Create
<1>2. CASE q \in Destroyers /\ Reopen(q)
  <2>1. CASE Load(q)
    BY <1>2, <2>1 DEF Load
  <2>2. CASE ReopenList(q)
    BY <1>2, <2>2 DEF ReopenList, Requires
  <2>3. CASE ReopenVerify(q)
    BY <1>2, <2>3 DEF ReopenVerify, Requires
  <2>4. CASE ReopenAgain(q)
    BY <1>2, <2>4 DEF ReopenAgain, Requires
  <2>5. CASE ReopenRegistry(q)
    BY <1>2, <2>5 DEF ReopenRegistry, HasRegistry
  <2> QED
    BY <1>2, <2>1, <2>2, <2>3, <2>4, <2>5 DEF Reopen
<1>3. CASE Remove(q)
  <2>1. CASE ListClusters(q)
    BY <2>1 DEF ListClusters
  <2>2. CASE VerifyBeforeDelete(q)
    BY <2>2 DEF VerifyBeforeDelete, Requires
  <2>3. CASE DeleteCluster(q)
    BY <2>3 DEF DeleteCluster, Requires
  <2>4. CASE ConfirmDeleted(q)
    BY <2>4 DEF ConfirmDeleted
  <2>5. CASE InspectForCleanup(q)
    BY <2>5 DEF InspectForCleanup
  <2>6. CASE RemoveRegistry(q)
    BY <2>6 DEF RemoveRegistry, Requires, Removed
  <2>7. CASE ConfirmRemoved(q)
    BY <2>7 DEF ConfirmRemoved, Requires
  <2> QED
    BY <1>3, <2>1, <2>2, <2>3, <2>4, <2>5, <2>6, <2>7 DEF Remove
<1>4. CASE Exit(q) \/ Kill(q)
  BY <1>4 DEF Exit, Kill, Rest, Forget
<1> QED
  BY <1>1, <1>2, <1>3, <1>4 DEF Step

-----------------------------------------------------------------------------
(* The directory. *)

LEMMA CreateKeepsRecords ==
    ASSUME TypeOK, HandleInv, RecordsInv, Create
    PROVE  HandleInv' /\ RecordsInv'
<1> USE TypeParts, LifecycleAssumptions
    DEF Procs, host, directory, objects, bounds, At, Goto, GoesTo, Errs, AfterCluster,
        Handler, CreateErrs, ControlType, HandleInv, RecordsInv, CreateLabels, SealedLabels,
        AfterRegistryRecord, AfterClusterRecord
<1>1. CASE RunRegistry
  BY <1>1 DEF RunRegistry
<1>2. CASE InspectRegistry
  BY <1>2 DEF InspectRegistry, StartFails
<1>3. CASE AwaitReady
  BY <1>3 DEF AwaitReady, StartFails
<1>4. CASE RecordRegistry
  BY <1>4 DEF RecordRegistry, Writes, CreateStep, Succeeds
<1>5. CASE CheckKind
  BY <1>5 DEF CheckKind, CreateStep
<1>6. CASE CreateKind
  BY <1>6 DEF CreateKind, CreateStep, Succeeds
<1>7. CASE DiscoverNodes
  BY <1>7 DEF DiscoverNodes
<1>8. CASE RecordCluster
  BY <1>8 DEF RecordCluster, Writes, CreateStep, Succeeds
<1>9. CASE VerifyNodes
  BY <1>9 DEF VerifyNodes, Needs
<1>10. CASE WriteAlias
  BY <1>10 DEF WriteAlias, Configures, Needs, Succeeds
<1>11. CASE InspectForNetwork
  BY <1>11 DEF InspectForNetwork, Needs
<1>12. CASE ConnectNetwork
  BY <1>12 DEF ConnectNetwork, Configures, Needs, Succeeds
<1>13. CASE ConfirmNetwork
  BY <1>13 DEF ConfirmNetwork, Needs
<1>14. CASE PublishConfigMap
  BY <1>14 DEF PublishConfigMap, Configures, Needs, Succeeds
<1>15. CASE WriteSummary
  BY <1>15 DEF WriteSummary, Writes, CreateStep, Succeeds
<1>16. CASE Seal
  BY <1>16 DEF DirectoryType, Files, Unsealed, Seal, CreateStep, Succeeds
<1>17. CASE SealCheck
  BY <1>17 DEF SealCheck, CreateStep
<1>18. CASE Detach
  BY <1>18 DEF Detach, CreateStep, Succeeds
<1> QED
  BY <1>1, <1>2, <1>3, <1>4, <1>5, <1>6, <1>7, <1>8, <1>9, <1>10, <1>11, <1>12, <1>13,
     <1>14, <1>15, <1>16, <1>17, <1>18 DEF Create

LEMMA StepKeepsRecords ==
    ASSUME TypeOK, HandleInv, RecordsInv, NEW p \in Procs, Step(p)
    PROVE  HandleInv' /\ RecordsInv'
<1> USE TypeParts, LifecycleAssumptions
    DEF Procs, host, directory, objects, bounds, At, Goto, GoesTo, Errs, AfterCluster,
        ControlType, HandleInv, RecordsInv, CreateLabels, SealedLabels,
        AfterRegistryRecord, AfterClusterRecord
<1>1. CASE p = Creator /\ Create
  BY <1>1, CreateKeepsRecords
<1>2. CASE p \in Destroyers /\ Reopen(p)
  <2>1. CASE Load(p)
    BY <1>2, <2>1 DEF Load
  <2>2. CASE ReopenList(p)
    BY <1>2, <2>2 DEF ReopenList, Requires
  <2>3. CASE ReopenVerify(p)
    BY <1>2, <2>3 DEF ReopenVerify, Requires
  <2>4. CASE ReopenAgain(p)
    BY <1>2, <2>4 DEF ReopenAgain, Requires
  <2>5. CASE ReopenRegistry(p)
    BY <1>2, <2>5 DEF ReopenRegistry, HasRegistry
  <2> QED
    BY <1>2, <2>1, <2>2, <2>3, <2>4, <2>5 DEF Reopen
<1>3. CASE Remove(p)
  <2>1. CASE ListClusters(p)
    BY <2>1 DEF ListClusters
  <2>2. CASE VerifyBeforeDelete(p)
    BY <2>2 DEF VerifyBeforeDelete, Requires
  <2>3. CASE DeleteCluster(p)
    BY <2>3 DEF DeleteCluster, Requires
  <2>4. CASE ConfirmDeleted(p)
    BY <2>4 DEF ConfirmDeleted
  <2>5. CASE InspectForCleanup(p)
    BY <2>5 DEF InspectForCleanup
  <2>6. CASE RemoveRegistry(p)
    BY <2>6 DEF RemoveRegistry, Requires, Removed
  <2>7. CASE ConfirmRemoved(p)
    BY <2>7 DEF ConfirmRemoved, Requires
  <2> QED
    BY <1>3, <2>1, <2>2, <2>3, <2>4, <2>5, <2>6, <2>7 DEF Remove
<1>4. CASE Exit(p) \/ Kill(p)
  BY <1>4 DEF Exit, Kill, Rest, Forget
<1> QED
  BY <1>1, <1>2, <1>3, <1>4 DEF Step

LEMMA NextKeepsRecords ==
    ASSUME TypeOK, HandleInv, RecordsInv, [Next]_vars
    PROVE  HandleInv' /\ RecordsInv'
<1>1. CASE Others
  BY <1>1 DEF Others, Meddle, objects, directory, HandleInv, RecordsInv
<1>2. CASE UNCHANGED vars
  BY <1>2 DEF vars, objects, directory, HandleInv, RecordsInv
<1> QED
  BY <1>1, <1>2, StepsOfNext, StepKeepsRecords

-----------------------------------------------------------------------------
(* A sealed directory stays as it is, and what it records only goes away. *)

Loses ==
    /\ sums' = sums /\ files' = files
    /\ ClusterGone => ClusterGone'
    /\ RegistryGone => RegistryGone'

LEMMA SealedRunOnlyLoses ==
    ASSUME TypeOK, RecordsInv, sums # Unsealed, [Next]_vars
    PROVE  Loses
<1> USE TypeParts, LifecycleAssumptions
    DEF Loses, ClusterGone, RegistryGone, Alive, RecordsInv, SealedLabels, At, host, directory
<1>1. CASE Create
  <2>1. CASE SealCheck \/ Detach
    BY <2>1 DEF SealCheck, Detach, CreateStep
  <2>2. SealCheck \/ Detach
    BY <1>1 DEF Create, RunRegistry, InspectRegistry, AwaitReady, RecordRegistry,
       Writes,
        CreateStep, CheckKind, CreateKind, DiscoverNodes, RecordCluster, VerifyNodes,
        Needs, WriteAlias, Configures, InspectForNetwork, ConnectNetwork, ConfirmNetwork,
        PublishConfigMap, WriteSummary, Seal
  <2> QED
    BY <2>1, <2>2
<1>2. CASE \E p \in Procs : Remove(p)
  <2> PICK p \in Procs : Remove(p)
    BY <1>2
  <2>1. CASE ListClusters(p)
    BY <2>1 DEF ListClusters
  <2>2. CASE VerifyBeforeDelete(p)
    BY <2>2 DEF VerifyBeforeDelete, Requires
  <2>3. CASE DeleteCluster(p)
    BY <2>3 DEF DeleteCluster, Requires
  <2>4. CASE ConfirmDeleted(p)
    BY <2>4 DEF ConfirmDeleted
  <2>5. CASE InspectForCleanup(p)
    BY <2>5 DEF InspectForCleanup
  <2>6. CASE RemoveRegistry(p)
    BY <2>6 DEF RemoveRegistry, Requires, Removed
  <2>7. CASE ConfirmRemoved(p)
    BY <2>7 DEF ConfirmRemoved, Requires
  <2> QED
    BY <2>1, <2>2, <2>3, <2>4, <2>5, <2>6, <2>7 DEF Remove
<1>3. CASE \E p \in Destroyers : Reopen(p)
  <2> PICK p \in Destroyers : Reopen(p)
    BY <1>3
  <2>1. CASE Load(p)
    BY <2>1 DEF Load
  <2>2. CASE ReopenList(p)
    BY <2>2 DEF ReopenList, Requires
  <2>3. CASE ReopenVerify(p)
    BY <2>3 DEF ReopenVerify, Requires
  <2>4. CASE ReopenAgain(p)
    BY <2>4 DEF ReopenAgain, Requires
  <2>5. CASE ReopenRegistry(p)
    BY <2>5 DEF ReopenRegistry, HasRegistry
  <2> QED
    BY <2>1, <2>2, <2>3, <2>4, <2>5 DEF Reopen
<1>4. CASE \E p \in Procs : Exit(p) \/ Kill(p)
  BY <1>4 DEF Exit, Kill
<1>5. CASE Others
  BY <1>5 DEF Others, Meddle, StopRegistry, RestartRegistry, LoseRegistry, Removed,
              RenameRegistry, TakeName, LoseCluster
<1>6. CASE UNCHANGED vars
  BY <1>6 DEF vars
<1> QED
  BY <1>1, <1>2, <1>3, <1>4, <1>5, <1>6, StepsOfNext DEF Step

-----------------------------------------------------------------------------
(* A destroy that has no error to report has removed what it says. *)

LEMMA OwnStepKeepsDestroyer ==
    ASSUME TypeOK, RecordsInv, sums # Unsealed, Loses,
           NEW p \in Destroyers, DestroyerInv(p), Step(p)
    PROVE  DestroyerInv(p)'
<1> USE TypeParts, LifecycleAssumptions
    DEF Procs, host, directory, objects, bounds, At, Goto, GoesTo, Errs, AfterCluster,
        ControlType, ResultType, DestroyerInv, Loses
<1>1. CASE Reopen(p)
  <2>1. CASE Load(p)
    BY <2>1 DEF Load, RecordsInv, Files
  <2>2. CASE ReopenList(p)
    BY <2>2 DEF ReopenList, Requires
  <2>3. CASE ReopenVerify(p)
    BY <2>3 DEF ReopenVerify, Requires
  <2>4. CASE ReopenAgain(p)
    BY <2>4 DEF ReopenAgain, Requires
  <2>5. CASE ReopenRegistry(p)
    BY <2>5 DEF ReopenRegistry, HasRegistry, RecordsInv, Files
  <2> QED
    BY <1>1, <2>1, <2>2, <2>3, <2>4, <2>5 DEF Reopen
<1>2. CASE Remove(p)
  <2>1. CASE ListClusters(p)
    BY <2>1 DEF ListClusters, Listed, ClusterGone
  <2>2. CASE VerifyBeforeDelete(p)
    BY <2>2 DEF VerifyBeforeDelete, Requires
  <2>3. CASE DeleteCluster(p)
    BY <2>3 DEF DeleteCluster, Requires
  <2>4. CASE ConfirmDeleted(p)
    BY <2>4 DEF ConfirmDeleted, Listed, ClusterGone
  <2>5. CASE InspectForCleanup(p)
    BY <2>5 DEF InspectForCleanup, RegistryGone
  <2>6. CASE RemoveRegistry(p)
    BY <2>6 DEF RemoveRegistry, Requires
  <2>7. CASE ConfirmRemoved(p)
    BY <2>7 DEF ConfirmRemoved, Requires, RegistryGone
  <2> QED
    BY <1>2, <2>1, <2>2, <2>3, <2>4, <2>5, <2>6, <2>7 DEF Remove
<1>3. CASE Exit(p)
  BY <1>3 DEF Exit, Rest, Success, Forget
<1>4. CASE Kill(p)
  BY <1>4 DEF Kill, Rest, Forget
<1> QED
  BY <1>1, <1>2, <1>3, <1>4 DEF Step

\* Without a sealed directory a destroy is refused by it.
LEMMA UnsealedRefuses ==
    ASSUME TypeOK, sums = Unsealed, NEW p \in Destroyers, DestroyerInv(p), Step(p)
    PROVE  /\ result' = [result EXCEPT ![p] = "error"]
           /\ UNCHANGED <<host, directory, objects, erred, pc, bounds>>
<1>1. pc[p] = "idle" /\ p # Creator
  BY LifecycleAssumptions DEF DestroyerInv
<1>2. Load(p)
  BY <1>1 DEF Step, Reopen, At, ReopenList, ReopenVerify, ReopenAgain, ReopenRegistry,
     Requires, Remove, ListClusters, VerifyBeforeDelete, DeleteCluster, ConfirmDeleted,
     InspectForCleanup, RemoveRegistry, ConfirmRemoved, Exit, Kill
<1> QED
  BY <1>2 DEF Load, NoFault, bounds

LEMMA UnsealedKeepsDestroyer ==
    ASSUME TypeOK, sums = Unsealed, NEW p \in Destroyers, DestroyerInv(p), Step(p)
    PROVE  DestroyerInv(p)'
BY UnsealedRefuses, TypeParts DEF DestroyerInv, ResultType, Procs, directory

LEMMA OtherStepKeepsDestroyer ==
    ASSUME TypeOK, RecordsInv, [Next]_vars,
           NEW p \in Destroyers, DestroyerInv(p),
           /\ pc'[p] = pc[p] /\ result'[p] = result[p]
           /\ p \in known' <=> p \in known
           /\ p \in owned' <=> p \in owned
           /\ p \in erred' <=> p \in erred
    PROVE  DestroyerInv(p)'
<1>1. CASE sums = Unsealed
  BY <1>1 DEF DestroyerInv
<1>2. CASE sums # Unsealed
  BY <1>2, SealedRunOnlyLoses DEF DestroyerInv, Loses
<1> QED
  BY <1>1, <1>2

LEMMA NextKeepsDestroyers ==
    ASSUME TypeOK, RecordsInv, DestroyersInv, [Next]_vars
    PROVE  DestroyersInv'
<1> SUFFICES ASSUME NEW p \in Destroyers
             PROVE  DestroyerInv(p)'
  BY DEF DestroyersInv
<1>1. DestroyerInv(p) /\ p \in Procs
  BY DEF DestroyersInv, Procs
<1>2. ASSUME NEW q \in Procs, Step(q), q # p
      PROVE  DestroyerInv(p)'
  BY <1>1, <1>2, StepIsLocal, OtherStepKeepsDestroyer
<1>3. CASE Step(p)
  BY <1>1, <1>3, SealedRunOnlyLoses, OwnStepKeepsDestroyer, UnsealedKeepsDestroyer
<1>4. CASE Others
  BY <1>1, <1>4, OtherStepKeepsDestroyer DEF Others, Meddle, objects
<1>5. CASE UNCHANGED vars
  BY <1>1, <1>5, OtherStepKeepsDestroyer DEF vars, objects
<1> QED
  BY <1>2, <1>3, <1>4, <1>5, StepsOfNext

-----------------------------------------------------------------------------
(* One error of create, with nobody else about. *)

LEMMA UndisturbedBefore ==
    ASSUME TypeOK, HandleInv, RecordsInv, [Next]_vars, Undisturbed'
    PROVE  Undisturbed
<1>1. sums = Unsealed
  BY SealedRunOnlyLoses DEF Undisturbed, Loses
<1>2. faults <= faults' /\ meddling <= meddling'
  <2> USE TypeParts, LifecycleAssumptions DEF BoundsType, Fault, NoFault, bounds
  <2>1. CASE Create
    BY <2>1 DEF Create, RunRegistry, InspectRegistry, StartFails, AwaitReady,
       RecordRegistry, Writes, CreateStep, CheckKind, CreateKind, DiscoverNodes,
       RecordCluster, VerifyNodes, Needs, WriteAlias, Configures, InspectForNetwork,
       ConnectNetwork, ConfirmNetwork, PublishConfigMap, WriteSummary, Seal, SealCheck,
       Detach, CreateErrs
  <2>2. CASE \E p \in Procs : Remove(p)
    BY <2>2 DEF Remove, ListClusters, VerifyBeforeDelete, DeleteCluster,
       ConfirmDeleted, InspectForCleanup, RemoveRegistry, ConfirmRemoved, Requires
  <2>3. CASE \E p \in Destroyers : Reopen(p)
    BY <2>3 DEF Reopen, Load, ReopenList, ReopenVerify, ReopenAgain, ReopenRegistry,
       Requires
  <2>4. CASE \E p \in Procs : Exit(p) \/ Kill(p)
    BY <2>4 DEF Exit, Kill
  <2>5. CASE Others
    BY <2>5 DEF Others, Meddle
  <2>6. CASE UNCHANGED vars
    BY <2>6 DEF vars
  <2> QED
    BY <2>1, <2>2, <2>3, <2>4, <2>5, <2>6, StepsOfNext DEF Step
<1> QED
  BY <1>1, <1>2, NextKeepsTypes DEF Undisturbed, TypeOK


LEMMA CreateKeepsTrap ==
    ASSUME TypeOK, HandleInv, RecordsInv, Undisturbed, OneErrorInv, Create, Undisturbed'
    PROVE  OneErrorInv'
<1> USE TypeParts, LifecycleAssumptions
    DEF Procs, host, directory, objects, bounds, At, Goto, GoesTo, Errs, Fault, NoFault,
        AfterCluster, Handler, CreateErrs, ControlType, BoundsType, HandleInv, RecordsInv,
        CreateLabels, AfterClusterRecord, Undisturbed, OneErrorInv, Forward, BeforeReady,
        AfterDiscover, HandlerLabels, Held, Listed, IsOwn, Alive
<1>1. CASE RunRegistry
  BY <1>1 DEF RunRegistry
<1>2. CASE InspectRegistry
  BY <1>2 DEF InspectRegistry, StartFails
<1>3. CASE AwaitReady
  BY <1>3 DEF AwaitReady, StartFails
<1>4. CASE RecordRegistry
  BY <1>4 DEF RecordRegistry, Writes, CreateStep, Succeeds
<1>5. CASE CheckKind
  BY <1>5 DEF CheckKind, CreateStep
<1>6. CASE CreateKind
  BY <1>6 DEF CreateKind, CreateStep, Succeeds
<1>7. CASE DiscoverNodes
  BY <1>7 DEF DiscoverNodes
<1>8. CASE RecordCluster
  BY <1>8 DEF RecordCluster, Writes, CreateStep, Succeeds
<1>9. CASE VerifyNodes
  BY <1>9 DEF VerifyNodes, Needs
<1>10. CASE WriteAlias
  BY <1>10 DEF WriteAlias, Configures, Needs, Succeeds
<1>11. CASE InspectForNetwork
  BY <1>11 DEF InspectForNetwork, Needs
<1>12. CASE ConnectNetwork
  BY <1>12 DEF ConnectNetwork, Configures, Needs, Succeeds
<1>13. CASE ConfirmNetwork
  BY <1>13 DEF ConfirmNetwork, Needs
<1>14. CASE PublishConfigMap
  BY <1>14 DEF PublishConfigMap, Configures, Needs, Succeeds
<1>15. CASE WriteSummary
  BY <1>15 DEF WriteSummary, Writes, CreateStep, Succeeds
<1>16. CASE Seal
  BY <1>16 DEF AfterRegistryRecord, Unsealed, Seal, CreateStep, Succeeds
<1>17. CASE SealCheck
  BY <1>17 DEF SealCheck, CreateStep
<1>18. CASE Detach
  BY <1>18 DEF Detach, CreateStep, Succeeds
<1> QED
  BY <1>1, <1>2, <1>3, <1>4, <1>5, <1>6, <1>7, <1>8, <1>9, <1>10, <1>11, <1>12, <1>13,
     <1>14, <1>15, <1>16, <1>17, <1>18 DEF Create

LEMMA RemoveKeepsTrap ==
    ASSUME TypeOK, Undisturbed, OneErrorInv, Remove(Creator), Undisturbed'
    PROVE  OneErrorInv'
<1> USE TypeParts, LifecycleAssumptions
    DEF Procs, host, directory, objects, bounds, At, Goto, GoesTo, Errs, Fault, NoFault,
        AfterCluster, ControlType, BoundsType, AfterClusterRecord, Undisturbed,
        OneErrorInv, Forward, BeforeReady, AfterDiscover, HandlerLabels, Held, Listed,
        IsOwn, Alive
<1>1. CASE ListClusters(Creator)
  BY <1>1 DEF ListClusters
<1>2. CASE VerifyBeforeDelete(Creator)
  BY <1>2 DEF VerifyBeforeDelete, Requires
<1>3. CASE DeleteCluster(Creator)
  BY <1>3 DEF DeleteCluster, Requires
<1>4. CASE ConfirmDeleted(Creator)
  BY <1>4 DEF ConfirmDeleted
<1>5. CASE InspectForCleanup(Creator)
  BY <1>5 DEF InspectForCleanup
<1>6. CASE RemoveRegistry(Creator)
  BY <1>6 DEF RemoveRegistry, Requires, Removed
<1>7. CASE ConfirmRemoved(Creator)
  BY <1>7 DEF ConfirmRemoved, Requires
<1> QED
  BY <1>1, <1>2, <1>3, <1>4, <1>5, <1>6, <1>7 DEF Remove

LEMMA EndKeepsTrap ==
    ASSUME TypeOK, Undisturbed, OneErrorInv, Exit(Creator) \/ Kill(Creator)
    PROVE  OneErrorInv'
<1> USE TypeParts, LifecycleAssumptions
    DEF Procs, host, directory, At, Goto, ControlType, ResultType, AfterClusterRecord,
        OneErrorInv, Forward, BeforeReady, AfterDiscover, HandlerLabels, Held, Listed,
        Alive, Forget, Rest, Success
<1>1. CASE Exit(Creator)
  BY <1>1 DEF Exit
<1>2. CASE Kill(Creator)
  BY <1>2 DEF Kill
<1> QED
  BY <1>1, <1>2

LEMMA NextKeepsTrap ==
    ASSUME TypeOK, HandleInv, RecordsInv, DestroyersInv, TrapInv, [Next]_vars
    PROVE  TrapInv'
<1> SUFFICES ASSUME Undisturbed'
             PROVE  OneErrorInv'
  BY DEF TrapInv
<1>1. Undisturbed /\ OneErrorInv
  BY UndisturbedBefore DEF TrapInv
<1>2. CASE Step(Creator)
  BY <1>1, <1>2, CreateKeepsTrap, RemoveKeepsTrap, EndKeepsTrap, LifecycleAssumptions
     DEF Step
<1>3. ASSUME NEW p \in Destroyers, Step(p)
      PROVE  OneErrorInv'
  <2>1. /\ result' = [result EXCEPT ![p] = "error"]
        /\ UNCHANGED <<host, directory, objects, erred, pc, bounds>>
    BY <1>1, <1>3, UnsealedRefuses DEF DestroyersInv, Undisturbed
  <2>2. result'[Creator] = result[Creator]
    BY <2>1, TypeParts, LifecycleAssumptions DEF ResultType, Procs
  <2> QED
    BY <1>1, <2>1, <2>2 DEF OneErrorInv, host, objects, bounds, Held, Alive, Listed
<1>4. CASE Others
  BY <1>1, <1>4, TypeParts, LifecycleAssumptions
     DEF Others, Meddle, Undisturbed, BoundsType
<1>5. CASE UNCHANGED vars
  BY <1>1, <1>5 DEF vars, OneErrorInv, host, objects, bounds, Held, Alive, Listed
<1> QED
  BY <1>2, <1>3, <1>4, <1>5, StepsOfNext DEF Procs

-----------------------------------------------------------------------------
LEMMA InitIInv == Init => IInv
<1> SUFFICES ASSUME Init PROVE IInv
  OBVIOUS
<1> USE LifecycleAssumptions DEF Init, Procs
<1>1. TypeOK
  BY DEF TypeOK, Labels, Unsealed
<1>2. HandleInv /\ RecordsInv
  BY DEF HandleInv, RecordsInv, CreateLabels, AfterRegistryRecord, AfterClusterRecord
<1>3. DestroyersInv
  BY DEF DestroyersInv, DestroyerInv
<1>4. TrapInv
  BY DEF TrapInv, OneErrorInv, Forward, BeforeReady, AfterDiscover,
     AfterClusterRecord,
         HandlerLabels
<1> QED
  BY <1>1, <1>2, <1>3, <1>4 DEF IInv

LEMMA NextKeepsIInv == IInv /\ [Next]_vars => IInv'
BY NextKeepsTypes, NextKeepsRecords, NextKeepsDestroyers, NextKeepsTrap DEF IInv

\* The invariant the other theorems follow from.
THEOREM Invariance == Spec => []IInv
BY InitIInv, NextKeepsIInv, PTL DEF Spec

\* Every variable has its type.
THEOREM TypeCorrect == Spec => []TypeOK
<1>1. IInv => TypeOK
  BY DEF IInv
<1> QED
  BY <1>1, Invariance, PTL

\* Whichever commands fail, whoever dies and whatever others do, a `cluster
\* kind destroy` that reports success has removed the cluster, and the
\* registry unless somebody has renamed it (cli.py, kind_cluster.py destroy,
\* registry.py cleanup).
THEOREM DestroyIsTruthful == Spec => []DestroyTellsTheTruth
<1>1. IInv => DestroyTellsTheTruth
  BY DEF IInv, DestroyersInv, DestroyerInv, ClusterGone, RegistryGone,
         DestroyTellsTheTruth
<1> QED
  BY <1>1, Invariance, PTL

\* One error in `cluster kind create`, at any of its steps, leaves no resource
\* behind that destroy would refuse: the handler has removed what create had
\* identified, or the directory is sealed and complete (cli.py).
THEOREM OneErrorLeavesNoTrap == Spec => []SingleFailureLeavesNoTrap
<1>1. IInv => SingleFailureLeavesNoTrap
  BY DEF IInv, TrapInv, OneErrorInv, Undisturbed, RecordsInv, Verifies,
         SingleFailureLeavesNoTrap
<1> QED
  BY <1>1, Invariance, PTL
=============================================================================
