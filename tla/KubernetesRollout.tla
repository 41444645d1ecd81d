-------------------------- MODULE KubernetesRollout --------------------------
(***************************************************************************)
(* KubernetesExecutor.execute (kubernetes_execution.py) against the        *)
(* cluster it deploys to: apply, rollout, attestation, smoke test through  *)
(* a port-forward, and the proof that a rollback restores what was         *)
(* attested.  The executor sees the cluster through single kubectl         *)
(* commands; the Deployment controller, the kubelet and the application    *)
(* act in between.  The cluster belongs to the run: nobody else writes     *)
(* to it.                                                                  *)
(***************************************************************************)
EXTENDS FiniteSets, Naturals

CONSTANTS
    Pods,       \* the pods the cluster can create
    Replicas    \* replicas of the Deployment

ASSUME RolloutAssumptions == Replicas \in Nat \ {0}

VARIABLES
    namespaced, \* the namespace exists
    target,     \* the revision the Deployment asks for
    prior,      \* the revision a rollback would return to
    revision,   \* the revision each pod was created from
    condition,  \* the condition of each pod
    events,     \* pods with an event "Readiness probe failed"
    digest,     \* the digest the runtime reports for the deployed reference
    forward,    \* the managed port-forward
    pc,         \* the next step of the executor
    smoking,    \* which of the two smoke tests is executing
    exists,     \* resources_may_exist
    seen,       \* unready pods of the failing revision, from the pod inventory
    verified,   \* the cause of the failure in rollback-observation.json
    answered,   \* both probes of the smoke test returned 200
    error,      \* the error that is on its way to the caller
    files,      \* evidence that has been written
    notified,   \* events that were reported to the journal
    diagnosed,  \* diagnostics were collected
    result      \* how execute() has ended

cluster == <<namespaced, target, prior, revision, condition, events, digest>>
rollback == <<seen, verified>>
smoke == <<smoking, answered>>
evidence == <<files, notified>>
ending == <<error, diagnosed, result>>
executor == <<pc, smoking, exists, seen, verified, answered, error, files,
              notified, diagnosed, result>>
vars == <<cluster, forward, executor>>

Live(p) == condition[p] \in {"unready", "ready"}
Current == {p \in Pods : Live(p) /\ revision[p] = target}
Outdated == {p \in Pods : Live(p) /\ revision[p] # target}

\* What `kubectl rollout status` waits for.
RolledOut ==
    /\ Cardinality(Current) = Replicas
    /\ \A p \in Current : condition[p] = "ready"
    /\ Outdated = {}

Init ==
    /\ namespaced = FALSE
    /\ target = "none" /\ prior = "none"
    /\ revision = [p \in Pods |-> "none"]
    /\ condition = [p \in Pods |-> "absent"]
    /\ events = {}
    /\ digest \in {"expected", "other"}
    /\ forward = "none"
    /\ pc = "persist" /\ smoking = "none"
    /\ exists = FALSE
    /\ seen = {} /\ verified = FALSE
    /\ answered = FALSE
    /\ error = "none"
    /\ files = {} /\ notified = {}
    /\ diagnosed = FALSE
    /\ result = "none"

-----------------------------------------------------------------------------
(* The cluster. *)

CreatePod(p) ==
    /\ target # "none"
    /\ condition[p] = "absent" /\ Cardinality(Current) < Replicas
    /\ condition' = [condition EXCEPT ![p] = "unready"]
    /\ revision' = [revision EXCEPT ![p] = target]
    /\ UNCHANGED <<namespaced, target, prior, events, digest, forward, executor>>

\* The controller retires a pod, or the node evicts it.
DeletePod(p) ==
    /\ Live(p)
    /\ condition' = [condition EXCEPT ![p] = "deleted"]
    /\ UNCHANGED <<namespaced, target, prior, revision, events, digest,
                   forward, executor>>

\* A slow application fails probes of the original revision, too; and one
\* that answers every path passes those of the failing revision.
ProbePasses(p) ==
    /\ Live(p)
    /\ condition' = [condition EXCEPT ![p] = "ready"]
    /\ UNCHANGED <<namespaced, target, prior, revision, events, digest,
                   forward, executor>>

ProbeFails(p) ==
    /\ Live(p)
    /\ condition' = [condition EXCEPT ![p] = "unready"]
    /\ events' = events \cup {p}
    /\ UNCHANGED <<namespaced, target, prior, revision, digest, forward, executor>>

\* A port-forward ends with its connection, its pod, its deadline or the
\* signal it was sent.
ForwardExits ==
    /\ forward \in {"running", "abandoned"}
    /\ forward' = "exited"
    /\ UNCHANGED <<cluster, executor>>

Cluster ==
    \/ ForwardExits
    \/ \E p \in Pods : CreatePod(p) \/ DeletePod(p) \/ ProbePasses(p) \/ ProbeFails(p)

-----------------------------------------------------------------------------
(* The steps of execute().  Every command and every write may fail, a command *)
(* also after its effect.                                                     *)

At(label) == pc = label
Goto(label) == pc' = label

Raise == Goto("handle") /\ error' = "failed"
Continue(next) == Goto(next) /\ UNCHANGED error

\* A step that writes evidence and reports to the journal, unless it raises.
Records(label, next, file, event) ==
    /\ At(label)
    /\ \/ Raise /\ notified' = notified
       \/ Continue(next) /\ notified' = notified \cup event
    /\ \/ files' = files \cup file
       \/ error' # "none" /\ files' = files
    /\ UNCHANGED <<cluster, forward, smoke, exists, rollback, diagnosed, result>>

Persist == Records("persist", "namespace", {"resolved"}, {})

DryRunNamespace == Records("namespace", "bootstrap", {}, {})

\* Faulty variant: the flag is set when the command has succeeded.
BootstrapNamespaceFlaggedLate ==
    /\ At("bootstrap")
    /\ \/ Continue("dry_run") /\ namespaced' = TRUE /\ exists' = TRUE
       \/ Raise /\ namespaced' \in BOOLEAN /\ UNCHANGED exists
    /\ UNCHANGED <<target, prior, revision, condition, events, digest, forward,
                   smoke, rollback, evidence, diagnosed, result>>

BootstrapNamespace ==
    /\ At("bootstrap")
    /\ exists' = TRUE
    /\ \/ Continue("dry_run") /\ namespaced' = TRUE
       \/ Raise /\ namespaced' \in BOOLEAN
    /\ UNCHANGED <<target, prior, revision, condition, events, digest, forward,
                   smoke, rollback, evidence, diagnosed, result>>

DryRun == Records("dry_run", "apply", {}, {})

\* A command that changes the revision the Deployment asks for.
Changes(label, next, new, old) ==
    /\ At(label)
    /\ \/ Continue(next) /\ target' = new /\ prior' = old
       \/ Raise /\ (\/ target' = new /\ prior' = old
                    \/ UNCHANGED <<target, prior>>)
    /\ UNCHANGED <<namespaced, revision, condition, events, digest, forward,
                   smoke, exists, rollback, evidence, diagnosed, result>>

Apply == Changes("apply", "applied", "original", "none")
Applied == Records("applied", "rollout", {}, {"applied"})

\* Faulty variant: the status is asked for until it is the desired one.
RolloutPolled ==
    \/ RolledOut /\ Records("rollout", "deployment", {}, {"ready"})
    \/ At("rollout") /\ ~RolledOut /\ UNCHANGED vars

\* `rollout status` reports success when it is true, and fails or runs into
\* one of its two time limits at any time.
Rollout ==
    /\ Records("rollout", "deployment", {}, {"ready"})
    /\ RolledOut \/ error' # "none"

\* _deployment_image and _service_contract agree with the manifest.
GetDeployment == Records("deployment", "service", {"applied-deployment"}, {})
GetService == Records("service", "attest", {"applied-service"}, {})

\* _ready_pod: there is a ready pod, and all of them run the digest.
SomeReady == \E p \in Pods : condition[p] = "ready"
Attested == SomeReady /\ digest = "expected"

Attest ==
    /\ Records("attest", "start_forward", {"runtime-pods"}, {"attested"})
    /\ Attested \/ error' # "none"

-----------------------------------------------------------------------------
(* _smoke, before and after the rollback.  Its errors pass the finally block, *)
(* which closes the port-forward.                                             *)

SmokeStep(label) ==
    /\ At(label)
    /\ UNCHANGED <<cluster, smoking, exists, rollback, evidence, diagnosed, result>>

Phase == IF smoking = "none" THEN "before" ELSE smoking

StartForward ==
    /\ At("start_forward")
    /\ smoking' = Phase
    /\ \/ forward' = "running" /\ Continue("await_forward")
       \/ error' = "failed" /\ Goto("smoked") /\ UNCHANGED forward
    /\ answered' = FALSE
    /\ UNCHANGED <<cluster, exists, rollback, evidence, diagnosed, result>>

SmokeFails == error' = "failed" /\ Goto("close_forward") /\ UNCHANGED answered

\* The endpoint is reported in time by a port-forward that is running.
AwaitForward ==
    /\ SmokeStep("await_forward")
    /\ \/ SmokeFails
       \/ forward = "running" /\ Continue("http") /\ UNCHANGED answered
    /\ UNCHANGED forward

Http ==
    /\ SmokeStep("http")
    /\ \/ SmokeFails
       \/ answered' \in BOOLEAN /\ Continue("still_running")
    /\ UNCHANGED forward

StillRunning ==
    /\ SmokeStep("still_running")
    /\ IF forward = "running" THEN Continue("close_forward") /\ UNCHANGED answered
       ELSE SmokeFails
    /\ UNCHANGED forward

\* ManagedProcess.close; that it gave up takes the place of any other error.
CloseForward ==
    /\ SmokeStep("close_forward")
    /\ Goto("smoked")
    /\ \/ forward' = "closed" /\ UNCHANGED error
       \/ /\ forward' = IF forward = "running" THEN "abandoned" ELSE forward
          /\ error' = "failed"
    /\ UNCHANGED answered

-----------------------------------------------------------------------------
(* What the two callers of _smoke do with its outcome. *)

Passes == error = "none" /\ answered

RecordSmoke ==
    /\ At("smoked") /\ smoking = "before"
    /\ \/ Passes /\ Goto("render") /\ UNCHANGED error
          /\ files' = files \cup {"smoke"} /\ notified' = notified \cup {"smoked"}
       \/ /\ Goto("handle")
          /\ error' = "failed"
          /\ files' \in {files} \cup (IF Passes THEN {files \cup {"smoke"}} ELSE {})
          /\ UNCHANGED notified
    /\ UNCHANGED <<cluster, forward, smoke, exists, rollback, diagnosed, result>>

\* post-rollback-smoke.json says whether the test has passed.
RecordPostSmoke ==
    /\ At("smoked") /\ smoking = "after"
    /\ \/ /\ files' = files \cup {IF Passes THEN "post-smoke passed" ELSE "post-smoke failed"}
          /\ IF Passes THEN Continue("record")
             ELSE Raise
       \/ Raise /\ UNCHANGED files
    /\ UNCHANGED <<cluster, forward, smoke, exists, rollback, notified,
                   diagnosed, result>>

-----------------------------------------------------------------------------
(* _rollback. *)

\* The failing revision keeps the image and probes another path.
RenderFailure == Records("render", "inject", {"rollback-failure"}, {})

Inject == Changes("inject", "failure_rollout", "failing", target)

\* rollback-observation.json is written, or the write fails.
Observed == {files, files \cup {"observation"}}

\* A rollout that succeeds, or a command that ends in any other way than with
\* an exit code, ends the rollback; an exit code alone proves nothing yet.
FailureRollout ==
    /\ At("failure_rollout")
    /\ \/ Continue("see_pods") /\ UNCHANGED files
       \/ Raise /\ files' \in Observed
    /\ UNCHANGED <<cluster, forward, smoke, exists, rollback, notified,
                   diagnosed, result>>

\* _observe_readiness_failure reads the pods and then the events.
SeePods ==
    /\ At("see_pods")
    /\ \/ Continue("see_events")
          /\ seen' = {p \in Pods : condition[p] = "unready" /\ revision[p] = "failing"}
          /\ UNCHANGED files
       \/ Raise /\ UNCHANGED seen /\ files' \in Observed
    /\ UNCHANGED <<cluster, forward, smoke, exists, verified, notified,
                   diagnosed, result>>

\* Faulty variant: an event counts whatever pod it is about.
SeeEventsOfAnyPod ==
    /\ At("see_events")
    /\ verified' = (seen # {} /\ events # {})
    /\ IF verified' THEN Continue("undo") ELSE Raise
    /\ files' = files \cup {"observation"}
    /\ UNCHANGED <<cluster, forward, smoke, exists, seen, notified, diagnosed,
                   result>>

\* rollback-observation.json: the cause is verified by an event about one of
\* the pods, matched by name and uid.
SeeEvents ==
    /\ At("see_events")
    /\ \/ /\ verified' = (seen \cap events # {})
          /\ IF verified' THEN Continue("undo") ELSE Raise
          /\ files' = files \cup {"observation"}
       \/ /\ Raise /\ UNCHANGED verified
          /\ files' \in Observed
    /\ UNCHANGED <<cluster, forward, smoke, exists, seen, notified, diagnosed,
                   result>>

\* Faulty variant: a failed undo is only recorded.
UndoUnchecked ==
    /\ At("undo")
    /\ Continue("restored")
    /\ \/ target' = prior /\ prior' = target
       \/ UNCHANGED <<target, prior>>
    /\ UNCHANGED <<namespaced, revision, condition, events, digest, forward,
                   smoke, exists, rollback, evidence, diagnosed, result>>

Undo == Changes("undo", "restored", prior, target)

Restored ==
    /\ Records("restored", "restored_deployment", {}, {})
    /\ RolledOut \/ error' # "none"

RestoredDeployment ==
    Records("restored_deployment", "restored_pods", {"restored-deployment"}, {})

RestoredPods ==
    /\ At("restored_pods")
    /\ \/ Attested /\ Continue("start_forward") /\ smoking' = "after"
          /\ files' = files \cup {"restored-pods"}
       \/ Raise /\ UNCHANGED smoking /\ files' \in {files, files \cup {"restored-pods"}}
    /\ UNCHANGED <<cluster, forward, answered, exists, rollback, notified,
                   diagnosed, result>>

\* rollback.json, and then the result.
RecordRollback == Records("record", "persist_result", {"rollback"}, {})
PersistResult ==
    Records("persist_result", "return", {"deployment"}, {"evidence_collected"})

-----------------------------------------------------------------------------
(* The end of execute(). *)

Return ==
    /\ At("return")
    /\ result' = "passed" /\ Goto("ended")
    /\ UNCHANGED <<cluster, forward, smoke, exists, rollback, evidence, error,
                   diagnosed>>

\* The handlers: diagnostics are collected once something may exist, and no
\* diagnostic command can replace the error.
Handle ==
    /\ At("handle")
    /\ diagnosed' = exists
    /\ result' = "failed" /\ Goto("ended")
    /\ UNCHANGED <<cluster, forward, smoke, exists, rollback, evidence, error>>

Done == At("ended") /\ UNCHANGED vars

Smoke == StartForward \/ AwaitForward \/ Http \/ StillRunning \/ CloseForward
Rollback ==
    \/ RenderFailure \/ Inject \/ FailureRollout \/ SeePods \/ SeeEvents \/ Undo
    \/ Restored \/ RestoredDeployment \/ RestoredPods \/ RecordPostSmoke
    \/ RecordRollback
Execute ==
    \/ Persist \/ DryRunNamespace \/ BootstrapNamespace \/ DryRun
    \/ Apply \/ Applied \/ Rollout \/ GetDeployment \/ GetService \/ Attest
    \/ Smoke \/ RecordSmoke \/ Rollback \/ PersistResult \/ Return \/ Handle

Next == Execute \/ Cluster \/ Done

Spec == Init /\ [][Next]_vars

\* Every command has a time limit; nothing is assumed of the cluster.
FairSpec == Spec /\ WF_vars(Execute)

-----------------------------------------------------------------------------
Labels ==
    {"persist", "namespace", "bootstrap", "dry_run", "apply", "applied",
     "rollout", "deployment", "service", "attest", "start_forward",
     "await_forward", "http", "still_running", "close_forward", "smoked",
     "render", "inject", "failure_rollout", "see_pods", "see_events", "undo",
     "restored", "restored_deployment", "restored_pods", "record",
     "persist_result", "return", "handle", "ended"}
Revisions == {"none", "original", "failing"}
Files ==
    {"resolved", "applied-deployment", "applied-service", "runtime-pods", "smoke",
     "rollback-failure", "observation", "restored-deployment", "restored-pods",
     "post-smoke passed", "post-smoke failed", "rollback", "deployment"}

ClusterType ==
    /\ namespaced \in BOOLEAN
    /\ target \in Revisions /\ prior \in Revisions
    /\ revision \in [Pods -> Revisions]
    /\ condition \in [Pods -> {"absent", "unready", "ready", "deleted"}]
    /\ events \subseteq Pods
    /\ digest \in {"expected", "other"}
    /\ forward \in {"none", "running", "exited", "closed", "abandoned"}

ExecutorType ==
    /\ pc \in Labels
    /\ smoking \in {"none", "before", "after"}
    /\ exists \in BOOLEAN /\ verified \in BOOLEAN /\ answered \in BOOLEAN
    /\ diagnosed \in BOOLEAN
    /\ seen \subseteq {p \in Pods : revision[p] = "failing"}
    /\ error \in {"none", "failed"}
    /\ files \subseteq Files
    /\ notified \subseteq {"applied", "ready", "attested", "smoked", "evidence_collected"}
    /\ result \in {"none", "passed", "failed"}

\* The values the variables range over; the pods an observation relies on
\* are pods of the failing revision.
TypeOK == ClusterType /\ ExecutorType

\* rollback-observation.json blames the readiness probe only if a pod of the
\* failing revision has failed it.
VerifiedCauseIsReal ==
    verified => \E p \in Pods : revision[p] = "failing" /\ p \in events

\* rollback.json, of a failed execution too, is about a rollback that took
\* place: the failing revision failed, the Deployment asks for the attested
\* revision again, and that one has answered.
RollbackRecordIsTrue ==
    "rollback" \in files =>
        /\ verified
        /\ target = "original" /\ digest = "expected"
        /\ "post-smoke passed" \in files

\* Whatever ends a smoke test, its port-forward is closed with it; and an
\* execution that gave up on closing one does not pass.
ForwardIsAccounted ==
    /\ forward = "running" =>
          pc \in {"await_forward", "http", "still_running", "close_forward"}
    /\ forward = "abandoned" => error # "none"

\* A failed execution leaves diagnostics of everything it may have created,
\* by a command that failed after its effect too.
EveryEffectIsDiagnosed ==
    result = "failed" /\ (namespaced \/ target # "none") => diagnosed

\* Whatever cluster and application do, execute() ends.
ExecutionEnds == <>(result # "none")
=============================================================================
