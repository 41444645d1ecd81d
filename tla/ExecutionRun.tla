---------------------------- MODULE ExecutionRun ----------------------------
(***************************************************************************)
(* One call of ExecutionOrchestrator.execute (execution.py): the pipeline  *)
(* of stages, the journal calls between them, the exception handlers, the  *)
(* cleanup in the `finally` block, the release gates, and the report that  *)
(* is closed into a bundle if its own validator accepts it.  The code runs *)
(* on one thread; what makes it hard is that any step may raise.           *)
(*                                                                         *)
(* The journal is the one of ExecutionJournal, whose rules for what may    *)
(* follow what are used here; its clock is left out, so that a refused     *)
(* append stands for a failed write as well.  The executor is the built-in  *)
(* one (none of the commands passes another to the constructor).           *)
(***************************************************************************)
EXTENDS ProfilePolicy, FiniteSets, SequencesExt

CONSTANTS
    SomeProfiles,       \* the profiles that are run
    MayRetain           \* whether the operator may ask to keep resources

ASSUME RunAssumptions ==
    /\ SomeProfiles \subseteq Profiles
    /\ MayRetain \in BOOLEAN

VARIABLES
    options,    \* profile, registry mode, tools, what to keep, failing writes
    pc,         \* the next step of execute
    results,    \* stage_results: the status of every stage
    stage,      \* current_stage
    failed,     \* failure_reason is set
    started,    \* there is a progress writer
    attested,   \* _ExecutionProgress._attested
    journal,    \* the transitions of state.json
    blamed,     \* the failedStage of the journal's failure, "none" without one
    escaping,   \* an exception handler has raised
    evidence,   \* artifact, supply_chain, deployment and the cluster's record
    objects,    \* the variables registry and cluster that are not None
    existing,   \* the containers of the run that exist
    unknown,    \* those that a failed start left behind unidentified
    cleaned,    \* cleanup_completed
    retained,   \* retained_resources
    report,     \* ordered_stages, <<>> until they are computed
    final,      \* final_status
    outcome     \* how execute ended: a closed bundle, plain records, an exception

resources == <<objects, existing, unknown>>
ending == <<cleaned, retained, report, final, outcome>>
progress == <<started, attested, journal, blamed>>
vars == <<options, pc, results, stage, failed, progress, escaping, evidence, resources,
          ending>>

profile == options.profile

\* Whether the file system may fail the run, or its clock step back between
\* the two times of a stage.
WritesMayFail == options.brittle

\* canonical_bundle.
Canonical == profile \in {"kind-e2e", "release"}

\* What the run has at hand for its record: the artifact, whose platform may
\* have the digest of the manifest (an image) or another one (an index); the
\* supply-chain evidence with the verdict of its policy; the deployment; and
\* whether kind-cluster-ownership.json is there.
Evidence == [artifact : {"none", "image", "index"}, supply : {"none", "refused", "passed"},
             deployment : BOOLEAN, ownership : BOOLEAN]
Planned(s) == \E i \in DOMAIN StagesOf(profile) : StagesOf(profile)[i] = s

Journal == INSTANCE ExecutionJournal
    WITH MaxClock <- 0, machine <- journal, disk <- journal, clock <- 0,
         running <- TRUE, pending <- <<>>, heldAttested <- attested

Marked(stages, status) ==
    [s \in StageIds |-> IF s \in ToSet(stages) THEN status ELSE results[s]]
Passed(stages) == Marked(stages, "PASSED")

-----------------------------------------------------------------------------
(* The progress writer. *)

\* _append_if_next finds the state recorded already.
IsSkipped(history, s) ==
    s \in Journal!KubernetesStates /\ Journal!Recorded(history, s)

\* The call goes on to append s: a state that is refused ends it.
Continued(call, s) ==
    IF ~call.ok \/ IsSkipped(call.history, s) THEN call
    ELSE IF Journal!Allowed(Journal!Current(call.history), s)
         THEN [call EXCEPT !.history = Append(@, [state |-> s, at |-> 0])]
         ELSE [call EXCEPT !.ok = FALSE]

\* What a call that appends these states has done after each of them.
After(history, states) ==
    LET call[n \in 0..Len(states)] ==
            IF n = 0 THEN [history |-> history, ok |-> TRUE]
            ELSE Continued(call[n - 1], states[n])
    IN  call

\* The journal after such a call, up to the first state that is refused.
Appended(history, states) == After(history, states)[Len(states)]

\* What a call may come to: one of its writes may fail.
Calls(history, states) ==
    LET after == After(history, states)
    IN  {Appended(history, states)} \cup
        {[after[n] EXCEPT !.ok = FALSE] :
            n \in {i \in 0..(Len(states) - 1) :
                      WritesMayFail /\ ~IsSkipped(after[i].history, states[i + 1])}}

Decided(history) == Journal!Current(history) \in {"succeeded", "failed"}

\* The states fail() and cleaned() append, if any.
FailCall(history) ==
    IF Journal!Current(history) \in {"failed", "cleaned"} THEN <<>> ELSE <<"failed">>
CleanedCall(history) == IF Decided(history) THEN <<"cleaned">> ELSE <<>>

KubernetesCompletion == SubSeq(Journal!Linear, 7, 12)

-----------------------------------------------------------------------------
Options ==
    [profile : SomeProfiles, external : BOOLEAN, missing : BOOLEAN,
     keep : BOOLEAN, keepOnFailure : BOOLEAN, brittle : BOOLEAN]

\* _preflight has accepted the options.
Init ==
    /\ options \in Options
    /\ options.external => profile = "supply-chain"
    /\ options.missing => profile # "static"
    /\ options.keep \/ options.keepOnFailure => MayRetain /\ profile # "release"
    /\ ~(options.keep /\ options.keepOnFailure)
    /\ pc = "static"
    /\ results = [s \in StageIds |-> "NONE"]
    /\ stage = "config-schema"
    /\ failed = FALSE /\ started = FALSE /\ attested = FALSE /\ escaping = FALSE
    /\ journal = <<>> /\ blamed = "none"
    /\ evidence = [artifact |-> "none", supply |-> "none", deployment |-> FALSE,
                   ownership |-> FALSE]
    /\ objects = {} /\ existing = {} /\ unknown = {}
    /\ cleaned = FALSE /\ retained = FALSE
    /\ report = <<>> /\ final = "none" /\ outcome = "running"

At(label) == pc = label
Goto(label) == pc' = label

\* `except BaseException`, with the results, the writer and the journal as
\* the exception finds them: a stage that has a result keeps it.
Raises(s, status, found, writer, history) ==
    /\ stage' = s
    /\ failed' = TRUE
    /\ results' = IF found[s] = "NONE" THEN [found EXCEPT ![s] = status] ELSE found
    /\ started' = writer
    /\ \E call \in Calls(history, IF writer THEN FailCall(history) ELSE <<>>) :
          /\ journal' = call.history
          /\ escaping' = ~call.ok
          /\ blamed' = IF Len(call.history) > Len(history) THEN s ELSE blamed
    /\ Goto("cleanup")

\* Nothing has been raised; the journal stands as the call has left it.
Proceeds(s, found, writer, history, next) ==
    /\ stage' = s
    /\ results' = found
    /\ started' = writer
    /\ journal' = history
    /\ Goto(next)
    /\ UNCHANGED <<failed, blamed, escaping>>

\* The journal call that follows a stage's result.
Announces(s, found, call, next) ==
    \E c \in Calls(journal, IF started THEN call ELSE <<>>) :
        IF c.ok THEN Proceeds(s, found, started, c.history, next)
        ELSE Raises(s, "FAILED", found, started, c.history)

\* A stage that raises, or that passes and is then reported.
Stage(label, s, passes, call, next) ==
    /\ At(label)
    /\ \/ Raises(s, "FAILED", results, started, journal)
       \/ Announces(s, Passed(passes), call, next)
    /\ UNCHANGED <<options, attested, evidence, resources, ending>>

-----------------------------------------------------------------------------
(* Up to the first journal entry. *)

\* The static stages, the build inputs and the plan; without a plan execute
\* has nothing to report and raises.
Static ==
    /\ At("static")
    /\ stage' = "generated-files"
    /\ results' = Passed(StaticStages)
    /\ \/ /\ Goto(IF profile = "static" \/ options.missing \/ options.external
                  THEN "begin" ELSE "registry")
          /\ UNCHANGED <<failed, outcome>>
       \/ /\ WritesMayFail
          /\ Goto("done")
          /\ failed' = TRUE
          /\ outcome' = "raised"
    /\ UNCHANGED <<options, progress, escaping, evidence, resources, cleaned, retained,
                   report, final>>

\* registry.start(), which may leave a container behind when it raises.
StartRegistry ==
    /\ At("registry")
    /\ objects' = {"registry"}
    /\ \/ /\ existing' = {"registry"}
          /\ UNCHANGED unknown
          /\ Proceeds("registry-lifecycle", results, FALSE, journal, "record")
       \/ /\ existing' \in {{}, {"registry"}}
          /\ unknown' = existing'
          /\ Raises("registry-lifecycle", "FAILED", results, FALSE, journal)
    /\ UNCHANGED <<options, attested, evidence, ending>>

\* registry-ownership.json and resources.json.
RecordRegistry ==
    /\ At("record")
    /\ \/ Proceeds("registry-lifecycle", results, FALSE, journal, "begin")
       \/ /\ WritesMayFail
          /\ Raises("registry-lifecycle", "FAILED", results, FALSE, journal)
    /\ UNCHANGED <<options, attested, evidence, resources, ending>>

\* plan.json, policy.json and progress.start(); the lightweight profiles
\* have a plan only.  This is where missing tools are reported.
Begin ==
    /\ At("begin")
    /\ LET s == IF options.missing \/ profile = "static" THEN "generated-files"
                ELSE "registry-lifecycle"
       IN \/ WritesMayFail /\ Raises(s, "FAILED", results, FALSE, journal)
          \/ \E c \in Calls(journal, IF Canonical THEN <<"planned", "validated">>
                                     ELSE <<>>) :
                \/ /\ ~c.ok
                   /\ Raises(s, "FAILED", results, TRUE, c.history)
                \/ /\ c.ok /\ options.missing
                   /\ Raises("registry-lifecycle", "BLOCKED", results, Canonical,
                             c.history)
                \/ /\ c.ok /\ ~options.missing
                   /\ Proceeds(s, results, Canonical, c.history,
                               IF profile = "static" THEN "cleanup" ELSE "announce")
    /\ UNCHANGED <<options, attested, evidence, resources, ending>>

-----------------------------------------------------------------------------
(* The artifact. *)

RegistryLifecycle ==
    /\ At("announce")
    /\ Announces("registry-lifecycle", Passed(<<"registry-lifecycle">>),
                 <<"building">>, "build")
    /\ UNCHANGED <<options, attested, evidence, resources, ending>>

BuildOnce ==
    Stage("build", "build-once", <<"build-once">>, <<"built", "pushing">>, "resolve")

\* Faulty variant: the digests are not compared.
ResolvedArtifactUncompared(build) == IF build = "platforms" THEN "none" ELSE build

\* _resolved_artifact: refused are several platforms, and a platform whose
\* digest is not that of the tag.
ResolvedArtifact(build) == IF build = "image" THEN "image" ELSE "none"

\* What validate_artifact_contract finds in the artifact: the other subjects
\* are taken from it, or compared with it by the executor.
SameDigest(held) == held.artifact # "index"

\* The artifact is held from before it is validated, so that a failure of
\* the later checks leaves it in the record.
ResolveDigest ==
    /\ At("resolve")
    /\ \E build \in {"image", "index", "platforms"} :
          evidence' = [evidence EXCEPT !.artifact = ResolvedArtifact(build)]
    /\ \/ Raises("resolve-digest", "FAILED", results, started, journal)
       \/ /\ evidence'.artifact # "none" /\ SameDigest(evidence')
          /\ Announces("resolve-digest", Passed(<<"resolve-digest">>),
                       <<"digest_resolved">>, "supply")
    /\ UNCHANGED <<options, attested, resources, ending>>

\* SBOM, scan and provenance are generated together; findings beyond the
\* policy fail the middle one after the fact, and the versions of the tools
\* are compared when the evidence is there.
SupplyChain ==
    /\ At("supply")
    /\ \E verdict \in {"none", "refused", "passed"} :
          /\ evidence' = [evidence EXCEPT !.supply = verdict]
          /\ \/ Raises("sbom", "FAILED", results, started, journal)
             \/ /\ verdict = "refused"
                /\ Raises("vulnerability-scan", "FAILED", Passed(<<"sbom", "provenance">>),
                          started, journal)
             \/ /\ verdict = "passed"
                /\ Announces("sbom", Passed(<<"sbom", "vulnerability-scan", "provenance">>),
                             <<>>, "contract")
    /\ UNCHANGED <<options, attested, resources, ending>>

ArtifactContract ==
    Stage("contract", "artifact-contract", <<"artifact-contract">>, <<>>,
          IF Canonical THEN "schema" ELSE "cleanup")

KubernetesSchema ==
    Stage("schema", "kubernetes-schema", <<"kubernetes-schema">>, <<>>, "cluster")

-----------------------------------------------------------------------------
(* The cluster and the Kubernetes executor. *)

\* cluster.create(), its record, and the registry's connection to it.
CreateCluster ==
    /\ At("cluster")
    /\ objects' = objects \cup {"cluster"}
    /\ \/ /\ existing' = existing \cup {"cluster"}
          /\ UNCHANGED unknown
          /\ \/ /\ evidence' = [evidence EXCEPT !.ownership = TRUE]
                /\ Proceeds("server-side-dry-run", results, started, journal, "dry-run")
             \/ /\ \E written \in {TRUE, ~WritesMayFail} :
                      evidence' = [evidence EXCEPT !.ownership = written]
                /\ Raises("server-side-dry-run", "FAILED", results, started, journal)
       \/ /\ existing' \in {existing, existing \cup {"cluster"}}
          /\ unknown' = unknown \cup (existing' \ existing)
          /\ UNCHANGED evidence
          /\ Raises("server-side-dry-run", "FAILED", results, started, journal)
    /\ UNCHANGED <<options, attested, ending>>

ServerSideDryRun ==
    Stage("dry-run", "server-side-dry-run", <<>>, <<"cluster_preparing">>, "namespace")

\* Faulty variant: the stage that failed counts as completed.
KubernetesProgressInclusive(executorStage) ==
    CASE executorStage = "namespace" -> 0
      [] executorStage \in {"apply", "applied"} -> 2
      [] executorStage = "rollout" -> 3
      [] executorStage = "runtime-attestation" -> 4
      [] executorStage = "smoke" -> 5
      [] executorStage = "rollback" -> 6

\* _kubernetes_progress: how many stages were completed when the executor
\* fails in one of its own; the one after them is the stage that failed.
KubernetesProgress(executorStage) ==
    CASE executorStage = "namespace" -> 0
      [] executorStage \in {"apply", "applied"} -> 1
      [] executorStage = "rollout" -> 2
      [] executorStage = "runtime-attestation" -> 3
      [] executorStage = "smoke" -> 4
      [] executorStage = "rollback" -> 6

\* An exception out of the handler, before it has recorded anything.
HandlerRaises(history) ==
    /\ escaping' = TRUE
    /\ journal' = history
    /\ Goto("cleanup")
    /\ UNCHANGED <<results, stage, failed, started, blamed>>

\* Faulty variant: the paths are listed once, but the stage that failed
\* counts as completed.
RecordKubernetesFailureInclusive(step, inventory, history) ==
    LET completed == KubernetesProgressInclusive(step)
    IN  Raises(ClusterStages[completed + 1], "FAILED",
               Passed(SubSeq(ClusterStages, 1, completed)), started, history)

\* _record_kubernetes_failure.  The executor attaches an inventory of all
\* files under kubernetes/ to the errors of its own steps, and the handler
\* puts the manifests and the preflight's record in front of it, which are
\* among them: StageResult refuses a path that is given twice, and the handler
\* raises.  Only an error from before the first step has no inventory.
RecordKubernetesFailure(step, inventory, history) ==
    LET completed == KubernetesProgress(step)
    IN  IF inventory THEN HandlerRaises(history)
        ELSE Raises(ClusterStages[completed + 1], "FAILED",
                    Passed(SubSeq(ClusterStages, 1, completed)), started, history)

\* A step of KubernetesExecutor.execute and the event it reports.  It fails
\* with an error of the executor, or with any other exception, which is that
\* of the current stage.
ExecutorStep(label, event, next) ==
    LET Fails(history) ==
            \/ \E inventory \in {TRUE, label # "namespace"} :
                  RecordKubernetesFailure(label, inventory, history)
            \/ Raises("server-side-dry-run", "FAILED", results, started, history)
    IN  /\ At(label)
        /\ \/ Fails(journal)
           \/ \E c \in Calls(journal, event) :
                 IF c.ok THEN Proceeds(stage, results, started, c.history, next)
                 ELSE Fails(c.history)
        /\ UNCHANGED <<options, evidence, resources, ending>>

Executor ==
    \/ ExecutorStep("namespace", <<>>, "apply") /\ UNCHANGED attested
    \/ ExecutorStep("apply", <<"applying">>, "rollout") /\ UNCHANGED attested
    \/ ExecutorStep("rollout", <<"waiting_ready">>, "applied") /\ UNCHANGED attested
    \/ ExecutorStep("applied", <<>>, "runtime-attestation") /\ UNCHANGED attested
    \/ /\ ExecutorStep("runtime-attestation", <<>>, "smoke")
       /\ attested' = At("runtime-attestation")
    \/ /\ ExecutorStep("smoke", IF attested THEN <<"smoke_testing", "attesting">>
                                ELSE <<"smoke_testing">>, "rollback")
       /\ UNCHANGED attested
    \/ ExecutorStep("rollback", <<"collecting_evidence">>, "deployed")
       /\ UNCHANGED attested

\* The deployment evidence is derived, held, written and checked; then every
\* stage of the executor passes at once.
Deployed ==
    /\ At("deployed")
    /\ \E derived \in BOOLEAN :
          /\ evidence' = [evidence EXCEPT !.deployment = derived]
          /\ \/ Raises("server-side-dry-run", "FAILED", results, started, journal)
             \/ /\ derived
                /\ Announces("server-side-dry-run", Passed(ClusterStages),
                             KubernetesCompletion, "cleanup")
    /\ UNCHANGED <<options, attested, resources, ending>>

-----------------------------------------------------------------------------
(* The `finally` block. *)

\* Where execute goes when an exception handler has raised and when not.
AfterCleanup(failure) ==
    /\ Goto(IF escaping THEN "done"
            ELSE IF profile = "release" /\ ~failure THEN "release" ELSE "finish")
    /\ outcome' = IF escaping THEN "raised" ELSE outcome

NoCleanup ==
    /\ At("cleanup")
    /\ ~Planned("cleanup")
    /\ AfterCleanup(failed)
    /\ UNCHANGED <<options, results, stage, failed, progress, escaping, evidence, resources,
                   cleaned, retained, report, final>>

Retains ==
    /\ objects # {}
    /\ options.keep \/ (options.keepOnFailure /\ failed)

\* cluster.detach() removes the cluster's private files, and may raise.
Retain ==
    /\ At("cleanup")
    /\ Planned("cleanup")
    /\ Retains
    /\ stage' = "cleanup"
    /\ \/ /\ results' = Marked(<<"cleanup">>, "NOT_APPLICABLE")
          /\ retained' = TRUE
          /\ AfterCleanup(failed)
       \/ /\ "cluster" \in objects /\ WritesMayFail
          /\ Goto("done")
          /\ outcome' = "raised"
          /\ UNCHANGED <<results, retained>>
    /\ UNCHANGED <<options, failed, progress, escaping, evidence, resources, cleaned, report,
                   final>>

\* Faulty variant: only a successful run is cleaned.
CleanupOnSuccessOnly ==
    /\ At("cleanup")
    /\ Planned("cleanup")
    /\ ~Retains
    /\ stage' = "cleanup"
    /\ existing' = IF failed THEN existing ELSE {}
    /\ results' = Passed(<<"cleanup">>)
    /\ cleaned' = TRUE
    /\ AfterCleanup(failed)
    /\ UNCHANGED <<options, failed, progress, escaping, evidence, objects, unknown, retained,
                   report, final>>

\* Every removal is tried, whatever the others came to.  A registry that is
\* gone fails its logs and a cluster that was never identified is refused;
\* only a registry whose start failed can be left behind silently.
Cleanup ==
    /\ At("cleanup")
    /\ Planned("cleanup")
    /\ ~Retains
    /\ stage' = "cleanup"
    /\ \/ /\ objects \cap {"registry"} \subseteq existing
          /\ "cluster" \notin unknown
          /\ existing' \in {{}, unknown}
          /\ results' = Passed(<<"cleanup">>)
          /\ cleaned' = TRUE
          /\ AfterCleanup(failed)
          /\ UNCHANGED failed
       \/ /\ objects # {}
          /\ existing' \in SUBSET existing
          /\ results' = Marked(<<"cleanup">>, "FAILED")
          /\ failed' = TRUE
          /\ AfterCleanup(TRUE)
          /\ UNCHANGED cleaned
    /\ UNCHANGED <<options, progress, escaping, evidence, objects, unknown, retained, report,
                   final>>

-----------------------------------------------------------------------------
(* The release gates, the report and the bundle. *)

\* Faulty variant: a failed gate is recorded, but does not fail the run.
ReleaseForgiving ==
    /\ At("release")
    /\ \E n \in {0, 2, 3, 4} :
            LET gate == ReleaseGates[n + 1]
            IN  /\ stage' = gate
                /\ results' = [Passed(SubSeq(ReleaseGates, 1, n)) EXCEPT ![gate] = "FAILED"]
                /\ journal' = Appended(journal, FailCall(journal)).history
                /\ blamed' = gate
    /\ Goto("finish")
    /\ UNCHANGED <<options, failed, started, attested, escaping, evidence, resources, ending>>

\* The gates stop at the first that fails; the local assets are one check.
Release ==
    /\ At("release")
    /\ \/ /\ results' = Passed(ReleaseGates)
          /\ stage' = "package"
          /\ Goto("finish")
          /\ UNCHANGED <<failed, journal, blamed, outcome>>
       \/ \E n \in {0, 2, 3, 4} :
            LET gate == ReleaseGates[n + 1]
            IN  /\ stage' = gate
                /\ results' = [Passed(SubSeq(ReleaseGates, 1, n)) EXCEPT ![gate] = "FAILED"]
                /\ failed' = TRUE
                /\ \E c \in Calls(journal, FailCall(journal)) :
                      /\ journal' = c.history
                      /\ blamed' = IF c.ok THEN gate ELSE blamed
                      /\ Goto(IF c.ok THEN "finish" ELSE "done")
                      /\ outcome' = IF c.ok THEN outcome ELSE "raised"
    /\ UNCHANGED <<options, started, attested, escaping, evidence, resources, cleaned,
                   retained, report, final>>

\* Faulty variant: the prefix is only cut where a result is missing.
StrictPrefixUncut ==
    LET stages == StagesOf(profile)
        reported == {n \in 0..Len(stages) : \A i \in 1..n : results[stages[i]] # "NONE"}
        length == CHOOSE n \in reported : \A m \in reported : m <= n
    IN  [i \in 1..length |-> [stage |-> stages[i], status |-> results[stages[i]]]]

\* strict_prefix: the results up to the first that is missing or has not
\* passed.
StrictPrefix ==
    LET stages == StagesOf(profile)
        all(n) == \A i \in 1..n : results[stages[i]] = "PASSED"
        reported == {n \in 0..Len(stages) :
                        /\ \A i \in 1..n : results[stages[i]] # "NONE"
                        /\ n > 0 => all(n - 1)}
        length == CHOOSE n \in reported : \A m \in reported : m <= n
    IN  [i \in 1..length |-> [stage |-> stages[i], status |-> results[stages[i]]]]

\* All planned stages, those that did not run marked as not applicable.
Filled ==
    [i \in DOMAIN StagesOf(profile) |->
        LET s == StagesOf(profile)[i]
        IN  [stage |-> s,
             status |-> IF results[s] = "NONE" THEN "NOT_APPLICABLE" ELSE results[s]]]

\* Faulty variant: only exceptions fail a run.
FinishIgnoringPolicy ==
    /\ At("finish")
    /\ report' = IF Canonical /\ failed THEN StrictPrefix ELSE Filled
    /\ final' = IF failed THEN "FAILED" ELSE "PASSED"
    /\ Goto("close")
    /\ UNCHANGED <<options, results, stage, failed, progress, escaping, evidence, resources,
                   cleaned, retained, outcome>>

\* What the run reports, and the status it gives itself.
Finish ==
    /\ At("finish")
    /\ report' = IF Canonical /\ failed THEN StrictPrefix ELSE Filled
    /\ LET failures == RequiredStageFailures(profile, report')
       IN  /\ failed' = (failed \/ failures # {})
           /\ final' = IF ~failed' THEN "PASSED"
                       ELSE IF \E i \in DOMAIN report' :
                                   /\ report'[i].stage \in failures
                                   /\ report'[i].status = "BLOCKED"
                       THEN "BLOCKED" ELSE "FAILED"
    /\ Goto("close")
    /\ UNCHANGED <<options, results, stage, progress, escaping, evidence, resources,
                   cleaned, retained, outcome>>

\* _verify_state_record.
StateRecordValid(history) ==
    LET recorded(s) == Journal!Recorded(history, s)
    IN  /\ Journal!Current(history) \in {"succeeded", "failed", "cleaned"}
        /\ IF final = "PASSED" THEN recorded("succeeded") /\ ~recorded("failed")
           ELSE recorded("failed") /\ ~recorded("succeeded")

\* _validate_evidence_requirements.
EvidenceRequired ==
    LET artifact == evidence.artifact # "none"
        supply == evidence.supply # "none"
    IN  /\ supply => artifact
        /\ evidence.deployment => artifact /\ supply
        /\ profile = "static" => ~artifact
        /\ evidence.deployment => Canonical
        /\ final = "PASSED" => /\ profile # "static" => artifact /\ supply
                               /\ Canonical => evidence.deployment
                               /\ evidence.supply # "refused"

\* The cleanup's result of a run whose resources are kept names the
\* ownership record of every resource (_verify_declared_files).
DeclaredFilesExist == retained /\ "cluster" \in objects => evidence.ownership

\* assemble_evidence_bundle: validate_runtime_records, whose last two checks
\* are those of the evidence, then the journal and the files.
BundleAccepted(history) ==
    /\ ReportValid(profile, report, final)
    /\ EvidenceRequired
    /\ SameDigest(evidence)
    /\ StateRecordValid(history)
    /\ DeclaredFilesExist

\* The journal is brought to its end and the bundle assembled.
CloseBundle ==
    /\ At("close") /\ Canonical /\ started
    /\ Goto("done")
    /\ \E decide \in Calls(journal, IF final = "PASSED"
                                    THEN KubernetesCompletion \o <<"succeeded">>
                                    ELSE FailCall(journal)) :
       \E clean \in IF decide.ok /\ cleaned
                    THEN Calls(decide.history, CleanedCall(decide.history))
                    ELSE {decide} :
          /\ journal' = clean.history
          /\ blamed' = IF /\ Journal!Recorded(decide.history, "failed")
                          /\ ~Journal!Recorded(journal, "failed")
                       THEN stage ELSE blamed
          /\ \/ /\ clean.ok /\ BundleAccepted(clean.history)
                /\ outcome' = "closed"
             \/ /\ ~clean.ok \/ ~BundleAccepted(clean.history) \/ WritesMayFail
                /\ outcome' = "raised"
    /\ UNCHANGED <<options, results, stage, failed, started, attested, escaping, evidence,
                   resources, cleaned, retained, report, final>>

\* `assert progress is not None`.
CloseWithoutWriter ==
    /\ At("close") /\ Canonical /\ ~started
    /\ Goto("done")
    /\ outcome' = "raised"
    /\ UNCHANGED <<options, results, stage, failed, progress, escaping, evidence, resources,
                   cleaned, retained, report, final>>

WriteRecords ==
    /\ At("close") /\ ~Canonical
    /\ Goto("done")
    /\ outcome' \in IF WritesMayFail THEN {"records", "raised"} ELSE {"records"}
    /\ UNCHANGED <<options, results, stage, failed, progress, escaping, evidence, resources,
                   cleaned, retained, report, final>>

Done == At("done") /\ UNCHANGED vars

Next ==
    \/ Static \/ StartRegistry \/ RecordRegistry \/ Begin \/ RegistryLifecycle
    \/ BuildOnce \/ ResolveDigest \/ SupplyChain \/ ArtifactContract
    \/ KubernetesSchema \/ CreateCluster \/ ServerSideDryRun \/ Executor \/ Deployed
    \/ NoCleanup \/ Retain \/ Cleanup \/ Release
    \/ Finish \/ CloseBundle \/ CloseWithoutWriter \/ WriteRecords
    \/ Done

Spec == Init /\ [][Next]_vars

-----------------------------------------------------------------------------
Labels ==
    {"static", "registry", "record", "begin", "announce", "build", "resolve", "supply",
     "contract", "schema", "cluster", "dry-run", "namespace", "apply", "rollout",
     "applied", "runtime-attestation", "smoke", "rollback", "deployed", "cleanup",
     "release", "finish", "close", "done"}
Kinds == {"registry", "cluster"}

\* The values of the variables that say where the run is.
StateOK ==
    /\ options \in Options
    /\ pc \in Labels
    /\ results \in [StageIds -> Statuses]
    /\ stage \in StageIds
    /\ {failed, started, attested, escaping, cleaned, retained} \subseteq BOOLEAN
    /\ journal \in Seq(Journal!Transition)
    /\ blamed \in StageIds \cup {"none"}
    /\ objects \subseteq Kinds /\ existing \subseteq objects /\ unknown \subseteq objects
    /\ report \in Seq([stage : StageIds, status : Statuses \ {"NONE"}])
    /\ final \in {"none", "PASSED", "FAILED", "BLOCKED"}
    /\ outcome \in {"running", "closed", "records", "raised"}

\* The values the variables range over.
TypeOK == StateOK /\ evidence \in Evidence

Finished == At("done")
ReportedPassed(s) ==
    \E i \in DOMAIN report : report[i] = [stage |-> s, status |-> "PASSED"]

\* A run that reports success has earned it: every stage of its profile has
\* passed, nothing it created is left or kept, and the journal of a canonical
\* run reads from "planned" to "succeeded" to "cleaned".
SuccessIsEarned ==
    Finished /\ outcome \in {"closed", "records"} /\ final = "PASSED" =>
        /\ RequiredStageFailures(profile, report) = {}
        /\ existing = {} /\ ~retained
        /\ Canonical => /\ \A i \in 1..13 : journal[i].state = Journal!Linear[i]
                        /\ Len(journal) = 14 /\ journal[14].state = "cleaned"

\* The error of an executor's step, lost in its handler: the journal ends in
\* the middle of the deployment.
ExecutorErrorLost == escaping /\ Journal!Current(journal) \in Journal!KubernetesStates

\* A run that has its journal, and can write to its directory, ends with a
\* bundle its own validator accepts, wherever it failed: reports, final status,
\* evidence and journal are written by different handlers and must agree.
\* There are three exceptions: kept resources of an otherwise successful run,
\* a cluster that is to be kept and has no ownership record (for both see
\* RetainedRunIsClosed), and an error of the executor, which its handler loses
\* (see ExecutorFailureIsClosed).
StartedRunCloses ==
    Finished /\ Canonical /\ started /\ ~WritesMayFail =>
        \/ outcome = "closed"
        \/ retained /\ RequiredStageFailures(profile, report) = {"cleanup"}
        \/ ~DeclaredFilesExist
        \/ ExecutorErrorLost

\* A closed bundle claims no stage of the deployment that the journal has not
\* seen: the executor's failure is translated into passed stages by a table.
PassedStagesWereSeen ==
    Finished /\ outcome = "closed" =>
        \A claim \in {<<"server-side-dry-run", "cluster_preparing">>,
                      <<"deployment", "applying">>, <<"rollout", "waiting_ready">>,
                      <<"health", "smoke_testing">>, <<"readiness", "smoke_testing">>,
                      <<"rollback", "collecting_evidence">>} :
            ReportedPassed(claim[1]) => Journal!Recorded(journal, claim[2])

\* However execute ends, also by an exception out of a handler, the cleanup
\* was tried once there was something to clean, and what is left is known:
\* kept on request, reported by a failed cleanup, or never identified.
LeftoversAreKnown ==
    Finished =>
        \/ Retains
        \/ results["cleanup"] = "FAILED"
        \/ existing \subseteq unknown

\* Whatever raises, and in which handler, the journal is one the state machine
\* accepts as a whole, with a failure in it only if the run has failed; and the
\* report of a closed bundle tells the same outcome and blames the same stage.
JournalTellsTheOutcome ==
    /\ Journal!IsHistory(journal)
    /\ Journal!Recorded(journal, "failed") => failed
    /\ outcome = "closed" =>
        /\ Journal!Recorded(journal, "succeeded") <=> final = "PASSED"
        /\ Finished /\ final # "PASSED" => report[Len(report)].stage = blamed

\* Documented: "when execution reaches the evidence boundary after a failure,
\* the bundle is still closed".
FailedRunIsClosed ==
    Finished /\ Canonical /\ ~WritesMayFail /\ final = "FAILED" =>
        outcome = "closed"

\* Documented: the same sentence, of a run that has its journal and keeps
\* nothing; the tests state it of an executor of their own, whose errors carry
\* no inventory.
ExecutorFailureIsClosed ==
    Finished /\ Canonical /\ started /\ ~WritesMayFail /\ ~retained =>
        outcome = "closed"

\* Documented: what `--keep-environment-on-failure` is for.
FailedEnvironmentIsKept ==
    Finished /\ options.keepOnFailure /\ final # "PASSED" /\ objects # {} =>
        retained \/ results["cleanup"] = "FAILED" \/ WritesMayFail

\* Documented: a run whose resources are kept on request records its cleanup
\* as not applicable and fails its gate; so it too ends with a bundle.
RetainedRunIsClosed ==
    Finished /\ Canonical /\ started /\ ~WritesMayFail /\ retained =>
        outcome = "closed"
=============================================================================
