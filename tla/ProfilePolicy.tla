--------------------------- MODULE ProfilePolicy ---------------------------
(***************************************************************************)
(* The validation profiles and the stages each of them requires            *)
(* (policies.py), and what the offline validator demands of the stages a   *)
(* run reports (runtime_validation.py).  A report is a sequence of records *)
(* [stage, status].                                                        *)
(***************************************************************************)
EXTENDS Naturals, Sequences

StaticStages ==
    <<"config-schema", "template-lock", "adapter-contracts", "generated-files">>

SupplyChainCoreStages ==
    StaticStages \o
    <<"registry-lifecycle", "build-once", "resolve-digest", "sbom",
      "vulnerability-scan", "provenance", "artifact-contract">>

\* The stages of the deployment that the Kubernetes executor reports.
ClusterStages ==
    <<"server-side-dry-run", "deployment", "rollout", "pod-image", "health",
      "readiness", "rollback">>

KindStages ==
    SupplyChainCoreStages \o <<"kubernetes-schema">> \o ClusterStages \o <<"cleanup">>

ReleaseGates ==
    <<"package", "release-assets", "release-download-verification",
      "working-tree", "tag-commit">>

Profiles == {"static", "supply-chain", "kind-e2e", "release"}

\* required_stages, which ExecutionPlan.create plans in this order.
StagesOf(profile) ==
    CASE profile = "static" -> StaticStages
      [] profile = "supply-chain" -> SupplyChainCoreStages \o <<"cleanup">>
      [] profile = "kind-e2e" -> KindStages
      [] profile = "release" -> KindStages \o ReleaseGates

StageIds == {StagesOf("release")[i] : i \in DOMAIN StagesOf("release")}

\* The statuses a stage of a run can have; "NONE" while it has no result.
Statuses == {"NONE", "PASSED", "FAILED", "BLOCKED", "NOT_APPLICABLE"}

\* required_stage_failures: required stages that are missing or not passed.
RequiredStageFailures(profile, report) ==
    {s \in {StagesOf(profile)[i] : i \in DOMAIN StagesOf(profile)} :
        ~ \E i \in DOMAIN report : report[i] = [stage |-> s, status |-> "PASSED"]}

-----------------------------------------------------------------------------
Reports(report, status) == \E i \in DOMAIN report : report[i].status = status

\* _validate_final_status.
FinalStatusValid(report, final) ==
    CASE final = "PASSED" -> \A i \in DOMAIN report : report[i].status = "PASSED"
      [] final = "FAILED" -> Reports(report, "FAILED")
      [] final = "BLOCKED" -> Reports(report, "BLOCKED") /\ ~Reports(report, "FAILED")

\* _validate_stage_sequence.
StageSequenceValid(profile, report, final) ==
    /\ Len(report) <= Len(StagesOf(profile))
    /\ \A i \in DOMAIN report : report[i].stage = StagesOf(profile)[i]
    /\ IF final = "PASSED" THEN Len(report) = Len(StagesOf(profile))
       ELSE /\ report # <<>>
            /\ report[Len(report)].status = final
            /\ \A i \in 1..(Len(report) - 1) : report[i].status = "PASSED"

\* The part of validate_runtime_records that is about stages.
ReportValid(profile, report, final) ==
    /\ FinalStatusValid(report, final)
    /\ StageSequenceValid(profile, report, final)
    /\ final = "PASSED" => RequiredStageFailures(profile, report) = {}
=============================================================================
