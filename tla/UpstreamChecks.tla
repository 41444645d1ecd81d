--------------------------- MODULE UpstreamChecks ---------------------------
(***************************************************************************)
(* What the adapters ask of the template at its locked commit, and what    *)
(* they make of the answers: a status for each check, which decides        *)
(* whether the composition passes, and the statuses the Kubernetes adapter *)
(* writes into the generated platform-context.json.                        *)
(***************************************************************************)
EXTENDS Naturals, Sequences, SequencesExt

\* A command succeeds as expected, is not installed, cannot be run (or times
\* out), exits with an error, or succeeds with output that is not the expected.
Answers == {"ok", "absent", "raises", "exits", "odd"}

PlanQueries == <<"profileCatalog", "environmentPresetPlan", "renderMatrix", "platformPlan">>
JenkinsPlans == <<"jobPlan", "servicePlan">>
RenderValidators == {"renderedBundle", "securityBaseline", "placeholders"}
Builders == {"kustomize", "kubectl"}
Commands ==
    ToSet(PlanQueries) \cup ToSet(JenkinsPlans) \cup RenderValidators \cup Builders
    \cup {"dockerPlan", "dockerBuild", "jobDsl", "groovy", "renderPlatformAssets",
          "kubeconform"}

Blocking == {"FAILED", "BLOCKED_MISSING_REQUIRED_TOOL"}
Statuses == Blocking \cup {"PASSED", "SKIPPED_MISSING_OPTIONAL_TOOL", "NOT_RUN"}

Required(answer) ==
    CASE answer = "ok" -> "PASSED"
      [] answer = "absent" -> "BLOCKED_MISSING_REQUIRED_TOOL"
      [] OTHER -> "FAILED"
Optional(answer) ==
    CASE answer = "ok" -> "PASSED"
      [] answer = "absent" -> "SKIPPED_MISSING_OPTIONAL_TOOL"
      [] OTHER -> "FAILED"

\* Commands of a list are asked in turn until one finds its interpreter missing.
Asked(commands, host) ==
    {commands[i] : i \in {i \in DOMAIN commands :
                             \A j \in 1..(i - 1) : host[commands[j]] # "absent"}}

\* The Docker template's no-push validation, and the local build if requested:
\* output that is not the expected is not looked at.
ExitOnly(answer) == IF answer = "odd" THEN "ok" ELSE answer
DockerStatuses(host, build) ==
    LET plan == Required(ExitOnly(host["dockerPlan"]))
    IN  {plan} \cup (IF build /\ plan = "PASSED"
                     THEN {Optional(ExitOnly(host["dockerBuild"]))} ELSE {})

\* The Jenkins template's two JSON plans and its Job DSL exporter, all run by
\* pwsh; groovy is optional.
JenkinsStatuses(host) ==
    {Required(host[p]) : p \in Asked(JenkinsPlans, host)}
    \cup {Required(host["jobDsl"]), Optional(ExitOnly(host["groovy"]))}

\* The validators of the rendered platform bundle: nothing rendered fails them;
\* a bundle validated without kubeconform counts as skipped, and placeholders
\* found as a failure, though both commands exit with 0.
ValidatorStatus(v, host) ==
    CASE host["renderPlatformAssets"] # "ok" -> "FAILED"
      [] host[v] = "odd" /\ v = "renderedBundle" -> "SKIPPED_MISSING_OPTIONAL_TOOL"
      [] host[v] = "odd" /\ v = "securityBaseline" -> "PASSED"
      [] OTHER -> Required(host[v])

\* platform-context.json
ContextNotRun == [queries |-> <<>>, render |-> "NOT_RUN", validators |-> <<>>]
Context(host) ==
    [queries |-> [q \in Asked(PlanQueries, host) |-> Required(host[q])],
     render |-> Required(host["renderPlatformAssets"]),
     validators |-> [v \in RenderValidators |-> ValidatorStatus(v, host)]]

\* kustomize and kubectl render the overlays, kubeconform checks what either
\* rendered.
SchemaStatus(host) ==
    CASE host["kubeconform"] = "absent" -> "SKIPPED_MISSING_OPTIONAL_TOOL"
      [] \A b \in Builders : host[b] = "absent" -> "SKIPPED_MISSING_OPTIONAL_TOOL"
      [] \A b \in Builders : host[b] \notin {"ok", "odd"} -> "FAILED"
      [] OTHER -> Optional(ExitOnly(host["kubeconform"]))
ExternalStatuses(host) ==
    {Optional(ExitOnly(host[b])) : b \in Builders} \cup {SchemaStatus(host)}

KubernetesStatuses(host) ==
    {Required(host[q]) : q \in Asked(PlanQueries, host)}
    \cup {Required(host["renderPlatformAssets"])}
    \cup {ValidatorStatus(v, host) : v \in RenderValidators}

Passes(statuses) == statuses \cap Blocking = {}
=============================================================================
