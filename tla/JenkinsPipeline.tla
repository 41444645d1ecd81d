--------------------------- MODULE JenkinsPipeline ---------------------------
(***************************************************************************)
(* The Jenkinsfile that the Jenkins adapter renders from the normalized    *)
(* model, as data: a sequence of stages, each with its branch condition    *)
(* (`when`), the commands of its steps and what its `post { failure }`     *)
(* does.  A command stands for one sh/script step of the stage.            *)
(*                                                                         *)
(* The checks that `generate` runs on it before anything is written are    *)
(* operators on that data: the structural diagnostic of the adapter, the   *)
(* v0.2 artifact contract and the part of the semantic checks of           *)
(* validation.py that speaks of routes, approval and rollback.             *)
(***************************************************************************)
EXTENDS Naturals, Sequences, FiniteSets

CONSTANTS
    Branches,   \* the branches of the multibranch job
    Commits,    \* the revisions a branch head may be at
    Versions,   \* values of the VERSION parameter of a semver pipeline
    Patterns,   \* the branch patterns a configuration may name
    Globs,      \* the branches each pattern matches, comparator GLOB
    Slugs       \* the sanitized name of each branch; two may coincide

ASSUME GlobsMatchBranches == Globs \in [Patterns -> SUBSET Branches]
ASSUME EveryBranchHasASlug == DOMAIN Slugs = Branches

Environments == {"dev", "staging", "production"}
Strategies == {"fixed", "git-sha", "semver", "branch-sha"}
\* How vulnerability scanning is configured: not at all, the legacy shape with
\* a threshold or with failOn: never, the v0.2 policy.
Scans == {"off", "legacy", "never", "policy"}

\* What the pipeline depends on in the normalized model.
DeliveryModels ==
    [strategy : Strategies, routes : [Environments -> SUBSET Patterns],
     approval : BOOLEAN, requireApproval : BOOLEAN,
     rollback : [Environments -> BOOLEAN],
     sbom : BOOLEAN, scan : Scans, provenance : BOOLEAN, cache : BOOLEAN]

-----------------------------------------------------------------------------
(* Rendering.                                                              *)

\* No `when` block, and the block of a routed stage: anyOf its patterns, or
\* `expression { return false }` when there are none.
Always == [routed |-> FALSE, patterns |-> {}]
Routed(patterns) == [routed |-> TRUE, patterns |-> patterns]
RoutedPatterns(m) == UNION {m.routes[e] : e \in Environments}

Enters(stage, branch) ==
    stage.when.routed => \E p \in stage.when.patterns : branch \in Globs[p]

Stage(name, when, steps) ==
    [name |-> name, when |-> when, env |-> "none", steps |-> steps, undo |-> FALSE]

\* Faulty: every image of the project gets the same tag.
TagOfLatest(m, branch, commit, version) == <<"fixed">>

\* The tag an image of `branch` at `commit` is pushed under.
TagOf(m, branch, commit, version) ==
    CASE m.strategy = "fixed" -> <<"fixed">>
      [] m.strategy = "git-sha" -> <<"sha", commit>>
      [] m.strategy = "semver" -> <<"version", version>>
      [] m.strategy = "branch-sha" -> <<"branch", Slugs[branch], commit>>
\* VERSION must not be empty.
TagIsConcrete(m, version) == m.strategy = "semver" => version \in Versions

ImageIntentStage == Stage("Resolve Image Intent", Always, <<"intent">>)
DockerTemplateStage == Stage("Resolve Docker Template", Always, <<"template">>)
\* push: refuse if the invocation marker exists, write it, build.sh --push.
BuildOnceStage(m) == Stage("Build Once", Routed(RoutedPatterns(m)), <<"push">>)
\* inspect: digest of the bytes behind the tag, read again by digest.
\* recheck: the tag still resolves to it; then artifact.json is written.
ResolveDigestStage(m) ==
    Stage("Resolve Digest", Routed(RoutedPatterns(m)), <<"inspect", "recheck">>)

ScanRequested(m) == m.scan # "off"
EvidenceSteps(enabled, command) == IF enabled THEN <<command>> ELSE <<>>
SbomStage(m) ==
    Stage("Generate SBOM", Routed(RoutedPatterns(m)), EvidenceSteps(m.sbom, "sbom"))
ScanStage(m) ==
    Stage("Scan Same Digest", Routed(RoutedPatterns(m)),
          EvidenceSteps(ScanRequested(m), "scan"))
ProvenanceStage(m) ==
    Stage("Produce Provenance", Routed(RoutedPatterns(m)),
          EvidenceSteps(m.provenance, "provenance"))
VerifyArtifactStage(m) ==
    Stage("Verify Artifact Contract", Routed(RoutedPatterns(m)), <<"verify">>)

Deploy == [dev |-> "Deploy Same Digest dev", staging |-> "Deploy Same Digest staging",
           production |-> "Deploy Same Digest production"]
Rollout == [dev |-> "Verify Rollout dev", staging |-> "Verify Rollout staging",
            production |-> "Verify Rollout production"]
DeploymentStage(m, e) ==
    [name |-> Deploy[e], when |-> Routed(m.routes[e]), env |-> e,
     steps |-> <<"apply">>, undo |-> m.rollback[e]]
RolloutStage(m, e) ==
    [name |-> Rollout[e], when |-> Routed(m.routes[e]), env |-> e,
     steps |-> <<"status">>, undo |-> m.rollback[e]]
Deployment(m, e) == <<DeploymentStage(m, e), RolloutStage(m, e)>>
ApprovalStages(m) ==
    IF m.approval
    THEN <<Stage("Production Approval", Routed(m.routes["production"]), <<"approve">>)>>
    ELSE <<>>

Render(m) ==
    <<Stage("Checkout", Always, <<"checkout">>), ImageIntentStage, DockerTemplateStage,
      Stage("Application Build", Always, <<"build">>), Stage("Test", Always, <<"test">>),
      Stage("Container Plan Validation", Always, <<"plan">>),
      BuildOnceStage(m), ResolveDigestStage(m), SbomStage(m), ScanStage(m),
      ProvenanceStage(m), VerifyArtifactStage(m)>>
    \o Deployment(m, "dev") \o Deployment(m, "staging")
    \o ApprovalStages(m) \o Deployment(m, "production")

\* What the pipeline of one branch runs: the steps of the stages it enters, each
\* with the environment of its stage and whether that stage's failure undoes.
Steps(stage) ==
    [i \in DOMAIN stage.steps |->
        [do |-> stage.steps[i], env |-> stage.env, undo |-> stage.undo]]
Plan(p, branch) ==
    LET RunTo[i \in 0..Len(p)] ==
            IF i = 0 THEN <<>>
            ELSE RunTo[i - 1] \o (IF Enters(p[i], branch) THEN Steps(p[i]) ELSE <<>>)
    IN  RunTo[Len(p)]

\* The records written beside the Jenkinsfile: one per environment, and the
\* contract of the artifact.
EnvironmentRecord(m, e) ==
    [environment |-> e, branchPatterns |-> m.routes[e],
     productionApproval |-> e = "production" /\ m.approval,
     imageContract |-> "resolved-digest", mutableTagDeploymentAllowed |-> FALSE]
ArtifactContract ==
    [maximumImageBuildInvocations |-> 1, mutableTagsAllowed |-> FALSE,
     rollbackRebuildAllowed |-> FALSE, jenkinsExecutionVerified |-> FALSE]

-----------------------------------------------------------------------------
(* What a rendered pipeline is checked for.                                *)

Named(p, name) == {i \in DOMAIN p : p[i].name = name}
The(p, name) == p[CHOOSE i \in Named(p, name) : TRUE]
Times(command, steps) == Cardinality({i \in DOMAIN steps : steps[i] = command})
Uses(p, command) == {i \in DOMAIN p : Times(command, p[i].steps) > 0}
Holds(p, name, command) ==
    \E i \in Named(p, name) : Times(command, p[i].steps) > 0

CoreNames ==
    <<"Checkout", "Application Build", "Test", "Container Plan Validation",
      "Build Once", "Resolve Digest", "Generate SBOM", "Scan Same Digest",
      "Produce Provenance", "Verify Artifact Contract">>
\* A check that fails adds one issue, of a kind and about something.
Flag(failed, kind, subject) == IF failed THEN {<<kind, subject>>} ELSE {}

\* str.find: the first occurrence of each name, in the order of the list.
InOrder(p, names) ==
    \A i, j \in DOMAIN names : i < j =>
        \E a \in Named(p, names[i]) :
            /\ \A b \in Named(p, names[i]) : a <= b
            /\ \A c \in Named(p, names[j]) : a < c

\* The adapter's own diagnostic, on the Jenkinsfile.
StructureIssues(p) ==
    LET required == {CoreNames[i] : i \in DOMAIN CoreNames \ {2, 3}}
                        \cup {Deploy["dev"], Rollout["dev"]}
        present == \A i \in DOMAIN CoreNames : Named(p, CoreNames[i]) # {}
        pushes == Uses(p, "push")
        resolves == Uses(p, "recheck")
    IN  {<<"missing", n>> : n \in {k \in required : Named(p, k) = {}}}
        \cup Flag(~present \/ ~InOrder(p, CoreNames), "order", "stages")
        \cup Flag(Cardinality(pushes) # 1, "once", "push")
        \cup Flag(resolves = {} \/ \E i \in pushes, j \in resolves : j < i,
                  "after the only build", "digest")

\* Cache inputs are unsupported by the locked Docker template.
CacheIssues(m) == Flag(m.cache, "unsupported", "cache")

OrderedNames(m) ==
    <<"Checkout", "Resolve Image Intent", "Resolve Docker Template",
      "Application Build", "Test", "Container Plan Validation", "Build Once",
      "Resolve Digest", "Generate SBOM", "Scan Same Digest", "Produce Provenance",
      "Verify Artifact Contract", Deploy["dev"], Rollout["dev"],
      Deploy["staging"], Rollout["staging"]>>
    \o (IF m.approval THEN <<"Production Approval">> ELSE <<>>)
    \o <<Deploy["production"], Rollout["production"]>>

\* Exactly one stage of every name, in order, and no approval that is not asked for.
StageMismatches(p, m) ==
    LET names == OrderedNames(m)
    IN  {<<"stages", names[i]>> :
             i \in {k \in DOMAIN names : Cardinality(Named(p, names[k])) # 1}}
        \cup Flag(/\ \A i \in DOMAIN names : Cardinality(Named(p, names[i])) = 1
                  /\ ~InOrder(p, names), "order", "stages")
        \cup Flag(~m.approval /\ Named(p, "Production Approval") # {},
                  "disabled", "productionApproval")

\* Seven stages are compared, block by block, with a new rendering.
BlockNames ==
    {"Resolve Image Intent", "Resolve Docker Template", "Container Plan Validation",
     "Generate SBOM", "Scan Same Digest", "Produce Provenance", "Production Approval"}
Blocks(p, name) == {p[i] : i \in Named(p, name)}
BlockMismatches(p, m) ==
    {<<"block", n>> : n \in {k \in BlockNames :
        \/ Blocks(p, k) # Blocks(Render(m), k)
        \/ Cardinality(Named(p, k)) # Cardinality(Named(Render(m), k))}}

\* Faulty: the routes of the deployment stages are not compared.
RouteMismatchesOfBuild(p, m) ==
    {<<"branchRouting", p[i].name>> : i \in {k \in DOMAIN p :
        /\ p[k].name \in {CoreNames[j] : j \in 5..10}
        /\ p[k].when # Routed(RoutedPatterns(m))}}

\* The stages between the build and its verification run for every routed
\* branch, those of an environment for the branches of that environment.
RouteMismatches(p, m) ==
    {<<"branchRouting", p[i].name>> : i \in {k \in DOMAIN p :
        \/ /\ p[k].name \in {CoreNames[j] : j \in 5..10}
           /\ p[k].when # Routed(RoutedPatterns(m))
        \/ \E e \in Environments :
              /\ p[k].name \in {Deploy[e], Rollout[e]}
              /\ p[k].when # Routed(m.routes[e])}}

BuildMismatches(p) ==
    LET once == /\ Holds(p, "Build Once", "push")
                /\ Cardinality(Uses(p, "push")) = 1
                /\ \A i \in Uses(p, "push") : Times("push", p[i].steps) = 1
        resolved == Holds(p, "Resolve Digest", "inspect")
                    /\ Holds(p, "Resolve Digest", "recheck")
        rebuilt == \E i \in Named(p, "Resolve Digest"), j \in Uses(p, "push") : i <= j
    IN  Flag(~once, "build", "buildOnce")
        \cup Flag(~resolved, "build", "digestResolution")
        \cup Flag(rebuilt, "build", "downstreamRebuild")

\* One marker of each enabled kind of evidence, none of a disabled one, and
\* one call of the artifact verifier.
EvidenceMismatches(p, m) ==
    LET count(name, command) ==
            IF Cardinality(Named(p, name)) = 1 THEN Times(command, The(p, name).steps) ELSE 0
        expected(enabled) == IF enabled THEN 1 ELSE 0
    IN  Flag(count("Generate SBOM", "sbom") # expected(m.sbom), "evidence", "sbom")
        \cup Flag(count("Scan Same Digest", "scan") # expected(ScanRequested(m)),
                  "evidence", "scan")
        \cup Flag(count("Produce Provenance", "provenance") # expected(m.provenance),
                  "evidence", "provenance")
        \cup Flag(count("Verify Artifact Contract", "verify") # 1,
                  "evidence", "verification")

\* Each environment applies, waits for the rollout once and carries two
\* rollback commands, or none when its rollback is disabled.
DeploymentMismatches(p, m) ==
    LET undos(e) == Cardinality({i \in Named(p, Deploy[e]) \cup Named(p, Rollout[e]) :
                                    p[i].undo})
        sound(e) ==
            /\ Holds(p, Deploy[e], "apply")
            /\ Holds(p, Rollout[e], "status")
            /\ undos(e) = (IF m.rollback[e] THEN 2 ELSE 0)
    IN  {<<"deployment", e>> : e \in {x \in Environments : ~sound(x)}}

\* The values of the two kinds of records that are compared one by one; the
\* approval of an environment record is not among them.
RecordMismatches(contract, records, m) ==
    Flag(contract # ArtifactContract, "records", "artifactContract")
    \cup {<<"records", e>> : e \in {x \in Environments :
        \/ records[x].environment # x
        \/ records[x].branchPatterns # m.routes[x]
        \/ records[x].imageContract # "resolved-digest"
        \/ records[x].mutableTagDeploymentAllowed}}

\* The checks of the contract that look for something in particular.
Mismatches(p, m) ==
    StageMismatches(p, m) \cup BlockMismatches(p, m) \cup RouteMismatches(p, m)
    \cup BuildMismatches(p) \cup EvidenceMismatches(p, m) \cup DeploymentMismatches(p, m)
\* And the one that compares every byte with a new rendering.
ClosedMismatches(p, m) == Flag(p # Render(m), "closed", "Jenkinsfile")

\* Faulty: the approval that the policy requires is not checked.
SemanticFailuresButApproval(m) ==
    Flag(\E e, f \in Environments : e # f /\ m.routes[e] \cap m.routes[f] # {},
         "contract", "branch-environment-map")
    \cup Flag(~m.rollback["production"], "policy", "rollback")

\* A pattern belongs to one environment; production asks for approval when the
\* policy requires it and always keeps its rollback.
SemanticFailures(m) ==
    Flag(\E e, f \in Environments : e # f /\ m.routes[e] \cap m.routes[f] # {},
         "contract", "branch-environment-map")
    \cup Flag(m.requireApproval /\ ~m.approval, "policy", "approval")
    \cup Flag(~m.rollback["production"], "policy", "rollback")

\* generate writes the Jenkinsfile only when all of them pass.
Accepted(p, m) ==
    /\ StructureIssues(p) = {} /\ CacheIssues(m) = {}
    /\ Mismatches(p, m) = {} /\ ClosedMismatches(p, m) = {}
    /\ RecordMismatches(ArtifactContract,
                        [e \in Environments |-> EnvironmentRecord(m, e)], m) = {}
    /\ SemanticFailures(m) = {}

-----------------------------------------------------------------------------
(* What the checks are for.                                                *)

\* A pipeline that differs from p at one stage: the stage is missing, doubled,
\* exchanged with the next one, run for other branches, without its steps, with
\* the other treatment of a failure.
Edits(p) ==
    LET n == Len(p)
        routes == {Always} \cup {Routed(P) : P \in SUBSET Patterns}
    IN  {SubSeq(p, 1, i - 1) \o SubSeq(p, i + 1, n) : i \in 1..n}
        \cup {SubSeq(p, 1, i) \o SubSeq(p, i, n) : i \in 1..n}
        \cup {[p EXCEPT ![i] = p[i + 1], ![i + 1] = p[i]] : i \in 1..n - 1}
        \cup {[p EXCEPT ![i].when = w] : i \in 1..n, w \in routes}
        \cup {[p EXCEPT ![i].steps = <<>>] : i \in 1..n}
        \cup {[p EXCEPT ![i].undo = ~@] : i \in 1..n}

\* What a pipeline must do for one branch: push at most once; determine, push,
\* look up, resolve and verify in this order, and make nothing again that was
\* resolved or verified; apply only where the branch is routed, only what was
\* resolved, given all the evidence asked for, verified and, in production,
\* approved; wait for every rollout and undo it as configured.
SafeFor(m, b, steps) ==
    LET before(command, i) == \E j \in 1..i - 1 : steps[j].do = command
        resolvedAndThen(command, i) ==
            \E j \in 1..i - 1 : steps[j].do = command /\ before("recheck", j)
        verifiedWith(command, i) ==
            \E j \in 1..i - 1 : steps[j].do = "verify" /\ resolvedAndThen(command, j)
    IN  /\ \A i \in DOMAIN steps :
              /\ steps[i].do \in {"push", "inspect"} => before("intent", i)
              /\ steps[i].do = "recheck" => before("inspect", i)
              /\ steps[i].do = "verify" => before("recheck", i)
        /\ \A i, j \in DOMAIN steps : i < j =>
              /\ steps[i].do \in {"push", "recheck"} => steps[j].do \notin {"checkout", "push"}
              /\ steps[i].do = "verify" => steps[j].do # "recheck"
        /\ \A i \in DOMAIN steps : steps[i].do = "apply" =>
              LET e == steps[i].env
              IN  /\ e \in Environments /\ \E p \in m.routes[e] : b \in Globs[p]
                  /\ before("push", i) /\ resolvedAndThen("verify", i)
                  /\ m.sbom => verifiedWith("sbom", i)
                  /\ ScanRequested(m) => verifiedWith("scan", i)
                  /\ m.provenance => verifiedWith("provenance", i)
                  /\ e = "production" /\ m.approval => before("approve", i)
                  /\ steps[i].undo = m.rollback[e]
                  /\ \E j \in i + 1..Len(steps) :
                        /\ steps[j].do = "status" /\ steps[j].env = e
                        /\ steps[j].undo = m.rollback[e]
Safe(p, m) == \A b \in Branches : SafeFor(m, b, Plan(p, b))

\* The records say of the pipeline what it does.
RecordsDescribe(p, m) ==
    /\ Cardinality(Uses(p, "push")) = ArtifactContract.maximumImageBuildInvocations
    /\ \A e \in Environments : \A b \in Branches :
          LET record == EnvironmentRecord(m, e)
              steps == Plan(p, b)
              applies == {i \in DOMAIN steps : steps[i].do = "apply" /\ steps[i].env = e}
          IN  /\ applies # {} <=> \E q \in record.branchPatterns : b \in Globs[q]
              /\ record.productionApproval =>
                    \A i \in applies : \E j \in 1..i - 1 : steps[j].do = "approve"

=============================================================================
