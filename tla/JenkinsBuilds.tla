---------------------------- MODULE JenkinsBuilds ----------------------------
(***************************************************************************)
(* Builds of the generated pipeline, as Jenkins runs them: the multibranch *)
(* job runs one build of each branch at a time (disableConcurrentBuilds is *)
(* per branch job), builds of different branches side by side.  They share *)
(* the image repository, whose tags move with every push, and the          *)
(* Deployments of the cluster.                                             *)
(*                                                                         *)
(* Each action is one step of a stage of JenkinsPipeline!Render, as the    *)
(* shell and Groovy text of that stage performs it.  The commands it calls *)
(* (docker, syft, trivy, kubectl, git) are external: they succeed, fail,   *)
(* or fail after having done their work.                                   *)
(***************************************************************************)
EXTENDS JenkinsPipeline, SequencesExt

CONSTANTS
    Models,        \* the normalized models considered
    MaxBuilds,     \* bound: builds of each branch
    MaxStarts,     \* bound: builds of all branches
    Flawed,        \* the commits whose image exceeds the vulnerability policy
    Reproducible,  \* whether two builds of a commit give the same image
    None

ASSUME ModelsAreModels == Models \subseteq DeliveryModels
ASSUME BuildsAreBounded == MaxBuilds \in Nat \ {0} /\ MaxStarts \in Nat
ASSUME SomeCommitIsGood == Flawed \subseteq Commits /\ Commits \ Flawed # {}
ASSUME ReproducibleIsBoolean == Reproducible \in BOOLEAN

VARIABLES
    model,       \* the configuration of the project
    plan,        \* for each branch, the steps its Jenkinsfile runs
    build,       \* for each branch, its running or last build
    workspace,   \* for each branch, the files below out/
    tags,        \* the registry: the image behind each tag
    cluster,     \* for each environment, the revisions of its Deployment
    verified,    \* history: what each artifact verification accepted
    approvals    \* history: the builds approved for production

vars == <<model, plan, build, workspace, tags, cluster, verified, approvals>>
settings == <<model, plan>>

BuildIds == Branches \X (0..MaxBuilds)
\* An image carries the commit in its labels; unless the build is reproducible,
\* every push makes another digest.
Images == [rev : Commits, of : BuildIds \cup {None}]
TagNames == {<<"fixed">>} \cup ({"sha"} \X Commits) \cup ({"version"} \X Versions)
            \cup {<<"branch", Slugs[b], c>> : b \in Branches, c \in Commits}
ASSUME NoneIsNoTag == None \notin TagNames

Results == {"none", "running", "unwinding", "success", "failure", "aborted"}
Evidence == [image : Images, rev : Commits]
\* Files of a workspace after deleteDir.
Emptied == [marker |-> FALSE, artifact |-> None, sbom |-> None, scan |-> None,
            provenance |-> None]
NoBuild == [n |-> 0, result |-> "none", at |-> 1, rev |-> None, version |-> None,
            tag |-> None, looked |-> None, digest |-> None, started |-> {},
            touched |-> {}, revised |-> {}, prior |-> [e \in Environments |-> None],
            undone |-> {}, refused |-> "no"]

Id(b) == <<b, build[b].n>>
Running(b) == build[b].result = "running"
Step(b) == plan[b][build[b].at]
At(b, command) == Running(b) /\ Step(b).do = command
Latest(e) == cluster[e][Len(cluster[e])]
Current(e) == IF cluster[e] = <<>> THEN None ELSE Latest(e).image

\* What a build knew, its environment and its position, ends with it.
Ended(r, result) ==
    [r EXCEPT !.result = result, !.at = 1, !.rev = None, !.version = None, !.tag = None,
              !.looked = None, !.digest = None, !.started = {}]

\* The step succeeded, leaving the build in record r.
Advance(b, r) ==
    build' = [build EXCEPT ![b] =
        IF r.at = Len(plan[b]) THEN Ended(r, "success") ELSE [r EXCEPT !.at = @ + 1]]
\* Faulty: the failure of a deployment stage undoes whether or not a rollout
\* was started.
FailAndUndo(b, r) ==
    build' = [build EXCEPT ![b] =
        IF Step(b).undo THEN [r EXCEPT !.result = "unwinding"] ELSE Ended(r, "failure")]
\* The step failed: `post { failure }` of its stage undoes a started rollout,
\* later stages are skipped.
Fail(b, r) ==
    build' = [build EXCEPT ![b] =
        IF Step(b).undo /\ Step(b).env \in r.started
        THEN [r EXCEPT !.result = "unwinding"] ELSE Ended(r, "failure")]
Refuse(b, why) == Fail(b, [build[b] EXCEPT !.refused = why])

DeploysTo(e) == {b \in Branches : \E p \in model.routes[e] : b \in Globs[p]}

\* An environment may have been deployed to before: by build 0 of a branch that
\* deploys there, whose evidence was accepted.
GoodCommit == CHOOSE c \in Commits \ Flawed : TRUE
OldImage(b) == [rev |-> GoodCommit, of |-> IF Reproducible THEN None ELSE <<b, 0>>]
OldFiles(b) ==
    LET evidence == [image |-> OldImage(b), rev |-> GoodCommit]
    IN  [marker |-> TRUE, artifact |-> evidence, sbom |-> evidence, scan |-> evidence,
         provenance |-> evidence]
OldRevisions(e) ==
    {<<>>} \cup {<<[image |-> OldImage(b), by |-> <<b, 0>>]>> : b \in DeploysTo(e)}

Init ==
    /\ model \in {m \in Models : Accepted(Render(m), m)}
    /\ plan = [b \in Branches |-> Plan(Render(model), b)]
    /\ build = [b \in Branches |-> NoBuild]
    /\ workspace = [b \in Branches |-> OldFiles(b)]
    /\ tags = [t \in TagNames |-> None]
    /\ cluster \in {c \in [Environments -> UNION {OldRevisions(e) : e \in Environments}] :
                       \A e \in Environments : c[e] \in OldRevisions(e)}
    /\ verified = {[id |-> <<b, 0>>, rev |-> GoodCommit, files |-> OldFiles(b)] :
                       b \in Branches}
    /\ approvals = {<<b, 0>> : b \in Branches}

\* A push or a user starts a build of the branch at some commit.
StartBuild(b) ==
    /\ build[b].result \notin {"running", "unwinding"}
    /\ build[b].n < MaxBuilds
    /\ FoldFunction(LAMBDA r, k : r.n + k, 0, build) < MaxStarts
    /\ \E c \in Commits :
       \E v \in IF model.strategy = "semver" THEN Versions \cup {None} ELSE {None} :
          build' = [build EXCEPT ![b] =
              [NoBuild EXCEPT !.n = build[b].n + 1, !.result = "running",
                              !.rev = c, !.version = v]]
    /\ UNCHANGED <<settings, workspace, tags, cluster, verified, approvals>>

\* Faulty: the workspace of the last build is kept.
CheckoutOver(b) ==
    /\ At(b, "checkout")
    /\ Advance(b, build[b]) \/ Fail(b, build[b])
    /\ UNCHANGED <<settings, workspace, tags, cluster, verified, approvals>>

\* deleteDir(); checkout scm; mkdir.
Checkout(b) ==
    /\ At(b, "checkout")
    /\ workspace' = [workspace EXCEPT ![b] = Emptied]
    /\ Advance(b, build[b]) \/ Fail(b, build[b])
    /\ UNCHANGED <<settings, tags, cluster, verified, approvals>>

ResolveIntent(b) ==
    /\ At(b, "intent")
    /\ LET r == build[b]
       IN  IF TagIsConcrete(model, r.version)
           THEN Advance(b, [r EXCEPT !.tag = TagOf(model, b, r.rev, r.version)])
           ELSE Fail(b, r)
    /\ UNCHANGED <<settings, workspace, tags, cluster, verified, approvals>>

\* The Docker template, the application's build and tests, the validation of
\* the build plan leave nothing that is read later: they all pass, or one fails.
Tools == {"template", "build", "test", "plan"}
RunTools(b) ==
    /\ Running(b) /\ Step(b).do \in Tools
    /\ LET rest == {i \in build[b].at..Len(plan[b]) : plan[b][i].do \notin Tools}
       IN  \/ /\ rest # {}
              /\ build' = [build EXCEPT ![b].at = CHOOSE i \in rest : \A j \in rest : i <= j]
           \/ /\ rest = {}
              /\ build' = [build EXCEPT ![b] = Ended(@, "success")]
           \/ Fail(b, build[b])
    /\ UNCHANGED <<settings, workspace, tags, cluster, verified, approvals>>

\* Reasons for which build.sh --push refuses to start.
BuildScriptRefuses(b) == build[b].tag = None \/ model.cache

\* The invocation marker is tested and written before build.sh runs.  The push
\* may fail before the tag moved or after.
Push(b) ==
    /\ At(b, "push")
    /\ workspace' = [workspace EXCEPT ![b].marker = TRUE]
    /\ \/ /\ workspace[b].marker
          /\ Refuse(b, "marker")
          /\ UNCHANGED tags
       \/ /\ ~workspace[b].marker /\ BuildScriptRefuses(b)
          /\ Refuse(b, "build.sh")
          /\ UNCHANGED tags
       \/ /\ ~workspace[b].marker /\ ~BuildScriptRefuses(b)
          /\ LET image == [rev |-> build[b].rev,
                           of |-> IF Reproducible THEN None ELSE Id(b)]
             IN  tags' = [tags EXCEPT ![build[b].tag] = image]
          /\ Advance(b, build[b]) \/ Fail(b, build[b])
       \/ /\ ~workspace[b].marker /\ ~BuildScriptRefuses(b)
          /\ Fail(b, build[b])
          /\ UNCHANGED tags
    /\ UNCHANGED <<settings, cluster, verified, approvals>>

\* imagetools inspect of the tag, and of the digest of what it returned.
InspectTag(b) ==
    /\ At(b, "inspect")
    /\ \/ /\ tags[build[b].tag] # None
          /\ Advance(b, [build[b] EXCEPT !.looked = tags[build[b].tag]])
       \/ Fail(b, build[b])
    /\ UNCHANGED <<settings, workspace, tags, cluster, verified, approvals>>

\* The tag is inspected again; only then are IMAGE_DIGEST and IMAGE_REF set and
\* artifact.json written.
RecheckTag(b) ==
    /\ At(b, "recheck")
    /\ LET r == build[b]
       IN  \/ /\ tags[r.tag] = r.looked
              /\ workspace' = [workspace EXCEPT ![b].artifact =
                                  [image |-> r.looked, rev |-> r.rev]]
              /\ Advance(b, [r EXCEPT !.digest = r.looked])
           \/ /\ Fail(b, r)
              /\ UNCHANGED workspace
    /\ UNCHANGED <<settings, tags, cluster, verified, approvals>>

\* Evidence is made of IMAGE_REF and names the revision of the checkout.
EvidenceOf(b) == [image |-> build[b].digest, rev |-> build[b].rev]
TooVulnerable(image) == image.rev \in Flawed

ProduceEvidence(b, kind) ==
    /\ At(b, kind)
    /\ \/ /\ workspace' = [workspace EXCEPT ![b][kind] = EvidenceOf(b)]
          /\ IF kind = "scan" /\ model.scan = "legacy" /\ TooVulnerable(build[b].digest)
             THEN Fail(b, build[b])       \* trivy --exit-code 1
             ELSE Advance(b, build[b])
       \/ /\ Fail(b, build[b])
          /\ UNCHANGED workspace
    /\ UNCHANGED <<settings, tags, cluster, verified, approvals>>

\* What devops-stack artifact verify asks of each file it is given: to be about
\* the digest of artifact.json, SBOM and provenance about its source as well,
\* the findings of the scan to be within the configured policy.
ArtifactIsWhole(files) == files.artifact # None
SbomAgrees(files) == files.sbom # None /\ files.sbom = files.artifact
ProvenanceAgrees(files) == files.provenance # None /\ files.provenance = files.artifact
\* Faulty: the findings of the scan are not evaluated.
ScanHasSubject(m, files) ==
    files.scan # None /\ files.scan.image = files.artifact.image
ScanAgrees(m, files) ==
    /\ files.scan # None /\ files.scan.image = files.artifact.image
    /\ m.scan # "never" => ~TooVulnerable(files.artifact.image)

\* It is given the files of the evidence that the model enables.
Verifies(m, files) ==
    /\ ArtifactIsWhole(files)
    /\ m.sbom => SbomAgrees(files)
    /\ m.provenance => ProvenanceAgrees(files)
    /\ ScanRequested(m) => ScanAgrees(m, files)

VerifyArtifact(b) ==
    /\ At(b, "verify")
    /\ \/ /\ Verifies(model, workspace[b])
          /\ verified' = verified \cup
                {[id |-> Id(b), rev |-> build[b].rev, files |-> workspace[b]]}
          /\ Advance(b, build[b])
          /\ UNCHANGED workspace
       \/ /\ workspace' = [workspace EXCEPT ![b].provenance = None]
          /\ Fail(b, build[b])
          /\ UNCHANGED verified
    /\ UNCHANGED <<settings, tags, cluster, approvals>>

\* input within timeout(1 hour): somebody approves; or somebody aborts, or the
\* hour passes, and the build is ABORTED.
Approve(b) ==
    /\ At(b, "approve")
    /\ approvals' = approvals \cup {Id(b)}
    /\ Advance(b, build[b])
    /\ UNCHANGED <<settings, workspace, tags, cluster, verified>>
\* Faulty: input without a timeout.
ApprovalWaits(b) ==
    /\ At(b, "approve")
    /\ UNCHANGED vars
ApprovalTimesOut(b) ==
    /\ At(b, "approve")
    /\ build' = [build EXCEPT ![b] = Ended(@, "aborted")]
    /\ UNCHANGED <<settings, workspace, tags, cluster, verified, approvals>>

\* What kubectl apply makes of the Deployment: its pod template becomes the
\* latest revision, an equal older one moving to the end.
Applied(revisions, image, id) ==
    LET equal == {i \in DOMAIN revisions : revisions[i].image = image}
        older == IF equal = {} THEN revisions ELSE RemoveAt(revisions, CHOOSE i \in equal : TRUE)
    IN  Append(older, [image |-> image, by |-> id])

\* The render-and-apply script reported `started|status` and left the build in
\* record r; or the agent was lost before it could report.
Reports(b, r, started) ==
    \/ \E ok \in BOOLEAN :
          LET noted == [r EXCEPT !.started = IF started THEN @ \cup {Step(b).env} ELSE @]
          IN  IF ok THEN Advance(b, noted) ELSE Fail(b, noted)
    \/ build' = [build EXCEPT ![b] = Ended(r, "aborted")]

\* kustomize pins IMAGE_REF and kubectl applies it: the Deployment is created or
\* configured, with a new latest revision; another object may fail to apply.
ApplyNew(b) ==
    /\ At(b, "apply")
    /\ LET e == Step(b).env
           r == build[b]
       IN  /\ r.digest # None /\ Current(e) # r.digest
           /\ cluster' = [cluster EXCEPT ![e] = Applied(@, r.digest, Id(b))]
           /\ Reports(b, [r EXCEPT !.touched = @ \cup {e}, !.revised = @ \cup {e},
                                   !.prior[e] = Current(e)], TRUE)
    /\ UNCHANGED <<settings, workspace, tags, verified, approvals>>
\* The pod template is already that one: unchanged, or configured because
\* something else in the Deployment, its replicas say, had been changed.
ApplySame(b) ==
    /\ At(b, "apply")
    /\ LET e == Step(b).env
           r == build[b]
       IN  /\ r.digest # None /\ Current(e) = r.digest
           /\ \/ Reports(b, [r EXCEPT !.touched = @ \cup {e}], TRUE)
              \/ Reports(b, r, FALSE)
    /\ UNCHANGED <<settings, workspace, tags, cluster, verified, approvals>>
\* The rendering is refused, or kubectl fails before it reaches the Deployment.
ApplyNothing(b) ==
    /\ At(b, "apply")
    /\ Fail(b, build[b])
    /\ UNCHANGED <<settings, workspace, tags, cluster, verified, approvals>>

\* kubectl rollout status --timeout=5m: of whatever revision is the latest.
RolloutStatus(b) ==
    /\ At(b, "status")
    /\ Advance(b, build[b]) \/ Fail(b, build[b])
    /\ UNCHANGED <<settings, workspace, tags, cluster, verified, approvals>>

\* kubectl rollout undo: the revision before the latest becomes the latest.
\* There is none after the first deployment; the command may fail as well.
Undo(b) ==
    /\ build[b].result = "unwinding"
    /\ LET e == Step(b).env
           k == Len(cluster[e])
       IN  \/ /\ k > 1
              /\ cluster' = [cluster EXCEPT ![e] =
                    SubSeq(@, 1, k - 2) \o <<@[k], @[k - 1]>>]
              /\ build' = [build EXCEPT ![b] =
                    [Ended(build[b], "failure") EXCEPT !.undone = @ \cup {e}]]
           \/ /\ build' = [build EXCEPT ![b] = Ended(@, "failure")]
              /\ UNCHANGED cluster
    /\ UNCHANGED <<settings, workspace, tags, verified, approvals>>

\* A user aborts the build or its agent is lost: no post { failure } runs.
Abort(b) ==
    /\ build[b].result \in {"running", "unwinding"}
    /\ build' = [build EXCEPT ![b] = Ended(@, "aborted")]
    /\ UNCHANGED <<settings, workspace, tags, cluster, verified, approvals>>

Work(b) ==
    \/ Checkout(b) \/ ResolveIntent(b) \/ RunTools(b)
    \/ Push(b) \/ InspectTag(b) \/ RecheckTag(b)
    \/ ProduceEvidence(b, "sbom") \/ ProduceEvidence(b, "scan")
    \/ ProduceEvidence(b, "provenance") \/ VerifyArtifact(b)
    \/ ApprovalTimesOut(b)
    \/ ApplyNew(b) \/ ApplySame(b) \/ ApplyNothing(b) \/ RolloutStatus(b) \/ Undo(b)
Next == \E b \in Branches : StartBuild(b) \/ Work(b) \/ Approve(b) \/ Abort(b)

\* Every command of a step ends (the waits carry a timeout); nobody has to
\* start, approve or abort anything.
Spec == Init /\ [][Next]_vars /\ \A b \in Branches : WF_vars(Work(b))

-----------------------------------------------------------------------------
(* Properties.                                                             *)

BuildRecords ==
    [n : 0..MaxBuilds, result : Results, at : Nat \ {0}, rev : Commits \cup {None},
     version : Versions \cup {None}, tag : TagNames \cup {None},
     looked : Images \cup {None}, digest : Images \cup {None},
     started : SUBSET Environments, touched : SUBSET Environments,
     revised : SUBSET Environments, prior : [Environments -> Images \cup {None}],
     undone : SUBSET Environments, refused : {"no", "marker", "build.sh"}]
Workspaces ==
    [marker : BOOLEAN, artifact : Evidence \cup {None}, sbom : Evidence \cup {None},
     scan : Evidence \cup {None}, provenance : Evidence \cup {None}]

\* Every variable keeps its type, and a running build stands at a step of its
\* plan.
TypeOK ==
    /\ model \in Models
    /\ build \in [Branches -> BuildRecords]
    /\ \A b \in Branches : build[b].result \in {"running", "unwinding"}
                            => build[b].at \in DOMAIN plan[b]
    /\ workspace \in [Branches -> Workspaces]
    /\ tags \in [TagNames -> Images \cup {None}]
    /\ \A e \in Environments : \A i \in DOMAIN cluster[e] :
          cluster[e][i] \in [image : Images, by : BuildIds]
    /\ \A v \in verified : v \in [id : BuildIds, rev : Commits, files : Workspaces]
    /\ approvals \subseteq BuildIds

\* The contract does not stand on comparing bytes alone: when one stage of the
\* generated pipeline is missing, doubled, out of place, misrouted, emptied or
\* undone otherwise, the checks that look for something in particular accept it
\* only if the pipeline is still safe; and what the adapter renders is safe and is
\* what the records beside it say.
ChecksSuffice ==
    (\A b \in Branches : build[b].n = 0) =>
        /\ Safe(Render(model), model) /\ RecordsDescribe(Render(model), model)
        /\ \A p \in Edits(Render(model)) :
              StructureIssues(p) \cup Mismatches(p, model) = {} => Safe(p, model)

\* Whatever branches build side by side, every revision that any environment
\* keeps, deployed or rolled back to, is an image for which the build that
\* applied it had evidence accepted: the digest of its artifact.json, and of the
\* SBOM, scan and provenance the model enables, is that image, and the image is
\* within the vulnerability policy in force.
DeployedIsVerified ==
    \A e \in Environments : \A i \in DOMAIN cluster[e] :
        LET r == cluster[e][i]
        IN  /\ \E v \in verified :
                  /\ v.id = r.by
                  /\ v.files.artifact.image = r.image
                  /\ model.sbom => v.files.sbom.image = r.image
                  /\ model.scan # "off" => v.files.scan.image = r.image
                  /\ model.provenance => v.files.provenance.image = r.image
            /\ model.scan \in {"legacy", "policy"} => r.image.rev \notin Flawed

\* With a tag that names the commit, the evidence of a build tells the truth
\* about the source: the image it is about was built from the revision that
\* artifact.json, SBOM and provenance record, although the digest is read from
\* a tag that other branches move too.
SourceIsTrue ==
    model.strategy \in {"git-sha", "branch-sha"} =>
        \A v \in verified : v.files.artifact.image.rev = v.rev

\* An image reaches production through a branch routed there, and, when the
\* policy requires an approval, in a build that somebody approved.
ProductionIsApproved ==
    \A i \in DOMAIN cluster["production"] :
        LET by == cluster["production"][i].by
        IN  /\ by[1] \in DeploysTo("production")
            /\ model.requireApproval => by \in approvals

\* What generate accepts does not refuse to build: neither the marker that
\* guards against a second build nor the checks of build.sh ever stop the first
\* push of a build, although workspaces are used again and again.
NoForeseenRefusal == \A b \in Branches : build[b].refused = "no"

\* Where one branch alone deploys to an environment, a failed build whose apply
\* gave the Deployment a new revision leaves, once its rollback has run, the
\* image that was there before; and no rollback ever runs where the build's own
\* apply did not touch the Deployment.
RollbackRestores ==
    \A b \in Branches : \A e \in build[b].undone :
        /\ e \in build[b].touched
        /\ e \in build[b].revised /\ DeploysTo(e) = {b}
              => Current(e) = build[b].prior[e]

\* ARCHITECTURE.md says that rollback is only attempted when apply actually
\* started a rollout of the Deployment.
RollbackNeedsRollout == \A b \in Branches : build[b].undone \subseteq build[b].revised

\* Every build ends: an approval nobody gives included.
EveryBuildEnds ==
    \A b \in Branches :
        build[b].result \in {"running", "unwinding"}
            ~> build[b].result \in {"success", "failure", "aborted"}
=============================================================================
