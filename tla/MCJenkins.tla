------------------------------ MODULE MCJenkins ------------------------------
(***************************************************************************)
(* A small instance of JenkinsBuilds: two branches that may both deploy to *)
(* dev, one of them to production too.  Beside configurations that         *)
(* generate accepts, the set holds the ones its checks must reject.        *)
(***************************************************************************)
EXTENDS JenkinsBuilds, TLC

CONSTANTS main, feature, pMain, pFeature, pAll

MCGlobs == (pMain :> {main}) @@ (pFeature :> {feature}) @@ (pAll :> {main, feature})
MCSlugs == (main :> "main") @@ (feature :> "feature")

RoutedApart == [dev |-> {pFeature}, staging |-> {}, production |-> {pMain}]
RoutedTogether == [dev |-> {pAll}, staging |-> {}, production |-> {}]
Overlapping == [dev |-> {pAll}, staging |-> {}, production |-> {pMain}]
Staged == [dev |-> {pFeature}, staging |-> {pMain}, production |-> {}]
Twice == [dev |-> {pMain}, staging |-> {}, production |-> {pMain}]
KeepAll == [e \in Environments |-> TRUE]
KeepProduction == [e \in Environments |-> e = "production"]
KeepNone == [e \in Environments |-> FALSE]

Base == [strategy |-> "branch-sha", routes |-> RoutedApart, approval |-> TRUE,
         requireApproval |-> TRUE, rollback |-> KeepAll, sbom |-> TRUE,
         scan |-> "policy", provenance |-> TRUE, cache |-> FALSE]

AcceptedModels ==
    {[Base EXCEPT !.rollback = KeepProduction],
     [Base EXCEPT !.strategy = "git-sha", !.routes = Overlapping, !.scan = "never",
                  !.provenance = FALSE],
     [Base EXCEPT !.strategy = "fixed", !.routes = RoutedTogether, !.approval = FALSE,
                  !.requireApproval = FALSE],
     [Base EXCEPT !.strategy = "semver", !.scan = "legacy", !.sbom = FALSE],
     [Base EXCEPT !.routes = Staged, !.scan = "off", !.requireApproval = FALSE]}
RejectedModels ==
    {[Base EXCEPT !.approval = FALSE], [Base EXCEPT !.cache = TRUE],
     [Base EXCEPT !.rollback = KeepNone], [Base EXCEPT !.routes = Twice]}
MCModels == AcceptedModels \cup RejectedModels
=============================================================================
