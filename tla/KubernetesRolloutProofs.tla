----------------------- MODULE KubernetesRolloutProofs -----------------------
(***************************************************************************)
(* Proofs about KubernetesRollout, for any pods and any number of          *)
(* replicas.                                                               *)
(***************************************************************************)
EXTENDS KubernetesRollout, TLAPS

\* The steps at which the Deployment asks for nothing, for the attested
\* revision, and for the failing one.
Undeployed == {"persist", "namespace", "bootstrap", "dry_run", "apply"}
Deployed ==
    {"applied", "rollout", "deployment", "service", "attest", "start_forward",
     "await_forward", "http", "still_running", "close_forward", "smoked",
     "render", "inject", "restored", "restored_deployment", "restored_pods",
     "record", "persist_result", "return"}
Failing == {"failure_rollout", "see_pods", "see_events", "undo"}

\* The steps of a smoke test while its port-forward may run, and those that
\* can follow the start of the second test.
Forwarding == {"await_forward", "http", "still_running", "close_forward"}
AfterRollback ==
    Forwarding \cup {"start_forward", "smoked", "record", "persist_result",
                     "return", "handle", "ended"}

\* The three parts of ExecutorType.
ControlType ==
    /\ pc \in Labels
    /\ smoking \in {"none", "before", "after"}
    /\ error \in {"none", "failed"}
    /\ result \in {"none", "passed", "failed"}
FlagType ==
    /\ exists \in BOOLEAN /\ verified \in BOOLEAN /\ answered \in BOOLEAN
    /\ diagnosed \in BOOLEAN
EvidenceType ==
    /\ seen \subseteq {p \in Pods : revision[p] = "failing"}
    /\ files \subseteq Files
    /\ notified \subseteq {"applied", "ready", "attested", "smoked", "evidence_collected"}

\* What the Deployment asks for is known from the step, and so is what an
\* undo returns to.
RevisionInv ==
    /\ pc \in Undeployed => target = "none"
    /\ pc \in Deployed => target = "original"
    /\ pc \in Failing => target = "failing" /\ prior = "original"

\* A pod has a revision only when it has been created.
PodInv == \A p \in Pods : condition[p] = "absent" => revision[p] = "none"

\* What the rollback has shown, and how it is known later: from the step
\* until the second smoke test, from the phase during it, and from the
\* evidence after it.
RollbackInv ==
    /\ VerifiedCauseIsReal
    /\ pc \in {"undo", "restored", "restored_deployment", "restored_pods"} => verified
    /\ smoking = "after" =>
          verified /\ digest = "expected" /\ pc \in AfterRollback
    /\ pc \in {"record", "persist_result", "return"} =>
          smoking = "after" /\ "post-smoke passed" \in files
    /\ "rollback" \in files =>
          /\ pc \in {"persist_result", "return", "handle", "ended"}
          /\ smoking = "after"
          /\ target = "original" /\ "post-smoke passed" \in files

\* The flag that asks for diagnostics is set before anything can exist.
DiagnosisInv ==
    /\ namespaced \/ target # "none" => exists
    /\ pc \in {"dry_run", "apply"} \cup Deployed \cup Failing => exists
    /\ result # "none" => At("ended")
    /\ result = "failed" => diagnosed = exists

IInv ==
    /\ TypeOK /\ RevisionInv /\ PodInv /\ RollbackInv
    /\ ForwardIsAccounted /\ DiagnosisInv

\* The initial states satisfy the invariant.
LEMMA Initially == Init => IInv
<1> SUFFICES ASSUME Init PROVE IInv
  OBVIOUS
<1> USE DEF Init
<1>1. ClusterType
  BY DEF ClusterType, Revisions
<1>2. ExecutorType
  BY DEF ExecutorType, Labels, Files
<1>3. RevisionInv
  BY DEF RevisionInv, Undeployed, Deployed, Failing
<1>4. PodInv
  BY DEF PodInv
<1>5. RollbackInv
  BY DEF RollbackInv, VerifiedCauseIsReal, AfterRollback
<1>6. ForwardIsAccounted
  BY DEF ForwardIsAccounted
<1>7. DiagnosisInv
  BY DEF DiagnosisInv, Deployed, Failing
<1> QED
  BY <1>1, <1>2, <1>3, <1>4, <1>5, <1>6, <1>7 DEF IInv, TypeOK

\* Cluster and port-forward keep their types.
LEMMA ClusterTypeStep ==
    ASSUME IInv, [Next]_vars
    PROVE  ClusterType'
<1> USE DEF IInv, TypeOK, ClusterType, Revisions, At, Goto
<1>1. CASE Persist
  BY <1>1 DEF Persist, Records, Raise, Continue, cluster, rollback, smoke,
      evidence, ending, executor
<1>2. CASE DryRunNamespace
  BY <1>2 DEF DryRunNamespace, Records, Raise, Continue, cluster, rollback,
      smoke, evidence, ending, executor
<1>3. CASE BootstrapNamespace
  BY <1>3 DEF BootstrapNamespace, Raise, Continue, cluster, rollback, smoke,
      evidence, ending, executor
<1>4. CASE DryRun
  BY <1>4 DEF DryRun, Records, Raise, Continue, cluster, rollback, smoke,
      evidence, ending, executor
<1>5. CASE Apply
  BY <1>5 DEF Apply, Changes, Raise, Continue, cluster, rollback, smoke,
      evidence, ending, executor
<1>6. CASE Applied
  BY <1>6 DEF Applied, Records, Raise, Continue, cluster, rollback, smoke,
      evidence, ending, executor
<1>7. CASE Rollout
  BY <1>7 DEF Rollout, Records, Raise, Continue, cluster, rollback, smoke,
      evidence, ending, executor
<1>8. CASE GetDeployment
  BY <1>8 DEF GetDeployment, Records, Raise, Continue, cluster, rollback,
      smoke, evidence, ending, executor
<1>9. CASE GetService
  BY <1>9 DEF GetService, Records, Raise, Continue, cluster, rollback, smoke,
      evidence, ending, executor
<1>10. CASE Attest
  BY <1>10 DEF Attest, Records, Raise, Continue, cluster, rollback, smoke,
      evidence, ending, executor
<1>11. CASE StartForward
  BY <1>11 DEF StartForward, Phase, Continue, cluster, rollback, smoke,
      evidence, ending, executor
<1>12. CASE AwaitForward
  BY <1>12 DEF AwaitForward, SmokeStep, SmokeFails, Continue, cluster,
      rollback, smoke, evidence, ending, executor
<1>13. CASE Http
  BY <1>13 DEF Http, SmokeStep, SmokeFails, Continue, cluster, rollback,
      smoke, evidence, ending, executor
<1>14. CASE StillRunning
  BY <1>14 DEF StillRunning, SmokeStep, SmokeFails, Continue, cluster,
      rollback, smoke, evidence, ending, executor
<1>15. CASE CloseForward
  BY <1>15 DEF CloseForward, SmokeStep, cluster, rollback, smoke, evidence,
      ending, executor
<1>16. CASE RecordSmoke
  BY <1>16 DEF RecordSmoke, Passes, cluster, rollback, smoke, evidence,
      ending, executor
<1>17. CASE RenderFailure
  BY <1>17 DEF RenderFailure, Records, Raise, Continue, cluster, rollback,
      smoke, evidence, ending, executor
<1>18. CASE Inject
  BY <1>18 DEF Inject, Changes, Raise, Continue, cluster, rollback, smoke,
      evidence, ending, executor
<1>19. CASE FailureRollout
  BY <1>19 DEF FailureRollout, Observed, Raise, Continue, cluster, rollback,
      smoke, evidence, ending, executor
<1>20. CASE SeePods
  BY <1>20 DEF SeePods, Observed, Raise, Continue, cluster, rollback, smoke,
      evidence, ending, executor
<1>21. CASE SeeEvents
  BY <1>21 DEF SeeEvents, Observed, Raise, Continue, cluster, rollback, smoke,
      evidence, ending, executor
<1>22. CASE Undo
  BY <1>22 DEF Undo, Changes, Raise, Continue, cluster, rollback, smoke,
      evidence, ending, executor
<1>23. CASE Restored
  BY <1>23 DEF Restored, Records, Raise, Continue, cluster, rollback, smoke,
      evidence, ending, executor
<1>24. CASE RestoredDeployment
  BY <1>24 DEF RestoredDeployment, Records, Raise, Continue, cluster,
      rollback, smoke, evidence, ending, executor
<1>25. CASE RestoredPods
  BY <1>25 DEF RestoredPods, Attested, Raise, Continue, cluster, rollback,
      smoke, evidence, ending, executor
<1>26. CASE RecordPostSmoke
  BY <1>26 DEF RecordPostSmoke, Passes, Raise, Continue, cluster, rollback,
      smoke, evidence, ending, executor
<1>27. CASE RecordRollback
  BY <1>27 DEF RecordRollback, Records, Raise, Continue, cluster, rollback,
      smoke, evidence, ending, executor
<1>28. CASE PersistResult
  BY <1>28 DEF PersistResult, Records, Raise, Continue, cluster, rollback,
      smoke, evidence, ending, executor
<1>29. CASE Return
  BY <1>29 DEF Return, cluster, rollback, smoke, evidence, ending, executor
<1>30. CASE Handle
  BY <1>30 DEF Handle, cluster, rollback, smoke, evidence, ending, executor
<1>31. CASE ForwardExits
  BY <1>31 DEF ForwardExits, cluster, rollback, smoke, evidence, ending,
      executor
<1>32. ASSUME NEW p \in Pods, CreatePod(p)
      PROVE  ClusterType'
  BY <1>32 DEF CreatePod, Live, cluster, rollback, smoke, evidence, ending,
      executor
<1>33. ASSUME NEW p \in Pods, DeletePod(p)
      PROVE  ClusterType'
  BY <1>33 DEF DeletePod, Live, cluster, rollback, smoke, evidence, ending,
      executor
<1>34. ASSUME NEW p \in Pods, ProbePasses(p)
      PROVE  ClusterType'
  BY <1>34 DEF ProbePasses, Live, cluster, rollback, smoke, evidence, ending,
      executor
<1>35. ASSUME NEW p \in Pods, ProbeFails(p)
      PROVE  ClusterType'
  BY <1>35 DEF ProbeFails, Live, cluster, rollback, smoke, evidence, ending,
      executor
<1>36. CASE Done \/ UNCHANGED vars
  BY <1>36 DEF Done, cluster, rollback, smoke, evidence, ending, executor,
      vars
<1> QED
  BY <1>1, <1>2, <1>3, <1>4, <1>5, <1>6, <1>7, <1>8, <1>9, <1>10, <1>11,
      <1>12, <1>13, <1>14, <1>15, <1>16, <1>17, <1>18, <1>19, <1>20, <1>21,
      <1>22, <1>23, <1>24, <1>25, <1>26, <1>27, <1>28, <1>29, <1>30, <1>31,
      <1>32, <1>33, <1>34, <1>35, <1>36
  DEF Next, Execute, Smoke, Rollback, Cluster

\* No pod has a revision before it is created.
LEMMA PodStep ==
    ASSUME IInv, [Next]_vars
    PROVE  PodInv'
<1> USE DEF IInv, TypeOK, ClusterType, PodInv, At, Goto
<1>1. CASE Persist
  BY <1>1 DEF Persist, Records, Raise, Continue, cluster, rollback, smoke,
      evidence, ending, executor
<1>2. CASE DryRunNamespace
  BY <1>2 DEF DryRunNamespace, Records, Raise, Continue, cluster, rollback,
      smoke, evidence, ending, executor
<1>3. CASE BootstrapNamespace
  BY <1>3 DEF BootstrapNamespace, Raise, Continue, cluster, rollback, smoke,
      evidence, ending, executor
<1>4. CASE DryRun
  BY <1>4 DEF DryRun, Records, Raise, Continue, cluster, rollback, smoke,
      evidence, ending, executor
<1>5. CASE Apply
  BY <1>5 DEF Apply, Changes, Raise, Continue, cluster, rollback, smoke,
      evidence, ending, executor
<1>6. CASE Applied
  BY <1>6 DEF Applied, Records, Raise, Continue, cluster, rollback, smoke,
      evidence, ending, executor
<1>7. CASE Rollout
  BY <1>7 DEF Rollout, Records, Raise, Continue, cluster, rollback, smoke,
      evidence, ending, executor
<1>8. CASE GetDeployment
  BY <1>8 DEF GetDeployment, Records, Raise, Continue, cluster, rollback,
      smoke, evidence, ending, executor
<1>9. CASE GetService
  BY <1>9 DEF GetService, Records, Raise, Continue, cluster, rollback, smoke,
      evidence, ending, executor
<1>10. CASE Attest
  BY <1>10 DEF Attest, Records, Raise, Continue, cluster, rollback, smoke,
      evidence, ending, executor
<1>11. CASE StartForward
  BY <1>11 DEF StartForward, Phase, Continue, cluster, rollback, smoke,
      evidence, ending, executor
<1>12. CASE AwaitForward
  BY <1>12 DEF AwaitForward, SmokeStep, SmokeFails, Continue, cluster,
      rollback, smoke, evidence, ending, executor
<1>13. CASE Http
  BY <1>13 DEF Http, SmokeStep, SmokeFails, Continue, cluster, rollback,
      smoke, evidence, ending, executor
<1>14. CASE StillRunning
  BY <1>14 DEF StillRunning, SmokeStep, SmokeFails, Continue, cluster,
      rollback, smoke, evidence, ending, executor
<1>15. CASE CloseForward
  BY <1>15 DEF CloseForward, SmokeStep, cluster, rollback, smoke, evidence,
      ending, executor
<1>16. CASE RecordSmoke
  BY <1>16 DEF RecordSmoke, Passes, cluster, rollback, smoke, evidence,
      ending, executor
<1>17. CASE RenderFailure
  BY <1>17 DEF RenderFailure, Records, Raise, Continue, cluster, rollback,
      smoke, evidence, ending, executor
<1>18. CASE Inject
  BY <1>18 DEF Inject, Changes, Raise, Continue, cluster, rollback, smoke,
      evidence, ending, executor
<1>19. CASE FailureRollout
  BY <1>19 DEF FailureRollout, Observed, Raise, Continue, cluster, rollback,
      smoke, evidence, ending, executor
<1>20. CASE SeePods
  BY <1>20 DEF SeePods, Observed, Raise, Continue, cluster, rollback, smoke,
      evidence, ending, executor
<1>21. CASE SeeEvents
  BY <1>21 DEF SeeEvents, Observed, Raise, Continue, cluster, rollback, smoke,
      evidence, ending, executor
<1>22. CASE Undo
  BY <1>22 DEF Undo, Changes, Raise, Continue, cluster, rollback, smoke,
      evidence, ending, executor
<1>23. CASE Restored
  BY <1>23 DEF Restored, Records, Raise, Continue, cluster, rollback, smoke,
      evidence, ending, executor
<1>24. CASE RestoredDeployment
  BY <1>24 DEF RestoredDeployment, Records, Raise, Continue, cluster,
      rollback, smoke, evidence, ending, executor
<1>25. CASE RestoredPods
  BY <1>25 DEF RestoredPods, Attested, Raise, Continue, cluster, rollback,
      smoke, evidence, ending, executor
<1>26. CASE RecordPostSmoke
  BY <1>26 DEF RecordPostSmoke, Passes, Raise, Continue, cluster, rollback,
      smoke, evidence, ending, executor
<1>27. CASE RecordRollback
  BY <1>27 DEF RecordRollback, Records, Raise, Continue, cluster, rollback,
      smoke, evidence, ending, executor
<1>28. CASE PersistResult
  BY <1>28 DEF PersistResult, Records, Raise, Continue, cluster, rollback,
      smoke, evidence, ending, executor
<1>29. CASE Return
  BY <1>29 DEF Return, cluster, rollback, smoke, evidence, ending, executor
<1>30. CASE Handle
  BY <1>30 DEF Handle, cluster, rollback, smoke, evidence, ending, executor
<1>31. CASE ForwardExits
  BY <1>31 DEF ForwardExits, cluster, rollback, smoke, evidence, ending,
      executor
<1>32. ASSUME NEW p \in Pods, CreatePod(p)
      PROVE  PodInv'
  BY <1>32 DEF CreatePod, Live, cluster, rollback, smoke, evidence, ending,
      executor
<1>33. ASSUME NEW p \in Pods, DeletePod(p)
      PROVE  PodInv'
  BY <1>33 DEF DeletePod, Live, cluster, rollback, smoke, evidence, ending,
      executor
<1>34. ASSUME NEW p \in Pods, ProbePasses(p)
      PROVE  PodInv'
  BY <1>34 DEF ProbePasses, Live, cluster, rollback, smoke, evidence, ending,
      executor
<1>35. ASSUME NEW p \in Pods, ProbeFails(p)
      PROVE  PodInv'
  BY <1>35 DEF ProbeFails, Live, cluster, rollback, smoke, evidence, ending,
      executor
<1>36. CASE Done \/ UNCHANGED vars
  BY <1>36 DEF Done, cluster, rollback, smoke, evidence, ending, executor,
      vars
<1> QED
  BY <1>1, <1>2, <1>3, <1>4, <1>5, <1>6, <1>7, <1>8, <1>9, <1>10, <1>11,
      <1>12, <1>13, <1>14, <1>15, <1>16, <1>17, <1>18, <1>19, <1>20, <1>21,
      <1>22, <1>23, <1>24, <1>25, <1>26, <1>27, <1>28, <1>29, <1>30, <1>31,
      <1>32, <1>33, <1>34, <1>35, <1>36
  DEF Next, Execute, Smoke, Rollback, Cluster

\* The control variables of the executor keep their types.
LEMMA ControlTypeStep ==
    ASSUME IInv, [Next]_vars
    PROVE  ControlType'
<1> USE DEF IInv, TypeOK, ExecutorType, ControlType, Labels, At, Goto
<1>1. CASE Persist
  BY <1>1 DEF Persist, Records, Raise, Continue, cluster, rollback, smoke,
      evidence, ending, executor
<1>2. CASE DryRunNamespace
  BY <1>2 DEF DryRunNamespace, Records, Raise, Continue, cluster, rollback,
      smoke, evidence, ending, executor
<1>3. CASE BootstrapNamespace
  BY <1>3 DEF BootstrapNamespace, Raise, Continue, cluster, rollback, smoke,
      evidence, ending, executor
<1>4. CASE DryRun
  BY <1>4 DEF DryRun, Records, Raise, Continue, cluster, rollback, smoke,
      evidence, ending, executor
<1>5. CASE Apply
  BY <1>5 DEF Apply, Changes, Raise, Continue, cluster, rollback, smoke,
      evidence, ending, executor
<1>6. CASE Applied
  BY <1>6 DEF Applied, Records, Raise, Continue, cluster, rollback, smoke,
      evidence, ending, executor
<1>7. CASE Rollout
  BY <1>7 DEF Rollout, Records, Raise, Continue, cluster, rollback, smoke,
      evidence, ending, executor
<1>8. CASE GetDeployment
  BY <1>8 DEF GetDeployment, Records, Raise, Continue, cluster, rollback,
      smoke, evidence, ending, executor
<1>9. CASE GetService
  BY <1>9 DEF GetService, Records, Raise, Continue, cluster, rollback, smoke,
      evidence, ending, executor
<1>10. CASE Attest
  BY <1>10 DEF Attest, Records, Raise, Continue, cluster, rollback, smoke,
      evidence, ending, executor
<1>11. CASE StartForward
  BY <1>11 DEF StartForward, Phase, Continue, cluster, rollback, smoke,
      evidence, ending, executor
<1>12. CASE AwaitForward
  BY <1>12 DEF AwaitForward, SmokeStep, SmokeFails, Continue, cluster,
      rollback, smoke, evidence, ending, executor
<1>13. CASE Http
  BY <1>13 DEF Http, SmokeStep, SmokeFails, Continue, cluster, rollback,
      smoke, evidence, ending, executor
<1>14. CASE StillRunning
  BY <1>14 DEF StillRunning, SmokeStep, SmokeFails, Continue, cluster,
      rollback, smoke, evidence, ending, executor
<1>15. CASE CloseForward
  BY <1>15 DEF CloseForward, SmokeStep, cluster, rollback, smoke, evidence,
      ending, executor
<1>16. CASE RecordSmoke
  BY <1>16 DEF RecordSmoke, Passes, cluster, rollback, smoke, evidence,
      ending, executor
<1>17. CASE RenderFailure
  BY <1>17 DEF RenderFailure, Records, Raise, Continue, cluster, rollback,
      smoke, evidence, ending, executor
<1>18. CASE Inject
  BY <1>18 DEF Inject, Changes, Raise, Continue, cluster, rollback, smoke,
      evidence, ending, executor
<1>19. CASE FailureRollout
  BY <1>19 DEF FailureRollout, Observed, Raise, Continue, cluster, rollback,
      smoke, evidence, ending, executor
<1>20. CASE SeePods
  BY <1>20 DEF SeePods, Observed, Raise, Continue, cluster, rollback, smoke,
      evidence, ending, executor
<1>21. CASE SeeEvents
  BY <1>21 DEF SeeEvents, Observed, Raise, Continue, cluster, rollback, smoke,
      evidence, ending, executor
<1>22. CASE Undo
  BY <1>22 DEF Undo, Changes, Raise, Continue, cluster, rollback, smoke,
      evidence, ending, executor
<1>23. CASE Restored
  BY <1>23 DEF Restored, Records, Raise, Continue, cluster, rollback, smoke,
      evidence, ending, executor
<1>24. CASE RestoredDeployment
  BY <1>24 DEF RestoredDeployment, Records, Raise, Continue, cluster,
      rollback, smoke, evidence, ending, executor
<1>25. CASE RestoredPods
  BY <1>25 DEF RestoredPods, Attested, Raise, Continue, cluster, rollback,
      smoke, evidence, ending, executor
<1>26. CASE RecordPostSmoke
  BY <1>26 DEF RecordPostSmoke, Passes, Raise, Continue, cluster, rollback,
      smoke, evidence, ending, executor
<1>27. CASE RecordRollback
  BY <1>27 DEF RecordRollback, Records, Raise, Continue, cluster, rollback,
      smoke, evidence, ending, executor
<1>28. CASE PersistResult
  BY <1>28 DEF PersistResult, Records, Raise, Continue, cluster, rollback,
      smoke, evidence, ending, executor
<1>29. CASE Return
  BY <1>29 DEF Return, cluster, rollback, smoke, evidence, ending, executor
<1>30. CASE Handle
  BY <1>30 DEF Handle, cluster, rollback, smoke, evidence, ending, executor
<1>31. CASE ForwardExits
  BY <1>31 DEF ForwardExits, cluster, rollback, smoke, evidence, ending,
      executor
<1>32. ASSUME NEW p \in Pods, CreatePod(p)
      PROVE  ControlType'
  BY <1>32 DEF CreatePod, Live, cluster, rollback, smoke, evidence, ending,
      executor
<1>33. ASSUME NEW p \in Pods, DeletePod(p)
      PROVE  ControlType'
  BY <1>33 DEF DeletePod, Live, cluster, rollback, smoke, evidence, ending,
      executor
<1>34. ASSUME NEW p \in Pods, ProbePasses(p)
      PROVE  ControlType'
  BY <1>34 DEF ProbePasses, Live, cluster, rollback, smoke, evidence, ending,
      executor
<1>35. ASSUME NEW p \in Pods, ProbeFails(p)
      PROVE  ControlType'
  BY <1>35 DEF ProbeFails, Live, cluster, rollback, smoke, evidence, ending,
      executor
<1>36. CASE Done \/ UNCHANGED vars
  BY <1>36 DEF Done, cluster, rollback, smoke, evidence, ending, executor,
      vars
<1> QED
  BY <1>1, <1>2, <1>3, <1>4, <1>5, <1>6, <1>7, <1>8, <1>9, <1>10, <1>11,
      <1>12, <1>13, <1>14, <1>15, <1>16, <1>17, <1>18, <1>19, <1>20, <1>21,
      <1>22, <1>23, <1>24, <1>25, <1>26, <1>27, <1>28, <1>29, <1>30, <1>31,
      <1>32, <1>33, <1>34, <1>35, <1>36
  DEF Next, Execute, Smoke, Rollback, Cluster

\* The flags of the executor stay Boolean.
LEMMA FlagTypeStep ==
    ASSUME IInv, [Next]_vars
    PROVE  FlagType'
<1> USE DEF IInv, TypeOK, ExecutorType, FlagType
<1>1. CASE Persist
  BY <1>1, Zenon DEF Persist, Records, Raise, Continue, cluster, rollback,
      smoke, evidence, ending, executor
<1>2. CASE DryRunNamespace
  BY <1>2, Zenon DEF DryRunNamespace, Records, Raise, Continue, cluster,
      rollback, smoke, evidence, ending, executor
<1>3. CASE BootstrapNamespace
  BY <1>3, Zenon DEF BootstrapNamespace, Raise, Continue, cluster, rollback,
      smoke, evidence, ending, executor
<1>4. CASE DryRun
  BY <1>4, Zenon DEF DryRun, Records, Raise, Continue, cluster, rollback,
      smoke, evidence, ending, executor
<1>5. CASE Apply
  BY <1>5, Zenon DEF Apply, Changes, Raise, Continue, cluster, rollback,
      smoke, evidence, ending, executor
<1>6. CASE Applied
  BY <1>6, Zenon DEF Applied, Records, Raise, Continue, cluster, rollback,
      smoke, evidence, ending, executor
<1>7. CASE Rollout
  BY <1>7, Zenon DEF Rollout, Records, Raise, Continue, cluster, rollback,
      smoke, evidence, ending, executor
<1>8. CASE GetDeployment
  BY <1>8, Zenon DEF GetDeployment, Records, Raise, Continue, cluster,
      rollback, smoke, evidence, ending, executor
<1>9. CASE GetService
  BY <1>9, Zenon DEF GetService, Records, Raise, Continue, cluster, rollback,
      smoke, evidence, ending, executor
<1>10. CASE Attest
  BY <1>10, Zenon DEF Attest, Records, Raise, Continue, cluster, rollback,
      smoke, evidence, ending, executor
<1>11. CASE StartForward
  BY <1>11, Zenon DEF StartForward, Phase, Continue, cluster, rollback, smoke,
      evidence, ending, executor
<1>12. CASE AwaitForward
  BY <1>12, Zenon DEF AwaitForward, SmokeStep, SmokeFails, Continue, cluster,
      rollback, smoke, evidence, ending, executor
<1>13. CASE Http
  BY <1>13, Zenon DEF Http, SmokeStep, SmokeFails, Continue, cluster,
      rollback, smoke, evidence, ending, executor
<1>14. CASE StillRunning
  BY <1>14, Zenon DEF StillRunning, SmokeStep, SmokeFails, Continue, cluster,
      rollback, smoke, evidence, ending, executor
<1>15. CASE CloseForward
  BY <1>15, Zenon DEF CloseForward, SmokeStep, cluster, rollback, smoke,
      evidence, ending, executor
<1>16. CASE RecordSmoke
  BY <1>16, Zenon DEF RecordSmoke, Passes, cluster, rollback, smoke, evidence,
      ending, executor
<1>17. CASE RenderFailure
  BY <1>17, Zenon DEF RenderFailure, Records, Raise, Continue, cluster,
      rollback, smoke, evidence, ending, executor
<1>18. CASE Inject
  BY <1>18, Zenon DEF Inject, Changes, Raise, Continue, cluster, rollback,
      smoke, evidence, ending, executor
<1>19. CASE FailureRollout
  BY <1>19, Zenon DEF FailureRollout, Observed, Raise, Continue, cluster,
      rollback, smoke, evidence, ending, executor
<1>20. CASE SeePods
  BY <1>20, Zenon DEF SeePods, Observed, Raise, Continue, cluster, rollback,
      smoke, evidence, ending, executor
<1>21. CASE SeeEvents
  BY <1>21, Zenon DEF SeeEvents, Observed, Raise, Continue, cluster, rollback,
      smoke, evidence, ending, executor
<1>22. CASE Undo
  BY <1>22, Zenon DEF Undo, Changes, Raise, Continue, cluster, rollback,
      smoke, evidence, ending, executor
<1>23. CASE Restored
  BY <1>23, Zenon DEF Restored, Records, Raise, Continue, cluster, rollback,
      smoke, evidence, ending, executor
<1>24. CASE RestoredDeployment
  BY <1>24, Zenon DEF RestoredDeployment, Records, Raise, Continue, cluster,
      rollback, smoke, evidence, ending, executor
<1>25. CASE RestoredPods
  BY <1>25, Zenon DEF RestoredPods, Attested, Raise, Continue, cluster,
      rollback, smoke, evidence, ending, executor
<1>26. CASE RecordPostSmoke
  BY <1>26, Zenon DEF RecordPostSmoke, Passes, Raise, Continue, cluster,
      rollback, smoke, evidence, ending, executor
<1>27. CASE RecordRollback
  BY <1>27, Zenon DEF RecordRollback, Records, Raise, Continue, cluster,
      rollback, smoke, evidence, ending, executor
<1>28. CASE PersistResult
  BY <1>28, Zenon DEF PersistResult, Records, Raise, Continue, cluster,
      rollback, smoke, evidence, ending, executor
<1>29. CASE Return
  BY <1>29, Zenon DEF Return, cluster, rollback, smoke, evidence, ending,
      executor
<1>30. CASE Handle
  BY <1>30, Zenon DEF Handle, cluster, rollback, smoke, evidence, ending,
      executor
<1>31. CASE ForwardExits
  BY <1>31, Zenon DEF ForwardExits, cluster, rollback, smoke, evidence,
      ending, executor
<1>32. ASSUME NEW p \in Pods, CreatePod(p)
      PROVE  FlagType'
  BY <1>32, Zenon DEF CreatePod, Live, cluster, rollback, smoke, evidence,
      ending, executor
<1>33. ASSUME NEW p \in Pods, DeletePod(p)
      PROVE  FlagType'
  BY <1>33, Zenon DEF DeletePod, Live, cluster, rollback, smoke, evidence,
      ending, executor
<1>34. ASSUME NEW p \in Pods, ProbePasses(p)
      PROVE  FlagType'
  BY <1>34, Zenon DEF ProbePasses, Live, cluster, rollback, smoke, evidence,
      ending, executor
<1>35. ASSUME NEW p \in Pods, ProbeFails(p)
      PROVE  FlagType'
  BY <1>35, Zenon DEF ProbeFails, Live, cluster, rollback, smoke, evidence,
      ending, executor
<1>36. CASE Done \/ UNCHANGED vars
  BY <1>36, Zenon DEF Done, cluster, rollback, smoke, evidence, ending,
      executor, vars
<1> QED
  BY <1>1, <1>2, <1>3, <1>4, <1>5, <1>6, <1>7, <1>8, <1>9, <1>10, <1>11,
      <1>12, <1>13, <1>14, <1>15, <1>16, <1>17, <1>18, <1>19, <1>20, <1>21,
      <1>22, <1>23, <1>24, <1>25, <1>26, <1>27, <1>28, <1>29, <1>30, <1>31,
      <1>32, <1>33, <1>34, <1>35, <1>36
  DEF Next, Execute, Smoke, Rollback, Cluster

\* What the executor has seen and written keeps its type.
LEMMA EvidenceTypeStep ==
    ASSUME IInv, [Next]_vars
    PROVE  EvidenceType'
<1> USE DEF IInv, TypeOK, ClusterType, ExecutorType, PodInv, EvidenceType,
      Revisions, At, Goto
<1>1. CASE Persist
  BY <1>1 DEF Persist, Records, Raise, Continue, Files, cluster, rollback,
      smoke, evidence, ending, executor
<1>2. CASE DryRunNamespace
  BY <1>2 DEF DryRunNamespace, Records, Raise, Continue, cluster, rollback,
      smoke, evidence, ending, executor
<1>3. CASE BootstrapNamespace
  BY <1>3 DEF BootstrapNamespace, Raise, Continue, cluster, rollback, smoke,
      evidence, ending, executor
<1>4. CASE DryRun
  BY <1>4 DEF DryRun, Records, Raise, Continue, cluster, rollback, smoke,
      evidence, ending, executor
<1>5. CASE Apply
  BY <1>5 DEF Apply, Changes, Raise, Continue, cluster, rollback, smoke,
      evidence, ending, executor
<1>6. CASE Applied
  BY <1>6 DEF Applied, Records, Raise, Continue, cluster, rollback, smoke,
      evidence, ending, executor
<1>7. CASE Rollout
  BY <1>7 DEF Rollout, Records, Raise, Continue, cluster, rollback, smoke,
      evidence, ending, executor
<1>8. CASE GetDeployment
  BY <1>8 DEF GetDeployment, Records, Raise, Continue, Files, cluster,
      rollback, smoke, evidence, ending, executor
<1>9. CASE GetService
  BY <1>9 DEF GetService, Records, Raise, Continue, Files, cluster, rollback,
      smoke, evidence, ending, executor
<1>10. CASE Attest
  BY <1>10 DEF Attest, Records, Raise, Continue, Files, cluster, rollback,
      smoke, evidence, ending, executor
<1>11. CASE StartForward
  BY <1>11 DEF StartForward, Phase, Continue, cluster, rollback, smoke,
      evidence, ending, executor
<1>12. CASE AwaitForward
  BY <1>12 DEF AwaitForward, SmokeStep, SmokeFails, Continue, cluster,
      rollback, smoke, evidence, ending, executor
<1>13. CASE Http
  BY <1>13 DEF Http, SmokeStep, SmokeFails, Continue, cluster, rollback,
      smoke, evidence, ending, executor
<1>14. CASE StillRunning
  BY <1>14 DEF StillRunning, SmokeStep, SmokeFails, Continue, cluster,
      rollback, smoke, evidence, ending, executor
<1>15. CASE CloseForward
  BY <1>15 DEF CloseForward, SmokeStep, cluster, rollback, smoke, evidence,
      ending, executor
<1>16. CASE RecordSmoke
  BY <1>16 DEF RecordSmoke, Passes, Files, cluster, rollback, smoke, evidence,
      ending, executor
<1>17. CASE RenderFailure
  BY <1>17 DEF RenderFailure, Records, Raise, Continue, Files, cluster,
      rollback, smoke, evidence, ending, executor
<1>18. CASE Inject
  BY <1>18 DEF Inject, Changes, Raise, Continue, cluster, rollback, smoke,
      evidence, ending, executor
<1>19. CASE FailureRollout
  BY <1>19 DEF FailureRollout, Observed, Raise, Continue, Files, cluster,
      rollback, smoke, evidence, ending, executor
<1>20. CASE SeePods
  BY <1>20 DEF SeePods, Observed, Raise, Continue, Files, cluster, rollback,
      smoke, evidence, ending, executor
<1>21. CASE SeeEvents
  BY <1>21 DEF SeeEvents, Observed, Raise, Continue, Files, cluster, rollback,
      smoke, evidence, ending, executor
<1>22. CASE Undo
  BY <1>22 DEF Undo, Changes, Raise, Continue, cluster, rollback, smoke,
      evidence, ending, executor
<1>23. CASE Restored
  BY <1>23 DEF Restored, Records, Raise, Continue, cluster, rollback, smoke,
      evidence, ending, executor
<1>24. CASE RestoredDeployment
  BY <1>24 DEF RestoredDeployment, Records, Raise, Continue, Files, cluster,
      rollback, smoke, evidence, ending, executor
<1>25. CASE RestoredPods
  BY <1>25 DEF RestoredPods, Attested, Raise, Continue, Files, cluster,
      rollback, smoke, evidence, ending, executor
<1>26. CASE RecordPostSmoke
  BY <1>26 DEF RecordPostSmoke, Passes, Raise, Continue, Files, cluster,
      rollback, smoke, evidence, ending, executor
<1>27. CASE RecordRollback
  BY <1>27 DEF RecordRollback, Records, Raise, Continue, Files, cluster,
      rollback, smoke, evidence, ending, executor
<1>28. CASE PersistResult
  BY <1>28 DEF PersistResult, Records, Raise, Continue, Files, cluster,
      rollback, smoke, evidence, ending, executor
<1>29. CASE Return
  BY <1>29 DEF Return, cluster, rollback, smoke, evidence, ending, executor
<1>30. CASE Handle
  BY <1>30 DEF Handle, cluster, rollback, smoke, evidence, ending, executor
<1>31. CASE ForwardExits
  BY <1>31 DEF ForwardExits, cluster, rollback, smoke, evidence, ending,
      executor
<1>32. ASSUME NEW p \in Pods, CreatePod(p)
      PROVE  EvidenceType'
  BY <1>32 DEF CreatePod, Live, cluster, rollback, smoke, evidence, ending,
      executor
<1>33. ASSUME NEW p \in Pods, DeletePod(p)
      PROVE  EvidenceType'
  BY <1>33 DEF DeletePod, Live, cluster, rollback, smoke, evidence, ending,
      executor
<1>34. ASSUME NEW p \in Pods, ProbePasses(p)
      PROVE  EvidenceType'
  BY <1>34 DEF ProbePasses, Live, cluster, rollback, smoke, evidence, ending,
      executor
<1>35. ASSUME NEW p \in Pods, ProbeFails(p)
      PROVE  EvidenceType'
  BY <1>35 DEF ProbeFails, Live, cluster, rollback, smoke, evidence, ending,
      executor
<1>36. CASE Done \/ UNCHANGED vars
  BY <1>36 DEF Done, cluster, rollback, smoke, evidence, ending, executor,
      vars
<1> QED
  BY <1>1, <1>2, <1>3, <1>4, <1>5, <1>6, <1>7, <1>8, <1>9, <1>10, <1>11,
      <1>12, <1>13, <1>14, <1>15, <1>16, <1>17, <1>18, <1>19, <1>20, <1>21,
      <1>22, <1>23, <1>24, <1>25, <1>26, <1>27, <1>28, <1>29, <1>30, <1>31,
      <1>32, <1>33, <1>34, <1>35, <1>36
  DEF Next, Execute, Smoke, Rollback, Cluster

\* The step tells what the Deployment asks for.
LEMMA RevisionStep ==
    ASSUME IInv, [Next]_vars
    PROVE  RevisionInv'
<1> USE DEF IInv, RevisionInv, Undeployed, Deployed, Failing, At, Goto
<1>1. CASE Persist
  BY <1>1 DEF Persist, Records, Raise, Continue, cluster, rollback, smoke,
      evidence, ending, executor
<1>2. CASE DryRunNamespace
  BY <1>2 DEF DryRunNamespace, Records, Raise, Continue, cluster, rollback,
      smoke, evidence, ending, executor
<1>3. CASE BootstrapNamespace
  BY <1>3 DEF BootstrapNamespace, Raise, Continue, cluster, rollback, smoke,
      evidence, ending, executor
<1>4. CASE DryRun
  BY <1>4 DEF DryRun, Records, Raise, Continue, cluster, rollback, smoke,
      evidence, ending, executor
<1>5. CASE Apply
  BY <1>5 DEF Apply, Changes, Raise, Continue, cluster, rollback, smoke,
      evidence, ending, executor
<1>6. CASE Applied
  BY <1>6 DEF Applied, Records, Raise, Continue, cluster, rollback, smoke,
      evidence, ending, executor
<1>7. CASE Rollout
  BY <1>7 DEF Rollout, Records, Raise, Continue, cluster, rollback, smoke,
      evidence, ending, executor
<1>8. CASE GetDeployment
  BY <1>8 DEF GetDeployment, Records, Raise, Continue, cluster, rollback,
      smoke, evidence, ending, executor
<1>9. CASE GetService
  BY <1>9 DEF GetService, Records, Raise, Continue, cluster, rollback, smoke,
      evidence, ending, executor
<1>10. CASE Attest
  BY <1>10 DEF Attest, Records, Raise, Continue, cluster, rollback, smoke,
      evidence, ending, executor
<1>11. CASE StartForward
  BY <1>11 DEF StartForward, Phase, Continue, cluster, rollback, smoke,
      evidence, ending, executor
<1>12. CASE AwaitForward
  BY <1>12 DEF AwaitForward, SmokeStep, SmokeFails, Continue, cluster,
      rollback, smoke, evidence, ending, executor
<1>13. CASE Http
  BY <1>13 DEF Http, SmokeStep, SmokeFails, Continue, cluster, rollback,
      smoke, evidence, ending, executor
<1>14. CASE StillRunning
  BY <1>14 DEF StillRunning, SmokeStep, SmokeFails, Continue, cluster,
      rollback, smoke, evidence, ending, executor
<1>15. CASE CloseForward
  BY <1>15 DEF CloseForward, SmokeStep, cluster, rollback, smoke, evidence,
      ending, executor
<1>16. CASE RecordSmoke
  BY <1>16 DEF RecordSmoke, Passes, cluster, rollback, smoke, evidence,
      ending, executor
<1>17. CASE RenderFailure
  BY <1>17 DEF RenderFailure, Records, Raise, Continue, cluster, rollback,
      smoke, evidence, ending, executor
<1>18. CASE Inject
  BY <1>18 DEF Inject, Changes, Raise, Continue, cluster, rollback, smoke,
      evidence, ending, executor
<1>19. CASE FailureRollout
  BY <1>19 DEF FailureRollout, Observed, Raise, Continue, cluster, rollback,
      smoke, evidence, ending, executor
<1>20. CASE SeePods
  BY <1>20 DEF SeePods, Observed, Raise, Continue, cluster, rollback, smoke,
      evidence, ending, executor
<1>21. CASE SeeEvents
  BY <1>21 DEF SeeEvents, Observed, Raise, Continue, cluster, rollback, smoke,
      evidence, ending, executor
<1>22. CASE Undo
  BY <1>22 DEF Undo, Changes, Raise, Continue, cluster, rollback, smoke,
      evidence, ending, executor
<1>23. CASE Restored
  BY <1>23 DEF Restored, Records, Raise, Continue, cluster, rollback, smoke,
      evidence, ending, executor
<1>24. CASE RestoredDeployment
  BY <1>24 DEF RestoredDeployment, Records, Raise, Continue, cluster,
      rollback, smoke, evidence, ending, executor
<1>25. CASE RestoredPods
  BY <1>25 DEF RestoredPods, Attested, Raise, Continue, cluster, rollback,
      smoke, evidence, ending, executor
<1>26. CASE RecordPostSmoke
  BY <1>26 DEF RecordPostSmoke, Passes, Raise, Continue, cluster, rollback,
      smoke, evidence, ending, executor
<1>27. CASE RecordRollback
  BY <1>27 DEF RecordRollback, Records, Raise, Continue, cluster, rollback,
      smoke, evidence, ending, executor
<1>28. CASE PersistResult
  BY <1>28 DEF PersistResult, Records, Raise, Continue, cluster, rollback,
      smoke, evidence, ending, executor
<1>29. CASE Return
  BY <1>29 DEF Return, cluster, rollback, smoke, evidence, ending, executor
<1>30. CASE Handle
  BY <1>30 DEF Handle, cluster, rollback, smoke, evidence, ending, executor
<1>31. CASE ForwardExits
  BY <1>31 DEF ForwardExits, cluster, rollback, smoke, evidence, ending,
      executor
<1>32. ASSUME NEW p \in Pods, CreatePod(p)
      PROVE  RevisionInv'
  BY <1>32 DEF CreatePod, Live, cluster, rollback, smoke, evidence, ending,
      executor
<1>33. ASSUME NEW p \in Pods, DeletePod(p)
      PROVE  RevisionInv'
  BY <1>33 DEF DeletePod, Live, cluster, rollback, smoke, evidence, ending,
      executor
<1>34. ASSUME NEW p \in Pods, ProbePasses(p)
      PROVE  RevisionInv'
  BY <1>34 DEF ProbePasses, Live, cluster, rollback, smoke, evidence, ending,
      executor
<1>35. ASSUME NEW p \in Pods, ProbeFails(p)
      PROVE  RevisionInv'
  BY <1>35 DEF ProbeFails, Live, cluster, rollback, smoke, evidence, ending,
      executor
<1>36. CASE Done \/ UNCHANGED vars
  BY <1>36 DEF Done, cluster, rollback, smoke, evidence, ending, executor,
      vars
<1> QED
  BY <1>1, <1>2, <1>3, <1>4, <1>5, <1>6, <1>7, <1>8, <1>9, <1>10, <1>11,
      <1>12, <1>13, <1>14, <1>15, <1>16, <1>17, <1>18, <1>19, <1>20, <1>21,
      <1>22, <1>23, <1>24, <1>25, <1>26, <1>27, <1>28, <1>29, <1>30, <1>31,
      <1>32, <1>33, <1>34, <1>35, <1>36
  DEF Next, Execute, Smoke, Rollback, Cluster

\* What the rollback has shown stays true until it is recorded.
LEMMA RollbackStep ==
    ASSUME IInv, [Next]_vars
    PROVE  RollbackInv'
<1> USE DEF IInv, TypeOK, ClusterType, ExecutorType, RevisionInv, Deployed,
      Failing, PodInv, RollbackInv, VerifiedCauseIsReal, Forwarding,
      AfterRollback, At, Goto
<1>1. CASE Persist
  BY <1>1 DEF Persist, Records, Raise, Continue, cluster, rollback, smoke,
      evidence, ending, executor
<1>2. CASE DryRunNamespace
  BY <1>2 DEF DryRunNamespace, Records, Raise, Continue, cluster, rollback,
      smoke, evidence, ending, executor
<1>3. CASE BootstrapNamespace
  BY <1>3 DEF BootstrapNamespace, Raise, Continue, cluster, rollback, smoke,
      evidence, ending, executor
<1>4. CASE DryRun
  BY <1>4 DEF DryRun, Records, Raise, Continue, cluster, rollback, smoke,
      evidence, ending, executor
<1>5. CASE Apply
  BY <1>5 DEF Apply, Changes, Raise, Continue, cluster, rollback, smoke,
      evidence, ending, executor
<1>6. CASE Applied
  BY <1>6 DEF Applied, Records, Raise, Continue, cluster, rollback, smoke,
      evidence, ending, executor
<1>7. CASE Rollout
  BY <1>7 DEF Rollout, Records, Raise, Continue, cluster, rollback, smoke,
      evidence, ending, executor
<1>8. CASE GetDeployment
  BY <1>8 DEF GetDeployment, Records, Raise, Continue, cluster, rollback,
      smoke, evidence, ending, executor
<1>9. CASE GetService
  BY <1>9 DEF GetService, Records, Raise, Continue, cluster, rollback, smoke,
      evidence, ending, executor
<1>10. CASE Attest
  BY <1>10 DEF Attest, Records, Raise, Continue, cluster, rollback, smoke,
      evidence, ending, executor
<1>11. CASE StartForward
  BY <1>11 DEF StartForward, Phase, Continue, cluster, rollback, smoke,
      evidence, ending, executor
<1>12. CASE AwaitForward
  BY <1>12 DEF AwaitForward, SmokeStep, SmokeFails, Continue, cluster,
      rollback, smoke, evidence, ending, executor
<1>13. CASE Http
  BY <1>13 DEF Http, SmokeStep, SmokeFails, Continue, cluster, rollback,
      smoke, evidence, ending, executor
<1>14. CASE StillRunning
  BY <1>14 DEF StillRunning, SmokeStep, SmokeFails, Continue, cluster,
      rollback, smoke, evidence, ending, executor
<1>15. CASE CloseForward
  BY <1>15 DEF CloseForward, SmokeStep, cluster, rollback, smoke, evidence,
      ending, executor
<1>16. CASE RecordSmoke
  BY <1>16 DEF RecordSmoke, Passes, cluster, rollback, smoke, evidence,
      ending, executor
<1>17. CASE RenderFailure
  BY <1>17 DEF RenderFailure, Records, Raise, Continue, cluster, rollback,
      smoke, evidence, ending, executor
<1>18. CASE Inject
  BY <1>18 DEF Inject, Changes, Raise, Continue, cluster, rollback, smoke,
      evidence, ending, executor
<1>19. CASE FailureRollout
  BY <1>19 DEF FailureRollout, Observed, Raise, Continue, cluster, rollback,
      smoke, evidence, ending, executor
<1>20. CASE SeePods
  BY <1>20 DEF SeePods, Observed, Raise, Continue, cluster, rollback, smoke,
      evidence, ending, executor
<1>21. CASE SeeEvents
  <2>1. seen \cap events # {} => \E p \in Pods : revision[p] = "failing" /\ p \in events
    OBVIOUS
  <2>2. verified' => verified \/ seen \cap events # {}
    BY <1>21, Zenon DEF SeeEvents
  <2>3. /\ UNCHANGED <<revision, events, smoking, digest, target>>
        /\ pc = "see_events"
        /\ pc' = "handle" \/ (pc' = "undo" /\ verified')
        /\ "rollback" \in files' => "rollback" \in files
    BY <1>21 DEF SeeEvents, Observed, Raise, Continue, cluster, smoke
  <2> QED
    BY <2>1, <2>2, <2>3
<1>22. CASE Undo
  BY <1>22 DEF Undo, Changes, Raise, Continue, cluster, rollback, smoke,
      evidence, ending, executor
<1>23. CASE Restored
  BY <1>23 DEF Restored, Records, Raise, Continue, cluster, rollback, smoke,
      evidence, ending, executor
<1>24. CASE RestoredDeployment
  BY <1>24 DEF RestoredDeployment, Records, Raise, Continue, cluster,
      rollback, smoke, evidence, ending, executor
<1>25. CASE RestoredPods
  BY <1>25 DEF RestoredPods, Attested, Raise, Continue, cluster, rollback,
      smoke, evidence, ending, executor
<1>26. CASE RecordPostSmoke
  BY <1>26 DEF RecordPostSmoke, Passes, Raise, Continue, cluster, rollback,
      smoke, evidence, ending, executor
<1>27. CASE RecordRollback
  BY <1>27 DEF RecordRollback, Records, Raise, Continue, cluster, rollback,
      smoke, evidence, ending, executor
<1>28. CASE PersistResult
  BY <1>28 DEF PersistResult, Records, Raise, Continue, cluster, rollback,
      smoke, evidence, ending, executor
<1>29. CASE Return
  BY <1>29 DEF Return, cluster, rollback, smoke, evidence, ending, executor
<1>30. CASE Handle
  BY <1>30 DEF Handle, cluster, rollback, smoke, evidence, ending, executor
<1>31. CASE ForwardExits
  BY <1>31 DEF ForwardExits, cluster, rollback, smoke, evidence, ending,
      executor
<1>32. ASSUME NEW p \in Pods, CreatePod(p)
      PROVE  RollbackInv'
  BY <1>32 DEF CreatePod, Live, cluster, rollback, smoke, evidence, ending,
      executor
<1>33. ASSUME NEW p \in Pods, DeletePod(p)
      PROVE  RollbackInv'
  BY <1>33 DEF DeletePod, Live, cluster, rollback, smoke, evidence, ending,
      executor
<1>34. ASSUME NEW p \in Pods, ProbePasses(p)
      PROVE  RollbackInv'
  BY <1>34 DEF ProbePasses, Live, cluster, rollback, smoke, evidence, ending,
      executor
<1>35. ASSUME NEW p \in Pods, ProbeFails(p)
      PROVE  RollbackInv'
  BY <1>35 DEF ProbeFails, Live, cluster, rollback, smoke, evidence, ending,
      executor
<1>36. CASE Done \/ UNCHANGED vars
  <2>1. UNCHANGED <<revision, events, verified, smoking, digest, target, pc, files>>
    BY <1>36 DEF Done, vars, executor, cluster
  <2> QED
    BY <2>1
<1> QED
  BY <1>1, <1>2, <1>3, <1>4, <1>5, <1>6, <1>7, <1>8, <1>9, <1>10, <1>11,
      <1>12, <1>13, <1>14, <1>15, <1>16, <1>17, <1>18, <1>19, <1>20, <1>21,
      <1>22, <1>23, <1>24, <1>25, <1>26, <1>27, <1>28, <1>29, <1>30, <1>31,
      <1>32, <1>33, <1>34, <1>35, <1>36
  DEF Next, Execute, Smoke, Rollback, Cluster

\* A port-forward never leaves its smoke test running.
LEMMA ForwardStep ==
    ASSUME IInv, [Next]_vars
    PROVE  ForwardIsAccounted'
<1> USE DEF IInv, ForwardIsAccounted, At, Goto
<1>1. CASE Persist
  BY <1>1 DEF Persist, Records, Raise, Continue, cluster, rollback, smoke,
      evidence, ending, executor
<1>2. CASE DryRunNamespace
  BY <1>2 DEF DryRunNamespace, Records, Raise, Continue, cluster, rollback,
      smoke, evidence, ending, executor
<1>3. CASE BootstrapNamespace
  BY <1>3 DEF BootstrapNamespace, Raise, Continue, cluster, rollback, smoke,
      evidence, ending, executor
<1>4. CASE DryRun
  BY <1>4 DEF DryRun, Records, Raise, Continue, cluster, rollback, smoke,
      evidence, ending, executor
<1>5. CASE Apply
  BY <1>5 DEF Apply, Changes, Raise, Continue, cluster, rollback, smoke,
      evidence, ending, executor
<1>6. CASE Applied
  BY <1>6 DEF Applied, Records, Raise, Continue, cluster, rollback, smoke,
      evidence, ending, executor
<1>7. CASE Rollout
  BY <1>7 DEF Rollout, Records, Raise, Continue, cluster, rollback, smoke,
      evidence, ending, executor
<1>8. CASE GetDeployment
  BY <1>8 DEF GetDeployment, Records, Raise, Continue, cluster, rollback,
      smoke, evidence, ending, executor
<1>9. CASE GetService
  BY <1>9 DEF GetService, Records, Raise, Continue, cluster, rollback, smoke,
      evidence, ending, executor
<1>10. CASE Attest
  BY <1>10 DEF Attest, Records, Raise, Continue, cluster, rollback, smoke,
      evidence, ending, executor
<1>11. CASE StartForward
  BY <1>11 DEF StartForward, Phase, Continue, cluster, rollback, smoke,
      evidence, ending, executor
<1>12. CASE AwaitForward
  BY <1>12 DEF AwaitForward, SmokeStep, SmokeFails, Continue, cluster,
      rollback, smoke, evidence, ending, executor
<1>13. CASE Http
  BY <1>13 DEF Http, SmokeStep, SmokeFails, Continue, cluster, rollback,
      smoke, evidence, ending, executor
<1>14. CASE StillRunning
  BY <1>14 DEF StillRunning, SmokeStep, SmokeFails, Continue, cluster,
      rollback, smoke, evidence, ending, executor
<1>15. CASE CloseForward
  BY <1>15 DEF CloseForward, SmokeStep, cluster, rollback, smoke, evidence,
      ending, executor
<1>16. CASE RecordSmoke
  BY <1>16 DEF RecordSmoke, Passes, cluster, rollback, smoke, evidence,
      ending, executor
<1>17. CASE RenderFailure
  BY <1>17 DEF RenderFailure, Records, Raise, Continue, cluster, rollback,
      smoke, evidence, ending, executor
<1>18. CASE Inject
  BY <1>18 DEF Inject, Changes, Raise, Continue, cluster, rollback, smoke,
      evidence, ending, executor
<1>19. CASE FailureRollout
  BY <1>19 DEF FailureRollout, Observed, Raise, Continue, cluster, rollback,
      smoke, evidence, ending, executor
<1>20. CASE SeePods
  BY <1>20 DEF SeePods, Observed, Raise, Continue, cluster, rollback, smoke,
      evidence, ending, executor
<1>21. CASE SeeEvents
  BY <1>21 DEF SeeEvents, Observed, Raise, Continue, cluster, rollback, smoke,
      evidence, ending, executor
<1>22. CASE Undo
  BY <1>22 DEF Undo, Changes, Raise, Continue, cluster, rollback, smoke,
      evidence, ending, executor
<1>23. CASE Restored
  BY <1>23 DEF Restored, Records, Raise, Continue, cluster, rollback, smoke,
      evidence, ending, executor
<1>24. CASE RestoredDeployment
  BY <1>24 DEF RestoredDeployment, Records, Raise, Continue, cluster,
      rollback, smoke, evidence, ending, executor
<1>25. CASE RestoredPods
  BY <1>25 DEF RestoredPods, Attested, Raise, Continue, cluster, rollback,
      smoke, evidence, ending, executor
<1>26. CASE RecordPostSmoke
  BY <1>26 DEF RecordPostSmoke, Passes, Raise, Continue, cluster, rollback,
      smoke, evidence, ending, executor
<1>27. CASE RecordRollback
  BY <1>27 DEF RecordRollback, Records, Raise, Continue, cluster, rollback,
      smoke, evidence, ending, executor
<1>28. CASE PersistResult
  BY <1>28 DEF PersistResult, Records, Raise, Continue, cluster, rollback,
      smoke, evidence, ending, executor
<1>29. CASE Return
  BY <1>29 DEF Return, cluster, rollback, smoke, evidence, ending, executor
<1>30. CASE Handle
  BY <1>30 DEF Handle, cluster, rollback, smoke, evidence, ending, executor
<1>31. CASE ForwardExits
  BY <1>31 DEF ForwardExits, cluster, rollback, smoke, evidence, ending,
      executor
<1>32. ASSUME NEW p \in Pods, CreatePod(p)
      PROVE  ForwardIsAccounted'
  BY <1>32 DEF CreatePod, Live, cluster, rollback, smoke, evidence, ending,
      executor
<1>33. ASSUME NEW p \in Pods, DeletePod(p)
      PROVE  ForwardIsAccounted'
  BY <1>33 DEF DeletePod, Live, cluster, rollback, smoke, evidence, ending,
      executor
<1>34. ASSUME NEW p \in Pods, ProbePasses(p)
      PROVE  ForwardIsAccounted'
  BY <1>34 DEF ProbePasses, Live, cluster, rollback, smoke, evidence, ending,
      executor
<1>35. ASSUME NEW p \in Pods, ProbeFails(p)
      PROVE  ForwardIsAccounted'
  BY <1>35 DEF ProbeFails, Live, cluster, rollback, smoke, evidence, ending,
      executor
<1>36. CASE Done \/ UNCHANGED vars
  BY <1>36 DEF Done, cluster, rollback, smoke, evidence, ending, executor,
      vars
<1> QED
  BY <1>1, <1>2, <1>3, <1>4, <1>5, <1>6, <1>7, <1>8, <1>9, <1>10, <1>11,
      <1>12, <1>13, <1>14, <1>15, <1>16, <1>17, <1>18, <1>19, <1>20, <1>21,
      <1>22, <1>23, <1>24, <1>25, <1>26, <1>27, <1>28, <1>29, <1>30, <1>31,
      <1>32, <1>33, <1>34, <1>35, <1>36
  DEF Next, Execute, Smoke, Rollback, Cluster

\* Nothing exists that the flag does not know of.
LEMMA DiagnosisStep ==
    ASSUME IInv, [Next]_vars
    PROVE  DiagnosisInv'
<1> USE DEF IInv, RevisionInv, Undeployed, Deployed, Failing, DiagnosisInv,
      At, Goto
<1>1. CASE Persist
  BY <1>1 DEF Persist, Records, Raise, Continue, cluster, rollback, smoke,
      evidence, ending, executor
<1>2. CASE DryRunNamespace
  BY <1>2 DEF DryRunNamespace, Records, Raise, Continue, cluster, rollback,
      smoke, evidence, ending, executor
<1>3. CASE BootstrapNamespace
  BY <1>3 DEF BootstrapNamespace, Raise, Continue, cluster, rollback, smoke,
      evidence, ending, executor
<1>4. CASE DryRun
  BY <1>4 DEF DryRun, Records, Raise, Continue, cluster, rollback, smoke,
      evidence, ending, executor
<1>5. CASE Apply
  BY <1>5 DEF Apply, Changes, Raise, Continue, cluster, rollback, smoke,
      evidence, ending, executor
<1>6. CASE Applied
  BY <1>6 DEF Applied, Records, Raise, Continue, cluster, rollback, smoke,
      evidence, ending, executor
<1>7. CASE Rollout
  BY <1>7 DEF Rollout, Records, Raise, Continue, cluster, rollback, smoke,
      evidence, ending, executor
<1>8. CASE GetDeployment
  BY <1>8 DEF GetDeployment, Records, Raise, Continue, cluster, rollback,
      smoke, evidence, ending, executor
<1>9. CASE GetService
  BY <1>9 DEF GetService, Records, Raise, Continue, cluster, rollback, smoke,
      evidence, ending, executor
<1>10. CASE Attest
  BY <1>10 DEF Attest, Records, Raise, Continue, cluster, rollback, smoke,
      evidence, ending, executor
<1>11. CASE StartForward
  BY <1>11 DEF StartForward, Phase, Continue, cluster, rollback, smoke,
      evidence, ending, executor
<1>12. CASE AwaitForward
  BY <1>12 DEF AwaitForward, SmokeStep, SmokeFails, Continue, cluster,
      rollback, smoke, evidence, ending, executor
<1>13. CASE Http
  BY <1>13 DEF Http, SmokeStep, SmokeFails, Continue, cluster, rollback,
      smoke, evidence, ending, executor
<1>14. CASE StillRunning
  BY <1>14 DEF StillRunning, SmokeStep, SmokeFails, Continue, cluster,
      rollback, smoke, evidence, ending, executor
<1>15. CASE CloseForward
  BY <1>15 DEF CloseForward, SmokeStep, cluster, rollback, smoke, evidence,
      ending, executor
<1>16. CASE RecordSmoke
  BY <1>16 DEF RecordSmoke, Passes, cluster, rollback, smoke, evidence,
      ending, executor
<1>17. CASE RenderFailure
  BY <1>17 DEF RenderFailure, Records, Raise, Continue, cluster, rollback,
      smoke, evidence, ending, executor
<1>18. CASE Inject
  BY <1>18 DEF Inject, Changes, Raise, Continue, cluster, rollback, smoke,
      evidence, ending, executor
<1>19. CASE FailureRollout
  BY <1>19 DEF FailureRollout, Observed, Raise, Continue, cluster, rollback,
      smoke, evidence, ending, executor
<1>20. CASE SeePods
  BY <1>20 DEF SeePods, Observed, Raise, Continue, cluster, rollback, smoke,
      evidence, ending, executor
<1>21. CASE SeeEvents
  BY <1>21 DEF SeeEvents, Observed, Raise, Continue, cluster, rollback, smoke,
      evidence, ending, executor
<1>22. CASE Undo
  BY <1>22 DEF Undo, Changes, Raise, Continue, cluster, rollback, smoke,
      evidence, ending, executor
<1>23. CASE Restored
  BY <1>23 DEF Restored, Records, Raise, Continue, cluster, rollback, smoke,
      evidence, ending, executor
<1>24. CASE RestoredDeployment
  BY <1>24 DEF RestoredDeployment, Records, Raise, Continue, cluster,
      rollback, smoke, evidence, ending, executor
<1>25. CASE RestoredPods
  BY <1>25 DEF RestoredPods, Attested, Raise, Continue, cluster, rollback,
      smoke, evidence, ending, executor
<1>26. CASE RecordPostSmoke
  BY <1>26 DEF RecordPostSmoke, Passes, Raise, Continue, cluster, rollback,
      smoke, evidence, ending, executor
<1>27. CASE RecordRollback
  BY <1>27 DEF RecordRollback, Records, Raise, Continue, cluster, rollback,
      smoke, evidence, ending, executor
<1>28. CASE PersistResult
  BY <1>28 DEF PersistResult, Records, Raise, Continue, cluster, rollback,
      smoke, evidence, ending, executor
<1>29. CASE Return
  BY <1>29 DEF Return, cluster, rollback, smoke, evidence, ending, executor
<1>30. CASE Handle
  BY <1>30 DEF Handle, cluster, rollback, smoke, evidence, ending, executor
<1>31. CASE ForwardExits
  BY <1>31 DEF ForwardExits, cluster, rollback, smoke, evidence, ending,
      executor
<1>32. ASSUME NEW p \in Pods, CreatePod(p)
      PROVE  DiagnosisInv'
  BY <1>32 DEF CreatePod, Live, cluster, rollback, smoke, evidence, ending,
      executor
<1>33. ASSUME NEW p \in Pods, DeletePod(p)
      PROVE  DiagnosisInv'
  BY <1>33 DEF DeletePod, Live, cluster, rollback, smoke, evidence, ending,
      executor
<1>34. ASSUME NEW p \in Pods, ProbePasses(p)
      PROVE  DiagnosisInv'
  BY <1>34 DEF ProbePasses, Live, cluster, rollback, smoke, evidence, ending,
      executor
<1>35. ASSUME NEW p \in Pods, ProbeFails(p)
      PROVE  DiagnosisInv'
  BY <1>35 DEF ProbeFails, Live, cluster, rollback, smoke, evidence, ending,
      executor
<1>36. CASE Done \/ UNCHANGED vars
  BY <1>36 DEF Done, cluster, rollback, smoke, evidence, ending, executor,
      vars
<1> QED
  BY <1>1, <1>2, <1>3, <1>4, <1>5, <1>6, <1>7, <1>8, <1>9, <1>10, <1>11,
      <1>12, <1>13, <1>14, <1>15, <1>16, <1>17, <1>18, <1>19, <1>20, <1>21,
      <1>22, <1>23, <1>24, <1>25, <1>26, <1>27, <1>28, <1>29, <1>30, <1>31,
      <1>32, <1>33, <1>34, <1>35, <1>36
  DEF Next, Execute, Smoke, Rollback, Cluster

\* The inductive invariant: types, what the Deployment asks for, what the
\* rollback has shown, the port-forward, and the diagnostics.
THEOREM Invariance == Spec => []IInv
<1>1. IInv /\ [Next]_vars => IInv'
  BY ClusterTypeStep, ControlTypeStep, FlagTypeStep, EvidenceTypeStep,
     RevisionStep, PodStep, RollbackStep, ForwardStep, DiagnosisStep
  DEF IInv, TypeOK, ExecutorType, ControlType, FlagType, EvidenceType
<1> QED
  BY Initially, <1>1, PTL DEF Spec

\* The variables keep their types, whatever pods there are.
THEOREM TypeCorrect == Spec => []TypeOK
<1>1. IInv => TypeOK
  BY DEF IInv
<1> QED
  BY Invariance, <1>1, PTL

\* An observation that blames the readiness probe is backed by a pod of the
\* failing revision that has failed it.
THEOREM CauseIsReal == Spec => []VerifiedCauseIsReal
<1>1. IInv => VerifiedCauseIsReal
  BY DEF IInv, RollbackInv
<1> QED
  BY Invariance, <1>1, PTL

\* A rollback record is about a rollback that took place and restored the
\* attested revision, even if the execution fails afterwards.
THEOREM RollbackIsTrue == Spec => []RollbackRecordIsTrue
<1>1. IInv => RollbackRecordIsTrue
  BY DEF IInv, RollbackInv, RollbackRecordIsTrue
<1> QED
  BY Invariance, <1>1, PTL

\* Every port-forward is closed with its smoke test, or fails the execution.
THEOREM ForwardsAreAccounted == Spec => []ForwardIsAccounted
<1>1. IInv => ForwardIsAccounted
  BY DEF IInv
<1> QED
  BY Invariance, <1>1, PTL

\* A failed execution has collected diagnostics if it may have changed the
\* cluster.
THEOREM EffectsAreDiagnosed == Spec => []EveryEffectIsDiagnosed
<1>1. IInv => EveryEffectIsDiagnosed
  BY DEF IInv, DiagnosisInv, EveryEffectIsDiagnosed
<1> QED
  BY Invariance, <1>1, PTL
=============================================================================
