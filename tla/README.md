# Formal models of DevOps Stack Composer

This directory holds TLA+ specifications of the parts of DevOps Stack Composer whose
correctness depends on what happens *between* steps: a run that may raise anywhere, the
durable journal it writes, the external resources it creates, the record and the sealed
bundle that let another process remove them, the evidence about an image whose tag others move,
the generated tree that commands and users edit, and the builds of the generated pipeline.  TLC checks the models on small instances; TLAPS
proves the main invariants for every value of the constants.  Paths below are relative to
`src/devops_stack_composer/` unless they start with another directory.

1. [Inventory](#1-inventory)
2. [Plan](#2-plan)
3. [The modules](#3-the-modules)
4. [What the runs show](#4-what-the-runs-show)
5. [Fairness](#5-fairness)
6. [What is proved](#6-what-is-proved)
7. [Disagreements found](#7-disagreements-found)
8. [What is not modelled](#8-what-is-not-modelled)

## 1. Inventory

The program turns a configuration into Docker, Jenkins and Kubernetes files (`generate`),
validates them (`validate`, `diff`), executes them locally once (`execution run`) and closes what
it observed into an evidence bundle.  The files it generates are a program too: a Jenkins pipeline
whose builds share a registry and a cluster.

| Component | State | Operations | Hard behaviour | What makes it correct |
|---|---|---|---|---|
| Execution state journal (`execution_state.py`) | list of timestamped transitions, in memory and in `state.json` | `append`, `from_dict`, `open`, the calls of `_ExecutionProgress` | failed writes, death between two writes, a wall clock that steps back | memory and file agree, the file replays, only grows, and tells one outcome |
| Execution orchestrator (`execution.py`) | stage results, current stage, failure, resources, report | `execute`: about twenty stages, a handler for every exception, the `finally` cleanup, release gates, closing | every step may raise, so may the handlers; report, journal and final status are written by different handlers | success is earned, a started run ends with an accepted bundle (but for the three cases of section 7), nothing unknown is left behind |
| Profile policies, plan (`policies.py`, `execution_plan.py`) | none | required stages, required failures, vulnerability policy | tables must agree with the orchestrator; exceptions expire while a run goes on | a report that passes has every required stage; a stricter policy accepts less |
| Offline validation (`runtime_validation.py`, `evidence_validation.py`) | none | stage sequence, final status, requirements of the evidence | it may refuse what the orchestrator writes: the evidence of a failed run is whatever it had gathered | accepts the record of every run, wherever it failed, but for the cases of section 7 |
| Resource recovery (`resource_recovery.py`) | `resources.json`; a copy in each process | record, load, `cleanup`, save | repeated and concurrent cleanups, names that change hands, providers that do not list a cluster | removes only the run's containers, says "removed" only of what is gone, converges |
| Evidence bundle (`evidence_bundle.py`, `evidence_store.py`) | `checksums.json`, `SHA256SUMS` | assemble, verify, reseal of one record | three writes without a lock, an undo that may fail as well | a reseal leaves a bundle that verifies, the old one or the new one |
| Ephemeral registry (`registry.py`) | a container and its identity | `start`, `status`, `connect`, `logs`, `cleanup` | commands that time out after their effect | removes what it started and nothing else |
| kind cluster (`kind_cluster.py`) | a cluster, its node, a kubeconfig file | `create`, `connect`, `destroy`, `reopen`, `detach` | identified by name, verified by node ID | as above |
| Kubernetes executor (`kubernetes_execution.py`) | deployment under test, events | apply, rollout, observation, smoke test, rollback proof | observation races with the rollout, deadlines | evidence refers to the deployed image; the rollback restores it |
| Process runner (`process_runner.py`) | process, collectors, monitor thread | run, start, wait, close, terminate | threads, deadlines, process groups | every process ends, its output is bounded, results are given once |
| Build once (`build_once.py`) | the tag in the registry | build, push, resolve | a tag moves while it is read | one digest for one build |
| Supply chain evidence (`supply_chain.py`, `oci.py`) | SBOM, scan and provenance files | `generate` | tag, tools, database and date change between its commands | evidence is about the image that was built, made by the tools that are named |
| Execution bundle reader (`execution_bundle.py`) | none | `verify` | it reads what failed runs sealed as well | accepts what a run sealed, nothing that was edited |
| Jenkins adapter, generated pipeline (`adapters/jenkins.py`) | per build an environment and a workspace; tags, Deployments | `render`; the stages of a build | branches that build side by side, aborted builds, an approval that nobody gives, rollback | what is deployed was verified and approved; a failed rollout is undone |
| Validation of generated output (`validation.py`) | none | checks of each file, then byte comparison | checks that each look for one thing | they accept no unsafe pipeline |
| Template checks (`adapters/*.py`) | none | commands of the template, statuses | missing tools, commands that fail or answer oddly | nothing unexamined passes |
| Generated files (`manifest.py`, `diffing.py`, `composition.py`) | generated tree and manifest | plan, write, verify, diff | a write that dies half-way, edits meanwhile, two commands at once | user edits are never overwritten, the manifest never runs ahead, the views agree |
| Template lock and sources (`locks.py`, `sources.py`, `archives.py`) | lock file, checkouts, cache | load, resolve, fetch, archive, update | checkouts, remote and lock move | what is archived is what is locked; an update changes only what was reviewed |
| Command line (`cli.py`) | none | one function per command | order of checks and writes | as the components it calls |
| Local kind orchestrator (`local_execution.py`) | like the orchestrator | `run` | used by the tests only | as the orchestrator |
| Release (`release_*.py`) | none between calls | parse, compare | agreement of many documents | refuses any mismatch |
| Configuration, inspection, reports | none | parsing, formatting | none over time | - |

**How they interact.**  `execute` is one thread.  It calls `registry.start`, records the
container through `ResourceRecoveryStore.record_registry`, writes `planned` and `validated`
through the progress writer, runs the stages, and hands each result to the journal *after* the
stage has one.  Between build and deployment it calls `BuildOnceExecutor` and
`SupplyChainEvidenceGenerator`, which hand it records, and writes them.
`KubernetesExecutor.execute` reports events back through a callback
(`_ExecutionProgress.kubernetes_event`) and its failures are translated into stages by a table.
The `finally` block destroys the cluster, then the registry, then lets the recovery store confirm
it and update `resources.json`.  Last, `assemble_evidence_bundle` validates all records and
writes the two seals.  `devops-stack execution cleanup` is another process, possibly several,
that shares with the run only the files and the Docker host.

`generate`, `validate` and `diff` are processes that share the project's files with each other, with
`templates update` and with the user; nothing locks them.  Each composes in memory (lock, templates,
adapters, their validators) and then looks at, or writes, the tree.  Builds of the generated pipeline
share the registry's tags and the cluster's Deployments, and nothing else.

The behaviours that are hard to test are listed line by line under `hazards` in
`PROJECT.json`, each with the properties that cover it or the reason none does.

## 2. Plan

In the order of importance; *done* marks what this directory holds.

1. *done* `RunLifecycle`, `ExecutionJournal`: the journal and the abstract lifecycle it
   implements (proofs in `ExecutionProofs`).
2. *done* `ResourceRecovery`, `MCResourceRecovery`, `ResourceRecoveryProofs`: both resources from
   creation to removal, with the reseal of the bundle.
3. *done* `ProfilePolicy`, `ExecutionRun`, `ExecutionProofs`: the orchestrator over the journal's rules,
   and the proofs about both.
4. *done* `ProcessRunner`, `ProcessRunnerProofs`: a process with its descendants, its collectors,
   the monitor loop, `wait`, `close`, `wait_for_output` and a deadline.
5. *done* `ClusterLifecycle`, `ClusterLifecycleProofs`: the registry and the kind cluster command by
   command, under `cluster kind create` and `destroy`.
6. *done* `KubernetesRollout`, `KubernetesRolloutProofs`: deployment, attestation, smoke test,
   observation and rollback proof against a cluster that acts on its own.
7. *done* `VulnerabilityPolicy`, `SupplyChain` and their proofs: build once, evidence, contract, seal
   and offline reader against a tag, tools, dates and files that others change.
8. *done* `JenkinsPipeline`, `JenkinsBuilds`, `MCJenkins`, `JenkinsBuildsProofs`: the generated
   pipeline as data, its checks, and its builds.
9. *done* `TemplateSources`, `UpstreamChecks`, `GeneratedTree`, `MCGeneratedTree` and
   `GeneratedTreeProofs`: composition, the write of the tree and its three views, `templates update`.

Left:

10. The split of the journal's append into replace and adopt, between which an interrupt can strike.
11. A cleanup that overlaps the run it cleans (`ResourceRecovery` starts cleanups when the run has
    ended), and a child that outlives an interrupted `run` and creates a resource after the cleanup.
12. An abstract *owned resource* (created at most once, removed only by its identity) that
    `ClusterLifecycle` and `ResourceRecovery` both implement; `SealedBundle`, the abstract promise of a
    reseal.
13. `LocalKindRun`: the second orchestrator, a refinement of the same abstract run as `ExecutionRun`.
14. The checks of Dockerfile, manifests and supply-chain files as `JenkinsPipeline` has those of the
    Jenkinsfile; release asset sets as operators.

Proofs left: no safety property of a run is without its theorem.  The liveness properties stay with
TLC (section 6).

## 3. The modules

`PROJECT.json` maps every definition to the lines it translates.

### RunLifecycle

The abstract promise of a journal: it begins once, is decided once, by `succeeded` or
`failed`, and may then be cleaned.  No timestamps, no file, no crash.

### ExecutionJournal

Variables `machine` (the transitions in memory) and `disk` (`state.json`), a wall clock,
whether the writing process is up, and `pending`, the states the current call of the progress
writer still has to append.  One action per method of `_ExecutionProgress` begins a call;
`AppendNext` is one `ExecutionJournal.append` (validate a copy, replace the file, adopt the
copy); `Raise` is an append that is refused or whose write fails, which abandons the call and
changes neither copy; `Skip` is the repetition of a Kubernetes state, which is ignored; `Crash`
loses the memory; `Open` replays the file and refuses it when it does not replay.  Calls come
in *any* order, so that what is shown does not depend on how the orchestrator uses the writer.
Left out: the payload of a transition (command, digest, reason).  Its specification is `JournalSpec`
(`JournalInit`, `JournalNext`), since `ExecutionProofs` extends this module and `ExecutionRun` together.

### ProfilePolicy

The four profiles' required stages as sequences, `required_stage_failures`, and the two rules
of the offline validator about stages: the final status and the sequence.

### ExecutionRun

One call of `execute`.  `pc` names the next step, `results` the status of each stage, `stage`
is `current_stage`, `failed` stands for a non-empty `failure_reason`, `escaping` for an exception
that came out of a handler.  `Stage` is the common shape (raise, or pass and tell the
journal); `Raises` is `except BaseException`, including the journal write it makes itself.
`Executor` has a step for each step of `KubernetesExecutor.execute`; `RecordKubernetesFailure` is the
handler of its errors and `KubernetesProgress` the table that translates them.  That handler raises
itself (`HandlerRaises`) for every error that carries the executor's inventory, which section 7 explains.  `Retain`, `Cleanup` and `NoCleanup` are the `finally`
block, `Release` the gates, `Finish` the report and the final status, `CloseBundle` and
`CloseWithoutWriter` the end of a canonical run, `WriteRecords` that of a lightweight one.
`evidence` is what the record of the run will carry: the artifact, which `ResolveDigest` holds from before it
is validated and which could be an index; the supply-chain evidence, which a refused scan leaves
behind; the deployment, held from before it is checked; and the cluster's ownership record.
`BundleAccepted` is the whole of `assemble_evidence_bundle`'s judgement: `ReportValid` (final status and
stages), `EvidenceRequired` (`_validate_evidence_requirements`), `SameDigest`
(`_verify_artifact_identity`), `StateRecordValid` and `DeclaredFilesExist`.  The journal's rules for what may
follow what are those of `ExecutionJournal`, taken by `INSTANCE`.  Left out: schemas and redaction, which every
record the code builds passes; a `KeyboardInterrupt` is an exception of the step it lands in.

### ResourceRecovery

Containers have an ID that is never given twice; the registry's name is held by at most one of
them, and a cluster is what kind lists under the run's name.  `record`, `manifest` and `sums` are
the three files; a seal is the value it was computed from.  The process `Main` creates, records,
works, destroys, updates the record and closes the bundle; each of `Cleaners` may run
`ResourceRecoveryStore.cleanup` any number of times after the run has ended.  Every command is a
step of its own, with an alternative that fails before and one that fails after its effect;
the reseal is six steps and its undo walks the same six.  `Other` is everybody else on the host:
removes and renames containers, takes free names, or points kind at a provider that does not
list the cluster.  `Crash` may hit every process anywhere.  Left out: redaction and JSON, and
the registry's connection to the network of the cluster.

`MCResourceRecovery` only adds the symmetry sets.

### ProcessRunner

One command.  `life`, `group` and `holding` are the processes: what runs, what is in the leader's
process group and what holds the pipes; a descendant may leave the group or redirect its output,
any process may ignore SIGTERM, and not even SIGKILL need end one soon.  `written`, `taken` and
`value` are each pipe and what its `_BoundedStream` has kept.  `pc` is the loop that `run` executes
in the calling thread and `start` in a monitor thread: poll, decide, `_terminate` with its three
waits, `_join_collectors`, the rendering of the result.  `Wait`, `Close` and `WaitForOutput` are the
methods of a `ManagedProcess`, each begun and ended in steps of their own, so that the monitor
and the collectors act in between.  `Interrupt` leaves `run` by an exception.  Time has no value:
a wait ends with or without what it waited for.  One assumption is in `Joined`: a collector that is
still alive after a join of the grace period is one that waits for output, not one that has been
too slow to read what is there.  Left out: validation, redaction, Windows.

### KubernetesRollout

`KubernetesExecutor.execute`, one step per command.  The cluster is what kubectl can show of it:
the revision the Deployment asks for (`target`) and the one an undo returns to (`prior`), the
revision and the condition of each pod, the events about failed readiness probes, and the digest
the runtime reports for the image.  `CreatePod`, `DeletePod`, `ProbePasses` and `ProbeFails` are the
Deployment controller, the kubelet and the application; they act between any two commands, and
neither revision is assumed to behave: the original one may fail probes, and an application that
answers every path passes those of the failing one.  The cluster belongs to the run, so nobody
else changes `target`.  `Records` is the shape of a step that changes nothing in the cluster: it may
raise, with or without having written its evidence, or go on; `Changes` is a command that sets a
revision and may fail before and after its effect.  `StartForward` to `CloseForward` are `_smoke`,
entered twice (`smoking`), whose errors pass the `finally` block that closes the port-forward.
`SeePods` and `SeeEvents` are the two reads of `_observe_readiness_failure`; `verified` is what
rollback-observation.json says of the cause.  `Handle` is the three handlers: they cover every
error the code raises on purpose, including those of the evidence store and of kubectl; any
other exception has no handler in `execute`, and `ExecutionRun` has it as an exception of the stage.
Left out: the identity checks of the manifest before the first command, the content of the
evidence, and `server_side_dry_run`, which another command uses.

### ClusterLifecycle

`cluster kind create` (the process `Creator`, once) and `cluster kind destroy` (each of
`Destroyers`, any number of times).  `registry`, `regName` and `foreign` are the container, who has its
name, and a container that took it; `node` is the cluster with its one node; `configured` is what
`configure_local_registry` has put in place; `files` and `sums` are the run directory.  `known`,
`ported` and `owned` are what the two objects of a process know: that there is a registry to clean
up, its handle, and the identity of the node.  `RunRegistry` to `AwaitReady` are
`EphemeralRegistry.start`, `CheckKind` to `DiscoverNodes` `KindCluster.create`, `VerifyNodes` to
`PublishConfigMap` the configuration, `Seal` and `SealCheck` the checksums.  `Handler` is the
`except BaseException` of create; it goes through the same steps as destroy: `ListClusters` to
`ConfirmDeleted`, then `InspectForCleanup` to `ConfirmRemoved`.  `Load` and the `Reopen...` steps
come before them in destroy.  `Others` is everybody else on the host; they leave the name of the
cluster alone (section 7 says what happens otherwise).  Left out: the private kubeconfig directory
and `status`.

### VulnerabilityPolicy

What `evaluate` counts of the findings of a scan on a day, and the policy that the older form of the
configuration stands for.  Pure operators; a finding has an identity, since a scan may report one
vulnerability of a package in several places and each counts.

### SupplyChain

One image.  `run` holds what the variables of `execute`, `BuildOnceExecutor` and the evidence
generator hold, and `at` the next command.  `Build` to `Recheck` are the build that pushes, the
resolution of the digest and the check that the tag did not move; `Sbom`, `Scan`, `ScannerVersion` the
tools; `WriteEvidence` the three files, any prefix of which may be what a failure leaves; `Accept` their
validation and the comparison of versions; `ArtifactContract`, `Deploy` and `Reverify` the stored
verification, written before the deployment and again after it; `Collect` and `Close` the seal.
`Fail` stands for every exception (the run goes on to its seal), `Die` for a death.  `Others` push to the
tag, replace a tool or the scanner's database, let the date change or edit a file of the run, before
or after it is sealed.  `Verifies` is `verify()` of the reader.  A document is a record that says which
image its content comes from (`of`) beside what it names, so that a document about the wrong image is
one that exists.  Left out: provenance beyond its subject, platforms (an index is refused),
registry authentication.

### JenkinsPipeline

The Jenkinsfile as data: `Render` gives, for a normalized model, the sequence of stages with their
`when`, their commands and whether their failure undoes a rollout.  The other half are the checks
that `generate` makes of it: the adapter's structural diagnostic, the stages, blocks, routes, build,
evidence and deployment checks of `validation.py`, and the semantic checks of routes, approval and
rollback.  `Edits` are the pipelines that differ from a rendered one in one stage, and `Safe` is what the
checks are for.  The text of a stage is the sequence of its commands; quoting is left out.

### JenkinsBuilds

Builds of what `Render` writes, one of each branch at a time and branches side by side.  A build is a
record of what its environment and its `at` hold; `workspace` is the directory below `out/`, which
outlives a build until the next one's `deleteDir`.  Every command of a stage is a step that may succeed,
fail, or fail after its effect, and `Abort` ends a build without `post`.  Consecutive stages without
shared effects (template, application build, tests, plan) are one step (`RunTools`), which may fail.  `tags`
are the registry's; `cluster` is, for each environment, the sequence of revisions of its Deployment,
on which `Applied` and `Undo` work as kubectl does: an equal older revision moves to the end.  An
environment may have been deployed to before the first build considered (by build 0 of a branch).  Left
out: `revisionHistoryLimit`, two commits with the same first twelve digits, agents and credentials.

### UpstreamChecks

The commands the adapters ask of a template at its locked commit, for which an answer is that it
succeeds, is not installed, cannot be run, exits with an error or prints something else; the order in which
they are asked and when asking stops; the status each answer becomes; and the part that ends up in
`platform-context.json`.

### TemplateSources

The lock (of the project, or the packaged one), the checkouts a source may be found in, the cache,
and `templates update --write` read by read: the lock, its hash, the remote, the comparison of both
commits, the hash again, the replacement.  Owners edit the lock, switch checkouts and push.

### GeneratedTree

`generate` (with and without `--force` and `--build-image`), `validate` and `diff`, for several processes.
`Begin` reads lock and configuration and resolves templates until one must be fetched; `Fetch` renames
into the cache; `Examine` renders and asks the template's validators; `Report` is the end of `validate`
and `diff`; `Plan` is the plan that is shown and `Write` the one that is written; `WriteFile` replaces one
file, and `Seal` the manifest.  `Stop` is a death or a failing write at any step, with the temporary file it may
leave.  The user edits, removes or replaces files by symbolic links, changes the configuration or the
host's tools; the content of a file is what it depends on: the model, its template's commit and, for
`platform-context.json`, the statuses.  `unsealed` and `crossed` are history variables: what was written
since the manifest, and whether two commands wrote at once.  Left out: `--lock` and paths outside the
project, exceptions inside a rendering, the version of an adapter (a constant).  Reading the manifest
and the tree is one step of `plan`.

`MCJenkins`, `MCSupplyChain` and `MCGeneratedTree` give the instances.

## 4. What the runs show

A model value stands for a container, a process, a branch, a pattern or a content.  Deadlock is checked in
`journal`, `execution`, `kubernetes_rollout`, `cluster_lifecycle` and the runs of `ResourceRecovery`, where a
finished run repeats its last state or a cleanup can be begun again.  The others really stop: a
command whose handle nobody uses any more, an image whose evidence is sealed, builds and commands
whose number is bounded.

| Run | Instance | What it shows |
|---|---|---|
| `journal` | clock readings 0..2 | any calls, failed writes, crashes and a clock that steps back leave a journal that replays and implements `RunLifecycle` |
| `execution` | all profiles, retention, and both a directory that can be written and one whose writes may fail | a run that has its journal closes a bundle its own validator accepts, with whatever evidence it had gathered, wherever it fails, unless a write of its directory fails or one of three named cases occurs (section 7); and even then success is earned, report, bundle and journal tell one outcome and blame one stage, passed deployment stages were seen and leftovers are known |
| `supply_chain` | 2 images and an index, 2 versions of tools and database, 2 days, 2 steps of others | what verifies as passed is about the image that was built and names the tools that were used; what a run seals is accepted, but for the case of section 7 |
| `process` | a leader, 1 descendant, 1 stream, pipe of 2 units, limit of 1, up to 3 units written | whatever command and callers do, the outcome is true, the command does not outlive the invocation, no output is lost below the limit, no pipe blocks the command, and an invocation that was asked to end does |
| `kubernetes_rollout` | 3 pods, 1 replica | however pods come, go and flap and whatever command or write fails: a recorded rollback took place, a verified cause is real, effects are diagnosed, and the execution ends |
| `jenkins_pipeline` | 2 branches, 2 commits (one too vulnerable), 9 configurations, 2 builds of each branch and 2 in all | what an environment runs, or may be rolled back to, was verified by the build that applied it and approved; evidence names the true source where tags name commits; a failed rollout is undone; every build ends; the validator accepts no unsafe pipeline that differs in one stage |
| `generation` | 2 templates with 3 commits, 2 configurations, 3 artifacts and a stray path, 2 processes, 2 commands, 2 steps of others | validate, diff and generate agree; edits survive; the manifest is never ahead of the tree; a calm generate repairs it; only pinned commits are examined; an update changes nothing that was not compared |
| `cluster_lifecycle` | 1 create, 2 destroyers, 2 faults, 2 steps of others | whoever reports "destroyed" is right; one error of create leaves nothing that destroy refuses; left alone by others, repeating destroy removes both resources |
| `recovery_faults` | 4 containers, 1 cleaner, 3 faults, 2 steps of others | the record and the host agree after any combination of faults, and if others leave the host alone repeating the cleanup converges |
| `recovery_concurrent` | 3 containers, 2 cleaners, 1 fault, 1 step of others | one of two interleaved cleanups that reports completion is right, when others may take the cluster's name too |
| `jenkins_rollback`, `recovery_reseal` | smallest instance that shows it | the disagreements of section 7 |

**Bounds.**  Two clock readings apart (0..2) allow equal, rising and falling timestamps and a
fall after a rise; the journal itself needs no bound, since it ends after at most fourteen
transitions.  `ExecutionRun` is bounded by its own pipeline.  In `ResourceRecovery` the run needs two
containers and each step of others at most one more, which gives 4 for two such steps; three
faults reach a failed creation, a failed cleanup and a crash of its repetition (or a reseal
whose undo fails).  Two cleaners suffice for every pair of conflicting writes.  In
`ProcessRunner` one descendant is enough for each way to outlive the leader, in or out of the group
and with or without the pipes; the two outputs have collectors that share nothing, so one stands for
both; a pipe of two units over a limit of one can be full, below, at and above the limit.
In `KubernetesRollout` one pod of the
original revision, one of the failing one and one more, of the restored revision or a replacement, are
all the roles a pod can have; a pod that was deleted does not come back, so that three are also the
bound on creations.
In `ClusterLifecycle` two faults are a failed step and a failed removal, two steps of others a renamed
registry whose name is taken, and two destroyers are every pair that removes under each other.
In `SupplyChain` two steps of others let a tag move away and back, a tool be replaced and restored, or a
file be edited and edited again; the theorems need no bound.
In `JenkinsBuilds` two builds in all are either two branches side by side or one branch twice, in a
workspace that the first has left at any step; the old deployment makes it two revisions and a third.
Five configurations are accepted, which between them have every tag strategy, every form of scanning, no
SBOM and no provenance, shared and separate environments and a production without approval; four must be
refused.
In `GeneratedTree` two commands are every pair that writes at once, or a generate and the one that
repairs what it left; two moves are an edit during each, or a death and an edit; the Kubernetes template,
whose archive wants HEAD unmoved, and the Jenkins template, whose archive does not, are the two kinds.
`MaxFaults`, `MaxMeddling`, `MaxClock`, `MaxOutput`, `MaxMoves`, `MaxDay`, `MaxBuilds`, `MaxStarts` and
`MaxCommands` are the only bounds; the theorems of section 6 hold for all of them.  Symmetry permutes
containers, cleaners and processes; it is used in `recovery_concurrent` and `generation`, which check no
liveness.

Every property comes with a faulty variant of one definition, marked "Faulty" in a comment, that stands in the
module before the definition it varies and under which TLC finds the property violated.  No
specification uses these variants.

## 5. Fairness

`recovery_faults`, `cluster_lifecycle`, `process`, `kubernetes_rollout` and `jenkins_pipeline` need it.  In the first, weak fairness is assumed of the run and of each cleaner
(`WF_vars(RunStep \/ Recover(Main))` and `WF_vars(Recover(p) \/ FinalVerify(p))`).  Commands are
run by `SafeProcessRunner` with a time limit (`cli.py:944`, `execution.py:788`), so that a
step either happens or fails; and the operator who is told that a cleanup failed repeats it, as
`docs/TROUBLESHOOTING.md` says.  Nothing makes a fault, a crash or another user act, and their
number is bounded, which is the assumption behind "converges": faults cease.

In `cluster_lifecycle` it is assumed of create and of each destroyer, for the same two reasons: the
commands of `registry.py` and `kind_cluster.py` have a time limit each (`registry.py:640`,
`kind_cluster.py:1015`), and destroy is repeated.

In `process` it is assumed of the loop, of each collector, and of the deadline (`WF_vars(Loop)`,
`WF_vars(Collect(s))`, `WF_vars(Expire)`): threads are scheduled, every wait in them has a time limit
(`poll_interval`, `termination_grace`), and clocks advance.  Nothing is assumed of the command and
its descendants, which may run, write or hang for ever, and nothing of callers.

In `kubernetes_rollout` it is assumed of the executor only (`WF_vars(Execute)`): each of its commands
has a time limit, `rollout status` two of them (`kubernetes_execution.py:606`), and a wait for the
port-forward one as well.  Nothing is assumed of the cluster; pods may flap for ever.

In `jenkins_pipeline` it is assumed of the work of each branch's build (`WF_vars(Work(b))`): Jenkins runs the steps of a
build on an agent, and the commands of the stages end; the waits for approval and for a rollout carry a
timeout (`timeout(time: 1, unit: 'HOURS')`, `--timeout=5m`).  Nobody has to start, approve or abort
anything: `Approve` and `Abort` are not part of `Work`.

`journal`, `execution`, `supply_chain`, `generation` and `recovery_concurrent` state safety only.

## 6. What is proved

`tlapm` checks the eight proof modules to the last leaf.  The only assumptions are the `ASSUME`s on
the constants: that bounds are numbers, that `None` and other marks are none of the values they stand
beside (`NoneIsNoDocument`, `NoneIsNoTag`, `ContentsDiffer`), and that the sets and tables of an
instance fit each other.  TLC evaluates all of them.  One theorem, `OthersAreSpared`, has a hypothesis
of its own, which section 7 shows to be needed.

**ExecutionProofs**, first part, the journal for every `MaxClock`: `JournalInvariance`
(`JournalSpec => []JournalInv`), `JournalTypeCorrect`, `MemoryAgrees`, `HistoryIsLegal`,
`TimesAreOrdered`, `JournalReopens`, `FileOnlyGrows`, and `ImplementsRunLifecycle` (the journal implements `RunLifecycle`).  `append` looks at the last
transition only; that a journal built this way is a prefix of the documented order followed by at
most one failure is not visible in any single step.  The inductive invariant therefore carries
the shape of the *whole* file (`IsHistory`), that its times are sorted, and that memory equals the
file while the process runs.  `AppendKeepsHistory` is the core lemma; that the file replays
(`Reopenable`) and the refinement follow from the shape.

**ExecutionProofs**, second part, the run, for any profiles and options: `Invariance`
(`Spec => []Inv`, with `Inv == IInv /\ EvidenceInv`), `TypeCorrect`, and every safety property of the run `execution`: `SuccessIsReal`,
`StartedRunsClose`, `PassedWereSeen`, `LeftoversKnown`, `JournalIsTrue`.  All five compare, when the run
has ended, things that different handlers wrote: the results of the stages, the journal, the stage it
blames, the report and its final status.  The invariant follows them from the first step on.

- `GoingAt(label)`: a run without an error comes to the step `label` with exactly the first
  `Behind(label)` stages passed, exactly the first `Written(label)` states of the documented order in
  its journal, and everything it holds an object for in existence.
- `CleanupInv`: what comes to the cleanup is `Whole`, or `Broken` at one stage: `BreaksAt(n, reached)` says
  that the `n` stages before it have passed, that the journal has `reached` the states those leave
  (`Seen`, where the executor's table of completed stages comes in), and that the journal ends in a failure
  which blames that stage, unless the failure could not be written or nothing had been begun.
- `FinishInv`: after cleanup and gates there are four ways to have come this far (`Succeeds`,
  `CleanupFails`, `GateFails`, `Broken`), each with what is left and what is said about it.
- `CloseInv`: with report and status written, three ways to end (`ClosesPassed`, `ClosesFailed`,
  `ClosesSilent`), each with the shape of report and journal at once.  In the last the report blames no
  stage; it takes a failed write or kept resources, which are exceptions that `StartedRunCloses` names.
- `Lost`: an error of the executor that its handler has lost.  The run comes to its cleanup with an exception on the
  way out and nothing that says it has failed; it ends there, which is another of those exceptions.
- `EvidenceInv`: a failed run holds the first pieces of the evidence of one image, never an index and never a later
  piece without the earlier ones; a run that has met no error has all of it when it comes to its cleanup
  (`Complete`).  The validator therefore never refuses a record for its evidence (`EvidenceIsAccepted`),
  and only report, journal and declared files decide about the bundle.
- `DoneInv`: a run that has ended has the properties; they are shown of the steps that end it, from
  `CloseInv` and what goes before.

Each action has a lemma of its own (`StaticKeeps` ... `CloseBundleKeeps`).  They rest on what a call of the
progress writer comes to, including one whose write fails half-way (`CallAdvances`, `FailCalls`,
`CleanedCalls`; the call is a recursive function, whose existence `CallsFollow` shows by looking at the `Smallest` number
of states for which there would be none); on what a step that raises leaves (`Raised`, `StageRaises`); on frame lemmas for the
phases (`StageKeeps`, `WholeKeeps`, `FallenKeeps`, `AfterCleanupKeeps`, `EndKeeps`); on what the
final status and the stages of a report are (`StrictPrefixIs`, `FilledIs`, `StoppedReport`,
`SucceededReport`); and on what the validator makes of a report and a journal of these shapes
(`FailedCloses`, `PassedCloses`, `ClaimsWereSeen`).

**ResourceRecoveryProofs**, for any number of containers, cleaners, faults and other users:
`Invariance` (`Spec => []IInv`), `RemovedStaysGone`, `RegistryGoesLast` and, if nobody else
creates a cluster of the run's name, `OthersAreSpared`.  `RemovedIsGone` is not inductive: the
record is written from a copy that a process loaded long ago, and an undo puts back one that is
older still.  So the invariant says that *every* copy, in the file, in memory or kept for an
undo, is *sound*: it only names containers of the run, what it calls removed is gone, and the
registry is not given up before the cluster.  Because IDs are never reused a sound copy stays
sound (`SoundStays`), however old, which is why overlapping cleanups may overwrite each other's
record without a lie.  `TurnInv` ties the program counter to the resource being removed,
`LocalsInv` says when there is such a copy at all, `RecordingInv` covers the window between the
creation and the record.  `OthersAreSpared` adds that a listed cluster is the run's.  Its
hypothesis is needed, as section 7 says.

The same module proves `CompletionIsClean`: what a cleanup has reported as complete is gone and stays
gone.  Soundness alone allows a record that has forgotten a container, or a copy that is about another
one.  `RecoveryInv` adds that a resource without a status has no container (`BlankInv`) and that the
copies a cleanup works on, or would put back, name the same containers as the file (`CopiesInv`): the
statuses of overlapping cleanups may differ, the identities never do.  So what one of them verified is
what the file names, and `CompleteInv` says that this outlasts every later write.  `CleanExitIsClean` is
about the run itself, which judges by kind's list of clusters and the registry's name rather than by
the record: `ExitInv` adds that a container keeps its place in the cluster while it exists (`KeepsPlace`),
that kind answers for the run's provider as long as the run lasts (`SeesCluster`), and what has been
seen to be gone at each step of the way out (`EarlyInv`, `HandledInv`).

**ClusterLifecycleProofs**, for any number of destroyers, faults and steps of others: `TypeCorrect`,
`DestroyIsTruthful` and `OneErrorLeavesNoTrap`.  A destroyer decides by what it has seen and removed in
many steps, during which the others do the same; `DestroyerInv` says what each of them may rely on at its
next step unless it has an error to report: that the directory is sealed, then that the cluster is
gone, then the registry, neither of which ever comes back because create has ended with the seal
(`RecordsInv`).  `OneErrorLeavesNoTrap` is a property of one long sequential path under one error, and
far from inductive: a trap is a resource that create had identified, that exists, and that no sealed directory
names when create has ended.  `OneErrorInv` states, step by step, what create holds, what it has recorded and
what exists, before its error and in its handler; the invariant asserts it as long as the execution is
`Undisturbed`, which no step can become again once it is not.

**ProcessRunnerProofs**, for any descendants, streams and limits: `TypeCorrect`, `OutcomeIsTrue`,
`NoCommandSurvives`, `ClosedStaysClosed` and `ResultIsComplete`.  A result is classified long after the decision that
leads to it, by a test of two variables, so the properties are not inductive.  The invariant links
the loop to the processes: as long as no reason to stop has been recorded, no signal has hit a
running leader, and once the polling is over none can, because it has exited (`BlameInv`); from the end of
the polling on the leader has exited, or there is a reason and, after the first wait, SIGKILL
(`LifeInv`); and what a result says was decided from these (`ResultInv`).  The race it settles is
the leader's exit between a poll and a signal.  `ResultIsComplete`, that a result whose collectors have
ended holds all output up to the limit, rests on `CaptureInv`: a collector keeps exactly what it has read
up to the limit, and one that has ended has read everything, since by then nothing holds the pipe and
nothing will again.

**KubernetesRolloutProofs**, for any pods and any number of replicas: `TypeCorrect`, `CauseIsReal`,
`RollbackIsTrue`, `ForwardsAreAccounted` and `EffectsAreDiagnosed`.  `rollback.json` is written many
steps after the facts it states, and stays when the execution fails later; so the invariant carries
each fact along the way by whatever the executor knows at that point: what the Deployment asks for
from the step (`RevisionInv`), that the cause was verified from the step until the second smoke test,
from its phase during it and from the evidence afterwards (`RollbackInv`), and that nothing exists
before the flag is set (`DiagnosisInv`).  `PodInv`, that a pod has a revision only once it has been
created, is what keeps an observed pod an observed pod while others are created.

**SupplyChainProofs**, for any images, tools, databases, findings, policies and numbers of steps of others:
`Invariance`, `FilesAreNamed`, `EvidenceIsTrue`, `ToolsAreTrue` and `SealedIsAccepted`.  A verified bundle is judged long after the
tag was read, from files that may have been edited.  The invariant has three layers: what the run's own
variables may hold at each step (`Undecided` before the image is resolved, `Described` and `Decided` after it: every record is of the
image that was built, every version is the one that was detected or the run fails), what the world holds
(`WorldInv`), and that the checksums seal exactly one report that those variables explain
(`SealInv`).  `VerifiedIsGood` then needs nothing of the steps in between: whatever was edited, what
verifies is what was sealed.

`SealedIsAccepted` is the other direction, that a bundle nobody edited verifies.  `IInv` says what is wrong
with no record; here every record has to be present, to match and to be accepted by the reader.
`FaithInv` follows the files of a run through its steps: which of them may exist yet (`StageInv`), that a
record is in a file only if the run has it, of its own image and with evidence that holds
(`RecordsInv`), and that `verification.json` is about all of them but between the record of the deployment
and the second verification (`VerificationInv`), which is the exempted case of section 7.

The policy is proved to be monotone here as well, for any findings and policies: `FewerFindingsPass`,
`EarlierDaysPass` and `StricterPoliciesPassLess`.  They are what a reader assumes of "stricter", and hold
although a policy also refuses expired exceptions and unrated findings.

**GeneratedTreeProofs**, for any templates, checkouts, configurations, artifacts and hosts, any number of
commands at once and of steps of others: `InvariantHolds`, `ManifestStaysBehind`, `UserEditsAlwaysSurvive`,
`GenerateAlwaysRepairs`, `ExaminedStaysPinned`, `ViewsAlwaysAgree` and `UpdateAlwaysKeepsLicense`, which are
all properties of the run `generation`.  A command plans once and writes file by file, while everything it has
read may change, so none of them is inductive.  The invariant has a part for each stage of a command
(`ReadPart`, `ResolvedPart`, `ExaminedPart`, `WritingPart`): what passes examination was found at its
pinned commit with every answer obtained (`Pinned`), which `ResolvedIsOK` and `ValidatedIsPinned` show.
The other part relates a half-written tree to what is left to write: every path is the user's, still
to be written, or as the command wants it (`BehindInv`, while one command writes); nothing else is there when
nobody interfered (`CalmInv`, for any number of writers); and what is left to write without `--force`
holds no file of the user but what came after the plan (`LateInv`).  `OthersStep` covers all
steps of others at once.  `ContentsDiffer` says that what a user writes is not byte for byte what the program
would generate.

**JenkinsBuildsProofs**, for any branches, commits, tags, patterns, configurations and number of builds side
by side: all safety properties of the run `jenkins_pipeline`, in three parts.

*What is rendered* (`RenderedPipelinesAreSafe`).  A plan folds eighteen or nineteen stages; the proof unrolls
the fold once, for any pipeline, into a concatenation (`Unrolls`), and gives every command a `Rank`.  The plan of a
rendered pipeline for a branch is then the set `Content` of its commands in ascending rank, and each rule of
`SafeFor` ("nothing is applied before it is verified") is a comparison of two ranks.

*What the checks accept* (`ChecksAreSufficient`: no pipeline that differs from a rendered one in a stage and
passes the checks is unsafe).  A removed, doubled or exchanged stage is refused by the names of the stages
(`RemovalIsRefused`, `DoublingIsRefused`, `ExchangeIsRefused`), since the names are pairwise different.  Of
the edits that keep the names the checks leave only `Tame` ones (`AcceptedEditsAreTame`): in all but three
stages neither the condition nor the commands differ, and those three may only be left out.  A tame
pipeline leads to plans that `Conform` to the rendered one: in the same order, with everything in it that
may not be skipped; and `ConformingIsSafe` repeats the comparison of ranks for these.

*What the builds do* (`OnlyVerifiedImagesAreDeployed`, `EvidenceNamesItsSource`, `ProductionNeedsApproval`,
`RollbacksRestore`, `NoBuildIsRefused`).  All they need of the Jenkinsfile is that the steps each branch runs
are a sequence of commands that is `SafeFor` the branch, which is the first part.  What a build deploys was
verified many steps before, while other branches move the tags.  So the invariant says of every running
build what it knows by what it has behind it (`KnowledgeInv`: after `inspect`, an image whose commit is
the build's when the tag names it; after `recheck`, a digest that `artifact.json` names too; after
`verify`, a digest `Vouched` for), that a tag which names a commit is of that commit (`TagsInv`), and that
below a new revision lies what the build found there (`RevisedInv`).  `QuietStep` covers every step
that leaves the Deployments alone; `AppliedIs` and `AndTwo` say what `kubectl apply` and `rollout undo` make
of a sequence of revisions.  `NoBuildIsRefused` adds `RefusalInv`: from the first step of a build until its
push the marker of an earlier build in the same workspace is not there, and a build only ever goes forward.

**Proved, and in no run**: `TypeOK` of five modules (journal, run, cluster, rollout,
process), `DiskAgrees`, `LegalHistory`, `TimesNeverGoBack`, `AppendOnly` (journal), `RegistryOutlivesCluster` (recovery),
`ForwardIsAccounted` (rollout), `ClosedIsClosed` (process).  TLC agrees when they are added to the
configuration of the module.

**Only model-checked**: `EventuallyClean`, `EventuallyDestroyed`, `OutputIsDrained`, `InvocationEnds`,
`ExecutionEnds` and `EveryBuildEnds`: liveness under fairness is out of the prover's reach.

## 7. Disagreements found

Two have a run that TLC finishes with a counterexample; the quotations are in `PROJECT.json`.

- `jenkins_rollback`: the rollback of the generated pipeline is said to be attempted only when apply has
  started a rollout.  It is decided by the word `configured`, which kubectl also prints when
  the Deployment's pod template is unchanged; the undo then removes an earlier, healthy revision.
- `recovery_reseal`: after a cleanup that is killed inside its reseal the seals do not match, and no
  cleanup is possible.  Two overlapping cleanups do the same without any fault (set
  `Cleaners = {c1, c2}` and `MaxFaults = 0` in its configuration).

Each of the following is stated as a property, with the sentence it comes from, that TLC finds violated when
it is added to the configuration named.

| Property | Configuration | What happens |
|---|---|---|
| `FailedRunIsClosed` | `ExecutionRun.cfg` | a registry that does not start fails `assert progress is not None` (`execution.py:2370`) instead of closing an incomplete bundle |
| `ExecutorFailureIsClosed` | `ExecutionRun.cfg` | `docs/EVIDENCE.md:99-100`: the bundle of a failed run is still closed with `incomplete: true` and the first failing stage; after an error of the built-in executor there is none (below) |
| `FailedEnvironmentIsKept` | `ExecutionRun.cfg` | `docs/EXECUTION.md:107-109`: with `--keep-environment-on-failure` the environment of a deployment that fails in the executor is removed all the same, because its handler raises before `failure_reason` is set |
| `RetainedRunIsClosed` | `ExecutionRun.cfg` | a successful `kind-e2e` run with `--keep-resources` reports `FAILED` without a failed stage; its own validator refuses that, and no bundle is closed.  Nor is it when a cluster that is to be kept could not be created: the cleanup declares `kind-cluster-ownership.json` (`execution.py:2078-2085`), which was never written, and `_verify_declared_files` refuses it |
| `GroupIsTerminated` | `ProcessRunner.cfg` | `close` returns true, "terminate and reap this process group", while a descendant of the group runs on: only the leader decides whether SIGKILL is sent |
| `UnclosedRunCanBeCleaned` | `RecoveryReseal.cfg` | a cleanup of a directory that was never closed does its work and then reports an error instead of its result |
| `LoadedLockIsReplaced` | `GeneratedTree.cfg` | `docs/TEMPLATE_UPGRADES.md:47-49` promises that a lock edited during the update is not overwritten; an edit between the load and the hash, or after the second hash, is (`cli.py:1524-1601`) |
| `RecordedDatabaseWasUsed` | `SupplyChain.cfg` | `docs/THREAT_MODEL.md:73-74` says that the database's metadata is recorded; a database replaced between the scan and the question is recorded for a scan it was not used for (`supply_chain.py:1428-1452`) |
| `OnlyRunContainersRemoved` | `RecoveryConcurrent.cfg` | the cluster is verified by node ID and deleted by name (`resource_recovery.py:707`), while `docs/EXECUTION.md` says that only exact IDs are removed; another cluster that takes the name in between is removed |

*The lost error of the executor.*  `KubernetesExecutor.execute` attaches an inventory of every file under
`kubernetes/` to its errors (`kubernetes_execution.py:797-822`, `1958-1968`).
`_record_kubernetes_failure` joins it with the manifests and the preflight's record, which are in it, without
removing duplicates (`execution.py:1091-1108`; the success path removes them, `execution.py:1898`), and
`StageResult` refuses a path given twice (`execution_models.py:510-511`).  The `ValueError` leaves the exception
handler: the failed stage, the reason and the journal's failure are never written,
`--keep-environment-on-failure` is ignored, and no bundle is closed.  The tests inject an executor whose errors
carry no inventory (`tests/test_execution.py:740-800`).  `ExecutorErrorLost` is this case.  As long as it
stands, the table of completed stages speaks only for errors before the executor's first step;
`PassedStagesWereSeen` says what it has to satisfy once the handler removes duplicates, and its faulty variant is
a handler that does and counts one stage too many.

The exceptions of `StartedRunCloses` are these: the two of `RetainedRunIsClosed` and this lost error.  What is *not* among them is an OCI index: `execute` holds the artifact before
`validate_artifact_contract` sees it, and the validator would refuse an index in the record of a failed run, but
`_resolved_artifact` raises for several platforms and for a platform digest that is not the tag's
(`execution.py:813-824`) before there is an artifact to hold.  Without that comparison
(`ResolvedArtifactUncompared`) TLC finds the property violated.

Met while modelling, and visible in the models as exceptions or history variables:

- A run that fails after `DeploymentEvidence` exists and before `verification.json` is written again
  (`execution.py:1910-1958`) seals a verification that does not match; `artifact verify` refuses the bundle
  while `evidence verify` accepts it.  `SealedBundlesVerify` exempts this case.
- Two `generate`s that write at the same time leave files of both under one manifest; nothing locks the tree
  (`crossed` in `ManifestIsBehind`).  `validate` reports the mixture.
- `sources.py:194-198` means to let a concurrent fetch win with `except FileExistsError`; renaming a
  directory onto one that is not empty raises `OSError` (`ENOTEMPTY`), and the command fails (`Fetch`).
- `docs/PRODUCT.md:64` and `docs/KUBERNETES_ADAPTER.md:83` call rendering and `platform-context.json`
  deterministic; the statuses in the latter depend on the tools of the host (`NotesOf`), so a tree
  generated on one host may not validate on another.
- The parse of the generated files by `groovy` has a timeout whose exception nobody catches
  (`adapters/jenkins.py:1434`): it ends the command rather than becoming a status.
- With the `fixed` and `semver` strategies two branches push the same tag; the digest that one of them resolves may
  be the other's image.  `SourceIsTrue` is stated for the strategies that name the commit.

## 8. What is not modelled

- The contents of evidence beyond the image, the subject and the tool they name; the schema of records,
  redaction, the text of reports: comparisons of parsed values with no state between them.
- Rendering of Dockerfile, manifests and Job DSL, and the checks of `validation.py` of their parsed text: pure
  functions from a model to text and back.  The Jenkinsfile is modelled because it is a program of its own.
- Configuration, inspection, diagnosis, reports: pure functions of one document.
- An interrupt between the replace of `state.json` and the adoption in memory: left in the plan (10).
- The process runner and its users together: in `ResourceRecovery` and `ExecutionRun` a command is
  one step with a failure before or after its effect, which `ProcessRunner` justifies except for a
  child that outlives an interrupted `run`.
- The reuse of process numbers by the kernel.
- Executors, registries and clusters that a test injects into the orchestrator: the models have the built-in ones.
- In `JenkinsBuilds` an apply that fails has had no effect; an answer that is lost after the effect is not
  modelled.  The content of the Checkout stage is outside `Safe`.
- A cleanup while the run still executes: left in the plan (11).
- `local_execution.py`: no command uses it; left in the plan (13).
- `release_assets.py`: comparisons of sets of names and hashes in one pass.
