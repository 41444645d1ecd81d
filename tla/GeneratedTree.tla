---------------------------- MODULE GeneratedTree ----------------------------
(***************************************************************************)
(* The commands that compose a project and the tree below generated/:      *)
(* `generate --write`, with and without --force and --build-image,         *)
(* `validate` and `diff`.                                                  *)
(*                                                                         *)
(* A composition reads the lock and the configuration, resolves the        *)
(* templates one by one, asks the templates' own validators and renders    *)
(* every artifact in memory.  generate then plans the write against the    *)
(* manifest of the last generation, twice, and writes file by file, the    *)
(* manifest last.  Nothing locks the project: commands run side by side,   *)
(* the user edits files meanwhile, and a command may die between any two   *)
(* steps.  Reads that follow one another without a step of another actor   *)
(* that could tell them apart are one action.                              *)
(***************************************************************************)
EXTENDS TemplateSources, UpstreamChecks

CONSTANTS
    KeyOrder,     \* the templates, in the order they are resolved
    Procs,        \* the commands that may run at once
    Ops,          \* the commands considered
    Configs,      \* contents of devops-stack.yaml
    Model,        \* for each, the normalized model it stands for
    Paths,        \* the artifacts, in the order they are written
    PathsOf,      \* for each model, the artifacts it has
    Template,     \* for each artifact, the template its content names, or None
    ContextPath,  \* platform-context.json
    Stray,        \* a path no configuration generates
    Hosts,        \* what the host's tools answer
    Checkouts,    \* the local checkouts at the beginning
    Edited,       \* a file with content of the user
    Irregular,    \* a symbolic link
    Leftover,     \* the temporary file of a write that was killed
    MaxMoves,     \* bound: steps of the user, the owners and of death
    MaxCommands   \* bound: commands started

ASSUME TreeAssumptions ==
    /\ "kubernetes" \in Keys /\ Keys \subseteq {"docker", "jenkins", "kubernetes"}
    /\ KeyOrder \in Seq(Keys) /\ ToSet(KeyOrder) = Keys
    /\ Origins \in Seq(Places)
    /\ Checkouts \subseteq [Places -> [Keys -> Commits \cup {None}]]
    /\ Ops \subseteq [name : {"generate", "validate", "diff"}, force : BOOLEAN, build : BOOLEAN]
    /\ DOMAIN Model = Configs
    /\ Paths \in Seq(ToSet(Paths)) /\ Stray \notin ToSet(Paths)
    /\ \A c \in Configs : PathsOf[Model[c]] # {} /\ PathsOf[Model[c]] \subseteq ToSet(Paths)
    /\ \A path \in ToSet(Paths) : Template[path] \in Keys \cup {None}
    /\ Hosts \subseteq [Commands -> Answers]
    /\ MaxMoves \in Nat /\ MaxCommands \in Nat

VARIABLES
    config,     \* devops-stack.yaml
    host,       \* what the tools of the host answer now
    tree,       \* for each path below generated/, its content, None: no file
    manifest,   \* the manifest there, None: no file
    proc,       \* the running commands
    moves, commands,
    unsealed,   \* history: what was written since the manifest, or edited
    crossed     \* history: whether two commands wrote at the same time

treeVars == <<tree, manifest, unsealed, crossed>>
vars == <<sourceVars, config, host, treeVars, proc, moves, commands>>

AllPaths == ToSet(Paths) \cup {Stray}
NoOp == [name |-> "none", force |-> FALSE, build |-> FALSE]
NotRunning ==
    [op |-> NoOp, at |-> "idle", lock |-> None, config |-> None,
     sources |-> [k \in Keys |-> None], examined |-> [k \in Keys |-> None], notes |-> None,
     ok |-> FALSE, todo |-> {}, calm |-> TRUE, late |-> {}]
At(p, where) == proc[p].at = where
Writing(p) == proc[p].at \in {"files", "seal"}
Becomes(p, c) == proc' = [proc EXCEPT ![p] = c]
Ends(p) == Becomes(p, NotRunning)

\* What others change is not calm any more, and comes late for a plan made.
Disturbed(procs, path) ==
    [p \in Procs |-> IF procs[p].at = "idle" THEN procs[p]
                     ELSE [procs[p] EXCEPT !.calm = FALSE,
                                           !.late = IF Writing(p) THEN @ \cup {path} ELSE @]]
Upset(procs) ==
    [p \in Procs |-> IF procs[p].at = "idle" THEN procs[p] ELSE [procs[p] EXCEPT !.calm = FALSE]]

------------------------------------------------------------------------------
\* What a composition c renders.  platform-context.json tells what the template
\* answered, the others the model; an artifact may name its template's commit.

Artifact(path, c) ==
    [model |-> IF path = ContextPath THEN None ELSE Model[c.config],
     commit |-> IF Template[path] = None THEN None ELSE c.sources[Template[path]].commit,
     notes |-> IF path = ContextPath THEN c.notes ELSE None]
Desired(c) == [path \in PathsOf[Model[c.config]] |-> Artifact(path, c)]
Templates(c) == [k \in Keys |-> c.sources[k].commit]

\* The values of artifacts and manifests, none of which a user's file has.
Notes == {Context(h) : h \in Hosts}
         \cup {ContextNotRun, [ContextNotRun EXCEPT !.render = "FAILED"]}
Artifacts ==
    [model : {Model[c] : c \in Configs} \cup {None}, commit : Commits \cup {None},
     notes : Notes \cup {None}]
Manifests ==
    [config : Configs, templates : Locks,
     files : UNION {[PathsOf[Model[c]] -> Artifacts] : c \in Configs}]
ASSUME ContentsDiffer ==
    /\ {None, Edited, Irregular, Leftover} \cap Artifacts = {}
    /\ None \notin Manifests
    /\ Edited \notin {None, Irregular, Leftover} /\ Irregular \notin {None, Leftover}

\* An artifact's origins follow from the model and the templates, its mode from
\* its path: the manifest's entry stands for both.  (ManifestNow is faulty: the
\* configuration is read again at the end.)
ManifestNow(c) ==
    LET now == [c EXCEPT !.config = config]
    IN  [config |-> config, templates |-> Templates(c), files |-> Desired(now)]
ManifestOf(c) == [config |-> c.config, templates |-> Templates(c), files |-> Desired(c)]
Tracked == IF manifest = None THEN {} ELSE DOMAIN manifest.files
Recorded(path) == IF path \in Tracked THEN manifest.files[path] ELSE None
Present == {path \in AllPaths : tree[path] # None}

\* GeneratedManifest.verify
Modified == {path \in Tracked \cap Present : tree[path] # Recorded(path)}
Missing == Tracked \ Present
Untracked == Present \ Tracked
\* Faulty: only what the manifest tracks is looked at.
TrackedAreClean == Modified \cup Missing = {}
Clean == Modified \cup Missing \cup Untracked = {}

\* ArtifactWriter.plan
Planned(c) == DOMAIN Desired(c)
Unsafe(c) == {path \in Planned(c) : tree[path] = Irregular}
Conflicts(c) == {path \in (Planned(c) \cap Present) \ Unsafe(c) : tree[path] # Recorded(path)}
Unchanged(c) ==
    {path \in (Planned(c) \cap Present) \ (Unsafe(c) \cup Conflicts(c)) :
        tree[path] = Desired(c)[path]}
Stale(c) == {path \in (Present \cap Tracked) \ Planned(c) : tree[path] # Irregular}
Unowned(c) == (Present \ Planned(c)) \ Stale(c)
Refused(c) ==
    \/ Unsafe(c) \cup Stale(c) \cup Unowned(c) # {}
    \/ Conflicts(c) # {} /\ ~c.op.force

\* generated_integrity_report
IntegrityPasses(c) ==
    /\ manifest # None
    /\ Clean
    /\ manifest.config = c.config
    /\ manifest.templates = Templates(c)
    /\ manifest.files = Desired(c)

\* diff_artifacts, against generated/
Foreign == IF manifest = None THEN Present ELSE Untracked
NothingDiffers(c) ==
    /\ \A path \in Planned(c) :
          path \notin Foreign /\ tree[path] = Desired(c)[path]
    /\ Tracked \subseteq Planned(c)
    /\ Foreign \subseteq Planned(c)

------------------------------------------------------------------------------
\* The commands.

\* A local Docker build does not even begin over an unclean tree.
BuildMayBegin == IF manifest = None THEN Present = {} ELSE Clean

\* Templates are resolved in turn until one is nowhere and has to be fetched.  A
\* source without the files an adapter requires ends the command.
Needed(c) == {i \in DOMAIN KeyOrder : c.sources[KeyOrder[i]] = None}
NextKey(c) == KeyOrder[CHOOSE i \in Needed(c) : \A j \in Needed(c) : i <= j]
Resolved(c) ==
    LET lacking == {i \in Needed(c) : ~Available(KeyOrder[i], c.lock[KeyOrder[i]])}
        found == {KeyOrder[i] : i \in {i \in Needed(c) : \A j \in lacking : i < j}}
        sources == [k \in Keys |-> IF k \in found THEN Resolution(k, c.lock[k])
                                   ELSE c.sources[k]]
    IN  IF \E k \in found : sources[k].commit \notin Marked THEN NotRunning
        ELSE [c EXCEPT !.sources = sources, !.at = IF lacking = {} THEN "examine" ELSE "fetch"]

\* A command reads the lock and the configuration and looks for the templates.
Begin(p) ==
    /\ At(p, "idle")
    /\ commands < MaxCommands
    /\ \E op \in Ops :
          /\ op.build => BuildMayBegin
          /\ Becomes(p, Resolved([NotRunning EXCEPT !.op = op, !.lock = LockInUse,
                                                    !.config = config]))
    /\ commands' = commands + 1
    /\ UNCHANGED <<sourceVars, config, host, treeVars, moves>>

\* The fetched checkout is renamed into the cache.  Where another command was
\* faster the rename fails, on a directory that is not empty, and the command
\* with it.
Fetch(p) ==
    LET c == proc[p]
        k == NextKey(c)
        pin == c.lock[k]
    IN  /\ At(p, "fetch")
        /\ IF <<k, pin>> \in cache \/ pin \notin Marked THEN Ends(p)
           ELSE Becomes(p, Resolved([c EXCEPT !.sources[k] = Found("lock-remote", pin, pin)]))
        /\ cache' = cache \cup {<<k, pin>>}
        /\ UNCHANGED <<lock, head, remote, update, config, host, treeVars, moves, commands>>

\* The adapters render, and run the validators of the archived templates.
Runs(k, source) == source.matches /\ HeadStays(k, source)
StatusesOf(k, c) ==
    IF ~Runs(k, c.sources[k]) THEN {"FAILED"}
    ELSE CASE k = "docker" -> DockerStatuses(host, c.op.build)
           [] k = "jenkins" -> JenkinsStatuses(host)
           [] k = "kubernetes" -> KubernetesStatuses(host)
NotesOf(c) ==
    IF Runs("kubernetes", c.sources["kubernetes"]) THEN Context(host)
    ELSE IF c.sources["kubernetes"].matches THEN [ContextNotRun EXCEPT !.render = "FAILED"]
    ELSE ContextNotRun
Validated(c) ==
    /\ \A k \in Keys : c.sources[k].matches /\ Passes(StatusesOf(k, c))
    /\ Passes(ExternalStatuses(host))
Examine(p) ==
    LET c == proc[p] IN
    /\ At(p, "examine")
    /\ Becomes(p, [c EXCEPT
          !.examined = [k \in Keys |-> IF Runs(k, c.sources[k]) THEN Archived(k, c.sources[k])
                                       ELSE None],
          !.notes = NotesOf(c),
          !.ok = Validated(c),
          !.at = IF c.op.name = "generate" THEN "plan" ELSE "report"])
    /\ UNCHANGED <<sourceVars, config, host, treeVars, moves, commands>>

\* validate and diff only tell.
Report(p) ==
    /\ At(p, "report")
    /\ Ends(p)
    /\ UNCHANGED <<sourceVars, config, host, treeVars, moves, commands>>
ValidatePasses(c) == c.ok /\ IntegrityPasses(c)
DiffPasses(c) == c.ok /\ NothingDiffers(c)

\* The plan that is shown, and the one that is written.
Plan(p) ==
    /\ At(p, "plan")
    /\ IF proc[p].ok /\ ~Refused(proc[p]) THEN Becomes(p, [proc[p] EXCEPT !.at = "write"])
       ELSE Ends(p)
    /\ UNCHANGED <<sourceVars, config, host, treeVars, moves, commands>>
\* Faulty: --force accepts conflicts and leaves them as they are.
WriteButConflicts(p) ==
    /\ At(p, "write")
    /\ IF Refused(proc[p]) THEN Ends(p)
       ELSE LET todo == Planned(proc[p]) \ Conflicts(proc[p]) IN
            Becomes(p, [proc[p] EXCEPT !.at = IF todo = {} THEN "seal" ELSE "files", !.todo = todo])
    /\ crossed' = (crossed \/ (~Refused(proc[p]) /\ \E q \in Procs \ {p} : Writing(q)))
    /\ UNCHANGED <<sourceVars, config, host, tree, manifest, unsealed, moves, commands>>
\* Faulty: the plan that was shown is the plan that is written.
WriteAsShown(p) ==
    /\ At(p, "write")
    /\ Becomes(p, [proc[p] EXCEPT !.at = "files", !.todo = Planned(proc[p])])
    /\ crossed' = (crossed \/ \E q \in Procs \ {p} : Writing(q))
    /\ UNCHANGED <<sourceVars, config, host, tree, manifest, unsealed, moves, commands>>
Write(p) ==
    /\ At(p, "write")
    /\ IF Refused(proc[p]) THEN Ends(p)
       ELSE Becomes(p, [proc[p] EXCEPT !.at = "files", !.todo = Planned(proc[p])])
    /\ crossed' = (crossed \/ (~Refused(proc[p]) /\ \E q \in Procs \ {p} : Writing(q)))
    /\ UNCHANGED <<sourceVars, config, host, tree, manifest, unsealed, moves, commands>>

FirstOf(todo) ==
    Paths[CHOOSE i \in DOMAIN Paths :
             Paths[i] \in todo /\ \A j \in 1..(i - 1) : Paths[j] \notin todo]
Store(path, content) == tree' = [tree EXCEPT ![path] = content]
WriteFile(p) ==
    LET c == proc[p]
        path == FirstOf(c.todo)
        rest == [c EXCEPT !.todo = @ \ {path},
                          !.at = IF c.todo = {path} THEN "seal" ELSE "files"]
    IN  /\ At(p, "files")
        /\ tree[path] # Irregular
        /\ Store(path, Desired(c)[path])
        /\ unsealed' = unsealed \cup {path}
        /\ proc' = [Upset(proc) EXCEPT ![p] = rest]
        /\ UNCHANGED <<sourceVars, config, host, manifest, crossed, moves, commands>>

Seal(p) ==
    /\ At(p, "seal")
    /\ manifest' = ManifestOf(proc[p])
    /\ unsealed' = {}
    /\ proc' = [Upset(proc) EXCEPT ![p] = NotRunning]
    /\ UNCHANGED <<sourceVars, config, host, tree, crossed, moves, commands>>

\* The command dies, or a read, a command or a write fails: a killed write may
\* leave its temporary file.
Stop(p) ==
    /\ ~At(p, "idle")
    /\ moves < MaxMoves
    /\ moves' = moves + 1
    /\ \/ UNCHANGED tree
       \/ Writing(p) /\ tree[Stray] = None /\ Store(Stray, Leftover)
    /\ proc' = [Upset(proc) EXCEPT ![p] = NotRunning]
    /\ UNCHANGED <<sourceVars, config, host, manifest, unsealed, crossed, commands>>
\* A symbolic link that came after the plan is not written through.
WriteBlocked(p) ==
    /\ At(p, "files")
    /\ tree[FirstOf(proc[p].todo)] = Irregular
    /\ Ends(p)
    /\ UNCHANGED <<sourceVars, config, host, treeVars, moves, commands>>

Command(p) ==
    \/ Fetch(p) \/ Examine(p) \/ Report(p) \/ Plan(p) \/ Write(p)
    \/ WriteFile(p) \/ WriteBlocked(p) \/ Seal(p)

------------------------------------------------------------------------------
\* The user.

UserEdits ==
    /\ \E path \in AllPaths, content \in {Edited, Irregular, None} :
          /\ tree[path] # content
          /\ Store(path, content)
          /\ proc' = Disturbed(proc, path)
    /\ UNCHANGED <<sourceVars, config, host, manifest, unsealed, crossed>>
UserConfigures ==
    /\ \/ (\E c \in Configs \ {config} : config' = c) /\ UNCHANGED host
       \/ (\E h \in Hosts \ {host} : host' = h) /\ UNCHANGED config
    /\ proc' = Upset(proc)
    /\ UNCHANGED <<sourceVars, treeVars>>
OwnersMove ==
    /\ EditLock \/ SwitchCheckout \/ PushMain
    /\ proc' = Upset(proc)
    /\ UNCHANGED <<config, host, treeVars>>
Move ==
    /\ moves < MaxMoves
    /\ moves' = moves + 1
    /\ UserEdits \/ UserConfigures \/ OwnersMove
    /\ UNCHANGED commands

Update ==
    \/ /\ commands < MaxCommands
       /\ commands' = commands + 1
       /\ UpdateLoad
       /\ UNCHANGED <<config, host, treeVars, proc, moves>>
    \/ /\ UpdateStep
       /\ proc' = IF lock' = lock THEN proc ELSE Upset(proc)
       /\ UNCHANGED <<config, host, treeVars, moves, commands>>

Next ==
    \/ \E p \in Procs : Begin(p) \/ Command(p) \/ Stop(p)
    \/ Move \/ Update

\* Nothing was generated yet, or the tree is what one generate wrote.
Generated ==
    [NotRunning EXCEPT !.config = config, !.notes = Context(host),
                       !.sources = [k \in Keys |-> Found("cache", LockInUse[k], LockInUse[k])]]
Init ==
    /\ lock \in {None, Packaged}
    /\ head \in Checkouts
    /\ cache = {}
    /\ remote = Packaged
    /\ update = NotUpdating
    /\ config \in Configs
    /\ host \in Hosts
    /\ \/ manifest = None /\ tree = [path \in AllPaths |-> None]
       \/ /\ \A k \in Keys : Passes({Context(host).render})
          /\ manifest = ManifestOf(Generated)
          /\ tree = [path \in AllPaths |-> IF path \in Planned(Generated)
                                           THEN Desired(Generated)[path] ELSE None]
    /\ proc = [p \in Procs |-> NotRunning]
    /\ moves = 0 /\ commands = 0
    /\ unsealed = {} /\ crossed = FALSE
Spec == Init /\ [][Next]_vars

------------------------------------------------------------------------------
\* Properties.

Contents == {None, Edited, Irregular, Leftover} \cup Artifacts
TypeOK ==
    /\ SourcesTypeOK
    /\ config \in Configs /\ host \in Hosts
    /\ \A path \in AllPaths : tree[path] \in Contents
    /\ manifest = None \/ \A path \in Tracked : manifest.files[path] \in Contents
    /\ \A p \in Procs :
          /\ proc[p].at \in {"idle", "fetch", "examine", "report", "plan", "write",
                             "files", "seal"}
          /\ Writing(p) => proc[p].ok /\ proc[p].op.name = "generate"
          /\ proc[p].todo \cup proc[p].late \subseteq AllPaths
    /\ moves \in 0..MaxMoves /\ commands \in 0..MaxCommands

\* What a user changed below generated/ before a generate without --force made
\* the plan that it writes is not overwritten by it; a symbolic link put there
\* is never written through or replaced, by any command at any time
\* (manifest.py:244-258, 327-351; filesystem.py:39-45).
UserEditsSurvive ==
    [][\A path \in AllPaths :
          /\ tree[path] \in {Edited, Irregular}
          /\ tree'[path] # tree[path]
          /\ moves' = moves
          => /\ tree[path] = Edited
             /\ \E p \in Procs : /\ At(p, "files")
                                 /\ proc[p].op.force \/ path \in proc[p].late]_vars

\* validate, diff and generate look at the same tree with code of their own.
\* For one composition they agree: validate passes if and only if diff finds
\* nothing, generate would find every file unchanged, and the manifest names the
\* composition's configuration and template commits
\* (composition.py:284-410, diffing.py:133-319, manifest.py:136-306).
ViewsAgree ==
    \A p \in Procs : At(p, "report") =>
        (ValidatePasses(proc[p])
         <=> /\ DiffPasses(proc[p])
             /\ Unchanged(proc[p]) = Planned(proc[p])
             /\ manifest.config = proc[p].config
             /\ manifest.templates = Templates(proc[p]))

\* Where commands did not write at the same time, a file that composition wrote
\* is the one the manifest records, or it was written by a generate that did
\* not reach its manifest: however a generate ends, a manifest never vouches
\* for content that is not on the disk (manifest.py:385-396).
ManifestIsBehind ==
    \A path \in AllPaths :
        tree[path] \in {None, Edited, Irregular, Leftover} \/ path \in unsealed \/ crossed
        \/ tree[path] = Recorded(path)

\* Whatever crashes and edits came before, a generate that reaches its manifest
\* while nobody else changed anything leaves a tree that validate accepts
\* (manifest.py:308-400).
GenerateRepairs ==
    [][\A p \in Procs :
          (At(p, "seal") /\ manifest' # manifest /\ proc'[p].at = "idle" /\ proc[p].calm)
          => \A c \in {proc[p]} : IntegrityPasses(c)']_vars

\* A manifest is written only for templates that were examined at the commits
\* the lock pinned when the command began, though checkouts and lock move on,
\* and whose answers in platform-context.json were all obtained and none
\* failed (sources.py:98-156, archives.py:15-50, composition.py:135-225).
ExaminedIsPinned ==
    [][\A p \in Procs : (At(p, "seal") /\ manifest' # manifest /\ proc'[p].at = "idle") =>
          /\ proc[p].examined = proc[p].lock
          /\ manifest'.templates = proc[p].lock
          /\ LET notes == proc[p].notes IN
             /\ DOMAIN notes.queries = ToSet(PlanQueries)
             /\ Passes({notes.queries[q] : q \in DOMAIN notes.queries})
             /\ notes.render = "PASSED"
             /\ Passes({notes.validators[v] : v \in RenderValidators})]_vars

\* A lock that `templates update` writes differs from the one it loaded only in
\* commits with the required files and the same license, though main moves
\* while it works (cli.py:1544-1602).
UpdateKeepsLicense ==
    [][update.at = "replace" /\ moves' = moves /\ lock' # lock =>
          \A k \in Keys : \/ lock'[k] = Base[k]
                          \/ /\ lock'[k] \in Marked
                             /\ License[lock'[k]] = License[Base[k]]]_vars

\* docs/TEMPLATE_UPGRADES.md:47-49 on the project's lock: "If the loaded lock
\* changes during the same-target operation, the command refuses to overwrite
\* the concurrent edit."  An edit between the load and the hash, or after the
\* second hash, is overwritten all the same (cli.py:1524-1601).
LoadedLockIsReplaced ==
    [][update.at = "replace" /\ update.loaded # None /\ moves' = moves /\ lock' # lock
          => lock = update.loaded]_vars
=============================================================================
