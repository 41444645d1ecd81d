------------------------- MODULE GeneratedTreeProofs -------------------------
(***************************************************************************)
(* Proofs about GeneratedTree and TemplateSources, for any templates,      *)
(* configurations, artifacts and hosts, any number of commands at once and *)
(* any number of steps of the user, the owners and of death.               *)
(***************************************************************************)
EXTENDS GeneratedTree, WellFoundedInduction, TLAPS

\* What a command knows of a template that it has resolved.
SourceGood(c, k) ==
    /\ c.sources[k].commit \in Commits
    /\ c.sources[k].matches => c.sources[k].commit = c.lock[k]
SourcesOK(c) ==
    /\ DOMAIN c.sources = Keys
    /\ \A k \in Keys : c.sources[k] = None \/ SourceGood(c, k)

\* What a composition that passes has examined.
NotesGood(notes) ==
    /\ DOMAIN notes.queries = ToSet(PlanQueries)
    /\ Passes({notes.queries[q] : q \in DOMAIN notes.queries})
    /\ notes.render = "PASSED"
    /\ Passes({notes.validators[v] : v \in RenderValidators})
Pinned(c) ==
    /\ c.examined = c.lock
    /\ Templates(c) = c.lock
    /\ NotesGood(c.notes)

Fields == {"op", "at", "lock", "config", "sources", "examined", "notes", "ok", "todo",
           "calm", "late"}
ReadPart(c) == c.at # "idle" => c.lock \in Locks /\ c.config \in Configs /\ SourcesOK(c)
ResolvedPart(c) == c.at \notin {"idle", "fetch"} => \A k \in Keys : SourceGood(c, k)
ExaminedPart(c) ==
    /\ c.at \notin {"idle", "fetch", "examine"} => c.notes \in Notes /\ (c.ok => Pinned(c))
    /\ c.at \in {"write", "files", "seal"} => c.ok
WritingPart(c) ==
    /\ c.at = "files" => c.todo # {} /\ c.todo \subseteq Planned(c)
    /\ c.at = "seal" => c.todo = {}
Steps == {"idle", "fetch", "examine", "report", "plan", "write", "files", "seal"}
ProcOK(c) ==
    /\ DOMAIN c = Fields /\ c.at \in Steps
    /\ ReadPart(c) /\ ResolvedPart(c) /\ ExaminedPart(c) /\ WritingPart(c)

\* The update compares what it will write.
UpdateInv ==
    /\ DOMAIN update = {"at", "loaded", "hashed", "candidate"}
    /\ update.at \in {"idle", "hash", "remote", "verify", "check", "replace"}
    /\ update.loaded \in Locks \cup {None}
    /\ update.at \in {"verify", "check", "replace"} => update.candidate \in Locks
    /\ update.at \in {"check", "replace"} => \A k \in Keys : CandidateIsGood(k)
WorldInv ==
    /\ lock \in Locks \cup {None} /\ remote \in Locks
    /\ head \in [Places -> [Keys -> Commits \cup {None}]]
    /\ config \in Configs /\ host \in Hosts /\ moves \in Nat /\ crossed \in BOOLEAN
TypeInv ==
    /\ WorldInv
    /\ DOMAIN tree = AllPaths
    /\ manifest = None \/ manifest \in Manifests
    /\ DOMAIN proc = Procs
    /\ \A p \in Procs : ProcOK(proc[p])

\* Where one command writes at a time, what is not the user's is still to be
\* written or is as it should be; where nothing else happens, everything is.
Done(c, path) == path \in Planned(c) /\ tree[path] = Desired(c)[path]
BehindInv ==
    crossed \/ /\ \A p, q \in Procs : Writing(p) /\ Writing(q) => p = q
               /\ \A p \in Procs : Writing(p) => \A path \in AllPaths :
                     \/ tree[path] \in {None, Edited, Irregular, Leftover}
                     \/ path \in proc[p].todo \/ Done(proc[p], path)
CalmInv ==
    \A p \in Procs : Writing(p) /\ proc[p].calm => \A path \in AllPaths :
        \/ path \in proc[p].todo \/ Done(proc[p], path)
        \/ path \notin Planned(proc[p]) /\ tree[path] = None
\* A plan without --force holds no file of the user, but for those that came late.
LateInv ==
    \A p \in Procs : Writing(p) /\ ~proc[p].op.force => \A path \in proc[p].todo :
        tree[path] = Edited => path \in proc[p].late

IInv == TypeInv /\ UpdateInv /\ BehindInv /\ CalmInv /\ LateInv /\ ManifestIsBehind

-----------------------------------------------------------------------------
(* The operators.                                                          *)

LEMMA Smallest ==
    ASSUME NEW S, S \subseteq Nat, S # {}
    PROVE  \E x \in S : \A y \in S : x <= y
<1>1. PICK x \in S : \A y \in S : ~(<<y, x>> \in OpToRel(<, Nat))
  BY NatLessThanWellFounded, WFMin
<1>2. \A y \in S : ~(y < x)
  BY <1>1 DEF OpToRel
<1>3. \A y \in S : y \in Int
  OBVIOUS
<1>4. \A y \in S : x <= y
  BY <1>2, <1>3
<1> QED BY <1>4

\* A set of artifacts has one that is written first.
LEMMA FirstIsOne ==
    ASSUME NEW todo, todo \subseteq ToSet(Paths), todo # {}
    PROVE  FirstOf(todo) \in todo
<1> DEFINE S == {i \in DOMAIN Paths : Paths[i] \in todo}
<1>1. DOMAIN Paths \subseteq Nat /\ DOMAIN Paths = 1..Len(Paths) /\ Len(Paths) \in Nat
  BY TreeAssumptions
<1>2. S # {}
  BY DEF ToSet
<1>3. PICK i \in S : \A j \in S : i <= j
  <2> HIDE DEF S
  <2>1. S \subseteq Nat
    BY <1>1 DEF S
  <2> QED BY <2>1, <1>2, Smallest
<1>4. i \in DOMAIN Paths /\ Paths[i] \in todo /\ i \in Int
  BY <1>1, <1>3
<1>5. \A j \in 1..(i - 1) : Paths[j] \notin todo
  <2> SUFFICES ASSUME NEW j \in 1..(i - 1), Paths[j] \in todo PROVE FALSE
    OBVIOUS
  <2>1. j \in DOMAIN Paths
    BY <1>1, <1>4
  <2> QED BY <2>1, <1>3, <1>4
<1> QED BY <1>4, <1>5 DEF FirstOf

LEMMA DesiredIsTyped ==
    ASSUME NEW c, c.config \in Configs, \A k \in Keys : SourceGood(c, k), c.notes \in Notes
    PROVE  /\ Desired(c) \in [PathsOf[Model[c.config]] -> Artifacts]
           /\ Planned(c) = PathsOf[Model[c.config]]
           /\ Planned(c) # {} /\ Planned(c) \subseteq ToSet(Paths)
<1>1. Planned(c) = PathsOf[Model[c.config]]
  BY DEF Planned, Desired
<1>2. \A path \in PathsOf[Model[c.config]] : path \in ToSet(Paths)
  BY TreeAssumptions
<1>3. \A path \in PathsOf[Model[c.config]] : Artifact(path, c) \in Artifacts
  <2> SUFFICES ASSUME NEW path \in PathsOf[Model[c.config]]
               PROVE  Artifact(path, c) \in Artifacts
    OBVIOUS
  <2>1. Template[path] \in Keys \cup {None}
    BY <1>2, TreeAssumptions
  <2>2. (IF Template[path] = None THEN None ELSE c.sources[Template[path]].commit)
            \in Commits \cup {None}
    BY <2>1 DEF SourceGood
  <2>3. (IF path = ContextPath THEN c.notes ELSE None) \in Notes \cup {None}
    OBVIOUS
  <2>4. (IF path = ContextPath THEN None ELSE Model[c.config])
            \in {Model[d] : d \in Configs} \cup {None}
    OBVIOUS
  <2> QED BY <2>2, <2>3, <2>4 DEF Artifact, Artifacts
<1>4. Desired(c) \in [PathsOf[Model[c.config]] -> Artifacts]
  BY <1>3 DEF Desired
<1> QED BY <1>1, <1>4, TreeAssumptions

\* Two states of a command that differ in what others did meanwhile.
Alike(c, d) ==
    /\ DOMAIN c = Fields /\ DOMAIN d = Fields
    /\ d.op = c.op /\ d.at = c.at /\ d.lock = c.lock /\ d.config = c.config
    /\ d.sources = c.sources /\ d.examined = c.examined /\ d.notes = c.notes
    /\ d.ok = c.ok /\ d.todo = c.todo
LEMMA AlikeIsOK ==
    ASSUME NEW c, NEW d, Alike(c, d)
    PROVE  /\ Desired(d) = Desired(c) /\ Planned(d) = Planned(c)
           /\ ProcOK(c) => ProcOK(d)
<1>1. Desired(d) = Desired(c)
  BY DEF Alike, Desired, Artifact
<1>2. Planned(d) = Planned(c)
  BY <1>1 DEF Planned
<1>3. Templates(d) = Templates(c)
  BY DEF Alike, Templates
<1>4. Pinned(c) => Pinned(d)
  BY <1>3 DEF Pinned, Alike
<1>5. (ReadPart(c) => ReadPart(d)) /\ (ResolvedPart(c) => ResolvedPart(d))
  BY DEF ReadPart, ResolvedPart, SourcesOK, SourceGood, Alike
<1>6. ExaminedPart(c) => ExaminedPart(d)
  BY <1>4 DEF ExaminedPart, Alike
<1>7. WritingPart(c) => WritingPart(d)
  BY <1>2 DEF WritingPart, Alike
<1> QED BY <1>1, <1>2, <1>5, <1>6, <1>7 DEF ProcOK, Alike

LEMMA UpsetIsAlike ==
    ASSUME NEW procs, DOMAIN procs = Procs, NEW p \in Procs, DOMAIN procs[p] = Fields
    PROVE  /\ Alike(procs[p], Upset(procs)[p])
           /\ Upset(procs)[p].late = procs[p].late
           /\ Upset(procs)[p].calm => procs[p].at = "idle"
BY DEF Upset, Alike, Fields
LEMMA DisturbedIsAlike ==
    ASSUME NEW path, DOMAIN proc = Procs, NEW p \in Procs, DOMAIN proc[p] = Fields
    PROVE  /\ Alike(proc[p], Disturbed(proc, path)[p])
           /\ Writing(p) => Disturbed(proc, path)[p].late = proc[p].late \cup {path}
           /\ Disturbed(proc, path)[p].calm => proc[p].at = "idle"
BY DEF Disturbed, Alike, Fields, Writing

LEMMA NotRunningIsOK == ProcOK(NotRunning) /\ NotRunning.at = "idle"
BY DEF ProcOK, NotRunning, Fields, Steps, ReadPart, ResolvedPart, ExaminedPart, WritingPart

LEMMA FoundIsCompared ==
    ASSUME NEW origin, NEW commit, NEW pin
    PROVE  /\ Found(origin, commit, pin).commit = commit
           /\ Found(origin, commit, pin).matches => commit = pin
<1>1. Found(origin, commit, pin).commit = commit
  BY DEF Found
<1>2. Found(origin, commit, pin).matches = (commit = pin)
  BY Zenon DEF Found
<1> QED BY <1>1, <1>2, Zenon

LEMMA ResolutionIsGood ==
    ASSUME WorldInv, NEW k \in Keys, NEW pin \in Commits
    PROVE  /\ Resolution(k, pin).commit \in Commits
           /\ Resolution(k, pin).matches => Resolution(k, pin).commit = pin
<1>1. CASE CheckedOut(k) # {}
  <2> DEFINE first == CHOOSE i \in CheckedOut(k) : \A j \in CheckedOut(k) : i <= j
  <2>1. CheckedOut(k) \subseteq Nat
    BY TreeAssumptions DEF CheckedOut
  <2>2. first \in CheckedOut(k)
    BY <1>1, <2>1, Smallest
  <2>3. Origins[first] \in Places /\ head[Origins[first]][k] # None
    BY <2>2 DEF CheckedOut, Places
  <2>4. head[Origins[first]][k] \in Commits
    BY <2>3 DEF WorldInv
  <2>5. Resolution(k, pin) = Found(Origins[first], head[Origins[first]][k], pin)
    BY <1>1 DEF Resolution
  <2> HIDE DEF first
  <2> QED BY <2>4, <2>5, FoundIsCompared
<1>2. CASE CheckedOut(k) = {}
  BY <1>2, FoundIsCompared DEF Resolution
<1> QED BY <1>1, <1>2

\* Templates are resolved, or one of them has to be fetched, or the command ends.
LEMMA ResolvedIsOK ==
    ASSUME WorldInv, NEW c, DOMAIN c = Fields, c.lock \in Locks, c.config \in Configs,
           SourcesOK(c)
    PROVE  ProcOK(Resolved(c)) /\ Resolved(c).at \in {"idle", "fetch", "examine"}
<1> DEFINE lacking == {i \in Needed(c) : ~Available(KeyOrder[i], c.lock[KeyOrder[i]])}
           found == {KeyOrder[i] : i \in {i \in Needed(c) : \A j \in lacking : i < j}}
           sources == [k \in Keys |-> IF k \in found THEN Resolution(k, c.lock[k])
                                     ELSE c.sources[k]]
           next == [c EXCEPT !.sources = sources,
                             !.at = IF lacking = {} THEN "examine" ELSE "fetch"]
<1>1. Resolved(c) \in {NotRunning, next}
  BY DEF Resolved
<1>2. CASE Resolved(c) = NotRunning
  BY <1>2, NotRunningIsOK
<1>3. CASE Resolved(c) = next
  <2>1. \A k \in Keys : c.lock[k] \in Commits
    BY DEF Locks
  <2>2. \A k \in Keys : Resolution(k, c.lock[k]).commit \in Commits
                        /\ (Resolution(k, c.lock[k]).matches
                              => Resolution(k, c.lock[k]).commit = c.lock[k])
    BY <2>1, ResolutionIsGood
  <2>3. /\ DOMAIN next = Fields /\ next.lock = c.lock /\ next.config = c.config
        /\ next.sources = sources
        /\ next.at = IF lacking = {} THEN "examine" ELSE "fetch"
    BY DEF Fields
  <2>4. lacking = {} => \A k \in Keys : k \in found \/ c.sources[k] # None
    <3> SUFFICES ASSUME lacking = {}, NEW k \in Keys, c.sources[k] = None
                 PROVE  k \in found
      OBVIOUS
    <3>1. PICK i \in DOMAIN KeyOrder : KeyOrder[i] = k
      BY TreeAssumptions DEF ToSet
    <3>2. i \in Needed(c)
      BY <3>1 DEF Needed
    <3> QED BY <3>1, <3>2
  <2> HIDE DEF lacking, found
  <2>5. \A k \in Keys : sources[k] = IF k \in found THEN Resolution(k, c.lock[k])
                                     ELSE c.sources[k]
    OBVIOUS
  <2>6. DOMAIN sources = Keys
    OBVIOUS
  <2> HIDE DEF sources
  <2> HIDE DEF next
  <2>7. SourcesOK(next)
    BY <2>2, <2>3, <2>5, <2>6 DEF SourcesOK, SourceGood
  <2>8. next.at = "examine" => \A k \in Keys : SourceGood(next, k)
    BY <2>2, <2>3, <2>4, <2>5, <2>6 DEF SourcesOK, SourceGood
  <2>9. ProcOK(next) /\ next.at \in {"fetch", "examine"}
    BY <2>3, <2>7, <2>8
       DEF ProcOK, Steps, ReadPart, ResolvedPart, ExaminedPart, WritingPart
  <2> QED BY <1>3, <2>9
<1> QED BY <1>1, <1>2, <1>3

\* What passes was examined at the pinned commits, and every answer obtained.
LEMMA StatusesPass ==
    ASSUME NEW h \in Hosts, Passes(KubernetesStatuses(h))
    PROVE  NotesGood(Context(h))
<1> DEFINE asked == Asked(PlanQueries, h)
<1>1. \A q \in asked : Required(h[q]) \notin Blocking
  BY DEF Passes, KubernetesStatuses
<1>2. \A q \in asked : h[q] # "absent"
  BY <1>1 DEF Required, Blocking
<1>3. \A i \in DOMAIN PlanQueries : (\A j \in 1..(i - 1) : h[PlanQueries[j]] # "absent")
                                    => PlanQueries[i] \in asked
  BY DEF Asked
<1>4. DOMAIN PlanQueries = 1..4
  BY DEF PlanQueries
<1> HIDE DEF asked
<1>5. PlanQueries[1] \in asked /\ h[PlanQueries[1]] # "absent"
  BY <1>2, <1>3, <1>4
<1>6. PlanQueries[2] \in asked /\ h[PlanQueries[2]] # "absent"
  <2>1. \A j \in 1..(2 - 1) : j = 1
    OBVIOUS
  <2> QED BY <1>2, <1>3, <1>4, <1>5, <2>1
<1>7. PlanQueries[3] \in asked /\ h[PlanQueries[3]] # "absent"
  <2>1. \A j \in 1..(3 - 1) : j = 1 \/ j = 2
    OBVIOUS
  <2> QED BY <1>2, <1>3, <1>4, <1>5, <1>6, <2>1
<1>8. PlanQueries[4] \in asked
  <2>1. \A j \in 1..(4 - 1) : j = 1 \/ j = 2 \/ j = 3
    OBVIOUS
  <2> QED BY <1>3, <1>4, <1>5, <1>6, <1>7, <2>1
<1>9. asked = ToSet(PlanQueries)
  <2>1. asked \subseteq ToSet(PlanQueries)
    BY DEF asked, Asked, ToSet
  <2>2. \A i \in DOMAIN PlanQueries : PlanQueries[i] \in asked
    BY <1>4, <1>5, <1>6, <1>7, <1>8
  <2> QED BY <2>1, <2>2 DEF ToSet
<1>10. /\ DOMAIN Context(h).queries = ToSet(PlanQueries)
       /\ \A q \in asked : Context(h).queries[q] = Required(h[q])
       /\ Context(h).render = Required(h["renderPlatformAssets"])
       /\ \A v \in RenderValidators : Context(h).validators[v] = ValidatorStatus(v, h)
  BY <1>9 DEF Context, asked
<1>11. Passes({Context(h).queries[q] : q \in DOMAIN Context(h).queries})
  BY <1>1, <1>9, <1>10 DEF Passes
<1>12. Required(h["renderPlatformAssets"]) = "PASSED"
  BY DEF Passes, KubernetesStatuses, Required, Blocking
<1>13. Passes({Context(h).validators[v] : v \in RenderValidators})
  BY <1>10 DEF Passes, KubernetesStatuses
<1> QED BY <1>10, <1>11, <1>12, <1>13 DEF NotesGood

-----------------------------------------------------------------------------
(* Every step keeps the invariant.                                         *)

LEMMA Initially == Init => IInv
<1> SUFFICES ASSUME Init PROVE IInv
  OBVIOUS
<1>1. WorldInv /\ LockInUse \in Locks
  BY PackagedIsALock, TreeAssumptions DEF Init, WorldInv, Locks, LockInUse
<1>2. UpdateInv
  BY DEF Init, UpdateInv, NotUpdating
<1>3. DOMAIN proc = Procs /\ (\A p \in Procs : proc[p] = NotRunning)
  BY DEF Init
<1>4. \A p \in Procs : ProcOK(proc[p]) /\ ~Writing(p)
  BY <1>3, NotRunningIsOK DEF Writing
<1>5. BehindInv /\ CalmInv /\ LateInv
  BY <1>4 DEF BehindInv, CalmInv, LateInv
<1>6. CASE manifest = None /\ tree = [path \in AllPaths |-> None]
  BY <1>1, <1>2, <1>3, <1>4, <1>5, <1>6 DEF IInv, TypeInv, ManifestIsBehind
<1>7. CASE /\ manifest = ManifestOf(Generated)
           /\ tree = [path \in AllPaths |-> IF path \in Planned(Generated)
                                            THEN Desired(Generated)[path] ELSE None]
  <2> DEFINE c == Generated
  <2>1. /\ c.config = config /\ c.notes = Context(host)
        /\ c.sources = [k \in Keys |-> Found("cache", LockInUse[k], LockInUse[k])]
    BY DEF Generated, NotRunning
  <2> HIDE DEF c
  <2>2. \A k \in Keys : c.sources[k].commit = LockInUse[k] /\ LockInUse[k] \in Commits
    <3> SUFFICES ASSUME NEW k \in Keys
                 PROVE  c.sources[k].commit = LockInUse[k] /\ LockInUse[k] \in Commits
      OBVIOUS
    <3>1. c.sources[k] = Found("cache", LockInUse[k], LockInUse[k])
      BY <2>1
    <3> QED BY <1>1, <3>1, FoundIsCompared DEF Locks
  <2>3. Templates(c) \in Locks
    BY <2>2 DEF Templates, Locks
  <2>4. Desired(c) \in [PathsOf[Model[config]] -> Artifacts] /\ Planned(c) = PathsOf[Model[config]]
    <3> DEFINE d == [c EXCEPT !.lock = LockInUse]
    <3>1. \A k \in Keys : c.sources[k].commit \in Commits
      BY <2>2
    <3>2. \A path \in PathsOf[Model[config]] : Artifact(path, c) \in Artifacts
      <4> SUFFICES ASSUME NEW path \in PathsOf[Model[config]] PROVE Artifact(path, c) \in Artifacts
        OBVIOUS
      <4>1. Template[path] \in Keys \cup {None}
        BY <1>1, TreeAssumptions DEF WorldInv
      <4>2. c.notes \in Notes
        BY <1>1, <2>1 DEF Notes, WorldInv
      <4> QED BY <1>1, <2>1, <3>1, <4>1, <4>2 DEF Artifact, Artifacts, WorldInv
    <3> QED BY <2>1, <3>2 DEF Desired, Planned
  <2>5. manifest \in Manifests
    BY <1>1, <1>7, <2>1, <2>3, <2>4 DEF c, ManifestOf, Manifests, WorldInv
  <2>6. Tracked = Planned(c) /\ \A path \in Planned(c) : Recorded(path) = Desired(c)[path]
    BY <1>7, <2>5, ContentsDiffer DEF c, Tracked, Recorded, ManifestOf, Planned
  <2>7. ManifestIsBehind
    BY <1>7, <2>6 DEF c, ManifestIsBehind
  <2> QED BY <1>1, <1>2, <1>3, <1>4, <1>5, <1>7, <2>5, <2>7 DEF IInv, TypeInv
<1> QED BY <1>6, <1>7 DEF Init

\* A step of one command before it writes.
LEMMA QuietStep ==
    ASSUME IInv, NEW p \in Procs, NEW d, ProcOK(d), d.at \notin {"files", "seal"},
           proc' = [proc EXCEPT ![p] = d],
           UNCHANGED <<lock, head, remote, update, config, host, treeVars, moves>>
    PROVE  IInv'
<1> USE DEF treeVars
<1>1. TypeInv'
  BY DEF IInv, TypeInv, WorldInv, AllPaths
<1>2. UpdateInv'
  BY DEF IInv, UpdateInv, CandidateIsGood, Base
<1>3. \A q \in Procs : Writing(q)' => q # p /\ Writing(q) /\ proc'[q] = proc[q]
  BY DEF IInv, TypeInv, Writing
<1>4. BehindInv'
  BY <1>3 DEF IInv, BehindInv, Done
<1>5. CalmInv'
  BY <1>3 DEF IInv, CalmInv, Done
<1>6. LateInv'
  BY <1>3 DEF IInv, LateInv
<1>7. ManifestIsBehind'
  BY DEF IInv, ManifestIsBehind, Recorded, Tracked
<1> QED BY <1>1, <1>2, <1>4, <1>5, <1>6, <1>7 DEF IInv

LEMMA BeginStep ==
    ASSUME IInv, NEW p \in Procs, Begin(p)
    PROVE  IInv'
<1>1. PICK op \in Ops :
        Becomes(p, Resolved([NotRunning EXCEPT !.op = op, !.lock = LockInUse, !.config = config]))
  BY DEF Begin
<1> DEFINE c == [NotRunning EXCEPT !.op = op, !.lock = LockInUse, !.config = config]
<1>2. /\ DOMAIN c = Fields /\ c.lock = LockInUse /\ c.config = config
      /\ c.sources = [k \in Keys |-> None]
  BY DEF NotRunning, Fields
<1>3. c.lock \in Locks /\ c.config \in Configs
  BY <1>2, PackagedIsALock DEF IInv, TypeInv, WorldInv, LockInUse, Locks
<1> HIDE DEF c
<1>4. SourcesOK(c)
  BY <1>2 DEF SourcesOK
<1>5. ProcOK(Resolved(c)) /\ Resolved(c).at \in {"idle", "fetch", "examine"}
  BY <1>2, <1>3, <1>4, ResolvedIsOK DEF IInv, TypeInv
<1>6. proc' = [proc EXCEPT ![p] = Resolved(c)]
  BY <1>1 DEF Becomes, c
<1> QED BY <1>5, <1>6, QuietStep DEF Begin, sourceVars

LEMMA FetchStep ==
    ASSUME IInv, NEW p \in Procs, Fetch(p)
    PROVE  IInv'
<1> DEFINE c == proc[p]
           k == NextKey(c)
           pin == c.lock[k]
           d == [c EXCEPT !.sources[k] = Found("lock-remote", pin, pin)]
<1>1. ProcOK(c) /\ c.at = "fetch"
  BY DEF IInv, TypeInv, Fetch, At
<1>2. c.lock \in Locks /\ c.config \in Configs /\ SourcesOK(c) /\ DOMAIN c = Fields
  BY <1>1 DEF ProcOK, ReadPart
<1>3. \A x \in Keys : c.lock[x] \in Commits
  BY <1>2 DEF Locks
<1>4. /\ DOMAIN d = Fields /\ d.lock = c.lock /\ d.config = c.config
      /\ d.sources = [c.sources EXCEPT ![k] = Found("lock-remote", pin, pin)]
  BY <1>2 DEF Fields
<1>5. Found("lock-remote", pin, pin).commit = pin
  BY FoundIsCompared
<1>6. proc' \in {[proc EXCEPT ![p] = NotRunning], [proc EXCEPT ![p] = Resolved(d)]}
  BY DEF Fetch, Ends, Becomes
<1> HIDE DEF d, k
<1>7. SourcesOK(d)
  <2>1. DOMAIN d.sources = Keys
    BY <1>2, <1>4 DEF SourcesOK
  <2>2. \A x \in Keys : d.sources[x] = IF x = k THEN Found("lock-remote", pin, pin) ELSE c.sources[x]
    BY <1>2, <1>4 DEF SourcesOK
  <2>3. \A x \in Keys : x = k => SourceGood(d, x)
    BY <2>2, <1>3, <1>4, <1>5 DEF SourceGood
  <2>4. \A x \in Keys : x # k => d.sources[x] = None \/ SourceGood(d, x)
    BY <2>2, <1>2, <1>4 DEF SourcesOK, SourceGood
  <2> QED BY <2>1, <2>3, <2>4 DEF SourcesOK
<1>8. ProcOK(Resolved(d)) /\ Resolved(d).at \in {"idle", "fetch", "examine"}
  BY <1>2, <1>4, <1>7, ResolvedIsOK DEF IInv, TypeInv
<1> QED BY <1>6, <1>8, NotRunningIsOK, QuietStep DEF Fetch

\* A composition that passes has examined every template at its pinned commit.
LEMMA ValidatedIsPinned ==
    ASSUME IInv, NEW c, SourcesOK(c), \A k \in Keys : SourceGood(c, k), c.lock \in Locks,
           Validated(c)
    PROVE  /\ \A k \in Keys : c.sources[k].commit = c.lock[k] /\ Runs(k, c.sources[k])
           /\ NotesGood(NotesOf(c))
<1>1. \A k \in Keys : c.sources[k].matches /\ Passes(StatusesOf(k, c))
  BY DEF Validated
<1>2. \A k \in Keys : c.sources[k].commit = c.lock[k]
  BY <1>1 DEF SourceGood
<1>3. \A k \in Keys : Runs(k, c.sources[k])
  BY <1>1 DEF StatusesOf, Passes, Blocking
<1>4. StatusesOf("kubernetes", c) = KubernetesStatuses(host)
  BY <1>3, TreeAssumptions DEF StatusesOf
<1>5. NotesOf(c) = Context(host)
  BY <1>3, TreeAssumptions DEF NotesOf
<1>6. Passes(KubernetesStatuses(host))
  BY <1>1, <1>4, TreeAssumptions
<1> QED BY <1>2, <1>3, <1>5, <1>6, StatusesPass DEF IInv, TypeInv, WorldInv

LEMMA ExamineStep ==
    ASSUME IInv, NEW p \in Procs, Examine(p)
    PROVE  IInv'
<1> DEFINE c == proc[p]
           examined == [k \in Keys |-> IF Runs(k, c.sources[k]) THEN Archived(k, c.sources[k])
                                      ELSE None]
           d == [c EXCEPT !.examined = examined, !.notes = NotesOf(c), !.ok = Validated(c),
                          !.at = IF c.op.name = "generate" THEN "plan" ELSE "report"]
<1>1. ProcOK(c) /\ c.at = "examine"
  BY DEF IInv, TypeInv, Examine, At
<1>2. /\ c.lock \in Locks /\ c.config \in Configs /\ SourcesOK(c) /\ DOMAIN c = Fields
      /\ \A k \in Keys : SourceGood(c, k)
  BY <1>1 DEF ProcOK, ReadPart, ResolvedPart
<1>3. proc' = [proc EXCEPT ![p] = d]
  BY DEF Examine, Becomes
<1>4. /\ DOMAIN d = Fields /\ d.at \in {"plan", "report"}
      /\ d.lock = c.lock /\ d.config = c.config /\ d.sources = c.sources
      /\ d.examined = examined /\ d.notes = NotesOf(c)
  BY <1>2 DEF Fields
<1>5. d.ok = Validated(c)
  BY <1>2, Zenon DEF Fields
<1>6. NotesOf(c) \in Notes
  BY DEF NotesOf, Notes, IInv, TypeInv, WorldInv
<1>7. d.ok => Validated(c)
  BY <1>5, Zenon
<1>8. Validated(c) => Pinned(d)
  <2> SUFFICES ASSUME Validated(c) PROVE Pinned(d)
    OBVIOUS
  <2>1. /\ \A k \in Keys : c.sources[k].commit = c.lock[k] /\ Runs(k, c.sources[k])
        /\ NotesGood(NotesOf(c))
    BY <1>2, ValidatedIsPinned
  <2>2. examined = [k \in Keys |-> c.lock[k]] /\ Templates(d) = [k \in Keys |-> c.lock[k]]
    BY <1>4, <2>1 DEF Archived, Templates
  <2>3. c.lock = [k \in Keys |-> c.lock[k]]
    BY <1>2 DEF Locks
  <2> HIDE DEF d, examined
  <2> QED BY <1>4, <2>1, <2>2, <2>3 DEF Pinned
<1> HIDE DEF d
<1>9. ProcOK(d)
  BY <1>2, <1>4, <1>6, <1>7, <1>8
     DEF ProcOK, Steps, ReadPart, ResolvedPart, ExaminedPart, WritingPart, SourcesOK, SourceGood
<1> QED BY <1>3, <1>4, <1>9, QuietStep DEF Examine, sourceVars

LEMMA EndStep ==
    ASSUME IInv, NEW p \in Procs, Report(p) \/ WriteBlocked(p)
    PROVE  IInv'
<1>1. proc' = [proc EXCEPT ![p] = NotRunning]
  BY DEF Report, WriteBlocked, Ends, Becomes
<1> QED BY <1>1, NotRunningIsOK, QuietStep DEF Report, WriteBlocked, sourceVars

LEMMA PlanStep ==
    ASSUME IInv, NEW p \in Procs, Plan(p)
    PROVE  IInv'
<1> DEFINE d == [proc[p] EXCEPT !.at = "write"]
<1>1. proc' = [proc EXCEPT ![p] = NotRunning] \/ (proc[p].ok /\ proc' = [proc EXCEPT ![p] = d])
  BY DEF Plan, Ends, Becomes
<1>2. ProcOK(proc[p]) /\ proc[p].at = "plan"
  BY DEF IInv, TypeInv, Plan, At
<1>3. /\ DOMAIN d = Fields /\ d.at = "write" /\ d.ok = proc[p].ok
      /\ d.lock = proc[p].lock /\ d.config = proc[p].config /\ d.sources = proc[p].sources
      /\ d.examined = proc[p].examined /\ d.notes = proc[p].notes
  BY <1>2 DEF ProcOK, Fields
<1> HIDE DEF d
<1>4. proc[p].ok => ProcOK(d)
  BY <1>2, <1>3 DEF ProcOK, Steps, ReadPart, ResolvedPart, ExaminedPart, WritingPart,
                    SourcesOK, SourceGood, Pinned, Templates
<1> QED BY <1>1, <1>3, <1>4, NotRunningIsOK, QuietStep DEF Plan, sourceVars

\* The manifest holds no content of a user.
LEMMA RecordedIsArtifact ==
    ASSUME IInv, NEW path
    PROVE  Recorded(path) \in Artifacts \cup {None} /\ Recorded(path) # Edited
<1>1. CASE manifest = None
  BY <1>1, ContentsDiffer DEF Recorded, Tracked
<1>2. CASE manifest \in Manifests
  <2>1. PICK c \in Configs : manifest.files \in [PathsOf[Model[c]] -> Artifacts]
    BY <1>2 DEF Manifests
  <2>2. \A x \in DOMAIN manifest.files : manifest.files[x] \in Artifacts
    BY <2>1
  <2>3. Recorded(path) \in Artifacts \cup {None}
    BY <2>2 DEF Recorded, Tracked
  <2> QED BY <2>3, ContentsDiffer
<1> QED BY <1>1, <1>2 DEF IInv, TypeInv

\* What a command that has examined all wants to write.
LEMMA WriterIsTyped ==
    ASSUME IInv, NEW p \in Procs, proc[p].at \notin {"idle", "fetch", "examine"}
    PROVE  /\ Desired(proc[p]) \in [PathsOf[Model[proc[p].config]] -> Artifacts]
           /\ Planned(proc[p]) = PathsOf[Model[proc[p].config]]
           /\ Planned(proc[p]) # {} /\ Planned(proc[p]) \subseteq ToSet(Paths)
           /\ proc[p].config \in Configs
<1>1. ProcOK(proc[p])
  BY DEF IInv, TypeInv
<1>2. /\ proc[p].config \in Configs /\ proc[p].notes \in Notes
      /\ \A k \in Keys : SourceGood(proc[p], k)
  BY <1>1 DEF ProcOK, ReadPart, ResolvedPart, ExaminedPart
<1> QED BY <1>2, DesiredIsTyped

LEMMA WriteStep ==
    ASSUME IInv, NEW p \in Procs, Write(p)
    PROVE  IInv'
<1> DEFINE c == proc[p]
           d == [c EXCEPT !.at = "files", !.todo = Planned(c)]
<1>1. CASE Refused(c)
  <2>1. proc' = [proc EXCEPT ![p] = NotRunning] /\ crossed' = crossed
    BY <1>1 DEF Write, Ends, Becomes, IInv, TypeInv, WorldInv
  <2> QED BY <2>1, NotRunningIsOK, QuietStep DEF Write, sourceVars, treeVars
<1>2. CASE ~Refused(c)
  <2>1. /\ proc' = [proc EXCEPT ![p] = d]
        /\ crossed' = (crossed \/ \E q \in Procs \ {p} : Writing(q))
        /\ UNCHANGED <<lock, head, remote, update, config, host, tree, manifest, unsealed, moves>>
    BY <1>2 DEF Write, Becomes, sourceVars
  <2>2. ProcOK(c) /\ c.at = "write"
    BY DEF IInv, TypeInv, Write, At
  <2>3. /\ DOMAIN d = Fields /\ d.at = "files" /\ d.ok = c.ok /\ d.op = c.op
        /\ d.lock = c.lock /\ d.config = c.config /\ d.sources = c.sources
        /\ d.examined = c.examined /\ d.notes = c.notes /\ d.todo = Planned(c)
        /\ d.late = c.late
    BY <2>2 DEF ProcOK, Fields
  <2>4. Desired(d) = Desired(c) /\ Planned(d) = Planned(c) /\ Templates(d) = Templates(c)
    BY <2>3 DEF Planned, Desired, Artifact, Templates
  <2>5. Planned(c) # {} /\ Planned(c) \subseteq AllPaths
    BY <2>2, WriterIsTyped DEF AllPaths
  <2>6. \A path \in AllPaths : path \in Planned(c) \/ tree[path] = None
    BY <1>2 DEF Refused, Unowned, Stale, Present
  <2>7. ~c.op.force => \A path \in Planned(c) : tree[path] # Edited
    <3> SUFFICES ASSUME ~c.op.force, NEW path \in Planned(c), tree[path] = Edited
                 PROVE  FALSE
      OBVIOUS
    <3>1. path \notin Unsafe(c) /\ path \notin Conflicts(c)
      BY <1>2 DEF Refused
    <3>2. path \in Present
      BY <2>5, ContentsDiffer DEF Present
    <3>3. tree[path] = Recorded(path)
      BY <3>1, <3>2 DEF Conflicts
    <3> QED BY <3>3, RecordedIsArtifact
  <2> HIDE DEF d
  <2>8. ProcOK(d)
    BY <2>2, <2>3, <2>4, <2>5
       DEF ProcOK, Steps, ReadPart, ResolvedPart, ExaminedPart, WritingPart,
           SourcesOK, SourceGood, Pinned
  <2>9. TypeInv'
    BY <2>1, <2>8 DEF IInv, TypeInv, WorldInv, AllPaths
  <2>10. UpdateInv'
    BY <2>1 DEF IInv, UpdateInv, CandidateIsGood, Base
  <2>11. proc'[p] = d /\ \A q \in Procs : q # p => proc'[q] = proc[q] /\ Writing(q)' = Writing(q)
    BY <2>1 DEF IInv, TypeInv, Writing
  <2>12. BehindInv'
    <3> SUFFICES ASSUME ~crossed'
                 PROVE  /\ \A q, r \in Procs : Writing(q)' /\ Writing(r)' => q = r
                        /\ \A q \in Procs : Writing(q)' => \A path \in AllPaths :
                              \/ tree'[path] \in {None, Edited, Irregular, Leftover}
                              \/ path \in proc'[q].todo \/ Done(proc[q], path)'
      BY DEF BehindInv, AllPaths
    <3>1. \A q \in Procs : Writing(q)' => q = p
      BY <2>1, <2>11
    <3> QED BY <2>1, <2>3, <2>6, <2>11, <3>1
  <2>13. CalmInv'
    <3> SUFFICES ASSUME NEW q \in Procs, Writing(q)', proc'[q].calm, NEW path \in AllPaths
                 PROVE  \/ path \in proc'[q].todo \/ Done(proc[q], path)'
                        \/ path \notin Planned(proc[q])' /\ tree'[path] = None
      BY DEF CalmInv, AllPaths
    <3>1. CASE q = p
      BY <2>1, <2>3, <2>4, <2>6, <2>11, <3>1
    <3>2. CASE q # p
      BY <2>1, <2>11, <3>2 DEF IInv, CalmInv, Done
    <3> QED BY <3>1, <3>2
  <2>14. LateInv'
    BY <2>1, <2>3, <2>7, <2>11 DEF IInv, LateInv
  <2>15. ManifestIsBehind'
    BY <2>1 DEF IInv, ManifestIsBehind, Recorded, Tracked, AllPaths
  <2> QED BY <2>9, <2>10, <2>12, <2>13, <2>14, <2>15 DEF IInv
<1> QED BY <1>1, <1>2

LEMMA WriteFileStep ==
    ASSUME IInv, NEW p \in Procs, WriteFile(p)
    PROVE  IInv'
<1> DEFINE c == proc[p]
           path == FirstOf(c.todo)
           d == [c EXCEPT !.todo = @ \ {path}, !.at = IF c.todo = {path} THEN "seal" ELSE "files"]
<1>1. /\ proc' = [Upset(proc) EXCEPT ![p] = d]
      /\ tree' = [tree EXCEPT ![path] = Desired(c)[path]]
      /\ unsealed' = unsealed \cup {path}
      /\ UNCHANGED <<lock, head, remote, update, config, host, manifest, crossed, moves>>
  BY DEF WriteFile, Store, sourceVars
<1>2. ProcOK(c) /\ c.at = "files" /\ c.todo # {} /\ c.todo \subseteq Planned(c)
  BY DEF IInv, TypeInv, WriteFile, At, ProcOK, WritingPart
<1>3. /\ Desired(c) \in [Planned(c) -> Artifacts]
      /\ Planned(c) \subseteq ToSet(Paths)
  BY <1>2, WriterIsTyped
<1>4. path \in c.todo /\ path \in Planned(c) /\ path \in AllPaths
  BY <1>2, <1>3, FirstIsOne DEF AllPaths
<1>5. Desired(c)[path] \in Artifacts
  BY <1>3, <1>4
<1>6. /\ DOMAIN d = Fields /\ d.at = (IF c.todo = {path} THEN "seal" ELSE "files")
      /\ d.ok = c.ok /\ d.op = c.op /\ d.todo = c.todo \ {path}
      /\ d.lock = c.lock /\ d.config = c.config /\ d.sources = c.sources
      /\ d.examined = c.examined /\ d.notes = c.notes /\ d.calm = c.calm /\ d.late = c.late
  BY <1>2 DEF ProcOK, Fields
<1>7. Desired(d) = Desired(c) /\ Planned(d) = Planned(c) /\ Templates(d) = Templates(c)
  BY <1>6 DEF Planned, Desired, Artifact, Templates
<1>8. /\ proc'[p] = d /\ DOMAIN proc' = Procs
      /\ \A q \in Procs : q # p => proc'[q] = Upset(proc)[q]
  BY <1>1 DEF IInv, TypeInv, Upset
<1>9. \A q \in Procs : q # p =>
        /\ Alike(proc[q], proc'[q]) /\ proc'[q].late = proc[q].late
        /\ proc'[q].calm => proc[q].at = "idle"
  BY <1>8, UpsetIsAlike DEF IInv, TypeInv, ProcOK
<1>10. /\ tree'[path] = Desired(c)[path] /\ DOMAIN tree' = AllPaths
       /\ \A x \in AllPaths : x # path => tree'[x] = tree[x]
  BY <1>1, <1>4 DEF IInv, TypeInv
<1> HIDE DEF d, path
<1>11. ProcOK(d)
  <2>1. WritingPart(d)
    BY <1>2, <1>4, <1>6, <1>7 DEF WritingPart
  <2> QED BY <1>2, <1>6, <1>7, <2>1
          DEF ProcOK, Steps, ReadPart, ResolvedPart, ExaminedPart, SourcesOK, SourceGood, Pinned
<1>12. \A q \in Procs : ProcOK(proc'[q])
  BY <1>8, <1>9, <1>11, AlikeIsOK DEF IInv, TypeInv
<1>13. TypeInv'
  BY <1>1, <1>8, <1>10, <1>12 DEF IInv, TypeInv, WorldInv, AllPaths
<1>14. UpdateInv'
  BY <1>1 DEF IInv, UpdateInv, CandidateIsGood, Base
<1>15. \A q \in Procs : q # p =>
          /\ proc'[q].at = proc[q].at /\ proc'[q].todo = proc[q].todo
          /\ proc'[q].op = proc[q].op
          /\ Desired(proc'[q]) = Desired(proc[q]) /\ Planned(proc'[q]) = Planned(proc[q])
  BY <1>9, AlikeIsOK DEF Alike
<1>16. Writing(p) /\ \A q \in Procs : Writing(q)' => Writing(q)
  BY <1>2, <1>15 DEF Writing
<1>17. \A x \in AllPaths : x \notin d.todo /\ x \notin c.todo => x # path
  BY <1>4
<1>18. BehindInv'
  <2> SUFFICES ASSUME ~crossed'
               PROVE  /\ \A q, r \in Procs : Writing(q)' /\ Writing(r)' => q = r
                      /\ \A q \in Procs : Writing(q)' => \A x \in AllPaths :
                            \/ tree'[x] \in {None, Edited, Irregular, Leftover}
                            \/ x \in proc'[q].todo \/ Done(proc[q], x)'
    BY DEF BehindInv, AllPaths
  <2>1. \A q, r \in Procs : Writing(q) /\ Writing(r) => q = r
    BY <1>1 DEF IInv, BehindInv
  <2>2. \A q, r \in Procs : Writing(q)' /\ Writing(r)' => q = r
    BY <1>16, <2>1
  <2>3. \A q \in Procs : Writing(q)' => q = p
    BY <1>16, <2>1
  <2>4. \A x \in AllPaths : tree[x] \in {None, Edited, Irregular, Leftover}
                           \/ x \in c.todo \/ Done(c, x)
    BY <1>1, <1>16 DEF IInv, BehindInv
  <2>5. ASSUME NEW x \in AllPaths
        PROVE  \/ tree'[x] \in {None, Edited, Irregular, Leftover}
               \/ x \in d.todo \/ (x \in Planned(d) /\ tree'[x] = Desired(d)[x])
    <3>1. CASE x = path
      BY <1>4, <1>7, <1>10, <3>1 DEF Done
    <3>2. CASE x # path
      BY <1>6, <1>7, <1>10, <2>4, <3>2 DEF Done
    <3> QED BY <3>1, <3>2
  <2> QED BY <1>8, <2>2, <2>3, <2>5 DEF Done
<1>19. CalmInv'
  <2> SUFFICES ASSUME NEW q \in Procs, Writing(q)', proc'[q].calm, NEW x \in AllPaths
               PROVE  \/ x \in proc'[q].todo \/ Done(proc[q], x)'
                      \/ x \notin Planned(proc[q])' /\ tree'[x] = None
    BY DEF CalmInv, AllPaths
  <2>1. q = p
    BY <1>9, <1>15 DEF Writing
  <2>2. c.calm
    BY <1>6, <1>8, <2>1
  <2>3. x \in c.todo \/ Done(c, x) \/ (x \notin Planned(c) /\ tree[x] = None)
    BY <1>16, <2>2 DEF IInv, CalmInv
  <2>4. CASE x = path
    BY <1>4, <1>7, <1>8, <1>10, <2>1, <2>4 DEF Done
  <2>5. CASE x # path
    BY <1>6, <1>7, <1>8, <1>10, <2>1, <2>3, <2>5 DEF Done
  <2> QED BY <2>4, <2>5
<1>20. LateInv'
  <2> SUFFICES ASSUME NEW q \in Procs, Writing(q)', ~proc'[q].op.force,
                      NEW x \in proc'[q].todo, tree'[x] = Edited
               PROVE  x \in proc'[q].late
    BY DEF LateInv
  <2>1. proc'[q].op = proc[q].op /\ proc'[q].late = proc[q].late /\ proc'[q].todo \subseteq proc[q].todo
    BY <1>6, <1>8, <1>9, <1>15
  <2>2. x \in AllPaths
    <3>1. q = p => x \in Planned(c)
      BY <1>2, <2>1
    <3>2. q # p => proc[q].todo \subseteq Planned(proc[q]) \/ proc[q].todo = {}
      BY <1>16 DEF Writing, IInv, TypeInv, ProcOK, WritingPart
    <3>3. Planned(proc[q]) \subseteq ToSet(Paths)
      BY <1>16, WriterIsTyped DEF Writing
    <3> QED BY <1>3, <2>1, <3>1, <3>2, <3>3 DEF AllPaths
  <2>3. tree[x] = Edited
    BY <1>5, <1>10, <2>2, ContentsDiffer
  <2> QED BY <1>16, <2>1, <2>3 DEF IInv, LateInv
<1>21. ManifestIsBehind'
  <2> SUFFICES ASSUME NEW x \in AllPaths
               PROVE  tree'[x] \in {None, Edited, Irregular, Leftover} \/ x \in unsealed' \/ crossed'
                      \/ tree'[x] = Recorded(x)'
    BY DEF ManifestIsBehind, AllPaths
  <2> QED BY <1>1, <1>10 DEF IInv, ManifestIsBehind, Recorded, Tracked
<1> QED BY <1>13, <1>14, <1>18, <1>19, <1>20, <1>21 DEF IInv

\* A step of others: commands end or find their surroundings changed, and what
\* appears in the tree is not a command's artifact.
Aside(q) ==
    \/ proc'[q] = NotRunning
    \/ /\ Alike(proc[q], proc'[q])
       /\ proc[q].late \subseteq proc'[q].late
       /\ Writing(q) => ~proc'[q].calm \/ (proc'[q] = proc[q] /\ tree' = tree)
LEMMA OthersStep ==
    ASSUME IInv, WorldInv', UpdateInv', ManifestIsBehind', crossed' = crossed,
           manifest' = None \/ manifest' \in Manifests,
           DOMAIN tree' = AllPaths, DOMAIN proc' = Procs,
           \A q \in Procs : Aside(q),
           \A path \in AllPaths :
              \/ tree'[path] = tree[path]
              \/ tree'[path] \in {None, Irregular, Leftover}
              \/ /\ tree'[path] = Edited
                 /\ \A q \in Procs : Writing(q) => path \in proc'[q].late
    PROVE  IInv'
<1>1. \A q \in Procs : Writing(q)' =>
        /\ Writing(q) /\ proc'[q].todo = proc[q].todo /\ proc'[q].op = proc[q].op
        /\ proc[q].late \subseteq proc'[q].late
        /\ ~proc'[q].calm \/ (proc'[q] = proc[q] /\ tree' = tree)
        /\ Desired(proc'[q]) = Desired(proc[q]) /\ Planned(proc'[q]) = Planned(proc[q])
  <2> SUFFICES ASSUME NEW q \in Procs, Writing(q)'
               PROVE  /\ Writing(q) /\ proc'[q].todo = proc[q].todo /\ proc'[q].op = proc[q].op
                      /\ proc[q].late \subseteq proc'[q].late
                      /\ ~proc'[q].calm \/ (proc'[q] = proc[q] /\ tree' = tree)
                      /\ Desired(proc'[q]) = Desired(proc[q])
                      /\ Planned(proc'[q]) = Planned(proc[q])
    OBVIOUS
  <2>1. proc'[q] # NotRunning
    BY NotRunningIsOK DEF Writing
  <2>2. Alike(proc[q], proc'[q]) /\ Aside(q)
    BY <2>1 DEF Aside
  <2>3. Writing(q) /\ proc'[q].todo = proc[q].todo /\ proc'[q].op = proc[q].op
    BY <2>2 DEF Alike, Writing
  <2> QED BY <2>1, <2>2, <2>3, AlikeIsOK DEF Aside
<1>2. \A q \in Procs : ProcOK(proc'[q])
  BY AlikeIsOK, NotRunningIsOK DEF Aside, IInv, TypeInv
<1>3. TypeInv'
  BY <1>2 DEF TypeInv, AllPaths
<1>4. BehindInv'
  <2> SUFFICES ASSUME ~crossed'
               PROVE  /\ \A q, r \in Procs : Writing(q)' /\ Writing(r)' => q = r
                      /\ \A q \in Procs : Writing(q)' => \A x \in AllPaths :
                            \/ tree'[x] \in {None, Edited, Irregular, Leftover}
                            \/ x \in proc'[q].todo \/ Done(proc[q], x)'
    BY DEF BehindInv, AllPaths
  <2>1. \A q, r \in Procs : Writing(q)' /\ Writing(r)' => q = r
    BY <1>1 DEF IInv, BehindInv
  <2>2. \A q \in Procs : Writing(q)' => \A x \in AllPaths :
           \/ tree'[x] \in {None, Edited, Irregular, Leftover}
           \/ x \in proc'[q].todo \/ Done(proc[q], x)'
    BY <1>1 DEF IInv, BehindInv, Done
  <2> QED BY <2>1, <2>2
<1>5. CalmInv'
  <2> SUFFICES ASSUME NEW q \in Procs, Writing(q)', proc'[q].calm, NEW x \in AllPaths
               PROVE  \/ x \in proc'[q].todo \/ Done(proc[q], x)'
                      \/ x \notin Planned(proc[q])' /\ tree'[x] = None
    BY DEF CalmInv, AllPaths
  <2>1. Writing(q) /\ proc[q].calm /\ proc'[q] = proc[q] /\ tree' = tree
    BY <1>1
  <2>2. Desired(proc'[q]) = Desired(proc[q]) /\ Planned(proc'[q]) = Planned(proc[q])
    BY <1>1
  <2>3. x \in proc[q].todo \/ Done(proc[q], x) \/ (x \notin Planned(proc[q]) /\ tree[x] = None)
    BY <2>1 DEF IInv, CalmInv
  <2> QED BY <2>1, <2>2, <2>3 DEF Done
<1>6. LateInv'
  <2> SUFFICES ASSUME NEW q \in Procs, Writing(q)', ~proc'[q].op.force,
                      NEW x \in proc'[q].todo, tree'[x] = Edited
               PROVE  x \in proc'[q].late
    BY DEF LateInv
  <2>1. Writing(q) /\ x \in proc[q].todo /\ ~proc[q].op.force
    BY <1>1
  <2>2. x \in AllPaths
    <3>1. x \in Planned(proc[q])
      BY <2>1 DEF Writing, IInv, TypeInv, ProcOK, WritingPart
    <3>2. Planned(proc[q]) \subseteq ToSet(Paths)
      BY <2>1, WriterIsTyped DEF Writing
    <3> QED BY <3>1, <3>2 DEF AllPaths
  <2>3. tree'[x] = tree[x] \/ x \in proc'[q].late
    BY <2>1, <2>2, ContentsDiffer
  <2>4. tree[x] = Edited => x \in proc[q].late
    BY <2>1 DEF IInv, LateInv
  <2> QED BY <1>1, <2>3, <2>4
<1> QED BY <1>3, <1>4, <1>5, <1>6 DEF IInv

\* Where no command writes an artifact, the manifest stays behind.
LEMMA StaysBehind ==
    ASSUME IInv, manifest' = manifest, unsealed' = unsealed, crossed' = crossed,
           \A path \in AllPaths : \/ tree'[path] = tree[path]
                                  \/ tree'[path] \in {None, Edited, Irregular, Leftover}
    PROVE  ManifestIsBehind'
BY DEF IInv, ManifestIsBehind, Recorded, Tracked, AllPaths

LEMMA UpsetIsAside ==
    ASSUME IInv, NEW q \in Procs, proc'[q] = Upset(proc)[q]
    PROVE  Aside(q)
<1>1. DOMAIN proc = Procs /\ DOMAIN proc[q] = Fields
  BY DEF IInv, TypeInv, ProcOK
<1>2. /\ Alike(proc[q], Upset(proc)[q]) /\ Upset(proc)[q].late = proc[q].late
      /\ Upset(proc)[q].calm => proc[q].at = "idle"
  BY <1>1, UpsetIsAlike
<1> QED BY <1>2 DEF Aside, Writing

LEMMA SealStep ==
    ASSUME IInv, NEW p \in Procs, Seal(p)
    PROVE  IInv'
<1> DEFINE c == proc[p]
<1>1. /\ manifest' = ManifestOf(c) /\ unsealed' = {}
      /\ proc' = [Upset(proc) EXCEPT ![p] = NotRunning]
      /\ UNCHANGED <<lock, head, remote, update, config, host, tree, crossed, moves>>
      /\ c.at = "seal"
  BY DEF Seal, sourceVars, At
<1>2. /\ c.todo = {} /\ c.config \in Configs /\ Templates(c) \in Locks
  BY <1>1 DEF IInv, TypeInv, ProcOK, WritingPart, ReadPart, ExaminedPart, Pinned
<1>3. /\ Desired(c) \in [PathsOf[Model[c.config]] -> Artifacts]
      /\ Planned(c) = PathsOf[Model[c.config]]
  BY <1>1, WriterIsTyped
<1>4. manifest' \in Manifests /\ manifest'.files = Desired(c)
  BY <1>1, <1>2, <1>3 DEF ManifestOf, Manifests
<1>5. \A path \in Planned(c) : Recorded(path)' = Desired(c)[path]
  BY <1>4, ContentsDiffer DEF Recorded, Tracked, Planned
<1>6. ManifestIsBehind'
  <2> SUFFICES ASSUME NEW x \in AllPaths, ~crossed
               PROVE  tree[x] \in {None, Edited, Irregular, Leftover} \/ tree[x] = Recorded(x)'
    BY <1>1 DEF ManifestIsBehind, AllPaths
  <2>1. tree[x] \in {None, Edited, Irregular, Leftover} \/ Done(c, x)
    BY <1>1, <1>2 DEF IInv, BehindInv, Writing
  <2> QED BY <2>1, <1>5 DEF Done
<1>7. DOMAIN proc' = Procs /\ \A q \in Procs : Aside(q)
  BY <1>1, UpsetIsAside DEF Aside, Upset
<1>8. WorldInv' /\ UpdateInv'
  BY <1>1 DEF IInv, TypeInv, WorldInv, UpdateInv, CandidateIsGood, Base
<1> QED BY <1>1, <1>4, <1>6, <1>7, <1>8, OthersStep DEF IInv, TypeInv

LEMMA StopStep ==
    ASSUME IInv, NEW p \in Procs, Stop(p)
    PROVE  IInv'
<1>1. /\ proc' = [Upset(proc) EXCEPT ![p] = NotRunning]
      /\ tree' = tree \/ tree' = [tree EXCEPT ![Stray] = Leftover]
      /\ moves' = moves + 1
      /\ UNCHANGED <<lock, head, remote, update, config, host, manifest, unsealed, crossed>>
  BY DEF Stop, Store, sourceVars
<1>2. /\ DOMAIN tree' = AllPaths
      /\ \A path \in AllPaths : tree'[path] = tree[path] \/ tree'[path] = Leftover
  BY <1>1 DEF IInv, TypeInv
<1>3. DOMAIN proc' = Procs /\ \A q \in Procs : Aside(q)
  BY <1>1, UpsetIsAside DEF Aside, Upset
<1>4. WorldInv' /\ UpdateInv'
  BY <1>1 DEF IInv, TypeInv, WorldInv, UpdateInv, CandidateIsGood, Base
<1>5. ManifestIsBehind'
  BY <1>1, <1>2, StaysBehind
<1> QED BY <1>1, <1>2, <1>3, <1>4, <1>5, OthersStep DEF IInv, TypeInv

LEMMA UserEditsStep ==
    ASSUME IInv, moves' = moves + 1, UserEdits
    PROVE  IInv'
<1>1. PICK path \in AllPaths, content \in {Edited, Irregular, None} :
        tree' = [tree EXCEPT ![path] = content] /\ proc' = Disturbed(proc, path)
  BY DEF UserEdits, Store
<1>2. UNCHANGED <<lock, head, remote, update, config, host, manifest, unsealed, crossed>>
  BY DEF UserEdits, sourceVars
<1>3. \A q \in Procs : /\ Alike(proc[q], proc'[q])
                       /\ Writing(q) => proc'[q].late = proc[q].late \cup {path}
                       /\ proc'[q].calm => proc[q].at = "idle"
  BY <1>1, DisturbedIsAlike DEF IInv, TypeInv, ProcOK
<1>4. \A q \in Procs : proc[q].late \subseteq proc'[q].late
  <2> SUFFICES ASSUME NEW q \in Procs PROVE proc[q].late \subseteq proc'[q].late
    OBVIOUS
  <2>1. DOMAIN proc = Procs /\ DOMAIN proc[q] = Fields
    BY DEF IInv, TypeInv, ProcOK
  <2> QED BY <1>1, <2>1 DEF Disturbed, Fields
<1>5. DOMAIN proc' = Procs /\ \A q \in Procs : Aside(q)
  BY <1>1, <1>3, <1>4 DEF Aside, Writing, Disturbed
<1>6. /\ DOMAIN tree' = AllPaths
      /\ \A x \in AllPaths :
            \/ tree'[x] = tree[x] \/ tree'[x] \in {None, Irregular, Leftover}
            \/ tree'[x] = Edited /\ \A q \in Procs : Writing(q) => x \in proc'[q].late
  BY <1>1, <1>3 DEF IInv, TypeInv
<1>7. WorldInv' /\ UpdateInv'
  BY <1>2 DEF IInv, TypeInv, WorldInv, UpdateInv, CandidateIsGood, Base
<1>8. ManifestIsBehind'
  BY <1>2, <1>6, StaysBehind
<1> QED BY <1>2, <1>5, <1>6, <1>7, <1>8, OthersStep DEF IInv, TypeInv

\* The configuration, the host, checkouts, locks and repositories change, or an
\* update goes on.
LEMMA ElsewhereStep ==
    ASSUME IInv, WorldInv', UpdateInv', treeVars' = treeVars,
           proc' = proc \/ proc' = Upset(proc)
    PROVE  IInv'
<1>1. UNCHANGED <<tree, manifest, unsealed, crossed>>
  BY DEF treeVars
<1>2. DOMAIN proc' = Procs /\ \A q \in Procs : Aside(q)
  <2>1. CASE proc' = proc
    BY <1>1, <2>1 DEF Aside, Alike, IInv, TypeInv, ProcOK
  <2>2. CASE proc' = Upset(proc)
    BY <2>2, UpsetIsAside DEF Upset
  <2> QED BY <2>1, <2>2
<1>3. ManifestIsBehind'
  BY <1>1, StaysBehind
<1> QED BY <1>1, <1>2, <1>3, OthersStep DEF IInv, TypeInv

LEMMA MoveStep ==
    ASSUME IInv, Move
    PROVE  IInv'
<1>1. moves' = moves + 1 /\ moves \in Nat /\ moves' \in Nat
  BY DEF Move, IInv, TypeInv, WorldInv
<1>2. CASE UserEdits
  BY <1>1, <1>2, UserEditsStep
<1>3. CASE UserConfigures
  <2>1. UNCHANGED <<lock, head, remote, update, treeVars>> /\ proc' = Upset(proc)
    BY <1>3 DEF UserConfigures, sourceVars
  <2>2. config' \in Configs /\ host' \in Hosts
    BY <1>3 DEF UserConfigures, IInv, TypeInv, WorldInv
  <2>3. WorldInv' /\ UpdateInv'
    BY <1>1, <2>1, <2>2
       DEF treeVars, IInv, TypeInv, WorldInv, UpdateInv, CandidateIsGood, Base
  <2> QED BY <2>1, <2>3, ElsewhereStep
<1>4. CASE OwnersMove
  <2>1. UNCHANGED <<update, config, host, treeVars>> /\ proc' = Upset(proc)
    BY <1>4 DEF OwnersMove, EditLock, SwitchCheckout, PushMain
  <2>2. lock' \in Locks \cup {None} /\ remote' \in Locks
    BY <1>4, PackagedIsALock
       DEF OwnersMove, EditLock, SwitchCheckout, PushMain, IInv, TypeInv, WorldInv, Locks
  <2>3. head' \in [Places -> [Keys -> Commits \cup {None}]]
    BY <1>4 DEF OwnersMove, EditLock, SwitchCheckout, PushMain, IInv, TypeInv, WorldInv
  <2>4. WorldInv' /\ UpdateInv'
    BY <1>1, <2>1, <2>2, <2>3
       DEF treeVars, IInv, TypeInv, WorldInv, UpdateInv, CandidateIsGood, Base
  <2> QED BY <2>1, <2>4, ElsewhereStep
<1> QED BY <1>2, <1>3, <1>4 DEF Move

LEMMA UpdateStepKeeps ==
    ASSUME IInv, Update
    PROVE  IInv'
<1>1. /\ UNCHANGED <<head, remote, config, host, treeVars, moves>>
      /\ proc' = proc \/ proc' = Upset(proc)
  BY DEF Update, UpdateStep, UpdateLoad, UpdateHash, UpdateAskRemote, UpdateVerify, UpdateCheck,
         UpdateReplace, UpdateStops
<1>2. lock' \in Locks \cup {None} /\ UpdateInv'
  <2> USE DEF IInv, TypeInv, WorldInv, UpdateInv
  <2>1. CASE UpdateLoad
    BY <2>1 DEF UpdateLoad, NotUpdating
  <2>2. CASE UpdateHash
    BY <2>2 DEF UpdateHash
  <2>3. CASE UpdateAskRemote
    BY <2>3 DEF UpdateAskRemote
  <2>4. CASE UpdateVerify
    BY <2>4 DEF UpdateVerify, CandidateIsGood, Base
  <2>5. CASE UpdateCheck
    BY <2>5 DEF UpdateCheck, CandidateIsGood, Base
  <2>6. CASE UpdateReplace
    BY <2>6 DEF UpdateReplace, NotUpdating
  <2>7. CASE UpdateStops
    BY <2>7 DEF UpdateStops, NotUpdating
  <2> QED BY <2>1, <2>2, <2>3, <2>4, <2>5, <2>6, <2>7 DEF Update, UpdateStep
<1>3. WorldInv'
  BY <1>1, <1>2 DEF IInv, TypeInv, WorldInv, treeVars
<1> QED BY <1>1, <1>2, <1>3, ElsewhereStep

LEMMA Inductive == IInv /\ [Next]_vars => IInv'
<1> SUFFICES ASSUME IInv, [Next]_vars PROVE IInv'
  OBVIOUS
<1>1. CASE Next
  <2>1. CASE \E p \in Procs : Begin(p) \/ Command(p) \/ Stop(p)
    BY <2>1, BeginStep, FetchStep, ExamineStep, EndStep, PlanStep, WriteStep, WriteFileStep,
       SealStep, StopStep DEF Command
  <2> QED BY <1>1, <2>1, MoveStep, UpdateStepKeeps DEF Next
<1>2. CASE UNCHANGED vars
  <2>1. UNCHANGED <<lock, head, remote, update, config, host, treeVars, proc, moves>>
    BY <1>2 DEF vars, sourceVars
  <2>2. WorldInv' /\ UpdateInv'
    BY <2>1 DEF treeVars, IInv, TypeInv, WorldInv, UpdateInv, CandidateIsGood, Base
  <2> QED BY <2>1, <2>2, ElsewhereStep
<1> QED BY <1>1, <1>2

-----------------------------------------------------------------------------
(* The theorems.                                                           *)

THEOREM InvariantHolds == Spec => []IInv
<1>1. Init => IInv
  BY Initially
<1>2. IInv /\ [Next]_vars => IInv'
  BY Inductive
<1> QED BY <1>1, <1>2, PTL DEF Spec

\* Where commands did not write at the same time, a file that composition wrote
\* is the one the manifest records or was written since (manifest.py:385-396).
THEOREM ManifestStaysBehind == Spec => []ManifestIsBehind
<1>1. IInv => ManifestIsBehind
  BY DEF IInv
<1> QED BY <1>1, InvariantHolds, PTL

LEMMA ViewsMeet ==
    ASSUME IInv, NEW p \in Procs, At(p, "report")
    PROVE  /\ IntegrityPasses(proc[p]) =>
                NothingDiffers(proc[p]) /\ Unchanged(proc[p]) = Planned(proc[p])
           /\ (/\ NothingDiffers(proc[p]) /\ Unchanged(proc[p]) = Planned(proc[p])
               /\ manifest.config = proc[p].config /\ manifest.templates = Templates(proc[p]))
                => IntegrityPasses(proc[p])
<1> DEFINE c == proc[p]
<1>1. /\ Desired(c) \in [Planned(c) -> Artifacts]
      /\ Planned(c) # {} /\ Planned(c) \subseteq AllPaths
  BY WriterIsTyped DEF At, AllPaths
<1>2. manifest # None => manifest \in Manifests
  BY DEF IInv, TypeInv
<1>3. \A path \in Planned(c) : Desired(c)[path] \notin {None, Edited, Irregular, Leftover}
  BY <1>1, ContentsDiffer
<1> HIDE DEF c
<1>4. ASSUME IntegrityPasses(c)
      PROVE  NothingDiffers(c) /\ Unchanged(c) = Planned(c)
  <2>1. manifest # None /\ Clean /\ manifest.files = Desired(c)
    BY <1>4 DEF IntegrityPasses
  <2>2. Tracked = Planned(c) /\ Foreign = {}
    BY <2>1 DEF Tracked, Planned, Foreign, Clean
  <2>3. \A path \in Planned(c) : /\ path \in Present /\ Recorded(path) = Desired(c)[path]
                                 /\ tree[path] = Desired(c)[path]
    BY <2>1, <2>2 DEF Clean, Missing, Modified, Recorded
  <2>4. NothingDiffers(c)
    BY <2>2, <2>3 DEF NothingDiffers
  <2>5. Unchanged(c) = Planned(c)
    BY <1>3, <2>3 DEF Unchanged, Unsafe, Conflicts
  <2> QED BY <2>4, <2>5
<1>5. ASSUME NothingDiffers(c), Unchanged(c) = Planned(c),
             manifest.config = c.config, manifest.templates = Templates(c)
      PROVE  IntegrityPasses(c)
  <2>1. \A path \in Planned(c) :
           path \in Present /\ tree[path] = Desired(c)[path] /\ tree[path] = Recorded(path)
    BY <1>5 DEF Unchanged, Conflicts
  <2>2. Planned(c) \subseteq Tracked /\ manifest # None
    BY <1>1, <1>3, <2>1 DEF Recorded, Tracked
  <2>3. Tracked = Planned(c) /\ Untracked = {}
    BY <1>5, <2>2 DEF NothingDiffers, Foreign
  <2>4. Clean
    BY <2>1, <2>3 DEF Clean, Missing, Modified
  <2>5. PICK d \in Configs : manifest.files \in [PathsOf[Model[d]] -> Artifacts]
    BY <1>2, <2>2 DEF Manifests
  <2>6. DOMAIN manifest.files = Planned(c)
    BY <2>2, <2>3 DEF Tracked
  <2>7. \A path \in Planned(c) : manifest.files[path] = Desired(c)[path]
    BY <2>1, <2>2, <2>3 DEF Recorded
  <2>8. manifest.files = Desired(c)
    BY <1>1, <2>5, <2>6, <2>7
  <2> QED BY <1>5, <2>2, <2>4, <2>8 DEF IntegrityPasses
<1> QED BY <1>4, <1>5 DEF c

\* validate, diff and generate agree about one composition
\* (composition.py:284-410, diffing.py:133-319, manifest.py:136-306).
THEOREM ViewsAlwaysAgree == Spec => []ViewsAgree
<1>1. IInv => ViewsAgree
  <2> SUFFICES ASSUME IInv, NEW p \in Procs, At(p, "report")
               PROVE  ValidatePasses(proc[p])
                      <=> /\ DiffPasses(proc[p])
                          /\ Unchanged(proc[p]) = Planned(proc[p])
                          /\ manifest.config = proc[p].config
                          /\ manifest.templates = Templates(proc[p])
    BY DEF ViewsAgree
  <2>1. IntegrityPasses(proc[p]) =>
           manifest.config = proc[p].config /\ manifest.templates = Templates(proc[p])
    BY DEF IntegrityPasses
  <2> QED BY <2>1, ViewsMeet, Zenon DEF ValidatePasses, DiffPasses
<1> QED BY <1>1, InvariantHolds, PTL

\* The manifest changes where a generate ends with it.
LEMMA ManifestIsSealed ==
    ASSUME IInv, Next, NEW p \in Procs, At(p, "seal"), manifest' # manifest,
           proc'[p].at = "idle"
    PROVE  Seal(p)
<1>1. PICK q \in Procs : Seal(q)
  BY DEF Next, Begin, Command, Fetch, Examine, Report, Plan, Write, WriteFile, WriteBlocked,
         Stop, Move, UserEdits, UserConfigures, OwnersMove, Update, treeVars
<1>2. CASE q # p
  <2>1. proc'[p] = Upset(proc)[p] /\ DOMAIN proc = Procs /\ DOMAIN proc[p] = Fields
    BY <1>1, <1>2 DEF Seal, IInv, TypeInv, ProcOK, Upset
  <2>2. proc'[p].at = proc[p].at
    BY <2>1, UpsetIsAlike DEF Alike
  <2> QED BY <2>2 DEF At
<1> QED BY <1>1, <1>2

\* A generate that reaches its manifest undisturbed leaves a tree that validate
\* accepts, whatever was there before (manifest.py:308-400).
THEOREM GenerateAlwaysRepairs == Spec => GenerateRepairs
<1> DEFINE Step ==
        \A p \in Procs :
          (At(p, "seal") /\ manifest' # manifest /\ proc'[p].at = "idle" /\ proc[p].calm)
          => \A c \in {proc[p]} : IntegrityPasses(c)'
<1>1. IInv /\ IInv' /\ [Next]_vars => [Step]_vars
  <2> SUFFICES ASSUME IInv, IInv', Next, NEW p \in Procs, At(p, "seal"), manifest' # manifest,
                      proc'[p].at = "idle", proc[p].calm, NEW c \in {proc[p]}
               PROVE  IntegrityPasses(c)'
    OBVIOUS
  <2>1. /\ c = proc[p] /\ c.at = "seal" /\ c.todo = {}
        /\ manifest' = ManifestOf(c) /\ tree' = tree
    BY ManifestIsSealed DEF Seal, At, IInv, TypeInv, ProcOK, WritingPart
  <2>2. /\ Desired(c) \in [Planned(c) -> Artifacts] /\ Planned(c) \subseteq AllPaths
    BY <2>1, WriterIsTyped DEF AllPaths
  <2>3. \A path \in Planned(c) : Desired(c)[path] # None
    BY <2>2, ContentsDiffer
  <2>4. \A path \in AllPaths : \/ path \in Planned(c) /\ tree[path] = Desired(c)[path]
                               \/ path \notin Planned(c) /\ tree[path] = None
    BY <2>1 DEF IInv, CalmInv, Writing, Done
  <2>5. manifest' # None
    <3>1. c.config \in Configs /\ Templates(c) \in Locks
      BY <2>1 DEF IInv, TypeInv, ProcOK, ReadPart, ExaminedPart, Pinned
    <3>2. Desired(c) \in [PathsOf[Model[c.config]] -> Artifacts]
      BY <2>1, WriterIsTyped
    <3>3. manifest' \in Manifests
      BY <2>1, <3>1, <3>2 DEF ManifestOf, Manifests
    <3> QED BY <3>3, ContentsDiffer
  <2>6. /\ manifest'.config = c.config /\ manifest'.templates = Templates(c)
        /\ manifest'.files = Desired(c)
    BY <2>1 DEF ManifestOf
  <2>7. Tracked' = Planned(c) /\ \A path \in Planned(c) : Recorded(path)' = Desired(c)[path]
    BY <2>5, <2>6 DEF Tracked, Recorded, Planned
  <2>8. Present' = Planned(c)
    BY <2>1, <2>2, <2>3, <2>4 DEF Present, AllPaths
  <2>9. Clean'
    <3>1. Modified' = {}
      BY <2>1, <2>2, <2>4, <2>7 DEF Modified
    <3>2. Missing' = {} /\ Untracked' = {}
      BY <2>7, <2>8 DEF Missing, Untracked
    <3> QED BY <3>1, <3>2 DEF Clean
  <2> QED BY <2>5, <2>6, <2>9 DEF IntegrityPasses, Templates, Desired, Artifact
<1>2. Spec => [][Step]_vars
  BY <1>1, InvariantHolds, Inductive, PTL DEF Spec
<1> QED BY <1>2 DEF GenerateRepairs

\* A manifest is written only for templates that were examined at the commits
\* the lock pinned, with every answer obtained (sources.py:98-156,
\* archives.py:15-50, composition.py:135-225).
THEOREM ExaminedStaysPinned == Spec => ExaminedIsPinned
<1> DEFINE Step ==
        \A p \in Procs : (At(p, "seal") /\ manifest' # manifest /\ proc'[p].at = "idle") =>
          /\ proc[p].examined = proc[p].lock
          /\ manifest'.templates = proc[p].lock
          /\ LET notes == proc[p].notes IN
             /\ DOMAIN notes.queries = ToSet(PlanQueries)
             /\ Passes({notes.queries[q] : q \in DOMAIN notes.queries})
             /\ notes.render = "PASSED"
             /\ Passes({notes.validators[v] : v \in RenderValidators})
<1>1. IInv /\ [Next]_vars => [Step]_vars
  <2> SUFFICES ASSUME IInv, Next, NEW p \in Procs, At(p, "seal"), manifest' # manifest,
                      proc'[p].at = "idle"
               PROVE  /\ proc[p].examined = proc[p].lock
                      /\ manifest'.templates = proc[p].lock
                      /\ NotesGood(proc[p].notes)
    BY DEF NotesGood
  <2>1. manifest' = ManifestOf(proc[p]) /\ proc[p].at = "seal"
    BY ManifestIsSealed DEF Seal, At
  <2>2. Pinned(proc[p])
    BY <2>1 DEF IInv, TypeInv, ProcOK, ExaminedPart
  <2> QED BY <2>1, <2>2 DEF Pinned, ManifestOf
<1>2. Spec => [][Step]_vars
  BY <1>1, InvariantHolds, PTL DEF Spec
<1> QED BY <1>2, PTL DEF ExaminedIsPinned

\* An updated lock has only commits with the required files and the same
\* license (cli.py:1544-1602).
THEOREM UpdateAlwaysKeepsLicense == Spec => UpdateKeepsLicense
<1> DEFINE Step ==
        update.at = "replace" /\ moves' = moves /\ lock' # lock =>
          \A k \in Keys : \/ lock'[k] = Base[k]
                          \/ /\ lock'[k] \in Marked
                             /\ License[lock'[k]] = License[Base[k]]
<1>1. IInv /\ [Next]_vars => [Step]_vars
  <2> SUFFICES ASSUME IInv, Next, update.at = "replace", moves' = moves, lock' # lock,
                      NEW k \in Keys
               PROVE  \/ lock'[k] = Base[k]
                      \/ lock'[k] \in Marked /\ License[lock'[k]] = License[Base[k]]
    OBVIOUS
  <2>1. ~Move
    BY DEF Move, IInv, TypeInv, WorldInv
  <2>2. ~\E p \in Procs : Begin(p) \/ Command(p) \/ Stop(p)
    BY DEF Begin, Command, Fetch, Examine, Report, Plan, Write, WriteFile, WriteBlocked, Seal,
           Stop, sourceVars
  <2>3. UpdateReplace
    BY <2>1, <2>2 DEF Next, Update, UpdateLoad, UpdateStep, UpdateHash, UpdateAskRemote,
                     UpdateVerify, UpdateCheck, UpdateStops
  <2>4. CandidateIsGood(k) /\ lock' = update.candidate
    BY <2>3 DEF UpdateReplace, IInv, UpdateInv
  <2> QED BY <2>4 DEF CandidateIsGood
<1>2. Spec => [][Step]_vars
  BY <1>1, InvariantHolds, PTL DEF Spec
<1> QED BY <1>2 DEF UpdateKeepsLicense

\* No command writes over a symbolic link, and none without --force over what a
\* user changed before the plan that is written (manifest.py:244-258, 327-351;
\* filesystem.py:39-45).
THEOREM UserEditsAlwaysSurvive == Spec => UserEditsSurvive
<1> DEFINE Step ==
        \A path \in AllPaths :
          /\ tree[path] \in {Edited, Irregular}
          /\ tree'[path] # tree[path]
          /\ moves' = moves
          => /\ tree[path] = Edited
             /\ \E p \in Procs : /\ At(p, "files")
                                 /\ proc[p].op.force \/ path \in proc[p].late
<1>1. IInv /\ [Next]_vars => [Step]_vars
  <2> SUFFICES ASSUME IInv, Next, NEW path \in AllPaths, tree[path] \in {Edited, Irregular},
                      tree'[path] # tree[path], moves' = moves
               PROVE  /\ tree[path] = Edited
                      /\ \E p \in Procs : /\ At(p, "files")
                                          /\ proc[p].op.force \/ path \in proc[p].late
    OBVIOUS
  <2>1. ~Move /\ \A p \in Procs : ~Stop(p)
    BY DEF Move, Stop, IInv, TypeInv, WorldInv
  <2>2. PICK p \in Procs : WriteFile(p)
    BY <2>1 DEF Next, Begin, Command, Fetch, Examine, Report, Plan, Write, WriteBlocked, Seal,
                Update, treeVars
  <2>3. At(p, "files") /\ tree[FirstOf(proc[p].todo)] # Irregular
        /\ tree' = [tree EXCEPT ![FirstOf(proc[p].todo)] = Desired(proc[p])[FirstOf(proc[p].todo)]]
    BY <2>2 DEF WriteFile, Store
  <2>4. path = FirstOf(proc[p].todo)
    BY <2>3 DEF IInv, TypeInv
  <2>5. path \in proc[p].todo
    <3>1. proc[p].todo # {} /\ proc[p].todo \subseteq Planned(proc[p])
      BY <2>3 DEF At, IInv, TypeInv, ProcOK, WritingPart
    <3>2. Planned(proc[p]) \subseteq ToSet(Paths)
      BY <2>3, WriterIsTyped DEF At
    <3> QED BY <2>4, <3>1, <3>2, FirstIsOne
  <2> QED BY <2>3, <2>4, <2>5 DEF IInv, LateInv, Writing, At
<1>2. Spec => [][Step]_vars
  BY <1>1, InvariantHolds, PTL DEF Spec
<1> QED BY <1>2 DEF UserEditsSurvive
=============================================================================
